----------------------------- MODULE AssemblyJobs -----------------------------
(***************************************************************************)
(* How uploaded chunks become source maps and debug files.                 *)
(*                                                                         *)
(* A client stores chunks, asks for its file to be assembled and polls; a  *)
(* request reads the file's job, then the chunk table, then queues the job *)
(* in a transaction of its own.  One worker claims a job, joins its chunks,*)
(* stores the result and commits.  Chunks are shared: a job owns those it  *)
(* needs, and who lets go of a chunk last deletes it.                      *)
(***************************************************************************)
EXTENDS Naturals, FiniteSets

CONSTANTS
  Jobs,         \* files to assemble: (bundle_checksum, project_id)
  Chunks,       \* chunk checksums
  Content,      \* the chunks whose bytes are the job's file
  Difs,         \* jobs of kind "dif"; the others are artifact bundles
  DebugOf,      \* the debug ID of each job's file
  Clients,      \* those who poll (sentry-cli), and
  Uploaders,    \* those among them who upload a zip in one request
  JobOf,        \* the job each client wants
  ListOf,       \* the chunks it says the file is made of
  Nobody,
  MaxRetries,   \* assembly_jobs.max_retries (3)
  MaxFaults,    \* bound: database or store failures in a behaviour
  MaxCrashes,   \* bound: kills in a behaviour
  MaxAges,      \* bound: failures that clients hear of too late
  MaxRows       \* bound: rows of one job, each of which replaced the last

ASSUME AssemblyAssumption ==
  /\ IsFiniteSet(Jobs) /\ IsFiniteSet(Clients)
  /\ Content \in [Jobs -> SUBSET Chunks]
  /\ Difs \subseteq Jobs /\ Uploaders \subseteq Clients
  /\ JobOf \in [Clients -> Jobs] /\ ListOf \in [Clients -> SUBSET Chunks]
  /\ MaxRetries \in Nat \ {0}
  /\ {MaxFaults, MaxCrashes, MaxAges, MaxRows} \subseteq Nat
  /\ Nobody \notin Jobs

DebugIds == {DebugOf[j] : j \in Jobs}

VARIABLES
  chunks,   \* the chunk table
  owned,    \* assembly_job_chunks of each job
  state,    \* assembly_jobs.state, "none" without a row
  row,      \* and its row id, counted for each job
  older,    \* the jobs whose created_at is before each job's
  retries,  \* retry_count
  list,     \* the job's chunks
  aged,     \* jobs that failed more than ten minutes ago
  saved,    \* jobs whose file is in the store
  holder,   \* the job whose file each debug ID resolves to
  worker,   \* the job the worker is at, and where
  pc,       \* where each client's request is
  todo,     \* the chunks it still has to store
  seen,     \* the row id its request has read, 0 for none
  reply,    \* what the last request was answered
  faults, crashes, ages,
  stranded  \* history: jobs left "assembling" with nobody at them

jobVars == <<owned, state, row, older, retries, list, aged>>
clientVars == <<pc, todo, seen, reply>>
envVars == <<faults, crashes, ages, stranded>>
vars == <<chunks, jobVars, saved, holder, worker, clientVars, envVars>>

Idle == [job |-> Nobody, step |-> "idle"]
At(j, step) == [job |-> j, step |-> step]
Live == {"created", "assembling"}

\* A job that waits has attempts left: poll_once passes over one that has none.
TypeOK ==
  /\ chunks \subseteq Chunks
  /\ owned \in [Jobs -> SUBSET Chunks]
  /\ state \in [Jobs -> {"none", "created", "assembling", "ok", "error"}]
  /\ row \in [Jobs -> Nat]
  /\ older \in [Jobs -> SUBSET Jobs]
  /\ retries \in [Jobs -> 0..MaxRetries]
  /\ \A j \in Jobs : state[j] \in Live => retries[j] < MaxRetries
  /\ list \in [Jobs -> SUBSET Chunks]
  /\ aged \subseteq Jobs /\ saved \subseteq Jobs
  /\ holder \in [DebugIds -> Jobs \cup {Nobody}]
  /\ worker \in {Idle} \cup {At(j, s) : j \in Jobs, s \in {"join", "store", "commit", "mark"}}
  /\ pc \in [Clients -> {"upload", "look", "forget", "check", "queue", "done"}]
  /\ todo \in [Clients -> SUBSET Chunks]
  /\ seen \in [Clients -> Nat]
  /\ reply \in [Clients -> {"none", "created", "assembling", "ok", "error",
                            "not_found", "failed"}]
  /\ faults \in 0..MaxFaults /\ crashes \in 0..MaxCrashes /\ ages \in 0..MaxAges
  /\ stranded \subseteq Jobs

Init ==
  /\ chunks = {}
  /\ owned = [j \in Jobs |-> {}]
  /\ state = [j \in Jobs |-> "none"]
  /\ row = [j \in Jobs |-> 0]
  /\ older = [j \in Jobs |-> {}]
  /\ retries = [j \in Jobs |-> 0]
  /\ list = [j \in Jobs |-> {}]
  /\ aged = {} /\ saved = {}
  /\ holder = [d \in DebugIds |-> Nobody]
  /\ worker = Idle
  /\ pc = [c \in Clients |-> IF c \in Uploaders THEN "upload" ELSE "look"]
  /\ todo = [c \in Clients |-> IF c \in Uploaders THEN ListOf[c] ELSE {}]
  /\ seen = [c \in Clients |-> 0]
  /\ reply = [c \in Clients |-> "none"]
  /\ faults = 0 /\ crashes = 0 /\ ages = 0 /\ stranded = {}

Fault == faults < MaxFaults /\ faults' = faults + 1 /\ UNCHANGED <<crashes, ages>>
FaultElsewhere == Fault /\ UNCHANGED stranded

-----------------------------------------------------------------------------
(* Requests *)

\* The request ends.  A client that polls stores the chunks it is told are
\* missing, asks again, and stops at "ok" or "error"; an upload is answered 201
\* whatever came of its files.
Reply(c, answer, missing) ==
  /\ reply' = [reply EXCEPT ![c] = answer]
  /\ todo' = [todo EXCEPT ![c] = missing]
  /\ pc' = [pc EXCEPT ![c] =
       IF c \in Uploaders \/ answer \in {"ok", "error"} THEN "done"
       ELSE IF missing # {} THEN "upload" ELSE "look"]

GoTo(c, step) == pc' = [pc EXCEPT ![c] = step] /\ UNCHANGED <<todo, reply>>

\* chunk-upload, or dif_upload before it queues.
StoreChunk(c) ==
  /\ pc[c] = "upload"
  /\ IF todo[c] = {}
     THEN GoTo(c, "look") /\ UNCHANGED chunks
     ELSE \E x \in todo[c] :
            /\ chunks' = chunks \cup {x}
            /\ todo' = [todo EXCEPT ![c] = @ \ {x}]
            /\ UNCHANGED <<pc, reply>>
  /\ UNCHANGED <<jobVars, saved, holder, worker, seen, envVars>>

\* A job under way or finished answers at once.  A finished debug file that
\* another has replaced is forgotten, and a failed job goes on.
Look(c) ==
  LET j == JobOf[c] IN
  /\ pc[c] = "look"
  /\ seen' = [seen EXCEPT ![c] = IF state[j] = "none" THEN 0 ELSE row[j]]
  /\ IF state[j] = "ok" /\ j \in Difs /\ holder[DebugOf[j]] # j THEN GoTo(c, "forget")
     ELSE IF state[j] \notin {"none", "error"} THEN Reply(c, state[j], {})
     ELSE GoTo(c, "check")
  /\ UNCHANGED <<chunks, jobVars, saved, holder, worker, envVars>>

\* Mutant: the row is deleted by its checksum and project.
ForgetByKey(c) ==
  LET j == JobOf[c] IN
  /\ pc[c] = "forget"
  /\ state' = [state EXCEPT ![j] = "none"]
  /\ owned' = [owned EXCEPT ![j] = {}]
  /\ seen' = [seen EXCEPT ![c] = 0]
  /\ GoTo(c, "check")
  /\ UNCHANGED <<chunks, row, older, retries, list, aged, saved, holder, worker, envVars>>

\* dif_reupload deletes the row it has read, by its id.
Forget(c) ==
  LET j == JobOf[c]
      gone == state[j] # "none" /\ row[j] = seen[c]
  IN
  /\ pc[c] = "forget"
  /\ state' = IF gone THEN [state EXCEPT ![j] = "none"] ELSE state
  /\ owned' = IF gone THEN [owned EXCEPT ![j] = {}] ELSE owned
  /\ seen' = [seen EXCEPT ![c] = 0]
  /\ GoTo(c, "check")
  /\ UNCHANGED <<chunks, row, older, retries, list, aged, saved, holder, worker, envVars>>

\* Missing chunks are asked for, but for ten minutes after a failure that is
\* the answer: the failure took the chunks.
Check(c) ==
  /\ pc[c] = "check"
  /\ LET missing == ListOf[c] \ chunks
     IN  IF missing = {} THEN GoTo(c, "queue")
         ELSE IF seen[c] # 0 /\ JobOf[c] \notin aged THEN Reply(c, "error", {})
         ELSE Reply(c, "not_found", missing)
  /\ UNCHANGED <<chunks, jobVars, saved, holder, worker, seen, envVars>>

\* A row that starts over keeps its created_at, a new one comes last.
ComesLast(j) == older' = [k \in Jobs |-> IF k = j THEN Jobs \ {j} ELSE older[k] \ {j}]

\* One transaction: the chunks are still there, the job is new or starts over,
\* and its chunks are its own.  Another request's job is left as it is.
Queue(c) ==
  LET j == JobOf[c]
      missing == ListOf[c] \ chunks
  IN
  /\ pc[c] = "queue"
  /\ row[j] < MaxRows \/ state[j] # "none"
  /\ IF missing = {} /\ state[j] \in {"none", "error"}
     THEN /\ state' = [state EXCEPT ![j] = "created"]
          /\ row' = [row EXCEPT ![j] = IF state[j] = "none" THEN @ + 1 ELSE @]
          /\ IF state[j] = "none" THEN ComesLast(j) ELSE UNCHANGED older
          /\ retries' = [retries EXCEPT ![j] = 0]
          /\ list' = [list EXCEPT ![j] = ListOf[c]]
          /\ owned' = [owned EXCEPT ![j] = ListOf[c]]
          /\ aged' = aged \ {j}
          /\ Reply(c, "created", {})
     ELSE /\ IF missing = {} THEN Reply(c, state[j], {})
             ELSE Reply(c, "not_found", missing)
          /\ UNCHANGED jobVars
  /\ UNCHANGED <<chunks, saved, holder, worker, seen, envVars>>

\* A statement fails: an upload is answered an error, a poll is sent again.
RequestFails(c) ==
  /\ pc[c] # "done"
  /\ FaultElsewhere
  /\ reply' = [reply EXCEPT ![c] = "failed"]
  /\ pc' = [pc EXCEPT ![c] = IF c \in Uploaders THEN "done" ELSE "look"]
  /\ todo' = [todo EXCEPT ![c] = {}]
  /\ UNCHANGED <<chunks, jobVars, saved, holder, worker, seen>>

-----------------------------------------------------------------------------
(* The worker *)

Waits(j) == state[j] = "created" /\ retries[j] < MaxRetries

Oldest(j) == Waits(j) /\ \A k \in older[j] : ~Waits(k)

Claim ==
  /\ worker = Idle
  /\ \E j \in Jobs :
       /\ Oldest(j)
       /\ state' = [state EXCEPT ![j] = "assembling"]
       /\ worker' = At(j, "join")
  /\ UNCHANGED <<chunks, owned, row, older, retries, list, aged, saved, holder, clientVars, envVars>>

\* The claimed row cannot be read back: nobody works on it.
ClaimFails ==
  /\ worker = Idle
  /\ Fault
  /\ \E j \in Jobs :
       /\ Oldest(j)
       /\ state' = [state EXCEPT ![j] = "assembling"]
       /\ stranded' = stranded \cup {j}
  /\ UNCHANGED <<chunks, owned, row, older, retries, list, aged, saved, holder, worker, clientVars>>

\* join_chunks: every chunk, in a size and with the checksum that was promised,
\* and what they make up is a bundle or a debug file.
Join ==
  /\ worker.step = "join"
  /\ LET j == worker.job
         joined == list[j] \subseteq chunks /\ list[j] = Content[j]
     IN worker' = At(j, IF joined THEN "store" ELSE "mark")
  /\ UNCHANGED <<chunks, jobVars, saved, holder, clientVars, envVars>>

\* The store has the file, whatever becomes of the transaction.
Save ==
  /\ worker.step = "store"
  /\ saved' = saved \cup {worker.job}
  /\ worker' = At(worker.job, "commit")
  /\ UNCHANGED <<chunks, jobVars, holder, clientVars, envVars>>

\* The database, the disk or the store fails, and the transaction with it.
AssembleFails ==
  /\ worker.step \in {"join", "store", "commit"}
  /\ FaultElsewhere
  /\ worker' = At(worker.job, "mark")
  /\ UNCHANGED <<chunks, jobVars, saved, holder, clientVars>>

\* The chunks among xs that j owned alone, or nobody did.
OnlyOf(j, xs) == {x \in xs : \A other \in Jobs \ {j} : x \notin owned[other]}

\* Mutant: a finished job deletes its chunks whoever owns them.
FinishTakesAll ==
  /\ worker.step = "commit"
  /\ LET j == worker.job
     IN  /\ state' = [state EXCEPT ![j] = "ok"]
         /\ owned' = [owned EXCEPT ![j] = {}]
         /\ chunks' = chunks \ list[j]
         /\ holder' = [holder EXCEPT ![DebugOf[j]] = j]
  /\ worker' = Idle
  /\ UNCHANGED <<row, older, retries, list, aged, saved, clientVars, envVars>>

\* One transaction records the file, the newest of its debug ID, lets go of
\* the chunks and finishes the job.
Finish ==
  /\ worker.step = "commit"
  /\ LET j == worker.job
     IN  /\ state' = [state EXCEPT ![j] = "ok"]
         /\ owned' = [owned EXCEPT ![j] = {}]
         /\ chunks' = chunks \ OnlyOf(j, list[j])
         /\ holder' = [holder EXCEPT ![DebugOf[j]] = j]
  /\ worker' = Idle
  /\ UNCHANGED <<row, older, retries, list, aged, saved, clientVars, envVars>>

\* mark_failure: the attempt counts; the last one lets go of the chunks.
Mark ==
  /\ worker.step = "mark"
  /\ LET j == worker.job
         last == retries[j] + 1 >= MaxRetries
     IN  /\ state' = [state EXCEPT ![j] = IF last THEN "error" ELSE "created"]
         /\ retries' = [retries EXCEPT ![j] = @ + 1]
         /\ owned' = IF last THEN [owned EXCEPT ![j] = {}] ELSE owned
         /\ chunks' = IF last THEN chunks \ OnlyOf(j, owned[j]) ELSE chunks
  /\ worker' = Idle
  /\ UNCHANGED <<row, older, list, aged, saved, holder, clientVars, envVars>>

\* The failure cannot be written down: the job stays "assembling".
MarkFails ==
  /\ worker.step = "mark"
  /\ Fault
  /\ stranded' = stranded \cup {worker.job}
  /\ worker' = Idle
  /\ UNCHANGED <<chunks, jobVars, saved, holder, clientVars>>

-----------------------------------------------------------------------------
(* Time and crashes *)

\* Ten minutes have passed since a job failed.
Age ==
  /\ ages < MaxAges /\ ages' = ages + 1
  /\ \E j \in Jobs \ aged : state[j] = "error" /\ aged' = aged \cup {j}
  /\ UNCHANGED <<chunks, owned, state, row, older, retries, list, saved, holder, worker,
                 clientVars, faults, crashes, stranded>>

\* Mutant: jobs the last process was at are not queued again.
KillForgets ==
  /\ crashes < MaxCrashes /\ crashes' = crashes + 1
  /\ worker' = Idle
  /\ pc' = [c \in Clients |-> IF pc[c] = "done" \/ c \in Uploaders THEN "done" ELSE "look"]
  /\ reply' = [c \in Clients |-> IF pc[c] = "done" THEN reply[c] ELSE "failed"]
  /\ todo' = [c \in Clients |-> {}]
  /\ UNCHANGED <<chunks, jobVars, saved, holder, seen, faults, ages, stranded>>

\* The server is killed and starts again: requests are cut off, and run()
\* queues again the jobs whose lock has run out by then, no others and never
\* later (reset_stuck_jobs).
Kill ==
  /\ crashes < MaxCrashes /\ crashes' = crashes + 1
  /\ LET stuck == {j \in Jobs : state[j] = "assembling"}
     IN \E expired \in SUBSET stuck :
          /\ state' = [j \in Jobs |-> IF j \in expired THEN "created" ELSE state[j]]
          /\ stranded' = stuck \ expired
  /\ worker' = Idle
  /\ pc' = [c \in Clients |-> IF pc[c] = "done" \/ c \in Uploaders THEN "done" ELSE "look"]
  /\ reply' = [c \in Clients |-> IF pc[c] = "done" THEN reply[c] ELSE "failed"]
  /\ todo' = [c \in Clients |-> {}]
  /\ UNCHANGED <<chunks, owned, row, older, retries, list, aged, saved, holder, seen, faults, ages>>

-----------------------------------------------------------------------------
ClientStep(c) == StoreChunk(c) \/ Look(c) \/ Forget(c) \/ Check(c) \/ Queue(c)
WorkerStep == Claim \/ Join \/ Save \/ Finish \/ Mark

Next ==
  \/ \E c \in Clients : ClientStep(c) \/ RequestFails(c)
  \/ WorkerStep
  \/ ClaimFails \/ AssembleFails \/ MarkFails
  \/ Age \/ Kill

Spec == Init /\ [][Next]_vars

\* Clients go on, and the worker polls every second.
FairSpec == Spec /\ WF_vars(WorkerStep) /\ \A c \in Clients : WF_vars(ClientStep(c))

-----------------------------------------------------------------------------
(* Properties *)

\* Whatever other jobs share, finish or fail, a job under way has its chunks,
\* and a settled one holds none back (assembly_job_chunks).
ChunksKept ==
  \A j \in Jobs : IF state[j] \in Live THEN owned[j] = list[j] /\ list[j] \subseteq chunks
                  ELSE owned[j] = {}

\* A job that was queued stays until it is settled, whoever asks for it again
\* and whatever old row they have read (dif_reupload, ON CONFLICT).
LiveJobsStay ==
  [][\A j \in Jobs : state[j] \in Live =>
       /\ state'[j] # "none"
       /\ row'[j] = row[j] /\ list'[j] = list[j]]_vars

\* A queued job is assembled or fails in the end (run, reset_stuck_jobs),
\* unless its last attempt could not be recorded or its lock outlived the restart.
JobsSettle == \A j \in Jobs : state[j] \in Live ~> state[j] \notin Live \/ j \in stranded
=============================================================================
