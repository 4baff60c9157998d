-------------------------- MODULE AssemblyJobsProofs --------------------------
(***************************************************************************)
(* Proofs about AssemblyJobs, for any files, chunks, clients, retries and  *)
(* bounds, whatever chunks the files share.                                *)
(***************************************************************************)
EXTENDS AssemblyJobs, TLAPS

\* A job the worker is at is marked as being assembled: reset_stuck_jobs runs
\* before the worker, and a request leaves a job under way as it is.
WorkerHasJob == worker # Idle => state[worker.job] = "assembling"

\* The row a request is about to delete is settled while it is the row it read:
\* a job that is queued again after a deletion has another one (dif_reupload).
SeenSettled ==
  \A c \in Clients : pc[c] = "forget" =>
    /\ seen[c] <= row[JobOf[c]]
    /\ seen[c] = row[JobOf[c]] => state[JobOf[c]] \in {"ok", "none"}

AssemblyInv == TypeOK /\ WorkerHasJob /\ SeenSettled

\* Where the worker is at a job, it is one of them.
LEMMA WorkersJob ==
  ASSUME AssemblyInv, worker.step \in {"join", "store", "commit", "mark"}
  PROVE  /\ worker # Idle /\ worker.job \in Jobs
         /\ worker = At(worker.job, worker.step)
         /\ state[worker.job] = "assembling" /\ retries[worker.job] < MaxRetries
BY DEF AssemblyInv, TypeOK, WorkerHasJob, Idle, At, Live

LEMMA AtIsOne == ASSUME NEW j, NEW step PROVE At(j, step).job = j /\ At(j, step).step = step
BY DEF At

\* What each step leaves alone.
LEMMA RequestLeaves ==
  ASSUME NEW c \in Clients, StoreChunk(c) \/ Look(c) \/ Check(c) \/ RequestFails(c)
  PROVE  UNCHANGED <<jobVars, saved, holder, worker, stranded, crashes, ages>>
BY DEF StoreChunk, Look, Check, RequestFails, FaultElsewhere, Fault, envVars

-----------------------------------------------------------------------------
(* Types *)

LEMMA AssemblyInit == Init => AssemblyInv
<1> SUFFICES ASSUME Init PROVE AssemblyInv
  OBVIOUS
<1>1. /\ MaxRetries \in Nat \ {0} /\ MaxFaults \in Nat /\ MaxCrashes \in Nat /\ MaxAges \in Nat
      /\ JobOf \in [Clients -> Jobs] /\ ListOf \in [Clients -> SUBSET Chunks]
  BY AssemblyAssumption
<1>2. /\ pc \in [Clients -> {"upload", "look", "forget", "check", "queue", "done"}]
      /\ todo \in [Clients -> SUBSET Chunks]
  BY <1>1 DEF Init
<1>3. \A j \in Jobs : state[j] \notin Live
  BY DEF Init, Live
<1> QED
  BY <1>1, <1>2, <1>3 DEF Init, AssemblyInv, TypeOK, WorkerHasJob, SeenSettled

\* What a request is answered, and where it goes.
LEMMA ReplyTyped ==
  ASSUME TypeOK, NEW c \in Clients, NEW answer \in {"none", "created", "assembling", "ok", "error", "not_found", "failed"},
         NEW missing \in SUBSET Chunks, Reply(c, answer, missing)
  PROVE  /\ pc' \in [Clients -> {"upload", "look", "forget", "check", "queue", "done"}]
         /\ todo' \in [Clients -> SUBSET Chunks]
         /\ reply' \in [Clients -> {"none", "created", "assembling", "ok", "error", "not_found", "failed"}]
BY DEF TypeOK, Reply

LEMMA GoToTyped ==
  ASSUME TypeOK, NEW c \in Clients, NEW step \in {"upload", "look", "forget", "check", "queue", "done"},
         GoTo(c, step)
  PROVE  /\ pc' \in [Clients -> {"upload", "look", "forget", "check", "queue", "done"}]
         /\ todo' \in [Clients -> SUBSET Chunks]
         /\ reply' \in [Clients -> {"none", "created", "assembling", "ok", "error", "not_found", "failed"}]
BY DEF TypeOK, GoTo

RequestsTyped ==
  /\ pc \in [Clients -> {"upload", "look", "forget", "check", "queue", "done"}]
  /\ todo \in [Clients -> SUBSET Chunks]
  /\ seen \in [Clients -> Nat]
  /\ reply \in [Clients -> {"none", "created", "assembling", "ok", "error", "not_found", "failed"}]

LEMMA RequestsTypeStep == AssemblyInv /\ [Next]_vars => RequestsTyped'
<1> SUFFICES ASSUME AssemblyInv, [Next]_vars PROVE RequestsTyped'
  OBVIOUS
<1> USE DEF AssemblyInv, RequestsTyped
<1>a. /\ JobOf \in [Clients -> Jobs] /\ ListOf \in [Clients -> SUBSET Chunks]
      /\ state \in [Jobs -> {"none", "created", "assembling", "ok", "error"}]
      /\ row \in [Jobs -> Nat]
      /\ seen \in [Clients -> Nat]
  BY AssemblyAssumption DEF TypeOK
<1>1. ASSUME NEW c \in Clients, StoreChunk(c) PROVE RequestsTyped'
  BY <1>1 DEF StoreChunk, GoTo, TypeOK
<1>2. ASSUME NEW c \in Clients, Look(c) PROVE RequestsTyped'
  <2>1. seen' \in [Clients -> Nat]
    BY <1>2, <1>a DEF Look
  <2>2. \/ GoTo(c, "forget") \/ GoTo(c, "check")
        \/ Reply(c, state[JobOf[c]], {})
    BY <1>2 DEF Look
  <2> QED
    BY <1>a, <2>1, <2>2, GoToTyped, ReplyTyped
<1>3. ASSUME NEW c \in Clients, Forget(c) PROVE RequestsTyped'
  BY <1>3, <1>a, GoToTyped DEF Forget
<1>4. ASSUME NEW c \in Clients, Check(c) PROVE RequestsTyped'
  <2>1. ListOf[c] \ chunks \in SUBSET Chunks /\ {} \in SUBSET Chunks
    BY <1>a
  <2>2. \/ GoTo(c, "queue") \/ Reply(c, "error", {}) \/ Reply(c, "not_found", ListOf[c] \ chunks)
    BY <1>4 DEF Check
  <2>3. seen' = seen
    BY <1>4 DEF Check
  <2> QED
    BY <1>a, <2>1, <2>2, <2>3, GoToTyped, ReplyTyped
<1>5. ASSUME NEW c \in Clients, Queue(c) PROVE RequestsTyped'
  <2>1. ListOf[c] \ chunks \in SUBSET Chunks /\ {} \in SUBSET Chunks
    BY <1>a
  <2>2. \/ Reply(c, "created", {}) \/ Reply(c, state[JobOf[c]], {})
        \/ Reply(c, "not_found", ListOf[c] \ chunks)
    BY <1>5 DEF Queue
  <2>3. seen' = seen
    BY <1>5 DEF Queue
  <2> QED
    BY <1>a, <2>1, <2>2, <2>3, ReplyTyped
<1>6. ASSUME NEW c \in Clients, RequestFails(c) PROVE RequestsTyped'
  BY <1>6 DEF RequestFails, TypeOK
<1>7. CASE Kill
  BY <1>7 DEF Kill, TypeOK
<1>8. CASE UNCHANGED clientVars
  BY <1>8 DEF clientVars, TypeOK
<1>9. CASE WorkerStep \/ ClaimFails \/ AssembleFails \/ MarkFails \/ Age \/ UNCHANGED vars
  BY <1>8, <1>9
     DEF WorkerStep, Claim, Join, Save, Finish, Mark, ClaimFails, AssembleFails, MarkFails, Age,
         vars, clientVars
<1> HIDE DEF AssemblyInv, RequestsTyped
<1> QED
  BY <1>1, <1>2, <1>3, <1>4, <1>5, <1>6, <1>7, <1>9 DEF Next, ClientStep

States == {"none", "created", "assembling", "ok", "error"}

JobsTyped ==
  /\ owned \in [Jobs -> SUBSET Chunks]
  /\ state \in [Jobs -> States]
  /\ row \in [Jobs -> Nat]
  /\ older \in [Jobs -> SUBSET Jobs]
  /\ retries \in [Jobs -> 0..MaxRetries]
  /\ \A j \in Jobs : state[j] \in Live => retries[j] < MaxRetries
  /\ list \in [Jobs -> SUBSET Chunks]
  /\ aged \subseteq Jobs

LEMMA JobsTypeStep == AssemblyInv /\ [Next]_vars => JobsTyped'
<1> SUFFICES ASSUME AssemblyInv, [Next]_vars PROVE JobsTyped'
  OBVIOUS
<1> USE DEF JobsTyped, States
<1>a. JobsTyped /\ MaxRetries \in Nat \ {0}
  BY AssemblyAssumption DEF AssemblyInv, TypeOK
<1>w. worker # Idle => /\ worker.job \in Jobs /\ state[worker.job] = "assembling"
                       /\ retries[worker.job] < MaxRetries
  BY DEF AssemblyInv, TypeOK, WorkerHasJob, At, Live
<1>1. CASE UNCHANGED jobVars
  BY <1>a, <1>1 DEF jobVars
<1>2. ASSUME NEW c \in Clients, Forget(c) PROVE JobsTyped'
  <2>1. JobOf[c] \in Jobs
    BY AssemblyAssumption
  <2>2. /\ state' = state \/ state' = [state EXCEPT ![JobOf[c]] = "none"]
        /\ owned' = owned \/ owned' = [owned EXCEPT ![JobOf[c]] = {}]
        /\ UNCHANGED <<row, older, retries, list, aged>>
    BY <1>2 DEF Forget
  <2>3. state' \in [Jobs -> States] /\ \A j \in Jobs : state'[j] \in Live => state[j] \in Live
    BY <1>a, <2>1, <2>2 DEF Live
  <2> QED
    BY <1>a, <2>2, <2>3
<1>3. ASSUME NEW c \in Clients, Queue(c) PROVE JobsTyped'
  <2>1. JobOf[c] \in Jobs /\ ListOf[c] \in SUBSET Chunks
    BY AssemblyAssumption
  <2>2. CASE UNCHANGED jobVars
    BY <1>1, <2>2
  <2>3. CASE ~ UNCHANGED jobVars
    <3> DEFINE j == JobOf[c]
    <3>1. /\ state' = [state EXCEPT ![j] = "created"]
          /\ row' = [row EXCEPT ![j] = IF state[j] = "none" THEN row[j] + 1 ELSE row[j]]
          /\ ComesLast(j) \/ UNCHANGED older
          /\ retries' = [retries EXCEPT ![j] = 0]
          /\ list' = [list EXCEPT ![j] = ListOf[c]]
          /\ owned' = [owned EXCEPT ![j] = ListOf[c]]
          /\ aged' = aged \ {j}
      BY <1>3, <2>3 DEF Queue
    <3>2. older' \in [Jobs -> SUBSET Jobs]
      BY <1>a, <3>1 DEF ComesLast
    <3>3. /\ state' \in [Jobs -> States]
          /\ retries' \in [Jobs -> 0..MaxRetries]
          /\ \A k \in Jobs : state'[k] \in Live => retries'[k] < MaxRetries
      BY <1>a, <2>1, <3>1
    <3>4. row[j] \in Nat /\ row[j] + 1 \in Nat
      BY <1>a, <2>1
    <3>5. row' \in [Jobs -> Nat]
      BY <1>a, <2>1, <3>1, <3>4
    <3> QED
      BY <1>a, <2>1, <3>1, <3>2, <3>3, <3>5
  <2> QED
    BY <2>2, <2>3
<1>4. CASE Claim \/ ClaimFails
  <2>1. PICK j \in Jobs : Waits(j) /\ state' = [state EXCEPT ![j] = "assembling"]
    BY <1>4 DEF Claim, ClaimFails, Oldest
  <2>2. UNCHANGED <<owned, row, older, retries, list, aged>>
    BY <1>4 DEF Claim, ClaimFails
  <2>3. \A k \in Jobs : state'[k] \in Live => retries[k] < MaxRetries
    BY <1>a, <2>1 DEF Waits, Live
  <2> QED
    BY <1>a, <2>1, <2>2, <2>3
<1>5. CASE Finish
  <2>1. worker # Idle
    BY <1>5 DEF Finish, Idle
  <2>2. /\ state' = [state EXCEPT ![worker.job] = "ok"]
        /\ owned' = [owned EXCEPT ![worker.job] = {}]
        /\ UNCHANGED <<row, older, retries, list, aged>>
    BY <1>5 DEF Finish
  <2> QED
    BY <1>a, <1>w, <2>1, <2>2 DEF Live
<1>6. CASE Mark
  <2>1. worker # Idle
    BY <1>6 DEF Mark, Idle
  <2> DEFINE j == worker.job
             last == retries[j] + 1 >= MaxRetries
  <2>2. /\ state' = [state EXCEPT ![j] = IF last THEN "error" ELSE "created"]
        /\ retries' = [retries EXCEPT ![j] = retries[j] + 1]
        /\ owned' = owned \/ owned' = [owned EXCEPT ![j] = {}]
        /\ UNCHANGED <<row, older, list, aged>>
    BY <1>6 DEF Mark
  <2>3. j \in Jobs /\ retries[j] + 1 \in 0..MaxRetries
    BY <1>a, <1>w, <2>1
  <2>4. retries' \in [Jobs -> 0..MaxRetries]
    BY <1>a, <2>2, <2>3
  <2>5. \A k \in Jobs : state'[k] \in Live => retries'[k] < MaxRetries
    BY <1>a, <2>2, <2>3 DEF Live
  <2>6. state' \in [Jobs -> States]
    BY <1>a, <2>2, <2>3
  <2> QED
    BY <1>a, <2>2, <2>3, <2>4, <2>5, <2>6
<1>7. CASE Age
  BY <1>a, <1>7 DEF Age
<1>8. CASE Kill
  <2>1. PICK expired \in SUBSET {j \in Jobs : state[j] = "assembling"} :
          state' = [j \in Jobs |-> IF j \in expired THEN "created" ELSE state[j]]
    BY <1>8 DEF Kill
  <2>2. UNCHANGED <<owned, row, older, retries, list, aged>>
    BY <1>8 DEF Kill
  <2> QED
    BY <1>a, <2>1, <2>2 DEF Live
<1>9. CASE Join \/ Save \/ AssembleFails \/ MarkFails \/ UNCHANGED vars
  BY <1>1, <1>9 DEF Join, Save, AssembleFails, MarkFails, vars
<1>10. ASSUME NEW c \in Clients, ClientStep(c) \/ RequestFails(c) PROVE JobsTyped'
  BY <1>1, <1>2, <1>3, <1>10, RequestLeaves DEF ClientStep
<1> HIDE DEF JobsTyped
<1> QED
  BY <1>4, <1>5, <1>6, <1>7, <1>8, <1>9, <1>10 DEF Next, WorkerStep

-----------------------------------------------------------------------------
(* What a step does to a job *)

Leaves(j) == state'[j] = state[j] /\ row'[j] = row[j] /\ list'[j] = list[j]

\* A settled job that is deleted, a new row, a failed one that starts over, and
\* a job under way, which keeps its row and its chunks.
LEMMA JobCases ==
  ASSUME AssemblyInv, [Next]_vars, NEW j \in Jobs
  PROVE  \/ Leaves(j)
         \/ state[j] = "ok" /\ state'[j] = "none" /\ row'[j] = row[j]
         \/ state[j] = "none" /\ state'[j] = "created" /\ row'[j] = row[j] + 1
         \/ state[j] = "error" /\ state'[j] = "created" /\ row'[j] = row[j]
         \/ /\ state[j] \in Live /\ state'[j] \in States \ {"none"}
            /\ row'[j] = row[j] /\ list'[j] = list[j]
            /\ state[j] = "assembling" => worker' = Idle
<1>a. /\ state \in [Jobs -> States] /\ row \in [Jobs -> Nat] /\ list \in [Jobs -> SUBSET Chunks]
      /\ owned \in [Jobs -> SUBSET Chunks] /\ JobOf \in [Clients -> Jobs]
  BY AssemblyAssumption DEF AssemblyInv, TypeOK, States
<1>w. worker # Idle => /\ worker.job \in Jobs /\ state[worker.job] = "assembling"
  BY DEF AssemblyInv, TypeOK, WorkerHasJob, At, Live
<1>1. CASE UNCHANGED jobVars
  BY <1>1 DEF jobVars, Leaves
<1>2. ASSUME NEW c \in Clients, Forget(c)
      PROVE  Leaves(j) \/ (state[j] = "ok" /\ state'[j] = "none" /\ row'[j] = row[j])
  <2>1. CASE state[JobOf[c]] # "none" /\ row[JobOf[c]] = seen[c]
    <3>1. state[JobOf[c]] = "ok"
      BY <1>2, <2>1 DEF Forget, AssemblyInv, SeenSettled
    <3>2. state' = [state EXCEPT ![JobOf[c]] = "none"] /\ UNCHANGED <<row, list>>
      BY <1>2, <2>1 DEF Forget
    <3> QED
      BY <1>a, <3>1, <3>2 DEF Leaves
  <2>2. CASE ~(state[JobOf[c]] # "none" /\ row[JobOf[c]] = seen[c])
    BY <1>2, <2>2 DEF Forget, Leaves
  <2> QED
    BY <2>1, <2>2
<1>3. ASSUME NEW c \in Clients, Queue(c)
      PROVE  \/ Leaves(j)
             \/ state[j] = "none" /\ state'[j] = "created" /\ row'[j] = row[j] + 1
             \/ state[j] = "error" /\ state'[j] = "created" /\ row'[j] = row[j]
  <2>1. CASE UNCHANGED jobVars
    BY <2>1 DEF jobVars, Leaves
  <2>2. CASE ~ UNCHANGED jobVars
    <3>1. /\ state[JobOf[c]] \in {"none", "error"}
          /\ state' = [state EXCEPT ![JobOf[c]] = "created"]
          /\ row' = [row EXCEPT ![JobOf[c]] = IF state[JobOf[c]] = "none" THEN row[JobOf[c]] + 1
                                              ELSE row[JobOf[c]]]
          /\ list' = [list EXCEPT ![JobOf[c]] = ListOf[c]]
      BY <1>3, <2>2 DEF Queue
    <3>2. CASE j = JobOf[c]
      BY <1>a, <3>1, <3>2
    <3>3. CASE j # JobOf[c]
      BY <1>a, <3>1, <3>3 DEF Leaves
    <3> QED
      BY <3>2, <3>3
  <2> QED
    BY <2>1, <2>2
<1>4. ASSUME NEW c \in Clients, ClientStep(c) \/ RequestFails(c), ~Forget(c), ~Queue(c) PROVE UNCHANGED jobVars
  BY <1>4, RequestLeaves DEF ClientStep
<1>5. CASE Claim \/ ClaimFails
  <2>1. PICK k \in Jobs : state[k] = "created" /\ state' = [state EXCEPT ![k] = "assembling"]
    BY <1>5 DEF Claim, ClaimFails, Oldest, Waits
  <2>2. UNCHANGED <<row, list>>
    BY <1>5 DEF Claim, ClaimFails
  <2> QED
    BY <1>a, <2>1, <2>2 DEF Leaves, Live, States
<1>6. CASE Finish \/ Mark
  <2>1. worker # Idle
    BY <1>6 DEF Finish, Mark, Idle
  <2>2. /\ \E s \in {"ok", "error", "created"} : state' = [state EXCEPT ![worker.job] = s]
        /\ UNCHANGED <<row, list>> /\ worker' = Idle
    BY <1>6 DEF Finish, Mark
  <2> QED
    BY <1>a, <1>w, <2>1, <2>2 DEF Leaves, Live, States
<1>7. CASE Age
  BY <1>7 DEF Age, Leaves
<1>8. CASE Kill
  <2>1. PICK expired \in SUBSET {k \in Jobs : state[k] = "assembling"} :
          state' = [k \in Jobs |-> IF k \in expired THEN "created" ELSE state[k]]
    BY <1>8 DEF Kill
  <2>2. UNCHANGED <<row, list>> /\ worker' = Idle
    BY <1>8 DEF Kill
  <2> QED
    BY <1>a, <2>1, <2>2 DEF Leaves, Live, States
<1>9. CASE Join \/ Save \/ AssembleFails \/ MarkFails \/ UNCHANGED vars
  BY <1>1, <1>9 DEF Join, Save, AssembleFails, MarkFails, vars
<1>10. CASE WorkerStep
  BY <1>5, <1>6, <1>9, <1>10 DEF WorkerStep
<1> QED
  BY <1>1, <1>2, <1>3, <1>4, <1>5, <1>7, <1>8, <1>9, <1>10 DEF Next, ClientStep

LEMMA SeenSettledStep == AssemblyInv /\ [Next]_vars => SeenSettled'
<1> SUFFICES ASSUME AssemblyInv, [Next]_vars, NEW c \in Clients, pc'[c] = "forget"
             PROVE  /\ seen'[c] <= row'[JobOf[c]]
                    /\ seen'[c] = row'[JobOf[c]] => state'[JobOf[c]] \in {"ok", "none"}
  BY DEF SeenSettled
<1> DEFINE j == JobOf[c]
<1>a. /\ j \in Jobs /\ row[j] \in Nat /\ seen[c] \in Nat
      /\ pc \in [Clients -> {"upload", "look", "forget", "check", "queue", "done"}]
  BY AssemblyAssumption DEF AssemblyInv, TypeOK
<1>1. CASE Look(c)
  <2>1. UNCHANGED jobVars /\ seen \in [Clients -> Nat]
          /\ seen' = [seen EXCEPT ![c] = IF state[j] = "none" THEN 0 ELSE row[j]]
    BY <1>1 DEF Look, AssemblyInv, TypeOK
  <2>2. state[j] = "ok"
    BY <1>1, <1>a DEF Look, GoTo, Reply
  <2> QED
    BY <1>a, <2>1, <2>2 DEF jobVars
<1>2. CASE pc[c] = "forget" /\ seen'[c] = seen[c]
  <2>1. /\ seen[c] <= row[j]
        /\ seen[c] = row[j] => state[j] \in {"ok", "none"}
    BY <1>2 DEF AssemblyInv, SeenSettled
  <2>2. CASE Leaves(j)
    BY <1>2, <2>1, <2>2 DEF Leaves
  <2>3. CASE ~Leaves(j)
    BY <1>2, <1>a, <2>1, <2>3, JobCases DEF Live
  <2> QED
    BY <2>2, <2>3
<1>3. ASSUME NEW d \in Clients, ClientStep(d) \/ RequestFails(d), ~Look(c)
      PROVE  pc[c] = "forget" /\ seen'[c] = seen[c]
  <2>1. /\ seen' = seen \/ \E n : seen' = [seen EXCEPT ![d] = n]
        /\ pc' = pc \/ \E step : pc' = [pc EXCEPT ![d] = step]
    BY <1>3 DEF ClientStep, StoreChunk, Look, Forget, Check, Queue, RequestFails, Reply, GoTo
  <2>2. d # c
    BY <1>3, <1>a DEF ClientStep, StoreChunk, Forget, Check, Queue, RequestFails, Reply, GoTo
  <2> QED
    BY <1>a, <2>1, <2>2 DEF AssemblyInv, TypeOK
<1>4. CASE Kill
  BY <1>4 DEF Kill
<1>5. CASE UNCHANGED clientVars
  BY <1>2, <1>5 DEF clientVars
<1>6. CASE WorkerStep \/ ClaimFails \/ AssembleFails \/ MarkFails \/ Age \/ UNCHANGED vars
  BY <1>5, <1>6
     DEF WorkerStep, Claim, Join, Save, Finish, Mark, ClaimFails, AssembleFails, MarkFails, Age,
         vars, clientVars
<1> QED
  BY <1>1, <1>2, <1>3, <1>4, <1>6 DEF Next

Steps == {"join", "store", "commit", "mark"}

WorkerTyped == worker \in {Idle} \cup {At(j, s) : j \in Jobs, s \in Steps}

LEMMA WorkerJobStep == AssemblyInv /\ [Next]_vars => WorkerTyped' /\ WorkerHasJob'
<1> SUFFICES ASSUME AssemblyInv, [Next]_vars PROVE WorkerTyped' /\ WorkerHasJob'
  OBVIOUS
<1>a. WorkerTyped /\ WorkerHasJob /\ state \in [Jobs -> States]
  BY DEF AssemblyInv, TypeOK, WorkerTyped, Steps, States
<1>w. worker # Idle => worker.job \in Jobs /\ state[worker.job] = "assembling"
  BY <1>a DEF WorkerTyped, WorkerHasJob, At
<1>1. CASE worker' = Idle
  BY <1>1 DEF WorkerTyped, WorkerHasJob
<1>2. ASSUME NEW s \in Steps, worker # Idle, worker' = At(worker.job, s)
      PROVE  WorkerTyped' /\ WorkerHasJob'
  <2>1. worker'.job = worker.job /\ worker' # Idle
    BY <1>2, <1>w, AtIsOne DEF Idle, Steps
  <2>2. state'[worker.job] = "assembling"
    BY <1>2, <1>w, <2>1, JobCases DEF Leaves
  <2> QED
    BY <1>2, <1>w, <2>1, <2>2 DEF WorkerTyped, WorkerHasJob
<1>3. CASE worker' = worker
  <2>1. CASE worker = Idle
    BY <1>1, <1>3, <2>1
  <2>2. CASE worker # Idle
    <3>1. state'[worker.job] = "assembling"
      BY <1>3, <1>w, <2>2, JobCases DEF Leaves
    <3> QED
      BY <1>a, <1>3, <3>1 DEF WorkerTyped, WorkerHasJob
  <2> QED
    BY <2>1, <2>2
<1>4. ASSUME NEW c \in Clients, ClientStep(c) \/ RequestFails(c) PROVE worker' = worker
  BY <1>4, RequestLeaves DEF ClientStep, Forget, Queue
<1>5. CASE Claim
  <2>1. PICK j \in Jobs : state' = [state EXCEPT ![j] = "assembling"] /\ worker' = At(j, "join")
    BY <1>5 DEF Claim
  <2> QED
    BY <1>a, <2>1, AtIsOne DEF WorkerTyped, WorkerHasJob, Steps
<1>6. CASE Join \/ Save \/ AssembleFails
  <2>1. worker # Idle /\ \E s \in Steps : worker' = At(worker.job, s)
    BY <1>6 DEF Join, Save, AssembleFails, Idle, Steps
  <2> QED
    BY <1>2, <2>1
<1>7. CASE Finish \/ Mark \/ MarkFails \/ Kill
  BY <1>1, <1>7 DEF Finish, Mark, MarkFails, Kill
<1>8. CASE ClaimFails \/ Age \/ UNCHANGED vars
  BY <1>3, <1>8 DEF ClaimFails, Age, vars
<1>9. CASE WorkerStep
  BY <1>5, <1>6, <1>7, <1>9 DEF WorkerStep
<1> QED
  BY <1>3, <1>4, <1>6, <1>7, <1>8, <1>9 DEF Next

RestTyped ==
  /\ chunks \subseteq Chunks
  /\ saved \subseteq Jobs
  /\ holder \in [DebugIds -> Jobs \cup {Nobody}]
  /\ faults \in 0..MaxFaults /\ crashes \in 0..MaxCrashes /\ ages \in 0..MaxAges
  /\ stranded \subseteq Jobs

LEMMA RestTypeStep == AssemblyInv /\ [Next]_vars => RestTyped'
<1> SUFFICES ASSUME AssemblyInv, [Next]_vars PROVE RestTyped'
  OBVIOUS
<1>a. /\ RestTyped /\ MaxFaults \in Nat /\ MaxCrashes \in Nat /\ MaxAges \in Nat
      /\ todo \in [Clients -> SUBSET Chunks]
  BY AssemblyAssumption DEF RestTyped, AssemblyInv, TypeOK
<1>w. worker.step \in {"join", "store", "commit", "mark"} => worker.job \in Jobs
  BY WorkersJob
<1>1. chunks' \subseteq Chunks
  <2>1. ASSUME NEW c \in Clients, ClientStep(c) \/ RequestFails(c) PROVE chunks' \subseteq Chunks
    <3>1. CASE StoreChunk(c)
      BY <1>a, <3>1 DEF StoreChunk, RestTyped
    <3>2. CASE Look(c) \/ Forget(c) \/ Check(c) \/ Queue(c) \/ RequestFails(c)
      BY <1>a, <3>2 DEF Look, Forget, Check, Queue, RequestFails, RestTyped
    <3> QED
      BY <2>1, <3>1, <3>2 DEF ClientStep
  <2>2. CASE WorkerStep
    BY <1>a, <2>2 DEF WorkerStep, Claim, Join, Save, Finish, Mark, RestTyped
  <2>3. CASE ClaimFails \/ AssembleFails \/ MarkFails \/ Age \/ Kill \/ UNCHANGED vars
    BY <1>a, <2>3 DEF ClaimFails, AssembleFails, MarkFails, Age, Kill, vars, RestTyped
  <2> QED
    BY <2>1, <2>2, <2>3 DEF Next
<1>2. saved' \subseteq Jobs
  <2>1. CASE Save
    BY <1>a, <1>w, <2>1 DEF Save, RestTyped
  <2>2. CASE UNCHANGED saved
    BY <1>a, <2>2 DEF RestTyped
  <2>3. ASSUME NEW c \in Clients, ClientStep(c) \/ RequestFails(c) PROVE UNCHANGED saved
    BY <2>3, RequestLeaves DEF ClientStep, Forget, Queue
  <2>4. CASE Claim \/ Join \/ Finish \/ Mark \/ ClaimFails \/ AssembleFails \/ MarkFails \/ Age \/ Kill \/ UNCHANGED vars
    BY <2>2, <2>4 DEF Claim, Join, Finish, Mark, ClaimFails, AssembleFails, MarkFails, Age, Kill, vars
  <2> QED
    BY <2>1, <2>2, <2>3, <2>4 DEF Next, WorkerStep
<1>3. holder' \in [DebugIds -> Jobs \cup {Nobody}]
  <2>1. CASE Finish
    <3>1. holder' = [holder EXCEPT ![DebugOf[worker.job]] = worker.job] /\ worker.job \in Jobs
      BY <1>w, <2>1 DEF Finish
    <3> QED
      BY <1>a, <3>1 DEF RestTyped
  <2>2. CASE UNCHANGED holder
    BY <1>a, <2>2 DEF RestTyped
  <2>3. ASSUME NEW c \in Clients, ClientStep(c) \/ RequestFails(c) PROVE UNCHANGED holder
    BY <2>3, RequestLeaves DEF ClientStep, Forget, Queue
  <2>4. CASE Claim \/ Join \/ Save \/ Mark \/ ClaimFails \/ AssembleFails \/ MarkFails \/ Age \/ Kill \/ UNCHANGED vars
    BY <2>2, <2>4 DEF Claim, Join, Save, Mark, ClaimFails, AssembleFails, MarkFails, Age, Kill, vars
  <2> QED
    BY <2>1, <2>2, <2>3, <2>4 DEF Next, WorkerStep
<1>4. faults' \in 0..MaxFaults /\ crashes' \in 0..MaxCrashes /\ ages' \in 0..MaxAges
  <2>1. ASSUME NEW c \in Clients, ClientStep(c) \/ RequestFails(c)
        PROVE  UNCHANGED <<faults, crashes, ages>> \/ Fault
    BY <2>1 DEF ClientStep, StoreChunk, Look, Forget, Check, Queue, RequestFails, FaultElsewhere, envVars
  <2>2. CASE WorkerStep \/ UNCHANGED vars
    BY <1>a, <2>2 DEF WorkerStep, Claim, Join, Save, Finish, Mark, vars, envVars, RestTyped
  <2>4. CASE Fault
    BY <1>a, <2>4 DEF Fault, RestTyped
  <2>5. CASE UNCHANGED <<faults, crashes, ages>>
    BY <1>a, <2>5 DEF RestTyped
  <2>6. CASE Age
    BY <1>a, <2>6 DEF Age, RestTyped
  <2>7. CASE Kill
    BY <1>a, <2>7 DEF Kill, RestTyped
  <2>8. CASE ClaimFails \/ AssembleFails \/ MarkFails
    BY <2>4, <2>8 DEF ClaimFails, AssembleFails, MarkFails, FaultElsewhere
  <2> QED
    BY <2>1, <2>2, <2>4, <2>5, <2>6, <2>7, <2>8 DEF Next
<1>5. stranded' \subseteq Jobs
  <2>1. ASSUME NEW c \in Clients, ClientStep(c) \/ RequestFails(c) PROVE UNCHANGED stranded
    BY <2>1, RequestLeaves DEF ClientStep, Forget, Queue, envVars
  <2>2. CASE UNCHANGED stranded
    BY <1>a, <2>2 DEF RestTyped
  <2>3. CASE ClaimFails \/ MarkFails
    BY <1>a, <1>w, <2>3 DEF ClaimFails, MarkFails, RestTyped
  <2>4. CASE Kill
    BY <2>4 DEF Kill
  <2>5. CASE WorkerStep \/ AssembleFails \/ Age \/ UNCHANGED vars
    BY <2>2, <2>5 DEF WorkerStep, Claim, Join, Save, Finish, Mark, AssembleFails, FaultElsewhere, Age,
                      vars, envVars
  <2> QED
    BY <2>1, <2>2, <2>3, <2>4, <2>5 DEF Next
<1> QED
  BY <1>1, <1>2, <1>3, <1>4, <1>5 DEF RestTyped

LEMMA AssemblyAlways == Spec => []AssemblyInv
<1>1. AssemblyInv /\ [Next]_vars => AssemblyInv'
  <2> SUFFICES ASSUME AssemblyInv, [Next]_vars PROVE AssemblyInv'
    OBVIOUS
  <2>1. TypeOK'
    BY RequestsTypeStep, JobsTypeStep, WorkerJobStep, RestTypeStep
       DEF TypeOK, RequestsTyped, JobsTyped, WorkerTyped, RestTyped, States, Steps
  <2> QED
    BY <2>1, WorkerJobStep, SeenSettledStep DEF AssemblyInv
<1> QED
  BY <1>1, AssemblyInit, PTL DEF Spec

\* The chunk table, the jobs, the worker and the requests keep their types, and
\* a job that waits has attempts left: poll_once never passes one over for good.
THEOREM AssemblyTypeCorrect == Spec => []TypeOK
  BY AssemblyAlways, PTL DEF AssemblyInv

\* A job that was queued stays until it is settled, for any clients and whatever
\* old row they have read: the row dif_reupload deletes is the one it read, and
\* a job under way has another (SeenSettled).
THEOREM LiveJobsAreKept == Spec => LiveJobsStay
<1>1. AssemblyInv /\ [Next]_vars =>
        [\A j \in Jobs : state[j] \in Live =>
           /\ state'[j] # "none"
           /\ row'[j] = row[j] /\ list'[j] = list[j]]_vars
  <2> SUFFICES ASSUME AssemblyInv, [Next]_vars, NEW j \in Jobs, state[j] \in Live
               PROVE  state'[j] # "none" /\ row'[j] = row[j] /\ list'[j] = list[j]
    OBVIOUS
  <2>1. state[j] \notin {"ok", "none", "error"}
    BY DEF Live
  <2> QED
    BY <2>1, JobCases DEF Leaves
<1> QED
  BY <1>1, AssemblyAlways, PTL DEF Spec, LiveJobsStay

-----------------------------------------------------------------------------
(* Shared chunks *)

\* What deleting the chunks that j owns alone leaves every other job.
LEMMA OthersKeepTheirs ==
  ASSUME NEW j \in Jobs, NEW k \in Jobs \ {j}, NEW xs, owned[k] \subseteq chunks
  PROVE  owned[k] \subseteq chunks \ OnlyOf(j, xs)
BY DEF OnlyOf

\* "A job under way has its chunks": whichever jobs share them, each finishes or
\* fails without taking a chunk that another needs (assembly_job_chunks).
THEOREM SharedChunksAreKept == Spec => []ChunksKept
<1>1. Init => ChunksKept
  BY DEF Init, ChunksKept, Live
<1>2. AssemblyInv /\ ChunksKept /\ [Next]_vars => ChunksKept'
  <2> SUFFICES ASSUME AssemblyInv, ChunksKept, [Next]_vars, NEW k \in Jobs
               PROVE  IF state'[k] \in Live THEN owned'[k] = list'[k] /\ list'[k] \subseteq chunks'
                      ELSE owned'[k] = {}
    BY DEF ChunksKept
  <2>a. /\ state \in [Jobs -> States] /\ list \in [Jobs -> SUBSET Chunks]
        /\ owned \in [Jobs -> SUBSET Chunks] /\ JobOf \in [Clients -> Jobs]
    BY AssemblyAssumption DEF AssemblyInv, TypeOK, States
  <2>k. IF state[k] \in Live THEN owned[k] = list[k] /\ list[k] \subseteq chunks ELSE owned[k] = {}
    BY DEF ChunksKept
  <2>1. ASSUME UNCHANGED <<owned, state, list>>, chunks \subseteq chunks' PROVE ChunksKept'
    BY <2>1 DEF ChunksKept
  <2>2. ASSUME NEW c \in Clients, StoreChunk(c) \/ Look(c) \/ Check(c) \/ RequestFails(c)
        PROVE  ChunksKept'
    BY <2>1, <2>2 DEF StoreChunk, Look, Check, RequestFails, jobVars
  <2>3. ASSUME NEW c \in Clients, Forget(c)
        PROVE  IF state'[k] \in Live THEN owned'[k] = list'[k] /\ list'[k] \subseteq chunks'
               ELSE owned'[k] = {}
    <3>1. /\ UNCHANGED <<chunks, list>>
          /\ \/ UNCHANGED <<state, owned>>
             \/ /\ state' = [state EXCEPT ![JobOf[c]] = "none"]
                /\ owned' = [owned EXCEPT ![JobOf[c]] = {}]
      BY <2>3 DEF Forget
    <3> QED
      BY <2>a, <2>k, <3>1 DEF Live
  <2>4. ASSUME NEW c \in Clients, Queue(c)
        PROVE  IF state'[k] \in Live THEN owned'[k] = list'[k] /\ list'[k] \subseteq chunks'
               ELSE owned'[k] = {}
    <3>1. CASE UNCHANGED jobVars
      BY <2>1, <2>4, <3>1 DEF jobVars, Queue, ChunksKept
    <3>2. CASE ~ UNCHANGED jobVars
      <4>1. /\ state' = [state EXCEPT ![JobOf[c]] = "created"]
            /\ list' = [list EXCEPT ![JobOf[c]] = ListOf[c]]
            /\ owned' = [owned EXCEPT ![JobOf[c]] = ListOf[c]]
            /\ chunks' = chunks /\ ListOf[c] \ chunks = {}
        BY <2>4, <3>2 DEF Queue
      <4>2. ListOf[c] \subseteq chunks
        BY <4>1
      <4> QED
        BY <2>a, <2>k, <4>1, <4>2 DEF Live
    <3> QED
      BY <3>1, <3>2
  <2>5. CASE Claim \/ ClaimFails
    <3>1. PICK j \in Jobs : state[j] = "created" /\ state' = [state EXCEPT ![j] = "assembling"]
      BY <2>5 DEF Claim, ClaimFails, Oldest, Waits
    <3>2. UNCHANGED <<chunks, owned, list>>
      BY <2>5 DEF Claim, ClaimFails
    <3> QED
      BY <2>a, <2>k, <3>1, <3>2 DEF Live
  <2>6. CASE Finish
    <3> DEFINE j == worker.job
    <3>1. j \in Jobs
      BY <2>6, WorkersJob DEF Finish
    <3>2. /\ state' = [state EXCEPT ![j] = "ok"] /\ owned' = [owned EXCEPT ![j] = {}]
          /\ chunks' = chunks \ OnlyOf(j, list[j]) /\ list' = list
      BY <2>6 DEF Finish
    <3>3. CASE k = j
      BY <2>a, <3>1, <3>2, <3>3 DEF Live
    <3>4. CASE k # j
      <4>1. state'[k] = state[k] /\ owned'[k] = owned[k] /\ list'[k] = list[k]
        BY <2>a, <3>2, <3>4
      <4>2. owned[k] \subseteq chunks => owned[k] \subseteq chunks'
        BY <3>1, <3>2, <3>4, OthersKeepTheirs
      <4> QED
        BY <2>k, <4>1, <4>2
    <3> QED
      BY <3>3, <3>4
  <2>7. CASE Mark
    <3> DEFINE j == worker.job
               last == retries[j] + 1 >= MaxRetries
    <3>1. j \in Jobs /\ state[j] \in Live
      BY <2>7, WorkersJob DEF Mark, Live
    <3>2. /\ state' = [state EXCEPT ![j] = IF last THEN "error" ELSE "created"]
          /\ owned' = IF last THEN [owned EXCEPT ![j] = {}] ELSE owned
          /\ chunks' = IF last THEN chunks \ OnlyOf(j, owned[j]) ELSE chunks
          /\ list' = list
      BY <2>7 DEF Mark
    <3>3. CASE k = j
      BY <2>a, <2>k, <3>1, <3>2, <3>3 DEF Live
    <3>4. CASE k # j
      <4>1. state'[k] = state[k] /\ owned'[k] = owned[k] /\ list'[k] = list[k]
        BY <2>a, <3>2, <3>4
      <4>2. owned[k] \subseteq chunks => owned[k] \subseteq chunks'
        BY <3>1, <3>2, <3>4, OthersKeepTheirs
      <4> QED
        BY <2>k, <4>1, <4>2
    <3> QED
      BY <3>3, <3>4
  <2>8. CASE Kill
    <3>1. PICK expired \in SUBSET {j \in Jobs : state[j] = "assembling"} :
            state' = [j \in Jobs |-> IF j \in expired THEN "created" ELSE state[j]]
      BY <2>8 DEF Kill
    <3>2. UNCHANGED <<chunks, owned, list>>
      BY <2>8 DEF Kill
    <3> QED
      BY <2>a, <2>k, <3>1, <3>2 DEF Live
  <2>9. CASE Join \/ Save \/ AssembleFails \/ MarkFails \/ Age \/ UNCHANGED vars
    BY <2>1, <2>9 DEF Join, Save, AssembleFails, MarkFails, Age, vars, jobVars, ChunksKept
  <2>10. CASE ChunksKept'
    BY <2>10 DEF ChunksKept
  <2> QED
    BY <2>2, <2>3, <2>4, <2>5, <2>6, <2>7, <2>8, <2>9, <2>10 DEF Next, ClientStep, WorkerStep
<1> QED
  BY <1>1, <1>2, AssemblyAlways, PTL DEF Spec
===============================================================================
