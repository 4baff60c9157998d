--------------------------- MODULE DigestPipeline ---------------------------
(***************************************************************************)
(* The error pipeline of the Rustrak server, from an accepted request to   *)
(* the removal of the event's pending file (SQLite build).                 *)
(*                                                                         *)
(* A delivery is one HTTP request carrying one event.  Its handler claims  *)
(* the event in the in-flight registry, stores the pending file, answers   *)
(* and leaves a task behind that digests the file under a processing slot. *)
(* A recovery worker digests the files nobody owns.  A digest that has     *)
(* committed hands its file to the durability queue, whose worker removes  *)
(* files in batches after a FULL checkpoint of the write-ahead log.  The   *)
(* process may be killed and, separately, the machine may lose power,      *)
(* which takes back the commits no checkpoint has made durable.            *)
(*                                                                         *)
(* Deliveries of the same event are an SDK's retries.  The pending file is *)
(* atomic and durable here; PendingStore models how it is published.       *)
(***************************************************************************)
EXTENDS Integers, FiniteSets

CONSTANTS
  Events,              \* the events, by event id
  Deliveries,          \* the requests that carry them
  EventOf,             \* the event of each delivery
  Recovery,            \* the recovery worker
  Durability,          \* the durability queue's worker
  Nobody,              \* nobody holds the write slot
  NoEvent,             \* the recovery worker is between files
  Refusable,           \* events whose payload the digest refuses
  MaxProcessing,       \* MAX_CONCURRENT_PROCESSING (16)
  MaxDigestAttempts,   \* attempts of digest_stored_event (4)
  MaxWriteAttempts,    \* MAX_SQLITE_WRITE_ATTEMPTS (3)
  MaxCheckpointAttempts, \* MAX_CHECKPOINT_ATTEMPTS (3)
  QuotaLimit,          \* events one quota window has room for
  MaxWindow,           \* bound: last quota window of a behaviour
  MaxFaults,           \* bound: database and disk failures in a behaviour
  MaxCrashes,          \* bound: crashes in a behaviour
  PowerFails,          \* whether a crash may be a loss of power
  ChannelsVanish       \* whether an alert's integration may be deleted mid-digest

Runs == Deliveries \cup {Recovery}

ASSUME DeliveriesAssumption ==
  /\ EventOf \in [Deliveries -> Events]
  /\ IsFiniteSet(Deliveries)
  /\ Recovery \notin Deliveries
  /\ Durability \notin Runs
  /\ Nobody \notin Runs \cup {Durability}
  /\ NoEvent \notin Events
  /\ Refusable \subseteq Events

ASSUME LimitsAssumption ==
  /\ {MaxProcessing, MaxDigestAttempts, MaxWriteAttempts,
      MaxCheckpointAttempts} \subseteq Nat \ {0}
  /\ {QuotaLimit, MaxWindow, MaxFaults, MaxCrashes} \subseteq Nat
  /\ {PowerFails, ChannelsVanish} \subseteq BOOLEAN

VARIABLES
  pc,            \* the step each run is at
  current,       \* the event the recovery worker is digesting
  todo,          \* what its last scan listed and it has not reached yet
  attempt,       \* contention retries of each delivery's digest
  tries,         \* failed write attempts of the digest holding the write slot
  permits,       \* free processing slots
  inFlight,      \* the in-flight registry: owners of each event
  files,         \* events with a pending file
  unlinked,      \* removed files whose removal a power loss may undo
  db,            \* the committed state of the database
  recoverable,   \* the states a power loss may leave it in
  sinceCkpt,     \* of those, the ones the running checkpoint does not cover
  slot,          \* who holds the digests' write slot
  pending,       \* the durability queue's entries
  batch,         \* the entries its worker took for a checkpoint
  workerRunning, \* DurabilityState.worker_running
  worker,        \* the step that worker is at
  window,        \* the current quota window
  faults,        \* failures so far
  crashes,       \* crashes so far
  acked,         \* history: events some request was answered 200 for
  refused        \* history: events dropped by the quota or as unusable, unstored

runVars   == <<pc, current, todo, attempt, permits, inFlight>>
fileVars  == <<files, unlinked>>
dbVars    == <<db, recoverable, sinceCkpt>>
slotVars  == <<slot, tries>>
queueVars == <<pending, batch, workerRunning, worker>>
envVars   == <<window, faults, crashes>>
histVars  == <<acked, refused>>
vars == <<runVars, fileVars, dbVars, slotVars, queueVars, envVars, histVars>>

-----------------------------------------------------------------------------
(* Values *)

\* Where a digest can be inside process_impl, from the file read to its exit.
DigestSteps == {"read", "exists", "quota", "write", "writing", "alert",
                "finish", "count", "unlink", "discard", "end"}

Steps == DigestSteps \cup
  {"idle", "storing", "orphan", "answer", "waiting", "backoff", "next", "done"}

\* A delivery's task owns a slot from its permit to its end, and an entry of
\* the registry from the request to its end.
HoldsPermit == DigestSteps \cup {"backoff"}
HoldsGuard  == HoldsPermit \cup {"storing", "answer", "waiting"}

\* The database: the stored events, the events whose alerts are recorded, the
\* installation's quota counter with its window, and digested_event_count.
DbState == [rows : SUBSET Events, alerts : SUBSET Events,
            used : Nat, quotaWindow : Nat, digested : Nat]

\* A PendingDelete.  `by` tells apart the entries of two runs of one event; a
\* run has at most one entry per event at a time.
Entry == [by : Runs, event : Events, attempts : 0..(MaxCheckpointAttempts - 1)]

EventAt(r) == IF r = Recovery THEN current ELSE EventOf[r]

\* The recovery worker has a file in hand while it digests.
RunTypes ==
  /\ pc \in [Runs -> Steps]
  /\ current \in Events \cup {NoEvent}
  /\ pc[Recovery] \in DigestSteps => current \in Events
  /\ todo \subseteq Events
  /\ attempt \in [Deliveries -> 0..(MaxDigestAttempts - 1)]
  /\ permits \in Int
  /\ inFlight \in [Events -> Int]

FileTypes == files \subseteq Events /\ unlinked \subseteq Events

DbTypes == db \in DbState /\ recoverable \subseteq DbState /\ sinceCkpt \subseteq DbState

SlotTypes ==
  /\ slot \in Runs \cup {Durability, Nobody}
  /\ tries \in 0..(MaxWriteAttempts - 1)

QueueTypes ==
  /\ pending \subseteq Entry /\ IsFiniteSet(pending)
  /\ batch \subseteq Entry /\ IsFiniteSet(batch)
  /\ workerRunning \in BOOLEAN
  /\ worker \in {"stopped", "sleeping", "waiting", "checkpoint", "removing", "releasing"}

EnvTypes == window \in 0..MaxWindow /\ faults \in 0..MaxFaults /\ crashes \in 0..MaxCrashes

HistTypes == acked \subseteq Events /\ refused \subseteq Events

\* The types, with the bounds of the retry loops: no digest is attempted more
\* than MaxDigestAttempts times, no transaction more than MaxWriteAttempts, no
\* checkpoint asked for one entry more than MaxCheckpointAttempts times.  That
\* permits and claims never go below zero follows from ResourcesAccounted.
TypeOK ==
  /\ RunTypes /\ FileTypes /\ DbTypes /\ SlotTypes /\ QueueTypes
  /\ EnvTypes /\ HistTypes

EmptyDb == [rows |-> {}, alerts |-> {}, used |-> 0, quotaWindow |-> 0, digested |-> 0]

Init ==
  /\ pc = [r \in Runs |-> "idle"]
  /\ current = NoEvent
  /\ todo = {}
  /\ attempt = [d \in Deliveries |-> 0]
  /\ tries = 0
  /\ permits = MaxProcessing
  /\ inFlight = [e \in Events |-> 0]
  /\ files = {}
  /\ unlinked = {}
  /\ db = EmptyDb
  /\ recoverable = {EmptyDb}
  /\ sinceCkpt = {}
  /\ slot = Nobody
  /\ pending = {}
  /\ batch = {}
  /\ workerRunning = FALSE
  /\ worker = "stopped"
  /\ window = 0
  /\ faults = 0
  /\ crashes = 0
  /\ acked = {}
  /\ refused = {}

-----------------------------------------------------------------------------
(* Helpers *)

Goto(r, step) == pc' = [pc EXCEPT ![r] = step]

\* InFlightDigests::register and the drop of its guard.
Claim(e)   == inFlight' = [inFlight EXCEPT ![e] = @ + 1]
Release(e) == inFlight' = [inFlight EXCEPT ![e] = @ - 1]

\* A failure of the database or the disk, of which a behaviour has a few.
Fault ==
  /\ faults < MaxFaults
  /\ faults' = faults + 1
  /\ UNCHANGED <<window, crashes>>

\* A commit is visible at once; a power loss may still take it back.
Commit(state) ==
  /\ db' = state
  /\ recoverable' = recoverable \cup {state}
  /\ sinceCkpt' = IF worker = "checkpoint" THEN sinceCkpt \cup {state} ELSE {}

\* Only the counters of the current window count against the limit.
QuotaFull == db.quotaWindow = window /\ db.used >= QuotaLimit

\* The state one stored event leaves: its row, its quota unit, its counter.
WithEvent(e) ==
  [rows        |-> db.rows \cup {e},
   alerts      |-> db.alerts,
   used        |-> IF db.quotaWindow = window THEN db.used + 1 ELSE 1,
   quotaWindow |-> window,
   digested    |-> db.digested + 1]

\* A digest ends with an error that keeps its file.  Write contention is
\* retried by a delivery's own task, up to its last attempt; the recovery
\* worker leaves the file to its next scan.
Retain(r, contention) ==
  IF contention /\ r \in Deliveries /\ attempt[r] + 1 < MaxDigestAttempts
  THEN /\ Goto(r, "backoff")
       /\ attempt' = [attempt EXCEPT ![r] = @ + 1]
  ELSE /\ Goto(r, "end")
       /\ UNCHANGED attempt

\* Mutant: should_retain_event does not keep the file of a database error.
DatabaseErrorDiscards(r) ==
  /\ Fault
  /\ Goto(r, "discard")
  /\ UNCHANGED attempt

\* The database refuses a statement: contention or any other error.
DatabaseFails(r) ==
  /\ Fault
  /\ \E contention \in BOOLEAN : Retain(r, contention)

-----------------------------------------------------------------------------
(* A delivery: the request handler, then the task it leaves behind *)

\* The request passes the quota check and claims its event before its file
\* exists, so that the recovery worker never sees a file nobody owns.
Arrive(d) ==
  /\ pc[d] = "idle"
  /\ ~QuotaFull
  /\ Goto(d, "storing")
  /\ Claim(EventOf[d])
  /\ UNCHANGED <<current, todo, attempt, permits, fileVars, dbVars, slotVars,
                 queueVars, envVars, histVars>>

\* A full quota answers 429 and takes nothing.
Reject(d) ==
  /\ pc[d] = "idle"
  /\ QuotaFull
  /\ Goto(d, "done")
  /\ UNCHANGED <<current, todo, attempt, permits, inFlight, fileVars, dbVars,
                 slotVars, queueVars, envVars, histVars>>

\* The blocking store ends: the file is published and the directory synced,
\* with every removal made in it before.  A file that is already there is kept.
Store(d) ==
  /\ pc[d] \in {"storing", "orphan"}
  /\ files' = files \cup {EventOf[d]}
  /\ unlinked' = IF EventOf[d] \in files THEN unlinked ELSE {}
  /\ Goto(d, IF pc[d] = "storing" THEN "answer" ELSE "done")
  /\ UNCHANGED <<current, todo, attempt, permits, inFlight, dbVars, slotVars,
                 queueVars, envVars, histVars>>

\* Mutant: the error of the store is not propagated.
StoreErrorIgnored(d) ==
  /\ pc[d] = "storing"
  /\ Fault
  /\ Goto(d, "answer")
  /\ UNCHANGED <<current, todo, attempt, permits, inFlight, fileVars, dbVars,
                 slotVars, queueVars, histVars>>

\* A failed store answers 5xx and drops the claim.
StoreFails(d) ==
  /\ pc[d] \in {"storing", "orphan"}
  /\ Fault
  /\ Goto(d, "done")
  /\ IF pc[d] = "storing" THEN Release(EventOf[d]) ELSE UNCHANGED inFlight
  /\ UNCHANGED <<current, todo, attempt, permits, fileVars, dbVars, slotVars,
                 queueVars, histVars>>

\* Mutant: the claim is not a guard the dropped handler takes with it.
ClaimLeaks(d) ==
  /\ pc[d] \in {"storing", "answer"}
  /\ Goto(d, IF pc[d] = "storing" THEN "orphan" ELSE "done")
  /\ UNCHANGED <<current, todo, attempt, permits, inFlight, fileVars, dbVars,
                 slotVars, queueVars, envVars, histVars>>

\* The client gives up: its handler is dropped with the claim, while a store
\* already on the blocking pool goes on.
ClientGone(d) ==
  /\ pc[d] \in {"storing", "answer"}
  /\ Goto(d, IF pc[d] = "storing" THEN "orphan" ELSE "done")
  /\ Release(EventOf[d])
  /\ UNCHANGED <<current, todo, attempt, permits, fileVars, dbVars, slotVars,
                 queueVars, envVars, histVars>>

\* The digest task is spawned and the client answered 200.
Answer(d) ==
  /\ pc[d] = "answer"
  /\ Goto(d, "waiting")
  /\ acked' = acked \cup {EventOf[d]}
  /\ UNCHANGED <<current, todo, attempt, permits, inFlight, fileVars, dbVars,
                 slotVars, queueVars, envVars, refused>>

AcquirePermit(d) ==
  /\ pc[d] = "waiting"
  /\ permits > 0
  /\ permits' = permits - 1
  /\ Goto(d, "read")
  /\ UNCHANGED <<current, todo, attempt, inFlight, fileVars, dbVars, slotVars,
                 queueVars, envVars, histVars>>

\* The backoff of digest_stored_event is over.
Retry(d) ==
  /\ pc[d] = "backoff"
  /\ Goto(d, "read")
  /\ UNCHANGED <<current, todo, attempt, permits, inFlight, fileVars, dbVars,
                 slotVars, queueVars, envVars, histVars>>

-----------------------------------------------------------------------------
(* The recovery worker *)

\* It lists the pending files no task of this process owns.
Scan ==
  /\ pc[Recovery] = "idle"
  /\ todo' = {e \in files : inFlight[e] = 0}
  /\ Goto(Recovery, "next")
  /\ UNCHANGED <<current, attempt, permits, inFlight, fileVars, dbVars,
                 slotVars, queueVars, envVars, histVars>>

\* Ownership is checked again at each file, which is then digested without
\* being claimed.
Recover(e) ==
  /\ pc[Recovery] = "next"
  /\ e \in todo
  /\ todo' = todo \ {e}
  /\ IF inFlight[e] > 0
     THEN UNCHANGED <<pc, current>>
     ELSE Goto(Recovery, "read") /\ current' = e
  /\ UNCHANGED <<attempt, permits, inFlight, fileVars, dbVars, slotVars,
                 queueVars, envVars, histVars>>

\* The scan is done; the worker sleeps until its next one.
ScanDone ==
  /\ pc[Recovery] = "next"
  /\ todo = {}
  /\ Goto(Recovery, "idle")
  /\ UNCHANGED <<current, todo, attempt, permits, inFlight, fileVars, dbVars,
                 slotVars, queueVars, envVars, histVars>>

-----------------------------------------------------------------------------
(* One digest, run by a delivery's task or by the recovery worker *)

\* The project row and the pending file are read and the payload parsed.  A
\* missing file is an error that keeps nothing; a refused payload is not
\* worth keeping.
ReadEvent(r) ==
  /\ pc[r] = "read"
  /\ Goto(r, IF EventAt(r) \notin files THEN "end"
             ELSE IF EventAt(r) \in Refusable THEN "discard" ELSE "exists")
  /\ UNCHANGED <<current, todo, attempt, permits, inFlight, fileVars, dbVars,
                 slotVars, queueVars, envVars, histVars>>

\* A row under the same event id makes this a duplicate: its alerts are
\* replayed, then its file goes the same way.
CheckExists(r) ==
  /\ pc[r] = "exists"
  /\ Goto(r, IF EventAt(r) \in db.rows THEN "alert" ELSE "quota")
  /\ UNCHANGED <<current, todo, attempt, permits, inFlight, fileVars, dbVars,
                 slotVars, queueVars, envVars, histVars>>

\* The cached check: it spares a full quota the write lock.
CheckQuota(r) ==
  /\ pc[r] = "quota"
  /\ Goto(r, IF QuotaFull THEN "count" ELSE "write")
  /\ UNCHANGED <<current, todo, attempt, permits, inFlight, fileVars, dbVars,
                 slotVars, queueVars, envVars, histVars>>

\* Mutant: an alert that could not be recorded is only logged.
AlertErrorIgnored(r) ==
  /\ pc[r] = "alert"
  /\ Fault
  /\ Goto(r, "finish")
  /\ UNCHANGED <<current, todo, attempt, permits, inFlight, fileVars, dbVars,
                 slotVars, queueVars, histVars>>

\* Any of these reads, and the two writes outside the transaction, may fail.
StepFails(r) ==
  /\ pc[r] \in {"read", "exists", "quota", "alert", "count"}
  /\ DatabaseFails(r)
  /\ UNCHANGED <<current, todo, permits, inFlight, fileVars, dbVars, slotVars,
                 queueVars, histVars>>

TakeSlot(r) ==
  /\ pc[r] = "write"
  /\ slot = Nobody
  /\ slot' = r
  /\ tries' = 0
  /\ Goto(r, "writing")
  /\ UNCHANGED <<current, todo, attempt, permits, inFlight, fileVars, dbVars,
                 queueVars, envVars, histVars>>

LeaveSlot == slot' = Nobody /\ tries' = 0

\* Mutant: the events table has no unique index on the event id.
WriteEventAgain(r) ==
  /\ pc[r] = "writing"
  /\ LeaveSlot
  /\ IF QuotaFull
     THEN Goto(r, "count") /\ UNCHANGED dbVars
     ELSE Commit(WithEvent(EventAt(r))) /\ Goto(r, "alert")
  /\ UNCHANGED <<current, todo, attempt, permits, inFlight, fileVars,
                 queueVars, envVars, histVars>>

\* One transaction: the event with all its counters, or nothing.  The unique
\* index refuses a second row before the quota is asked, and that error keeps
\* the file.
WriteEvent(r) ==
  /\ pc[r] = "writing"
  /\ LeaveSlot
  /\ \/ /\ EventAt(r) \in db.rows
        /\ Retain(r, FALSE)
        /\ UNCHANGED dbVars
     \/ /\ EventAt(r) \notin db.rows
        /\ QuotaFull
        /\ Goto(r, "count")
        /\ UNCHANGED <<attempt, dbVars>>
     \/ /\ EventAt(r) \notin db.rows
        /\ ~QuotaFull
        /\ Commit(WithEvent(EventAt(r)))
        /\ Goto(r, "alert")
        /\ UNCHANGED attempt
  /\ UNCHANGED <<current, todo, permits, inFlight, fileVars, queueVars,
                 envVars, histVars>>

\* The transaction fails and rolls back.  Contention is tried again under the
\* same turn at the slot, a few times.
WriteFails(r) ==
  /\ pc[r] = "writing"
  /\ Fault
  /\ \/ /\ tries + 1 < MaxWriteAttempts
        /\ tries' = tries + 1
        /\ UNCHANGED <<pc, attempt, slot>>
     \/ /\ \E contention \in BOOLEAN :
             /\ contention => tries + 1 = MaxWriteAttempts
             /\ Retain(r, contention)
        /\ LeaveSlot
  /\ UNCHANGED <<current, todo, permits, inFlight, fileVars, dbVars,
                 queueVars, histVars>>

\* The alert's history is recorded, once per event: a replay finds it there.
RecordAlert(r) ==
  /\ pc[r] = "alert"
  /\ IF EventAt(r) \in db.alerts
     THEN UNCHANGED dbVars
     ELSE Commit([db EXCEPT !.alerts = @ \cup {EventAt(r)}])
  /\ Goto(r, "finish")
  /\ UNCHANGED <<current, todo, attempt, permits, inFlight, fileVars, slotVars,
                 queueVars, envVars, histVars>>

\* fire_rule looks up an integration deleted since it listed the rule's
\* channels: NotFound, which is no error that keeps the file.
ChannelGone(r) ==
  /\ ChannelsVanish
  /\ pc[r] = "alert"
  /\ EventAt(r) \notin db.alerts
  /\ Goto(r, "discard")
  /\ UNCHANGED <<current, todo, attempt, permits, inFlight, fileVars, dbVars,
                 slotVars, queueVars, envVars, histVars>>

\* Mutant: the file goes with the commit, as it does on Postgres.
FinishRemoves(r) ==
  /\ pc[r] = "finish"
  /\ files' = files \ {EventAt(r)}
  /\ unlinked' = unlinked \cup ({EventAt(r)} \cap files)
  /\ Goto(r, "end")
  /\ UNCHANGED <<current, todo, attempt, permits, inFlight, dbVars, slotVars,
                 queueVars, envVars, histVars>>

\* delete_after_success: the file waits on the durability queue under a claim
\* of its own.  The first entry of an idle queue starts the worker.
Finish(r) ==
  /\ pc[r] = "finish"
  /\ pending' = pending \cup {[by |-> r, event |-> EventAt(r), attempts |-> 0]}
  /\ workerRunning' = TRUE
  /\ worker' = IF workerRunning THEN worker ELSE "sleeping"
  /\ Claim(EventAt(r))
  /\ Goto(r, "end")
  /\ UNCHANGED <<current, todo, attempt, permits, fileVars, dbVars, slotVars,
                 batch, envVars, histVars>>

\* drop_rate_limited counts the drop ...
CountLimited(r) ==
  /\ pc[r] = "count"
  /\ Goto(r, "unlink")
  /\ UNCHANGED <<current, todo, attempt, permits, inFlight, fileVars, dbVars,
                 slotVars, queueVars, envVars, histVars>>

\* The pending files of `gone` are removed; a power loss may undo it.
Remove(gone) ==
  /\ files' = files \ gone
  /\ unlinked' = unlinked \cup (gone \cap files)

\* ... and removes the file; process_ref does the same with one it will not
\* keep.
RemoveRefused(r) ==
  /\ pc[r] \in {"unlink", "discard"}
  /\ Remove({EventAt(r)})
  /\ refused' = IF /\ EventAt(r) \notin db.rows
                   /\ pc[r] = "unlink" \/ EventAt(r) \in Refusable
                THEN refused \cup {EventAt(r)} ELSE refused
  /\ Goto(r, "end")
  /\ UNCHANGED <<current, todo, attempt, permits, inFlight, dbVars, slotVars,
                 queueVars, envVars, acked>>

\* A removal that fails is only logged: the file stays for recovery.
RemoveFails(r) ==
  /\ pc[r] \in {"unlink", "discard"}
  /\ Fault
  /\ Goto(r, "end")
  /\ UNCHANGED <<current, todo, attempt, permits, inFlight, fileVars, dbVars,
                 slotVars, queueVars, histVars>>

\* A task drops its claim and its permit; the recovery worker goes on to the
\* next file.
End(r) ==
  /\ pc[r] = "end"
  /\ IF r = Recovery
     THEN /\ Goto(r, "next")
          /\ current' = NoEvent
          /\ UNCHANGED <<permits, inFlight>>
     ELSE /\ Goto(r, "done")
          /\ Release(EventAt(r))
          /\ permits' = permits + 1
          /\ UNCHANGED current
  /\ UNCHANGED <<todo, attempt, fileVars, dbVars, slotVars, queueVars, envVars,
                 histVars>>

-----------------------------------------------------------------------------
(* The durability queue's worker *)

\* Mutant: the worker exits without clearing worker_running.
TakeBatchKeepsFlag ==
  /\ worker = "sleeping"
  /\ IF pending = {}
     THEN worker' = "stopped" /\ UNCHANGED <<pending, batch>>
     ELSE batch' = pending /\ pending' = {} /\ worker' = "waiting"
  /\ UNCHANGED <<runVars, fileVars, dbVars, slotVars, envVars, histVars,
                 workerRunning>>

\* After its pacing delay it takes every entry, or stops when there is none.
TakeBatch ==
  /\ worker = "sleeping"
  /\ IF pending = {}
     THEN /\ workerRunning' = FALSE
          /\ worker' = "stopped"
          /\ UNCHANGED <<pending, batch>>
     ELSE /\ batch' = pending
          /\ pending' = {}
          /\ worker' = "waiting"
          /\ UNCHANGED workerRunning
  /\ UNCHANGED <<runVars, fileVars, dbVars, slotVars, envVars, histVars>>

\* The checkpoint takes its turn among the digests' writes.
CheckpointStarts ==
  /\ worker = "waiting"
  /\ slot = Nobody
  /\ slot' = Durability
  /\ worker' = "checkpoint"
  /\ sinceCkpt' = {db}
  /\ UNCHANGED <<runVars, fileVars, db, recoverable, tries, pending, batch,
                 workerRunning, envVars, histVars>>

\* Completed: the state it started from, and all since, are safe.
CheckpointCompletes ==
  /\ worker = "checkpoint"
  /\ recoverable' = sinceCkpt
  /\ sinceCkpt' = {}
  /\ LeaveSlot
  /\ worker' = "removing"
  /\ UNCHANGED <<runVars, fileVars, db, pending, batch, workerRunning, envVars,
                 histVars>>

Owned(entries, e) == Cardinality({n \in entries : n.event = e})

\* Mutant: the busy column of the checkpoint's answer is not looked at.
BusyIgnored ==
  /\ worker = "checkpoint"
  /\ Fault
  /\ sinceCkpt' = {}
  /\ LeaveSlot
  /\ worker' = "removing"
  /\ UNCHANGED <<runVars, fileVars, db, recoverable, pending, batch,
                 workerRunning, histVars>>

\* Busy or failed: the entries go back to the queue, except those out of
\* attempts, whose files are left to the recovery worker.
CheckpointFails ==
  /\ worker = "checkpoint"
  /\ Fault
  /\ LET again == {n \in batch : n.attempts + 1 < MaxCheckpointAttempts}
     IN  /\ pending' = pending \cup {[n EXCEPT !.attempts = @ + 1] : n \in again}
         /\ inFlight' = [e \in Events |-> inFlight[e] - Owned(batch \ again, e)]
  /\ batch' = {}
  /\ sinceCkpt' = {}
  /\ LeaveSlot
  /\ worker' = "sleeping"
  /\ UNCHANGED <<pc, current, todo, attempt, permits, fileVars, db, recoverable,
                 workerRunning, histVars>>

RemoveBatch ==
  /\ worker = "removing"
  /\ Remove({n.event : n \in batch})
  /\ worker' = "releasing"
  /\ UNCHANGED <<runVars, dbVars, slotVars, pending, batch, workerRunning,
                 envVars, histVars>>

\* delete_paths logs the files it could not remove and goes on.
RemoveBatchFails ==
  /\ worker = "removing"
  /\ Fault
  /\ \E gone \in SUBSET {n.event : n \in batch} : Remove(gone)
  /\ worker' = "releasing"
  /\ UNCHANGED <<runVars, dbVars, slotVars, pending, batch, workerRunning,
                 histVars>>

\* The claims are dropped after the files.
ReleaseBatch ==
  /\ worker = "releasing"
  /\ inFlight' = [e \in Events |-> inFlight[e] - Owned(batch, e)]
  /\ batch' = {}
  /\ worker' = "sleeping"
  /\ UNCHANGED <<pc, current, todo, attempt, permits, fileVars, dbVars,
                 slotVars, pending, workerRunning, envVars, histVars>>

-----------------------------------------------------------------------------
(* The clock, and crashes *)

\* The quota's minute or hour is over.
NextWindow ==
  /\ window < MaxWindow
  /\ window' = window + 1
  /\ UNCHANGED <<runVars, fileVars, dbVars, slotVars, queueVars, faults,
                 crashes, histVars>>

\* Everything the process keeps in memory is gone, requests under way too.
Restart ==
  /\ crashes < MaxCrashes
  /\ crashes' = crashes + 1
  /\ pc' = [r \in Runs |-> IF r = Recovery \/ pc[r] = "idle" THEN "idle" ELSE "done"]
  /\ current' = NoEvent
  /\ todo' = {}
  /\ attempt' = [d \in Deliveries |-> 0]
  /\ tries' = 0
  /\ permits' = MaxProcessing
  /\ inFlight' = [e \in Events |-> 0]
  /\ sinceCkpt' = {}
  /\ slot' = Nobody
  /\ pending' = {}
  /\ batch' = {}
  /\ workerRunning' = FALSE
  /\ worker' = "stopped"
  /\ UNCHANGED <<window, faults, histVars>>

\* The process is killed: commits and files survive it.
Kill ==
  /\ Restart
  /\ UNCHANGED <<fileVars, db, recoverable>>

\* The machine loses power: the newest commits may roll back, and removals
\* that had not reached the disk are undone.
PowerLoss ==
  /\ PowerFails
  /\ Restart
  /\ db' \in recoverable
  /\ recoverable' = {db'}
  /\ \E back \in SUBSET unlinked : files' = files \cup back
  /\ unlinked' = {}

-----------------------------------------------------------------------------
(* The specification *)

DeliveryStep(d) ==
  \/ Store(d) \/ StoreFails(d) \/ Answer(d) \/ AcquirePermit(d) \/ Retry(d)

DigestStep(r) ==
  \/ ReadEvent(r) \/ CheckExists(r) \/ CheckQuota(r) \/ StepFails(r)
  \/ TakeSlot(r) \/ WriteEvent(r) \/ WriteFails(r)
  \/ RecordAlert(r) \/ ChannelGone(r) \/ Finish(r)
  \/ CountLimited(r) \/ RemoveRefused(r) \/ RemoveFails(r) \/ End(r)

RecoveryStep == Scan \/ (\E e \in Events : Recover(e)) \/ ScanDone

WorkerStep ==
  \/ TakeBatch \/ CheckpointStarts \/ CheckpointCompletes \/ CheckpointFails
  \/ RemoveBatch \/ RemoveBatchFails \/ ReleaseBatch

Next ==
  \/ \E d \in Deliveries :
        Arrive(d) \/ Reject(d) \/ ClientGone(d) \/ DeliveryStep(d)
  \/ \E r \in Runs : DigestStep(r)
  \/ RecoveryStep
  \/ WorkerStep
  \/ NextWindow
  \/ Kill
  \/ PowerLoss

Spec == Init /\ [][Next]_vars

\* Every task of the runtime keeps running, and tokio's semaphore and mutex
\* serve their waiters in order.  Clients, clocks, faults and crashes owe
\* nothing.
Fairness ==
  /\ \A d \in Deliveries : WF_vars(DeliveryStep(d)) /\ SF_vars(AcquirePermit(d))
  /\ \A r \in Runs : WF_vars(DigestStep(r)) /\ SF_vars(TakeSlot(r))
  /\ WF_vars(Scan) /\ WF_vars(ScanDone)
  /\ \A e \in Events : WF_vars(Recover(e))
  /\ WF_vars(WorkerStep) /\ SF_vars(CheckpointStarts)

FairSpec == Spec /\ Fairness

-----------------------------------------------------------------------------
(* Properties *)

\* The in-flight registry and the processing slots are never leaked: an event
\* is registered once for each task and each queue entry that owns it, and a
\* slot is out for each digest running (InFlightDigests, processing_slot).
Claims(e) ==
  Cardinality({d \in Deliveries : EventOf[d] = e /\ pc[d] \in HoldsGuard})
    + Owned(pending, e) + Owned(batch, e)

ResourcesAccounted ==
  /\ \A e \in Events : inFlight[e] = Claims(e)
  /\ permits + Cardinality({d \in Deliveries : pc[d] \in HoldsPermit}) = MaxProcessing

\* An acknowledged event keeps its file until its row is in the database or
\* the server refuses it: a crash at any point loses nothing ("An event
\* accepted by ingest is kept on disk until its digest has committed").
Known(e) == e \in files \/ e \in db.rows \/ e \in refused

NothingAckedIsLost == \A e \in acked : Known(e)

\* Why it holds, and inductive: the answer comes after the store, a digest
\* never outlives all traces of its event, and what it is about to remove is
\* either committed or refused.  A loss of power breaks the fourth conjunct.
CommittedSteps == {"alert", "finish"}
ReadSteps == DigestSteps \ {"read", "end"}

KeptInv ==
  /\ NothingAckedIsLost
  /\ \A d \in Deliveries : pc[d] = "answer" => Known(EventOf[d])
  /\ \A r \in Runs : pc[r] \in ReadSteps => Known(EventAt(r))
  /\ \A r \in Runs : pc[r] \in CommittedSteps => EventAt(r) \in db.rows
  /\ \A r \in Runs : pc[r] = "discard" => EventAt(r) \in db.rows \cup Refusable
  /\ \A n \in pending \cup batch : n.event \in db.rows

\* However many digests of one event run at once and however often it is
\* replayed, it is counted once: digested_event_count is the rows stored.
DigestedOnce ==
  \A state \in recoverable : state.digested = Cardinality(state.rows)

\* The queue's worker is running whenever something waits on the queue, and
\* worker_running says so (DurabilityQueue::enqueue and ::run share a lock).
QueueIsServed ==
  /\ workerRunning <=> worker # "stopped"
  /\ pending # {} => workerRunning
  /\ batch # {} <=> worker \in {"waiting", "checkpoint", "removing", "releasing"}

\* A stored event's file goes only after a FULL checkpoint that started after
\* its commit: from then on no loss of power can take the row back
\* (delete_after_success, DurabilityQueue).
DeletedOnlyWhenDurable ==
  \A e \in db.rows : e \notin files => \A state \in recoverable : e \in state.rows

\* "Persist alert history before deleting the only durable source": a stored
\* event whose file is gone has its alert on record, through a power loss too.
AlertedBeforeDeleted ==
  \A e \in db.rows : e \notin files => \A state \in recoverable : e \in state.alerts

\* Every pending file is dealt with in the end: its own digest, the recovery
\* worker or the durability worker gets to it once the faults are over.
FilesDrain == \A e \in Events : e \in files ~> e \notin files

-----------------------------------------------------------------------------
(* The pipeline keeps the promise of AcceptedEvents *)

status == [e \in Events |->
             IF e \in db.rows THEN "stored"
             ELSE IF e \in files THEN "held"
             ELSE IF e \in refused THEN "dropped" ELSE "none"]

Accepted == INSTANCE AcceptedEvents WITH Events <- Events, status <- status, acked <- acked

ImplementsAccepted   == Accepted!Spec
ImplementsUnderPower == Accepted!PowerSpec
=============================================================================
