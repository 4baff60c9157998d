------------------------ MODULE DigestPipelineProofs ------------------------
(***************************************************************************)
(* Proofs about DigestPipeline, for every number of events, deliveries,    *)
(* faults and crashes: its types and retry bounds, that the durability     *)
(* queue is always served, and (without losses of power) that no           *)
(* acknowledged event is lost.                                             *)
(***************************************************************************)
EXTENDS DigestPipeline, FiniteSetTheorems, TLAPS

-----------------------------------------------------------------------------
(* Types *)

\* A group of variables a step leaves alone keeps its types.
LEMMA Unchanged ==
  ASSUME TypeOK
  PROVE  /\ UNCHANGED runVars => RunTypes'
         /\ UNCHANGED fileVars => FileTypes'
         /\ UNCHANGED dbVars => DbTypes'
         /\ UNCHANGED slotVars => SlotTypes'
         /\ UNCHANGED queueVars => QueueTypes'
         /\ UNCHANGED envVars => EnvTypes'
         /\ UNCHANGED histVars => HistTypes'
BY DEF TypeOK, RunTypes, FileTypes, DbTypes, SlotTypes, QueueTypes, EnvTypes,
       HistTypes, runVars, fileVars, dbVars, slotVars, queueVars, envVars, histVars

\* A run inside its digest is about one of the events.
LEMMA EventAtType ==
  ASSUME TypeOK, NEW r \in Runs, pc[r] \in DigestSteps
  PROVE  EventAt(r) \in Events
BY DeliveriesAssumption DEF TypeOK, RunTypes, EventAt, Runs

\* Moving a run, with the event the recovery worker holds kept.
LEMMA GotoType ==
  ASSUME TypeOK, NEW r \in Runs, NEW step \in Steps, Goto(r, step),
         r = Recovery => pc[r] \in DigestSteps \/ step \notin DigestSteps,
         UNCHANGED current
  PROVE  /\ pc' \in [Runs -> Steps]
         /\ current' \in Events \cup {NoEvent}
         /\ pc'[Recovery] \in DigestSteps => current' \in Events
BY DEF TypeOK, RunTypes, Goto, Runs

\* The same with everything else of the runs unchanged.
LEMMA GotoRunTypes ==
  ASSUME TypeOK, NEW r \in Runs, NEW step \in Steps, Goto(r, step),
         r = Recovery => pc[r] \in DigestSteps \/ step \notin DigestSteps,
         UNCHANGED <<current, todo, attempt, permits, inFlight>>
  PROVE  RunTypes'
BY GotoType DEF TypeOK, RunTypes

LEMMA TypeInit == Init => TypeOK
<1> SUFFICES ASSUME Init PROVE TypeOK
  OBVIOUS
<1>1. EmptyDb \in DbState
  BY DEF EmptyDb, DbState
<1>2. RunTypes
  BY LimitsAssumption DEF Init, RunTypes, Runs, Steps, DigestSteps
<1>3. FileTypes /\ HistTypes
  BY DEF Init, FileTypes, HistTypes
<1>4. DbTypes
  BY <1>1 DEF Init, DbTypes
<1>5. SlotTypes
  BY LimitsAssumption DEF Init, SlotTypes
<1>6. QueueTypes
  BY FS_EmptySet DEF Init, QueueTypes
<1>7. EnvTypes
  BY LimitsAssumption DEF Init, EnvTypes
<1> QED
  BY <1>2, <1>3, <1>4, <1>5, <1>6, <1>7 DEF TypeOK

LEMMA FaultType ==
  ASSUME TypeOK, Fault
  PROVE  EnvTypes'
BY LimitsAssumption DEF TypeOK, EnvTypes, Fault

LEMMA CommitType ==
  ASSUME TypeOK, NEW state \in DbState, Commit(state)
  PROVE  DbTypes'
BY DEF TypeOK, DbTypes, Commit

LEMMA WithEventType ==
  ASSUME TypeOK, NEW e \in Events
  PROVE  WithEvent(e) \in DbState
BY LimitsAssumption DEF TypeOK, DbTypes, EnvTypes, DbState, WithEvent

LEMMA RetainType ==
  ASSUME TypeOK, NEW r \in Runs, pc[r] \in DigestSteps, NEW contention \in BOOLEAN,
         Retain(r, contention), UNCHANGED <<current, todo, permits, inFlight>>
  PROVE  RunTypes'
<1>1. CASE contention /\ r \in Deliveries /\ attempt[r] + 1 < MaxDigestAttempts
  <2>1. Goto(r, "backoff") /\ attempt' = [attempt EXCEPT ![r] = @ + 1]
    BY <1>1 DEF Retain
  <2>2. attempt' \in [Deliveries -> 0..(MaxDigestAttempts - 1)]
    BY <1>1, <2>1, LimitsAssumption DEF TypeOK, RunTypes
  <2>3. "backoff" \in Steps
    BY DEF Steps
  <2> QED
    BY <2>1, <2>2, <2>3, GotoType DEF TypeOK, RunTypes
<1>2. CASE ~(contention /\ r \in Deliveries /\ attempt[r] + 1 < MaxDigestAttempts)
  <2>1. "end" \in Steps
    BY DEF Steps, DigestSteps
  <2> QED
    BY <1>2, <2>1, GotoRunTypes DEF Retain
<1> QED
  BY <1>1, <1>2

\* A step of a delivery, its digest task apart.
LEMMA DeliveryTypes ==
  ASSUME TypeOK, NEW d \in Deliveries,
         Arrive(d) \/ Reject(d) \/ ClientGone(d) \/ DeliveryStep(d)
  PROVE  TypeOK'
<1> USE DeliveriesAssumption
<1>r. d \in Runs /\ d # Recovery /\ EventOf[d] \in Events
  BY DEF Runs
<1>s. {"idle", "storing", "orphan", "answer", "waiting", "done", "read"} \subseteq Steps
  BY DEF Steps, DigestSteps
<1>1. CASE Arrive(d)
  <2>1. RunTypes'
    BY <1>1, <1>r, <1>s, GotoType DEF Arrive, Claim, TypeOK, RunTypes
  <2> QED
    BY <1>1, <2>1, Unchanged DEF Arrive, TypeOK
<1>2. CASE Reject(d)
  <2>1. RunTypes'
    BY <1>2, <1>r, <1>s, GotoRunTypes DEF Reject
  <2> QED
    BY <1>2, <2>1, Unchanged DEF Reject, TypeOK
<1>3. CASE ClientGone(d)
  <2>1. RunTypes'
    BY <1>3, <1>r, <1>s, GotoType DEF ClientGone, Release, TypeOK, RunTypes
  <2> QED
    BY <1>3, <2>1, Unchanged DEF ClientGone, TypeOK
<1>4. CASE Store(d)
  <2>1. RunTypes'
    BY <1>4, <1>r, <1>s, GotoRunTypes DEF Store
  <2>2. FileTypes'
    BY <1>4, <1>r DEF Store, TypeOK, FileTypes
  <2> QED
    BY <1>4, <2>1, <2>2, Unchanged DEF Store, TypeOK
<1>5. CASE StoreFails(d)
  <2>1. RunTypes'
    BY <1>5, <1>r, <1>s, GotoType DEF StoreFails, Release, TypeOK, RunTypes
  <2> QED
    BY <1>5, <2>1, FaultType, Unchanged DEF StoreFails, TypeOK
<1>6. CASE Answer(d)
  <2>1. RunTypes'
    BY <1>6, <1>r, <1>s, GotoRunTypes DEF Answer
  <2>2. HistTypes'
    BY <1>6, <1>r DEF Answer, TypeOK, HistTypes
  <2> QED
    BY <1>6, <2>1, <2>2, Unchanged DEF Answer, TypeOK
<1>7. CASE AcquirePermit(d)
  <2>1. RunTypes'
    BY <1>7, <1>r, <1>s, GotoType DEF AcquirePermit, TypeOK, RunTypes
  <2> QED
    BY <1>7, <2>1, Unchanged DEF AcquirePermit, TypeOK
<1>8. CASE Retry(d)
  <2>1. RunTypes'
    BY <1>8, <1>r, <1>s, GotoRunTypes DEF Retry
  <2> QED
    BY <1>8, <2>1, Unchanged DEF Retry, TypeOK
<1> QED
  BY <1>1, <1>2, <1>3, <1>4, <1>5, <1>6, <1>7, <1>8 DEF DeliveryStep

\* A step of a digest.
LEMMA DigestTypes ==
  ASSUME TypeOK, NEW r \in Runs, DigestStep(r)
  PROVE  TypeOK'
<1> USE DeliveriesAssumption
<1>s. DigestSteps \subseteq Steps /\ {"next", "done"} \subseteq Steps
  BY DEF Steps, DigestSteps
<1>i. pc[r] \in DigestSteps
  BY DEF DigestStep, ReadEvent, CheckExists, CheckQuota, StepFails, TakeSlot,
         WriteEvent, WriteFails, RecordAlert, ChannelGone, Finish, CountLimited,
         RemoveRefused, RemoveFails, End, DigestSteps
<1>e. EventAt(r) \in Events
  BY <1>i, EventAtType
<1>g. ASSUME NEW step \in DigestSteps, Goto(r, step),
             UNCHANGED <<current, todo, attempt, permits, inFlight>>
      PROVE  RunTypes'
  BY <1>i, <1>s, <1>g, GotoRunTypes
<1>1. CASE ReadEvent(r)
  <2>1. RunTypes'
    BY <1>1, <1>g DEF ReadEvent, DigestSteps
  <2> QED
    BY <1>1, <2>1, Unchanged DEF ReadEvent, TypeOK
<1>2. CASE CheckExists(r)
  <2>1. RunTypes'
    BY <1>2, <1>g DEF CheckExists, DigestSteps
  <2> QED
    BY <1>2, <2>1, Unchanged DEF CheckExists, TypeOK
<1>3. CASE CheckQuota(r)
  <2>1. RunTypes'
    BY <1>3, <1>g DEF CheckQuota, DigestSteps
  <2> QED
    BY <1>3, <2>1, Unchanged DEF CheckQuota, TypeOK
<1>4. CASE StepFails(r)
  <2>1. RunTypes'
    BY <1>4, <1>i, RetainType DEF StepFails, DatabaseFails
  <2> QED
    BY <1>4, <2>1, FaultType, Unchanged DEF StepFails, DatabaseFails, TypeOK
<1>5. CASE TakeSlot(r)
  <2>1. RunTypes'
    BY <1>5, <1>g DEF TakeSlot, DigestSteps
  <2>2. SlotTypes'
    BY <1>5, LimitsAssumption DEF TakeSlot, TypeOK, SlotTypes
  <2> QED
    BY <1>5, <2>1, <2>2, Unchanged DEF TakeSlot, TypeOK
<1>6. CASE WriteEvent(r)
  <2>1. RunTypes'
    <3>1. CASE Retain(r, FALSE)
      BY <1>6, <3>1, <1>i, RetainType DEF WriteEvent
    <3>2. CASE Goto(r, "count") /\ UNCHANGED attempt
      BY <1>6, <3>2, <1>g DEF WriteEvent, DigestSteps
    <3>3. CASE Goto(r, "alert") /\ UNCHANGED attempt
      BY <1>6, <3>3, <1>g DEF WriteEvent, DigestSteps
    <3> QED
      BY <1>6, <3>1, <3>2, <3>3 DEF WriteEvent
  <2>2. SlotTypes'
    BY <1>6, LimitsAssumption DEF WriteEvent, LeaveSlot, TypeOK, SlotTypes
  <2>3. DbTypes'
    BY <1>6, <1>e, CommitType, WithEventType, Unchanged DEF WriteEvent
  <2> QED
    BY <1>6, <2>1, <2>2, <2>3, Unchanged DEF WriteEvent, TypeOK
<1>7. CASE WriteFails(r)
  <2>1. CASE tries + 1 < MaxWriteAttempts /\ tries' = tries + 1 /\ UNCHANGED <<pc, attempt, slot>>
    <3>1. SlotTypes'
      BY <2>1, LimitsAssumption DEF TypeOK, SlotTypes
    <3>2. UNCHANGED runVars
      BY <1>7, <2>1 DEF WriteFails, runVars
    <3> QED
      BY <1>7, <3>1, <3>2, FaultType, Unchanged DEF WriteFails, TypeOK
  <2>2. CASE LeaveSlot /\ \E contention \in BOOLEAN : Retain(r, contention)
    <3>1. SlotTypes'
      BY <2>2, LimitsAssumption DEF LeaveSlot, TypeOK, SlotTypes
    <3>2. RunTypes'
      BY <1>7, <2>2, <1>i, RetainType DEF WriteFails
    <3> QED
      BY <1>7, <3>1, <3>2, FaultType, Unchanged DEF WriteFails, TypeOK
  <2> QED
    BY <1>7, <2>1, <2>2 DEF WriteFails
<1>8. CASE RecordAlert(r)
  <2>1. RunTypes'
    BY <1>8, <1>g DEF RecordAlert, DigestSteps
  <2>2. [db EXCEPT !.alerts = @ \cup {EventAt(r)}] \in DbState
    BY <1>e DEF TypeOK, DbTypes, DbState
  <2>3. DbTypes'
    BY <1>8, <2>2, CommitType, Unchanged DEF RecordAlert
  <2> QED
    BY <1>8, <2>1, <2>3, Unchanged DEF RecordAlert, TypeOK
<1>9. CASE ChannelGone(r)
  <2>1. RunTypes'
    BY <1>9, <1>g DEF ChannelGone, DigestSteps
  <2> QED
    BY <1>9, <2>1, Unchanged DEF ChannelGone, TypeOK
<1>10. CASE Finish(r)
  <2>1. RunTypes'
    <3>1. "end" \in DigestSteps
      BY DEF DigestSteps
    <3> QED
      BY <1>10, <1>s, <1>i, <1>e, <3>1, GotoType DEF Finish, Claim, TypeOK, RunTypes
  <2>2. [by |-> r, event |-> EventAt(r), attempts |-> 0] \in Entry
    BY <1>e, LimitsAssumption DEF Entry
  <2>3. QueueTypes'
    BY <1>10, <2>2, FS_AddElement DEF Finish, TypeOK, QueueTypes
  <2> QED
    BY <1>10, <2>1, <2>3, Unchanged DEF Finish, TypeOK
<1>11. CASE CountLimited(r)
  <2>1. RunTypes'
    BY <1>11, <1>g DEF CountLimited, DigestSteps
  <2> QED
    BY <1>11, <2>1, Unchanged DEF CountLimited, TypeOK
<1>12. CASE RemoveRefused(r)
  <2>1. RunTypes'
    BY <1>12, <1>g DEF RemoveRefused, DigestSteps
  <2>2. FileTypes' /\ HistTypes'
    BY <1>12, <1>e DEF RemoveRefused, Remove, TypeOK, FileTypes, HistTypes
  <2> QED
    BY <1>12, <2>1, <2>2, Unchanged DEF RemoveRefused, TypeOK
<1>13. CASE RemoveFails(r)
  <2>1. RunTypes'
    BY <1>13, <1>g DEF RemoveFails, DigestSteps
  <2> QED
    BY <1>13, <2>1, FaultType, Unchanged DEF RemoveFails, TypeOK
<1>14. CASE End(r)
  <2>1. CASE r = Recovery
    BY <1>14, <2>1, <1>s, Unchanged
    DEF End, Goto, TypeOK, RunTypes, DigestSteps
  <2>2. CASE r # Recovery
    <3>1. RunTypes'
      BY <1>14, <2>2, <1>s, <1>e, GotoType DEF End, Release, TypeOK, RunTypes
    <3> QED
      BY <1>14, <3>1, Unchanged DEF End, TypeOK
  <2> QED
    BY <2>1, <2>2
<1> QED
  BY <1>1, <1>2, <1>3, <1>4, <1>5, <1>6, <1>7, <1>8, <1>9, <1>10, <1>11,
     <1>12, <1>13, <1>14 DEF DigestStep

\* A scan and its progress from file to file.
LEMMA RecoveryTypes ==
  ASSUME TypeOK, RecoveryStep
  PROVE  TypeOK'
<1>s. {"next", "idle", "read"} \subseteq Steps /\ Recovery \in Runs
  BY DEF Steps, DigestSteps, Runs
<1>n. {"next", "idle"} \cap DigestSteps = {}
  BY DEF DigestSteps
<1>1. CASE Scan
  <2>1. RunTypes'
    BY <1>1, <1>s, <1>n, GotoType DEF Scan, TypeOK, RunTypes, FileTypes
  <2> QED
    BY <1>1, <2>1, Unchanged DEF Scan, TypeOK
<1>2. ASSUME NEW e \in Events, Recover(e)
      PROVE  TypeOK'
  <2>1. RunTypes'
    BY <1>2, <1>s DEF Recover, Goto, TypeOK, RunTypes
  <2> QED
    BY <1>2, <2>1, Unchanged DEF Recover, TypeOK
<1>3. CASE ScanDone
  <2>1. RunTypes'
    BY <1>3, <1>s, <1>n, GotoRunTypes DEF ScanDone
  <2> QED
    BY <1>3, <2>1, Unchanged DEF ScanDone, TypeOK
<1> QED
  BY <1>1, <1>2, <1>3 DEF RecoveryStep

\* The entries a failed checkpoint gives another attempt.
LEMMA AgainType ==
  ASSUME QueueTypes,
         NEW again, again = {n \in batch : n.attempts + 1 < MaxCheckpointAttempts},
         NEW next, next = {[n EXCEPT !.attempts = @ + 1] : n \in again}
  PROVE  next \subseteq Entry /\ IsFiniteSet(next)
<1>1. next \subseteq Entry
  BY LimitsAssumption DEF QueueTypes, Entry
<1>2. IsFiniteSet(again)
  BY FS_Subset DEF QueueTypes
<1>3. [n \in again |-> [n EXCEPT !.attempts = @ + 1]] \in Surjection(again, next)
  BY DEF Surjection
<1>4. IsFiniteSet(next)
  BY <1>2, <1>3, FS_Surjection
<1> QED
  BY <1>1, <1>4

\* A count of queue entries is a number.
LEMMA OwnedType ==
  ASSUME NEW entries, IsFiniteSet(entries), NEW e
  PROVE  Owned(entries, e) \in Nat
BY FS_Subset, FS_CardinalityType DEF Owned

LEMMA EventsOfBatch ==
  ASSUME QueueTypes
  PROVE  {n.event : n \in batch} \subseteq Events
BY DEF QueueTypes, Entry

\* A step of the durability worker.
LEMMA WorkerTypes ==
  ASSUME TypeOK, WorkerStep
  PROVE  TypeOK'
<1>q. QueueTypes
  BY DEF TypeOK
<1>1. CASE TakeBatch
  <2>1. QueueTypes'
    BY <1>1, FS_EmptySet DEF TakeBatch, TypeOK, QueueTypes
  <2> QED
    BY <1>1, <2>1, Unchanged DEF TakeBatch, TypeOK
<1>2. CASE CheckpointStarts
  <2>1. DbTypes' /\ SlotTypes' /\ QueueTypes'
    BY <1>2 DEF CheckpointStarts, TypeOK, DbTypes, SlotTypes, QueueTypes
  <2> QED
    BY <1>2, <2>1, Unchanged DEF CheckpointStarts, TypeOK
<1>3. CASE CheckpointCompletes
  <2>1. DbTypes' /\ SlotTypes' /\ QueueTypes'
    BY <1>3, LimitsAssumption
    DEF CheckpointCompletes, LeaveSlot, TypeOK, DbTypes, SlotTypes, QueueTypes
  <2> QED
    BY <1>3, <2>1, Unchanged DEF CheckpointCompletes, TypeOK
<1>4. CASE CheckpointFails
  <2> DEFINE again == {n \in batch : n.attempts + 1 < MaxCheckpointAttempts}
  <2>1. IsFiniteSet(batch \ again)
    BY <1>q, FS_Subset DEF QueueTypes
  <2>2. RunTypes'
    <3>1. \A e \in Events : Owned(batch \ again, e) \in Nat
      BY <2>1, OwnedType
    <3>2. inFlight' \in [Events -> Int]
      BY <1>4, <3>1 DEF CheckpointFails, TypeOK, RunTypes
    <3> QED
      BY <1>4, <3>2 DEF CheckpointFails, TypeOK, RunTypes
  <2>3. QueueTypes'
    <3>1. /\ {[n EXCEPT !.attempts = @ + 1] : n \in again} \subseteq Entry
          /\ IsFiniteSet({[n EXCEPT !.attempts = @ + 1] : n \in again})
      BY <1>q, AgainType
    <3>2. pending' \subseteq Entry /\ IsFiniteSet(pending')
      BY <1>4, <1>q, <3>1, FS_Union DEF CheckpointFails, QueueTypes
    <3> QED
      BY <1>4, <1>q, <3>2, FS_EmptySet DEF CheckpointFails, QueueTypes
  <2>4. DbTypes' /\ SlotTypes'
    BY <1>4, LimitsAssumption
    DEF CheckpointFails, LeaveSlot, TypeOK, DbTypes, SlotTypes
  <2> QED
    BY <1>4, <2>2, <2>3, <2>4, FaultType, Unchanged DEF CheckpointFails, TypeOK
<1>5. CASE RemoveBatch
  <2>1. FileTypes' /\ QueueTypes'
    BY <1>5, <1>q, EventsOfBatch DEF RemoveBatch, Remove, TypeOK, FileTypes, QueueTypes
  <2> QED
    BY <1>5, <2>1, Unchanged DEF RemoveBatch, TypeOK
<1>6. CASE RemoveBatchFails
  <2>1. FileTypes' /\ QueueTypes'
    BY <1>6, <1>q, EventsOfBatch DEF RemoveBatchFails, Remove, TypeOK, FileTypes, QueueTypes
  <2> QED
    BY <1>6, <2>1, FaultType, Unchanged DEF RemoveBatchFails, TypeOK
<1>7. CASE ReleaseBatch
  <2>1. \A e \in Events : Owned(batch, e) \in Nat
    BY <1>q, OwnedType DEF QueueTypes
  <2>2. inFlight' \in [Events -> Int]
    BY <1>7, <2>1 DEF ReleaseBatch, TypeOK, RunTypes
  <2>3. RunTypes' /\ QueueTypes'
    BY <1>7, <1>q, <2>2, FS_EmptySet DEF ReleaseBatch, TypeOK, RunTypes, QueueTypes
  <2> QED
    BY <1>7, <2>3, Unchanged DEF ReleaseBatch, TypeOK
<1> QED
  BY <1>1, <1>2, <1>3, <1>4, <1>5, <1>6, <1>7 DEF WorkerStep

\* A crash resets what is in memory.
LEMMA RestartTypes ==
  ASSUME TypeOK, Restart
  PROVE  RunTypes' /\ SlotTypes' /\ QueueTypes' /\ EnvTypes' /\ HistTypes' /\ sinceCkpt' = {}
<1>1. RunTypes'
  BY LimitsAssumption, DeliveriesAssumption DEF Restart, RunTypes, Runs, Steps, DigestSteps
<1>2. SlotTypes' /\ EnvTypes'
  BY LimitsAssumption DEF Restart, TypeOK, SlotTypes, EnvTypes
<1>3. QueueTypes'
  BY FS_EmptySet DEF Restart, QueueTypes
<1> QED
  BY <1>1, <1>2, <1>3 DEF Restart, TypeOK, HistTypes, histVars

LEMMA TypeStep == TypeOK /\ [Next]_vars => TypeOK'
<1> SUFFICES ASSUME TypeOK, [Next]_vars PROVE TypeOK'
  OBVIOUS
<1>1. CASE \E d \in Deliveries : Arrive(d) \/ Reject(d) \/ ClientGone(d) \/ DeliveryStep(d)
  BY <1>1, DeliveryTypes
<1>2. CASE \E r \in Runs : DigestStep(r)
  BY <1>2, DigestTypes
<1>3. CASE RecoveryStep
  BY <1>3, RecoveryTypes
<1>4. CASE WorkerStep
  BY <1>4, WorkerTypes
<1>5. CASE NextWindow
  <2>1. EnvTypes'
    BY <1>5, LimitsAssumption DEF NextWindow, TypeOK, EnvTypes
  <2> QED
    BY <1>5, <2>1, Unchanged DEF NextWindow, TypeOK
<1>6. CASE Kill
  <2>1. FileTypes' /\ DbTypes'
    BY <1>6, RestartTypes DEF Kill, TypeOK, FileTypes, DbTypes, fileVars
  <2> QED
    BY <1>6, <2>1, RestartTypes DEF Kill, TypeOK
<1>7. CASE PowerLoss
  <2>1. FileTypes' /\ DbTypes'
    BY <1>7, RestartTypes DEF PowerLoss, TypeOK, FileTypes, DbTypes
  <2> QED
    BY <1>7, <2>1, RestartTypes DEF PowerLoss, TypeOK
<1>8. CASE UNCHANGED vars
  BY <1>8, Unchanged DEF vars, TypeOK
<1> QED
  BY <1>1, <1>2, <1>3, <1>4, <1>5, <1>6, <1>7, <1>8 DEF Next

\* Every state the program reaches is well typed, and none of its retry loops
\* (digest_stored_event, write_digest, DurabilityQueue::run) runs longer than
\* its limit.
THEOREM TypesHold == Spec => []TypeOK
<1>1. Init => TypeOK
  BY TypeInit
<1>2. TypeOK /\ [Next]_vars => TypeOK'
  BY TypeStep
<1> QED
  BY <1>1, <1>2, PTL DEF Spec

-----------------------------------------------------------------------------
(* The durability queue *)

\* Only a finished digest, the worker and a crash touch the queue.
LEMMA QueueLeftAlone ==
  ASSUME [Next]_vars
  PROVE  \/ UNCHANGED queueVars
         \/ \E r \in Runs : Finish(r)
         \/ WorkerStep
         \/ Restart
BY DEF Next, vars, Arrive, Reject, ClientGone, DeliveryStep, Store, StoreFails,
       Answer, AcquirePermit, Retry, RecoveryStep, Scan, Recover, ScanDone,
       DigestStep, ReadEvent, CheckExists, CheckQuota, StepFails, TakeSlot,
       WriteEvent, WriteFails, RecordAlert, ChannelGone, CountLimited,
       RemoveRefused, RemoveFails, End, NextWindow, Kill, PowerLoss

LEMMA QueueStep == QueueIsServed /\ [Next]_vars => QueueIsServed'
<1> SUFFICES ASSUME QueueIsServed, [Next]_vars PROVE QueueIsServed'
  OBVIOUS
<1>1. CASE UNCHANGED queueVars
  BY <1>1 DEF QueueIsServed, queueVars
<1>2. CASE \E r \in Runs : Finish(r)
  BY <1>2 DEF QueueIsServed, Finish
<1>3. CASE WorkerStep
  <2>1. CASE TakeBatch
    BY <2>1 DEF QueueIsServed, TakeBatch
  <2>2. CASE CheckpointStarts
    BY <2>2 DEF QueueIsServed, CheckpointStarts
  <2>3. CASE CheckpointCompletes
    BY <2>3 DEF QueueIsServed, CheckpointCompletes
  <2>4. CASE CheckpointFails
    BY <2>4 DEF QueueIsServed, CheckpointFails
  <2>5. CASE RemoveBatch \/ RemoveBatchFails
    BY <2>5 DEF QueueIsServed, RemoveBatch, RemoveBatchFails
  <2>6. CASE ReleaseBatch
    BY <2>6 DEF QueueIsServed, ReleaseBatch
  <2> QED
    BY <1>3, <2>1, <2>2, <2>3, <2>4, <2>5, <2>6 DEF WorkerStep
<1>4. CASE Restart
  BY <1>4 DEF QueueIsServed, Restart
<1> QED
  BY <1>1, <1>2, <1>3, <1>4, QueueLeftAlone

\* No wakeup is lost between DurabilityQueue::enqueue and the worker's exit:
\* whenever an entry waits, a worker runs that will take it.
THEOREM QueueAlwaysServed == Spec => []QueueIsServed
<1>1. Init => QueueIsServed
  BY DEF Init, QueueIsServed
<1> QED
  BY <1>1, QueueStep, PTL DEF Spec

-----------------------------------------------------------------------------
(* One event, counted once *)

\* What DigestedOnce says of a state of the database, with the finiteness its
\* count needs, and for every state the model keeps.
CountsRows(state) ==
  IsFiniteSet(state.rows) /\ state.digested = Cardinality(state.rows)

CountInv == \A state \in recoverable \cup sinceCkpt \cup {db} : CountsRows(state)

\* Only commits, checkpoints and crashes touch the database.
LEMMA DbLeftAlone ==
  ASSUME [Next]_vars
  PROVE  \/ UNCHANGED dbVars
         \/ \E r \in Runs : WriteEvent(r) \/ RecordAlert(r)
         \/ WorkerStep
         \/ Kill \/ PowerLoss
BY DEF Next, vars, Arrive, Reject, ClientGone, DeliveryStep, Store, StoreFails,
       Answer, AcquirePermit, Retry, RecoveryStep, Scan, Recover, ScanDone,
       DigestStep, ReadEvent, CheckExists, CheckQuota, StepFails, TakeSlot,
       WriteFails, ChannelGone, Finish, CountLimited, RemoveRefused,
       RemoveFails, End, NextWindow

LEMMA CountCommit ==
  ASSUME CountInv, NEW state, CountsRows(state), Commit(state)
  PROVE  CountInv'
BY DEF CountInv, Commit, CountsRows

LEMMA CountStep == TypeOK /\ CountInv /\ [Next]_vars => CountInv'
<1> SUFFICES ASSUME TypeOK, CountInv, [Next]_vars PROVE CountInv'
  OBVIOUS
<1>d. db \in DbState /\ CountsRows(db)
  BY DEF TypeOK, DbTypes, CountInv
<1>1. CASE UNCHANGED dbVars
  BY <1>1 DEF CountInv, dbVars, CountsRows
<1>2. ASSUME NEW r \in Runs, WriteEvent(r)
      PROVE  CountInv'
  <2>1. CASE UNCHANGED dbVars
    BY <2>1 DEF CountInv, dbVars, CountsRows
  <2>2. CASE EventAt(r) \notin db.rows /\ Commit(WithEvent(EventAt(r)))
    <3>1. CountsRows(WithEvent(EventAt(r)))
      BY <1>d, <2>2, FS_AddElement DEF WithEvent, CountsRows, DbState
    <3> QED
      BY <2>2, <3>1, CountCommit
  <2> QED
    BY <1>2, <2>1, <2>2 DEF WriteEvent
<1>3. ASSUME NEW r \in Runs, RecordAlert(r)
      PROVE  CountInv'
  <2>1. CountsRows([db EXCEPT !.alerts = @ \cup {EventAt(r)}])
    BY <1>d DEF CountsRows, DbState
  <2> QED
    BY <1>1, <1>3, <2>1, CountCommit DEF RecordAlert
<1>4. CASE WorkerStep
  <2>1. /\ db' = db
        /\ recoverable' \subseteq recoverable \cup sinceCkpt
        /\ sinceCkpt' \subseteq sinceCkpt \cup {db}
    BY <1>4 DEF WorkerStep, TakeBatch, CheckpointStarts, CheckpointCompletes,
                CheckpointFails, RemoveBatch, RemoveBatchFails, ReleaseBatch, dbVars
  <2> QED
    BY <2>1 DEF CountInv, CountsRows
<1>5. CASE Kill
  BY <1>5 DEF Kill, Restart, CountInv, CountsRows
<1>6. CASE PowerLoss
  BY <1>6 DEF PowerLoss, Restart, CountInv, CountsRows
<1> QED
  BY <1>1, <1>2, <1>3, <1>4, <1>5, <1>6, DbLeftAlone

\* Concurrent digests, replays, crashes and losses of power never count an
\* event twice: in every state the database is in, or may be left in by a loss
\* of power, digested_event_count is the number of rows stored.
THEOREM CountedOnce == Spec => []DigestedOnce
<1>0. CountsRows(EmptyDb)
  BY FS_EmptySet DEF CountsRows, EmptyDb
<1>1. Init => CountInv
  <2>1. SUFFICES ASSUME Init, NEW state \in recoverable \cup sinceCkpt \cup {db}
                 PROVE  CountsRows(state)
    BY DEF CountInv
  <2>2. state = EmptyDb
    BY <2>1 DEF Init
  <2> QED
    BY <1>0, <2>2
<1>2. CountInv => DigestedOnce
  BY DEF CountInv, CountsRows, DigestedOnce
<1> QED
  BY <1>1, <1>2, TypeInit, TypeStep, CountStep, PTL DEF Spec

-----------------------------------------------------------------------------
(* What was acknowledged is never lost *)

\* A step other than a loss of power takes back no commit and loses sight of no
\* event: what it removes is committed or marked refused.
LEMMA KnownStable ==
  ASSUME TypeOK, KeptInv, [Next]_vars, ~PowerLoss
  PROVE  /\ db.rows \subseteq db'.rows
         /\ \A e : Known(e) => Known(e)'
<1>d. db \in DbState
  BY DEF TypeOK, DbTypes
<1>1. CASE UNCHANGED <<fileVars, dbVars, refused>>
  BY <1>1 DEF fileVars, dbVars, Known
<1>2. CASE \E d \in Deliveries : Store(d)
  BY <1>2 DEF Store, dbVars, histVars, Known
<1>3. ASSUME NEW r \in Runs, WriteEvent(r)
      PROVE  /\ db.rows \subseteq db'.rows
             /\ \A e : Known(e) => Known(e)'
  <2>1. files' = files /\ refused' = refused
    BY <1>3 DEF WriteEvent, fileVars, histVars
  <2>2. db' = db \/ db' = WithEvent(EventAt(r))
    BY <1>3 DEF WriteEvent, Commit, dbVars
  <2>3. db.rows \subseteq db'.rows
    BY <2>2 DEF WithEvent
  <2> QED
    BY <2>1, <2>3 DEF Known
<1>4. ASSUME NEW r \in Runs, RecordAlert(r)
      PROVE  /\ db.rows \subseteq db'.rows
             /\ \A e : Known(e) => Known(e)'
  BY <1>d, <1>4 DEF RecordAlert, Commit, DbState, fileVars, dbVars, histVars, Known
<1>5. ASSUME NEW r \in Runs, RemoveRefused(r)
      PROVE  /\ db.rows \subseteq db'.rows
             /\ \A e : Known(e) => Known(e)'
  <2>1. EventAt(r) \in db.rows \/ EventAt(r) \in refused'
    BY <1>5 DEF RemoveRefused, KeptInv
  <2> QED
    BY <1>5, <2>1 DEF RemoveRefused, Remove, dbVars, Known
<1>6. CASE RemoveBatch \/ RemoveBatchFails
  <2>1. /\ UNCHANGED <<dbVars, refused>>
        /\ \E gone \in SUBSET {n.event : n \in batch} : files' = files \ gone
    BY <1>6 DEF RemoveBatch, RemoveBatchFails, Remove, histVars
  <2>2. {n.event : n \in batch} \subseteq db.rows
    BY DEF KeptInv
  <2> QED
    BY <2>1, <2>2 DEF Known, dbVars
<1>7. CASE CheckpointStarts \/ CheckpointCompletes \/ CheckpointFails \/ Kill
  BY <1>7 DEF CheckpointStarts, CheckpointCompletes, CheckpointFails, Kill,
              Restart, fileVars, histVars, Known
<1> QED
  BY <1>1, <1>2, <1>3, <1>4, <1>5, <1>6, <1>7
  DEF Next, vars, Arrive, Reject, ClientGone, DeliveryStep, StoreFails, Answer,
      AcquirePermit, Retry, RecoveryStep, Scan, Recover, ScanDone, DigestStep,
      ReadEvent, CheckExists, CheckQuota, StepFails, TakeSlot, WriteFails,
      ChannelGone, Finish, CountLimited, RemoveFails, End, WorkerStep,
      TakeBatch, ReleaseBatch, NextWindow, histVars

\* Where an error that keeps the file leads: out of the digest.
LEMMA RetainMoves ==
  ASSUME TypeOK, NEW r \in Runs, NEW contention, Retain(r, contention)
  PROVE  \E step \in {"backoff", "end"} : pc' = [pc EXCEPT ![r] = step]
BY DEF Retain, Goto

\* How a digest moves, and what it knows of its event when it gets there.
LEMMA DigestMoves ==
  ASSUME TypeOK, KeptInv, NEW r \in Runs, DigestStep(r)
  PROVE  /\ pc' = [pc EXCEPT ![r] = pc'[r]]
         /\ pc[r] \in DigestSteps /\ pc'[r] # "answer"
         /\ pc'[r] \in ReadSteps =>
              /\ UNCHANGED current
              /\ pc[r] \in ReadSteps \/ EventAt(r) \in files
         /\ pc'[r] \in CommittedSteps =>
              pc[r] \in CommittedSteps \/ EventAt(r) \in db'.rows
         /\ pc'[r] = "discard" => pc[r] = "alert" \/ EventAt(r) \in Refusable
         /\ current' = current \/ (r = Recovery /\ pc'[r] = "next")
         /\ UNCHANGED acked
         /\ \A n \in pending' \cup batch' :
              n \in pending \cup batch \/ (pc[r] = "finish" /\ n.event = EventAt(r))
<1> USE DEF TypeOK, RunTypes, Goto, ReadSteps, CommittedSteps, DigestSteps
<1>1. CASE ReadEvent(r)
  BY <1>1 DEF ReadEvent, queueVars, histVars
<1>2. CASE CheckExists(r)
  BY <1>2 DEF CheckExists, queueVars, histVars, dbVars
<1>3. CASE CheckQuota(r)
  BY <1>3 DEF CheckQuota, queueVars, histVars
<1>4. CASE StepFails(r)
  <2>1. \E step \in {"backoff", "end"} : pc' = [pc EXCEPT ![r] = step]
    BY <1>4, RetainMoves DEF StepFails, DatabaseFails
  <2> QED
    BY <1>4, <2>1 DEF StepFails, queueVars, histVars
<1>5. CASE TakeSlot(r)
  BY <1>5 DEF TakeSlot, queueVars, histVars
<1>6. CASE WriteEvent(r)
  <2>1. CASE Retain(r, FALSE)
    <3>1. \E step \in {"backoff", "end"} : pc' = [pc EXCEPT ![r] = step]
      BY <2>1, RetainMoves
    <3> QED
      BY <1>6, <3>1 DEF WriteEvent, queueVars, histVars
  <2>2. CASE Goto(r, "count")
    BY <1>6, <2>2 DEF WriteEvent, queueVars, histVars
  <2>3. CASE Goto(r, "alert") /\ Commit(WithEvent(EventAt(r)))
    BY <1>6, <2>3 DEF WriteEvent, Commit, WithEvent, queueVars, histVars
  <2> QED
    BY <1>6, <2>1, <2>2, <2>3 DEF WriteEvent
<1>7. CASE WriteFails(r)
  <2>1. CASE UNCHANGED pc
    BY <1>7, <2>1 DEF WriteFails, queueVars, histVars
  <2>2. CASE \E contention \in BOOLEAN : Retain(r, contention)
    <3>1. \E step \in {"backoff", "end"} : pc' = [pc EXCEPT ![r] = step]
      BY <2>2, RetainMoves
    <3> QED
      BY <1>7, <3>1 DEF WriteFails, queueVars, histVars
  <2> QED
    BY <1>7, <2>1, <2>2 DEF WriteFails
<1>8. CASE RecordAlert(r)
  BY <1>8 DEF RecordAlert, queueVars, histVars
<1>9. CASE ChannelGone(r)
  BY <1>9 DEF ChannelGone, queueVars, histVars
<1>10. CASE Finish(r)
  BY <1>10 DEF Finish, histVars
<1>11. CASE CountLimited(r)
  BY <1>11 DEF CountLimited, queueVars, histVars
<1>12. CASE RemoveRefused(r)
  BY <1>12 DEF RemoveRefused, queueVars
<1>13. CASE RemoveFails(r)
  BY <1>13 DEF RemoveFails, queueVars, histVars
<1>14. CASE End(r)
  BY <1>14 DEF End, queueVars, histVars
<1> QED
  BY <1>1, <1>2, <1>3, <1>4, <1>5, <1>6, <1>7, <1>8, <1>9, <1>10, <1>11,
     <1>12, <1>13, <1>14 DEF DigestStep

LEMMA KeptByDigest ==
  ASSUME TypeOK, KeptInv, NEW r \in Runs, DigestStep(r),
         db.rows \subseteq db'.rows, \A e : Known(e) => Known(e)'
  PROVE  KeptInv'
<1>m. /\ pc' = [pc EXCEPT ![r] = pc'[r]]
      /\ current' = current \/ (r = Recovery /\ pc'[r] = "next")
  BY DigestMoves
<1>p. pc \in [Runs -> Steps] /\ Deliveries \subseteq Runs /\ Recovery \notin Deliveries
  BY DeliveriesAssumption DEF TypeOK, RunTypes, Runs
<1>o. \A s \in Runs : s # r => pc'[s] = pc[s] /\ EventAt(s)' = EventAt(s)
  BY <1>m, <1>p DEF EventAt
<1>a. pc'[r] \in ReadSteps => EventAt(r)' = EventAt(r)
  BY DigestMoves DEF EventAt
<1>i. CommittedSteps \cup {"discard"} \subseteq ReadSteps
  BY DEF CommittedSteps, ReadSteps, DigestSteps
<1>1. NothingAckedIsLost'
  BY DigestMoves DEF KeptInv, NothingAckedIsLost
<1>2. \A d \in Deliveries : pc'[d] = "answer" => Known(EventOf[d])'
  BY <1>o, <1>p, DigestMoves DEF KeptInv
<1>3. \A s \in Runs : pc'[s] \in ReadSteps => Known(EventAt(s))'
  <2> SUFFICES ASSUME NEW s \in Runs, pc'[s] \in ReadSteps
               PROVE  Known(EventAt(s))'
    OBVIOUS
  <2>1. Known(EventAt(s))
    BY <1>o, DigestMoves DEF KeptInv, Known
  <2>2. EventAt(s)' = EventAt(s)
    BY <1>o, <1>a
  <2> QED
    BY <2>1, <2>2 DEF Known
<1>4. \A s \in Runs : pc'[s] \in CommittedSteps => EventAt(s)' \in db'.rows
  BY <1>o, <1>a, <1>i, DigestMoves DEF KeptInv
<1>5. \A s \in Runs : pc'[s] = "discard" => EventAt(s)' \in db'.rows \cup Refusable
  BY <1>o, <1>a, <1>i, DigestMoves DEF KeptInv, CommittedSteps
<1>6. \A n \in pending' \cup batch' : n.event \in db'.rows
  BY DigestMoves DEF KeptInv, CommittedSteps
<1> QED
  BY <1>1, <1>2, <1>3, <1>4, <1>5, <1>6 DEF KeptInv

LEMMA KeptByDelivery ==
  ASSUME TypeOK, KeptInv, NEW d \in Deliveries,
         Arrive(d) \/ Reject(d) \/ ClientGone(d) \/ DeliveryStep(d),
         db.rows \subseteq db'.rows, \A e : Known(e) => Known(e)'
  PROVE  KeptInv'
<1>p. /\ pc \in [Runs -> Steps] /\ Deliveries \subseteq Runs /\ Recovery \notin Deliveries
      /\ UNCHANGED <<current, pending, batch>>
  BY DeliveriesAssumption
  DEF TypeOK, RunTypes, Runs, Arrive, Reject, ClientGone, DeliveryStep, Store,
      StoreFails, Answer, AcquirePermit, Retry, queueVars
<1>m. /\ pc' = [pc EXCEPT ![d] = pc'[d]]
      /\ pc'[d] \notin ReadSteps
      /\ pc'[d] = "answer" => EventOf[d] \in files'
      /\ acked' = acked \/ (pc[d] = "answer" /\ acked' = acked \cup {EventOf[d]})
  BY <1>p
  DEF Arrive, Reject, ClientGone, DeliveryStep, Store, StoreFails, Answer,
      AcquirePermit, Retry, Goto, ReadSteps, DigestSteps, histVars
<1>o. \A s \in Runs : (s # d => pc'[s] = pc[s]) /\ EventAt(s)' = EventAt(s)
  BY <1>m, <1>p DEF EventAt
<1>i. CommittedSteps \cup {"discard"} \subseteq ReadSteps
  BY DEF CommittedSteps, ReadSteps, DigestSteps
<1>1. NothingAckedIsLost'
  BY <1>m DEF KeptInv, NothingAckedIsLost
<1>2. \A c \in Deliveries : pc'[c] = "answer" => Known(EventOf[c])'
  BY <1>m, <1>o, <1>p DEF KeptInv, Known
<1>3. \A s \in Runs : pc'[s] \in ReadSteps => Known(EventAt(s))'
  <2> SUFFICES ASSUME NEW s \in Runs, pc'[s] \in ReadSteps
               PROVE  Known(EventAt(s))'
    OBVIOUS
  <2>1. Known(EventAt(s)) /\ EventAt(s)' = EventAt(s)
    BY <1>m, <1>o DEF KeptInv
  <2> QED
    BY <2>1 DEF Known
<1>4. \A s \in Runs : pc'[s] \in CommittedSteps => EventAt(s)' \in db'.rows
  BY <1>m, <1>o, <1>i DEF KeptInv
<1>5. \A s \in Runs : pc'[s] = "discard" => EventAt(s)' \in db'.rows \cup Refusable
  BY <1>m, <1>o, <1>i DEF KeptInv
<1>6. \A n \in pending' \cup batch' : n.event \in db'.rows
  BY <1>p DEF KeptInv
<1> QED
  BY <1>1, <1>2, <1>3, <1>4, <1>5, <1>6 DEF KeptInv

\* Steps of the two workers, of the clock and of the killer: no digest moves
\* except into "read" or out of everything.
LEMMA KeptByOthers ==
  ASSUME TypeOK, KeptInv, NextWindow \/ Kill \/ RecoveryStep \/ WorkerStep,
         db.rows \subseteq db'.rows, \A e : Known(e) => Known(e)'
  PROVE  KeptInv'
<1>p. pc \in [Runs -> Steps] /\ Recovery \in Runs /\ Deliveries \subseteq Runs
  BY DEF TypeOK, RunTypes, Runs
<1>m. \A r \in Runs :
        /\ pc'[r] = pc[r] \/ pc'[r] \in {"idle", "next", "read", "done"}
        /\ pc'[r] = pc[r] => EventAt(r)' = EventAt(r) \/ pc'[r] \in {"idle", "next", "read", "done"}
  <2>1. CASE NextWindow
    BY <2>1 DEF NextWindow, runVars, EventAt
  <2>2. CASE Kill
    BY <2>2, <1>p DEF Kill, Restart
  <2>3. CASE RecoveryStep
    BY <2>3, <1>p DEF RecoveryStep, Scan, Recover, ScanDone, Goto, EventAt
  <2>4. CASE WorkerStep
    BY <2>4
    DEF WorkerStep, TakeBatch, CheckpointStarts, CheckpointCompletes,
        CheckpointFails, RemoveBatch, RemoveBatchFails, ReleaseBatch, runVars, EventAt
  <2> QED
    BY <2>1, <2>2, <2>3, <2>4
<1>q. \A n \in pending' \cup batch' :
        \E old \in pending \cup batch : n.event = old.event
  <2>1. CASE UNCHANGED <<pending, batch>>
    BY <2>1
  <2>2. CASE TakeBatch \/ ReleaseBatch \/ Kill
    BY <2>2 DEF TakeBatch, ReleaseBatch, Kill, Restart
  <2>3. CASE CheckpointFails
    <3>1. \A old \in batch : [old EXCEPT !.attempts = @ + 1].event = old.event
      BY DEF TypeOK, QueueTypes, Entry
    <3> QED
      BY <2>3, <3>1 DEF CheckpointFails
  <2> QED
    BY <2>1, <2>2, <2>3
    DEF NextWindow, RecoveryStep, Scan, Recover, ScanDone, WorkerStep,
        CheckpointStarts, CheckpointCompletes, RemoveBatch, RemoveBatchFails, queueVars
<1>i. /\ CommittedSteps \cup {"discard"} \subseteq ReadSteps
      /\ {"answer", "idle", "next", "read", "done"} \cap ReadSteps = {}
  BY DEF CommittedSteps, ReadSteps, DigestSteps
<1>1. NothingAckedIsLost'
  <2>1. UNCHANGED acked
    BY DEF NextWindow, Kill, Restart, RecoveryStep, Scan, Recover, ScanDone,
           WorkerStep, TakeBatch, CheckpointStarts, CheckpointCompletes,
           CheckpointFails, RemoveBatch, RemoveBatchFails, ReleaseBatch, histVars
  <2> QED
    BY <2>1 DEF KeptInv, NothingAckedIsLost
<1>2. \A d \in Deliveries : pc'[d] = "answer" => Known(EventOf[d])'
  BY <1>m, <1>p DEF KeptInv
<1>3. \A s \in Runs : pc'[s] \in ReadSteps => Known(EventAt(s))'
  <2> SUFFICES ASSUME NEW s \in Runs, pc'[s] \in ReadSteps
               PROVE  Known(EventAt(s))'
    OBVIOUS
  <2>1. Known(EventAt(s)) /\ EventAt(s)' = EventAt(s)
    BY <1>m, <1>i DEF KeptInv
  <2> QED
    BY <2>1 DEF Known
<1>4. \A s \in Runs : pc'[s] \in CommittedSteps => EventAt(s)' \in db'.rows
  BY <1>m, <1>i DEF KeptInv
<1>5. \A s \in Runs : pc'[s] = "discard" => EventAt(s)' \in db'.rows \cup Refusable
  BY <1>m, <1>i DEF KeptInv
<1>6. \A n \in pending' \cup batch' : n.event \in db'.rows
  BY <1>q DEF KeptInv
<1> QED
  BY <1>1, <1>2, <1>3, <1>4, <1>5, <1>6 DEF KeptInv

LEMMA KeptStep == TypeOK /\ KeptInv /\ ~PowerLoss /\ [Next]_vars => KeptInv'
<1> SUFFICES ASSUME TypeOK, KeptInv, ~PowerLoss, [Next]_vars PROVE KeptInv'
  OBVIOUS
<1>k. db.rows \subseteq db'.rows /\ \A e : Known(e) => Known(e)'
  BY KnownStable
<1>1. CASE UNCHANGED vars
  BY <1>1
  DEF vars, runVars, fileVars, dbVars, queueVars, histVars, KeptInv,
      NothingAckedIsLost, Known, EventAt
<1>2. CASE Next
  BY <1>k, <1>2, KeptByDigest, KeptByDelivery, KeptByOthers DEF Next
<1> QED
  BY <1>1, <1>2

\* KeptInv is inductive where the machine does not lose power.
LEMMA KeptAlways ==
  ASSUME ~PowerFails
  PROVE  Spec => []KeptInv
<1>1. Init => KeptInv
  BY DEF Init, KeptInv, NothingAckedIsLost, Runs, ReadSteps, CommittedSteps, DigestSteps
<1>2. ~PowerLoss
  BY DEF PowerLoss
<1>3. TypeOK /\ KeptInv /\ [Next]_vars => KeptInv'
  BY <1>2, KeptStep
<1> QED
  BY <1>1, <1>3, TypeInit, TypeStep, PTL DEF Spec

\* Where the machine does not lose power, an event the server has answered for
\* keeps its file until it is stored or refused, whatever is killed, fails or
\* overlaps.
THEOREM AckedIsKept ==
  ASSUME ~PowerFails
  PROVE  Spec => []NothingAckedIsLost
<1>1. KeptInv => NothingAckedIsLost
  BY DEF KeptInv
<1> QED
  BY <1>1, KeptAlways, PTL

-----------------------------------------------------------------------------
(* The pipeline implements AcceptedEvents *)

\* One event's status after a step that touched nothing else.
LEMMA StatusStep ==
  ASSUME TypeOK, NEW e \in Events,
         db' = db \/ db'.rows = db.rows \/ db'.rows = db.rows \cup {e},
         files' = files \/ files' = files \cup {e} \/ files' = files \ {e},
         refused' = refused \/ refused' = refused \cup {e}
  PROVE  status' = [status EXCEPT ![e] =
                      IF e \in db'.rows THEN "stored"
                      ELSE IF e \in files' THEN "held"
                      ELSE IF e \in refused' THEN "dropped" ELSE "none"]
BY DEF status

\* A step that touches no more than committed events' files keeps every status.
LEMMA StatusStays ==
  ASSUME TypeOK, UNCHANGED refused, db'.rows = db.rows,
         files \ db.rows = files' \ db.rows
  PROVE  UNCHANGED status
<1>1. \A e \in Events : e \in db.rows \/ (e \in files <=> e \in files')
  OBVIOUS
<1> QED
  BY <1>1 DEF status

LEMMA RefinesInit == Init => Accepted!Init
BY DEF Init, Accepted!Init, status, EmptyDb

LEMMA RefinesStep ==
  ASSUME TypeOK, KeptInv, [Next]_vars, ~PowerLoss
  PROVE  [Accepted!Next]_(Accepted!vars)
<1> USE DEF Accepted!vars
<1>d. db \in DbState /\ acked \subseteq Events
  BY DEF TypeOK, DbTypes, HistTypes
<1>1. CASE UNCHANGED <<fileVars, dbVars, refused, acked>>
  BY <1>1, StatusStays DEF fileVars, dbVars
<1>2. ASSUME NEW d \in Deliveries, Store(d)
      PROVE  [Accepted!Next]_(Accepted!vars)
  <2>e. EventOf[d] \in Events
    BY DeliveriesAssumption
  <2>1. UNCHANGED <<db, refused, acked>> /\ files' = files \cup {EventOf[d]}
    BY <1>2 DEF Store, dbVars, histVars
  <2>2. CASE EventOf[d] \in db.rows
    BY <2>1, <2>2, StatusStays
  <2>3. CASE EventOf[d] \in files
    BY <2>1, <2>3, StatusStays
  <2>4. CASE EventOf[d] \notin files \cup db.rows
    <3>1. status' = [status EXCEPT ![EventOf[d]] = "held"]
      BY <2>e, <2>1, <2>4, StatusStep
    <3>2. status[EventOf[d]] \in {"none", "dropped"}
      BY <2>e, <2>4 DEF status
    <3> QED
      BY <2>e, <2>1, <3>1, <3>2 DEF Accepted!Next, Accepted!Take
  <2> QED
    BY <2>2, <2>3, <2>4
<1>3. ASSUME NEW d \in Deliveries, Answer(d)
      PROVE  [Accepted!Next]_(Accepted!vars)
  <2>e. EventOf[d] \in Events /\ Known(EventOf[d])
    BY <1>3, DeliveriesAssumption DEF KeptInv, Answer
  <2>1. UNCHANGED status /\ acked' = acked \cup {EventOf[d]}
    BY <1>3, StatusStays DEF Answer, dbVars, fileVars
  <2>2. status[EventOf[d]] # "none"
    BY <2>e DEF status, Known
  <2> QED
    BY <2>e, <2>1, <2>2 DEF Accepted!Next, Accepted!Ack
<1>4. ASSUME NEW r \in Runs, WriteEvent(r)
      PROVE  [Accepted!Next]_(Accepted!vars)
  <2>e. EventAt(r) \in Events /\ Known(EventAt(r))
    BY <1>4, EventAtType DEF KeptInv, WriteEvent, ReadSteps, DigestSteps
  <2>1. UNCHANGED <<files, refused, acked>>
    BY <1>4 DEF WriteEvent, fileVars, histVars
  <2>2. CASE UNCHANGED dbVars
    BY <2>1, <2>2, StatusStays DEF dbVars
  <2>3. CASE EventAt(r) \notin db.rows /\ db' = WithEvent(EventAt(r))
    <3>1. db'.rows = db.rows \cup {EventAt(r)}
      BY <2>3 DEF WithEvent
    <3>2. status' = [status EXCEPT ![EventAt(r)] = "stored"]
      BY <2>e, <2>1, <3>1, StatusStep
    <3>3. status[EventAt(r)] \in {"held", "dropped"}
      BY <2>e, <2>3 DEF status, Known
    <3> QED
      BY <2>e, <2>1, <3>2, <3>3 DEF Accepted!Next, Accepted!Store
  <2> QED
    BY <1>4, <2>2, <2>3 DEF WriteEvent, Commit
<1>5. ASSUME NEW r \in Runs, RecordAlert(r)
      PROVE  [Accepted!Next]_(Accepted!vars)
  <2>1. db'.rows = db.rows
    BY <1>d, <1>5 DEF RecordAlert, Commit, DbState, dbVars
  <2> QED
    BY <1>5, <2>1, StatusStays DEF RecordAlert, fileVars, histVars
<1>6. ASSUME NEW r \in Runs, RemoveRefused(r)
      PROVE  [Accepted!Next]_(Accepted!vars)
  <2>e. EventAt(r) \in Events /\ Known(EventAt(r))
    BY <1>6, EventAtType DEF KeptInv, RemoveRefused, ReadSteps, DigestSteps
  <2>1. UNCHANGED <<db, acked>> /\ files' = files \ {EventAt(r)}
    BY <1>6 DEF RemoveRefused, Remove, dbVars
  <2>2. CASE EventAt(r) \in db.rows
    BY <1>6, <2>1, <2>2, StatusStays DEF RemoveRefused
  <2>3. CASE EventAt(r) \notin db.rows
    <3>1. refused' = refused \cup {EventAt(r)}
      BY <1>6, <2>3 DEF RemoveRefused, KeptInv
    <3>2. status' = [status EXCEPT ![EventAt(r)] = "dropped"]
      BY <2>e, <2>1, <2>3, <3>1, StatusStep
    <3>3. CASE EventAt(r) \in files
      <4>1. status[EventAt(r)] = "held"
        BY <2>e, <2>3, <3>3 DEF status
      <4> QED
        BY <2>e, <2>1, <3>2, <4>1 DEF Accepted!Next, Accepted!Drop
    <3>4. CASE EventAt(r) \notin files
      <4>1. status[EventAt(r)] = "dropped"
        BY <2>e, <2>3, <3>4 DEF status, Known
      <4> QED
        BY <2>1, <3>2, <4>1 DEF status
    <3> QED
      BY <3>3, <3>4
  <2> QED
    BY <2>2, <2>3
<1>7. CASE RemoveBatch \/ RemoveBatchFails
  <2>1. /\ UNCHANGED <<db, refused, acked>>
        /\ \E gone \in SUBSET {n.event : n \in batch} : files' = files \ gone
    BY <1>7 DEF RemoveBatch, RemoveBatchFails, Remove, dbVars, histVars
  <2>2. {n.event : n \in batch} \subseteq db.rows
    BY DEF KeptInv
  <2> QED
    BY <2>1, <2>2, StatusStays
<1>8. CASE CheckpointStarts \/ CheckpointCompletes \/ CheckpointFails \/ Kill
  BY <1>8, StatusStays
  DEF CheckpointStarts, CheckpointCompletes, CheckpointFails, Kill, Restart,
      fileVars, histVars
<1> QED
  BY <1>1, <1>2, <1>3, <1>4, <1>5, <1>6, <1>7, <1>8
  DEF Next, vars, Arrive, Reject, ClientGone, DeliveryStep, StoreFails,
      AcquirePermit, Retry, RecoveryStep, Scan, Recover, ScanDone, DigestStep,
      ReadEvent, CheckExists, CheckQuota, StepFails, TakeSlot, WriteFails,
      ChannelGone, Finish, CountLimited, RemoveFails, End, WorkerStep,
      TakeBatch, ReleaseBatch, NextWindow, histVars

\* Every behaviour of the pipeline, with its crashes and its faults, is one of
\* AcceptedEvents: an event is taken, stored or dropped, in that order, and
\* acknowledged only while the server has it.
THEOREM PipelineImplementsAccepted ==
  ASSUME ~PowerFails
  PROVE  Spec => ImplementsAccepted
<1>1. ~PowerLoss
  BY DEF PowerLoss
<1>2. TypeOK /\ KeptInv /\ [Next]_vars => [Accepted!Next]_(Accepted!vars)
  BY <1>1, RefinesStep
<1> QED
  BY <1>2, RefinesInit, TypeInit, TypeStep, TypesHold, KeptAlways, PTL
  DEF Spec, ImplementsAccepted, Accepted!Spec
-----------------------------------------------------------------------------
(* A file goes only when no loss of power can take its event back *)

\* The quota has room for every event.  Without it an event refused by one of
\* its digests may be stored by another, and the refusal removes its file.
RoomForAll == IsFiniteSet(Events) /\ Cardinality(Events) < QuotaLimit

\* The quota counts no more than is stored, now or after a loss of power, and
\* no digest is refused.
HasRoom(state) == state.used <= state.digested

RoomInv ==
  /\ \A state \in recoverable \cup sinceCkpt \cup {db} : HasRoom(state)
  /\ \A r \in Runs : pc[r] \notin {"count", "unlink"}

Keeps(state, e) == e \in state.rows /\ e \in state.alerts

\* From the file's first reading to its end on the queue, unless it is refused.
Working == {"exists", "quota", "write", "writing", "alert", "finish"}

\* What a digest knows of its event at each of its steps.
RunsInv ==
  \A r \in Runs :
    /\ pc[r] = "discard" => EventAt(r) \in Refusable
    /\ pc[r] \in Working => EventAt(r) \in (files \cup db.rows) \ Refusable
    /\ pc[r] \in CommittedSteps => EventAt(r) \in db.rows
    /\ pc[r] = "finish" => EventAt(r) \in db.alerts

\* What is on the queue is stored and alerted; in every state the checkpoint
\* leaves, once it runs; in every recoverable state, once it has completed.
QueueInv ==
  /\ \A n \in pending \cup batch : Keeps(db, n.event)
  /\ worker = "checkpoint" => \A n \in batch, state \in sinceCkpt : Keeps(state, n.event)
  /\ worker = "removing" => \A n \in batch, state \in recoverable : Keeps(state, n.event)

\* The states a loss of power may return to are earlier ones, the committed one
\* is among them, and all of them hold the events whose files are gone.
DiskInv ==
  /\ db \in recoverable /\ sinceCkpt \subseteq recoverable
  /\ worker = "checkpoint" => db \in sinceCkpt
  /\ \A state \in recoverable : state.rows \subseteq db.rows
  /\ db.rows \cap Refusable = {}
  /\ \A e \in db.rows \ files : \A state \in recoverable : Keeps(state, e)

DurableInv == TypeOK /\ CountInv /\ RoomInv /\ RunsInv /\ QueueInv /\ DiskInv

LEMMA QuotaHasRoom ==
  ASSUME RoomForAll, TypeOK, CountInv, RoomInv
  PROVE  ~QuotaFull
<1>1. db \in DbState /\ db.used <= db.digested /\ db.digested = Cardinality(db.rows)
  BY DEF TypeOK, DbTypes, CountInv, CountsRows, RoomInv, HasRoom
<1>2. db.rows \subseteq Events /\ db.used \in Nat
  BY <1>1 DEF DbState
<1>3. Cardinality(db.rows) \in Nat /\ Cardinality(Events) \in Nat
      /\ Cardinality(db.rows) <= Cardinality(Events)
  BY <1>2, FS_Subset, FS_CardinalityType DEF RoomForAll
<1> QED
  BY <1>1, <1>2, <1>3, LimitsAssumption DEF RoomForAll, QuotaFull

LEMMA DurableInit == Init => DurableInv
<1> SUFFICES ASSUME Init PROVE RoomInv /\ RunsInv /\ QueueInv /\ DiskInv /\ CountInv
  BY TypeInit DEF DurableInv
<1>1. recoverable \cup sinceCkpt \cup {db} = {EmptyDb}
  BY DEF Init
<1>2. CountInv
  BY <1>1, FS_EmptySet DEF CountInv, CountsRows, EmptyDb
<1>3. RoomInv
  BY <1>1 DEF Init, RoomInv, HasRoom, EmptyDb
<1>4. RunsInv /\ QueueInv
  BY DEF Init, RunsInv, QueueInv, Working, CommittedSteps
<1>5. DiskInv
  BY DEF Init, DiskInv, EmptyDb
<1> QED
  BY <1>2, <1>3, <1>4, <1>5

\* Where a digest gets to, and what it has seen of its event by then.
LEMMA DurableMoves ==
  ASSUME RoomForAll, ~ChannelsVanish, DurableInv, NEW r \in Runs, DigestStep(r)
  PROVE  /\ pc' = [pc EXCEPT ![r] = pc'[r]]
         /\ pc'[r] \notin {"count", "unlink"}
         /\ pc'[r] \in Working \cup {"discard"} => UNCHANGED current
         /\ pc'[r] = "discard" => EventAt(r) \in Refusable
         /\ pc'[r] \in Working =>
              pc[r] \in Working \/ EventAt(r) \in files \ Refusable
         /\ pc'[r] \in CommittedSteps => pc[r] \in Working /\ EventAt(r) \in db'.rows
         /\ pc'[r] = "finish" => EventAt(r) \in db'.alerts
         /\ current' = current \/ (r = Recovery /\ pc'[r] = "next")
<1> USE DEF DurableInv, TypeOK, RunTypes, Goto, Working, CommittedSteps, RunsInv
<1>q. ~QuotaFull
  BY QuotaHasRoom
<1>n. pc[r] \notin {"count", "unlink"}
  BY DEF RoomInv
<1>1. CASE ReadEvent(r)
  BY <1>1 DEF ReadEvent
<1>2. CASE CheckExists(r)
  BY <1>2 DEF CheckExists, dbVars
<1>3. CASE CheckQuota(r)
  BY <1>3, <1>q DEF CheckQuota
<1>4. CASE StepFails(r)
  <2>1. \E step \in {"backoff", "end"} : pc' = [pc EXCEPT ![r] = step]
    BY <1>4, RetainMoves DEF StepFails, DatabaseFails
  <2> QED
    BY <1>4, <2>1 DEF StepFails
<1>5. CASE TakeSlot(r)
  BY <1>5 DEF TakeSlot
<1>6. CASE WriteEvent(r)
  <2>1. CASE Retain(r, FALSE)
    <3>1. \E step \in {"backoff", "end"} : pc' = [pc EXCEPT ![r] = step]
      BY <2>1, RetainMoves
    <3> QED
      BY <1>6, <3>1 DEF WriteEvent
  <2>2. CASE Goto(r, "alert") /\ Commit(WithEvent(EventAt(r)))
    BY <1>6, <2>2 DEF WriteEvent, Commit, WithEvent
  <2> QED
    BY <1>6, <1>q, <2>1, <2>2 DEF WriteEvent
<1>7. CASE WriteFails(r)
  <2>1. CASE UNCHANGED pc
    BY <1>7, <2>1 DEF WriteFails
  <2>2. CASE \E contention \in BOOLEAN : Retain(r, contention)
    <3>1. \E step \in {"backoff", "end"} : pc' = [pc EXCEPT ![r] = step]
      BY <2>2, RetainMoves
    <3> QED
      BY <1>7, <3>1 DEF WriteFails
  <2> QED
    BY <1>7, <2>1, <2>2 DEF WriteFails
<1>8. CASE RecordAlert(r)
  <2>1. db \in DbState
    BY DEF DbTypes
  <2>2. EventAt(r) \in db'.rows /\ EventAt(r) \in db'.alerts
    BY <1>8, <2>1 DEF RecordAlert, Commit, DbState, dbVars
  <2> QED
    BY <1>8, <2>2 DEF RecordAlert
<1>9. CASE ChannelGone(r)
  BY <1>9 DEF ChannelGone
<1>10. CASE Finish(r)
  BY <1>10 DEF Finish
<1>11. CASE CountLimited(r)
  BY <1>11, <1>n DEF CountLimited
<1>12. CASE RemoveRefused(r)
  BY <1>12 DEF RemoveRefused
<1>13. CASE RemoveFails(r)
  BY <1>13 DEF RemoveFails
<1>14. CASE End(r)
  BY <1>14 DEF End
<1> QED
  BY <1>1, <1>2, <1>3, <1>4, <1>5, <1>6, <1>7, <1>8, <1>9, <1>10, <1>11,
     <1>12, <1>13, <1>14 DEF DigestStep

\* What a step other than a loss of power does to files and commits.
LEMMA StoresGrow ==
  ASSUME DurableInv, [Next]_vars, ~PowerLoss
  PROVE  /\ db.rows \subseteq db'.rows /\ db.alerts \subseteq db'.alerts
         /\ files \subseteq files' \cup db.rows \cup Refusable
<1>d. db \in DbState
  BY DEF DurableInv, TypeOK, DbTypes
<1>1. CASE UNCHANGED <<fileVars, dbVars>>
  BY <1>1 DEF fileVars, dbVars
<1>2. CASE \E d \in Deliveries : Store(d)
  BY <1>2 DEF Store, dbVars
<1>3. ASSUME NEW r \in Runs, WriteEvent(r)
      PROVE  /\ db.rows \subseteq db'.rows /\ db.alerts \subseteq db'.alerts
             /\ files \subseteq files' \cup db.rows \cup Refusable
  <2>1. db' = db \/ db' = WithEvent(EventAt(r))
    BY <1>3 DEF WriteEvent, Commit, dbVars
  <2>2. files' = files
    BY <1>3 DEF WriteEvent, fileVars
  <2> QED
    BY <2>1, <2>2 DEF WithEvent
<1>4. CASE \E r \in Runs : RecordAlert(r)
  BY <1>d, <1>4 DEF RecordAlert, Commit, DbState, fileVars, dbVars
<1>5. ASSUME NEW r \in Runs, RemoveRefused(r)
      PROVE  /\ db.rows \subseteq db'.rows /\ db.alerts \subseteq db'.alerts
             /\ files \subseteq files' \cup db.rows \cup Refusable
  <2>1. pc[r] = "discard"
    BY <1>5 DEF RemoveRefused, DurableInv, RoomInv
  <2>2. EventAt(r) \in Refusable
    BY <2>1 DEF DurableInv, RunsInv
  <2> QED
    BY <1>5, <2>2 DEF RemoveRefused, Remove, dbVars
<1>6. CASE RemoveBatch \/ RemoveBatchFails
  <2>1. {n.event : n \in batch} \subseteq db.rows
    BY DEF DurableInv, QueueInv, Keeps
  <2> QED
    BY <1>6, <2>1 DEF RemoveBatch, RemoveBatchFails, Remove, dbVars
<1>7. CASE CheckpointStarts \/ CheckpointCompletes \/ CheckpointFails \/ Kill
  BY <1>7 DEF CheckpointStarts, CheckpointCompletes, CheckpointFails, Kill,
              Restart, fileVars
<1>8. \/ UNCHANGED <<fileVars, dbVars>>
      \/ \E d \in Deliveries : Store(d)
      \/ \E r \in Runs : WriteEvent(r) \/ RecordAlert(r) \/ RemoveRefused(r)
      \/ RemoveBatch \/ RemoveBatchFails
      \/ CheckpointStarts \/ CheckpointCompletes \/ CheckpointFails \/ Kill
  BY DEF Next, vars, Arrive, Reject, ClientGone, DeliveryStep, StoreFails, Answer,
      AcquirePermit, Retry, RecoveryStep, Scan, Recover, ScanDone, DigestStep,
      ReadEvent, CheckExists, CheckQuota, StepFails, TakeSlot, WriteFails,
      ChannelGone, Finish, CountLimited, RemoveFails, End, WorkerStep,
      TakeBatch, ReleaseBatch, NextWindow
<1> QED
  BY <1>1, <1>2, <1>3, <1>4, <1>5, <1>6, <1>7, <1>8

\* Other steps than a digest's take a run into none of these steps.
LEMMA OtherMoves ==
  ASSUME TypeOK, [Next]_vars, NEW s \in Runs, ~DigestStep(s)
  PROVE  \/ pc'[s] = pc[s] /\ EventAt(s)' = EventAt(s)
         \/ pc'[s] \notin Working \cup {"discard", "count", "unlink"}
<1> USE DEF TypeOK, RunTypes, Goto, Working
<1>p. Recovery \in Runs /\ Recovery \notin Deliveries /\ Deliveries \subseteq Runs
  BY DeliveriesAssumption DEF Runs
<1>1. ASSUME NEW d \in Deliveries, Arrive(d) \/ Reject(d) \/ ClientGone(d) \/ DeliveryStep(d)
      PROVE  \/ pc'[s] = pc[s] /\ EventAt(s)' = EventAt(s)
             \/ pc'[s] \notin Working \cup {"discard", "count", "unlink"}
  BY <1>p, <1>1 DEF Arrive, Reject, ClientGone, DeliveryStep, Store, StoreFails,
     Answer, AcquirePermit, Retry, EventAt
<1>2. ASSUME NEW r \in Runs, DigestStep(r)
      PROVE  \/ pc'[s] = pc[s] /\ EventAt(s)' = EventAt(s)
             \/ pc'[s] \notin Working \cup {"discard", "count", "unlink"}
  <2>1. s # r
    BY <1>2
  <2>2. \E step : pc' = [pc EXCEPT ![r] = step]
    <3>1. CASE UNCHANGED pc
      BY <3>1
    <3>2. CASE \E contention \in BOOLEAN : Retain(r, contention)
      BY <3>2, RetainMoves
    <3>3. CASE \E step : Goto(r, step)
      BY <3>3 DEF Goto
    <3> HIDE DEF Goto
    <3> QED
      BY <1>2, <3>1, <3>2, <3>3
      DEF DigestStep, ReadEvent, CheckExists, CheckQuota, StepFails, DatabaseFails, TakeSlot,
          WriteEvent, WriteFails, RecordAlert, ChannelGone, Finish, CountLimited,
          RemoveRefused, RemoveFails, End
  <2>3. current' = current \/ r = Recovery
    BY <1>2 DEF DigestStep, ReadEvent, CheckExists, CheckQuota, StepFails, TakeSlot,
        WriteEvent, WriteFails, RecordAlert, ChannelGone, Finish, CountLimited,
        RemoveRefused, RemoveFails, End
  <2> QED
    BY <2>1, <2>2, <2>3 DEF EventAt
<1>3. CASE RecoveryStep
  BY <1>p, <1>3 DEF RecoveryStep, Scan, Recover, ScanDone, EventAt
<1>4. CASE Kill \/ PowerLoss
  BY <1>4 DEF Kill, PowerLoss, Restart
<1>5. CASE WorkerStep \/ NextWindow \/ UNCHANGED vars
  <2>1. UNCHANGED <<pc, current>>
    BY <1>5 DEF WorkerStep, TakeBatch, CheckpointStarts, CheckpointCompletes,
       CheckpointFails, RemoveBatch, RemoveBatchFails, ReleaseBatch, NextWindow,
       vars, runVars
  <2> QED
    BY <2>1 DEF EventAt
<1> QED
  BY <1>1, <1>2, <1>3, <1>4, <1>5 DEF Next

LEMMA RunsStep ==
  ASSUME RoomForAll, ~ChannelsVanish, DurableInv, [Next]_vars
  PROVE  RunsInv' /\ \A r \in Runs : pc'[r] \notin {"count", "unlink"}
<1> SUFFICES ASSUME NEW s \in Runs
             PROVE  /\ pc'[s] \notin {"count", "unlink"}
                    /\ pc'[s] = "discard" => EventAt(s)' \in Refusable
                    /\ pc'[s] \in Working => EventAt(s)' \in (files' \cup db'.rows) \ Refusable
                    /\ pc'[s] \in CommittedSteps => EventAt(s)' \in db'.rows
                    /\ pc'[s] = "finish" => EventAt(s)' \in db'.alerts
  BY DEF RunsInv
<1>w. CommittedSteps \subseteq Working /\ "finish" \in Working
  BY DEF CommittedSteps, Working
<1>i. /\ pc[s] \notin {"count", "unlink"}
      /\ pc[s] = "discard" => EventAt(s) \in Refusable
      /\ pc[s] \in Working => EventAt(s) \in (files \cup db.rows) \ Refusable
      /\ pc[s] \in CommittedSteps => EventAt(s) \in db.rows
      /\ pc[s] = "finish" => EventAt(s) \in db.alerts
  BY DEF DurableInv, RoomInv, RunsInv
<1>1. CASE PowerLoss
  BY <1>1, <1>w DEF PowerLoss, Restart, Working
<1>2. CASE ~PowerLoss /\ DigestStep(s)
  <2>1. pc'[s] \in Working \cup {"discard"} => EventAt(s)' = EventAt(s)
    BY <1>2, DurableMoves DEF EventAt
  <2>2. /\ db.rows \subseteq db'.rows /\ db.alerts \subseteq db'.alerts
        /\ files \subseteq files' \cup db.rows \cup Refusable
    BY <1>2, StoresGrow
  <2>3. /\ pc'[s] \notin {"count", "unlink"}
        /\ pc'[s] = "discard" => EventAt(s) \in Refusable
        /\ pc'[s] \in Working => pc[s] \in Working \/ EventAt(s) \in files \ Refusable
        /\ pc'[s] \in CommittedSteps => EventAt(s) \in db'.rows
        /\ pc'[s] = "finish" => EventAt(s) \in db'.alerts
    BY <1>2, DurableMoves
  <2> HIDE DEF Working, CommittedSteps
  <2> QED
    BY <1>w, <1>i, <2>1, <2>2, <2>3
<1>3. CASE ~PowerLoss /\ ~DigestStep(s)
  <2>1. /\ db.rows \subseteq db'.rows /\ db.alerts \subseteq db'.alerts
        /\ files \subseteq files' \cup db.rows \cup Refusable
    BY <1>3, StoresGrow
  <2>2. \/ pc'[s] = pc[s] /\ EventAt(s)' = EventAt(s)
        \/ pc'[s] \notin Working \cup {"discard", "count", "unlink"}
    BY <1>3, OtherMoves DEF DurableInv
  <2> QED
    BY <1>w, <1>i, <2>1, <2>2
<1> QED
  BY <1>1, <1>2, <1>3

\* A commit adds to what the database holds, and its event's file is there.
LEMMA DiskCommit ==
  ASSUME DurableInv, NEW state, Commit(state),
         db.rows \subseteq state.rows, db.alerts \subseteq state.alerts,
         state.rows \subseteq db.rows \cup files, state.rows \cap Refusable = {},
         UNCHANGED <<files, pending, batch, worker>>
  PROVE  DiskInv' /\ QueueInv'
<1> USE DEF DurableInv
<1>1. /\ db' = state /\ recoverable' = recoverable \cup {state}
      /\ sinceCkpt' = IF worker = "checkpoint" THEN sinceCkpt \cup {state} ELSE {}
  BY DEF Commit
<1>2. \A e \in db'.rows \ files' : e \in db.rows \ files
  BY <1>1
<1>3. \A e : Keeps(db, e) => Keeps(state, e)
  BY DEF Keeps
<1>4. \A e \in db.rows \ files : Keeps(db, e)
  BY DEF DiskInv
<1>5. DiskInv'
  BY <1>1, <1>2, <1>3, <1>4 DEF DiskInv, Keeps
<1>6. QueueInv'
  BY <1>1, <1>3 DEF QueueInv, Keeps
<1> QED
  BY <1>5, <1>6

LEMMA DiskStep == DurableInv /\ [Next]_vars => DiskInv' /\ QueueInv'
<1> SUFFICES ASSUME DurableInv, [Next]_vars PROVE DiskInv' /\ QueueInv'
  OBVIOUS
<1> USE DEF DurableInv
<1>d. db \in DbState
  BY DEF TypeOK, DbTypes
<1>1. CASE UNCHANGED <<fileVars, dbVars, queueVars>>
  BY <1>1 DEF DiskInv, QueueInv, Keeps, fileVars, dbVars, queueVars
<1>2. ASSUME NEW d \in Deliveries, Store(d)
      PROVE  DiskInv' /\ QueueInv'
  BY <1>2 DEF Store, DiskInv, QueueInv, Keeps, dbVars, queueVars
<1>3. ASSUME NEW r \in Runs, WriteEvent(r)
      PROVE  DiskInv' /\ QueueInv'
  <2>1. CASE UNCHANGED dbVars
    BY <1>1, <1>3, <2>1 DEF WriteEvent
  <2>2. CASE EventAt(r) \notin db.rows /\ Commit(WithEvent(EventAt(r)))
    <3>1. EventAt(r) \in files \ Refusable
      BY <1>3, <2>2 DEF WriteEvent, RunsInv, Working
    <3>2. /\ db.rows \subseteq WithEvent(EventAt(r)).rows
          /\ db.alerts \subseteq WithEvent(EventAt(r)).alerts
          /\ WithEvent(EventAt(r)).rows \subseteq db.rows \cup files
          /\ WithEvent(EventAt(r)).rows \cap Refusable = {}
      BY <3>1 DEF WithEvent, DiskInv
    <3>3. UNCHANGED <<files, pending, batch, worker>>
      BY <1>3 DEF WriteEvent, fileVars, queueVars
    <3> QED
      BY <2>2, <3>2, <3>3, DiskCommit
  <2> QED
    BY <1>3, <2>1, <2>2 DEF WriteEvent
<1>4. ASSUME NEW r \in Runs, RecordAlert(r)
      PROVE  DiskInv' /\ QueueInv'
  <2>1. CASE UNCHANGED dbVars
    BY <1>1, <1>4, <2>1 DEF RecordAlert
  <2>2. CASE Commit([db EXCEPT !.alerts = @ \cup {EventAt(r)}])
    <3> DEFINE state == [db EXCEPT !.alerts = @ \cup {EventAt(r)}]
    <3>1. state.rows = db.rows /\ db.alerts \subseteq state.alerts
      BY <1>d DEF DbState
    <3>2. db.rows \cap Refusable = {}
      BY DEF DiskInv
    <3>3. UNCHANGED <<files, pending, batch, worker>>
      BY <1>4 DEF RecordAlert, fileVars, queueVars
    <3>4. Commit(state)
      BY <2>2
    <3> HIDE DEF state
    <3> QED
      BY <3>1, <3>2, <3>3, <3>4, DiskCommit
  <2> QED
    BY <1>4, <2>1, <2>2 DEF RecordAlert
<1>5. ASSUME NEW r \in Runs, Finish(r)
      PROVE  DiskInv' /\ QueueInv'
  <2>1. Keeps(db, EventAt(r))
    BY <1>5 DEF Finish, RunsInv, CommittedSteps, Keeps
  <2>2. /\ UNCHANGED <<files, dbVars, batch>>
        /\ pending' = pending \cup {[by |-> r, event |-> EventAt(r), attempts |-> 0]}
        /\ worker' = worker \/ worker' = "sleeping"
    BY <1>5 DEF Finish, fileVars
  <2>3. DiskInv'
    BY <2>2 DEF DiskInv, Keeps, dbVars
  <2>4. QueueInv'
    BY <2>1, <2>2 DEF QueueInv, Keeps, dbVars
  <2> QED
    BY <2>3, <2>4
\* Only a refused event's file is removed by its digest: it is not stored.
<1>6. ASSUME NEW r \in Runs, RemoveRefused(r)
      PROVE  DiskInv' /\ QueueInv'
  <2>1. pc[r] = "discard"
    BY <1>6 DEF RemoveRefused, RoomInv
  <2>2. EventAt(r) \notin db.rows
    BY <2>1 DEF RunsInv, DiskInv
  <2>3. files' = files \ {EventAt(r)} /\ UNCHANGED <<dbVars, queueVars>>
    BY <1>6 DEF RemoveRefused, Remove
  <2>4. db.rows \ files' = db.rows \ files
    BY <2>2, <2>3
  <2> QED
    BY <2>3, <2>4 DEF DiskInv, QueueInv, Keeps, dbVars, queueVars
<1>7. CASE TakeBatch
  BY <1>7 DEF TakeBatch, DiskInv, QueueInv, Keeps, fileVars, dbVars
<1>8. CASE CheckpointStarts
  BY <1>8 DEF CheckpointStarts, DiskInv, QueueInv, Keeps, fileVars
<1>9. CASE CheckpointCompletes
  BY <1>9 DEF CheckpointCompletes, DiskInv, QueueInv, Keeps, fileVars
<1>10. CASE CheckpointFails
  <2>1. /\ batch' = {} /\ sinceCkpt' = {} /\ worker' = "sleeping"
        /\ UNCHANGED <<files, db, recoverable>>
    BY <1>10 DEF CheckpointFails, fileVars
  <2>2. \A n \in pending' : \E old \in pending \cup batch : n.event = old.event
    <3>1. \A old \in batch : [old EXCEPT !.attempts = @ + 1].event = old.event
      BY DEF TypeOK, QueueTypes, Entry
    <3> QED
      BY <1>10, <3>1 DEF CheckpointFails
  <2> QED
    BY <2>1, <2>2 DEF DiskInv, QueueInv, Keeps
\* What the worker removes is in every recoverable state.
<1>11. CASE RemoveBatch \/ RemoveBatchFails
  <2>1. /\ UNCHANGED <<dbVars, pending, batch>> /\ worker' = "releasing"
        /\ \E gone \in SUBSET {n.event : n \in batch} : files' = files \ gone
    BY <1>11 DEF RemoveBatch, RemoveBatchFails, Remove
  <2>2. \A n \in batch, state \in recoverable : Keeps(state, n.event)
    BY <1>11 DEF RemoveBatch, RemoveBatchFails, QueueInv
  <2>3. \A e \in db.rows \ files' : e \in files => \E n \in batch : n.event = e
    BY <2>1
  <2>4. DiskInv'
    BY <2>1, <2>2, <2>3 DEF DiskInv, Keeps, dbVars
  <2>5. QueueInv'
    BY <2>1 DEF QueueInv, Keeps, dbVars
  <2> QED
    BY <2>4, <2>5
<1>12. CASE ReleaseBatch
  BY <1>12 DEF ReleaseBatch, DiskInv, QueueInv, Keeps, fileVars, dbVars
<1>13. CASE Kill
  BY <1>13 DEF Kill, Restart, DiskInv, QueueInv, Keeps, fileVars
\* The state it returns to held the events whose files are gone.
<1>14. CASE PowerLoss
  <2>1. /\ db' \in recoverable /\ recoverable' = {db'} /\ sinceCkpt' = {}
        /\ files \subseteq files'
        /\ pending' = {} /\ batch' = {} /\ worker' = "stopped"
    BY <1>14 DEF PowerLoss, Restart
  <2>2. db'.rows \subseteq db.rows
    BY <2>1 DEF DiskInv
  <2> QED
    BY <2>1, <2>2 DEF DiskInv, QueueInv, Keeps
<1>15. \/ UNCHANGED <<fileVars, dbVars, queueVars>>
       \/ \E d \in Deliveries : Store(d)
       \/ \E r \in Runs : WriteEvent(r) \/ RecordAlert(r) \/ Finish(r) \/ RemoveRefused(r)
       \/ WorkerStep \/ Kill \/ PowerLoss
  BY DEF Next, vars, Arrive, Reject, ClientGone, DeliveryStep, StoreFails, Answer,
      AcquirePermit, Retry, RecoveryStep, Scan, Recover, ScanDone, DigestStep,
      ReadEvent, CheckExists, CheckQuota, StepFails, TakeSlot, WriteFails,
      ChannelGone, CountLimited, RemoveFails, End, NextWindow
<1> QED
  BY <1>1, <1>2, <1>3, <1>4, <1>5, <1>6, <1>7, <1>8, <1>9, <1>10, <1>11, <1>12,
     <1>13, <1>14, <1>15 DEF WorkerStep

\* The counters' order is kept by every commit, as their equality is.
LEMMA UsedStep ==
  ASSUME DurableInv, [Next]_vars
  PROVE  \A state \in recoverable' \cup sinceCkpt' \cup {db'} : HasRoom(state)
<1>r. \A state \in recoverable \cup sinceCkpt \cup {db} : HasRoom(state)
  BY DEF DurableInv, RoomInv
<1>d. db \in DbState
  BY DEF DurableInv, TypeOK, DbTypes
<1>1. CASE UNCHANGED dbVars
  BY <1>1, <1>r DEF dbVars
<1>2. ASSUME NEW state, Commit(state), HasRoom(state)
      PROVE  \A s \in recoverable' \cup sinceCkpt' \cup {db'} : HasRoom(s)
  <2> QED
    BY <1>2, <1>r DEF Commit
<1>3. ASSUME NEW r \in Runs, WriteEvent(r)
      PROVE  \A s \in recoverable' \cup sinceCkpt' \cup {db'} : HasRoom(s)
  <2>1. HasRoom(WithEvent(EventAt(r)))
    <3>1. db.used \in Nat /\ db.digested \in Nat /\ HasRoom(db)
      BY <1>d, <1>r DEF DbState, HasRoom
    <3> QED
      BY <3>1 DEF WithEvent, HasRoom
  <2> QED
    BY <1>1, <1>2, <1>3, <2>1 DEF WriteEvent
<1>4. ASSUME NEW r \in Runs, RecordAlert(r)
      PROVE  \A s \in recoverable' \cup sinceCkpt' \cup {db'} : HasRoom(s)
  <2>1. HasRoom([db EXCEPT !.alerts = @ \cup {EventAt(r)}])
    BY <1>d, <1>r DEF DbState, HasRoom
  <2> QED
    BY <1>1, <1>2, <1>4, <2>1 DEF RecordAlert
<1>5. CASE WorkerStep
  <2>1. /\ db' = db
        /\ recoverable' \subseteq recoverable \cup sinceCkpt
        /\ sinceCkpt' \subseteq sinceCkpt \cup {db}
    BY <1>5 DEF WorkerStep, TakeBatch, CheckpointStarts, CheckpointCompletes,
                CheckpointFails, RemoveBatch, RemoveBatchFails, ReleaseBatch, dbVars
  <2> QED
    BY <1>r, <2>1
<1>6. CASE Kill \/ PowerLoss
  BY <1>6, <1>r DEF Kill, PowerLoss, Restart
<1> QED
  BY <1>1, <1>3, <1>4, <1>5, <1>6, DbLeftAlone

LEMMA DurableAlways ==
  ASSUME RoomForAll, ~ChannelsVanish
  PROVE  Spec => []DurableInv
<1>1. DurableInv /\ [Next]_vars => DurableInv'
  <2> SUFFICES ASSUME DurableInv, [Next]_vars PROVE DurableInv'
    OBVIOUS
  <2>1. TypeOK' /\ CountInv'
    BY TypeStep, CountStep DEF DurableInv
  <2>2. RoomInv'
    BY UsedStep, RunsStep DEF RoomInv
  <2>3. RunsInv' /\ QueueInv' /\ DiskInv'
    BY RunsStep, DiskStep
  <2> QED
    BY <2>1, <2>2, <2>3 DEF DurableInv
<1> QED
  BY <1>1, DurableInit, PTL DEF Spec

\* A stored event's file goes only when no loss of power can take its row back:
\* the checkpoint its entry waits for starts after its commit.  It holds while the
\* quota has room for every event and no integration vanishes.
THEOREM DurableBeforeDeleted ==
  ASSUME RoomForAll, ~ChannelsVanish
  PROVE  Spec => []DeletedOnlyWhenDurable
<1>1. DurableInv => DeletedOnlyWhenDurable
  BY DEF DurableInv, DiskInv, Keeps, DeletedOnlyWhenDurable
<1> QED
  BY <1>1, DurableAlways, PTL

\* Its alert is on record by then and cannot be taken back either.
THEOREM AlertedBeforeFileGoes ==
  ASSUME RoomForAll, ~ChannelsVanish
  PROVE  Spec => []AlertedBeforeDeleted
<1>1. DurableInv => AlertedBeforeDeleted
  BY DEF DurableInv, DiskInv, Keeps, AlertedBeforeDeleted
<1> QED
  BY <1>1, DurableAlways, PTL

\* A loss of power leaves every event known: what it takes back still has its file.
LEMMA KeptByPowerLoss ==
  ASSUME DurableInv, KeptInv, PowerLoss
  PROVE  KeptInv'
<1>1. /\ \A r \in Runs : pc'[r] \in {"idle", "done"}
      /\ pending' = {} /\ batch' = {} /\ UNCHANGED <<acked, refused>>
      /\ files \subseteq files' /\ db' \in recoverable
  BY DEF PowerLoss, Restart, histVars
<1>2. db.rows \subseteq files' \cup db'.rows
  BY <1>1 DEF DurableInv, DiskInv, Keeps
<1>3. NothingAckedIsLost'
  BY <1>1, <1>2 DEF KeptInv, NothingAckedIsLost, Known
<1> QED
  BY <1>1, <1>3 DEF KeptInv, Runs, ReadSteps, CommittedSteps, DigestSteps

\* With losses of power too, an event the server has answered for keeps its file
\* until it is stored or refused, while the quota has room and integrations stay.
THEOREM AckedIsKeptUnderPower ==
  ASSUME RoomForAll, ~ChannelsVanish
  PROVE  Spec => []NothingAckedIsLost
<1>1. Init => KeptInv
  BY DEF Init, KeptInv, NothingAckedIsLost, Runs, ReadSteps, CommittedSteps, DigestSteps
<1>2. DurableInv /\ KeptInv /\ [Next]_vars => KeptInv'
  BY KeptStep, KeptByPowerLoss DEF DurableInv
<1>3. KeptInv => NothingAckedIsLost
  BY DEF KeptInv
<1> QED
  BY <1>1, <1>2, <1>3, DurableAlways, PTL DEF Spec

\* Nothing is removed unseen: a file a loss of power brings back is of an event
\* that is stored, refused or held again.
UnlinkedIsKnown == \A e \in unlinked : Known(e)

LEMMA UnlinkedStep ==
  ASSUME TypeOK, KeptInv, UnlinkedIsKnown, [Next]_vars
  PROVE  UnlinkedIsKnown'
<1>1. unlinked' \subseteq unlinked \cup files
  <2>1. \/ UNCHANGED unlinked
        \/ \E d \in Deliveries : Store(d)
        \/ \E r \in Runs : RemoveRefused(r)
        \/ RemoveBatch \/ RemoveBatchFails \/ PowerLoss
    BY DEF Next, vars, Arrive, Reject, ClientGone, DeliveryStep, StoreFails, Answer,
      AcquirePermit, Retry, RecoveryStep, Scan, Recover, ScanDone, DigestStep,
      ReadEvent, CheckExists, CheckQuota, StepFails, TakeSlot, WriteEvent, WriteFails,
      RecordAlert, ChannelGone, Finish, CountLimited, RemoveFails, End, NextWindow,
      WorkerStep, TakeBatch, CheckpointStarts, CheckpointCompletes, CheckpointFails,
      ReleaseBatch, Kill, fileVars
  <2> QED
    BY <2>1 DEF Store, RemoveRefused, RemoveBatch, RemoveBatchFails, Remove, PowerLoss
<1>2. CASE PowerLoss
  BY <1>2 DEF PowerLoss, UnlinkedIsKnown
<1>3. CASE ~PowerLoss
  <2>1. \A e : Known(e) => Known(e)'
    BY <1>3, KnownStable
  <2>2. \A e \in unlinked \cup files : Known(e)
    BY DEF UnlinkedIsKnown, Known
  <2> QED
    BY <1>1, <2>1, <2>2 DEF UnlinkedIsKnown
<1> QED
  BY <1>2, <1>3

LEMMA RefinesPowerLoss ==
  ASSUME DurableInv, UnlinkedIsKnown, PowerLoss
  PROVE  Accepted!PowerLoss
<1>1. PICK back \in SUBSET unlinked : files' = files \cup back
  BY DEF PowerLoss
<1>2. db' \in recoverable /\ UNCHANGED <<acked, refused>>
  BY DEF PowerLoss, Restart, histVars
<1>3. db'.rows \subseteq db.rows /\ db.rows \subseteq files' \cup db'.rows
  BY <1>1, <1>2 DEF DurableInv, DiskInv, Keeps
<1> DEFINE held == {e \in Events : status[e] \in {"stored", "dropped"} /\ status'[e] = "held"}
<1>4. \A e \in Events : e \notin held => status'[e] = status[e]
  <2> SUFFICES ASSUME NEW e \in Events, e \notin held
               PROVE  status'[e] = status[e]
    OBVIOUS
  <2>1. CASE e \in db.rows
    BY <1>3, <2>1 DEF status
  <2>2. CASE e \notin db.rows /\ e \in files
    BY <1>1, <1>3, <2>2 DEF status
  <2>3. CASE e \notin db.rows \cup files
    <3>1. e \in back => e \in refused
      BY <1>1, <2>3 DEF UnlinkedIsKnown, Known
    <3>2. e \notin db'.rows /\ (e \in files' <=> e \in back)
      BY <1>1, <1>3, <2>3
    <3> QED
      BY <1>2, <2>3, <3>1, <3>2 DEF status
  <2> QED
    BY <2>1, <2>2, <2>3
<1>5. status' = [e \in Events |-> IF e \in held THEN "held" ELSE status[e]]
  <2>1. status' = [e \in Events |-> status'[e]]
    BY DEF status
  <2> QED
    BY <1>4, <2>1
<1>6. held \in SUBSET {e \in Events : status[e] \in {"stored", "dropped"}}
  OBVIOUS
<1> HIDE DEF held
<1> QED
  BY <1>2, <1>5, <1>6 DEF Accepted!PowerLoss

\* With losses of power the pipeline takes the steps of AcceptedEvents and those
\* of its PowerLoss, under the same conditions: an event whose commit is taken
\* back is held again.  (That it is settled in the end is only model-checked.)
THEOREM PipelineStepsUnderPower ==
  ASSUME RoomForAll, ~ChannelsVanish
  PROVE  Spec => Accepted!Init /\ [][Accepted!Next \/ Accepted!PowerLoss]_(Accepted!vars)
<1>1. Init => KeptInv /\ UnlinkedIsKnown
  BY DEF Init, KeptInv, NothingAckedIsLost, Runs, ReadSteps, CommittedSteps,
         DigestSteps, UnlinkedIsKnown
<1>2. DurableInv /\ KeptInv /\ UnlinkedIsKnown /\ [Next]_vars
        => KeptInv' /\ UnlinkedIsKnown'
  BY KeptStep, KeptByPowerLoss, UnlinkedStep DEF DurableInv
<1>3. DurableInv /\ KeptInv /\ UnlinkedIsKnown /\ [Next]_vars
        => [Accepted!Next \/ Accepted!PowerLoss]_(Accepted!vars)
  BY RefinesStep, RefinesPowerLoss DEF DurableInv
<1> QED
  BY <1>1, <1>2, <1>3, RefinesInit, DurableAlways, PTL DEF Spec

-----------------------------------------------------------------------------
(* Claims and slots *)

Claimers(e) == {d \in Deliveries : EventOf[d] = e /\ pc[d] \in HoldsGuard}
Holders == {d \in Deliveries : pc[d] \in HoldsPermit}

\* An entry of the queue is known by the run that made it and its event; a
\* delivery makes it last, the recovery worker none for an event that has one.
EntryInv ==
  /\ pending \cap batch = {}
  /\ \A m, n \in pending \cup batch : m.by = n.by /\ m.event = n.event => m = n
  /\ \A n \in pending \cup batch : n.by \in Deliveries => pc[n.by] \in {"end", "done"}
  /\ pc[Recovery] \in DigestSteps \ {"end"} =>
       \A n \in pending \cup batch : ~(n.by = Recovery /\ n.event = current)

AccountInv == TypeOK /\ QueueIsServed /\ EntryInv /\ ResourcesAccounted

\* Two subsets of a finite set that differ at one element at most.
LEMMA CountOne ==
  ASSUME NEW D, IsFiniteSet(D), NEW A \in SUBSET D, NEW B \in SUBSET D,
         NEW d, \A c \in D : c # d => (c \in A <=> c \in B)
  PROVE  Cardinality(B) = Cardinality(A) + (IF d \in B THEN 1 ELSE 0)
                                         - (IF d \in A THEN 1 ELSE 0)
<1>1. IsFiniteSet(A) /\ IsFiniteSet(B) /\ Cardinality(A) \in Nat /\ Cardinality(B) \in Nat
  BY FS_Subset, FS_CardinalityType
<1>2. CASE d \in A <=> d \in B
  <2>1. A = B
    BY <1>2
  <2> QED
    BY <1>1, <2>1
<1>3. CASE d \in A /\ d \notin B
  <2>1. B = A \ {d}
    BY <1>3
  <2> QED
    BY <1>1, <1>3, <2>1, FS_RemoveElement
<1>4. CASE d \notin A /\ d \in B
  <2>1. B = A \cup {d}
    BY <1>4
  <2> QED
    BY <1>1, <1>4, <2>1, FS_AddElement
<1> QED
  BY <1>2, <1>3, <1>4

\* What one delivery's move changes of the claims and the slots.
LEMMA MoveCounts ==
  ASSUME TypeOK, NEW d \in Deliveries, \A c \in Deliveries : c # d => pc'[c] = pc[c]
  PROVE  /\ \A e \in Events :
              Cardinality(Claimers(e)') =
                Cardinality(Claimers(e))
                  + (IF EventOf[d] = e /\ pc'[d] \in HoldsGuard THEN 1 ELSE 0)
                  - (IF EventOf[d] = e /\ pc[d] \in HoldsGuard THEN 1 ELSE 0)
         /\ Cardinality(Holders') =
              Cardinality(Holders) + (IF pc'[d] \in HoldsPermit THEN 1 ELSE 0)
                                   - (IF pc[d] \in HoldsPermit THEN 1 ELSE 0)
<1>f. IsFiniteSet(Deliveries)
  BY DeliveriesAssumption
<1>1. ASSUME NEW e \in Events
      PROVE  Cardinality(Claimers(e)') =
                Cardinality(Claimers(e))
                  + (IF EventOf[d] = e /\ pc'[d] \in HoldsGuard THEN 1 ELSE 0)
                  - (IF EventOf[d] = e /\ pc[d] \in HoldsGuard THEN 1 ELSE 0)
  <2> DEFINE A == Claimers(e)
             B == Claimers(e)'
  <2>1. /\ A \in SUBSET Deliveries /\ B \in SUBSET Deliveries
        /\ \A c \in Deliveries : c # d => (c \in A <=> c \in B)
        /\ d \in A <=> EventOf[d] = e /\ pc[d] \in HoldsGuard
        /\ d \in B <=> EventOf[d] = e /\ pc'[d] \in HoldsGuard
    BY DEF Claimers
  <2> HIDE DEF A, B
  <2>2. Cardinality(B) = Cardinality(A) + (IF d \in B THEN 1 ELSE 0)
                                        - (IF d \in A THEN 1 ELSE 0)
    BY <1>f, <2>1, CountOne
  <2> QED
    BY <2>1, <2>2 DEF A, B
<1>2. Cardinality(Holders') =
              Cardinality(Holders) + (IF pc'[d] \in HoldsPermit THEN 1 ELSE 0)
                                   - (IF pc[d] \in HoldsPermit THEN 1 ELSE 0)
  <2> DEFINE A == Holders
             B == Holders'
  <2>1. /\ A \in SUBSET Deliveries /\ B \in SUBSET Deliveries
        /\ \A c \in Deliveries : c # d => (c \in A <=> c \in B)
        /\ d \in A <=> pc[d] \in HoldsPermit
        /\ d \in B <=> pc'[d] \in HoldsPermit
    BY DEF Holders
  <2> HIDE DEF A, B
  <2>2. Cardinality(B) = Cardinality(A) + (IF d \in B THEN 1 ELSE 0)
                                        - (IF d \in A THEN 1 ELSE 0)
    BY <1>f, <2>1, CountOne
  <2> QED
    BY <2>1, <2>2 DEF A, B
<1> QED
  BY <1>1, <1>2

\* The numbers are numbers.
LEMMA AccountTypes ==
  ASSUME TypeOK
  PROVE  /\ \A e \in Events : /\ Cardinality(Claimers(e)) \in Nat
                              /\ Owned(pending, e) \in Nat /\ Owned(batch, e) \in Nat
                              /\ inFlight[e] \in Int
                              /\ Claims(e) = Cardinality(Claimers(e))
                                               + Owned(pending, e) + Owned(batch, e)
         /\ Cardinality(Holders) \in Nat /\ permits \in Int /\ MaxProcessing \in Nat
<1>1. ASSUME NEW e \in Events
      PROVE  /\ Cardinality(Claimers(e)) \in Nat
             /\ Owned(pending, e) \in Nat /\ Owned(batch, e) \in Nat
             /\ inFlight[e] \in Int
             /\ Claims(e) = Cardinality(Claimers(e)) + Owned(pending, e) + Owned(batch, e)
  <2>1. IsFiniteSet(Claimers(e))
    BY DeliveriesAssumption, FS_Subset DEF Claimers
  <2> QED
    BY <2>1, FS_CardinalityType, OwnedType DEF Claims, Claimers, TypeOK, RunTypes, QueueTypes
<1>2. IsFiniteSet(Holders)
  BY DeliveriesAssumption, FS_Subset DEF Holders
<1> QED
  BY <1>1, <1>2, FS_CardinalityType, LimitsAssumption DEF TypeOK, RunTypes

\* ResourcesAccounted, in these words.
LEMMA Accounted ==
  ASSUME TypeOK
  PROVE  ResourcesAccounted <=>
           /\ \A e \in Events : inFlight[e] = Cardinality(Claimers(e))
                                                + Owned(pending, e) + Owned(batch, e)
           /\ permits + Cardinality(Holders) = MaxProcessing
BY AccountTypes DEF ResourcesAccounted, Holders

LEMMA AccountedNext ==
  ASSUME \A e \in Events : inFlight'[e] = Cardinality(Claimers(e)')
                                             + Owned(pending', e) + Owned(batch', e),
         permits' + Cardinality(Holders') = MaxProcessing
  PROVE  ResourcesAccounted'
BY DEF ResourcesAccounted, Claims, Claimers, Holders, Owned

\* What a step may do to the counts and keep them right.
LEMMA AccountMove ==
  ASSUME AccountInv, TypeOK', NEW d \in Deliveries,
         \A c \in Deliveries : c # d => pc'[c] = pc[c],
         UNCHANGED <<pending, batch>>,
         \A e \in Events : inFlight'[e] =
           inFlight[e] + (IF EventOf[d] = e /\ pc'[d] \in HoldsGuard THEN 1 ELSE 0)
                       - (IF EventOf[d] = e /\ pc[d] \in HoldsGuard THEN 1 ELSE 0),
         permits' = permits + (IF pc[d] \in HoldsPermit THEN 1 ELSE 0)
                            - (IF pc'[d] \in HoldsPermit THEN 1 ELSE 0)
  PROVE  ResourcesAccounted'
<1>t. TypeOK /\ ResourcesAccounted
  BY DEF AccountInv
<1>1. ASSUME NEW e \in Events
      PROVE  inFlight'[e] = Cardinality(Claimers(e)') + Owned(pending', e) + Owned(batch', e)
  <2>1. inFlight[e] = Cardinality(Claimers(e)) + Owned(pending, e) + Owned(batch, e)
    BY <1>t, Accounted
  <2>2. Owned(pending', e) = Owned(pending, e) /\ Owned(batch', e) = Owned(batch, e)
    OBVIOUS
  <2>3. Cardinality(Claimers(e)') =
          Cardinality(Claimers(e))
            + (IF EventOf[d] = e /\ pc'[d] \in HoldsGuard THEN 1 ELSE 0)
            - (IF EventOf[d] = e /\ pc[d] \in HoldsGuard THEN 1 ELSE 0)
    BY <1>t, MoveCounts
  <2> QED
    BY <1>t, <2>1, <2>2, <2>3, AccountTypes
<1>2. permits' + Cardinality(Holders') = MaxProcessing
  <2>1. permits + Cardinality(Holders) = MaxProcessing
    BY <1>t, Accounted
  <2>2. Cardinality(Holders') =
              Cardinality(Holders) + (IF pc'[d] \in HoldsPermit THEN 1 ELSE 0)
                                   - (IF pc[d] \in HoldsPermit THEN 1 ELSE 0)
    BY <1>t, MoveCounts
  <2> QED
    BY <1>t, <2>1, <2>2, AccountTypes
<1> QED
  BY <1>1, <1>2, AccountedNext

LEMMA AccountStays ==
  ASSUME AccountInv, UNCHANGED <<inFlight, permits, pending, batch>>,
         \A c \in Deliveries : /\ pc'[c] \in HoldsGuard <=> pc[c] \in HoldsGuard
                               /\ pc'[c] \in HoldsPermit <=> pc[c] \in HoldsPermit
  PROVE  ResourcesAccounted'
<1>1. \A e \in Events : Claimers(e)' = Claimers(e)
  BY DEF Claimers
<1>2. Holders' = Holders
  BY DEF Holders
<1> QED
  BY <1>1, <1>2, Accounted, AccountedNext DEF AccountInv

LEMMA EntriesStay ==
  ASSUME EntryInv, UNCHANGED <<pending, batch>>,
         \A c \in Deliveries : pc[c] \in {"end", "done"} => pc'[c] \in {"end", "done"},
         pc'[Recovery] \in DigestSteps \ {"end"} =>
           \/ pc[Recovery] \in DigestSteps \ {"end"} /\ current' = current
           \/ \A n \in pending \cup batch : n.event # current'
  PROVE  EntryInv'
BY DEF EntryInv

LEMMA AccountDelivery ==
  ASSUME AccountInv, TypeOK', NEW d \in Deliveries,
         Arrive(d) \/ Reject(d) \/ ClientGone(d) \/ DeliveryStep(d)
  PROVE  EntryInv' /\ ResourcesAccounted'
<1> USE DEF AccountInv
<1>d. /\ pc \in [Runs -> Steps] /\ inFlight \in [Events -> Int] /\ permits \in Int
      /\ d \in Runs /\ Recovery \in Runs /\ d # Recovery /\ EventOf[d] \in Events /\ Deliveries \subseteq Runs
  BY DeliveriesAssumption DEF TypeOK, RunTypes, Runs
<1>s. /\ {"idle", "orphan", "done", "next"} \cap (HoldsGuard \cup HoldsPermit) = {}
      /\ {"storing", "answer", "waiting"} \cap HoldsPermit = {}
      /\ {"storing", "answer", "waiting", "read", "backoff"} \subseteq HoldsGuard
      /\ {"read", "backoff"} \subseteq HoldsPermit
  BY DEF HoldsGuard, HoldsPermit, DigestSteps
<1>1. /\ \A c \in Runs : c # d => pc'[c] = pc[c]
      /\ UNCHANGED <<current, pending, batch>> /\ pc[d] \notin {"end", "done"}
  BY <1>d DEF Arrive, Reject, ClientGone, DeliveryStep, Store, StoreFails, Answer,
     AcquirePermit, Retry, Goto, queueVars
<1>2. EntryInv'
  <2>1. \A c \in Deliveries : pc[c] \in {"end", "done"} => pc'[c] \in {"end", "done"}
    BY <1>1, <1>d
  <2>2. pc'[Recovery] = pc[Recovery] /\ current' = current
    BY <1>1, <1>d
  <2> QED
    BY <1>1, <2>1, <2>2, EntriesStay
<1>3. CASE Arrive(d)
  <2>1. /\ pc[d] = "idle" /\ pc'[d] = "storing" /\ permits' = permits
        /\ \A e \in Events : inFlight'[e] = IF EventOf[d] = e THEN inFlight[e] + 1 ELSE inFlight[e]
    BY <1>3, <1>d DEF Arrive, Goto, Claim
  <2> QED
    BY <1>1, <1>2, <1>d, <1>s, <2>1, AccountMove
<1>4. CASE Reject(d)
  <2>1. pc[d] = "idle" /\ pc'[d] = "done" /\ UNCHANGED <<permits, inFlight>>
    BY <1>4, <1>d DEF Reject, Goto
  <2> QED
    BY <1>1, <1>2, <1>d, <1>s, <2>1, AccountStays
<1>5. CASE ClientGone(d)
  <2>1. /\ pc[d] \in {"storing", "answer"} /\ pc'[d] \in {"orphan", "done"}
        /\ permits' = permits
        /\ \A e \in Events : inFlight'[e] = IF EventOf[d] = e THEN inFlight[e] - 1 ELSE inFlight[e]
    BY <1>5, <1>d DEF ClientGone, Goto, Release
  <2> QED
    BY <1>1, <1>2, <1>d, <1>s, <2>1, AccountMove
<1>6. CASE Store(d)
  <2>1. /\ \/ pc[d] = "storing" /\ pc'[d] = "answer"
           \/ pc[d] = "orphan" /\ pc'[d] = "done"
        /\ UNCHANGED <<permits, inFlight>>
    BY <1>6, <1>d DEF Store, Goto
  <2> QED
    BY <1>1, <1>2, <1>d, <1>s, <2>1, AccountStays
<1>7. CASE StoreFails(d) /\ pc[d] = "storing"
  <2>1. /\ pc'[d] = "done" /\ permits' = permits
        /\ \A e \in Events : inFlight'[e] = IF EventOf[d] = e THEN inFlight[e] - 1 ELSE inFlight[e]
    BY <1>7, <1>d DEF StoreFails, Goto, Release
  <2> QED
    BY <1>1, <1>2, <1>7, <1>d, <1>s, <2>1, AccountMove
<1>8. CASE StoreFails(d) /\ pc[d] # "storing"
  <2>1. pc[d] = "orphan" /\ pc'[d] = "done" /\ UNCHANGED <<permits, inFlight>>
    BY <1>8, <1>d DEF StoreFails, Goto
  <2> QED
    BY <1>1, <1>2, <1>d, <1>s, <2>1, AccountStays
<1>9. CASE Answer(d)
  <2>1. pc[d] = "answer" /\ pc'[d] = "waiting" /\ UNCHANGED <<permits, inFlight>>
    BY <1>9, <1>d DEF Answer, Goto
  <2> QED
    BY <1>1, <1>2, <1>d, <1>s, <2>1, AccountStays
<1>10. CASE AcquirePermit(d)
  <2>1. pc[d] = "waiting" /\ pc'[d] = "read" /\ permits' = permits - 1 /\ inFlight' = inFlight
    BY <1>10, <1>d DEF AcquirePermit, Goto
  <2> QED
    BY <1>1, <1>2, <1>d, <1>s, <2>1, AccountMove
<1>11. CASE Retry(d)
  <2>1. pc[d] = "backoff" /\ pc'[d] = "read" /\ UNCHANGED <<permits, inFlight>>
    BY <1>11, <1>d DEF Retry, Goto
  <2> QED
    BY <1>1, <1>2, <1>d, <1>s, <2>1, AccountStays
<1> QED
  BY <1>2, <1>3, <1>4, <1>5, <1>6, <1>7, <1>8, <1>9, <1>10, <1>11 DEF DeliveryStep

\* A digest's step before its last two keeps its claim and its slot.
LEMMA DigestHolds ==
  ASSUME TypeOK, NEW r \in Runs, DigestStep(r), ~Finish(r), ~End(r)
  PROVE  /\ \E step \in DigestSteps \cup {"backoff"} :
              /\ pc' = [pc EXCEPT ![r] = step]
              /\ step = "backoff" => r \in Deliveries
         /\ pc[r] \in DigestSteps \ {"end"}
         /\ UNCHANGED <<current, inFlight, permits, pending, batch>>
<1> USE DEF Goto, DigestSteps
<1>r. ASSUME NEW contention, Retain(r, contention)
      PROVE  \E step \in DigestSteps \cup {"backoff"} :
               pc' = [pc EXCEPT ![r] = step] /\ (step = "backoff" => r \in Deliveries)
  BY <1>r DEF Retain
<1>p. pc = [pc EXCEPT ![r] = pc[r]]
  BY DEF TypeOK, RunTypes
<1>1. CASE ReadEvent(r) \/ CheckExists(r) \/ CheckQuota(r) \/ TakeSlot(r) \/ CountLimited(r)
  BY <1>1 DEF ReadEvent, CheckExists, CheckQuota, TakeSlot, CountLimited, queueVars
<1>2. CASE StepFails(r)
  BY <1>2, <1>r DEF StepFails, DatabaseFails, queueVars
<1>3. CASE WriteEvent(r)
  <2>1. CASE Retain(r, FALSE)
    BY <1>3, <1>r, <2>1 DEF WriteEvent, queueVars
  <2>2. CASE Goto(r, "count") \/ Goto(r, "alert")
    BY <1>3, <2>2 DEF WriteEvent, queueVars
  <2> QED
    BY <1>3, <2>1, <2>2 DEF WriteEvent
<1>4. CASE WriteFails(r)
  <2>1. CASE UNCHANGED pc
    BY <1>4, <1>p, <2>1 DEF WriteFails, queueVars
  <2>2. CASE \E contention \in BOOLEAN : Retain(r, contention)
    BY <1>4, <1>r, <2>2 DEF WriteFails, queueVars
  <2> QED
    BY <1>4, <2>1, <2>2 DEF WriteFails
<1>5. CASE RecordAlert(r) \/ ChannelGone(r)
  BY <1>5 DEF RecordAlert, ChannelGone, queueVars
<1>6. CASE RemoveRefused(r) \/ RemoveFails(r)
  BY <1>6 DEF RemoveRefused, RemoveFails, queueVars
<1> QED
  BY <1>1, <1>2, <1>3, <1>4, <1>5, <1>6 DEF DigestStep

LEMMA OwnedUnion ==
  ASSUME NEW A, IsFiniteSet(A), NEW B, IsFiniteSet(B), A \cap B = {}, NEW e
  PROVE  Owned(A \cup B, e) = Owned(A, e) + Owned(B, e)
<1> DEFINE S == {n \in A : n.event = e}
           T == {n \in B : n.event = e}
<1>1. IsFiniteSet(S) /\ IsFiniteSet(T) /\ S \cap T = {}
  BY FS_Subset
<1>2. {n \in A \cup B : n.event = e} = S \cup T
  OBVIOUS
<1>o. /\ Owned(A, e) = Cardinality(S) /\ Owned(B, e) = Cardinality(T)
      /\ Owned(A \cup B, e) = Cardinality(S \cup T)
  BY <1>2 DEF Owned
<1> HIDE DEF S, T
<1>3. Cardinality(S \cup T) = Cardinality(S) + Cardinality(T) - Cardinality({})
  BY <1>1, FS_Union
<1>4. Cardinality(S) \in Nat /\ Cardinality(T) \in Nat
  BY <1>1, FS_CardinalityType
<1> QED
  BY <1>o, <1>3, <1>4, FS_EmptySet

LEMMA OwnedNone == \A e : Owned({}, e) = 0
<1>1. \A e : {n \in {} : n.event = e} = {}
  OBVIOUS
<1> QED
  BY <1>1, FS_EmptySet DEF Owned

LEMMA OwnedOne ==
  ASSUME NEW n, NEW e
  PROVE  IsFiniteSet({n}) /\ Owned({n}, e) = IF n.event = e THEN 1 ELSE 0
<1>1. CASE n.event = e
  <2>1. {m \in {n} : m.event = e} = {n}
    BY <1>1
  <2> QED
    BY <1>1, <2>1, FS_Singleton DEF Owned
<1>2. CASE n.event # e
  <2>1. {m \in {n} : m.event = e} = {}
    BY <1>2
  <2> QED
    BY <1>2, <2>1, FS_Singleton, FS_EmptySet DEF Owned
<1> QED
  BY <1>1, <1>2

LEMMA AccountFinish ==
  ASSUME AccountInv, NEW r \in Runs, Finish(r)
  PROVE  EntryInv' /\ ResourcesAccounted'
<1> USE DEF AccountInv
<1> DEFINE entry == [by |-> r, event |-> EventAt(r), attempts |-> 0]
<1>d. /\ pc \in [Runs -> Steps] /\ inFlight \in [Events -> Int] /\ permits \in Int
      /\ Recovery \in Runs /\ Recovery \notin Deliveries /\ Deliveries \subseteq Runs
      /\ IsFiniteSet(pending) /\ IsFiniteSet(batch)
  BY DeliveriesAssumption DEF TypeOK, RunTypes, QueueTypes, Runs
<1>e. EventAt(r) \in Events
  BY EventAtType DEF Finish, DigestSteps
<1>1. /\ pc[r] = "finish" /\ pc'[r] = "end"
      /\ \A c \in Runs : c # r => pc'[c] = pc[c]
      /\ pending' = pending \cup {entry} /\ UNCHANGED <<batch, permits, current>>
      /\ \A e \in Events : inFlight'[e] = inFlight[e] + (IF e = EventAt(r) THEN 1 ELSE 0)
  <2>1. inFlight' = [inFlight EXCEPT ![EventAt(r)] = @ + 1]
    BY DEF Finish, Claim
  <2>2. \A e \in Events : inFlight'[e] = inFlight[e] + (IF e = EventAt(r) THEN 1 ELSE 0)
    BY <1>d, <1>e, <2>1
  <2> QED
    BY <1>d, <2>2 DEF Finish, Goto
<1>2. entry.by = r /\ entry.event = EventAt(r)
  OBVIOUS
<1> HIDE DEF entry
\* Its run has no entry for its event yet.
<1>3. \A n \in pending \cup batch : ~(n.by = r /\ n.event = EventAt(r))
  <2>1. CASE r = Recovery
    BY <1>1, <2>1 DEF EntryInv, EventAt, DigestSteps
  <2>2. CASE r # Recovery
    BY <1>1, <1>d, <2>2 DEF EntryInv, Runs
  <2> QED
    BY <2>1, <2>2
<1>4. EntryInv'
  <2>1. pending' \cap batch' = {}
    BY <1>1, <1>2, <1>3 DEF EntryInv
  <2>2. \A m, n \in pending' \cup batch' : m.by = n.by /\ m.event = n.event => m = n
    BY <1>1, <1>2, <1>3 DEF EntryInv
  <2>3. \A n \in pending' \cup batch' : n.by \in Deliveries => pc'[n.by] \in {"end", "done"}
    BY <1>1, <1>2, <1>d DEF EntryInv
  <2>4. pc'[Recovery] \in DigestSteps \ {"end"} =>
          \A n \in pending' \cup batch' : ~(n.by = Recovery /\ n.event = current')
    BY <1>1, <1>2, <1>d DEF EntryInv
  <2> QED
    BY <2>1, <2>2, <2>3, <2>4 DEF EntryInv
<1>5. ResourcesAccounted'
  <2>1. /\ \A c \in Deliveries : /\ pc'[c] \in HoldsGuard <=> pc[c] \in HoldsGuard
                                 /\ pc'[c] \in HoldsPermit <=> pc[c] \in HoldsPermit
    BY <1>1, <1>d DEF HoldsGuard, HoldsPermit, DigestSteps
  <2>2. \A e \in Events : Claimers(e)' = Claimers(e)
    BY <2>1 DEF Claimers
  <2>3. Holders' = Holders
    BY <2>1 DEF Holders
  <2>4. \A e \in Events :
          Owned(pending', e) = Owned(pending, e) + (IF e = EventAt(r) THEN 1 ELSE 0)
    <3>1. pending \cap {entry} = {}
      BY <1>2, <1>3
    <3> SUFFICES ASSUME NEW e \in Events
                 PROVE  Owned(pending', e) = Owned(pending, e) + (IF e = EventAt(r) THEN 1 ELSE 0)
      OBVIOUS
    <3>2. IsFiniteSet({entry}) /\ Owned({entry}, e) = IF entry.event = e THEN 1 ELSE 0
      BY OwnedOne
    <3>3. Owned(pending \cup {entry}, e) = Owned(pending, e) + Owned({entry}, e)
      BY <1>d, <3>1, <3>2, OwnedUnion
    <3> QED
      BY <1>1, <1>2, <3>2, <3>3
  <2>5. ASSUME NEW e \in Events
        PROVE  inFlight'[e] = Cardinality(Claimers(e)') + Owned(pending', e) + Owned(batch', e)
    <3>1. inFlight[e] = Cardinality(Claimers(e)) + Owned(pending, e) + Owned(batch, e)
      BY Accounted
    <3>2. /\ Owned(pending', e) = Owned(pending, e) + (IF e = EventAt(r) THEN 1 ELSE 0)
          /\ inFlight'[e] = inFlight[e] + (IF e = EventAt(r) THEN 1 ELSE 0)
          /\ Claimers(e)' = Claimers(e) /\ Owned(batch', e) = Owned(batch, e)
      BY <1>1, <2>2, <2>4
    <3>3. /\ Cardinality(Claimers(e)) \in Nat /\ Owned(pending, e) \in Nat
          /\ Owned(batch, e) \in Nat
      BY AccountTypes
    <3> QED
      BY <3>1, <3>2, <3>3
  <2>6. permits' + Cardinality(Holders') = MaxProcessing
    BY <1>1, <2>3, Accounted
  <2> QED
    BY <2>5, <2>6, AccountedNext
<1> QED
  BY <1>4, <1>5

LEMMA AccountDigest ==
  ASSUME AccountInv, TypeOK', NEW r \in Runs, DigestStep(r)
  PROVE  EntryInv' /\ ResourcesAccounted'
<1> USE DEF AccountInv
<1>d. /\ pc \in [Runs -> Steps] /\ inFlight \in [Events -> Int] /\ permits \in Int
      /\ Recovery \in Runs /\ Recovery \notin Deliveries /\ Deliveries \subseteq Runs
      /\ EventOf \in [Deliveries -> Events]
  BY DeliveriesAssumption DEF TypeOK, RunTypes, Runs
<1>s. /\ DigestSteps \cup {"backoff"} = HoldsPermit /\ HoldsPermit \subseteq HoldsGuard
      /\ {"done", "next"} \cap (HoldsGuard \cup HoldsPermit) = {}
      /\ "end" \in DigestSteps /\ "backoff" \notin DigestSteps
  BY DEF HoldsGuard, HoldsPermit, DigestSteps
<1>1. CASE Finish(r)
  BY <1>1, AccountFinish
<1>2. CASE End(r) /\ r = Recovery
  <2>1. /\ pc'[Recovery] = "next" /\ \A c \in Deliveries : pc'[c] = pc[c]
        /\ UNCHANGED <<inFlight, permits, pending, batch>>
    BY <1>2, <1>d DEF End, Goto, queueVars
  <2>2. EntryInv'
    BY <1>s, <2>1, EntriesStay
  <2> QED
    BY <2>1, <2>2, AccountStays
<1>3. CASE End(r) /\ r # Recovery
  <2>0. r \in Deliveries /\ EventAt(r) = EventOf[r] /\ EventOf[r] \in Events
    BY <1>3, <1>d DEF Runs, EventAt
  <2>1. /\ pc[r] = "end" /\ pc'[r] = "done" /\ permits' = permits + 1
        /\ \A c \in Runs : c # r => pc'[c] = pc[c]
        /\ UNCHANGED <<current, pending, batch>>
        /\ \A e \in Events : inFlight'[e] = IF EventOf[r] = e THEN inFlight[e] - 1 ELSE inFlight[e]
    BY <1>3, <1>d, <2>0 DEF End, Goto, Release, queueVars
  <2>2. EntryInv'
    <3>1. pc'[Recovery] = pc[Recovery]
      BY <1>3, <1>d, <2>1
    <3>2. \A c \in Deliveries : pc[c] \in {"end", "done"} => pc'[c] \in {"end", "done"}
      BY <1>d, <2>1
    <3> QED
      BY <2>1, <3>1, <3>2, EntriesStay
  <2>3. ResourcesAccounted'
    BY <1>d, <1>s, <2>0, <2>1, AccountMove
  <2> QED
    BY <2>2, <2>3
<1>4. CASE ~Finish(r) /\ ~End(r)
  <2>1. PICK step \in DigestSteps \cup {"backoff"} :
          pc' = [pc EXCEPT ![r] = step] /\ (step = "backoff" => r \in Deliveries)
    BY <1>4, DigestHolds
  <2>2. /\ pc[r] \in DigestSteps \ {"end"}
        /\ UNCHANGED <<current, inFlight, permits, pending, batch>>
    BY <1>4, DigestHolds
  <2>3. pc'[r] = step /\ \A c \in Runs : c # r => pc'[c] = pc[c]
    BY <1>d, <2>1
  <2>4. ResourcesAccounted'
    <3>1. \A c \in Deliveries : /\ pc'[c] \in HoldsGuard <=> pc[c] \in HoldsGuard
                                /\ pc'[c] \in HoldsPermit <=> pc[c] \in HoldsPermit
      BY <1>d, <1>s, <2>1, <2>2, <2>3
    <3> QED
      BY <2>2, <3>1, AccountStays
  <2>5. EntryInv'
    <3>1. \A c \in Deliveries : pc[c] \in {"end", "done"} => pc'[c] \in {"end", "done"}
      <4>1. pc[r] # "done"
        BY <1>s, <2>2
      <4> QED
        BY <1>d, <2>2, <2>3, <4>1
    <3>2. pc'[Recovery] \in DigestSteps \ {"end"} => pc[Recovery] \in DigestSteps \ {"end"}
      BY <1>d, <2>2, <2>3
    <3> QED
      BY <2>2, <3>1, <3>2, EntriesStay
  <2> QED
    BY <2>4, <2>5
<1> QED
  BY <1>1, <1>2, <1>3, <1>4

\* Nobody owns an event of no claims.
LEMMA FreeEvent ==
  ASSUME AccountInv, NEW e \in Events, ~(inFlight[e] > 0)
  PROVE  \A n \in pending \cup batch : n.event # e
<1> USE DEF AccountInv
<1>1. Owned(pending, e) = 0 /\ Owned(batch, e) = 0
  <2>1. inFlight[e] = Cardinality(Claimers(e)) + Owned(pending, e) + Owned(batch, e)
    BY Accounted
  <2> QED
    BY <2>1, AccountTypes
<1>2. {n \in pending : n.event = e} = {} /\ {n \in batch : n.event = e} = {}
  BY <1>1, FS_Subset, FS_EmptySet DEF Owned, TypeOK, QueueTypes
<1> QED
  BY <1>2

LEMMA AccountRecovery ==
  ASSUME AccountInv, RecoveryStep
  PROVE  EntryInv' /\ ResourcesAccounted'
<1>d. /\ pc \in [Runs -> Steps] /\ Recovery \in Runs /\ Recovery \notin Deliveries
      /\ Deliveries \subseteq Runs /\ EntryInv
  BY DeliveriesAssumption DEF AccountInv, TypeOK, RunTypes, Runs
<1>1. /\ \A c \in Deliveries : pc'[c] = pc[c]
      /\ UNCHANGED <<inFlight, permits, pending, batch>>
  BY <1>d DEF RecoveryStep, Scan, Recover, ScanDone, Goto, queueVars
<1>2. pc'[Recovery] \in DigestSteps \ {"end"} =>
           \/ pc[Recovery] \in DigestSteps \ {"end"} /\ current' = current
           \/ \A n \in pending \cup batch : n.event # current'
  <2>1. CASE Scan \/ ScanDone
    BY <1>d, <2>1 DEF Scan, ScanDone, Goto, DigestSteps
  <2>2. ASSUME NEW e \in Events, Recover(e), inFlight[e] > 0
        PROVE  UNCHANGED <<pc, current>>
    BY <2>2 DEF Recover
  <2>3. ASSUME NEW e \in Events, Recover(e), ~(inFlight[e] > 0)
        PROVE  \A n \in pending \cup batch : n.event # current'
    <3>1. current' = e
      BY <2>3 DEF Recover
    <3> QED
      BY <2>3, <3>1, FreeEvent
  <2> QED
    BY <2>1, <2>2, <2>3 DEF RecoveryStep
<1>3. EntryInv'
  BY <1>d, <1>1, <1>2, EntriesStay
<1> QED
  BY <1>1, <1>3, AccountStays

\* An entry that gets another attempt is still the entry of its run and event.
LEMMA AgainOwned ==
  ASSUME TypeOK, EntryInv,
         NEW again \in SUBSET batch,
         NEW next, next = {[n EXCEPT !.attempts = @ + 1] : n \in again}
  PROVE  /\ \A m \in next : \E n \in again :
              /\ m.by = n.by /\ m.event = n.event
              /\ m = [n EXCEPT !.attempts = @ + 1]
         /\ pending \cap next = {}
         /\ \A e : Owned(next, e) = Owned(again, e)
<1>t. /\ pending \subseteq Entry /\ batch \subseteq Entry
      /\ IsFiniteSet(batch)
  BY DEF TypeOK, QueueTypes
<1>1. \A n \in again : /\ [n EXCEPT !.attempts = @ + 1].by = n.by
                       /\ [n EXCEPT !.attempts = @ + 1].event = n.event
  BY <1>t DEF Entry
<1>2. \A m \in next : \E n \in again :
              /\ m.by = n.by /\ m.event = n.event
              /\ m = [n EXCEPT !.attempts = @ + 1]
  BY <1>1
<1>3. pending \cap next = {}
  BY <1>2 DEF EntryInv
<1>4. ASSUME NEW e
      PROVE  Owned(next, e) = Owned(again, e)
  <2> DEFINE S == {n \in again : n.event = e}
             T == {n \in next : n.event = e}
             f == [n \in S |-> [n EXCEPT !.attempts = @ + 1]]
  <2>1. f \in [S -> T]
    BY <1>1
  <2>2. \A m \in T : \E n \in S : f[n] = m
    BY <1>2
  <2>3. ASSUME NEW m \in S, NEW n \in S, f[m] = f[n]
        PROVE  m = n
    <3>1. /\ f[m].by = m.by /\ f[m].event = m.event
          /\ f[n].by = n.by /\ f[n].event = n.event
      BY <1>1
    <3>2. m \in batch /\ n \in batch /\ m.by = n.by /\ m.event = n.event
      BY <2>3, <3>1
    <3> QED
      BY <3>2 DEF EntryInv
  <2>4. f \in Bijection(S, T)
    BY <2>1, <2>2, <2>3 DEF Bijection, Injection, Surjection, IsInjective
  <2>5. IsFiniteSet(S)
    <3>1. S \in SUBSET batch
      OBVIOUS
    <3> QED
      BY <1>t, <3>1, FS_Subset
  <2>6. Owned(next, e) = Cardinality(T) /\ Owned(again, e) = Cardinality(S)
    BY DEF Owned
  <2> HIDE DEF f, S, T
  <2>7. ExistsBijection(S, T)
    BY <2>4 DEF ExistsBijection
  <2> QED
    BY <2>5, <2>6, <2>7, FS_Bijection
<1> QED
  BY <1>2, <1>3, <1>4

LEMMA AccountCheckpointFails ==
  ASSUME AccountInv, CheckpointFails
  PROVE  EntryInv' /\ ResourcesAccounted'
<1> USE DEF AccountInv
<1> DEFINE again == {n \in batch : n.attempts + 1 < MaxCheckpointAttempts}
           next == {[n EXCEPT !.attempts = @ + 1] : n \in again}
<1>1. /\ pending' = pending \cup next /\ batch' = {}
      /\ \A e \in Events : inFlight'[e] = inFlight[e] - Owned(batch \ again, e)
      /\ UNCHANGED <<pc, current, permits>>
  BY DEF CheckpointFails
<1>2. again \in SUBSET batch
  OBVIOUS
<1>f. IsFiniteSet(pending) /\ IsFiniteSet(batch) /\ IsFiniteSet(again)
      /\ IsFiniteSet(batch \ again) /\ IsFiniteSet(next)
  <2>1. IsFiniteSet(pending) /\ IsFiniteSet(batch)
    BY DEF TypeOK, QueueTypes
  <2>2. IsFiniteSet(next)
    BY AgainType DEF TypeOK
  <2> QED
    BY <2>1, <2>2, FS_Subset
<1>3. /\ \A m \in next : \E n \in again :
           /\ m.by = n.by /\ m.event = n.event
           /\ m = [n EXCEPT !.attempts = @ + 1]
      /\ pending \cap next = {}
      /\ \A e : Owned(next, e) = Owned(again, e)
  BY AgainOwned
<1>g. again \cup (batch \ again) = batch /\ again \cap (batch \ again) = {}
  OBVIOUS
<1> HIDE DEF again, next
<1>4. EntryInv'
  <2>1. \A m \in pending' : \E n \in pending \cup batch : m.by = n.by /\ m.event = n.event
    BY <1>1, <1>2, <1>3
  <2>2. \A m, n \in pending' : m.by = n.by /\ m.event = n.event => m = n
    <3> SUFFICES ASSUME NEW m \in pending', NEW n \in pending',
                        m.by = n.by, m.event = n.event
                 PROVE  m = n
      OBVIOUS
    <3>1. CASE m \in pending /\ n \in pending
      BY <3>1 DEF EntryInv
    <3>2. CASE m \in next /\ n \in next
      BY <1>2, <1>3, <3>2 DEF EntryInv
    <3>3. CASE m \in next /\ n \in pending
      BY <1>2, <1>3, <3>3 DEF EntryInv
    <3>4. CASE m \in pending /\ n \in next
      BY <1>2, <1>3, <3>4 DEF EntryInv
    <3> QED
      BY <1>1, <3>1, <3>2, <3>3, <3>4
  <2>3. \A n \in pending' : n.by \in Deliveries => pc'[n.by] \in {"end", "done"}
    BY <1>1, <2>1 DEF EntryInv
  <2>4. pc'[Recovery] \in DigestSteps \ {"end"} =>
          \A n \in pending' : ~(n.by = Recovery /\ n.event = current')
    BY <1>1, <2>1 DEF EntryInv
  <2> QED
    BY <1>1, <2>2, <2>3, <2>4 DEF EntryInv
<1>5. ASSUME NEW e \in Events
      PROVE  inFlight'[e] = Cardinality(Claimers(e)') + Owned(pending', e) + Owned(batch', e)
  <2>1. Owned(pending', e) = Owned(pending, e) + Owned(again, e)
    BY <1>1, <1>f, <1>3, OwnedUnion
  <2>2. Owned(batch, e) = Owned(again, e) + Owned(batch \ again, e)
    <3>1. Owned(again \cup (batch \ again), e) = Owned(again, e) + Owned(batch \ again, e)
      BY <1>f, <1>g, OwnedUnion
    <3> QED
      BY <1>g, <3>1
  <2>3. inFlight[e] = Cardinality(Claimers(e)) + Owned(pending, e) + Owned(batch, e)
    BY Accounted
  <2>4. Claimers(e)' = Claimers(e) /\ Owned(batch', e) = 0
    BY <1>1, OwnedNone DEF Claimers
  <2>5. /\ Owned(again, e) \in Nat /\ Owned(batch \ again, e) \in Nat
        /\ Owned(pending, e) \in Nat /\ Cardinality(Claimers(e)) \in Nat
    BY <1>f, OwnedType, AccountTypes
  <2> QED
    BY <1>1, <2>1, <2>2, <2>3, <2>4, <2>5
<1>6. permits' + Cardinality(Holders') = MaxProcessing
  <2>1. Holders' = Holders
    BY <1>1 DEF Holders
  <2> QED
    BY <1>1, <2>1, Accounted
<1> QED
  BY <1>4, <1>5, <1>6, AccountedNext

LEMMA AccountWorker ==
  ASSUME AccountInv, WorkerStep
  PROVE  EntryInv' /\ ResourcesAccounted'
<1> USE DEF AccountInv
<1>1. CASE UNCHANGED <<pc, current, inFlight, permits, pending, batch>>
  BY <1>1, EntriesStay, AccountStays
<1>2. CASE TakeBatch /\ pending # {}
  <2>1. /\ batch' = pending /\ pending' = {} /\ batch = {}
        /\ UNCHANGED <<pc, current, inFlight, permits>>
    BY <1>2 DEF TakeBatch, QueueIsServed, runVars
  <2>2. EntryInv'
    BY <2>1 DEF EntryInv
  <2>3. ASSUME NEW e \in Events
        PROVE  inFlight'[e] = Cardinality(Claimers(e)') + Owned(pending', e) + Owned(batch', e)
    <3>1. inFlight[e] = Cardinality(Claimers(e)) + Owned(pending, e) + Owned(batch, e)
      BY Accounted
    <3>2. Claimers(e)' = Claimers(e) /\ Owned(pending', e) = 0 /\ Owned(batch, e) = 0
      BY <2>1, OwnedNone DEF Claimers
    <3> QED
      BY <2>1, <3>1, <3>2, AccountTypes
  <2>4. permits' + Cardinality(Holders') = MaxProcessing
    <3>1. Holders' = Holders
      BY <2>1 DEF Holders
    <3> QED
      BY <2>1, <3>1, Accounted
  <2> QED
    BY <2>2, <2>3, <2>4, AccountedNext
<1>3. CASE ReleaseBatch
  <2>1. /\ batch' = {} /\ UNCHANGED <<pc, current, permits, pending>>
        /\ \A e \in Events : inFlight'[e] = inFlight[e] - Owned(batch, e)
    BY <1>3 DEF ReleaseBatch
  <2>2. EntryInv'
    BY <2>1 DEF EntryInv
  <2>3. ASSUME NEW e \in Events
        PROVE  inFlight'[e] = Cardinality(Claimers(e)') + Owned(pending', e) + Owned(batch', e)
    <3>1. inFlight[e] = Cardinality(Claimers(e)) + Owned(pending, e) + Owned(batch, e)
      BY Accounted
    <3>2. Claimers(e)' = Claimers(e) /\ Owned(batch', e) = 0
      BY <2>1, OwnedNone DEF Claimers
    <3> QED
      BY <2>1, <3>1, <3>2, AccountTypes
  <2>4. permits' + Cardinality(Holders') = MaxProcessing
    <3>1. Holders' = Holders
      BY <2>1 DEF Holders
    <3> QED
      BY <2>1, <3>1, Accounted
  <2> QED
    BY <2>2, <2>3, <2>4, AccountedNext
<1>4. CASE CheckpointFails
  BY <1>4, AccountCheckpointFails
<1> QED
  BY <1>1, <1>2, <1>3, <1>4
  DEF WorkerStep, TakeBatch, CheckpointStarts, CheckpointCompletes, RemoveBatch,
      RemoveBatchFails, runVars

\* With nothing under way nothing is owned.
LEMMA AccountFresh ==
  ASSUME \A c \in Deliveries : pc'[c] \in {"idle", "done"},
         pc'[Recovery] \notin DigestSteps,
         pending' = {}, batch' = {}, permits' = MaxProcessing,
         inFlight' = [e \in Events |-> 0]
  PROVE  EntryInv' /\ ResourcesAccounted'
<1>1. EntryInv'
  BY DEF EntryInv
<1>2. Holders' = {} /\ \A e \in Events : Claimers(e)' = {}
  BY DEF Holders, Claimers, HoldsPermit, HoldsGuard, DigestSteps
<1> QED
  BY <1>1, <1>2, OwnedNone, FS_EmptySet, AccountedNext, LimitsAssumption

LEMMA AccountInit == Init => AccountInv
<1> SUFFICES ASSUME Init PROVE QueueIsServed /\ EntryInv /\ ResourcesAccounted
  BY TypeInit DEF AccountInv
<1>1. QueueIsServed /\ EntryInv
  BY DEF Init, QueueIsServed, EntryInv, DigestSteps, Runs
<1>2. Holders = {} /\ \A e \in Events : Claimers(e) = {}
  BY DEF Init, Holders, Claimers, HoldsPermit, HoldsGuard, DigestSteps, Runs
<1>3. \A e \in Events : inFlight[e] = Cardinality(Claimers(e))
                                        + Owned(pending, e) + Owned(batch, e)
  BY <1>2, OwnedNone, FS_EmptySet DEF Init
<1>4. permits + Cardinality(Holders) = MaxProcessing
  BY <1>2, FS_EmptySet, LimitsAssumption DEF Init
<1>5. ResourcesAccounted
  BY <1>3, <1>4, TypeInit, Accounted
<1> QED
  BY <1>1, <1>5

LEMMA AccountStep == AccountInv /\ [Next]_vars => AccountInv'
<1> SUFFICES ASSUME AccountInv, [Next]_vars PROVE EntryInv' /\ ResourcesAccounted'
  BY TypeStep, QueueStep DEF AccountInv
<1>t. TypeOK'
  BY TypeStep DEF AccountInv
<1>1. CASE Restart
  BY <1>1, AccountFresh DEF Restart, Runs, DigestSteps
<1>2. CASE NextWindow \/ UNCHANGED vars
  <2>1. UNCHANGED <<pc, current, inFlight, permits, pending, batch>>
    BY <1>2 DEF NextWindow, vars, runVars, queueVars
  <2> QED
    BY <2>1, EntriesStay, AccountStays DEF AccountInv
<1> QED
  BY <1>t, <1>1, <1>2, AccountDelivery, AccountDigest, AccountRecovery, AccountWorker
  DEF Next, Kill, PowerLoss

\* The in-flight registry counts each task and each queue entry that owns an
\* event, and each slot is free or held by a digest, through hang-ups, failures,
\* retries and crashes: no claim and no slot leaks or is given back twice.
THEOREM ResourcesNeverLeak == Spec => []ResourcesAccounted
  BY AccountInit, AccountStep, PTL DEF Spec, AccountInv
=============================================================================
