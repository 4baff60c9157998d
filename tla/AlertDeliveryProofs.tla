------------------------- MODULE AlertDeliveryProofs -------------------------
(***************************************************************************)
(* Proofs about AlertDelivery, for any number of digests, channels, faults *)
(* and edits: two senders never wait for one delivery as long as a digest's *)
(* batch fits into its lease, and the cooldown drops an alert only for      *)
(* another one.                                                            *)
(***************************************************************************)
EXTENDS AlertDelivery, FiniteSetTheorems, TLAPS

\* A delivery that has no row yet has used up no attempt.
UntriedWithoutRow == \A k \in Keys : status[k] = "none" => attempts[k] = 0

TypeInv == TypeOK /\ UntriedWithoutRow

LEMMA TypeInit == Init => TypeInv
<1> SUFFICES ASSUME Init PROVE TypeInv
  OBVIOUS
<1> QED
  BY AlertAssumption DEF Init, TypeOK, Toggle, TypeInv, UntriedWithoutRow

LEMMA LessIsNat == \A t \in Nat : Less(t) \in Nat /\ Less(t) <= t
  BY DEF Less

LEMMA TypeStep == TypeInv /\ [Next]_vars => TypeOK'
<1> SUFFICES ASSUME TypeOK, UntriedWithoutRow, [Next]_vars PROVE TypeOK'
  BY DEF TypeInv
<1>a. /\ MaxAttempts \in Nat \ {0} /\ SendTime \in Nat \ {0} /\ Lease \in Nat \ {0}
      /\ Cooldown \in Nat /\ MaxMishaps \in Nat /\ MaxEdits \in Nat
      /\ Backoff \in [1..MaxAttempts -> Nat \ {0}]
  BY AlertAssumption
<1>m. Mishap => mishaps' \in 0..MaxMishaps
  BY <1>a DEF Mishap, TypeOK
<1> USE DEF TypeOK, ruleVars, rowVars, runVars, sendVars, envVars, historyVars
<1>1. ASSUME NEW r \in Digests, Check(r) PROVE TypeOK'
  <2>1. {c \in linked : integration[c] = "on"} \in SUBSET Channels
    OBVIOUS
  <2>2. listed' \in [Digests -> SUBSET Channels]
    BY <1>1, <2>1 DEF Check
  <2> QED
    BY <1>1, <2>2 DEF Check
<1>2. ASSUME NEW r \in Digests, Load(r) PROVE TypeOK'
  BY <1>2 DEF Load
<1>3. ASSUME NEW r \in Digests, Record(r) PROVE TypeOK'
  <2>1. pc' \in [Digests -> {"check", "load", "record", "done"}]
    BY <1>3 DEF Record
  <2>2. cool' \in 0..(Cooldown + 1)
    BY <1>3, <1>a DEF Record
  <2>3. /\ status' \in [Keys -> {"none", "pending", "sent", "failed", "skipped"}]
        /\ \A k \in Keys : status'[k] = "pending" => attempts[k] < MaxAttempts
    <3> DEFINE new == {k \in {EventOf[r]} \X listed[r] : status[k] = "none"}
    <3>1. CASE UNCHANGED status
      BY <3>1
    <3>2. CASE status' = [k \in Keys |-> IF k \in new THEN "skipped" ELSE status[k]]
      BY <3>2
    <3>3. CASE status' = [k \in Keys |-> IF k \in new THEN "pending" ELSE status[k]]
      BY <3>3, <1>a DEF UntriedWithoutRow
    <3> QED
      BY <1>3, <3>1, <3>2, <3>3 DEF Record
  <2>4. due' \in [Keys -> Nat]
    <3> DEFINE new == {k \in {EventOf[r]} \X listed[r] : status[k] = "none"}
    <3>1. UNCHANGED due \/ due' = [k \in Keys |-> IF k \in new THEN Lease ELSE due[k]]
      BY <1>3 DEF Record
    <3> HIDE DEF new
    <3> QED
      BY <3>1, <1>a
  <2>5. work' \in [Senders -> SUBSET Job]
    <3> DEFINE new == {k \in {EventOf[r]} \X listed[r] : status[k] = "none"}
    <3>1. new \subseteq Keys
      BY DEF Keys, Events
    <3>2. \A k \in new : [key |-> k, attempts |-> 0] \in Job
      BY <3>1, <1>a DEF Job
    <3>3. UNCHANGED work
            \/ work' = [work EXCEPT ![r] = {[key |-> k, attempts |-> 0] : k \in new}]
      BY <1>3 DEF Record
    <3> HIDE DEF new
    <3> QED
      BY <3>2, <3>3
  <2> QED
    BY <1>3, <2>1, <2>2, <2>3, <2>4, <2>5 DEF Record
<1>4. ASSUME NEW r \in Digests, RecordFails(r) PROVE TypeOK'
  BY <1>4, <1>m DEF RecordFails
<1>5. CASE Claim
  <2> DEFINE claimed == {k \in Keys : Due(k)}
  <2>1. \A k \in claimed : [key |-> k, attempts |-> attempts[k]] \in Job
    BY <1>a DEF Due, Job
  <2>2. work' = [work EXCEPT ![Worker] =
                   {[key |-> k, attempts |-> attempts[k]] : k \in claimed}]
        /\ due' = [k \in Keys |-> IF k \in claimed THEN Lease ELSE due[k]]
    BY <1>5 DEF Claim
  <2>b. {[key |-> k, attempts |-> attempts[k]] : k \in claimed} \in SUBSET Job
    BY <2>1
  <2> HIDE DEF claimed
  <2>3. work' \in [Senders -> SUBSET Job] /\ due' \in [Keys -> Nat]
    BY <2>b, <2>2, <1>a
  <2> QED
    BY <1>5, <2>3 DEF Claim
<1>6. ASSUME NEW s \in Senders, StartSend(s) PROVE TypeOK'
  <2>1. PICK j \in work[s] :
          /\ work' = [work EXCEPT ![s] = @ \ {j}]
          /\ sending' = [sending EXCEPT ![s] = [key |-> j.key, attempts |-> j.attempts,
                                                live |-> integration[j.key[2]] = "on"]]
    BY <1>6 DEF StartSend
  <2>2. j \in Job
    OBVIOUS
  <2>3. [key |-> j.key, attempts |-> j.attempts, live |-> integration[j.key[2]] = "on"] \in Send
    BY <2>2 DEF Job, Send
  <2>4. work' \in [Senders -> SUBSET Job] /\ sending' \in [Senders -> Send \cup {Idle}]
    BY <2>1, <2>3
  <2>5. left' \in [Senders -> 0..SendTime]
    BY <1>6, <1>a DEF StartSend
  <2>6. requests' \in [Keys -> Nat]
    <3>1. PICK i \in work[s] :
            requests' = IF integration[i.key[2]] = "on"
                        THEN [requests EXCEPT ![i.key] = @ + 1] ELSE requests
      BY <1>6 DEF StartSend
    <3>2. i.key \in Keys
      BY DEF Job
    <3> QED
      BY <3>1, <3>2
  <2> QED
    BY <1>6, <2>4, <2>5, <2>6 DEF StartSend
<1>7. ASSUME NEW s \in Senders, SkipUnrouted(s) PROVE TypeOK'
  <2>1. status' \in [Keys -> {"none", "pending", "sent", "failed", "skipped"}]
        /\ \A k \in Keys : status'[k] = "pending" => status[k] = "pending"
    BY <1>7 DEF SkipUnrouted, Job
  <2>2. work' \in [Senders -> SUBSET Job]
    BY <1>7 DEF SkipUnrouted
  <2> QED
    BY <1>7, <2>1, <2>2 DEF SkipUnrouted
<1>l. ASSUME NEW s \in Senders, Answered(s)
      PROVE  sending' \in [Senders -> Send \cup {Idle}] /\ left' \in [Senders -> 0..SendTime]
  BY <1>l, <1>a DEF Answered
<1>8. ASSUME NEW s \in Senders, Succeed(s) PROVE TypeOK'
  <2>1. status' = [status EXCEPT ![sending[s].key] = "sent"]
    BY <1>8 DEF Succeed
  <2>2. status' \in [Keys -> {"none", "pending", "sent", "failed", "skipped"}]
        /\ \A k \in Keys : status'[k] = "pending" => status[k] = "pending"
    BY <2>1
  <2> QED
    BY <1>8, <1>l, <2>2 DEF Succeed
<1>9. ASSUME NEW s \in Senders, Fail(s) PROVE TypeOK'
  <2> DEFINE k == sending[s].key
             n == sending[s].attempts + 1
  <2>1. sending[s] \in Send
    BY <1>9 DEF Fail
  <2>2. k \in Keys /\ n \in 1..MaxAttempts
    BY <2>1, <1>a DEF Send
  <2>3. /\ attempts' = [attempts EXCEPT ![k] = n]
        /\ \/ n >= MaxAttempts /\ status' = [status EXCEPT ![k] = "failed"] /\ UNCHANGED due
           \/ /\ n < MaxAttempts /\ status' = [status EXCEPT ![k] = "pending"]
              /\ due' = [due EXCEPT ![k] = Backoff[n]]
    BY <1>9, <2>2, <1>a DEF Fail
  <2>4. UNCHANGED <<ruleVars, runVars, work, envVars, historyVars>> /\ Answered(s)
    BY <1>9 DEF Fail
  <2> HIDE DEF k, n
  <2>5. attempts' \in [Keys -> 0..MaxAttempts]
    BY <2>2, <2>3, <1>a
  <2>6. due' \in [Keys -> Nat] 
    BY <2>2, <2>3, <1>a
  <2>7. /\ status' \in [Keys -> {"none", "pending", "sent", "failed", "skipped"}]
        /\ \A x \in Keys : status'[x] = "pending" => attempts'[x] < MaxAttempts
    BY <2>2, <2>3, <1>a
  <2> QED
    BY <2>4, <2>5, <2>6, <2>7, <1>l
<1>10. ASSUME NEW s \in Senders, Unrecorded(s) PROVE TypeOK'
  <2>1. unwritten' \in [Keys -> Nat]
    <3>1. sending[s].key \in Keys
      BY <1>10 DEF Unrecorded, Send
    <3>2. UNCHANGED unwritten \/ unwritten' = [unwritten EXCEPT ![sending[s].key] = @ + 1]
      BY <1>10 DEF Unrecorded
    <3> QED
      BY <3>1, <3>2
  <2> QED
    BY <1>10, <1>l, <1>m, <2>1 DEF Unrecorded
<1>11. CASE WorkerGivesUp
  BY <1>11, <1>m DEF WorkerGivesUp
<1>12. CASE Tick
  <2>1. due' \in [Keys -> Nat] /\ left' \in [Senders -> 0..SendTime] /\ cool' \in 0..(Cooldown + 1)
    BY <1>12, <1>a, LessIsNat DEF Tick, Less
  <2> QED
    BY <1>12, <2>1 DEF Tick
<1>13. CASE SetRule \/ SetIntegration
  <2>1. edits' \in 0..MaxEdits
    BY <1>13, <1>a DEF SetRule, SetIntegration, Edit
  <2>2. rule' \in Toggle /\ linked' \subseteq Channels
    BY <1>13 DEF SetRule, SetIntegration, Toggle
  <2>3. integration' \in [Channels -> Toggle]
    BY <1>13 DEF SetRule, SetIntegration
  <2> QED
    BY <1>13, <2>1, <2>2, <2>3 DEF SetRule, SetIntegration, Edit
<1>14. CASE Kill
  <2>1. IsFiniteSet(Senders)
    BY AlertAssumption, FS_AddElement DEF Senders
  <2>2. ASSUME NEW k \in Keys
        PROVE  Cardinality({s \in Senders : WaitsFor(s, k) /\ sending[s].live}) \in Nat
    BY <2>1, FS_Subset, FS_CardinalityType
  <2>3. unwritten' \in [Keys -> Nat]
    BY <1>14, <2>2 DEF Kill
  <2> QED
    BY <1>14, <1>m, <1>a, <2>3 DEF Kill
<1>15. CASE UNCHANGED vars
  BY <1>15 DEF vars
<1> QED
  BY <1>1, <1>2, <1>3, <1>4, <1>5, <1>6, <1>7, <1>8, <1>9, <1>10, <1>11, <1>12,
     <1>13, <1>14, <1>15 DEF Next, DigestStep, SenderStep

LEMMA UntriedStep == TypeInv /\ [Next]_vars => UntriedWithoutRow'
<1> SUFFICES ASSUME TypeOK, UntriedWithoutRow, [Next]_vars,
                    NEW k \in Keys, status'[k] = "none"
             PROVE  attempts'[k] = 0
  BY DEF TypeInv, UntriedWithoutRow
<1> USE DEF TypeOK, ruleVars, rowVars, runVars, sendVars, envVars, historyVars
<1>1. CASE \E s \in Senders : Fail(s)
  <2>1. PICK s \in Senders : Fail(s)
    BY <1>1
  <2>2. sending[s].key \in Keys
    BY <2>1 DEF Fail, Send
  <2>3. k # sending[s].key
    BY <2>1, <2>2 DEF Fail
  <2>4. status'[k] = status[k] /\ attempts'[k] = attempts[k]
    BY <2>1, <2>2, <2>3 DEF Fail
  <2> QED
    BY <2>4 DEF UntriedWithoutRow
<1>2. CASE \E r \in Digests : Record(r)
  BY <1>2 DEF Record, UntriedWithoutRow
<1>3. CASE \E s \in Senders : SkipUnrouted(s) \/ Succeed(s)
  BY <1>3 DEF SkipUnrouted, Succeed, UntriedWithoutRow
<1>4. CASE ~\E s \in Senders : Fail(s) \/ SkipUnrouted(s) \/ Succeed(s)
  <2>1. CASE ~\E r \in Digests : Record(r)
    BY <1>4, <2>1
    DEF Next, DigestStep, SenderStep, Check, Load, RecordFails, Claim, StartSend,
        Unrecorded, WorkerGivesUp, Tick, SetRule, SetIntegration, Edit, Kill, vars,
        UntriedWithoutRow
  <2> QED
    BY <2>1, <1>2
<1> QED
  BY <1>1, <1>2, <1>3, <1>4

LEMMA TypeAlways == Spec => []TypeInv
  BY TypeInit, TypeStep, UntriedStep, PTL DEF Spec, TypeInv

\* The rows, timers and senders keep their types, and a row that is pending has
\* attempts left: claim_due_retries never passes one over for good.
THEOREM AlertTypeCorrect == Spec => []TypeOK
  BY TypeAlways, PTL DEF TypeInv

-----------------------------------------------------------------------------
(* Who has a delivery *)

\* The sender s has the delivery k still to send, or waits for its answer.
Holds(s, k) == (\E j \in work[s] : j.key = k) \/ WaitsFor(s, k)

HeldIsPending ==
  \A s \in Senders, k \in Keys : Holds(s, k) => status[k] = "pending"

\* A job is as new as its row, and never one already being sent.
JobsAreNew ==
  \A s \in Senders : \A j \in work[s] :
    j.attempts = attempts[j.key] /\ ~WaitsFor(s, j.key)

HeldByOne ==
  \A s, other \in Senders, k \in Keys : Holds(s, k) /\ Holds(other, k) => s = other

\* A digest leaves nothing to dispatch before it has recorded its deliveries.
NothingBeforeRecord ==
  \A r \in Digests : pc[r] # "done" => work[r] = {} /\ sending[r] = Idle

HeldInv == HeldIsPending /\ JobsAreNew /\ HeldByOne /\ NothingBeforeRecord

\* How long a digest's dispatch may still take.
Remaining(r) == Cardinality(work[r]) * SendTime + IF sending[r] = Idle THEN 0 ELSE left[r]

\* That is less than what is left of the lease of each delivery it holds.
LeasedRows(r) ==
  /\ IsFiniteSet(work[r])
  /\ \A k \in Keys : Holds(r, k) => due[k] > Remaining(r)

Leased == \A r \in Digests : LeasedRows(r)

LEMMA JobType ==
  ASSUME TypeOK, NEW s \in Senders, NEW j \in work[s]
  PROVE  j \in Job /\ j.key \in Keys
BY DEF TypeOK, Job

LEMMA DigestsSend == Digests \subseteq Senders /\ Worker \in Senders /\ Worker \notin Digests
BY AlertAssumption DEF Senders

\* Nobody holds what has no row.
LEMMA NewIsFree ==
  ASSUME HeldIsPending, NEW k \in Keys, status[k] = "none", NEW s \in Senders
  PROVE  ~Holds(s, k)
BY DEF HeldIsPending

\* What a digest holds is not due.
LEMMA HeldIsNotDue ==
  ASSUME TypeOK, Leased, NEW r \in Digests, NEW k \in Keys, Holds(r, k)
  PROVE  ~Due(k)
<1>1. Remaining(r) >= 0
  <2>1. Cardinality(work[r]) \in Nat /\ SendTime \in Nat /\ left[r] \in Nat
    BY DigestsSend, FS_CardinalityType, AlertAssumption DEF Leased, LeasedRows, TypeOK
  <2> QED
    BY <2>1 DEF Remaining
<1>2. due[k] > Remaining(r) /\ due[k] \in Nat /\ Remaining(r) \in Int
  <2>1. Cardinality(work[r]) \in Nat /\ SendTime \in Nat /\ left[r] \in Nat
    BY DigestsSend, FS_CardinalityType, AlertAssumption DEF Leased, LeasedRows, TypeOK
  <2> QED
    BY <2>1 DEF Leased, LeasedRows, TypeOK, Remaining
<1> QED
  BY <1>1, <1>2 DEF Due

-----------------------------------------------------------------------------
\* Steps that move no delivery.
LEMMA HeldQuiet ==
  ASSUME TypeInv, HeldInv, UNCHANGED <<work, sending, attempts>>,
         \A k \in Keys : status[k] # "none" => status'[k] = status[k],
         \A r \in Digests : pc[r] = "done" => pc'[r] = "done"
  PROVE  HeldInv'
BY DEF HeldInv, HeldIsPending, JobsAreNew, HeldByOne, NothingBeforeRecord, Holds, WaitsFor

LEMMA HeldRecord ==
  ASSUME TypeInv, HeldInv, NEW r \in Digests, Record(r)
  PROVE  HeldInv'
<1> DEFINE new == {k \in {EventOf[r]} \X listed[r] : status[k] = "none"}
<1> USE DEF TypeOK, TypeInv
<1>1. CASE UNCHANGED work
  <2>1. \A k \in Keys : status[k] # "none" => status'[k] = status[k]
    <3>1. \/ UNCHANGED status
          \/ status' = [k \in Keys |-> IF k \in new THEN "pending" ELSE status[k]]
          \/ status' = [k \in Keys |-> IF k \in new THEN "skipped" ELSE status[k]]
      BY DEF Record
    <3> QED
      BY <3>1
  <2>2. \A x \in Digests : pc[x] = "done" => pc'[x] = "done"
    BY DEF Record
  <2> QED
    BY <1>1, <2>1, <2>2, HeldQuiet DEF Record
<1>2. CASE ~UNCHANGED work
  <2>1. /\ status' = [k \in Keys |-> IF k \in new THEN "pending" ELSE status[k]]
        /\ work' = [work EXCEPT ![r] = {[key |-> k, attempts |-> 0] : k \in new}]
        /\ pc' = [pc EXCEPT ![r] = "done"]
        /\ UNCHANGED <<sending, attempts>>
    BY <1>2 DEF Record
  <2>2. r \in Senders /\ \A s \in Senders : s # r => work'[s] = work[s]
    BY <2>1, DigestsSend
  <2>3. work'[r] = {[key |-> k, attempts |-> 0] : k \in new}
    BY <2>1, <2>2
  <2>4. \A k \in new : status[k] = "none"
    OBVIOUS
  <2> HIDE DEF new
  <2>5. \A s \in Senders, k \in Keys : Holds(s, k)' => Holds(s, k) \/ (s = r /\ k \in new)
    BY <2>1, <2>2, <2>3 DEF Holds, WaitsFor
  <2>6. \A s \in Senders, k \in Keys : k \in new => ~Holds(s, k)
    BY <2>4, NewIsFree DEF HeldInv
  <2>7. HeldIsPending'
    BY <2>1, <2>5 DEF HeldInv, HeldIsPending
  <2>8. HeldByOne'
    BY <2>5, <2>6 DEF HeldInv, HeldByOne
  <2>9. JobsAreNew'
    <3> SUFFICES ASSUME NEW s \in Senders, NEW j \in work'[s]
                 PROVE  j.attempts = attempts[j.key] /\ ~WaitsFor(s, j.key)
      BY <2>1 DEF JobsAreNew, WaitsFor
    <3>1. CASE s # r
      BY <3>1, <2>2 DEF HeldInv, JobsAreNew
    <3>2. CASE s = r
      <4>1. PICK k \in new : j = [key |-> k, attempts |-> 0]
        BY <3>2, <2>3
      <4>2. k \in Keys
        BY <4>1, <2>4 DEF new, Keys, Events
      <4>3. attempts[k] = 0 /\ ~Holds(s, k)
        BY <4>1, <4>2, <2>4, <2>6 DEF UntriedWithoutRow
      <4> QED
        BY <4>1, <4>3 DEF Holds
    <3> QED
      BY <3>1, <3>2
  <2>10. NothingBeforeRecord'
    <3> SUFFICES ASSUME NEW x \in Digests, pc'[x] # "done"
                 PROVE  work'[x] = {} /\ sending'[x] = Idle
      BY DEF NothingBeforeRecord
    <3>1. x # r /\ pc[x] # "done"
      BY <2>1
    <3> QED
      BY <3>1, <2>1, <2>2, DigestsSend DEF HeldInv, NothingBeforeRecord
  <2> QED
    BY <2>7, <2>8, <2>9, <2>10 DEF HeldInv
<1> QED
  BY <1>1, <1>2

LEMMA HeldClaim ==
  ASSUME TypeInv, HeldInv, Leased, Claim
  PROVE  HeldInv'
<1> DEFINE claimed == {k \in Keys : Due(k)}
<1> USE DEF TypeOK, TypeInv
<1>1. /\ work[Worker] = {} /\ sending[Worker] = Idle
      /\ work' = [work EXCEPT ![Worker] = {[key |-> k, attempts |-> attempts[k]] : k \in claimed}]
      /\ UNCHANGED <<sending, attempts, status, pc>>
  BY DEF Claim, runVars
<1>2. \A k \in claimed : k \in Keys /\ Due(k)
  OBVIOUS
<1> HIDE DEF claimed
<1>3. /\ work'[Worker] = {[key |-> k, attempts |-> attempts[k]] : k \in claimed}
      /\ \A s \in Senders : s # Worker => work'[s] = work[s]
  BY <1>1, DigestsSend
<1>4. \A s \in Senders, k \in Keys : Holds(s, k)' => Holds(s, k) \/ (s = Worker /\ k \in claimed)
  BY <1>1, <1>3 DEF Holds, WaitsFor
<1>5. \A s \in Senders, k \in Keys : k \in claimed => ~Holds(s, k)
  <2> SUFFICES ASSUME NEW s \in Senders, NEW k \in Keys, k \in claimed, Holds(s, k)
               PROVE  FALSE
    OBVIOUS
  <2>1. CASE s \in Digests
    BY <2>1, <1>2, HeldIsNotDue
  <2>2. CASE s = Worker
    BY <2>2, <1>1 DEF Holds, WaitsFor
  <2> QED
    BY <2>1, <2>2 DEF Senders
<1>6. HeldIsPending'
  BY <1>1, <1>2, <1>4 DEF HeldInv, HeldIsPending, Due
<1>7. HeldByOne'
  BY <1>4, <1>5 DEF HeldInv, HeldByOne
<1>8. JobsAreNew'
  <2> SUFFICES ASSUME NEW s \in Senders, NEW j \in work'[s]
               PROVE  j.attempts = attempts[j.key] /\ ~WaitsFor(s, j.key)
    BY <1>1 DEF JobsAreNew, WaitsFor
  <2>1. CASE s # Worker
    BY <2>1, <1>3 DEF HeldInv, JobsAreNew
  <2>2. CASE s = Worker
    BY <2>2, <1>1, <1>3 DEF WaitsFor
  <2> QED
    BY <2>1, <2>2
<1>9. NothingBeforeRecord'
  BY <1>1, <1>3, DigestsSend DEF HeldInv, NothingBeforeRecord
<1> QED
  BY <1>6, <1>7, <1>8, <1>9 DEF HeldInv

\* A sender has one job for a delivery.
LEMMA OneJob ==
  ASSUME TypeOK, JobsAreNew, NEW s \in Senders, NEW i \in work[s], NEW j \in work[s], i.key = j.key
  PROVE  i = j
<1>1. i \in Job /\ j \in Job
  BY JobType
<1>2. i.attempts = j.attempts
  BY DEF JobsAreNew
<1> QED
  BY <1>1, <1>2 DEF Job

LEMMA HeldStart ==
  ASSUME TypeInv, HeldInv, NEW s \in Senders, StartSend(s)
  PROVE  HeldInv'
<1> USE DEF TypeOK, TypeInv
<1>1. PICK j \in work[s] :
        /\ work' = [work EXCEPT ![s] = @ \ {j}]
        /\ sending' = [sending EXCEPT ![s] = [key |-> j.key, attempts |-> j.attempts,
                                              live |-> integration[j.key[2]] = "on"]]
  BY DEF StartSend
<1>2. sending[s] = Idle /\ UNCHANGED <<status, attempts, pc>>
  BY DEF StartSend, rowVars, runVars
<1>3. /\ work'[s] = work[s] \ {j} /\ sending'[s].key = j.key
      /\ \A t \in Senders : t # s => work'[t] = work[t] /\ sending'[t] = sending[t]
  BY <1>1
<1>4. \A t \in Senders, k \in Keys : Holds(t, k)' => Holds(t, k)
  BY <1>3 DEF Holds, WaitsFor
<1>5. HeldIsPending' /\ HeldByOne'
  BY <1>2, <1>4 DEF HeldInv, HeldIsPending, HeldByOne
<1>6. JobsAreNew'
  <2> SUFFICES ASSUME NEW t \in Senders, NEW i \in work'[t]
               PROVE  i.attempts = attempts[i.key] /\ ~(sending'[t] # Idle /\ sending'[t].key = i.key)
    BY <1>2 DEF JobsAreNew, WaitsFor
  <2>1. CASE t # s
    BY <2>1, <1>3 DEF HeldInv, JobsAreNew, WaitsFor
  <2>2. CASE t = s
    <3>1. i \in work[s] /\ i # j
      BY <2>2, <1>3
    <3>2. i.key # j.key
      BY <3>1, OneJob DEF HeldInv
    <3> QED
      BY <3>1, <3>2, <2>2, <1>3 DEF HeldInv, JobsAreNew
  <2> QED
    BY <2>1, <2>2
<1>7. NothingBeforeRecord'
  <2>1. \A r \in Digests : pc[r] # "done" => r # s
    BY DEF HeldInv, NothingBeforeRecord
  <2> QED
    BY <2>1, <1>2, <1>3, DigestsSend DEF HeldInv, NothingBeforeRecord
<1> QED
  BY <1>5, <1>6, <1>7 DEF HeldInv

\* What a step does that lets go of a delivery and changes its row only.
Drops(s, key) ==
  /\ \A t \in Senders : work'[t] \subseteq work[t] /\ sending'[t] \in {sending[t], Idle}
  /\ \A t \in Senders : t # s => work'[t] = work[t] /\ sending'[t] = sending[t]
  /\ \A t \in Senders, k \in Keys : Holds(t, k)' => Holds(t, k) /\ k # key
  /\ \A k \in Keys : k # key => status'[k] = status[k] /\ attempts'[k] = attempts[k]
                               /\ due'[k] = due[k]
  /\ UNCHANGED pc

LEMMA HeldDrop ==
  ASSUME TypeInv, HeldInv, NEW s \in Senders, NEW key \in Keys, Drops(s, key)
  PROVE  HeldInv'
<1> USE DEF TypeOK, TypeInv
<1>1. HeldIsPending' /\ HeldByOne'
  BY DEF HeldInv, HeldIsPending, HeldByOne, Drops
<1>2. JobsAreNew'
  <2> SUFFICES ASSUME NEW t \in Senders, NEW j \in work'[t]
               PROVE  j.attempts = attempts'[j.key] /\ ~(sending'[t] # Idle /\ sending'[t].key = j.key)
    BY DEF JobsAreNew, WaitsFor
  <2>1. j \in work[t] /\ j.key \in Keys
    BY JobType DEF Drops
  <2>2. j.key # key
    BY <2>1 DEF Drops, Holds
  <2> QED
    BY <2>1, <2>2 DEF Drops, HeldInv, JobsAreNew, WaitsFor
<1>3. NothingBeforeRecord'
  BY DigestsSend DEF Drops, HeldInv, NothingBeforeRecord
<1> QED
  BY <1>1, <1>2, <1>3 DEF HeldInv

\* An outcome, written or not, lets go of the delivery it is the outcome of.
LEMMA AnswerDrops ==
  ASSUME TypeInv, HeldInv, NEW s \in Senders, Succeed(s) \/ Fail(s) \/ Unrecorded(s)
  PROVE  sending[s] \in Send /\ sending[s].key \in Keys /\ Drops(s, sending[s].key)
<1> USE DEF TypeOK, TypeInv
<1>1. sending[s] \in Send /\ sending[s].key \in Keys
  BY DEF Succeed, Fail, Unrecorded, Send
<1> DEFINE key == sending[s].key
<1>2. UNCHANGED <<work, pc>> /\ sending' = [sending EXCEPT ![s] = Idle] /\ sending[s] # Idle
  BY DEF Succeed, Fail, Unrecorded, Answered, runVars
<1>3. \A k \in Keys : k # key => status'[k] = status[k] /\ attempts'[k] = attempts[k]
                                /\ due'[k] = due[k]
  <2>1. CASE Succeed(s)
    BY <2>1, <1>1 DEF Succeed
  <2>2. CASE Fail(s)
    BY <2>2, <1>1 DEF Fail
  <2>3. CASE Unrecorded(s)
    BY <2>3 DEF Unrecorded, rowVars
  <2> QED
    BY <2>1, <2>2, <2>3
<1>4. \A t \in Senders : t # s => sending'[t] = sending[t]
  BY <1>2
<1>5. sending'[s] = Idle
  BY <1>2
<1>6. ASSUME NEW t \in Senders, NEW k \in Keys, Holds(t, k)'
      PROVE  Holds(t, k) /\ k # key
  <2>1. Holds(t, k)
    BY <1>2, <1>4, <1>5, <1>6 DEF Holds, WaitsFor
  <2>2. CASE t = s
    BY <2>2, <1>2, <1>5, <1>6 DEF Holds, WaitsFor, HeldInv, JobsAreNew
  <2>3. CASE t # s
    <3>1. Holds(s, key)
      BY <1>2 DEF Holds, WaitsFor
    <3> QED
      BY <2>1, <2>3, <3>1, <1>1 DEF HeldInv, HeldByOne
  <2> QED
    BY <2>1, <2>2, <2>3
<1> QED
  BY <1>1, <1>2, <1>3, <1>4, <1>5, <1>6 DEF Drops

LEMMA SkipDrops ==
  ASSUME TypeInv, HeldInv, NEW s \in Senders, SkipUnrouted(s)
  PROVE  \E j \in work[s] : /\ j.key \in Keys /\ Drops(s, j.key)
                            /\ work'[s] = work[s] \ {j}
                            /\ status'[j.key] \in {status[j.key], "failed"}
<1> USE DEF TypeOK, TypeInv
<1>1. PICK j \in work[s] :
        /\ work' = [work EXCEPT ![s] = @ \ {j}]
        /\ UNCHANGED status \/ status' = [status EXCEPT ![j.key] = "failed"]
  BY DEF SkipUnrouted
<1>2. UNCHANGED <<sending, pc, attempts, due>> /\ sending[s] = Idle
  BY DEF SkipUnrouted, runVars
<1>3. j \in Job /\ j.key \in Keys
  BY JobType
<1>4. work'[s] = work[s] \ {j} /\ \A t \in Senders : t # s => work'[t] = work[t]
  BY <1>1
<1>5. ASSUME NEW t \in Senders, NEW k \in Keys, Holds(t, k)'
      PROVE  Holds(t, k) /\ k # j.key
  <2>1. Holds(t, k)
    BY <1>2, <1>4, <1>5 DEF Holds, WaitsFor
  <2>2. CASE t = s
    <3>1. PICK i \in work[s] \ {j} : i.key = k
      BY <2>2, <1>2, <1>4, <1>5 DEF Holds, WaitsFor
    <3> QED
      BY <2>1, <3>1, OneJob DEF HeldInv
  <2>3. CASE t # s
    <3>1. Holds(s, j.key)
      BY DEF Holds
    <3> QED
      BY <2>1, <2>3, <3>1, <1>3 DEF HeldInv, HeldByOne
  <2> QED
    BY <2>2, <2>3
<1>6. \A k \in Keys : k # j.key => status'[k] = status[k]
  BY <1>1, <1>3
<1>7. status'[j.key] \in {status[j.key], "failed"}
  BY <1>1, <1>3
<1> QED
  BY <1>1, <1>2, <1>3, <1>4, <1>5, <1>6, <1>7 DEF Drops

LEMMA HeldClears ==
  ASSUME TypeInv, HeldInv, WorkerGivesUp \/ Kill
  PROVE  HeldInv'
<1> USE DEF TypeOK, TypeInv, HeldInv
<1>1. /\ \A s \in Senders : work'[s] \in {work[s], {}} /\ sending'[s] \in {sending[s], Idle}
      /\ UNCHANGED <<status, attempts>>
  BY DEF WorkerGivesUp, Kill, rowVars
<1>2. \A s \in Senders, k \in Keys : Holds(s, k)' => Holds(s, k)
  BY <1>1 DEF Holds, WaitsFor
<1>3. HeldIsPending' /\ HeldByOne'
  BY <1>1, <1>2 DEF HeldIsPending, HeldByOne
<1>4. JobsAreNew'
  BY <1>1 DEF JobsAreNew, WaitsFor
<1>5. NothingBeforeRecord'
  BY DigestsSend DEF NothingBeforeRecord, WorkerGivesUp, Kill, runVars
<1> QED
  BY <1>3, <1>4, <1>5

LEMMA HeldStep == TypeInv /\ HeldInv /\ Leased /\ [Next]_vars => HeldInv'
<1> SUFFICES ASSUME TypeInv, HeldInv, Leased, [Next]_vars PROVE HeldInv'
  OBVIOUS
<1>1. ASSUME NEW r \in Digests, Record(r) PROVE HeldInv'
  BY <1>1, HeldRecord
<1>2. ASSUME NEW r \in Digests, Check(r) \/ Load(r) \/ RecordFails(r) PROVE HeldInv'
  <2>1. UNCHANGED <<work, sending, attempts, status>>
    BY <1>2 DEF Check, Load, RecordFails, sendVars, rowVars
  <2>2. \A x \in Digests : pc[x] = "done" => pc'[x] = "done"
    BY <1>2 DEF Check, Load, RecordFails, TypeInv, TypeOK
  <2> QED
    BY <2>1, <2>2, HeldQuiet
<1>3. CASE Claim
  BY <1>3, HeldClaim
<1>4. ASSUME NEW s \in Senders, StartSend(s) PROVE HeldInv'
  BY <1>4, HeldStart
<1>5. ASSUME NEW s \in Senders, SkipUnrouted(s) PROVE HeldInv'
  BY <1>5, SkipDrops, HeldDrop
<1>6. ASSUME NEW s \in Senders, Succeed(s) \/ Fail(s) \/ Unrecorded(s) PROVE HeldInv'
  BY <1>6, AnswerDrops, HeldDrop
<1>7. CASE WorkerGivesUp \/ Kill
  BY <1>7, HeldClears
<1>8. CASE Tick \/ SetRule \/ SetIntegration \/ UNCHANGED vars
  <2>1. UNCHANGED <<work, sending, attempts, status, pc>>
    BY <1>8 DEF Tick, SetRule, SetIntegration, Edit, vars, sendVars, rowVars, runVars
  <2> QED
    BY <2>1, HeldQuiet
<1> QED
  BY <1>1, <1>2, <1>3, <1>4, <1>5, <1>6, <1>7, <1>8 DEF Next, DigestStep, SenderStep

-----------------------------------------------------------------------------
(* Leases *)

\* A digest's whole batch, each send as slow as it may be, ends before its
\* lease does: RETRY_CLAIM_LEASE_SECS is 120 s and the client's timeout 30 s, so
\* this says that the rule has at most three channels.
LeaseCoversBatch == Lease > Cardinality(Channels) * SendTime

LEMMA Times ==
  /\ \A n \in Nat : n * SendTime \in Nat
  /\ \A n \in Nat : (n - 1) * SendTime = n * SendTime - SendTime
  /\ \A m, n \in Nat : m <= n => m * SendTime <= n * SendTime
<1>1. SendTime \in Nat
  BY AlertAssumption
<1>2. \A n \in Nat : n * SendTime \in Nat
  BY <1>1
<1>3. \A n \in Nat : (n - 1) * SendTime = n * SendTime - SendTime
  BY <1>1
<1>4. \A m, n \in Nat : m <= n => m * SendTime <= n * SendTime
  BY <1>1
<1> QED
  BY <1>2, <1>3, <1>4

LEMMA RemainingType ==
  ASSUME TypeOK, NEW r \in Digests, IsFiniteSet(work[r])
  PROVE  /\ Cardinality(work[r]) \in Nat /\ left[r] \in Nat
         /\ Cardinality(work[r]) * SendTime \in Nat /\ Remaining(r) \in Nat
<1>1. Cardinality(work[r]) \in Nat /\ left[r] \in Nat
  BY DigestsSend, FS_CardinalityType, AlertAssumption DEF TypeOK
<1>2. Cardinality(work[r]) * SendTime \in Nat
  BY <1>1, Times
<1> QED
  BY <1>1, <1>2 DEF Remaining

LEMMA LeasedSame ==
  ASSUME Leased, NEW r \in Digests,
         work'[r] = work[r], sending'[r] = sending[r], left'[r] = left[r],
         \A k \in Keys : Holds(r, k) => due'[k] = due[k]
  PROVE  LeasedRows(r)'
BY DEF Leased, LeasedRows, Remaining, Holds, WaitsFor

LEMMA LeasedRecord ==
  ASSUME LeaseCoversBatch, TypeInv, HeldInv, Leased, NEW r \in Digests, Record(r)
  PROVE  Leased'
<1> DEFINE free == {c \in listed[r] : status[<<EventOf[r], c>>] = "none"}
           new == {k \in {EventOf[r]} \X listed[r] : status[k] = "none"}
<1> USE DEF TypeOK, TypeInv
<1> SUFFICES ASSUME NEW x \in Digests PROVE LeasedRows(x)'
  BY DEF Leased
<1>1. CASE UNCHANGED work
  <2>1. \A k \in Keys : Holds(x, k) => due'[k] = due[k]
    <3> SUFFICES ASSUME NEW k \in Keys, Holds(x, k) PROVE due'[k] = due[k]
      OBVIOUS
    <3>1. k \notin new
      BY DigestsSend, NewIsFree DEF HeldInv
    <3>2. UNCHANGED due \/ due' = [y \in Keys |-> IF y \in new THEN Lease ELSE due[y]]
      BY DEF Record
    <3> QED
      BY <3>1, <3>2
  <2> QED
    BY <1>1, <2>1, LeasedSame DEF Record
<1>2. CASE ~UNCHANGED work
  <2>1. /\ due' = [k \in Keys |-> IF k \in new THEN Lease ELSE due[k]]
        /\ work' = [work EXCEPT ![r] = {[key |-> k, attempts |-> 0] : k \in new}]
        /\ UNCHANGED <<sending, left>> /\ pc[r] = "record"
    BY <1>2 DEF Record
  <2>2. \A k \in new : k \in Keys /\ status[k] = "none"
    BY DEF Keys, Events
  <2>3. CASE x # r
    <3>1. work'[x] = work[x]
      BY <2>1, <2>3
    <3>2. \A k \in Keys : Holds(x, k) => due'[k] = due[k]
      BY <2>1, <2>2, DigestsSend, NewIsFree DEF HeldInv
    <3> QED
      BY <2>1, <3>1, <3>2, LeasedSame
  <2>4. CASE x = r
    <3>1. sending[r] = Idle
      BY <2>1 DEF HeldInv, NothingBeforeRecord
    <3>2. work'[r] = {[key |-> k, attempts |-> 0] : k \in new}
      BY <2>1, DigestsSend
    <3>3. work'[r] = {[key |-> <<EventOf[r], c>>, attempts |-> 0] : c \in free}
      <4>1. \A c \in free : <<EventOf[r], c>> \in new
        OBVIOUS
      <4>2. \A k \in new : \E c \in free : k = <<EventOf[r], c>>
        OBVIOUS
      <4>3. \A c \in free : [key |-> <<EventOf[r], c>>, attempts |-> 0] \in work'[r]
        BY <3>2, <4>1
      <4>4. \A j \in work'[r] : \E k \in new : j = [key |-> k, attempts |-> 0]
        BY <3>2
      <4> HIDE DEF new, free
      <4>5. \A j \in work'[r] : \E c \in free : j = [key |-> <<EventOf[r], c>>, attempts |-> 0]
        BY <4>2, <4>4
      <4> QED
        BY <4>3, <4>5
    <3>4. IsFiniteSet(Channels) /\ free \subseteq Channels
      BY AlertAssumption
    <3>5. IsFiniteSet(free) /\ Cardinality(free) <= Cardinality(Channels)
      BY <3>4, FS_Subset
    <3>6. IsFiniteSet(work'[r]) /\ Cardinality(work'[r]) <= Cardinality(free)
      <4> DEFINE job == [c \in free |-> [key |-> <<EventOf[r], c>>, attempts |-> 0]]
      <4>1. job \in Surjection(free, work'[r])
        BY <3>3 DEF Surjection
      <4> QED
        BY <3>5, <4>1, FS_Surjection
    <3>7. /\ Cardinality(work'[r]) \in Nat /\ Cardinality(free) \in Nat
          /\ Cardinality(Channels) \in Nat
      BY <3>4, <3>5, <3>6, FS_CardinalityType
    <3>8. Cardinality(work'[r]) * SendTime <= Cardinality(Channels) * SendTime
      BY <3>5, <3>6, <3>7, Times
    <3>9. /\ Cardinality(work'[r]) * SendTime \in Nat
          /\ Cardinality(Channels) * SendTime \in Nat /\ Lease \in Nat
      BY <3>7, Times, AlertAssumption
    <3>10. Remaining(r)' = Cardinality(work'[r]) * SendTime
      BY <2>1, <3>1, <3>9 DEF Remaining
    <3>11. ASSUME NEW k \in Keys, Holds(r, k)'
           PROVE  due'[k] > Remaining(r)'
      <4>1. k \in new
        BY <2>1, <3>1, <3>2, <3>11 DEF Holds, WaitsFor
      <4>2. due'[k] = Lease
        BY <2>1, <4>1
      <4> QED
        BY <4>2, <3>8, <3>9, <3>10 DEF LeaseCoversBatch
    <3> QED
      BY <2>4, <3>6, <3>11 DEF LeasedRows
  <2> QED
    BY <2>3, <2>4
<1> QED
  BY <1>1, <1>2

\* Letting go of a delivery leaves a digest no more to wait for.
LEMMA LeasedDrop ==
  ASSUME TypeInv, HeldInv, Leased, NEW s \in Senders, NEW key \in Keys, Drops(s, key),
         sending'[s] = Idle, \A t \in Senders : t # s => left'[t] = left[t]
  PROVE  Leased'
<1> USE DEF TypeOK, TypeInv
<1> SUFFICES ASSUME NEW r \in Digests PROVE LeasedRows(r)'
  BY DEF Leased
<1>0. r \in Senders
  BY DigestsSend
<1>1. IsFiniteSet(work[r]) /\ work'[r] \subseteq work[r]
  BY <1>0 DEF Leased, LeasedRows, Drops
<1>2. IsFiniteSet(work'[r]) /\ Cardinality(work'[r]) <= Cardinality(work[r])
  BY <1>1, FS_Subset
<1>3. Cardinality(work'[r]) \in Nat /\ Cardinality(work[r]) \in Nat
  BY <1>1, <1>2, FS_CardinalityType
<1>4. Cardinality(work'[r]) * SendTime <= Cardinality(work[r]) * SendTime
  BY <1>2, <1>3, Times
<1>5. Cardinality(work'[r]) * SendTime \in Nat /\ Cardinality(work[r]) * SendTime \in Nat
  BY <1>3, Times
<1>6. left[r] \in Nat
  BY <1>0, AlertAssumption
<1>7. Remaining(r)' <= Remaining(r) /\ Remaining(r)' \in Nat /\ Remaining(r) \in Nat
  <2>1. CASE r = s
    BY <2>1, <1>4, <1>5, <1>6 DEF Remaining
  <2>2. CASE r # s
    <3>1. sending'[r] = sending[r] /\ left'[r] = left[r] /\ work'[r] = work[r]
      BY <1>0, <2>2 DEF Drops
    <3> QED
      BY <3>1, <1>5, <1>6 DEF Remaining
  <2> QED
    BY <2>1, <2>2
<1>8. ASSUME NEW k \in Keys, Holds(r, k)'
      PROVE  due'[k] > Remaining(r)'
  <2>1. Holds(r, k) /\ due'[k] = due[k]
    BY <1>0, <1>8 DEF Drops
  <2>2. due[k] > Remaining(r) /\ due[k] \in Nat
    BY <2>1 DEF Leased, LeasedRows
  <2> QED
    BY <1>7, <2>1, <2>2
<1> QED
  BY <1>2, <1>8 DEF LeasedRows

\* A send begins within the time its batch was counted for.
LEMMA LeasedStart ==
  ASSUME TypeInv, HeldInv, Leased, NEW s \in Senders, StartSend(s)
  PROVE  Leased'
<1> USE DEF TypeOK, TypeInv
<1> SUFFICES ASSUME NEW r \in Digests PROVE LeasedRows(r)'
  BY DEF Leased
<1>1. PICK j \in work[s] :
        /\ work' = [work EXCEPT ![s] = @ \ {j}]
        /\ sending' = [sending EXCEPT ![s] = [key |-> j.key, attempts |-> j.attempts,
                                              live |-> integration[j.key[2]] = "on"]]
  BY DEF StartSend
<1>2. /\ sending[s] = Idle /\ UNCHANGED due /\ left' = [left EXCEPT ![s] = SendTime]
  BY DEF StartSend, rowVars
<1>3. CASE r # s
  BY <1>1, <1>2, <1>3, DigestsSend, LeasedSame
<1>4. CASE r = s
  <2>1. /\ work'[r] = work[r] \ {j} /\ left'[r] = SendTime /\ sending[r] = Idle
        /\ sending'[r] = [key |-> j.key, attempts |-> j.attempts,
                          live |-> integration[j.key[2]] = "on"]
    BY <1>1, <1>2, <1>4
  <2>2. /\ IsFiniteSet(work'[r]) /\ IsFiniteSet(work[r])
        /\ Cardinality(work'[r]) = Cardinality(work[r]) - 1
    <3>1. IsFiniteSet(work[r]) /\ j \in work[r]
      BY <1>4 DEF Leased, LeasedRows
    <3>2. IsFiniteSet(work[r] \ {j}) /\ Cardinality(work[r] \ {j}) = Cardinality(work[r]) - 1
      BY <3>1, FS_RemoveElement, FS_Subset
    <3> QED
      BY <2>1, <3>1, <3>2
  <2>3. Cardinality(work[r]) \in Nat /\ Cardinality(work'[r]) \in Nat
    BY <2>2, FS_CardinalityType
  <2>4. Cardinality(work'[r]) * SendTime = Cardinality(work[r]) * SendTime - SendTime
    BY <2>2, <2>3, Times
  <2>5. /\ Cardinality(work'[r]) * SendTime \in Nat /\ Cardinality(work[r]) * SendTime \in Nat
        /\ SendTime \in Nat
    BY <2>3, Times, AlertAssumption
  <2>6. Remaining(r) = Cardinality(work[r]) * SendTime /\ Remaining(r)' <= Remaining(r)
        /\ Remaining(r)' \in Nat
    BY <2>1, <2>4, <2>5 DEF Remaining
  <2>7. ASSUME NEW k \in Keys, Holds(r, k)'
        PROVE  due'[k] > Remaining(r)'
    <3>1. Holds(r, k)
      BY <1>4, <2>1, <2>7 DEF Holds, WaitsFor
    <3>2. due[k] > Remaining(r) /\ due[k] \in Nat
      BY <3>1 DEF Leased, LeasedRows
    <3> QED
      BY <1>2, <2>5, <2>6, <3>2
  <2> QED
    BY <2>2, <2>7 DEF LeasedRows
<1> QED
  BY <1>3, <1>4

\* Time passes for a lease only while its holder waits, and for both alike.
LEMMA LeasedTick ==
  ASSUME TypeInv, Leased, Tick
  PROVE  Leased'
<1> USE DEF TypeOK, TypeInv
<1> SUFFICES ASSUME NEW r \in Digests PROVE LeasedRows(r)'
  BY DEF Leased
<1>0. r \in Senders
  BY DigestsSend
<1>1. /\ IF sending[r] = Idle THEN work[r] = {} ELSE left[r] > 0
      /\ due' = [k \in Keys |-> Less(due[k])] /\ left' = [t \in Senders |-> Less(left[t])]
      /\ work' = work /\ sending' = sending
  BY <1>0 DEF Tick
<1>2. /\ IsFiniteSet(work[r]) /\ Remaining(r) \in Nat /\ left[r] \in Nat
      /\ Cardinality(work[r]) * SendTime \in Nat
  BY RemainingType DEF Leased, LeasedRows
<1>3. ASSUME NEW k \in Keys, Holds(r, k)'
      PROVE  due'[k] > Remaining(r)'
  <2>1. Holds(r, k)
    BY <1>1, <1>3 DEF Holds, WaitsFor
  <2>2. sending[r] # Idle /\ left[r] > 0
    BY <1>1, <2>1 DEF Holds, WaitsFor
  <2>3. due[k] > Remaining(r) /\ due[k] \in Nat
    BY <2>1 DEF Leased, LeasedRows
  <2>4. Remaining(r)' = Remaining(r) - 1
    <3>1. left'[r] = left[r] - 1
      BY <1>0, <1>1, <1>2, <2>2 DEF Less
    <3>2. work'[r] = work[r] /\ sending'[r] # Idle
      BY <1>1, <2>2
    <3> QED
      BY <1>2, <2>2, <3>1, <3>2 DEF Remaining
  <2>5. due'[k] = due[k] - 1
    BY <1>1, <1>2, <2>3 DEF Less
  <2> QED
    BY <1>2, <2>3, <2>4, <2>5
<1> QED
  BY <1>1, <1>2, <1>3 DEF LeasedRows

LEMMA LeasedStep ==
  ASSUME LeaseCoversBatch, TypeInv, HeldInv, Leased, [Next]_vars
  PROVE  Leased'
<1> USE DEF TypeOK, TypeInv
<1>1. ASSUME NEW r \in Digests, Record(r) PROVE Leased'
  BY <1>1, LeasedRecord
<1>2. ASSUME NEW r \in Digests, Check(r) \/ Load(r) \/ RecordFails(r) PROVE Leased'
  <2>1. UNCHANGED <<work, sending, left, due>>
    BY <1>2 DEF Check, Load, RecordFails, sendVars, rowVars
  <2> QED
    BY <2>1, LeasedSame DEF Leased
<1>3. CASE Claim
  <2> SUFFICES ASSUME NEW r \in Digests PROVE LeasedRows(r)'
    BY DEF Leased
  <2>1. work'[r] = work[r] /\ UNCHANGED <<sending, left>>
    BY <1>3, DigestsSend DEF Claim
  <2>2. \A k \in Keys : Holds(r, k) => due'[k] = due[k]
    BY <1>3, HeldIsNotDue DEF Claim
  <2> QED
    BY <2>1, <2>2, LeasedSame
<1>4. ASSUME NEW s \in Senders, StartSend(s) PROVE Leased'
  BY <1>4, LeasedStart
<1>5. ASSUME NEW s \in Senders, SkipUnrouted(s) PROVE Leased'
  <2>1. sending'[s] = Idle /\ UNCHANGED left
    BY <1>5 DEF SkipUnrouted
  <2> QED
    BY <1>5, <2>1, SkipDrops, LeasedDrop
<1>6. ASSUME NEW s \in Senders, Succeed(s) \/ Fail(s) \/ Unrecorded(s) PROVE Leased'
  <2>1. sending'[s] = Idle /\ \A t \in Senders : t # s => left'[t] = left[t]
    BY <1>6 DEF Succeed, Fail, Unrecorded, Answered
  <2> QED
    BY <1>6, <2>1, AnswerDrops, LeasedDrop
<1>7. CASE WorkerGivesUp
  <2> SUFFICES ASSUME NEW r \in Digests PROVE LeasedRows(r)'
    BY DEF Leased
  <2>1. work'[r] = work[r] /\ UNCHANGED <<sending, left, due>>
    BY <1>7, DigestsSend DEF WorkerGivesUp, rowVars
  <2> QED
    BY <2>1, LeasedSame
<1>8. CASE Kill
  <2> SUFFICES ASSUME NEW r \in Digests PROVE LeasedRows(r)'
    BY DEF Leased
  <2>1. work'[r] = {} /\ sending'[r] = Idle
    BY <1>8, DigestsSend DEF Kill
  <2> QED
    BY <2>1, FS_EmptySet DEF LeasedRows, Holds, WaitsFor
<1>9. CASE Tick
  BY <1>9, LeasedTick
<1>10. CASE SetRule \/ SetIntegration \/ UNCHANGED vars
  <2>1. UNCHANGED <<work, sending, left, due>>
    BY <1>10 DEF SetRule, SetIntegration, Edit, vars, sendVars, rowVars
  <2> QED
    BY <2>1, LeasedSame DEF Leased
<1> QED
  BY <1>1, <1>2, <1>3, <1>4, <1>5, <1>6, <1>7, <1>8, <1>9, <1>10
  DEF Next, DigestStep, SenderStep

LEMMA HeldInit == Init => HeldInv /\ Leased
<1> SUFFICES ASSUME Init PROVE HeldInv /\ Leased
  OBVIOUS
<1>1. \A s \in Senders : work[s] = {} /\ sending[s] = Idle
  BY DEF Init
<1>2. \A s \in Senders, k \in Keys : ~Holds(s, k)
  BY <1>1 DEF Holds, WaitsFor
<1>3. HeldInv
  BY <1>1, <1>2, DigestsSend
  DEF HeldInv, HeldIsPending, JobsAreNew, HeldByOne, NothingBeforeRecord
<1> QED
  BY <1>1, <1>2, <1>3, DigestsSend, FS_EmptySet DEF Leased, LeasedRows

LEMMA HeldAlways ==
  ASSUME LeaseCoversBatch
  PROVE  Spec => [](TypeInv /\ HeldInv /\ Leased)
<1>1. TypeInv /\ HeldInv /\ Leased /\ [Next]_vars => (TypeInv /\ HeldInv /\ Leased)'
  BY TypeStep, UntriedStep, HeldStep, LeasedStep DEF TypeInv
<1> QED
  BY <1>1, TypeInit, HeldInit, PTL DEF Spec

-----------------------------------------------------------------------------
(* The requests made for a delivery *)

\* A send is as new as its row.
SendsAreNew ==
  \A s \in Senders : sending[s] # Idle => sending[s].attempts = attempts[sending[s].key]

\* A request made for the delivery k waits for its answer.
InFlight(k) == \E s \in Senders : WaitsFor(s, k) /\ sending[s].live

\* Every request but the one in flight, or the one that settled the row, is an
\* attempt the row counts as failed or one whose outcome was never written.
Accounted(k) ==
  requests[k] <= attempts[k] + unwritten[k]
                 + IF InFlight(k) \/ status[k] = "sent" THEN 1 ELSE 0

CountInv == SendsAreNew /\ \A k \in Keys : Accounted(k)

LEMMA CountTypes ==
  ASSUME TypeOK, NEW k \in Keys
  PROVE  requests[k] \in Nat /\ attempts[k] \in Nat /\ unwritten[k] \in Nat
BY AlertAssumption DEF TypeOK

\* Where a delivery is neither sent nor answered it is enough that its row does
\* not leave "sent".
LEMMA AccountedSame ==
  ASSUME TypeOK, NEW k \in Keys, Accounted(k),
         requests'[k] = requests[k], attempts'[k] = attempts[k], unwritten'[k] = unwritten[k],
         InFlight(k) => InFlight(k)', status[k] = "sent" => status'[k] = "sent"
  PROVE  Accounted(k)'
BY CountTypes DEF Accounted

LEMMA CountSame ==
  ASSUME TypeOK, CountInv, UNCHANGED <<sending, attempts, historyVars>>,
         \A k \in Keys : status[k] = "sent" => status'[k] = "sent"
  PROVE  CountInv'
<1>1. SendsAreNew'
  BY DEF CountInv, SendsAreNew
<1>2. \A k \in Keys : InFlight(k) => InFlight(k)'
  BY DEF InFlight, WaitsFor
<1> QED
  BY <1>1, <1>2, AccountedSame DEF CountInv, historyVars

LEMMA CountStart ==
  ASSUME TypeInv, HeldInv, CountInv, NEW s \in Senders, StartSend(s)
  PROVE  CountInv'
<1> USE DEF TypeOK, TypeInv
<1>1. PICK j \in work[s] :
        /\ sending' = [sending EXCEPT ![s] = [key |-> j.key, attempts |-> j.attempts,
                                              live |-> integration[j.key[2]] = "on"]]
        /\ requests' = IF integration[j.key[2]] = "on"
                       THEN [requests EXCEPT ![j.key] = @ + 1] ELSE requests
  BY DEF StartSend
<1>2. sending[s] = Idle /\ UNCHANGED <<status, attempts, unwritten>>
  BY DEF StartSend, rowVars
<1>3. j.key \in Keys /\ j.attempts = attempts[j.key] /\ Holds(s, j.key)
  BY JobType DEF HeldInv, JobsAreNew, Holds
<1>4. /\ sending'[s] = [key |-> j.key, attempts |-> j.attempts,
                        live |-> integration[j.key[2]] = "on"]
      /\ \A t \in Senders : t # s => sending'[t] = sending[t]
  BY <1>1
<1>5. SendsAreNew'
  <2> SUFFICES ASSUME NEW t \in Senders, sending'[t] # Idle
               PROVE  sending'[t].attempts = attempts'[sending'[t].key]
    BY DEF SendsAreNew
  <2>1. CASE t = s
    BY <2>1, <1>2, <1>3, <1>4
  <2>2. CASE t # s
    BY <2>2, <1>2, <1>4 DEF CountInv, SendsAreNew
  <2> QED
    BY <2>1, <2>2
<1>6. ASSUME NEW k \in Keys, k # j.key PROVE Accounted(k)'
  <2>1. requests'[k] = requests[k]
    BY <1>1, <1>3, <1>6
  <2>2. InFlight(k) => InFlight(k)'
    <3> SUFFICES ASSUME NEW t \in Senders, WaitsFor(t, k), sending[t].live
                 PROVE  InFlight(k)'
      BY DEF InFlight
    <3>1. t # s
      BY <1>2 DEF WaitsFor
    <3> QED
      BY <3>1, <1>4 DEF InFlight, WaitsFor
  <2> QED
    BY <1>2, <2>1, <2>2, AccountedSame DEF CountInv
<1>7. Accounted(j.key)'
  <2> DEFINE k == j.key
  <2>1. ~InFlight(k) /\ status[k] # "sent"
    <3>1. \A t \in Senders : ~WaitsFor(t, k)
      <4> SUFFICES ASSUME NEW t \in Senders, WaitsFor(t, k) PROVE FALSE
        OBVIOUS
      <4>1. t = s
        BY <1>3 DEF HeldInv, HeldByOne, Holds
      <4> QED
        BY <4>1, <1>2 DEF WaitsFor
    <3> QED
      BY <3>1, <1>3 DEF InFlight, HeldInv, HeldIsPending
  <2>2. requests[k] <= attempts[k] + unwritten[k]
    BY <2>1, <1>3, CountTypes DEF CountInv, Accounted
  <2>3. CASE integration[k[2]] = "on"
    <3>1. requests'[k] = requests[k] + 1
      BY <1>1, <1>3, <2>3
    <3>2. InFlight(k)'
      <4>1. WaitsFor(s, k)' /\ sending'[s].live
        <5>1. (integration[j.key[2]] = "on") = TRUE
          BY <2>3
        <5>2. sending'[s].key = k /\ sending'[s].live = (integration[j.key[2]] = "on")
          BY <1>4
        <5>3. sending'[s].live
          BY <5>1, <5>2
        <5>4. sending'[s] \in Send
          BY <1>4, <2>3, JobType DEF Job, Send
        <5> QED
          BY <5>2, <5>3, <5>4, IdleAssumption DEF WaitsFor
      <4> QED
        BY <4>1 DEF InFlight
    <3> QED
      BY <1>2, <1>3, <2>2, <3>1, <3>2, CountTypes DEF Accounted
  <2>4. CASE integration[k[2]] # "on"
    <3>1. requests'[k] = requests[k]
      BY <1>1, <2>4
    <3> QED
      BY <1>2, <1>3, <2>2, <3>1, CountTypes DEF Accounted
  <2> QED
    BY <2>3, <2>4
<1> QED
  BY <1>5, <1>6, <1>7 DEF CountInv

\* An outcome changes the count of no delivery but its own.
LEMMA CountOthers ==
  ASSUME TypeInv, HeldInv, CountInv, NEW s \in Senders,
         Succeed(s) \/ Fail(s) \/ Unrecorded(s), NEW k \in Keys, k # sending[s].key
  PROVE  Accounted(k)'
<1> USE DEF TypeOK, TypeInv
<1>1. sending[s].key \in Keys /\ Drops(s, sending[s].key) /\ sending' = [sending EXCEPT ![s] = Idle]
  BY AnswerDrops DEF Succeed, Fail, Unrecorded, Answered
<1>2. status'[k] = status[k] /\ attempts'[k] = attempts[k]
  BY <1>1 DEF Drops
<1>3. requests'[k] = requests[k] /\ unwritten'[k] = unwritten[k]
  BY <1>1 DEF Succeed, Fail, Unrecorded, historyVars
<1>4. InFlight(k) => InFlight(k)'
  <2> SUFFICES ASSUME NEW t \in Senders, WaitsFor(t, k), sending[t].live
               PROVE  InFlight(k)'
    BY DEF InFlight
  <2>1. t # s
    BY DEF WaitsFor
  <2>2. sending'[t] = sending[t]
    BY <1>1, <2>1
  <2> QED
    BY <2>2 DEF InFlight, WaitsFor
<1> QED
  BY <1>2, <1>3, <1>4, AccountedSame DEF CountInv

LEMMA CountAnswer ==
  ASSUME TypeInv, HeldInv, CountInv, NEW s \in Senders,
         Succeed(s) \/ Fail(s) \/ Unrecorded(s)
  PROVE  CountInv'
<1> USE DEF TypeOK, TypeInv
<1>0. PICK key : key = sending[s].key
  OBVIOUS
<1>1. /\ sending[s] \in Send /\ key \in Keys /\ Drops(s, key) /\ sending[s] # Idle
      /\ sending[s].attempts = attempts[key]
  BY <1>0, AnswerDrops DEF Succeed, Fail, Unrecorded, CountInv, SendsAreNew
<1>2. SendsAreNew'
  <2> SUFFICES ASSUME NEW t \in Senders, sending'[t] # Idle
               PROVE  sending'[t].attempts = attempts'[sending'[t].key]
    BY DEF SendsAreNew
  <2>1. sending'[t] = sending[t] /\ sending[t].key \in Keys
    BY <1>1 DEF Drops, Send
  <2>2. sending[t].key # key
    BY <2>1, <1>1 DEF Drops, Holds, WaitsFor
  <2> QED
    BY <1>1, <2>1, <2>2 DEF Drops, CountInv, SendsAreNew
<1>3. Accounted(key)'
  <2>1. requests[key] <= attempts[key] + unwritten[key]
                         + IF InFlight(key) \/ status[key] = "sent" THEN 1 ELSE 0
    BY <1>1 DEF CountInv, Accounted
  <2>2. requests[key] \in Nat /\ attempts[key] \in Nat /\ unwritten[key] \in Nat
    BY <1>1, CountTypes
  <2>3. CASE Succeed(s)
    <3>1. status'[key] = "sent" /\ UNCHANGED <<requests, attempts, unwritten>>
      BY <1>0, <1>1, <2>3 DEF Succeed, historyVars
    <3> QED
      BY <2>1, <2>2, <3>1 DEF Accounted
  <2>4. CASE Fail(s)
    <3>1. attempts'[key] = attempts[key] + 1 /\ UNCHANGED <<requests, unwritten>>
      BY <1>0, <1>1, <2>4 DEF Fail, historyVars
    <3>2. requests[key] <= attempts[key] + unwritten[key] + 1
      BY <2>1, <2>2
    <3>3. requests'[key] <= attempts'[key] + unwritten'[key]
      BY <2>2, <3>1, <3>2
    <3>4. requests'[key] \in Nat /\ attempts'[key] \in Nat /\ unwritten'[key] \in Nat
      BY <2>2, <3>1
    <3> QED
      BY <3>3, <3>4 DEF Accounted
  <2>5. CASE Unrecorded(s)
    <3>1. UNCHANGED <<requests, attempts, status>>
      BY <2>5 DEF Unrecorded, rowVars
    <3>2. unwritten'[key] = IF sending[s].live THEN unwritten[key] + 1 ELSE unwritten[key]
      BY <1>0, <1>1, <2>5 DEF Unrecorded
    <3>3. status[key] # "sent"
      BY <1>0, <1>1 DEF HeldInv, HeldIsPending, Holds, WaitsFor
    <3>4. InFlight(key) => sending[s].live
      <4> SUFFICES ASSUME NEW t \in Senders, WaitsFor(t, key), sending[t].live
                   PROVE  t = s
        BY DEF InFlight
      <4> QED
        BY <1>0, <1>1 DEF HeldInv, HeldByOne, Holds, WaitsFor
    <3>5. requests'[key] <= attempts'[key] + unwritten'[key]
      BY <2>1, <2>2, <3>1, <3>2, <3>3, <3>4
    <3>6. requests'[key] \in Nat /\ attempts'[key] \in Nat /\ unwritten'[key] \in Nat
      BY <2>2, <3>1, <3>2
    <3> QED
      BY <3>5, <3>6 DEF Accounted
  <2> QED
    BY <2>3, <2>4, <2>5
<1> QED
  BY <1>0, <1>2, <1>3, CountOthers DEF CountInv

LEMMA CountKill ==
  ASSUME TypeInv, CountInv, Kill
  PROVE  CountInv'
<1> USE DEF TypeOK, TypeInv
<1>1. SendsAreNew'
  BY DEF Kill, SendsAreNew
<1>2. ASSUME NEW k \in Keys PROVE Accounted(k)'
  <2> DEFINE lost == {s \in Senders : WaitsFor(s, k) /\ sending[s].live}
  <2>1. /\ unwritten'[k] = unwritten[k] + Cardinality(lost)
        /\ UNCHANGED <<requests, attempts, status>>
    BY DEF Kill, rowVars
  <2>2. IsFiniteSet(lost) /\ Cardinality(lost) \in Nat
    <3>1. IsFiniteSet(Senders)
      BY AlertAssumption, FS_AddElement DEF Senders
    <3> QED
      BY <3>1, FS_Subset, FS_CardinalityType
  <2>3. InFlight(k) => Cardinality(lost) >= 1
    <3> SUFFICES ASSUME lost # {} PROVE Cardinality(lost) >= 1
      BY DEF InFlight
    <3> HIDE DEF lost
    <3>1. Cardinality(lost) # 0
      BY <2>2, FS_EmptySet
    <3> QED
      BY <2>2, <3>1
  <2>4. requests[k] <= attempts[k] + unwritten[k]
                       + IF InFlight(k) \/ status[k] = "sent" THEN 1 ELSE 0
    BY DEF CountInv, Accounted
  <2>5. requests[k] \in Nat /\ attempts[k] \in Nat /\ unwritten[k] \in Nat
    BY CountTypes
  <2> HIDE DEF lost
  <2>6. CASE status[k] = "sent"
    BY <2>1, <2>2, <2>4, <2>5, <2>6 DEF Accounted
  <2>7. CASE status[k] # "sent"
    <3>1. requests'[k] <= attempts'[k] + unwritten'[k]
      BY <2>1, <2>2, <2>3, <2>4, <2>5, <2>7
    <3>2. requests'[k] \in Nat /\ attempts'[k] \in Nat /\ unwritten'[k] \in Nat
      BY <2>1, <2>2, <2>5
    <3> QED
      BY <3>1, <3>2 DEF Accounted
  <2> QED
    BY <2>6, <2>7
<1> QED
  BY <1>1, <1>2 DEF CountInv

LEMMA CountStep ==
  TypeInv /\ HeldInv /\ CountInv /\ [Next]_vars => CountInv'
<1> SUFFICES ASSUME TypeInv, HeldInv, CountInv, [Next]_vars PROVE CountInv'
  OBVIOUS
<1> USE DEF TypeOK, TypeInv
<1>1. ASSUME NEW r \in Digests, Record(r) PROVE CountInv'
  <2> DEFINE new == {k \in {EventOf[r]} \X listed[r] : status[k] = "none"}
  <2>1. \/ UNCHANGED status
        \/ status' = [k \in Keys |-> IF k \in new THEN "pending" ELSE status[k]]
        \/ status' = [k \in Keys |-> IF k \in new THEN "skipped" ELSE status[k]]
    BY <1>1 DEF Record
  <2>2. \A k \in Keys : status[k] = "sent" => status'[k] = "sent"
    BY <2>1
  <2>3. UNCHANGED <<sending, attempts, historyVars>>
    BY <1>1 DEF Record
  <2> QED
    BY <2>2, <2>3, CountSame
<1>2. ASSUME NEW s \in Senders, SkipUnrouted(s) PROVE CountInv'
  <2>1. PICK j \in work[s] : j.key \in Keys /\ Drops(s, j.key)
    BY <1>2, SkipDrops
  <2>2. status[j.key] = "pending"
    BY <2>1 DEF HeldInv, HeldIsPending, Holds
  <2>3. UNCHANGED <<sending, attempts, historyVars>>
    BY <1>2 DEF SkipUnrouted
  <2>4. \A k \in Keys : status[k] = "sent" => status'[k] = "sent"
    BY <2>1, <2>2 DEF Drops
  <2> QED
    BY <2>3, <2>4, CountSame
<1>3. ASSUME NEW s \in Senders, Succeed(s) \/ Fail(s) \/ Unrecorded(s) PROVE CountInv'
  BY <1>3, CountAnswer
<1>4. CASE Kill
  BY <1>4, CountKill
<1>5. ASSUME NEW r \in Digests, Check(r) \/ Load(r) \/ RecordFails(r) PROVE CountInv'
  <2>1. UNCHANGED <<sending, attempts, status, historyVars>>
    BY <1>5 DEF Check, Load, RecordFails, rowVars, sendVars
  <2> QED
    BY <2>1, CountSame
<1>6. ASSUME NEW s \in Senders, StartSend(s) PROVE CountInv'
  BY <1>6, CountStart
<1>7. CASE Claim \/ WorkerGivesUp \/ Tick \/ SetRule \/ SetIntegration \/ UNCHANGED vars
  <2>1. UNCHANGED <<sending, attempts, status, historyVars>>
    BY <1>7 DEF Claim, WorkerGivesUp, Tick, SetRule, SetIntegration, Edit,
                rowVars, sendVars, vars
  <2> QED
    BY <2>1, CountSame
<1> QED
  BY <1>1, <1>2, <1>3, <1>4, <1>5, <1>6, <1>7 DEF Next, DigestStep, SenderStep

\* "An in-flight delivery is never re-claimed and double-sent", for any number
\* of digests, faults and edits, while the lease covers a digest's batch: a
\* fourth channel breaks it (run alert_lease). A further request for a delivery
\* follows an attempt that failed, perhaps by a timeout after the endpoint had
\* accepted it (dispatch_history), or an outcome that was not written.
THEOREM DeliveriesAreNotDoubled ==
  ASSUME LeaseCoversBatch
  PROVE  Spec => []NeverDoubleSent
<1>1. TypeInv /\ HeldInv /\ CountInv => NeverDoubleSent
  <2> SUFFICES ASSUME TypeInv, HeldInv, CountInv, NEW k \in Keys
               PROVE  LET waits == \E s \in Senders : WaitsFor(s, k)
                      IN  /\ \A s, other \in Senders :
                               WaitsFor(s, k) /\ WaitsFor(other, k) => s = other
                          /\ waits => status[k] = "pending"
                          /\ requests[k] <= attempts[k] + unwritten[k]
                                            + IF waits \/ status[k] = "sent" THEN 1 ELSE 0
    BY DEF NeverDoubleSent
  <2>1. \A s, other \in Senders : WaitsFor(s, k) /\ WaitsFor(other, k) => s = other
    BY DEF HeldInv, HeldByOne, Holds
  <2>2. (\E s \in Senders : WaitsFor(s, k)) => status[k] = "pending"
    BY DEF HeldInv, HeldIsPending, Holds
  <2>3. requests[k] \in Nat /\ attempts[k] \in Nat /\ unwritten[k] \in Nat
    BY CountTypes DEF TypeInv
  <2>4. InFlight(k) => \E s \in Senders : WaitsFor(s, k)
    BY DEF InFlight
  <2>5. requests[k] <= attempts[k] + unwritten[k]
                       + IF InFlight(k) \/ status[k] = "sent" THEN 1 ELSE 0
    BY DEF CountInv, Accounted
  <2>6. requests[k] <= attempts[k] + unwritten[k]
          + IF (\E s \in Senders : WaitsFor(s, k)) \/ status[k] = "sent" THEN 1 ELSE 0
    BY <2>3, <2>4, <2>5
  <2> QED
    BY <2>1, <2>2, <2>6
<1>2. Init => CountInv
  <2> SUFFICES ASSUME Init PROVE SendsAreNew /\ \A k \in Keys : Accounted(k)
    BY DEF CountInv
  <2> QED
    BY DEF Init, SendsAreNew, Accounted
<1> QED
  BY <1>1, <1>2, HeldAlways, CountStep, PTL DEF Spec

-----------------------------------------------------------------------------
(* What the cooldown drops *)

Notified(k) == status[k] \in {"pending", "sent", "failed"}

\* A row is never deleted, and what is held has one.
HeldHasRow == \A s \in Senders, k \in Keys : Holds(s, k) => status[k] # "none"

\* A digest on its way to record has listed a channel.
ListsSome == \A r \in Digests : pc[r] \in {"load", "record"} => listed[r] # {}

\* While the cooldown runs, or once it has dropped an alert, there is another one.
SomeNotice ==
  cool > 0 \/ (\E k \in Keys : status[k] = "skipped") => \E k \in Keys : Notified(k)

NoticeInv == TypeInv /\ HeldHasRow /\ ListsSome /\ SomeNotice

\* The rows a digest records: what has none among its deliveries.
LEMMA RecordRows ==
  ASSUME TypeOK, NEW r \in Digests, Record(r)
  PROVE  \/ /\ UNCHANGED <<status, cool, work>>
            /\ rule = "deleted" \/ \E c \in listed[r] : integration[c] = "deleted"
         \/ /\ cool > 0 /\ UNCHANGED <<cool, work>>
            /\ \A k \in Keys : status'[k] =
                 IF k \in {EventOf[r]} \X listed[r] /\ status[k] = "none" THEN "skipped" ELSE status[k]
         \/ /\ ~(cool > 0)
            /\ work' = [work EXCEPT ![r] =
                 {[key |-> k, attempts |-> 0] : k \in {x \in {EventOf[r]} \X listed[r] : status[x] = "none"}}]
            /\ \A k \in Keys : status'[k] =
                 IF k \in {EventOf[r]} \X listed[r] /\ status[k] = "none" THEN "pending" ELSE status[k]
<1> DEFINE new == {k \in {EventOf[r]} \X listed[r] : status[k] = "none"}
<1>1. \/ /\ UNCHANGED <<status, cool, work>>
         /\ rule = "deleted" \/ \E c \in listed[r] : integration[c] = "deleted"
      \/ /\ cool > 0 /\ UNCHANGED <<cool, work>>
         /\ status' = [k \in Keys |-> IF k \in new THEN "skipped" ELSE status[k]]
      \/ /\ ~(cool > 0)
         /\ work' = [work EXCEPT ![r] = {[key |-> k, attempts |-> 0] : k \in new}]
         /\ status' = [k \in Keys |-> IF k \in new THEN "pending" ELSE status[k]]
  BY DEF Record
<1>2. \A k \in Keys : k \in new <=> k \in {EventOf[r]} \X listed[r] /\ status[k] = "none"
  OBVIOUS
<1> QED
  BY <1>1, <1>2

\* Only a digest's record gives a delivery its row.
LEMMA RowsByRecord ==
  ASSUME TypeOK, HeldHasRow, [Next]_vars, ~\E r \in Digests : Record(r)
  PROVE  /\ \A k \in Keys : status'[k] = "none" <=> status[k] = "none"
         /\ \A k \in Keys : Notified(k) => Notified(k)'
         /\ \A k \in Keys : status'[k] = "skipped" => status[k] = "skipped"
<1> USE DEF TypeOK, Notified
<1>1. ASSUME NEW s \in Senders, SkipUnrouted(s)
      PROVE  \E k \in Keys : Holds(s, k) /\ (UNCHANGED status \/ status' = [status EXCEPT ![k] = "failed"])
  <2>1. PICK j \in work[s] : UNCHANGED status \/ status' = [status EXCEPT ![j.key] = "failed"]
    BY <1>1 DEF SkipUnrouted
  <2> QED
    BY <2>1, JobType DEF Holds
<1>2. ASSUME NEW s \in Senders, Succeed(s) \/ Fail(s)
      PROVE  \E k \in Keys : Holds(s, k) /\ \E x \in {"sent", "failed", "pending"} :
                                              status' = [status EXCEPT ![k] = x]
  <2>1. sending[s] # Idle /\ sending[s].key \in Keys
    BY <1>2 DEF Succeed, Fail, Send
  <2>2. \E x \in {"sent", "failed", "pending"} : status' = [status EXCEPT ![sending[s].key] = x]
    BY <1>2 DEF Succeed, Fail
  <2> QED
    BY <2>1, <2>2 DEF Holds, WaitsFor
<1>3. CASE UNCHANGED status
  BY <1>3
<1>4. \/ UNCHANGED status
      \/ \E s \in Senders, k \in Keys :
           Holds(s, k) /\ \E x \in {"sent", "failed", "pending"} : status' = [status EXCEPT ![k] = x]
  <2>1. CASE \E s \in Senders : SkipUnrouted(s) \/ Succeed(s) \/ Fail(s)
    BY <1>1, <1>2, <2>1
  <2>2. CASE ~\E s \in Senders : SkipUnrouted(s) \/ Succeed(s) \/ Fail(s)
    BY <2>2
    DEF Next, DigestStep, SenderStep, Check, Load, RecordFails, Claim, StartSend,
        Unrecorded, WorkerGivesUp, Tick, SetRule, SetIntegration, Edit, Kill, vars, rowVars
  <2> QED
    BY <2>1, <2>2
<1> QED
  BY <1>3, <1>4 DEF HeldHasRow

LEMMA NoticesStay ==
  ASSUME TypeOK, HeldHasRow, [Next]_vars, NEW k \in Keys
  PROVE  (Notified(k) => Notified(k)') /\ (status[k] # "none" => status'[k] # "none")
<1>1. CASE \E r \in Digests : Record(r)
  BY <1>1, RecordRows DEF Notified
<1>2. CASE ~\E r \in Digests : Record(r)
  BY <1>2, RowsByRecord
<1> QED
  BY <1>1, <1>2

LEMMA HeldHasRowStep == NoticeInv /\ [Next]_vars => HeldHasRow'
<1> SUFFICES ASSUME TypeOK, HeldHasRow, [Next]_vars,
                    NEW s \in Senders, NEW k \in Keys, Holds(s, k)'
             PROVE  status'[k] # "none"
  BY DEF NoticeInv, TypeInv, HeldHasRow
<1> USE DEF TypeOK
<1>1. CASE Holds(s, k)
  BY <1>1, NoticesStay DEF HeldHasRow
<1>2. ASSUME ~Holds(s, k), NEW r \in Digests, Record(r) PROVE status'[k] # "none"
  <2> DEFINE new == {x \in {EventOf[r]} \X listed[r] : status[x] = "none"}
  <2>1. UNCHANGED sending
    BY <1>2 DEF Record
  <2>2. ~UNCHANGED work
    BY <1>2, <2>1 DEF Holds, WaitsFor
  <2>3. /\ work' = [work EXCEPT ![r] = {[key |-> x, attempts |-> 0] : x \in new}]
        /\ \A y \in Keys : status'[y] =
             IF y \in {EventOf[r]} \X listed[r] /\ status[y] = "none" THEN "pending" ELSE status[y]
    BY <1>2, <2>2, RecordRows
  <2>4. s = r
    BY <1>2, <2>1, <2>3 DEF Holds, WaitsFor
  <2>5. work'[s] = {[key |-> x, attempts |-> 0] : x \in new}
    BY <2>3, <2>4
  <2>6. k \in new
    BY <1>2, <2>1, <2>5 DEF Holds, WaitsFor
  <2> QED
    BY <2>3, <2>6
<1>3. CASE ~Holds(s, k) /\ Claim
  <2> DEFINE claimed == {x \in Keys : Due(x)}
  <2>1. /\ work' = [work EXCEPT ![Worker] = {[key |-> x, attempts |-> attempts[x]] : x \in claimed}]
        /\ UNCHANGED <<sending, status>>
    BY <1>3 DEF Claim
  <2>2. s = Worker
    BY <1>3, <2>1 DEF Holds, WaitsFor
  <2>3. work'[s] = {[key |-> x, attempts |-> attempts[x]] : x \in claimed}
    BY <2>1, <2>2
  <2>4. k \in claimed
    BY <1>3, <2>1, <2>3 DEF Holds, WaitsFor
  <2> QED
    BY <2>1, <2>4 DEF Due
<1>4. ASSUME NEW t \in Senders, StartSend(t) PROVE Holds(s, k)
  <2>1. PICK j \in work[t] :
          /\ work' = [work EXCEPT ![t] = @ \ {j}]
          /\ sending' = [sending EXCEPT ![t] = [key |-> j.key, attempts |-> j.attempts,
                                                live |-> integration[j.key[2]] = "on"]]
    BY <1>4 DEF StartSend
  <2>2. s # t => work'[s] = work[s] /\ sending'[s] = sending[s]
    BY <2>1
  <2>3. s = t => work'[s] \subseteq work[s] /\ sending'[s].key = j.key
    BY <2>1
  <2> QED
    BY <2>2, <2>3 DEF Holds, WaitsFor
<1>5. CASE /\ ~\E r \in Digests : Record(r)
           /\ ~\E t \in Senders : StartSend(t)
           /\ ~Claim
  <2>1. work'[s] \subseteq work[s] /\ sending'[s] \in {sending[s], Idle}
    BY <1>5
    DEF Next, DigestStep, SenderStep, Check, Load, RecordFails, SkipUnrouted, Succeed,
        Fail, Unrecorded, Answered, WorkerGivesUp, Tick, SetRule, SetIntegration, Edit, Kill,
        vars, sendVars
  <2>2. Holds(s, k)
    BY <2>1 DEF Holds, WaitsFor
  <2> QED
    BY <1>1, <2>2
<1> QED
  BY <1>1, <1>2, <1>3, <1>4, <1>5

LEMMA ListsSomeStep == NoticeInv /\ [Next]_vars => ListsSome'
<1> SUFFICES ASSUME TypeOK, ListsSome, [Next]_vars,
                    NEW x \in Digests, pc'[x] \in {"load", "record"}
             PROVE  listed'[x] # {}
  BY DEF NoticeInv, TypeInv, ListsSome
<1> USE DEF TypeOK, ListsSome
<1>1. ASSUME NEW r \in Digests, Check(r) PROVE listed'[x] # {}
  BY <1>1 DEF Check
<1>2. ASSUME NEW r \in Digests, Load(r) \/ Record(r) \/ RecordFails(r) PROVE listed'[x] # {}
  BY <1>2 DEF Load, Record, RecordFails
<1>3. CASE Kill
  BY <1>3 DEF Kill
<1>4. CASE UNCHANGED runVars
  BY <1>4 DEF runVars
<1>5. CASE ~Kill /\ ~\E r \in Digests : DigestStep(r)
  <2>1. UNCHANGED runVars
    BY <1>5
    DEF Next, SenderStep, Claim, StartSend, SkipUnrouted, Succeed, Fail, Unrecorded,
        WorkerGivesUp, Tick, SetRule, SetIntegration, Edit, vars
  <2> QED
    BY <2>1, <1>4
<1> QED
  BY <1>1, <1>2, <1>3, <1>5 DEF DigestStep

LEMMA SomeNoticeStep == NoticeInv /\ [Next]_vars => SomeNotice'
<1> SUFFICES ASSUME TypeOK, HeldHasRow, ListsSome, SomeNotice, [Next]_vars,
                    cool' > 0 \/ \E k \in Keys : status'[k] = "skipped"
             PROVE  \E k \in Keys : Notified(k)'
  BY DEF NoticeInv, TypeInv, SomeNotice
<1>0. cool \in Nat
  BY AlertAssumption DEF TypeOK
<1>1. ASSUME NEW k \in Keys, Notified(k) PROVE \E x \in Keys : Notified(x)'
  BY <1>1, NoticesStay
<1>2. CASE cool > 0 \/ \E k \in Keys : status[k] = "skipped"
  BY <1>1, <1>2 DEF SomeNotice
<1>3. ASSUME ~(cool > 0), ~\E k \in Keys : status[k] = "skipped", NEW r \in Digests, Record(r)
      PROVE  \E x \in Keys : Notified(x)'
  <2>1. PICK c \in listed[r] : TRUE
    BY <1>3 DEF Record, ListsSome
  <2> DEFINE k == <<EventOf[r], c>>
  <2>2. k \in Keys /\ k \in {EventOf[r]} \X listed[r]
    BY DEF TypeOK, Keys, Events
  <2>3. CASE Notified(k)
    BY <1>1, <2>2, <2>3
  <2>4. CASE ~Notified(k)
    <3>1. status[k] = "none"
      BY <1>3, <2>2, <2>4 DEF TypeOK, Notified
    <3>2. ~UNCHANGED <<status, cool>>
      BY <1>3
    <3>3. status'[k] = "pending"
      BY <1>3, <2>2, <3>1, <3>2, RecordRows
    <3> QED
      BY <2>2, <3>3 DEF Notified
  <2> QED
    BY <2>3, <2>4
<1>4. CASE /\ ~(cool > 0) /\ ~\E k \in Keys : status[k] = "skipped"
           /\ ~\E r \in Digests : Record(r)
  <2>1. ~\E k \in Keys : status'[k] = "skipped"
    BY <1>4, RowsByRecord
  <2>2. ~(cool' > 0)
    BY <1>0, <1>4
    DEF Next, DigestStep, SenderStep, Check, Load, RecordFails, Claim, StartSend,
        SkipUnrouted, Succeed, Fail, Unrecorded, WorkerGivesUp, Tick, Less, SetRule,
        SetIntegration, Edit, Kill, vars, ruleVars
  <2> QED
    BY <2>1, <2>2
<1> QED
  BY <1>2, <1>3, <1>4

LEMMA NoticeAlways == Spec => []NoticeInv
<1>1. Init => NoticeInv
  <2> SUFFICES ASSUME Init PROVE HeldHasRow /\ ListsSome /\ SomeNotice
    BY TypeInit DEF NoticeInv
  <2> QED
    BY DEF Init, HeldHasRow, Holds, WaitsFor, ListsSome, SomeNotice
<1>2. NoticeInv /\ [Next]_vars => NoticeInv'
  BY TypeStep, UntriedStep, HeldHasRowStep, ListsSomeStep, SomeNoticeStep DEF NoticeInv, TypeInv
<1> QED
  BY <1>1, <1>2, PTL DEF Spec

\* No other run of process_impl handles a digest's event.
EventsRunAlone == \A r, s \in Digests : EventOf[r] = EventOf[s] => r = s

OneIntegration == \A c, d \in Channels : c = d

\* Without it two digests of one event may list different channels, and the
\* notice the one records drops what only the other lists.
NoticeOfOneRun == EventsRunAlone \/ OneIntegration \/ MaxEdits = 0

\* A digest finds all its deliveries recorded, or its event without a row.
AllOrNone ==
  \A r \in Digests : pc[r] \in {"load", "record"} /\ Recorded(EventOf[r])
     => \A c \in listed[r] : status[<<EventOf[r], c>>] # "none"

AloneInv ==
  \A r \in Digests : pc[r] \in {"load", "record"} => ~Recorded(EventOf[r])

UneditedInv ==
  /\ rule = "on" /\ linked = Channels /\ \A c \in Channels : integration[c] = "on"
  /\ \A r \in Digests : pc[r] \in {"load", "record"} => listed[r] = Channels
  /\ \A e \in Events : Recorded(e) => \A c \in Channels : status[<<e, c>>] # "none"

LEMMA AloneStep ==
  ASSUME EventsRunAlone, TypeOK, HeldHasRow, AloneInv, [Next]_vars
  PROVE  AloneInv'
<1> SUFFICES ASSUME NEW x \in Digests, pc'[x] \in {"load", "record"},
                    NEW c \in Channels
             PROVE  status'[<<EventOf[x], c>>] = "none"
  BY DEF AloneInv, Recorded
<1> DEFINE k == <<EventOf[x], c>>
<1> USE DEF TypeOK
<1>0. k \in Keys
  BY DEF Keys, Events
<1>1. ASSUME NEW r \in Digests, Record(r) PROVE status'[k] = "none"
  <2>1. x # r /\ pc[x] \in {"load", "record"}
    BY <1>1 DEF Record
  <2>2. status[k] = "none" /\ k \notin {EventOf[r]} \X listed[r]
    BY <2>1 DEF AloneInv, Recorded, EventsRunAlone
  <2> QED
    BY <1>0, <1>1, <2>2, RecordRows
<1>2. CASE ~\E r \in Digests : Record(r)
  <2>1. status[k] = "none"
    <3>1. CASE \E r \in Digests : Check(r)
      <4>1. PICK r \in Digests : Check(r)
        BY <3>1
      <4>2. CASE x = r
        BY <4>1, <4>2 DEF Check, Recorded
      <4>3. CASE x # r
        <5>1. pc[x] \in {"load", "record"}
          BY <4>1, <4>3 DEF Check
        <5> QED
          BY <5>1 DEF AloneInv, Recorded
      <4> QED
        BY <4>2, <4>3
    <3>2. CASE ~\E r \in Digests : Check(r)
      <4>1. pc[x] \in {"load", "record"}
        BY <1>2, <3>2
        DEF Next, DigestStep, SenderStep, Load, RecordFails, Claim, StartSend, SkipUnrouted,
            Succeed, Fail, Unrecorded, WorkerGivesUp, Tick, SetRule, SetIntegration, Edit, Kill,
            vars, runVars
      <4> QED
        BY <4>1 DEF AloneInv, Recorded
    <3> QED
      BY <3>1, <3>2
  <2> QED
    BY <1>0, <1>2, <2>1, RowsByRecord
<1> QED
  BY <1>1, <1>2

LEMMA UneditedStep ==
  ASSUME MaxEdits = 0, TypeOK, HeldHasRow, ListsSome, UneditedInv, [Next]_vars
  PROVE  UneditedInv'
<1> USE DEF TypeOK
<1>0. ~SetRule /\ ~SetIntegration
  BY DEF SetRule, SetIntegration, Edit
<1>1. rule' = rule /\ linked' = linked /\ integration' = integration
  BY <1>0
  DEF Next, DigestStep, SenderStep, Check, Load, Record, RecordFails, Claim, StartSend,
      SkipUnrouted, Succeed, Fail, Unrecorded, WorkerGivesUp, Tick, Kill, vars, ruleVars
<1>2. ASSUME NEW x \in Digests, pc'[x] \in {"load", "record"}
      PROVE  listed'[x] = Channels
  <2>1. {c \in linked : integration[c] = "on"} = Channels
    BY DEF UneditedInv
  <2>2. CASE \E r \in Digests : Check(r)
    <3>1. PICK r \in Digests : Check(r)
      BY <2>2
    <3>2. x = r => listed'[x] = {c \in linked : integration[c] = "on"}
      BY <1>2, <3>1 DEF Check
    <3>3. x # r => listed'[x] = listed[x] /\ pc[x] \in {"load", "record"}
      BY <1>2, <3>1 DEF Check
    <3> QED
      BY <2>1, <3>2, <3>3 DEF UneditedInv
  <2>3. CASE ~\E r \in Digests : Check(r)
    <3>1. listed' = listed /\ pc[x] \in {"load", "record"}
      BY <1>0, <1>2, <2>3
      DEF Next, DigestStep, SenderStep, Load, Record, RecordFails, Claim, StartSend,
          SkipUnrouted, Succeed, Fail, Unrecorded, WorkerGivesUp, Tick, Kill, vars, runVars
    <3> QED
      BY <3>1 DEF UneditedInv
  <2> QED
    BY <2>2, <2>3
<1>3. ASSUME NEW e \in Events, NEW d \in Channels, status'[<<e, d>>] # "none", NEW c \in Channels
      PROVE  status'[<<e, c>>] # "none"
  <2>0. <<e, c>> \in Keys /\ <<e, d>> \in Keys
    BY DEF Keys
  <2>1. CASE Recorded(e)
    BY <2>0, <2>1, NoticesStay DEF UneditedInv
  <2>2. CASE ~Recorded(e)
    <3>1. status[<<e, d>>] = "none" /\ status[<<e, c>>] = "none"
      BY <2>2 DEF Recorded
    <3>2. PICK r \in Digests : Record(r)
      BY <1>3, <2>0, <3>1, RowsByRecord
    <3>3. listed[r] = Channels
      BY <3>2 DEF Record, UneditedInv
    <3>4. e = EventOf[r]
      BY <1>3, <2>0, <3>1, <3>2, RecordRows
    <3> QED
      BY <1>3, <2>0, <3>1, <3>2, <3>3, <3>4, RecordRows
  <2> QED
    BY <2>1, <2>2
<1> QED
  BY <1>1, <1>2, <1>3 DEF UneditedInv, Recorded

LEMMA AllOrNoneAlways ==
  ASSUME NoticeOfOneRun
  PROVE  Spec => []AllOrNone
<1>1. CASE EventsRunAlone
  <2>1. Init => AloneInv
    BY DEF Init, AloneInv
  <2>2. NoticeInv /\ AloneInv /\ [Next]_vars => AloneInv'
    BY <1>1, AloneStep DEF NoticeInv, TypeInv
  <2>3. AloneInv => AllOrNone
    BY DEF AloneInv, AllOrNone
  <2> QED
    BY <2>1, <2>2, <2>3, NoticeAlways, PTL DEF Spec
<1>2. CASE OneIntegration
  <2>1. NoticeInv => AllOrNone
    <3> SUFFICES ASSUME NoticeInv, NEW r \in Digests, Recorded(EventOf[r]), NEW c \in listed[r]
                 PROVE  status[<<EventOf[r], c>>] # "none"
      BY DEF AllOrNone
    <3>1. PICK d \in Channels : status[<<EventOf[r], d>>] # "none"
      BY DEF Recorded
    <3>2. c \in Channels
      BY DEF NoticeInv, TypeInv, TypeOK
    <3> QED
      BY <1>2, <3>1, <3>2 DEF OneIntegration
  <2> QED
    BY <2>1, NoticeAlways, PTL
<1>3. CASE MaxEdits = 0
  <2>1. Init => UneditedInv
    BY DEF Init, UneditedInv, Recorded, Keys
  <2>2. NoticeInv /\ UneditedInv /\ [Next]_vars => UneditedInv'
    BY <1>3, UneditedStep DEF NoticeInv, TypeInv
  <2>3. UneditedInv => AllOrNone
    BY DEF UneditedInv, AllOrNone, Events
  <2> QED
    BY <2>1, <2>2, <2>3, NoticeAlways, PTL DEF Spec
<1> QED
  BY <1>1, <1>2, <1>3 DEF NoticeOfOneRun

LEMMA SuppressedStep ==
  NoticeInv /\ AllOrNone /\ SuppressedAfterNotice /\ [Next]_vars => SuppressedAfterNotice'
<1> SUFFICES ASSUME TypeOK, HeldHasRow, SomeNotice, AllOrNone, SuppressedAfterNotice,
                    [Next]_vars, NEW k \in Keys, status'[k] = "skipped"
             PROVE  \E other \in Keys : other[1] # k[1] /\ Notified(other)'
  BY DEF NoticeInv, TypeInv, SuppressedAfterNotice, Notified
<1>1. ASSUME NEW other \in Keys, other[1] # k[1], Notified(other)
      PROVE  \E x \in Keys : x[1] # k[1] /\ Notified(x)'
  BY <1>1, NoticesStay
<1>2. CASE status[k] = "skipped"
  <2>1. PICK other \in Keys : other[1] # k[1] /\ Notified(other)
    BY <1>2 DEF SuppressedAfterNotice, Notified
  <2> QED
    BY <1>1, <2>1
<1>3. CASE status[k] # "skipped"
  <2>1. PICK r \in Digests : Record(r)
    BY <1>3, RowsByRecord
  <2>2. cool > 0 /\ k \in {EventOf[r]} \X listed[r] /\ status[k] = "none"
    BY <1>3, <2>1, RecordRows
  <2>3. PICK other \in Keys : Notified(other)
    BY <2>2 DEF SomeNotice
  <2>4. ~Recorded(EventOf[r])
    BY <2>1, <2>2 DEF AllOrNone, Record
  <2>5. other[1] # k[1]
    BY <2>2, <2>3, <2>4 DEF Recorded, Notified, Keys
  <2> QED
    BY <1>1, <2>3, <2>5
<1> QED
  BY <1>2, <1>3

\* The cooldown drops an alert only when another of its rule is on record: it is
\* reserved in the transaction that records that one (reserve_cooldown).
THEOREM SomethingIsNotified == Spec => []SomeNotice
  BY NoticeAlways, PTL DEF NoticeInv

\* That other one is about another event, unless the rule's channels change while
\* two digests of one event overlap.
THEOREM DroppedForAnother ==
  ASSUME NoticeOfOneRun
  PROVE  Spec => []SuppressedAfterNotice
<1>1. Init => SuppressedAfterNotice
  BY DEF Init, SuppressedAfterNotice
<1> QED
  BY <1>1, NoticeAlways, AllOrNoneAlways, SuppressedStep, PTL DEF Spec
=============================================================================
