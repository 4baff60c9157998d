---------------------------- MODULE AlertDelivery ----------------------------
(***************************************************************************)
(* How one alert rule notifies its channels: the digest that fires it, the *)
(* task that digest leaves behind to dispatch, and the retry worker.       *)
(*                                                                         *)
(* A delivery is a row of alert_history, one for each event and channel.   *)
(* The dispatch task and the retry worker share the rows by a lease only:  *)
(* a row is born with its next_retry_at in the future and claiming it      *)
(* moves that time on.  Time is what is left of each timer; it does not    *)
(* pass while a sender has work and waits for no answer, so that only      *)
(* sends take time.                                                        *)
(***************************************************************************)
EXTENDS Naturals, FiniteSets

CONSTANTS
  Digests,      \* runs of process_impl that reach the rule
  EventOf,      \* the event of each
  Channels,     \* the integrations
  Worker,       \* the retry worker
  Idle,         \* a sender that waits for no answer
  Lease,        \* RETRY_CLAIM_LEASE_SECS (120 s)
  SendTime,     \* the HTTP client's timeout (30 s)
  Cooldown,     \* the rule's cooldown_minutes
  Backoff,      \* retry_delay after each failed attempt
  MaxAttempts,  \* MAX_ALERT_RETRIES (5)
  MaxMishaps,   \* bound: database failures and kills in a behaviour
  MaxEdits      \* bound: changes of the rule and its channels

Events == {EventOf[r] : r \in Digests}

ASSUME AlertAssumption ==
  /\ IsFiniteSet(Digests) /\ IsFiniteSet(Channels)
  /\ Worker \notin Digests
  /\ {Lease, SendTime, MaxAttempts} \subseteq Nat \ {0}
  /\ {Cooldown, MaxMishaps, MaxEdits} \subseteq Nat
  /\ Backoff \in [1..MaxAttempts -> Nat \ {0}]

\* A sender is a digest's dispatch task or the retry worker.
Senders == Digests \cup {Worker}

\* The idempotency key of a delivery, of one rule.
Keys == Events \X Channels

\* A delivery as a sender took it: its attempts so far, and whether its
\* integration was enabled when the send began.
Job == [key : Keys, attempts : 0..(MaxAttempts - 1)]
Send == [key : Keys, attempts : 0..(MaxAttempts - 1), live : BOOLEAN]

ASSUME IdleAssumption == Idle \notin Send

VARIABLES
  rule,         \* the rule is "on", "off" or "deleted"
  integration,  \* so is each integration
  linked,       \* the rule's channels
  cool,         \* what is left of the rule's cooldown
  status,       \* alert_history.status of each delivery, "none" without a row
  attempts,     \* alert_history.attempt_count
  due,          \* what is left until alert_history.next_retry_at
  pc,           \* where each digest is in fire_rule
  listed,       \* the channels it has listed
  work,         \* the deliveries each sender still has to send
  sending,      \* the one it waits for an answer to
  left,         \* and how long it still may
  mishaps, edits,
  requests,     \* history: the requests made for each delivery
  unwritten     \* history: those whose outcome was never written

ruleVars == <<rule, integration, linked, cool>>
rowVars  == <<status, attempts, due>>
runVars  == <<pc, listed>>
sendVars == <<work, sending, left>>
envVars  == <<mishaps, edits>>
historyVars == <<requests, unwritten>>
vars == <<ruleVars, rowVars, runVars, sendVars, envVars, historyVars>>

Toggle == {"on", "off", "deleted"}

\* A row's attempts never go past the limit, and a pending one has some left:
\* otherwise claim_due_retries would never take it.
TypeOK ==
  /\ rule \in Toggle /\ integration \in [Channels -> Toggle]
  /\ linked \subseteq Channels
  /\ cool \in 0..(Cooldown + 1)
  /\ status \in [Keys -> {"none", "pending", "sent", "failed", "skipped"}]
  /\ attempts \in [Keys -> 0..MaxAttempts]
  /\ \A k \in Keys : status[k] = "pending" => attempts[k] < MaxAttempts
  /\ due \in [Keys -> Nat]
  /\ pc \in [Digests -> {"check", "load", "record", "done"}]
  /\ listed \in [Digests -> SUBSET Channels]
  /\ work \in [Senders -> SUBSET Job]
  /\ sending \in [Senders -> Send \cup {Idle}]
  /\ left \in [Senders -> 0..SendTime]
  /\ mishaps \in 0..MaxMishaps /\ edits \in 0..MaxEdits
  /\ requests \in [Keys -> Nat] /\ unwritten \in [Keys -> Nat]

Init ==
  /\ rule = "on"
  /\ integration = [c \in Channels |-> "on"]
  /\ linked = Channels
  /\ cool = 0
  /\ status = [k \in Keys |-> "none"]
  /\ attempts = [k \in Keys |-> 0]
  /\ due = [k \in Keys |-> 0]
  /\ pc = [r \in Digests |-> "check"]
  /\ listed = [r \in Digests |-> {}]
  /\ work = [s \in Senders |-> {}]
  /\ sending = [s \in Senders |-> Idle]
  /\ left = [s \in Senders |-> 0]
  /\ mishaps = 0 /\ edits = 0
  /\ requests = [k \in Keys |-> 0]
  /\ unwritten = [k \in Keys |-> 0]

Mishap == mishaps < MaxMishaps /\ mishaps' = mishaps + 1

-----------------------------------------------------------------------------
(* A digest fires the rule *)

Recorded(e) == \E c \in Channels : status[<<e, c>>] # "none"

Routed(c) == rule # "deleted" /\ c \in linked

\* The rule is on, has no row of this event and has enabled channels.
Check(r) ==
  /\ pc[r] = "check"
  /\ LET channels == {c \in linked : integration[c] = "on"}
     IN  IF rule = "on" /\ ~Recorded(EventOf[r]) /\ channels # {}
         THEN /\ listed' = [listed EXCEPT ![r] = channels]
              /\ pc' = [pc EXCEPT ![r] = "load"]
         ELSE /\ pc' = [pc EXCEPT ![r] = "done"]
              /\ UNCHANGED listed
  /\ UNCHANGED <<ruleVars, rowVars, sendVars, envVars, historyVars>>

\* Each integration is loaded; one deleted since ends the digest.
Load(r) ==
  /\ pc[r] = "load"
  /\ pc' = [pc EXCEPT ![r] = IF \E c \in listed[r] : integration[c] = "deleted"
                             THEN "done" ELSE "record"]
  /\ UNCHANGED <<ruleVars, rowVars, listed, sendVars, envVars, historyVars>>

\* Mutant: a new row carries no lease.
RecordUnleased(r) ==
  /\ pc[r] = "record"
  /\ LET new == {k \in {EventOf[r]} \X listed[r] : status[k] = "none"}
     IN  /\ status' = [k \in Keys |-> IF k \in new THEN "pending" ELSE status[k]]
         /\ work' = [work EXCEPT ![r] = {[key |-> k, attempts |-> 0] : k \in new}]
  /\ pc' = [pc EXCEPT ![r] = "done"]
  /\ UNCHANGED <<ruleVars, attempts, due, listed, sending, left, envVars, historyVars>>

\* One transaction reserves the cooldown and inserts a row for each channel
\* that has none; the dispatch task is spawned with the rows it inserted, a
\* suppressed rule's are skipped.  A rule or integration deleted since fails
\* the foreign key, and the event is digested again.
Record(r) ==
  /\ pc[r] = "record"
  /\ IF rule = "deleted" \/ \E c \in listed[r] : integration[c] = "deleted"
     THEN /\ pc' = [pc EXCEPT ![r] = "check"]
          /\ UNCHANGED <<cool, status, due, work>>
     ELSE /\ pc' = [pc EXCEPT ![r] = "done"]
          /\ LET new == {k \in {EventOf[r]} \X listed[r] : status[k] = "none"}
                 born(state) == [k \in Keys |-> IF k \in new THEN state ELSE status[k]]
             IN  IF cool > 0
                 THEN status' = born("skipped") /\ UNCHANGED <<cool, due, work>>
                 ELSE /\ status' = born("pending")
                      /\ cool' = IF Cooldown = 0 THEN 0 ELSE Cooldown + 1
                      /\ due' = [k \in Keys |-> IF k \in new THEN Lease ELSE due[k]]
                      /\ work' = [work EXCEPT ![r] = {[key |-> k, attempts |-> 0] : k \in new}]
  /\ UNCHANGED <<rule, integration, linked, attempts, listed, sending, left,
                 envVars, historyVars>>

\* Mutant: the cooldown is reserved outside the transaction.
RecordFailsReserved(r) ==
  /\ pc[r] = "record"
  /\ Mishap
  /\ pc' = [pc EXCEPT ![r] = "check"]
  /\ cool' = IF cool > 0 \/ Cooldown = 0 THEN cool ELSE Cooldown + 1
  /\ UNCHANGED <<rule, integration, linked, rowVars, listed, sendVars, edits, historyVars>>

\* The transaction fails; the event's file is kept and digested again.
RecordFails(r) ==
  /\ pc[r] = "record"
  /\ Mishap
  /\ pc' = [pc EXCEPT ![r] = "check"]
  /\ UNCHANGED <<ruleVars, rowVars, listed, sendVars, edits, historyVars>>

-----------------------------------------------------------------------------
(* The retry worker claims *)

Due(k) == status[k] = "pending" /\ due[k] = 0 /\ attempts[k] < MaxAttempts

\* One statement takes the due rows and renews their lease.
Claim ==
  /\ work[Worker] = {} /\ sending[Worker] = Idle
  /\ LET claimed == {k \in Keys : Due(k)}
     IN  /\ claimed # {}
         /\ due' = [k \in Keys |-> IF k \in claimed THEN Lease ELSE due[k]]
         /\ work' = [work EXCEPT ![Worker] =
                       {[key |-> k, attempts |-> attempts[k]] : k \in claimed}]
  /\ UNCHANGED <<ruleVars, status, attempts, runVars, sending, left, envVars, historyVars>>

-----------------------------------------------------------------------------
(* A sender goes through its deliveries one by one *)

\* It loads the integration and sends.  The worker also asks whether the rule
\* still has the channel.
StartSend(s) ==
  /\ sending[s] = Idle
  /\ \E j \in work[s] :
       LET c == j.key[2]
       IN  /\ integration[c] # "deleted"
           /\ s = Worker => Routed(c)
           /\ work' = [work EXCEPT ![s] = @ \ {j}]
           /\ sending' = [sending EXCEPT ![s] =
                [key |-> j.key, attempts |-> j.attempts, live |-> integration[c] = "on"]]
           /\ requests' = IF integration[c] = "on"
                          THEN [requests EXCEPT ![j.key] = @ + 1] ELSE requests
  /\ left' = [left EXCEPT ![s] = SendTime]
  /\ UNCHANGED <<ruleVars, rowVars, runVars, envVars, unwritten>>

\* Mutant: the worker passes over a delivery whose channel is gone.
SkipUnroutedLeaves(s) ==
  /\ sending[s] = Idle
  /\ \E j \in work[s] :
       /\ integration[j.key[2]] = "deleted" \/ (s = Worker /\ ~Routed(j.key[2]))
       /\ work' = [work EXCEPT ![s] = @ \ {j}]
  /\ UNCHANGED <<ruleVars, rowVars, runVars, sending, left, envVars, historyVars>>

\* A delivery that has lost its integration, channel or rule: the worker fails
\* it, a dispatch task leaves it to the worker.
SkipUnrouted(s) ==
  /\ sending[s] = Idle
  /\ \E j \in work[s] :
       /\ IF s = Worker
          THEN /\ ~Routed(j.key[2])
               /\ status' = [status EXCEPT ![j.key] = "failed"]
          ELSE /\ integration[j.key[2]] = "deleted"
               /\ UNCHANGED status
       /\ work' = [work EXCEPT ![s] = @ \ {j}]
  /\ UNCHANGED <<ruleVars, attempts, due, runVars, sending, left, envVars, historyVars>>

WaitsFor(s, k) == sending[s] # Idle /\ sending[s].key = k

Answered(s) ==
  /\ sending' = [sending EXCEPT ![s] = Idle]
  /\ left' = [left EXCEPT ![s] = 0]

\* The endpoint answers that it has accepted the request.  One to a disabled
\* integration is never sent and counts as a success all the same.
Succeed(s) ==
  /\ sending[s] # Idle
  /\ status' = [status EXCEPT ![sending[s].key] = "sent"]
  /\ Answered(s)
  /\ UNCHANGED <<ruleVars, attempts, due, runVars, work, envVars, historyVars>>

\* Refused, or no answer in time, though the endpoint may have accepted it: the
\* code does not tell these apart. The attempt counts, and the delivery is tried
\* again later until its attempts are used up.
Fail(s) ==
  /\ sending[s] # Idle
  /\ sending[s].live
  /\ LET k == sending[s].key
         n == sending[s].attempts + 1
     IN  /\ attempts' = [attempts EXCEPT ![k] = n]
         /\ IF n >= MaxAttempts
            THEN /\ status' = [status EXCEPT ![k] = "failed"]
                 /\ UNCHANGED due
            ELSE /\ status' = [status EXCEPT ![k] = "pending"]
                 /\ due' = [due EXCEPT ![k] = Backoff[n]]
  /\ Answered(s)
  /\ UNCHANGED <<ruleVars, runVars, work, envVars, historyVars>>

\* The outcome, whatever it was, could not be written: the row keeps its lease.
Unrecorded(s) ==
  /\ sending[s] # Idle
  /\ Mishap
  /\ unwritten' = IF sending[s].live
                  THEN [unwritten EXCEPT ![sending[s].key] = @ + 1] ELSE unwritten
  /\ Answered(s)
  /\ UNCHANGED <<ruleVars, rowVars, runVars, work, edits, requests>>

\* A statement of the worker's own fails: it gives up the rest of its batch.
WorkerGivesUp ==
  /\ work[Worker] # {} /\ sending[Worker] = Idle
  /\ Mishap
  /\ work' = [work EXCEPT ![Worker] = {}]
  /\ UNCHANGED <<ruleVars, rowVars, runVars, sending, left, edits, historyVars>>

-----------------------------------------------------------------------------
(* The clock, the administrator, and crashes *)

Less(t) == IF t = 0 THEN 0 ELSE t - 1

Tick ==
  /\ \A s \in Senders : IF sending[s] = Idle THEN work[s] = {} ELSE left[s] > 0
  /\ due' = [k \in Keys |-> Less(due[k])]
  /\ left' = [s \in Senders |-> Less(left[s])]
  /\ cool' = Less(cool)
  /\ <<due', left', cool'>> # <<due, left, cool>>
  /\ UNCHANGED <<rule, integration, linked, status, attempts, runVars, work,
                 sending, envVars, historyVars>>

Edit ==
  /\ edits < MaxEdits
  /\ edits' = edits + 1
  /\ UNCHANGED <<cool, rowVars, runVars, sendVars, mishaps, historyVars>>

\* update_rule and delete_rule; the rule's channels go with it.
SetRule ==
  /\ Edit
  /\ rule # "deleted"
  /\ \/ rule' \in {"on", "off"} \ {rule} /\ UNCHANGED linked
     \/ rule' = "deleted" /\ linked' = {}
     \/ \E c \in linked : linked' = linked \ {c} /\ UNCHANGED rule
  /\ UNCHANGED integration

\* update_channel and delete_channel.
SetIntegration ==
  /\ Edit
  /\ \E c \in Channels, state \in Toggle :
       /\ integration[c] \notin {"deleted", state}
       /\ integration' = [integration EXCEPT ![c] = state]
       /\ linked' = IF state = "deleted" THEN linked \ {c} ELSE linked
  /\ UNCHANGED rule

\* Digests start again from their files, which may still be there; what was
\* being sent may have reached its endpoint or not.
Kill ==
  /\ Mishap
  /\ pc' = [r \in Digests |-> "check"]
  /\ work' = [s \in Senders |-> {}]
  /\ sending' = [s \in Senders |-> Idle]
  /\ left' = [s \in Senders |-> 0]
  /\ unwritten' = [k \in Keys |-> unwritten[k] +
       Cardinality({s \in Senders : WaitsFor(s, k) /\ sending[s].live})]
  /\ UNCHANGED <<ruleVars, rowVars, listed, edits, requests>>

-----------------------------------------------------------------------------
DigestStep(r) == Check(r) \/ Load(r) \/ Record(r) \/ RecordFails(r)

SenderStep(s) ==
  StartSend(s) \/ SkipUnrouted(s) \/ Succeed(s) \/ Fail(s) \/ Unrecorded(s)

Next ==
  \/ \E r \in Digests : DigestStep(r)
  \/ \E s \in Senders : SenderStep(s)
  \/ Claim \/ WorkerGivesUp
  \/ Tick \/ SetRule \/ SetIntegration \/ Kill

Spec == Init /\ [][Next]_vars

\* Tasks run, and time passes.
Fairness ==
  /\ \A r \in Digests : WF_vars(DigestStep(r))
  /\ \A s \in Senders : WF_vars(SenderStep(s))
  /\ WF_vars(Claim) /\ WF_vars(Tick)

FairSpec == Spec /\ Fairness

-----------------------------------------------------------------------------
(* Properties *)

\* "An in-flight delivery is never re-claimed and double-sent"
\* (RETRY_CLAIM_LEASE_SECS): no two senders wait for the answer to one delivery,
\* and nobody sends one whose success is recorded. So a request is made for it
\* again only after an attempt the row counts as failed, which may have timed out
\* and been accepted all the same, or after one whose outcome a crash or a
\* failing database kept from the row: an endpoint that accepts whatever it gets
\* accepts it no more often than these and the last.
NeverDoubleSent ==
  \A k \in Keys :
    LET waits == \E s \in Senders : WaitsFor(s, k)
    IN  /\ \A s, other \in Senders : WaitsFor(s, k) /\ WaitsFor(other, k) => s = other
        /\ waits => status[k] = "pending"
        /\ requests[k] <= attempts[k] + unwritten[k]
                          + IF waits \/ status[k] = "sent" THEN 1 ELSE 0

\* A recorded delivery is settled in the end and stays so, through crashes
\* between its commit and its dispatch and whatever happens to its rule and
\* channel: no late answer, replay or claim takes it back to the queue.
Settles == \A k \in Keys : status[k] = "pending" ~> [](status[k] # "pending")

\* The cooldown drops an alert only after another one of its rule: it is
\* reserved in the transaction that records that one (reserve_cooldown). The
\* rule has one clock, so the other alert may be about another issue. It is
\* about another event, unless the rule's channels change while two digests of
\* one event overlap.
SuppressedAfterNotice ==
  \A k \in Keys : status[k] = "skipped" =>
    \E other \in Keys : other[1] # k[1] /\ status[other] \in {"pending", "sent", "failed"}
=============================================================================
