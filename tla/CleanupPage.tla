----------------------------- MODULE CleanupPage -----------------------------
(***************************************************************************)
(* The storage page of one tab following the server's cleanup              *)
(* (use-cleanup-job.ts, delete-dialog.tsx, use-retention-draft.ts), and the*)
(* server's job as the page meets it: begun here, by another tab or by the *)
(* schedule, ended, or forgotten in a restart.                             *)
(*                                                                         *)
(* The page reads the status every two seconds while the cached one says   *)
(* running, and again with everything under 'storage' when a mutation has  *)
(* settled; the mutation waits for those reads before its caller goes on.  *)
(***************************************************************************)
EXTENDS CleanupJob

CONSTANTS
  MaxStarts,         \* bound: cleanups asked for on this page
  MaxRestarts,       \* bound: restarts of the server
  MaxFailures        \* bound: reads of the status that fail

ASSUME PageAssumption == {MaxStarts, MaxRestarts, MaxFailures} \subseteq Nat

VARIABLES
  open,              \* the page is mounted
  status,            \* the cached status
  poll,              \* the read of the status in flight
  seen,              \* runningRef; the run's number for the history, 0 when not set
  start,             \* the mutation that starts a cleanup
  waits,             \* the reads the settled mutation waits for
  told,              \* history: the outcomes announced, per run
  starts, restarts, failures

pageVars == <<open, status, poll, seen, start, waits, told, starts, restarts, failures>>

NoPoll == [is |-> "none"]
Idle == [is |-> "idle"]

PageInit ==
  /\ open = FALSE
  /\ status = [n |-> 0, state |-> "unknown"]
  /\ poll = NoPoll
  /\ seen = 0
  /\ start = Idle
  /\ waits = {}
  /\ told = [n \in 0..MaxJobs |-> 0]
  /\ starts = 0 /\ restarts = 0 /\ failures = 0

\* CleanupJob::status, as an answer carries it.
Status == [n |-> job.n, state |-> job.state]

-----------------------------------------------------------------------------
(* The server *)

ServerBegins == Begin /\ UNCHANGED pageVars
ServerEnds == End /\ UNCHANGED pageVars

\* The status is in memory: a restart leaves an idle job.
Restart ==
  /\ restarts < MaxRestarts
  /\ restarts' = restarts + 1
  /\ job' = [job EXCEPT !.state = "idle", !.finished = 0]
  /\ UNCHANGED <<ends, figureVars, open, status, poll, seen, start, waits, told, starts, failures>>

-----------------------------------------------------------------------------
(* The hook *)

\* A new status reaches the cache, and the effect runs if the page is open: a
\* running one is seen; one that is not is announced if the last was seen, and
\* everything is read again.
Cache(s) ==
  /\ status' = s
  /\ CASE ~open -> UNCHANGED <<seen, told>>
       [] open /\ s.state = "running" -> seen' = s.n /\ UNCHANGED told
       [] OTHER ->
            /\ seen' = 0
            /\ told' = IF seen = 0 THEN told ELSE [told EXCEPT ![s.n] = @ + 1]

\* Whether that effect invalidates: a read of the status replaces the one in flight.
Announces(s) == open /\ s.state # "running" /\ seen # 0

PollAfter(s) == IF Announces(s) THEN [is |-> "asked"] ELSE NoPoll

\* The page is opened, on what the cache holds.
Visit ==
  /\ ~open
  /\ open' = TRUE
  /\ seen' = IF status.state = "running" THEN status.n ELSE 0
  /\ poll' = [is |-> "asked"]
  /\ UNCHANGED <<job, ends, figureVars, status, start, waits, told, starts, restarts, failures>>

\* Nobody reads the status any more; a mutation goes on without the page.
Leave ==
  /\ open
  /\ open' = FALSE
  /\ seen' = 0 /\ poll' = NoPoll /\ waits' = {}
  /\ UNCHANGED <<job, ends, figureVars, status, start, told, starts, restarts, failures>>

\* A mutant: a read that failed ends the polling.
PollUntilFailure ==
  /\ open /\ poll = NoPoll /\ failures = 0
  /\ status.state = "running"
  /\ poll' = [is |-> "asked"]
  /\ UNCHANGED <<job, ends, figureVars, open, status, seen, start, waits, told,
                 starts, restarts, failures>>

\* The next poll, two seconds after the last answer.
Poll ==
  /\ open /\ poll = NoPoll
  /\ status.state = "running"
  /\ poll' = [is |-> "asked"]
  /\ UNCHANGED <<job, ends, figureVars, open, status, seen, start, waits, told,
                 starts, restarts, failures>>

\* The tab is looked at again: what is stale is read.
Focus ==
  /\ open /\ poll = NoPoll
  /\ status.state # "running"
  /\ poll' = [is |-> "asked"]
  /\ UNCHANGED <<job, ends, figureVars, open, status, seen, start, waits, told,
                 starts, restarts, failures>>

AnswerPoll ==
  /\ poll.is = "asked"
  /\ poll' = [is |-> "answered", status |-> Status]
  /\ UNCHANGED <<job, ends, figureVars, open, status, seen, start, waits, told,
                 starts, restarts, failures>>

PollLands ==
  /\ poll.is = "answered"
  /\ Cache(poll.status)
  /\ poll' = PollAfter(poll.status)
  /\ waits' = waits \ {"status"}
  /\ UNCHANGED <<job, ends, figureVars, open, start, starts, restarts, failures>>

PollFails ==
  /\ poll # NoPoll
  /\ failures < MaxFailures
  /\ failures' = failures + 1
  /\ poll' = NoPoll
  /\ waits' = waits \ {"status"}
  /\ UNCHANGED <<job, ends, figureVars, open, status, seen, start, told, starts, restarts>>

-----------------------------------------------------------------------------
(* Starting a cleanup *)

\* The buttons are disabled while the cached status says running.
Start ==
  /\ open /\ start = Idle /\ status.state # "running"
  /\ starts < MaxStarts
  /\ starts' = starts + 1
  /\ start' = [is |-> "asked"]
  /\ UNCHANGED <<job, ends, figureVars, open, status, poll, seen, waits, told, restarts, failures>>

\* Started, or refused with a conflict; or started and the answer lost.
AnswerStart ==
  /\ start.is = "asked"
  /\ \/ /\ job.n < MaxJobs /\ Begins
        /\ \E answer \in {[is |-> "started", status |-> [n |-> job'.n, state |-> job'.state]],
                          [is |-> "failed"]} : start' = answer
     \/ Running /\ start' = [is |-> "failed"] /\ UNCHANGED job
  /\ UNCHANGED <<ends, figureVars, open, status, poll, seen, waits, told, starts, restarts, failures>>

\* A mutant: the reads in flight go on, and nobody waits for them.
SettleAtOnce ==
  /\ start.is \in {"started", "failed"}
  /\ start' = [is |-> "settled",
               follow |-> IF start.is = "started" THEN <<start.status>> ELSE <<>>]
  /\ UNCHANGED <<job, ends, figureVars, open, status, poll, seen, waits, told,
                 starts, restarts, failures>>

\* Settled either way: all of 'storage' is read again, in place of what was in flight.
Settle ==
  /\ start.is \in {"started", "failed"}
  /\ start' = [is |-> "settled",
               follow |-> IF start.is = "started" THEN <<start.status>> ELSE <<>>]
  /\ IF open THEN poll' = [is |-> "asked"] /\ waits' = {"status", "counts"}
     ELSE UNCHANGED <<poll, waits>>
  /\ UNCHANGED <<job, ends, figureVars, open, status, seen, told, starts, restarts, failures>>

\* The dry runs of the open dialog and the figures are in.
Counted ==
  /\ "counts" \in waits
  /\ waits' = waits \ {"counts"}
  /\ UNCHANGED <<job, ends, figureVars, open, status, poll, seen, start, told,
                 starts, restarts, failures>>

\* follow: the started job goes into the cache.
Follow ==
  /\ start.is = "settled" /\ waits = {}
  /\ start' = Idle
  /\ IF start.follow = <<>> THEN UNCHANGED <<status, seen, told>> ELSE Cache(start.follow[1])
  /\ UNCHANGED <<job, ends, figureVars, open, poll, waits, starts, restarts, failures>>

PageNext ==
  \/ ServerBegins \/ ServerEnds \/ Restart
  \/ Visit \/ Leave \/ Poll \/ Focus \/ AnswerPoll \/ PollLands \/ PollFails
  \/ Start \/ AnswerStart \/ Settle \/ Counted \/ Follow

\* A run ends, polls go on and are answered, and started mutations settle: in a
\* tab that is looked at, for polling pauses while it is hidden.
PageFairness ==
  /\ WF_<<cleanupVars, pageVars>>(ServerEnds)
  /\ WF_<<cleanupVars, pageVars>>(Poll)
  /\ WF_<<cleanupVars, pageVars>>(AnswerPoll)
  /\ WF_<<cleanupVars, pageVars>>(PollLands)
  /\ WF_<<cleanupVars, pageVars>>(AnswerStart)
  /\ WF_<<cleanupVars, pageVars>>(Settle)
  /\ WF_<<cleanupVars, pageVars>>(Counted)
  /\ WF_<<cleanupVars, pageVars>>(Follow)

PageSpec == CleanupInit /\ PageInit /\ [][PageNext]_<<cleanupVars, pageVars>>

FairPageSpec == PageSpec /\ PageFairness

-----------------------------------------------------------------------------
(* Properties *)

\* "Only a job seen running is announced when it stops, not the last one's
\* outcome on arrival": no announcement is of a run older than the one seen.
NeverAnOldOutcome ==
  [][\A run \in DOMAIN told : told'[run] # told[run] => seen # 0 /\ run >= seen]_<<cleanupVars, pageVars>>

\* A job seen running is told of, unless the page is left.
SeenIsTold == seen # 0 ~> seen = 0
==============================================================================
