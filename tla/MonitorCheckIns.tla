--------------------------- MODULE MonitorCheckIns ---------------------------
(***************************************************************************)
(* The cron monitors of the Rustrak server: one environment of one monitor *)
(* on an interval schedule, its check-ins and the sweep that marks missed  *)
(* and timed-out ones (SQLite build: a transaction is one step).           *)
(*                                                                         *)
(* A check-in is stamped when its request arrives and recorded when its    *)
(* transaction gets the write lock, so two are recorded in either order.   *)
(* The sweep reads what is due without a lock and handles each find in a   *)
(* transaction of its own.  What becomes of a reported failure is          *)
(* DigestPipeline's part: a report is an event like any other.             *)
(***************************************************************************)
EXTENDS Integers, FiniteSets

CONSTANTS
  Runs,              \* runs of the job: check-ins with an id of their own
  Requests,          \* the requests that check in
  RunOf, StatusOf,   \* a request's run, and the statuses it may carry
  WithConfig,        \* requests that carry a monitor_config
  Interval,          \* MonitorConfig.schedule, minutes
  Margin,            \* MonitorConfig.checkin_margin
  MaxRuntime,        \* MonitorConfig.max_runtime
  Ceiling,           \* MAX_MAX_RUNTIME
  FailureThreshold, RecoveryThreshold,
  None,
  MaxLookups,        \* waits for a monitor that does not exist yet (3)
  LastArrival,       \* bound: no request arrives later
  LastMinute,        \* bound: the clock stops there
  MaxMishaps         \* bound: kills, failed transactions of the sweep, toggles

ASSUME MonitorAssumption ==
  /\ RunOf \in [Requests -> Runs]
  /\ StatusOf \in [Requests -> SUBSET {"in_progress", "ok", "error"}]
  /\ WithConfig \subseteq Requests
  /\ {Interval, MaxRuntime, FailureThreshold, RecoveryThreshold} \subseteq Nat \ {0}
  /\ {Margin, Ceiling, MaxLookups, LastArrival, LastMinute, MaxMishaps} \subseteq Nat
  /\ None \notin Nat /\ Runs \cap Nat = {}

VARIABLES
  clock,             \* minutes
  request,           \* each request: unsent, when it was received, or answered
  lookups,           \* times it looked for a monitor that was not there
  exists,            \* whether the monitor is there
  rows,              \* monitor_checkins
  env,               \* the row of monitor_environments
  sweep,             \* the sweep: its step, what its reads found
  swept,             \* the minute the last sweep began in
  cronsOff,          \* the project drops check-ins
  mishaps,
  reported           \* history: how often each check-in was reported

monitorVars == <<clock, request, lookups, exists, rows, env, sweep, swept, cronsOff, mishaps, reported>>

Statuses == {"in_progress", "ok", "error", "missed", "timeout"}
\* The missed check-ins are numbered.
Ids == Runs \cup 1..LastMinute
Min2(a, b) == IF a < b THEN a ELSE b

\* A request that has its answer is forgotten.
Unsent == [is |-> "unsent", at |-> 0, status |-> None]
Answered == [is |-> "answered", at |-> 0, status |-> None]

Idle == [step |-> "idle", due |-> FALSE, open |-> {}]

MonitorInit ==
  /\ clock = 0
  /\ request = [q \in Requests |-> Unsent]
  /\ lookups = [q \in Requests |-> 0]
  /\ exists = FALSE
  /\ rows = {}
  /\ env = [status |-> "active", next |-> None, last |-> None]
  /\ sweep = Idle
  /\ swept = 0
  /\ cronsOff = FALSE
  /\ mishaps = 0
  /\ reported = [id \in Ids |-> 0]

-----------------------------------------------------------------------------
(* What a transaction reads *)

\* A row by its check-in id.  A missed check-in has a number of its own.
RowsOf(id) == {c \in rows : c.id = id}
Replace(c, d) == (rows \ {c}) \cup {d}

\* has_newer_result: a result that came from the job, of a later run.
HasNewerResult(table, at) ==
  \E c \in table : c.added > at /\ c.status \in {"ok", "error"}

\* recent_statuses: the newest rows, `n` of them if there are as many; rows of
\* one minute are in no particular order.
Recent(table, n) ==
  {s \in SUBSET table :
     /\ Cardinality(s) = Min2(n, Cardinality(table))
     /\ \A c \in s, d \in table \ s : c.added >= d.added}

\* update_environment: the schedule goes on from `reference`.
Moved(e, last, reference) ==
  [e EXCEPT !.last = last, !.next = reference + Interval]

\* next_checkin_latest
Latest(e) == e.next + Margin

\* prev_checkin: the last slot strictly before `now`, counted from `start`.
PrevSlot(start, now) ==
  IF now <= start THEN start
  ELSE start + ((now - start - 1) \div Interval) * Interval

\* mark_failed: an incident opens once the newest check-ins up to this one are
\* failures, and every failure of an open incident is reported.
MarkFailed(table, e, c) ==
  LET upTo == {d \in table : d.added <= c.added} IN
  \E recent \in Recent(upTo, FailureThreshold) :
    LET opens == \/ FailureThreshold = 1
                 \/ /\ Cardinality(recent) = FailureThreshold
                    /\ \A d \in recent : d.status # "ok"
        failing == e.status = "error" \/ opens IN
    /\ env' = [e EXCEPT !.status = IF failing THEN "error" ELSE @]
    /\ reported' = IF failing THEN [reported EXCEPT ![c.id] = @ + 1] ELSE reported

\* Mutant: does not look for a later run's result.
MarkOkRegardless(table, c, received) ==
  \E recent \in Recent(table, RecoveryThreshold) :
    LET resolved == /\ c.status = "ok"
                    /\ \/ env.status = "ok"
                       \/ RecoveryThreshold = 1
                       \/ \A d \in recent : d.status = "ok"
        moves == env.last = None \/ env.last <= received IN
    env' = IF ~moves THEN env
           ELSE [Moved(env, c.added, received) EXCEPT
                   !.status = IF resolved THEN "ok" ELSE @]

\* mark_ok and try_resolution: unless a later run has a result, enough good
\* check-ins end the incident; the schedule moves unless
\* a later check-in has moved it.
MarkOk(table, c, received) ==
  \E recent \in Recent(table, RecoveryThreshold) :
    LET resolved == /\ ~HasNewerResult(table, c.added)
                    /\ c.status = "ok"
                    /\ \/ env.status = "ok"
                       \/ RecoveryThreshold = 1
                       \/ \A d \in recent : d.status = "ok"
        moves == env.last = None \/ env.last <= received IN
    env' = IF ~moves THEN env
           ELSE [Moved(env, c.added, received) EXCEPT
                   !.status = IF resolved THEN "ok" ELSE @]

-----------------------------------------------------------------------------
(* A check-in (ingest.rs process_check_in, MonitorService::process_check_in) *)

Open(q) == request[q].is = "open"

Answer(q) == request' = [request EXCEPT ![q] = Answered]

Arrive(q) ==
  /\ request[q] = Unsent
  /\ clock <= LastArrival
  /\ \E s \in StatusOf[q] :
        request' = [request EXCEPT ![q] =
          IF cronsOff THEN Answered ELSE [is |-> "open", at |-> clock, status |-> s]]
  /\ UNCHANGED <<clock, lookups, exists, rows, env, sweep, swept, cronsOff, mishaps, reported>>

\* The start of a first run, which brings the monitor, and its result are sent
\* at once: the result waits for it a few times.
NoMonitor(q) ==
  /\ Open(q) /\ ~exists /\ q \notin WithConfig
  /\ IF lookups[q] < MaxLookups
     THEN /\ lookups' = [lookups EXCEPT ![q] = @ + 1]
          /\ UNCHANGED request
     ELSE /\ Answer(q)
          /\ UNCHANGED lookups
  /\ UNCHANGED <<clock, exists, rows, env, sweep, swept, cronsOff,
                 mishaps, reported>>

\* update_existing, where it changes nothing: a start that comes after the
\* result, or a second result.
Changes(c, status) ==
  /\ c.status \in {"ok", "error"} => FALSE
  /\ c.status \in {"timeout", "missed"} => status # "in_progress"

Refuse(q) ==
  /\ Open(q) /\ exists
  /\ \E c \in RowsOf(RunOf[q]) : ~Changes(c, request[q].status)
  /\ Answer(q)
  /\ UNCHANGED <<clock, lookups, exists, rows, env, sweep, swept, cronsOff, mishaps, reported>>

\* Mutant: lets the late result win over the timeout.
UpdatedLate(c, status, received) ==
  IF status = "in_progress" THEN [c EXCEPT !.timeout = received + MaxRuntime]
  ELSE [c EXCEPT !.status = status]

\* The row a check-in is recorded in.  A failure the sweep recorded stays one; a
\* heartbeat pushes the timeout out, never past the ceiling.
Updated(c, status, received) ==
  CASE c.status = "timeout" -> c
    [] status = "in_progress" -> [c EXCEPT !.timeout = Min2(received + MaxRuntime, c.added + Ceiling)]
    [] OTHER -> [c EXCEPT !.status = status]

Stored(q) ==
  LET old == RowsOf(RunOf[q])
      received == request[q].at
      status == request[q].status IN
  IF old = {}
  THEN [id |-> RunOf[q], status |-> status, added |-> received,
        timeout |-> received + MaxRuntime]
  ELSE Updated(CHOOSE c \in old : TRUE, status, received)

Record(q) ==
  /\ Open(q) /\ (exists \/ q \in WithConfig)
  /\ \A c \in RowsOf(RunOf[q]) : Changes(c, request[q].status)
  /\ LET c == Stored(q)
         table == (rows \ RowsOf(c.id)) \cup {c} IN
     /\ rows' = table
     /\ \/ /\ c.status = "error" /\ HasNewerResult(table, c.added)
           /\ UNCHANGED <<env, reported>>
        \/ /\ c.status = "error" /\ ~HasNewerResult(table, c.added)
           /\ MarkFailed(table, Moved(env, c.added, request[q].at), c)
        \/ /\ c.status # "error"
           /\ MarkOk(table, c, request[q].at)
           /\ UNCHANGED reported
  /\ exists' = TRUE
  /\ Answer(q)
  /\ UNCHANGED <<clock, lookups, sweep, swept, cronsOff, mishaps>>

-----------------------------------------------------------------------------
(* The sweep (MonitorSweepJob, MonitorService::sweep) *)

Due(now) == env.next # None /\ Latest(env) <= now
Overdue(now) == {c \in rows : c.status = "in_progress" /\ c.timeout <= now}

SweepStart ==
  /\ sweep.step = "idle" /\ (swept < clock \/ clock = LastMinute)
  /\ swept' = clock
  /\ sweep' = [step |-> "missed", due |-> Due(clock), open |-> {}]
  /\ UNCHANGED <<clock, request, lookups, exists, rows, env, cronsOff,
                 mishaps, reported>>

\* sweep_missed: looks again under the lock.  With crons off the schedule moves
\* and nothing is missed.
Miss(now) ==
  LET c == [id |-> Cardinality({d \in rows : d.status = "missed"}) + 1,
            status |-> "missed", added |-> env.next, timeout |-> None]
      on == Moved(env, env.last, PrevSlot(env.next, now)) IN
  IF cronsOff
  THEN env' = on /\ UNCHANGED <<rows, reported>>
  ELSE /\ rows' = rows \cup {c}
       /\ MarkFailed(rows \cup {c}, on, c)

SweepMissed ==
  /\ sweep.step = "missed"
  /\ IF sweep.due /\ Due(swept) THEN Miss(swept)
     ELSE UNCHANGED <<rows, env, reported>>
  /\ sweep' = [sweep EXCEPT !.step = "scan"]
  /\ UNCHANGED <<clock, request, lookups, exists, swept, cronsOff, mishaps>>

\* Mutant: a sweep that looks at the open runs of due environments only.
SweepScanDue ==
  /\ sweep.step = "scan"
  /\ sweep' = [sweep EXCEPT !.step = "timeouts",
                            !.open = IF sweep.due THEN {c.id : c \in Overdue(swept)} ELSE {}]
  /\ UNCHANGED <<clock, request, lookups, exists, rows, env, swept, cronsOff, mishaps, reported>>

SweepScan ==
  /\ sweep.step = "scan"
  /\ sweep' = [sweep EXCEPT !.step = "timeouts", !.open = {c.id : c \in Overdue(swept)}]
  /\ UNCHANGED <<clock, request, lookups, exists, rows, env, swept, cronsOff, mishaps, reported>>

\* sweep_timeout: a heartbeat or the result may have come since the scan.
TimeOut(c) ==
  LET d == [c EXCEPT !.status = "timeout"] IN
  /\ rows' = Replace(c, d)
  /\ IF cronsOff \/ HasNewerResult(rows', c.added)
     THEN UNCHANGED <<env, reported>>
     ELSE MarkFailed(Replace(c, d), env, d)

StillOverdue(id) == {c \in Overdue(swept) : c.id = id}

SweepTimeout(id) ==
  /\ sweep.step = "timeouts" /\ id \in sweep.open
  /\ \/ \E c \in StillOverdue(id) : TimeOut(c)
     \/ StillOverdue(id) = {} /\ UNCHANGED <<rows, env, reported>>
  /\ sweep' = [sweep EXCEPT !.open = @ \ {id}]
  /\ UNCHANGED <<clock, request, lookups, exists, swept, cronsOff, mishaps>>

SweepEnd ==
  /\ sweep.step = "timeouts" /\ sweep.open = {}
  /\ sweep' = Idle
  /\ UNCHANGED <<clock, request, lookups, exists, rows, env, swept, cronsOff, mishaps, reported>>

\* One transaction of the sweep fails: it is logged and skipped.
SweepSkips ==
  /\ mishaps < MaxMishaps
  /\ \/ sweep.step = "missed" /\ sweep' = [sweep EXCEPT !.step = "scan"]
     \/ \E id \in sweep.open : sweep' = [sweep EXCEPT !.open = @ \ {id}]
  /\ mishaps' = mishaps + 1
  /\ UNCHANGED <<clock, request, lookups, exists, rows, env, swept, cronsOff, reported>>

-----------------------------------------------------------------------------
(* The process, the project, the clock *)

\* A request the kill takes is one that is never recorded.
Kill ==
  /\ mishaps < MaxMishaps
  /\ sweep.step # "idle"
  /\ sweep' = Idle
  /\ mishaps' = mishaps + 1
  /\ UNCHANGED <<clock, request, lookups, exists, rows, env, swept, cronsOff, reported>>

\* Project::keeps, as the dashboard sets it.
Toggle ==
  /\ mishaps < MaxMishaps
  /\ cronsOff' = ~cronsOff
  /\ mishaps' = mishaps + 1
  /\ UNCHANGED <<clock, request, lookups, exists, rows, env, sweep, swept, reported>>

Minute ==
  /\ clock < LastMinute
  /\ clock' = clock + 1
  /\ UNCHANGED <<request, lookups, exists, rows, env, sweep, swept, cronsOff, mishaps, reported>>

SweepStep == SweepStart \/ SweepMissed \/ SweepScan \/ SweepEnd \/ SweepSkips
             \/ \E id \in Ids : SweepTimeout(id)
CheckIn(q) == NoMonitor(q) \/ Refuse(q) \/ Record(q)

MonitorNext ==
  \/ \E q \in Requests : Arrive(q) \/ CheckIn(q)
  \/ SweepStep
  \/ Kill \/ Toggle \/ Minute

\* The scheduler ticks each minute and the sweep works its finds off; requests
\* need no fairness.
MonitorFairness == WF_monitorVars(SweepStep) /\ WF_monitorVars(Minute)

MonitorSpec == MonitorInit /\ [][MonitorNext]_monitorVars
FairMonitorSpec == MonitorSpec /\ MonitorFairness

-----------------------------------------------------------------------------
(* Properties *)

\* The order check-ins are recorded in does not matter to a monitor that fails
\* at once (failure_issue_threshold 1): it is never well while the newest result
\* is an error (has_newer_result in process_check_in, mark_ok and sweep_timeout).
NewestResultDecides ==
  env.status = "ok" =>
    \A c \in rows : c.status = "error" =>
      \E d \in rows : d.added >= c.added /\ d.status = "ok"

\* A check-in that failed is reported once at the most, however its timeout,
\* its late result and their repetitions meet.
ReportedOnce == \A id \in Ids : reported[id] <= 1

\* A run that goes quiet is not left open: the sweep times it out.
OpenRunsEnd ==
  \A r \in Runs : (\E c \in RowsOf(r) : c.status = "in_progress")
                    ~> ~(\E c \in RowsOf(r) : c.status = "in_progress")
=============================================================================
