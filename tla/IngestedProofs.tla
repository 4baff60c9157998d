--------------------------- MODULE IngestedProofs ---------------------------
(***************************************************************************)
(* Proofs about what the server derives from what it ingests, one component*)
(* after the other, as MCIngested runs them: the results of monitors, sessions*)
(* and their counters, issues and theirs.                                  *)
(***************************************************************************)
EXTENDS MonitorCheckIns, SessionAggregator, IssueLifecycle, Sequences,
        FiniteSetTheorems, TLAPS

-----------------------------------------------------------------------------
(* Monitors, for any runs, requests, schedule and recovery threshold *)

CheckInRows == [id : Runs \cup (Nat \ {0}), status : Statuses, added : Nat, timeout : Nat \cup {None}]

Environments == [status : {"active", "ok", "error"}, next : Nat \cup {None}, last : Nat \cup {None}]

Arrived == [is : {"open"}, at : Nat, status : {"in_progress", "ok", "error"}]

Failures == {"error", "timeout", "missed"}

Missed(table) == {c \in table : c.status = "missed"}

MonitorTypeOK ==
  /\ clock \in Nat /\ swept \in Nat /\ mishaps \in Nat
  /\ request \in [Requests -> Arrived \cup {Unsent, Answered}]
  /\ lookups \in [Requests -> Nat]
  /\ exists \in BOOLEAN /\ cronsOff \in BOOLEAN
  /\ rows \subseteq CheckInRows /\ IsFiniteSet(rows)
  /\ env \in Environments
  /\ sweep \in [step : {"idle", "missed", "scan", "timeouts"}, due : BOOLEAN, open : SUBSET (Runs \cup Nat)]
  /\ reported \in [Ids -> Nat]

\* A check-in has one row; the missed ones, which no request brought, are
\* numbered and are the only ones.
RowsApart ==
  /\ \A c, d \in rows : c.id = d.id => c = d
  /\ \A c \in rows : c.status # "missed" => c.id \in Runs
  /\ \A c \in rows : c.status = "missed" => c.id \in Nat /\ c.id <= Cardinality(Missed(rows))

RowsInv == MonitorTypeOK /\ RowsApart

LEMMA SlotIsNat == ASSUME NEW start \in Nat, NEW now \in Nat PROVE PrevSlot(start, now) + Interval \in Nat
<1>1. CASE now <= start
  BY <1>1, MonitorAssumption DEF PrevSlot
<1>2. CASE ~(now <= start)
  <2> DEFINE slots == (now - start - 1) \div Interval
  <2>1. Interval \in Nat \ {0} /\ now - start - 1 \in Nat
    BY <1>2, MonitorAssumption
  <2>2. slots \in Nat
    BY <2>1
  <2> HIDE DEF slots
  <2>3. slots * Interval \in Nat
    BY <2>1, <2>2
  <2>4. PrevSlot(start, now) = start + slots * Interval
    BY <1>2 DEF PrevSlot, slots
  <2> QED
    BY <2>1, <2>3, <2>4
<1> QED
  BY <1>1, <1>2

\* mark_failed: the monitor fails at once where the threshold is one, and a
\* failure is reported once.
LEMMA Failed ==
  ASSUME MonitorTypeOK, NEW table, NEW e \in Environments, NEW c \in CheckInRows,
         MarkFailed(table, e, c)
  PROVE  /\ env' \in Environments
         /\ FailureThreshold = 1 => env'.status = "error"
         /\ reported' \in [Ids -> Nat]
         /\ \A id \in Ids : id # c.id => reported'[id] = reported[id]
         /\ \A id \in Ids : id = c.id => reported'[id] <= reported[id] + 1
<1>1. PICK failing \in BOOLEAN :
        /\ FailureThreshold = 1 => failing
        /\ env' = [e EXCEPT !.status = IF failing THEN "error" ELSE e.status]
        /\ reported' = IF failing THEN [reported EXCEPT ![c.id] = reported[c.id] + 1] ELSE reported
  BY DEF MarkFailed
<1>2. env' \in Environments /\ (FailureThreshold = 1 => env'.status = "error")
  BY <1>1 DEF Environments
<1>3. CASE failing
  <2>1. reported \in [Ids -> Nat] /\ reported' = [reported EXCEPT ![c.id] = reported[c.id] + 1]
    BY <1>1, <1>3 DEF MonitorTypeOK
  <2>2. \A id \in Ids : reported[id] \in Nat /\ reported[id] <= reported[id] + 1
    BY <2>1
  <2>3. reported' = [id \in Ids |-> IF id = c.id THEN reported[id] + 1 ELSE reported[id]]
    BY <2>1
  <2>4. reported' \in [Ids -> Nat]
    BY <2>2, <2>3
  <2> QED
    BY <1>2, <2>2, <2>3, <2>4
<1>4. CASE ~failing
  BY <1>1, <1>2, <1>4 DEF MonitorTypeOK
<1> QED
  BY <1>3, <1>4

\* mark_ok: only a result that no later run has outdone makes a monitor well.
LEMMA Succeeded ==
  ASSUME MonitorTypeOK, NEW table, NEW c \in CheckInRows, NEW received \in Nat,
         MarkOk(table, c, received)
  PROVE  /\ env' \in Environments
         /\ \/ env'.status = env.status
            \/ c.status = "ok" /\ ~HasNewerResult(table, c.added)
<1>1. received + Interval \in Nat /\ c.added \in Nat
  BY MonitorAssumption DEF CheckInRows
<1> QED
  BY <1>1 DEF MarkOk, Moved, MonitorTypeOK, Environments

\* The row a check-in leaves: a new one, or the one of its run while that is
\* open; a run that timed out stays so.
LEMMA RecordedRow ==
  ASSUME RowsInv, NEW q \in Requests, Record(q)
  PROVE  \E c \in CheckInRows :
           /\ c.id \in Runs /\ c.status \in {"in_progress", "ok", "error", "timeout"}
           /\ rows' = (rows \ RowsOf(c.id)) \cup {c}
           /\ \A d \in RowsOf(c.id) : d.status = "in_progress" \/ (d.status = "timeout" /\ c = d)
           /\ request[q].at \in Nat
           /\ \/ c.status = "error" /\ HasNewerResult(rows', c.added) /\ UNCHANGED <<env, reported>>
              \/ c.status = "error" /\ ~HasNewerResult(rows', c.added)
                   /\ MarkFailed(rows', Moved(env, c.added, request[q].at), c)
              \/ c.status # "error" /\ MarkOk(rows', c, request[q].at) /\ UNCHANGED reported
<1> DEFINE c == Stored(q)
           run == RunOf[q]
           old == CHOOSE d \in RowsOf(run) : TRUE
<1>1. run \in Runs
  BY MonitorAssumption
<1>2. request[q].at \in Nat /\ request[q].status \in {"in_progress", "ok", "error"}
  BY DEF Record, Open, RowsInv, MonitorTypeOK, Arrived, Unsent, Answered
<1>3. \A d \in RowsOf(run) :
        /\ d \in CheckInRows /\ d.id = run /\ d = old
        /\ d.status = "in_progress" \/ (d.status = "timeout" /\ request[q].status # "in_progress")
  <2> SUFFICES ASSUME NEW d \in RowsOf(run)
               PROVE  /\ d \in CheckInRows /\ d.id = run /\ d = old
                      /\ d.status = "in_progress" \/ (d.status = "timeout" /\ request[q].status # "in_progress")
    OBVIOUS
  <2>1. d \in rows /\ d \in CheckInRows /\ d.id = run
    BY DEF RowsOf, RowsInv, MonitorTypeOK
  <2>2. old \in RowsOf(run)
    OBVIOUS
  <2>3. d = old
    BY <2>1, <2>2 DEF RowsInv, RowsApart, RowsOf
  <2>4. d.status # "missed"
    BY <1>1, <2>1, MonitorAssumption DEF RowsInv, RowsApart
  <2>5. Changes(d, request[q].status)
    BY DEF Record
  <2> QED
    BY <2>1, <2>3, <2>4, <2>5 DEF Changes, CheckInRows, Statuses
<1>4. /\ c \in CheckInRows /\ c.id = run
      /\ c.status \in {"in_progress", "ok", "error", "timeout"}
      /\ \A d \in RowsOf(run) : d.status = "in_progress" \/ (d.status = "timeout" /\ c = d)
  <2>1. CASE RowsOf(run) = {}
    <3>1. c = [id |-> run, status |-> request[q].status, added |-> request[q].at,
               timeout |-> request[q].at + MaxRuntime]
      BY <2>1 DEF Stored
    <3> QED
      BY <1>1, <1>2, <2>1, <3>1, MonitorAssumption DEF CheckInRows, Statuses
  <2>2. CASE RowsOf(run) # {}
    <3>1. old \in RowsOf(run) /\ c = Updated(old, request[q].status, request[q].at)
      BY <2>2 DEF Stored
    <3> HIDE DEF c, old
    <3>2. /\ old \in CheckInRows /\ old.id = run
          /\ old.status = "in_progress" \/ (old.status = "timeout" /\ request[q].status # "in_progress")
      BY <1>3, <3>1
    <3>3. Min2(request[q].at + MaxRuntime, old.added + Ceiling) \in Nat
      BY <1>2, <3>2, MonitorAssumption DEF Min2, CheckInRows
    <3>4. CASE old.status = "timeout"
      <4>1. c = old
        BY <3>1, <3>2, <3>4 DEF Updated
      <4> QED
        BY <1>3, <3>2, <3>4, <4>1
    <3>5. CASE old.status # "timeout" /\ request[q].status = "in_progress"
      <4>1. c = [old EXCEPT !.timeout = Min2(request[q].at + MaxRuntime, old.added + Ceiling)]
        BY <3>1, <3>5 DEF Updated
      <4>2. c \in CheckInRows /\ c.id = run /\ c.status = "in_progress"
        BY <3>2, <3>3, <3>5, <4>1 DEF CheckInRows
      <4> QED
        BY <1>3, <3>5, <4>2
    <3>6. CASE old.status # "timeout" /\ request[q].status # "in_progress"
      <4>1. c = [old EXCEPT !.status = request[q].status]
        BY <3>1, <3>6 DEF Updated
      <4>2. c \in CheckInRows /\ c.id = run /\ c.status = request[q].status
        BY <1>2, <3>2, <4>1 DEF CheckInRows, Statuses
      <4> QED
        BY <1>2, <1>3, <3>6, <4>2
    <3> QED
      BY <3>4, <3>5, <3>6
  <2> QED
    BY <2>1, <2>2
<1>5. /\ rows' = (rows \ RowsOf(c.id)) \cup {c}
      /\ \/ c.status = "error" /\ HasNewerResult(rows', c.added) /\ UNCHANGED <<env, reported>>
         \/ c.status = "error" /\ ~HasNewerResult(rows', c.added)
              /\ MarkFailed(rows', Moved(env, c.added, request[q].at), c)
         \/ c.status # "error" /\ MarkOk(rows', c, request[q].at) /\ UNCHANGED reported
  BY DEF Record
<1> HIDE DEF c
<1> QED
  BY <1>1, <1>2, <1>4, <1>5

\* sweep_missed: a check-in nobody sent, with a number of its own, or none while
\* crons are off.
LEMMA MissedRow ==
  ASSUME RowsInv, NEW now \in Nat, Due(now), Miss(now)
  PROVE  \/ env' \in Environments /\ env'.status = env.status /\ UNCHANGED <<rows, reported>>
         \/ \E c \in CheckInRows, e \in Environments :
              /\ c.id = Cardinality(Missed(rows)) + 1 /\ c.status = "missed"
              /\ rows' = rows \cup {c}
              /\ MarkFailed(rows', e, c)
<1> DEFINE c == [id |-> Cardinality(Missed(rows)) + 1, status |-> "missed",
                 added |-> env.next, timeout |-> None]
           e == Moved(env, env.last, PrevSlot(env.next, now))
<1>1. env.next \in Nat /\ env.last \in Nat \cup {None}
  BY DEF Due, RowsInv, MonitorTypeOK, Environments
<1>2. e \in Environments /\ e.status = env.status
  BY <1>1, SlotIsNat DEF Moved, RowsInv, MonitorTypeOK, Environments
<1>3. Cardinality(Missed(rows)) \in Nat
  BY FS_Subset, FS_CardinalityType DEF Missed, RowsInv, MonitorTypeOK
<1>4. c \in CheckInRows
  BY <1>1, <1>3 DEF CheckInRows, Statuses
<1>5. CASE cronsOff
  BY <1>2, <1>5 DEF Miss
<1>6. CASE ~cronsOff
  <2>1. rows' = rows \cup {c} /\ MarkFailed(rows \cup {c}, e, c)
    BY <1>6 DEF Miss, Missed
  <2> HIDE DEF c, e
  <2>2. MarkFailed(rows', e, c)
    BY <2>1
  <2>3. c.id = Cardinality(Missed(rows)) + 1 /\ c.status = "missed"
    BY DEF c
  <2> QED
    BY <1>2, <1>4, <2>1, <2>2, <2>3
<1> QED
  BY <1>5, <1>6

\* sweep_timeout: a run that is still open is closed.
LEMMA TimedOutRow ==
  ASSUME RowsInv, NEW c \in rows, c.status = "in_progress", TimeOut(c)
  PROVE  \E d \in CheckInRows :
           /\ d.id = c.id /\ d.id \in Runs /\ d.status = "timeout"
           /\ rows' = (rows \ {c}) \cup {d}
           /\ \/ UNCHANGED <<env, reported>>
              \/ MarkFailed(rows', env, d)
<1> DEFINE d == [c EXCEPT !.status = "timeout"]
<1>1. c \in CheckInRows /\ c.id \in Runs
  BY DEF RowsInv, MonitorTypeOK, RowsApart
<1>2. d \in CheckInRows /\ d.id = c.id /\ d.status = "timeout"
  BY <1>1 DEF CheckInRows, Statuses
<1>3. /\ rows' = (rows \ {c}) \cup {d}
      /\ UNCHANGED <<env, reported>> \/ MarkFailed(rows', env, d)
  BY DEF TimeOut, Replace
<1> HIDE DEF d
<1> QED
  BY <1>1, <1>2, <1>3

\* Every step records a check-in, misses one, times one out, or leaves the rows,
\* the environment's status and the reports alone.
LEMMA MonitorCases ==
  ASSUME RowsInv, [MonitorNext]_monitorVars
  PROVE  \/ \E q \in Requests : Record(q)
         \/ SweepMissed /\ Due(swept) /\ Miss(swept)
         \/ \E id \in sweep.open : SweepTimeout(id) /\ \E c \in rows : c.status = "in_progress" /\ TimeOut(c)
         \/ UNCHANGED <<rows, env, reported>>
<1>1. ASSUME NEW q \in Requests, Arrive(q) \/ CheckIn(q), ~Record(q) PROVE UNCHANGED <<rows, env, reported>>
  BY <1>1 DEF Arrive, CheckIn, NoMonitor, Refuse
<1>2. ASSUME NEW id \in Ids, SweepTimeout(id)
      PROVE  \/ id \in sweep.open /\ \E c \in rows : c.status = "in_progress" /\ TimeOut(c)
             \/ UNCHANGED <<rows, env, reported>>
  BY <1>2 DEF SweepTimeout, StillOverdue, Overdue
<1>3. CASE SweepStep
  BY <1>2, <1>3 DEF SweepStep, SweepStart, SweepMissed, SweepScan, SweepEnd, SweepSkips
<1>4. CASE Kill \/ Toggle \/ Minute \/ UNCHANGED monitorVars
  BY <1>4 DEF Kill, Toggle, Minute, monitorVars
<1> QED
  BY <1>1, <1>3, <1>4 DEF MonitorNext

-----------------------------------------------------------------------------
(* Types *)

LEMMA RowsInit == MonitorInit => RowsInv
<1> SUFFICES ASSUME MonitorInit PROVE RowsInv
  OBVIOUS
<1>1. MonitorTypeOK
  BY FS_EmptySet DEF MonitorInit, MonitorTypeOK, Unsent, Environments, Idle
<1> QED
  BY <1>1 DEF MonitorInit, RowsInv, RowsApart

LEMMA RowsTypeStep == RowsInv /\ [MonitorNext]_monitorVars => MonitorTypeOK'
<1> SUFFICES ASSUME RowsInv, [MonitorNext]_monitorVars PROVE MonitorTypeOK'
  OBVIOUS
<1> USE DEF RowsInv
<1>1. /\ clock' \in Nat /\ swept' \in Nat /\ mishaps' \in Nat
      /\ exists' \in BOOLEAN /\ cronsOff' \in BOOLEAN
      /\ lookups' \in [Requests -> Nat]
  <2>1. ASSUME NEW q \in Requests, Arrive(q) \/ CheckIn(q)
        PROVE  /\ UNCHANGED <<clock, swept, mishaps, cronsOff>>
               /\ exists' \in BOOLEAN /\ lookups' \in [Requests -> Nat]
    <3>1. CASE Arrive(q) \/ Refuse(q) \/ Record(q)
      BY <3>1 DEF Arrive, Refuse, Record, MonitorTypeOK
    <3>2. CASE NoMonitor(q)
      <4>1. UNCHANGED lookups \/ lookups' = [lookups EXCEPT ![q] = lookups[q] + 1]
        BY <3>2 DEF NoMonitor
      <4>2. lookups[q] + 1 \in Nat
        BY DEF MonitorTypeOK
      <4>3. lookups' \in [Requests -> Nat]
        BY <4>1, <4>2 DEF MonitorTypeOK
      <4> QED
        BY <3>2, <4>3 DEF NoMonitor, MonitorTypeOK
    <3> QED
      BY <2>1, <3>1, <3>2 DEF CheckIn
  <2>2. CASE SweepStep
    <3>1. /\ UNCHANGED <<clock, exists, cronsOff, lookups>>
          /\ swept' \in {swept, clock} /\ mishaps' \in {mishaps, mishaps + 1}
      BY <2>2 DEF SweepStep, SweepStart, SweepMissed, SweepScan, SweepEnd, SweepSkips, SweepTimeout
    <3> QED
      BY <3>1 DEF MonitorTypeOK
  <2>3. CASE Kill \/ Toggle \/ Minute \/ UNCHANGED monitorVars
    <3>1. /\ UNCHANGED <<swept, exists, lookups>> /\ clock' \in {clock, clock + 1}
          /\ mishaps' \in {mishaps, mishaps + 1} /\ cronsOff' \in BOOLEAN
      BY <2>3 DEF Kill, Toggle, Minute, monitorVars, MonitorTypeOK
    <3> QED
      BY <3>1 DEF MonitorTypeOK
  <2>4. ASSUME UNCHANGED <<clock, swept, mishaps, cronsOff>>
        PROVE  clock' \in Nat /\ swept' \in Nat /\ mishaps' \in Nat /\ cronsOff' \in BOOLEAN
    BY <2>4 DEF MonitorTypeOK
  <2> QED
    BY <2>1, <2>2, <2>3, <2>4 DEF MonitorNext
<1>2. request' \in [Requests -> Arrived \cup {Unsent, Answered}]
  <2>1. ASSUME NEW q \in Requests, Arrive(q) PROVE request' \in [Requests -> Arrived \cup {Unsent, Answered}]
    <3>1. PICK s \in StatusOf[q] : request' = [request EXCEPT ![q] =
                 IF cronsOff THEN Answered ELSE [is |-> "open", at |-> clock, status |-> s]]
      BY <2>1 DEF Arrive
    <3>2. [is |-> "open", at |-> clock, status |-> s] \in Arrived
      BY MonitorAssumption DEF Arrived, MonitorTypeOK
    <3> QED
      BY <3>1, <3>2 DEF MonitorTypeOK
  <2>2. ASSUME NEW q \in Requests, CheckIn(q) PROVE request' \in [Requests -> Arrived \cup {Unsent, Answered}]
    BY <2>2 DEF CheckIn, NoMonitor, Refuse, Record, Answer, MonitorTypeOK
  <2>3. CASE UNCHANGED request
    BY <2>3 DEF MonitorTypeOK
  <2> QED
    BY <2>1, <2>2, <2>3
       DEF MonitorNext, SweepStep, SweepStart, SweepMissed, SweepScan, SweepEnd, SweepSkips,
           SweepTimeout, Kill, Toggle, Minute, monitorVars
<1>3. sweep' \in [step : {"idle", "missed", "scan", "timeouts"}, due : BOOLEAN, open : SUBSET (Runs \cup Nat)]
  <2> DEFINE Sweeps == [step : {"idle", "missed", "scan", "timeouts"}, due : BOOLEAN, open : SUBSET (Runs \cup Nat)]
  <2>1. sweep \in Sweeps
    BY DEF MonitorTypeOK
  <2>2. CASE SweepStart
    BY <2>2 DEF SweepStart, Due
  <2>3. CASE SweepMissed
    BY <2>1, <2>3 DEF SweepMissed
  <2>4. CASE SweepScan
    <3>1. {c.id : c \in Overdue(swept)} \in SUBSET (Runs \cup Nat)
      BY DEF Overdue, MonitorTypeOK, CheckInRows
    <3> QED
      BY <2>1, <2>4, <3>1 DEF SweepScan
  <2>5. ASSUME NEW id, SweepTimeout(id) PROVE sweep' \in Sweeps
    BY <2>1, <2>5 DEF SweepTimeout
  <2>6. CASE SweepEnd \/ Kill
    <3>1. Idle \in Sweeps
      BY DEF Idle
    <3>2. sweep' = Idle
      BY <2>6 DEF SweepEnd, Kill
    <3> QED
      BY <3>1, <3>2
  <2>7. CASE SweepSkips
    <3>1. CASE sweep' = [sweep EXCEPT !.step = "scan"]
      BY <2>1, <3>1
    <3>2. ASSUME NEW id, sweep' = [sweep EXCEPT !.open = sweep.open \ {id}] PROVE sweep' \in Sweeps
      BY <2>1, <3>2
    <3> QED
      BY <2>7, <3>1, <3>2 DEF SweepSkips
  <2>8. CASE UNCHANGED sweep
    BY <2>1, <2>8
  <2>9. ASSUME NEW q \in Requests, Arrive(q) \/ CheckIn(q) PROVE UNCHANGED sweep
    BY <2>9 DEF Arrive, CheckIn, NoMonitor, Refuse, Record
  <2>10. CASE Toggle \/ Minute \/ UNCHANGED monitorVars
    BY <2>8, <2>10 DEF Toggle, Minute, monitorVars
  <2>11. CASE SweepStep
    BY <2>2, <2>3, <2>4, <2>5, <2>6, <2>7, <2>11 DEF SweepStep
  <2> HIDE DEF Sweeps
  <2> QED
    BY <2>6, <2>8, <2>9, <2>10, <2>11 DEF MonitorNext, Sweeps
<1>4. /\ rows' \subseteq CheckInRows /\ IsFiniteSet(rows')
      /\ env' \in Environments /\ reported' \in [Ids -> Nat]
  <2>1. /\ rows \subseteq CheckInRows /\ IsFiniteSet(rows) /\ env \in Environments
        /\ reported \in [Ids -> Nat] /\ swept \in Nat
    BY DEF MonitorTypeOK
  <2>2. ASSUME NEW q \in Requests, Record(q)
        PROVE  /\ rows' \subseteq CheckInRows /\ IsFiniteSet(rows')
               /\ env' \in Environments /\ reported' \in [Ids -> Nat]
    <3>1. PICK c \in CheckInRows :
            /\ rows' = (rows \ RowsOf(c.id)) \cup {c} /\ request[q].at \in Nat
            /\ \/ UNCHANGED <<env, reported>>
               \/ MarkFailed(rows', Moved(env, c.added, request[q].at), c)
               \/ MarkOk(rows', c, request[q].at) /\ UNCHANGED reported
      BY <2>2, RecordedRow
    <3>2. Moved(env, c.added, request[q].at) \in Environments
      <4>1. request[q].at + Interval \in Nat /\ c.added \in Nat
        BY <3>1, MonitorAssumption DEF CheckInRows
      <4> QED
        BY <2>1, <4>1 DEF Moved, Environments
    <3>3. rows' \subseteq CheckInRows /\ IsFiniteSet(rows')
      BY <2>1, <3>1, FS_Subset, FS_AddElement
    <3> QED
      BY <2>1, <3>1, <3>2, <3>3, Failed, Succeeded
  <2>3. ASSUME Due(swept), Miss(swept)
        PROVE  /\ rows' \subseteq CheckInRows /\ IsFiniteSet(rows')
               /\ env' \in Environments /\ reported' \in [Ids -> Nat]
    <3>1. CASE env' \in Environments /\ UNCHANGED <<rows, reported>>
      BY <2>1, <3>1
    <3>2. ASSUME NEW c \in CheckInRows, NEW e \in Environments, rows' = rows \cup {c}, MarkFailed(rows', e, c)
          PROVE  /\ rows' \subseteq CheckInRows /\ IsFiniteSet(rows')
                 /\ env' \in Environments /\ reported' \in [Ids -> Nat]
      BY <2>1, <3>2, Failed, FS_AddElement
    <3> QED
      BY <2>1, <2>3, <3>1, <3>2, MissedRow
  <2>4. ASSUME NEW c \in rows, c.status = "in_progress", TimeOut(c)
        PROVE  /\ rows' \subseteq CheckInRows /\ IsFiniteSet(rows')
               /\ env' \in Environments /\ reported' \in [Ids -> Nat]
    <3>1. PICK d \in CheckInRows :
            /\ rows' = (rows \ {c}) \cup {d}
            /\ UNCHANGED <<env, reported>> \/ MarkFailed(rows', env, d)
      BY <2>4, TimedOutRow
    <3>2. rows' \subseteq CheckInRows /\ IsFiniteSet(rows')
      BY <2>1, <3>1, FS_Subset, FS_AddElement
    <3> QED
      BY <2>1, <3>1, <3>2, Failed
  <2>5. CASE UNCHANGED <<rows, env, reported>>
    BY <2>1, <2>5
  <2> QED
    BY <2>2, <2>3, <2>4, <2>5, MonitorCases
<1> QED
  BY <1>1, <1>2, <1>3, <1>4 DEF MonitorTypeOK

LEMMA RowsApartStep == RowsInv /\ [MonitorNext]_monitorVars => RowsApart'
<1> SUFFICES ASSUME RowsInv, [MonitorNext]_monitorVars PROVE RowsApart'
  OBVIOUS
<1> DEFINE missed == Cardinality(Missed(rows))
<1>1. /\ rows \subseteq CheckInRows /\ IsFiniteSet(rows)
      /\ \A c, d \in rows : c.id = d.id => c = d
      /\ \A c \in rows : c.status # "missed" => c.id \in Runs
      /\ \A c \in rows : c.status = "missed" => c.id \in Nat /\ c.id <= missed
      /\ missed \in Nat /\ IsFiniteSet(Missed(rows)) /\ swept \in Nat
  BY FS_Subset, FS_CardinalityType DEF RowsInv, RowsApart, MonitorTypeOK, Missed
<1>2. \A c : c \in Missed(rows) <=> c \in rows /\ c.status = "missed"
  BY DEF Missed
<1>3. ASSUME NEW c, NEW old \in SUBSET rows, rows' = (rows \ old) \cup {c}, c.id \in Runs,
             c.status # "missed", \A d \in old : d.status # "missed",
             \A d \in rows : d.id = c.id => d \in old
      PROVE  RowsApart'
  <2>1. Missed(rows') = Missed(rows)
    BY <1>3 DEF Missed
  <2>2. \A d, f \in rows' : d.id = f.id => d = f
    BY <1>1, <1>3
  <2> HIDE DEF missed
  <2>3. \A d \in rows' : /\ d.status # "missed" => d.id \in Runs
                         /\ d.status = "missed" => d.id \in Nat /\ d.id <= missed
    BY <1>1, <1>3
  <2> QED
    BY <2>1, <2>2, <2>3 DEF RowsApart, missed
<1>4. ASSUME NEW q \in Requests, Record(q) PROVE RowsApart'
  <2>1. PICK c \in CheckInRows :
          /\ c.id \in Runs /\ c.status \in {"in_progress", "ok", "error", "timeout"}
          /\ rows' = (rows \ RowsOf(c.id)) \cup {c}
          /\ \A d \in RowsOf(c.id) : d.status = "in_progress" \/ (d.status = "timeout" /\ c = d)
    BY <1>4, RecordedRow
  <2>2. /\ RowsOf(c.id) \in SUBSET rows
        /\ \A d \in RowsOf(c.id) : d.status # "missed"
        /\ \A d \in rows : d.id = c.id => d \in RowsOf(c.id)
    BY <2>1 DEF RowsOf
  <2> QED
    BY <1>3, <2>1, <2>2
<1>5. CASE Due(swept) /\ Miss(swept)
  <2>1. CASE UNCHANGED rows
    BY <2>1 DEF RowsInv, RowsApart
  <2>2. ASSUME NEW c \in CheckInRows, c.id = missed + 1, c.status = "missed", rows' = rows \cup {c}
        PROVE  RowsApart'
    <3>1. \A d \in rows : d.id # c.id
      BY <1>1, <2>2, MonitorAssumption
    <3>2. Missed(rows') = Missed(rows) \cup {c} /\ c \notin Missed(rows)
      BY <1>2, <2>2, <3>1 DEF Missed
    <3>3. Cardinality(Missed(rows')) = missed + 1
      BY <1>1, <3>2, FS_AddElement
    <3> HIDE DEF missed
    <3>4. \A d, f \in rows' : d.id = f.id => d = f
      BY <1>1, <2>2, <3>1
    <3>5. \A d \in rows' : /\ d.status # "missed" => d.id \in Runs
                           /\ d.status = "missed" => d.id \in Nat /\ d.id <= missed + 1
      BY <1>1, <2>2
    <3> QED
      BY <3>3, <3>4, <3>5 DEF RowsApart
  <2> QED
    BY <1>1, <1>5, <2>1, <2>2, MissedRow
<1>6. ASSUME NEW c \in rows, c.status = "in_progress", TimeOut(c) PROVE RowsApart'
  <2>1. PICK d \in CheckInRows : /\ d.id = c.id /\ d.id \in Runs /\ d.status = "timeout"
                                 /\ rows' = (rows \ {c}) \cup {d}
    BY <1>6, TimedOutRow
  <2>2. {c} \in SUBSET rows /\ \A f \in rows : f.id = d.id => f \in {c}
    BY <1>1, <2>1
  <2> QED
    BY <1>3, <1>6, <2>1, <2>2
<1>7. CASE UNCHANGED <<rows, env, reported>>
  BY <1>7 DEF RowsInv, RowsApart
<1> QED
  BY <1>4, <1>5, <1>6, <1>7, MonitorCases

LEMMA RowsAlways == MonitorSpec => []RowsInv
  BY RowsInit, RowsTypeStep, RowsApartStep, PTL DEF MonitorSpec, RowsInv

\* The rows, the environment, the sweep and the requests keep their types, for
\* any runs, schedule and thresholds (monitor.rs).
THEOREM MonitorTypeCorrect == MonitorSpec => []MonitorTypeOK
  BY RowsAlways, PTL DEF RowsInv

-----------------------------------------------------------------------------
(* What the newest result decides *)

\* A row that has no result is replaced by the one recorded, all others stay.
LEMMA ResultsStay ==
  ASSUME NEW c, NEW old, rows' = (rows \ old) \cup {c},
         \A d \in old : d.status \notin {"ok", "error"}
  PROVE  \A d \in rows : d.status \in {"ok", "error"} => d \in rows'
OBVIOUS

\* "A later run's result decides": whatever the order results are recorded in,
\* a monitor that fails at once is never well while the newest is an error.
THEOREM NewestDecides ==
  ASSUME FailureThreshold = 1 PROVE MonitorSpec => []NewestResultDecides
<1>1. MonitorInit => NewestResultDecides
  BY DEF MonitorInit, NewestResultDecides
<1>2. RowsInv /\ NewestResultDecides /\ [MonitorNext]_monitorVars => NewestResultDecides'
  <2> SUFFICES ASSUME RowsInv, NewestResultDecides, [MonitorNext]_monitorVars, env'.status = "ok",
                      NEW b \in rows', b.status = "error"
               PROVE  \E d \in rows' : d.added >= b.added /\ d.status = "ok"
    BY DEF NewestResultDecides
  <2>t. rows \subseteq CheckInRows /\ (\A c \in CheckInRows : c.added \in Nat) /\ env \in Environments
    BY DEF RowsInv, MonitorTypeOK, CheckInRows
  <2>1. ASSUME NEW q \in Requests, Record(q) PROVE \E d \in rows' : d.added >= b.added /\ d.status = "ok"
    <3>1. PICK c \in CheckInRows :
            /\ c.status \in {"in_progress", "ok", "error", "timeout"}
            /\ rows' = (rows \ RowsOf(c.id)) \cup {c}
            /\ \A d \in RowsOf(c.id) : d.status \notin {"ok", "error"}
            /\ request[q].at \in Nat
            /\ \/ c.status = "error" /\ HasNewerResult(rows', c.added) /\ UNCHANGED <<env, reported>>
               \/ c.status = "error" /\ ~HasNewerResult(rows', c.added)
                    /\ MarkFailed(rows', Moved(env, c.added, request[q].at), c)
               \/ c.status # "error" /\ MarkOk(rows', c, request[q].at) /\ UNCHANGED reported
      BY <2>1, RecordedRow
    <3>2. b = c \/ b \in rows
      BY <3>1
    <3>3. b.added \in Nat /\ c.added \in Nat
      BY <2>t, <3>2
    <3>4. \A d \in rows : d.status \in {"ok", "error"} => d \in rows'
      BY <3>1, ResultsStay
    <3>5. ASSUME env.status = "ok", NEW f \in rows, f.status = "error", f.added >= b.added
          PROVE  \E d \in rows' : d.added >= b.added /\ d.status = "ok"
      <4>1. PICK d \in rows : d.added >= f.added /\ d.status = "ok"
        BY <3>5 DEF NewestResultDecides
      <4> QED
        BY <2>t, <3>3, <3>4, <3>5, <4>1
    <3>6. CASE c.status = "error" /\ HasNewerResult(rows', c.added) /\ UNCHANGED env
      <4>1. PICK f \in rows' : f.added > c.added /\ f.status \in {"ok", "error"}
        BY <3>6 DEF HasNewerResult
      <4>2. f \in rows /\ f.added \in Nat
        BY <2>t, <3>1, <3>3, <4>1
      <4> QED
        BY <2>t, <3>2, <3>3, <3>5, <3>6, <4>1, <4>2
    <3>7. CASE MarkFailed(rows', Moved(env, c.added, request[q].at), c)
      BY <3>7 DEF MarkFailed, Moved, Environments
    <3>8. CASE c.status # "error" /\ MarkOk(rows', c, request[q].at)
      <4>1. \/ env'.status = env.status
            \/ c.status = "ok" /\ ~HasNewerResult(rows', c.added)
        BY <3>1, <3>8, Succeeded DEF RowsInv
      <4>2. CASE env'.status = env.status
        BY <2>t, <3>2, <3>3, <3>5, <3>8, <4>2
      <4>3. CASE c.status = "ok" /\ ~HasNewerResult(rows', c.added)
        BY <3>1, <3>3, <4>3 DEF HasNewerResult
      <4> QED
        BY <4>1, <4>2, <4>3
    <3> QED
      BY <3>1, <3>6, <3>7, <3>8
  <2>2. ASSUME UNCHANGED env, \A d \in rows' : d.status = "error" => d \in rows,
               \A d \in rows : d.status = "ok" => d \in rows'
        PROVE  \E d \in rows' : d.added >= b.added /\ d.status = "ok"
    BY <2>2 DEF NewestResultDecides
  <2>3. ASSUME NEW table, NEW e \in Environments, NEW c \in CheckInRows, MarkFailed(table, e, c) PROVE FALSE
    BY <2>3, Failed DEF RowsInv
  <2>4. CASE Due(swept) /\ Miss(swept)
    <3>1. CASE env'.status = env.status /\ UNCHANGED rows
      BY <3>1 DEF NewestResultDecides
    <3>2. swept \in Nat
      BY DEF RowsInv, MonitorTypeOK
    <3> QED
      BY <2>3, <2>4, <3>1, <3>2, MissedRow
  <2>5. ASSUME NEW c \in rows, c.status = "in_progress", TimeOut(c)
        PROVE  \E d \in rows' : d.added >= b.added /\ d.status = "ok"
    <3>1. PICK d \in CheckInRows :
            /\ d.status = "timeout" /\ rows' = (rows \ {c}) \cup {d}
            /\ UNCHANGED <<env, reported>> \/ MarkFailed(rows', env, d)
      BY <2>5, TimedOutRow
    <3> QED
      BY <2>t, <2>2, <2>3, <2>5, <3>1
  <2>6. CASE UNCHANGED <<rows, env, reported>>
    BY <2>2, <2>6
  <2> QED
    BY <2>1, <2>4, <2>5, <2>6, MonitorCases
<1> QED
  BY <1>1, <1>2, RowsAlways, PTL DEF MonitorSpec

-----------------------------------------------------------------------------
(* Reports *)

\* A check-in that was reported has a row that tells of a failure, and such a row
\* is never opened again.
ReportsTold ==
  \A id \in Ids :
    /\ reported[id] <= 1
    /\ reported[id] > 0 => \E c \in rows : c.id = id /\ c.status \in Failures

LEMMA ReportsStep == RowsInv /\ ReportsTold /\ [MonitorNext]_monitorVars => ReportsTold'
<1> SUFFICES ASSUME RowsInv, ReportsTold, [MonitorNext]_monitorVars PROVE ReportsTold'
  OBVIOUS
<1>t. /\ rows \subseteq CheckInRows /\ env \in Environments /\ swept \in Nat
      /\ \A id \in Ids : reported[id] \in Nat
  BY DEF RowsInv, MonitorTypeOK
<1>1. ASSUME NEW old \in SUBSET rows, NEW c \in CheckInRows, rows' = (rows \ old) \cup {c},
             \A d \in old : d.id = c.id,
             \A d \in rows : d.id = c.id => d = c \/ d.status \notin Failures,
             UNCHANGED reported
      PROVE  ReportsTold'
  BY <1>1 DEF ReportsTold
<1>2. ASSUME NEW table, NEW e \in Environments, NEW old \in SUBSET rows, NEW c \in CheckInRows,
             rows' = (rows \ old) \cup {c}, c.status \in Failures,
             \A d \in old : d.id = c.id,
             \A d \in rows : d.id = c.id => d.status \notin Failures,
             MarkFailed(table, e, c)
      PROVE  ReportsTold'
  <2> SUFFICES ASSUME NEW id \in Ids
               PROVE  /\ reported'[id] <= 1
                      /\ reported'[id] > 0 => \E d \in rows' : d.id = id /\ d.status \in Failures
    BY DEF ReportsTold
  <2>1. /\ reported' \in [Ids -> Nat]
        /\ id # c.id => reported'[id] = reported[id]
        /\ id = c.id => reported'[id] <= reported[id] + 1
    BY <1>2, Failed DEF RowsInv
  <2>2. CASE id = c.id
    <3>1. reported[id] = 0
      BY <1>t, <1>2, <2>2 DEF ReportsTold
    <3>2. c \in rows'
      BY <1>2
    <3> QED
      BY <1>2, <2>1, <2>2, <3>1, <3>2
  <2>3. CASE id # c.id
    BY <1>2, <2>1, <2>3 DEF ReportsTold
  <2> QED
    BY <2>2, <2>3
<1>3. ASSUME NEW q \in Requests, Record(q) PROVE ReportsTold'
  <2>1. PICK c \in CheckInRows :
          /\ c.status \in {"in_progress", "ok", "error", "timeout"}
          /\ rows' = (rows \ RowsOf(c.id)) \cup {c}
          /\ \A d \in RowsOf(c.id) : d.status = "in_progress" \/ (d.status = "timeout" /\ c = d)
          /\ request[q].at \in Nat
          /\ UNCHANGED reported \/ (c.status = "error" /\ MarkFailed(rows', Moved(env, c.added, request[q].at), c))
    BY <1>3, RecordedRow
  <2>2. /\ RowsOf(c.id) \in SUBSET rows
        /\ \A d \in RowsOf(c.id) : d.id = c.id
        /\ \A d \in rows : d.id = c.id => d \in RowsOf(c.id)
    BY DEF RowsOf
  <2>3. Moved(env, c.added, request[q].at) \in Environments
    <3>1. request[q].at + Interval \in Nat /\ c.added \in Nat
      BY <2>1, MonitorAssumption DEF CheckInRows
    <3> QED
      BY <1>t, <3>1 DEF Moved, Environments
  <2>4. CASE UNCHANGED reported
    BY <1>1, <2>1, <2>2, <2>4 DEF Failures
  <2>5. CASE c.status = "error" /\ MarkFailed(rows', Moved(env, c.added, request[q].at), c)
    <3>1. \A d \in rows : d.id = c.id => d.status \notin Failures
      BY <2>1, <2>2, <2>5 DEF Failures
    <3>2. c.status \in Failures
      BY <2>5 DEF Failures
    <3> QED
      BY <1>2, <2>1, <2>2, <2>3, <2>5, <3>1, <3>2
  <2> QED
    BY <2>1, <2>4, <2>5
<1>4. CASE Due(swept) /\ Miss(swept)
  <2>1. CASE UNCHANGED <<rows, reported>>
    BY <2>1 DEF ReportsTold
  <2>2. ASSUME NEW c \in CheckInRows, NEW e \in Environments,
               c.id = Cardinality(Missed(rows)) + 1, c.status = "missed",
               rows' = rows \cup {c}, MarkFailed(rows', e, c)
        PROVE  ReportsTold'
    <3>1. Cardinality(Missed(rows)) \in Nat
      BY FS_Subset, FS_CardinalityType DEF Missed, RowsInv, MonitorTypeOK
    <3>2. \A d \in rows : d.id # c.id
      BY <2>2, <3>1, MonitorAssumption DEF RowsInv, RowsApart
    <3>3. rows' = (rows \ {}) \cup {c} /\ {} \in SUBSET rows /\ c.status \in Failures
      BY <2>2 DEF Failures
    <3> QED
      BY <1>2, <2>2, <3>2, <3>3
  <2> QED
    BY <1>t, <1>4, <2>1, <2>2, MissedRow
<1>5. ASSUME NEW c \in rows, c.status = "in_progress", TimeOut(c) PROVE ReportsTold'
  <2>1. PICK d \in CheckInRows :
          /\ d.id = c.id /\ d.status = "timeout" /\ rows' = (rows \ {c}) \cup {d}
          /\ UNCHANGED <<env, reported>> \/ MarkFailed(rows', env, d)
    BY <1>5, TimedOutRow
  <2>2. /\ {c} \in SUBSET rows /\ \A f \in {c} : f.id = d.id
        /\ \A f \in rows : f.id = d.id => f.status \notin Failures
        /\ d.status \in Failures
    BY <1>5, <2>1 DEF RowsInv, RowsApart, Failures
  <2> QED
    BY <1>t, <1>1, <1>2, <2>1, <2>2
<1>6. CASE UNCHANGED <<rows, env, reported>>
  BY <1>6 DEF ReportsTold
<1> QED
  BY <1>3, <1>4, <1>5, <1>6, MonitorCases

\* A failed check-in is reported once at the most, for any runs, requests and
\* thresholds: its timeout, its late result and their repetitions find its row
\* (update_existing, sweep_timeout).
THEOREM FailuresAreReportedOnce == MonitorSpec => []ReportedOnce
<1>1. MonitorInit => ReportsTold
  BY DEF MonitorInit, ReportsTold
<1>2. ReportsTold => ReportedOnce
  BY DEF ReportsTold, ReportedOnce
<1> QED
  BY <1>1, <1>2, RowsAlways, ReportsStep, PTL DEF MonitorSpec

-----------------------------------------------------------------------------
(* Sessions, for any updates, releases and cap *)

ReleaseNames == {ReleaseOf[u] : u \in Updates} \cup {Overflow}
UserRows == [user : {UserOf[u] : u \in Updates}, release : ReleaseNames]
Counters == [counts : SUBSET [update : Updates, release : ReleaseNames],
             users : SUBSET UserRows, crashed : SUBSET UserRows]

SessionTypeOK ==
  /\ state \in Counters /\ batch \in Counters /\ db \in Counters
  /\ flushing \in Flushers \cup {Nobody}
  /\ waiting \in SUBSET Flushers
  /\ server \in {"up", "draining", "flushed", "down"}
  /\ failures \in Nat
  /\ answered \in SUBSET Updates /\ excused \in SUBSET Updates

\* What is counted was answered.
CountedIsAnswered ==
  UpdatesIn(state) \cup UpdatesIn(batch) \cup UpdatesIn(db) \subseteq answered

\* Only the holder of the flush lock has a batch.
BatchIsHeld == flushing = Nobody => batch = Empty

\* The flush of the shutdown comes after the last update, and without a failure
\* it leaves nothing to count.
LastFlush ==
  /\ "shutdown" \in waiting \/ flushing = "shutdown" => server = "draining"
  /\ flushing = "shutdown" => "shutdown" \notin waiting
  /\ failures = 0 /\ flushing = "shutdown" => state = Empty
  /\ failures = 0 /\ server = "flushed" => state = Empty /\ flushing = Nobody
  /\ server = "down" => flushing = Nobody /\ waiting = {}

SessionInv == /\ SessionTypeOK /\ CountedIsAnswered /\ BatchIsHeld /\ LastFlush
              /\ CountedOnce /\ AnsweredIsKept

-----------------------------------------------------------------------------
(* What the counters count *)

OneRelease(s) == \A c, d \in s.counts : c.update = d.update => c = d

LEMMA EmptyCounts ==
  Empty \in Counters /\ UpdatesIn(Empty) = {} /\ Unknown(Empty) = {} /\ OneRelease(Empty)
  BY DEF Empty, Counters, UpdatesIn, Unknown, OneRelease

LEMMA MergedCounts ==
  ASSUME NEW s \in Counters, NEW t \in Counters
  PROVE  /\ Merged(s, t) \in Counters
         /\ UpdatesIn(Merged(s, t)) = UpdatesIn(s) \cup UpdatesIn(t)
<1>1. /\ Merged(s, t).counts = s.counts \cup t.counts
      /\ Merged(s, t) \in Counters
  BY DEF Merged, Counters
<1> QED
  BY <1>1 DEF UpdatesIn

\* Merging counters of different updates keeps each update's one release.
LEMMA MergedOneRelease ==
  ASSUME NEW s \in Counters, NEW t \in Counters, OneRelease(s), OneRelease(t),
         UpdatesIn(s) \cap UpdatesIn(t) = {}
  PROVE  OneRelease(Merged(s, t))
<1>1. Merged(s, t).counts = s.counts \cup t.counts
  BY DEF Merged
<1>2. ASSUME NEW c \in s.counts, NEW d \in t.counts
      PROVE  c.update # d.update
  BY <1>2 DEF UpdatesIn
<1> QED
  BY <1>1, <1>2 DEF OneRelease

\* Ingest adds one update and no other, under one release.
LEMMA CountedCounts ==
  ASSUME NEW s \in Counters, NEW u \in Updates
  PROVE  /\ Counted(s, u) \in Counters
         /\ UpdatesIn(Counted(s, u)) =
              UpdatesIn(s) \cup (IF u \in Inits \cup Crashes \cup Ends THEN {u} ELSE {})
         /\ OneRelease(s) /\ u \notin UpdatesIn(s) => OneRelease(Counted(s, u))
<1> DEFINE release == Capped(s, ReleaseOf[u])
           added == IF u \in Inits \cup Crashes \cup Ends
                    THEN {[update |-> u, release |-> release]} ELSE {}
           user == IF UserOf[u] = Nobody THEN {}
                   ELSE {[user |-> UserOf[u], release |-> release]}
<1>1. release \in ReleaseNames
  BY DEF Capped, ReleaseNames
<1>2. added \in SUBSET [update : Updates, release : ReleaseNames]
  BY <1>1
<1>3. user \in SUBSET UserRows
  BY <1>1 DEF UserRows
<1>4. /\ Counted(s, u).counts = s.counts \cup added
      /\ Counted(s, u) \in Counters
  BY <1>2, <1>3 DEF Counted, Counters
<1>5. UpdatesIn(Counted(s, u)) = UpdatesIn(s) \cup {c.update : c \in added}
  BY <1>4 DEF UpdatesIn
<1>6. {c.update : c \in added} = IF u \in Inits \cup Crashes \cup Ends THEN {u} ELSE {}
  <2>1. CASE u \in Inits \cup Crashes \cup Ends
    BY <2>1
  <2>2. CASE u \notin Inits \cup Crashes \cup Ends
    BY <2>2
  <2> QED
    BY <2>1, <2>2
<1>7. ASSUME OneRelease(s), u \notin UpdatesIn(s)
      PROVE  OneRelease(Counted(s, u))
  <2>1. \A c \in added : c = [update |-> u, release |-> release]
    OBVIOUS
  <2>2. \A c \in s.counts : c.update # u
    BY <1>7 DEF UpdatesIn
  <2> HIDE DEF added
  <2> QED
    BY <1>4, <1>7, <2>1, <2>2 DEF OneRelease
<1> QED
  BY <1>4, <1>5, <1>6, <1>7

\* CountedOnce, of any three sets of counters.
OnceIn(s, b, d) ==
  /\ UpdatesIn(s) \cap UpdatesIn(b) = {}
  /\ UpdatesIn(d) \cap (UpdatesIn(s) \cup UpdatesIn(b)) = {}
  /\ OneRelease(s) /\ OneRelease(b) /\ OneRelease(d)

LEMMA CountedOnceParts ==
  /\ CountedOnce <=> OnceIn(state, batch, db)
  /\ CountedOnce' <=> OnceIn(state', batch', db')
  BY DEF CountedOnce, OnceIn, OneRelease

-----------------------------------------------------------------------------
(* The invariant *)

LEMMA SessionInvInit == SessionInit => SessionInv
<1> SUFFICES ASSUME SessionInit PROVE SessionInv
  OBVIOUS
<1>1. SessionTypeOK /\ BatchIsHeld /\ LastFlush
  BY EmptyCounts, SessionAssumption
  DEF SessionInit, SessionTypeOK, BatchIsHeld, LastFlush, Flushers
<1>2. CountedIsAnswered /\ CountedOnce /\ AnsweredIsKept
  BY EmptyCounts, CountedOnceParts DEF SessionInit, CountedIsAnswered, AnsweredIsKept, OnceIn
<1> QED
  BY <1>1, <1>2 DEF SessionInv

LEMMA SessionTypeStep == SessionInv /\ [SessionNext]_sessionVars => SessionTypeOK'
<1> SUFFICES ASSUME SessionInv, [SessionNext]_sessionVars PROVE SessionTypeOK'
  OBVIOUS
<1> USE DEF SessionInv, SessionTypeOK
<1>0. \A s \in Counters : Unknown(s) \subseteq Updates
  BY DEF Unknown, Counters
<1>1. ASSUME NEW u \in Updates, Ingest(u)
      PROVE  SessionTypeOK'
  BY <1>1, CountedCounts DEF Ingest
<1>2. CASE FlushTick
  BY <1>2 DEF FlushTick, Flushers
<1>3. ASSUME NEW f \in Flushers, Take(f)
      PROVE  SessionTypeOK'
  BY <1>3, EmptyCounts DEF Take
<1>4. ASSUME NEW f \in Flushers, Commit(f)
      PROVE  SessionTypeOK'
  BY <1>4, EmptyCounts, MergedCounts DEF Commit, Ended
<1>5. ASSUME NEW f \in Flushers, FlushFails(f)
      PROVE  SessionTypeOK'
  BY <1>5, EmptyCounts, MergedCounts DEF FlushFails, Ended
<1>6. ASSUME NEW f \in Flushers, CommitUnknown(f)
      PROVE  SessionTypeOK'
  BY <1>0, <1>6, EmptyCounts, MergedCounts DEF CommitUnknown, Ended
<1>7. CASE Stop
  BY <1>7 DEF Stop, Flushers
<1>8. CASE Exit
  BY <1>8, EmptyCounts DEF Exit
<1>9. CASE Killed
  BY <1>0, <1>9, EmptyCounts DEF Killed
<1>10. CASE UNCHANGED sessionVars
  BY <1>10 DEF sessionVars
<1> QED
  BY <1>1, <1>2, <1>3, <1>4, <1>5, <1>6, <1>7, <1>8, <1>9, <1>10
  DEF SessionNext, Flush

\* Who holds the lock, and what the last flush leaves.
LEMMA FlushStep ==
  SessionInv /\ [SessionNext]_sessionVars => BatchIsHeld' /\ LastFlush'
<1> SUFFICES ASSUME SessionInv, [SessionNext]_sessionVars
             PROVE  BatchIsHeld' /\ LastFlush'
  OBVIOUS
<1> USE SessionAssumption DEF SessionInv, SessionTypeOK, BatchIsHeld, LastFlush, Flushers
<1>1. ASSUME NEW u \in Updates, Ingest(u)
      PROVE  BatchIsHeld' /\ LastFlush'
  BY <1>1 DEF Ingest
<1>2. CASE FlushTick
  BY <1>2 DEF FlushTick
<1>3. ASSUME NEW f \in Flushers, Take(f)
      PROVE  BatchIsHeld' /\ LastFlush'
  BY <1>3 DEF Take
<1>4. ASSUME NEW f \in Flushers, Commit(f)
      PROVE  BatchIsHeld' /\ LastFlush'
  <2>1. CASE f = "shutdown"
    BY <1>4, <2>1 DEF Commit, Ended
  <2>2. CASE f = "interval"
    BY <1>4, <2>2 DEF Commit, Ended
  <2> QED
    BY <2>1, <2>2
<1>5. ASSUME NEW f \in Flushers, FlushFails(f)
      PROVE  BatchIsHeld' /\ LastFlush'
  <2>1. CASE f = "shutdown"
    BY <1>5, <2>1 DEF FlushFails, Ended
  <2>2. CASE f = "interval"
    BY <1>5, <2>2 DEF FlushFails, Ended
  <2> QED
    BY <2>1, <2>2
<1>6. ASSUME NEW f \in Flushers, CommitUnknown(f)
      PROVE  BatchIsHeld' /\ LastFlush'
  <2>1. CASE f = "shutdown"
    BY <1>6, <2>1 DEF CommitUnknown, Ended
  <2>2. CASE f = "interval"
    BY <1>6, <2>2 DEF CommitUnknown, Ended
  <2> QED
    BY <2>1, <2>2
<1>7. CASE Stop
  BY <1>7 DEF Stop
<1>8. CASE Exit
  BY <1>8 DEF Exit
<1>9. CASE Killed
  BY <1>9 DEF Killed
<1>10. CASE UNCHANGED sessionVars
  BY <1>10 DEF sessionVars
<1> QED
  BY <1>1, <1>2, <1>3, <1>4, <1>5, <1>6, <1>7, <1>8, <1>9, <1>10
  DEF SessionNext, Flush

\* Where each update is counted, step by step.
LEMMA CountedStep ==
  SessionInv /\ [SessionNext]_sessionVars => CountedIsAnswered' /\ CountedOnce'
<1> SUFFICES ASSUME SessionInv, [SessionNext]_sessionVars
             PROVE  CountedIsAnswered' /\ CountedOnce'
  OBVIOUS
<1>a. OnceIn(state, batch, db) /\ (OnceIn(state', batch', db') => CountedOnce')
  BY CountedOnceParts DEF SessionInv
<1> USE DEF SessionInv, SessionTypeOK, CountedIsAnswered
<1>1. ASSUME NEW u \in Updates, Ingest(u)
      PROVE  CountedIsAnswered' /\ CountedOnce'
  <2>1. /\ u \notin UpdatesIn(state) \cup UpdatesIn(batch) \cup UpdatesIn(db)
        /\ UpdatesIn(state') \subseteq UpdatesIn(state) \cup {u}
        /\ OneRelease(state')
        /\ batch' = batch /\ db' = db /\ answered' = answered \cup {u}
    BY <1>1, <1>a, CountedCounts DEF Ingest, OnceIn
  <2>2. OnceIn(state', batch', db')
    BY <1>a, <2>1 DEF OnceIn
  <2> QED
    BY <1>a, <2>1, <2>2
<1>2. ASSUME NEW f \in Flushers, Take(f)
      PROVE  CountedIsAnswered' /\ CountedOnce'
  <2>1. /\ state' = Empty /\ batch' = state /\ db' = db /\ answered' = answered
    BY <1>2 DEF Take
  <2>2. OnceIn(state', batch', db')
    BY <1>a, <2>1, EmptyCounts DEF OnceIn
  <2> QED
    BY <1>a, <2>1, <2>2, EmptyCounts
<1>3. ASSUME NEW f \in Flushers, Commit(f) \/ (CommitUnknown(f) /\ db' = Merged(db, batch))
      PROVE  CountedIsAnswered' /\ CountedOnce'
  <2>1. /\ state' = state /\ batch' = Empty /\ db' = Merged(db, batch)
        /\ answered' = answered
    BY <1>3 DEF Commit, CommitUnknown
  <2>2. OneRelease(db') /\ UpdatesIn(db') = UpdatesIn(db) \cup UpdatesIn(batch)
    BY <1>a, <2>1, MergedCounts, MergedOneRelease DEF OnceIn
  <2>3. OnceIn(state', batch', db')
    BY <1>a, <2>1, <2>2, EmptyCounts DEF OnceIn
  <2> QED
    BY <1>a, <2>1, <2>2, <2>3, EmptyCounts
<1>4. ASSUME NEW f \in Flushers, FlushFails(f)
      PROVE  CountedIsAnswered' /\ CountedOnce'
  <2>1. /\ state' = Merged(state, batch) /\ batch' = Empty /\ db' = db
        /\ answered' = answered
    BY <1>4 DEF FlushFails
  <2>2. OneRelease(state') /\ UpdatesIn(state') = UpdatesIn(state) \cup UpdatesIn(batch)
    BY <1>a, <2>1, MergedCounts, MergedOneRelease DEF OnceIn
  <2>3. OnceIn(state', batch', db')
    BY <1>a, <2>1, <2>2, EmptyCounts DEF OnceIn
  <2> QED
    BY <1>a, <2>1, <2>2, <2>3, EmptyCounts
<1>5. ASSUME state' \in {state, Empty}, batch' \in {batch, Empty}, db' = db,
             answered' = answered
      PROVE  CountedIsAnswered' /\ CountedOnce'
  <2>1. OnceIn(state', batch', db')
    BY <1>a, <1>5, EmptyCounts DEF OnceIn
  <2> QED
    BY <1>a, <1>5, <2>1, EmptyCounts
<1>6. FlushTick \/ Stop \/ Exit \/ Killed \/ UNCHANGED sessionVars
      \/ (\E f \in Flushers : CommitUnknown(f) /\ db' # Merged(db, batch))
        => /\ state' \in {state, Empty} /\ batch' \in {batch, Empty}
           /\ db' = db /\ answered' = answered
  BY DEF FlushTick, Stop, Exit, Killed, sessionVars, CommitUnknown
<1> QED
  BY <1>1, <1>2, <1>3, <1>4, <1>5, <1>6 DEF SessionNext, Flush

\* Where what was answered is, step by step.
LEMMA KeptStep ==
  SessionInv /\ [SessionNext]_sessionVars => AnsweredIsKept'
<1> SUFFICES ASSUME SessionInv, [SessionNext]_sessionVars,
                    NEW u \in (answered' \cap (Inits \cup Crashes \cup Ends)) \ excused'
             PROVE  IF server' = "down" THEN failures' = 0 => u \in UpdatesIn(db')
                    ELSE u \in UpdatesIn(state') \cup UpdatesIn(batch') \cup UpdatesIn(db')
  BY DEF AnsweredIsKept
<1> USE DEF SessionInv, SessionTypeOK
<1>0. ASSUME u \in answered, u \notin excused, server # "down"
      PROVE  u \in UpdatesIn(state) \cup UpdatesIn(batch) \cup UpdatesIn(db)
  BY <1>0 DEF AnsweredIsKept
<1>1. ASSUME NEW v \in Updates, Ingest(v)
      PROVE  server' # "down"
             /\ u \in UpdatesIn(state') \cup UpdatesIn(batch') \cup UpdatesIn(db')
  <2>1. /\ UpdatesIn(state') = UpdatesIn(state) \cup
             (IF v \in Inits \cup Crashes \cup Ends THEN {v} ELSE {})
        /\ batch' = batch /\ db' = db
    BY <1>1, CountedCounts DEF Ingest
  <2> QED
    BY <1>0, <1>1, <2>1 DEF Ingest
<1>2. ASSUME NEW f \in Flushers, Take(f)
      PROVE  server' # "down"
             /\ u \in UpdatesIn(state') \cup UpdatesIn(batch') \cup UpdatesIn(db')
  <2>1. server # "down" /\ batch = Empty
    BY <1>2 DEF Take, LastFlush, BatchIsHeld
  <2> QED
    BY <1>0, <1>2, <2>1, EmptyCounts DEF Take
<1>3. ASSUME NEW f \in Flushers, Commit(f) \/ FlushFails(f)
      PROVE  server' # "down"
             /\ u \in UpdatesIn(state') \cup UpdatesIn(batch') \cup UpdatesIn(db')
  <2>1. server # "down"
    BY <1>3, SessionAssumption DEF Commit, FlushFails, LastFlush
  <2> QED
    BY <1>0, <1>3, <2>1, MergedCounts DEF Commit, FlushFails, Ended
<1>4. ASSUME NEW f \in Flushers, CommitUnknown(f)
      PROVE  server' # "down"
             /\ u \in UpdatesIn(state') \cup UpdatesIn(batch') \cup UpdatesIn(db')
  <2>1. server # "down"
    BY <1>4, SessionAssumption DEF CommitUnknown, LastFlush
  <2>2. u \notin UpdatesIn(batch) /\ u \notin excused
    BY <1>4 DEF CommitUnknown, Unknown, UpdatesIn
  <2> QED
    BY <1>0, <1>4, <2>1, <2>2, MergedCounts DEF CommitUnknown, Ended
<1>5. CASE FlushTick \/ Stop
  BY <1>0, <1>5 DEF FlushTick, Stop
<1>6. CASE Exit
  <2>1. failures = 0 => UpdatesIn(state) = {} /\ UpdatesIn(batch) = {}
    BY <1>6, EmptyCounts DEF Exit, LastFlush, BatchIsHeld
  <2> QED
    BY <1>0, <1>6, <2>1 DEF Exit
<1>7. CASE Killed
  BY <1>7 DEF Killed
<1>8. CASE UNCHANGED sessionVars
  BY <1>8 DEF sessionVars, AnsweredIsKept
<1> QED
  BY <1>1, <1>2, <1>3, <1>4, <1>5, <1>6, <1>7, <1>8 DEF SessionNext, Flush

LEMMA SessionInvStep == SessionInv /\ [SessionNext]_sessionVars => SessionInv'
  BY SessionTypeStep, FlushStep, CountedStep, KeptStep DEF SessionInv

\* The aggregator's state keeps its type.
THEOREM SessionTypeCorrect == SessionSpec => []SessionTypeOK
<1>1. SessionInv => SessionTypeOK
  BY DEF SessionInv
<1> QED
  BY <1>1, SessionInvInit, SessionInvStep, PTL DEF SessionSpec

\* A session is counted once, through failed flushes and a commit nobody knows
\* the outcome of: "counters will not be replayed" (flush).
THEOREM SessionsAreCountedOnce == SessionSpec => []CountedOnce
<1>1. SessionInv => CountedOnce
  BY DEF SessionInv
<1> QED
  BY <1>1, SessionInvInit, SessionInvStep, PTL DEF SessionSpec

\* What was answered is in memory, in the batch or in the database, and after a
\* stop without a failure in the database (main: "so the runtime cannot exit
\* before it commits").
THEOREM AnsweredSessionsAreKept == SessionSpec => []AnsweredIsKept
<1>1. SessionInv => AnsweredIsKept
  BY DEF SessionInv
<1> QED
  BY <1>1, SessionInvInit, SessionInvStep, PTL DEF SessionSpec

-----------------------------------------------------------------------------
(* Issues, for any events, keys, releases and people *)

IssueRows == [status : {"unresolved", "resolved", "ignored"}, nextRelease : BOOLEAN,
              last : Versions \cup {NoVersion}, events : Nat]

Digests ==
  [at : {"ready", "locked", "creating", "done"}]
  \cup [at : {"found"}, issue : Issues, read : IssueRows \cup {Absent}]

IssueTypeOK ==
  /\ issue \in [Issues -> IssueRows \cup {Absent}]
  /\ used \in SUBSET Issues
  /\ group \in [Keys -> Issues \cup {Gone}]
  /\ stored \in [Events -> Issues \cup {Gone}]
  /\ digest \in [Events -> Digests]
  /\ lock \in Events \cup {Free}
  /\ shipped \in Seq(Versions)
  /\ actions \in Nat

\* A digest in its transaction holds the lock.
LockHeld ==
  \A e \in Events : digest[e].at \in {"locked", "found", "creating"} => lock = e

\* What it read of its key under the lock can only have been deleted since.
ReadUnderLock ==
  \A e \in Events :
    /\ digest[e].at = "found" => group[KeyOf[e]] \in {digest[e].issue, Gone}
    /\ digest[e].at = "creating" => group[KeyOf[e]] = Gone

\* An event is stored under the issue of its key, which is there.
StoredUnderItsKey ==
  \A e \in Events : stored[e] # Gone =>
    group[KeyOf[e]] = stored[e] /\ Present(stored[e])

\* Issues have been used; those that are gone are not used again.
RowsAreUsed == \A i \in Issues : Present(i) => i \in used

EventsOf(i) == {e \in Events : stored[e] = i}

Counts ==
  \A i \in Issues : Present(i) =>
    /\ IsFiniteSet(EventsOf(i))
    /\ issue[i].events = Cardinality(EventsOf(i)) + (IF i = Old THEN 1 ELSE 0)

-----------------------------------------------------------------------------
(* Type correctness *)

LEMMA RowTypes ==
  /\ \A row \in IssueRows : row # Absent /\ row.events \in Nat
  /\ \A release \in Versions \cup {NoVersion} :
       Row(release) \in IssueRows /\ Row(release).events = 1
<1>1. ASSUME NEW row \in IssueRows
      PROVE  row # Absent
  BY row.status # Absent.status DEF IssueRows, Absent
<1>2. \A release : Row(release).events = 1
  BY DEF Row
<1> QED
  BY <1>1, <1>2 DEF IssueRows, Row

LEMMA KeysOfEvents == \A e \in Events : KeyOf[e] \in Keys /\ LegacyOf[e] \in Keys
  BY DEF Keys

LEMMA AfterType ==
  ASSUME NEW row \in IssueRows, NEW read, NEW e \in Events
  PROVE  After(row, read, e) \in IssueRows /\ After(row, read, e).events = row.events + 1
<1> DEFINE last == IF VersionOf[e] # NoVersion THEN VersionOf[e] ELSE row.last
           status == IF Regresses(read, e) THEN "unresolved" ELSE row.status
           next == IF Regresses(read, e) THEN FALSE ELSE row.nextRelease
<1>1. After(row, read, e) = [row EXCEPT !.events = @ + 1, !.last = last,
                                        !.status = status, !.nextRelease = next]
  BY DEF After, IssueRows
<1>2. /\ row.last \in Versions \cup {NoVersion} /\ row.nextRelease \in BOOLEAN
      /\ row.status \in {"unresolved", "resolved", "ignored"}
      /\ row.events \in Nat
  BY DEF IssueRows
<1>3. last \in Versions \cup {NoVersion}
  BY <1>2, IssueAssumption
<1>4. next \in BOOLEAN /\ status \in {"unresolved", "resolved", "ignored"}
  <2>1. CASE Regresses(read, e)
    BY <2>1
  <2>2. CASE ~Regresses(read, e)
    BY <1>2, <2>2
  <2> QED
    BY <2>1, <2>2
<1> HIDE DEF last, status, next
<1>5. After(row, read, e) = [status |-> status, nextRelease |-> next, last |-> last,
                            events |-> row.events + 1]
  BY <1>1 DEF IssueRows
<1>6. row.events + 1 \in Nat
  BY <1>2
<1> QED
  BY <1>3, <1>4, <1>5, <1>6 DEF IssueRows

LEMMA DigestTypes ==
  /\ \A at \in {"ready", "locked", "creating", "done"} : [at |-> at] \in Digests
  /\ \A d \in Digests : d.at = "found" => d.issue \in Issues
  BY DEF Digests

LEMMA IssueTypeInit == IssueInit => IssueTypeOK
<1> SUFFICES ASSUME IssueInit PROVE IssueTypeOK
  OBVIOUS
<1>1. issue \in [Issues -> IssueRows \cup {Absent}]
  BY RowTypes DEF IssueInit
<1>2. digest \in [Events -> Digests]
  BY DigestTypes DEF IssueInit
<1> QED
  BY <1>1, <1>2, IssueAssumption DEF IssueInit, IssueTypeOK

\* The end of a digest.
LEMMA FinishType ==
  ASSUME IssueTypeOK, NEW e \in Events, NEW at \in {"ready", "done"}, Finish(e, at)
  PROVE  /\ lock' = Free
         /\ digest' \in [Events -> Digests] /\ digest'[e].at = at
         /\ \A d \in Events : d # e => digest'[d] = digest[d]
  BY DigestTypes DEF Finish, IssueTypeOK

LEMMA ShipType ==
  ASSUME IssueTypeOK, NEW r \in Versions, Ship(r)
  PROVE  shipped' \in Seq(Versions)
<1> DEFINE n == Len(shipped)
<1>1. DOMAIN shipped = 1..n /\ n \in Nat
  BY DEF IssueTypeOK
<1>2. Cardinality(DOMAIN shipped) = n
  <2> HIDE DEF n
  <2>1. Cardinality(1..n) = IF 1 > n THEN 0 ELSE n - 1 + 1
    BY <1>1, FS_Interval
  <2> QED
    BY <1>1, <2>1
<1>3. \A k \in 1..n : shipped[k] \in Versions
  BY DEF IssueTypeOK
<1>4. shipped' = [k \in 1..n + 1 |-> IF k \in 1..n THEN shipped[k] ELSE r]
  BY <1>1, <1>2 DEF Ship
<1>5. shipped' \in [1..n + 1 -> Versions]
  BY <1>3, <1>4
<1> HIDE DEF n
<1> QED
  BY <1>1, <1>5

\* Which rows a release leaves as they are, but for their wait.
LEMMA ShipRows ==
  ASSUME IssueTypeOK, NEW r \in Versions, Ship(r)
  PROVE  /\ issue' \in [Issues -> IssueRows \cup {Absent}]
         /\ \A i \in Issues : Present(i)' <=> Present(i)
         /\ \A i \in Issues : Present(i) => issue'[i].events = issue[i].events
<1>1. ASSUME NEW i \in Issues
      PROVE  \/ issue'[i] = issue[i]
             \/ Present(i) /\ issue'[i] = [issue[i] EXCEPT !.nextRelease = FALSE]
  BY DEF Ship
<1>2. ASSUME NEW i \in Issues, Present(i)
      PROVE  /\ issue[i] \in IssueRows
             /\ [issue[i] EXCEPT !.nextRelease = FALSE] \in IssueRows
             /\ [issue[i] EXCEPT !.nextRelease = FALSE].events = issue[i].events
  BY <1>2 DEF Present, IssueTypeOK, IssueRows
<1>3. ASSUME NEW i \in Issues
      PROVE  /\ issue'[i] \in IssueRows \cup {Absent}
             /\ Present(i)' <=> Present(i)
             /\ Present(i) => issue'[i].events = issue[i].events
  BY <1>1, <1>2, RowTypes DEF Present, IssueTypeOK
<1>4. issue' \in [Issues -> IssueRows \cup {Absent}]
  <2>1. issue' = [i \in Issues |-> issue'[i]]
    BY DEF Ship
  <2> QED
    BY <1>3, <2>1
<1> QED
  BY <1>3, <1>4

LEMMA IssueTypeStep == IssueTypeOK /\ [IssueNext]_issueVars => IssueTypeOK'
<1> SUFFICES ASSUME IssueTypeOK, [IssueNext]_issueVars PROVE IssueTypeOK'
  OBVIOUS
<1>1. ASSUME NEW e \in Events, Lock(e)
      PROVE  IssueTypeOK'
  BY <1>1, DigestTypes DEF Lock, IssueTypeOK
<1>2. ASSUME NEW e \in Events, Find(e)
      PROVE  IssueTypeOK'
  <2>1. CASE Finds(e) = Gone
    BY <1>2, <2>1, DigestTypes DEF Find, IssueTypeOK
  <2>2. CASE Finds(e) # Gone
    <3>1. Finds(e) \in Issues
      BY <2>2, KeysOfEvents DEF Finds, IssueTypeOK
    <3>2. [at |-> "found", issue |-> Finds(e), read |-> issue[Finds(e)]] \in Digests
      BY <3>1 DEF IssueTypeOK, Digests
    <3> QED
      BY <1>2, <2>2, <3>2 DEF Find, IssueTypeOK
  <2> QED
    BY <2>1, <2>2
<1>3. ASSUME NEW e \in Events, Land(e)
      PROVE  IssueTypeOK'
  <2> DEFINE i == digest[e].issue
  <2>1. i \in Issues /\ issue[i] \in IssueRows
    BY <1>3, DigestTypes DEF Land, Present, IssueTypeOK
  <2>2. After(issue[i], digest[e].read, e) \in IssueRows
    BY <2>1, AfterType
  <2>3. issue' \in [Issues -> IssueRows \cup {Absent}]
    BY <1>3, <2>1, <2>2 DEF Land, IssueTypeOK
  <2>4. /\ group' \in [Keys -> Issues \cup {Gone}]
        /\ stored' \in [Events -> Issues \cup {Gone}]
    BY <1>3, <2>1 DEF Land, IssueTypeOK
  <2> QED
    BY <1>3, <2>3, <2>4, FinishType DEF Land, IssueTypeOK
<1>4. ASSUME NEW e \in Events, Create(e)
      PROVE  IssueTypeOK'
  <2>1. PICK i \in Issues \ used :
          /\ used' = used \cup {i}
          /\ issue' = [issue EXCEPT ![i] = Row(VersionOf[e])]
          /\ stored' = [stored EXCEPT ![e] = i]
          /\ group' = [group EXCEPT ![KeyOf[e]] = i]
    BY <1>4 DEF Create
  <2>2. Row(VersionOf[e]) \in IssueRows
    BY RowTypes, IssueAssumption
  <2> QED
    BY <1>4, <2>1, <2>2, FinishType DEF Create, IssueTypeOK
<1>5. ASSUME NEW e \in Events, RollBack(e)
      PROVE  IssueTypeOK'
  BY <1>5, FinishType DEF RollBack, IssueTypeOK
<1>6. ASSUME NEW e \in Events, Replay(e)
      PROVE  IssueTypeOK'
  BY <1>6, DigestTypes DEF Replay, IssueTypeOK
<1>7. ASSUME NEW i \in Issues, NEW status \in {"unresolved", "resolved", "ignored"},
             SetStatus(i, status)
      PROVE  IssueTypeOK'
  <2>1. [issue[i] EXCEPT !.status = status, !.nextRelease = FALSE] \in IssueRows
    BY <1>7 DEF SetStatus, Present, IssueTypeOK, IssueRows
  <2> QED
    BY <1>7, <2>1 DEF SetStatus, IssueTypeOK
<1>8. ASSUME NEW i \in Issues, ResolveInNextRelease(i)
      PROVE  IssueTypeOK'
  <2>1. [issue[i] EXCEPT !.status = "resolved", !.nextRelease = TRUE] \in IssueRows
    BY <1>8 DEF ResolveInNextRelease, Present, IssueTypeOK, IssueRows
  <2> QED
    BY <1>8, <2>1 DEF ResolveInNextRelease, IssueTypeOK
<1>9. ASSUME NEW i \in Issues, Delete(i)
      PROVE  IssueTypeOK'
  BY <1>9 DEF Delete, IssueTypeOK
<1>10. ASSUME NEW r \in Versions, Ship(r)
       PROVE  IssueTypeOK'
  BY <1>10, ShipType, ShipRows DEF Ship, IssueTypeOK
<1>11. CASE UNCHANGED issueVars
  BY <1>11 DEF issueVars, IssueTypeOK
<1> QED
  BY <1>1, <1>2, <1>3, <1>4, <1>5, <1>6, <1>7, <1>8, <1>9, <1>10, <1>11
  DEF IssueNext

\* The rows keep their types, for any events and people.
THEOREM IssueTypeCorrect == IssueSpec => []IssueTypeOK
  BY IssueTypeInit, IssueTypeStep, PTL DEF IssueSpec

-----------------------------------------------------------------------------
(* One issue per key *)

\* What people set on an issue, and what a release changes, takes no issue away
\* and counts nothing.
LEMMA StatusRows ==
  ASSUME IssueTypeOK,
         \/ \E i \in Issues, status \in {"unresolved", "resolved", "ignored"} :
              SetStatus(i, status)
         \/ \E i \in Issues : ResolveInNextRelease(i)
         \/ \E r \in Versions : Ship(r)
  PROVE  /\ UNCHANGED <<used, group, stored, digest, lock>>
         /\ \A i \in Issues : Present(i)' <=> Present(i)
         /\ \A i \in Issues : Present(i) => issue'[i].events = issue[i].events
<1>1. CASE \E r \in Versions : Ship(r)
  BY <1>1, ShipRows DEF Ship
<1>2. ASSUME NEW i \in Issues, NEW status, NEW next,
             Present(i),
             issue' = [issue EXCEPT ![i].status = status, ![i].nextRelease = next],
             status \in {"unresolved", "resolved", "ignored"}, next \in BOOLEAN
      PROVE  /\ \A j \in Issues : Present(j)' <=> Present(j)
             /\ \A j \in Issues : Present(j) => issue'[j].events = issue[j].events
  <2>1. issue[i] \in IssueRows
    BY <1>2 DEF Present, IssueTypeOK
  <2>2. /\ issue'[i] = [issue[i] EXCEPT !.status = status, !.nextRelease = next]
        /\ \A j \in Issues : j # i => issue'[j] = issue[j]
    BY <1>2 DEF IssueTypeOK
  <2>3. /\ issue'[i] = [status |-> status, nextRelease |-> next,
                        last |-> issue[i].last, events |-> issue[i].events]
        /\ issue[i].last \in Versions \cup {NoVersion} /\ issue[i].events \in Nat
    BY <2>1, <2>2 DEF IssueRows
  <2>4. issue'[i] \in IssueRows /\ issue'[i].events = issue[i].events
    <3>1. status \in {"unresolved", "resolved", "ignored"} /\ next \in BOOLEAN
      BY <1>2
    <3> QED
      BY <2>3, <3>1 DEF IssueRows
  <2> QED
    BY <1>2, <2>2, <2>4, RowTypes DEF Present
<1>3. ASSUME NEW i \in Issues, NEW status \in {"unresolved", "resolved", "ignored"},
             SetStatus(i, status)
      PROVE  /\ UNCHANGED <<used, group, stored, digest, lock>>
             /\ \A j \in Issues : Present(j)' <=> Present(j)
             /\ \A j \in Issues : Present(j) => issue'[j].events = issue[j].events
  <2>1. Present(i) /\ FALSE \in BOOLEAN
        /\ issue' = [issue EXCEPT ![i].status = status, ![i].nextRelease = FALSE]
    BY <1>3 DEF SetStatus
  <2> QED
    BY <1>2, <1>3, <2>1 DEF SetStatus
<1>4. ASSUME NEW i \in Issues, ResolveInNextRelease(i)
      PROVE  /\ UNCHANGED <<used, group, stored, digest, lock>>
             /\ \A j \in Issues : Present(j)' <=> Present(j)
             /\ \A j \in Issues : Present(j) => issue'[j].events = issue[j].events
  <2>1. Present(i) /\ TRUE \in BOOLEAN
        /\ issue' = [issue EXCEPT ![i].status = "resolved", ![i].nextRelease = TRUE]
    BY <1>4 DEF ResolveInNextRelease
  <2> QED
    BY <1>2, <1>4, <2>1 DEF ResolveInNextRelease
<1> QED
  BY <1>1, <1>3, <1>4

\* Where an event lands: one more event of one issue, which is there.
LEMMA LandRows ==
  ASSUME IssueTypeOK, NEW e \in Events, Land(e)
  PROVE  \E i \in Issues :
           /\ i = digest[e].issue /\ Present(i) /\ Present(i)' /\ stored[e] = Gone
           /\ issue'[i].events = issue[i].events + 1
           /\ \A j \in Issues : j # i => issue'[j] = issue[j]
           /\ stored' = [stored EXCEPT ![e] = i]
           /\ group' = [group EXCEPT ![KeyOf[e]] = i]
<1>0. PICK i \in Issues : i = digest[e].issue
  BY DigestTypes DEF Land, IssueTypeOK
<1>1. Present(i) /\ issue[i] \in IssueRows
  BY <1>0 DEF Land, Present, IssueTypeOK
<1>2. /\ issue'[i] = After(issue[i], digest[e].read, e)
      /\ \A j \in Issues : j # i => issue'[j] = issue[j]
  BY <1>0, <1>1 DEF Land, IssueTypeOK
<1>3. issue'[i] \in IssueRows /\ issue'[i].events = issue[i].events + 1
  BY <1>1, <1>2, AfterType
<1>4. Present(i)'
  BY <1>3, RowTypes DEF Present
<1> QED
  BY <1>0, <1>1, <1>2, <1>3, <1>4 DEF Land, Duplicate

\* A new issue, with one event.
LEMMA CreateRows ==
  ASSUME IssueTypeOK, NEW e \in Events, Create(e)
  PROVE  \E i \in Issues \ used :
           /\ Present(i)' /\ stored[e] = Gone
           /\ issue'[i].events = 1
           /\ \A j \in Issues : j # i => issue'[j] = issue[j]
           /\ used' = used \cup {i}
           /\ stored' = [stored EXCEPT ![e] = i]
           /\ group' = [group EXCEPT ![KeyOf[e]] = i]
<1>1. PICK i \in Issues \ used :
        /\ used' = used \cup {i}
        /\ issue' = [issue EXCEPT ![i] = Row(VersionOf[e])]
        /\ stored' = [stored EXCEPT ![e] = i]
        /\ group' = [group EXCEPT ![KeyOf[e]] = i]
  BY DEF Create
<1>2. /\ issue'[i] = Row(VersionOf[e])
      /\ \A j \in Issues : j # i => issue'[j] = issue[j]
  BY <1>1 DEF IssueTypeOK
<1>3. issue'[i] \in IssueRows /\ issue'[i].events = 1
  BY <1>2, RowTypes, IssueAssumption
<1>4. Present(i)'
  BY <1>3, RowTypes DEF Present
<1> QED
  BY <1>1, <1>2, <1>3, <1>4 DEF Create, Duplicate

KeyInv == IssueTypeOK /\ LockHeld /\ ReadUnderLock /\ StoredUnderItsKey /\ RowsAreUsed /\ Old \in used

\* A digest that ends leaves nobody in a transaction.
LEMMA FinishFrees ==
  ASSUME IssueTypeOK, LockHeld, NEW e \in Events, NEW at \in {"ready", "done"},
         Finish(e, at), digest[e].at \in {"locked", "found", "creating"}
  PROVE  LockHeld' /\ ReadUnderLock'
<1>1. \A d \in Events : digest'[d].at \notin {"locked", "found", "creating"}
  BY FinishType DEF LockHeld
<1> QED
  BY <1>1 DEF LockHeld, ReadUnderLock

LEMMA KeyInvInit == IssueInit => KeyInv
<1> SUFFICES ASSUME IssueInit
             PROVE  LockHeld /\ ReadUnderLock /\ StoredUnderItsKey /\ RowsAreUsed /\ Old \in used
  BY IssueTypeInit DEF KeyInv
<1>1. LockHeld /\ ReadUnderLock
  BY DEF IssueInit, LockHeld, ReadUnderLock
<1>2. StoredUnderItsKey /\ RowsAreUsed /\ Old \in used
  BY DEF IssueInit, StoredUnderItsKey, RowsAreUsed, Present
<1> QED
  BY <1>1, <1>2

LEMMA KeyInvStep == KeyInv /\ [IssueNext]_issueVars => KeyInv'
<1> SUFFICES ASSUME KeyInv, [IssueNext]_issueVars
             PROVE  LockHeld' /\ ReadUnderLock' /\ StoredUnderItsKey' /\ RowsAreUsed' /\ Old \in used'
  BY IssueTypeStep DEF KeyInv
<1> USE DEF KeyInv
<1>1. ASSUME UNCHANGED <<used, group, stored>>,
             \A i \in Issues : Present(i)' <=> Present(i)
      PROVE  StoredUnderItsKey' /\ RowsAreUsed' /\ Old \in used'
  <2>1. \A e \in Events : stored[e] # Gone => stored[e] \in Issues
    BY DEF IssueTypeOK
  <2> QED
    BY <1>1, <2>1 DEF StoredUnderItsKey, RowsAreUsed
<1>2. ASSUME NEW e \in Events, Lock(e)
      PROVE  LockHeld' /\ ReadUnderLock' /\ StoredUnderItsKey' /\ RowsAreUsed' /\ Old \in used'
  <2>1. digest'[e].at = "locked" /\ \A d \in Events : d # e => digest'[d] = digest[d]
    BY <1>2 DEF Lock, IssueTypeOK
  <2>2. \A d \in Events : digest[d].at \notin {"locked", "found", "creating"}
    BY <1>2, IssueAssumption DEF Lock, LockHeld, Free
  <2>3. LockHeld' /\ ReadUnderLock'
    BY <1>2, <2>1, <2>2 DEF Lock, LockHeld, ReadUnderLock
  <2> QED
    BY <1>1, <1>2, <2>3 DEF Lock, Present
<1>3. ASSUME NEW e \in Events, Find(e)
      PROVE  LockHeld' /\ ReadUnderLock' /\ StoredUnderItsKey' /\ RowsAreUsed' /\ Old \in used'
  <2>1. /\ lock = e /\ lock' = lock /\ group' = group
        /\ \A d \in Events : d # e => digest'[d] = digest[d]
    BY <1>3 DEF Find, IssueTypeOK, LockHeld
  <2>2. CASE Finds(e) = Gone
    <3>1. digest'[e] = [at |-> "creating"] /\ group[KeyOf[e]] = Gone
      BY <1>3, <2>2, IssueAssumption DEF Find, Finds, IssueTypeOK
    <3> QED
      BY <1>1, <1>3, <2>1, <3>1 DEF Find, Present, LockHeld, ReadUnderLock
  <2>3. CASE Finds(e) # Gone
    <3>1. digest'[e].at = "found" /\ digest'[e].issue = Finds(e)
      BY <1>3, <2>3 DEF Find, IssueTypeOK
    <3>2. group[KeyOf[e]] \in {Finds(e), Gone}
      BY DEF Finds
    <3> QED
      BY <1>1, <1>3, <2>1, <3>1, <3>2 DEF Find, Present, LockHeld, ReadUnderLock
  <2> QED
    BY <2>2, <2>3
<1>4. ASSUME NEW e \in Events, Land(e)
      PROVE  LockHeld' /\ ReadUnderLock' /\ StoredUnderItsKey' /\ RowsAreUsed' /\ Old \in used'
  <2>1. LockHeld' /\ ReadUnderLock'
    BY <1>4, FinishFrees DEF Land
  <2>2. PICK i \in Issues :
          /\ i = digest[e].issue /\ Present(i) /\ Present(i)'
          /\ \A j \in Issues : j # i => issue'[j] = issue[j]
          /\ stored' = [stored EXCEPT ![e] = i]
          /\ group' = [group EXCEPT ![KeyOf[e]] = i]
    BY <1>4, LandRows
  <2>3. \A j \in Issues : Present(j)' <=> Present(j)
    BY <2>2 DEF Present
  <2>4. group[KeyOf[e]] \in {i, Gone}
    BY <1>4, <2>2 DEF Land, ReadUnderLock
  <2>5. StoredUnderItsKey'
    <3> SUFFICES ASSUME NEW d \in Events, stored'[d] # Gone
                 PROVE  group'[KeyOf[d]] = stored'[d] /\ issue'[stored'[d]] # Absent
      BY DEF StoredUnderItsKey, Present
    <3>1. CASE d = e
      BY <2>2, <3>1, KeysOfEvents DEF IssueTypeOK, Present
    <3>2. CASE d # e
      <4>0. stored'[d] = stored[d] /\ stored[d] # Gone
        BY <2>2, <3>2 DEF IssueTypeOK
      <4>1. stored'[d] = stored[d] /\ group[KeyOf[d]] = stored[d] /\ Present(stored[d])
        BY <2>2, <3>2 DEF IssueTypeOK, StoredUnderItsKey
      <4>2. stored[d] \in Issues /\ issue'[stored[d]] # Absent
        BY <2>3, <3>2, <4>1, <4>0 DEF IssueTypeOK, Present
      <4>3. KeyOf[d] = KeyOf[e] => stored[d] = i
        BY <2>4, <4>1
      <4> QED
        BY <2>2, <4>1, <4>2, <4>3, KeysOfEvents DEF IssueTypeOK
    <3> QED
      BY <3>1, <3>2
  <2> QED
    BY <1>4, <2>1, <2>3, <2>5 DEF Land, RowsAreUsed
<1>5. ASSUME NEW e \in Events, Create(e)
      PROVE  LockHeld' /\ ReadUnderLock' /\ StoredUnderItsKey' /\ RowsAreUsed' /\ Old \in used'
  <2>1. LockHeld' /\ ReadUnderLock'
    BY <1>5, FinishFrees DEF Create
  <2>2. PICK i \in Issues \ used :
          /\ Present(i)'
          /\ \A j \in Issues : j # i => issue'[j] = issue[j]
          /\ used' = used \cup {i}
          /\ stored' = [stored EXCEPT ![e] = i]
          /\ group' = [group EXCEPT ![KeyOf[e]] = i]
    BY <1>5, CreateRows
  <2>3. group[KeyOf[e]] = Gone
    BY <1>5 DEF Create, ReadUnderLock
  <2>4. RowsAreUsed' /\ Old \in used'
    BY <2>2 DEF RowsAreUsed, Present
  <2>5. StoredUnderItsKey'
    <3> SUFFICES ASSUME NEW d \in Events, stored'[d] # Gone
                 PROVE  group'[KeyOf[d]] = stored'[d] /\ issue'[stored'[d]] # Absent
      BY DEF StoredUnderItsKey, Present
    <3>1. CASE d = e
      BY <2>2, <3>1, KeysOfEvents DEF IssueTypeOK, Present
    <3>2. CASE d # e
      <4>1. stored'[d] = stored[d] /\ group[KeyOf[d]] = stored[d] /\ Present(stored[d])
            /\ stored[d] # Gone
        BY <2>2, <3>2 DEF IssueTypeOK, StoredUnderItsKey
      <4>2. stored[d] \in used
        BY <4>1 DEF RowsAreUsed, IssueTypeOK
      <4>3. issue'[stored[d]] # Absent
        BY <2>2, <4>1, <4>2 DEF Present, IssueTypeOK
      <4>4. KeyOf[d] # KeyOf[e]
        BY <2>3, <4>1
      <4> QED
        BY <2>2, <4>1, <4>3, <4>4, KeysOfEvents DEF IssueTypeOK
    <3> QED
      BY <3>1, <3>2
  <2> QED
    BY <2>1, <2>4, <2>5
<1>6. ASSUME NEW e \in Events, RollBack(e)
      PROVE  LockHeld' /\ ReadUnderLock' /\ StoredUnderItsKey' /\ RowsAreUsed' /\ Old \in used'
  BY <1>1, <1>6, FinishFrees DEF RollBack, Present
<1>7. ASSUME NEW e \in Events, Replay(e)
      PROVE  LockHeld' /\ ReadUnderLock' /\ StoredUnderItsKey' /\ RowsAreUsed' /\ Old \in used'
  <2>1. digest'[e].at = "ready" /\ \A d \in Events : d # e => digest'[d] = digest[d]
    BY <1>7 DEF Replay, IssueTypeOK
  <2>2. LockHeld' /\ ReadUnderLock'
    BY <1>7, <2>1 DEF Replay, LockHeld, ReadUnderLock
  <2> QED
    BY <1>1, <1>7, <2>2 DEF Replay, Present
<1>8. ASSUME UNCHANGED <<used, group, stored, digest, lock>>,
             \A i \in Issues : Present(i)' <=> Present(i)
      PROVE  LockHeld' /\ ReadUnderLock' /\ StoredUnderItsKey' /\ RowsAreUsed' /\ Old \in used'
  BY <1>1, <1>8 DEF LockHeld, ReadUnderLock
<1>9. ASSUME NEW i \in Issues, Delete(i)
      PROVE  LockHeld' /\ ReadUnderLock' /\ StoredUnderItsKey' /\ RowsAreUsed' /\ Old \in used'
  <2>1. /\ UNCHANGED <<used, digest, lock>>
        /\ \A j \in Issues : j # i => issue'[j] = issue[j]
        /\ issue'[i] = Absent
        /\ \A k \in Keys : group'[k] = IF group[k] = i THEN Gone ELSE group[k]
        /\ \A e \in Events : stored'[e] = IF stored[e] = i THEN Gone ELSE stored[e]
    BY <1>9 DEF Delete, IssueTypeOK
  <2>2. LockHeld' /\ ReadUnderLock'
    BY <2>1, KeysOfEvents DEF LockHeld, ReadUnderLock
  <2>3. StoredUnderItsKey'
    BY <2>1, KeysOfEvents DEF StoredUnderItsKey, Present, IssueTypeOK
  <2> QED
    BY <2>1, <2>2, <2>3 DEF RowsAreUsed, Present
<1>10. CASE UNCHANGED issueVars
  BY <1>8, <1>10 DEF issueVars, Present
<1> QED
  BY <1>2, <1>3, <1>4, <1>5, <1>6, <1>7, <1>8, <1>9, <1>10, StatusRows DEF IssueNext

\* Two events that group together are stored under one issue: the lock makes the
\* reads of the grouping and the writes they lead to one step to other digests,
\* and a deletion takes the events with the grouping.
THEOREM OneIssueForAKey == IssueSpec => []OneIssuePerKey
<1>1. KeyInv => OneIssuePerKey
  BY DEF KeyInv, StoredUnderItsKey, OneIssuePerKey
<1> QED
  BY <1>1, KeyInvInit, KeyInvStep, PTL DEF IssueSpec

-----------------------------------------------------------------------------
(* The counter of an issue *)

LEMMA CountsInit == IssueInit => Counts
<1> SUFFICES ASSUME IssueInit, NEW i \in Issues, Present(i)
             PROVE  /\ IsFiniteSet(EventsOf(i))
                    /\ issue[i].events = Cardinality(EventsOf(i)) + (IF i = Old THEN 1 ELSE 0)
  BY DEF Counts
<1>1. i = Old /\ issue[i].events = 1
  BY RowTypes DEF IssueInit, Present
<1>2. EventsOf(i) = {}
  BY IssueAssumption DEF IssueInit, EventsOf, Gone
<1> QED
  BY <1>1, <1>2, FS_EmptySet

LEMMA CountsStep == KeyInv /\ Counts /\ [IssueNext]_issueVars => Counts'
<1> SUFFICES ASSUME KeyInv, Counts, [IssueNext]_issueVars
             PROVE  Counts'
  OBVIOUS
<1> USE DEF KeyInv
\* What leaves an issue and its events alone leaves its count right.
<1>1. ASSUME NEW i \in Issues, issue'[i] # Absent, Present(i),
             issue'[i].events = issue[i].events,
             \A e \in Events : stored'[e] = i <=> stored[e] = i
      PROVE  /\ IsFiniteSet(EventsOf(i)')
             /\ issue'[i].events = Cardinality(EventsOf(i)') + (IF i = Old THEN 1 ELSE 0)
  <2>1. EventsOf(i)' = EventsOf(i)
    BY <1>1 DEF EventsOf
  <2>2. /\ IsFiniteSet(EventsOf(i))
        /\ issue[i].events = Cardinality(EventsOf(i)) + (IF i = Old THEN 1 ELSE 0)
    BY <1>1 DEF Counts
  <2> QED
    BY <1>1, <2>1, <2>2
<1>2. ASSUME UNCHANGED stored,
             \A i \in Issues : Present(i)' <=> Present(i),
             \A i \in Issues : Present(i) => issue'[i].events = issue[i].events
      PROVE  Counts'
  BY <1>1, <1>2 DEF Counts, Present
<1>3. ASSUME NEW e \in Events, Land(e)
      PROVE  Counts'
  <2>1. PICK i \in Issues :
          /\ Present(i) /\ Present(i)' /\ stored[e] = Gone
          /\ issue'[i].events = issue[i].events + 1
          /\ \A j \in Issues : j # i => issue'[j] = issue[j]
          /\ stored' = [stored EXCEPT ![e] = i]
    BY <1>3, LandRows
  <2>2. ASSUME NEW j \in Issues, j # i, Present(j)'
        PROVE  /\ IsFiniteSet(EventsOf(j)')
               /\ issue'[j].events = Cardinality(EventsOf(j)') + (IF j = Old THEN 1 ELSE 0)
    <3>1. \A d \in Events : stored'[d] = j <=> stored[d] = j
      BY <2>1, <2>2, IssueAssumption DEF IssueTypeOK, Gone
    <3>2. issue'[j] # Absent /\ Present(j) /\ issue'[j].events = issue[j].events
      BY <2>1, <2>2 DEF Present
    <3> QED
      BY <1>1, <3>1, <3>2
  <2>3. EventsOf(i)' = EventsOf(i) \cup {e} /\ e \notin EventsOf(i)
    BY <2>1, IssueAssumption DEF EventsOf, IssueTypeOK, Gone
  <2>4. /\ IsFiniteSet(EventsOf(i))
        /\ issue[i].events = Cardinality(EventsOf(i)) + (IF i = Old THEN 1 ELSE 0)
    BY <2>1 DEF Counts
  <2>5. /\ IsFiniteSet(EventsOf(i)')
        /\ Cardinality(EventsOf(i)') = Cardinality(EventsOf(i)) + 1
        /\ Cardinality(EventsOf(i)) \in Nat
    BY <2>3, <2>4, FS_AddElement, FS_CardinalityType
  <2>6. issue'[i].events = Cardinality(EventsOf(i)') + (IF i = Old THEN 1 ELSE 0)
    BY <2>1, <2>4, <2>5
  <2> QED
    BY <2>2, <2>5, <2>6 DEF Counts
<1>4. ASSUME NEW e \in Events, Create(e)
      PROVE  Counts'
  <2>1. PICK i \in Issues \ used :
          /\ Present(i)' /\ stored[e] = Gone
          /\ issue'[i].events = 1
          /\ \A j \in Issues : j # i => issue'[j] = issue[j]
          /\ stored' = [stored EXCEPT ![e] = i]
    BY <1>4, CreateRows
  <2>2. ASSUME NEW j \in Issues, j # i, Present(j)'
        PROVE  /\ IsFiniteSet(EventsOf(j)')
               /\ issue'[j].events = Cardinality(EventsOf(j)') + (IF j = Old THEN 1 ELSE 0)
    <3>1. \A d \in Events : stored'[d] = j <=> stored[d] = j
      BY <2>1, <2>2, IssueAssumption DEF IssueTypeOK, Gone
    <3>2. issue'[j] # Absent /\ Present(j) /\ issue'[j].events = issue[j].events
      BY <2>1, <2>2 DEF Present
    <3> QED
      BY <1>1, <3>1, <3>2
  \* No event was stored under a row not used yet.
  <2>3. \A d \in Events : stored[d] # i
    BY <2>1, IssueAssumption DEF StoredUnderItsKey, RowsAreUsed, Gone
  <2>4. EventsOf(i)' = {e}
    BY <2>1, <2>3 DEF EventsOf, IssueTypeOK
  <2>5. IsFiniteSet(EventsOf(i)') /\ Cardinality(EventsOf(i)') = 1
    BY <2>4, FS_Singleton
  <2>6. i # Old
    BY <2>1
  <2> QED
    BY <2>1, <2>2, <2>5, <2>6 DEF Counts
<1>5. ASSUME NEW i \in Issues, Delete(i)
      PROVE  Counts'
  <2>1. /\ \A j \in Issues : j # i => issue'[j] = issue[j]
        /\ issue'[i] = Absent
        /\ \A e \in Events : stored'[e] = IF stored[e] = i THEN Gone ELSE stored[e]
    BY <1>5 DEF Delete, IssueTypeOK
  <2>2. \A j \in Issues : j # i => \A e \in Events : stored'[e] = j <=> stored[e] = j
    BY <2>1, IssueAssumption DEF Gone
  <2> QED
    BY <1>1, <2>1, <2>2 DEF Counts, Present
<1>6. CASE UNCHANGED issueVars
  BY <1>2, <1>6 DEF issueVars, Present
<1>7. ASSUME NEW e \in Events, Lock(e) \/ Find(e) \/ RollBack(e) \/ Replay(e)
      PROVE  Counts'
  BY <1>2, <1>7 DEF Lock, Find, RollBack, Replay, Present
<1>8. ASSUME \/ \E i \in Issues, status \in {"unresolved", "resolved", "ignored"} :
                  SetStatus(i, status)
             \/ \E i \in Issues : ResolveInNextRelease(i)
             \/ \E r \in Versions : Ship(r)
      PROVE  Counts'
  BY <1>2, <1>8, StatusRows
<1> QED
  BY <1>3, <1>4, <1>5, <1>6, <1>7, <1>8 DEF IssueNext

\* The issue counters and the event row are one transaction: an issue counts the
\* events stored under it, and the one an older server left under Old, whatever
\* is replayed, deleted or resolved in between.
THEOREM IssuesCountTheirEvents == IssueSpec => []CountsItsEvents
<1>1. Counts => CountsItsEvents
  BY DEF Counts, EventsOf, CountsItsEvents
<1> QED
  BY <1>1, KeyInvInit, KeyInvStep, CountsInit, CountsStep, PTL DEF IssueSpec
==============================================================================
