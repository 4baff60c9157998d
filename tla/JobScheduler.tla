---------------------------- MODULE JobScheduler ----------------------------
(***************************************************************************)
(* One scheduled job of scheduler/engine.rs, with the storage clean-up of  *)
(* services/storage.rs as its work: the job that people also start by      *)
(* hand and whose settings they save while it runs.                        *)
(*                                                                         *)
(* The row of `scheduled_jobs` is all that a restart finds. The scheduler's *)
(* loop reads it, decides in memory, and writes it under the condition     *)
(* that the settings are still those it read; a claimed run goes on in its *)
(* own task. Clean-ups asked for by hand share one flag with it, and those *)
(* that enforce the retention settings also record themselves in the row.  *)
(* Time is in minutes. A schedule is the set of the minutes it fires at.   *)
(***************************************************************************)
EXTENDS Naturals, FiniteSets, FiniteSetsExt

CONSTANTS
    Manuals,        \* clean-ups that people start by hand
    Recorded,       \* those of them that enforce the saved retention
    Settings,       \* what may be saved
    Slots,          \* the minutes each of them fires at; none: disabled
    Policies,       \* what a job may do about runs it missed: "RunOnce", "Skip"
    Mishaps,        \* which of "crash", "fault" and "hangup" happen
    MaxMishaps,     \* bound: how many of them
    MaxSaves,       \* bound: saves of the settings
    MaxClock,       \* bound: the last minute that is reached
    None

ASSUME ScheduleAssumption ==
    /\ Recorded \subseteq Manuals
    /\ Slots \in [Settings -> SUBSET Nat]
    /\ {MaxMishaps, MaxSaves, MaxClock} \subseteq Nat
    /\ Mishaps \subseteq {"crash", "fault", "hangup"}
    /\ Policies \subseteq {"RunOnce", "Skip"}
    /\ None \notin Settings \cup Manuals \cup Nat
    /\ Manuals \cap Nat = {}
    \* a schedule that fires at all always fires again
    /\ \A s \in Settings : Slots[s] # {} => \E t \in Slots[s] : t > MaxClock

VARIABLES
    policy,         \* the job's own, for good
    clock,
    row,            \* the job's row of scheduled_jobs
    tick,           \* the scheduler's loop
    running,        \* the scheduler's set of running jobs holds this one
    runs,           \* the tasks of the scheduled runs
    cleaning,       \* the clean-up's status is `running`
    manual,         \* the clean-ups asked for by hand
    saves, mishaps, \* counters
    crashed,        \* history: the server has been restarted
    beganAt         \* history: when a clean-up last began

vars == <<policy, clock, row, tick, running, runs, cleaning, manual, saves, mishaps,
          crashed, beganAt>>
history == <<crashed, beganAt>>

Minutes == 0 .. MaxClock
Instants == (UNION {Slots[s] : s \in Settings}) \cup {None}

\* What `last_started_at` names: the tick that claimed the run, or a manual one.
RunIds == Minutes \cup Manuals

Rows == [settings : Settings, next : Instants,
         started : RunIds \cup {None}, finished : RunIds \cup {None}]
Ticks == [pc : {"waiting", "deciding", "moving", "claiming"},
          now : Minutes, settings : Settings, due : Instants, next : Instants]
ManualStates == {"no", "starting", "recorded", "dropped"}

NoTick(s) == [pc |-> "waiting", now |-> 0, settings |-> s, due |-> None, next |-> None]

Init ==
    /\ policy \in Policies
    /\ clock = 0
    /\ \E s \in Settings :
        /\ row = [settings |-> s, next |-> None, started |-> None, finished |-> None]
        /\ tick = NoTick(s)
    /\ running = FALSE
    /\ runs = {}
    /\ cleaning = FALSE
    /\ manual = [m \in Manuals |-> [pc |-> "no", works |-> FALSE]]
    /\ saves = 0 /\ mishaps = 0
    /\ crashed = FALSE /\ beganAt = None

Mishap(kind) ==
    /\ kind \in Mishaps
    /\ mishaps < MaxMishaps
    /\ mishaps' = mishaps + 1

Minute ==
    /\ clock < MaxClock
    /\ clock' = clock + 1
    /\ UNCHANGED <<policy, row, tick, running, runs, cleaning, manual, saves, mishaps, history>>

---------------------------------------------------------------------------
(* The scheduler's loop *)

\* Schedule::next_after: the first run strictly after t.
NextAfter(s, t) == Min({u \in Slots[s] : u > t})

\* The loop comes round and reads the row.
Read ==
    /\ tick.pc = "waiting"
    /\ tick' = [pc |-> "deciding", now |-> clock, settings |-> row.settings,
                due |-> row.next, next |-> None]
    /\ UNCHANGED <<policy, clock, row, running, runs, cleaning, manual, saves, mishaps, history>>

TickTo(pc, next) == tick' = [tick EXCEPT !.pc = pc, !.next = next]

Enabled == Slots[tick.settings] # {}

\* Mutant of MayRun: the set of running jobs is not looked at.
MayRunBeside ==
    /\ Enabled
    /\ tick.due # None /\ tick.due <= tick.now
    /\ ~cleaning

\* Due, and neither its own last run nor a clean-up started by hand is going.
MayRun ==
    /\ Enabled
    /\ tick.due # None /\ tick.due <= tick.now
    /\ ~running /\ ~cleaning

Missed == policy = "Skip" /\ tick.now - tick.due > 1

\* What the tick does about what it read, decided without an await.
Decide ==
    /\ tick.pc = "deciding"
    /\ \/ ~Enabled /\ tick.due # None /\ TickTo("moving", None)
       \/ ~Enabled /\ tick.due = None /\ TickTo("waiting", None)
       \/ Enabled /\ tick.due = None /\ TickTo("moving", NextAfter(tick.settings, tick.now))
       \/ Enabled /\ tick.due # None /\ ~MayRun /\ TickTo("waiting", None)
       \/ MayRun /\ Missed /\ TickTo("moving", NextAfter(tick.settings, tick.now))
       \/ MayRun /\ ~Missed /\ TickTo("claiming", NextAfter(tick.settings, tick.now))
    /\ UNCHANGED <<policy, clock, row, running, runs, cleaning, manual, saves, mishaps, history>>

\* Mutant of Unsaved: the writes do not ask for the settings they were made from.
UnsavedOrNot == TRUE

Unsaved == row.settings = tick.settings

\* set_next_run: only while the settings are those it was computed from.
Move ==
    /\ tick.pc = "moving"
    /\ row' = IF Unsaved THEN [row EXCEPT !.next = tick.next] ELSE row
    /\ TickTo("waiting", None)
    /\ UNCHANGED <<policy, clock, running, runs, cleaning, manual, saves, mishaps, history>>

\* The run is claimed by moving the row to the next slot, under the same
\* condition, and goes on in a task of its own.
Claim ==
    /\ tick.pc = "claiming" /\ Unsaved
    /\ row' = [row EXCEPT !.next = tick.next, !.started = tick.now]
    /\ running' = TRUE
    /\ runs' = runs \cup {[at |-> tick.now, pc |-> "spawned"]}
    /\ TickTo("waiting", None)
    /\ UNCHANGED <<policy, clock, cleaning, manual, saves, mishaps, crashed, beganAt>>

ClaimRefused ==
    /\ tick.pc = "claiming" /\ ~Unsaved
    /\ TickTo("waiting", None)
    /\ UNCHANGED <<policy, clock, row, running, runs, cleaning, manual, saves, mishaps, history>>

\* The database fails the tick; the loop logs it and waits for the next.
TickFails ==
    /\ tick.pc # "waiting"
    /\ Mishap("fault")
    /\ TickTo("waiting", None)
    /\ UNCHANGED <<policy, clock, row, running, runs, cleaning, manual, saves, history>>

---------------------------------------------------------------------------
(* A scheduled run *)

RunTo(r, pc) == runs' = (runs \ {r}) \cup {[r EXCEPT !.pc = pc]}

\* begin: the clean-up is taken, or refused while another one is running.
Begin(r) ==
    /\ r.pc = "spawned"
    /\ IF cleaning
       THEN RunTo(r, "over") /\ UNCHANGED <<cleaning, beganAt>>
       ELSE RunTo(r, "working") /\ cleaning' = TRUE /\ beganAt' = clock
    /\ UNCHANGED <<policy, clock, row, tick, running, manual, saves, mishaps, crashed>>

\* execute: the work ends, in whatever way.
Work(r) ==
    /\ r.pc = "working"
    /\ RunTo(r, "over")
    /\ cleaning' = FALSE
    /\ UNCHANGED <<policy, clock, row, tick, running, manual, saves, mishaps, history>>

\* record_finish: unless another run has been started since.
Finished(id) ==
    row' = IF row.started = id THEN [row EXCEPT !.finished = id] ELSE row

\* Mutant of EndRun: the task ends and leaves the job in the running set.
EndRunMarked(r) ==
    /\ r.pc = "over"
    /\ Finished(r.at)
    /\ runs' = runs \ {r}
    /\ UNCHANGED <<policy, clock, tick, running, cleaning, manual, saves, mishaps, history>>

\* The run's end is recorded, or that fails and is logged; the job's mark goes.
EndRun(r) ==
    /\ r.pc = "over"
    /\ \/ Finished(r.at) /\ UNCHANGED mishaps
       \/ Mishap("fault") /\ UNCHANGED row
    /\ runs' = runs \ {r}
    /\ running' = FALSE
    /\ UNCHANGED <<policy, clock, tick, cleaning, manual, saves, history>>

---------------------------------------------------------------------------
(* Clean-ups started by hand, and saves *)

\* The request takes the clean-up and leaves the work to a task.
Ask(m) ==
    /\ manual[m].pc = "no"
    /\ ~cleaning
    /\ m \in Recorded => Slots[row.settings] # {}
    /\ cleaning' = TRUE
    /\ beganAt' = clock
    /\ manual' = [manual EXCEPT ![m] =
                    [pc |-> IF m \in Recorded THEN "starting" ELSE "dropped",
                     works |-> TRUE]]
    /\ UNCHANGED <<policy, clock, row, tick, running, runs, saves, mishaps, crashed>>

\* record_start, by the handler; a failure is logged.
RecordStart(m) ==
    /\ manual[m].pc = "starting"
    /\ \/ row' = [row EXCEPT !.started = m] /\ UNCHANGED mishaps
       \/ Mishap("fault") /\ UNCHANGED row
    /\ manual' = [manual EXCEPT ![m].pc = "recorded"]
    /\ UNCHANGED <<policy, clock, tick, running, runs, cleaning, saves, history>>

\* The client goes away while the handler awaits record_start: the statement
\* may have run, and nobody is left to record the end.
HangUp(m) ==
    /\ manual[m].pc = "starting"
    /\ Mishap("hangup")
    /\ row' \in {row, [row EXCEPT !.started = m]}
    /\ manual' = [manual EXCEPT ![m].pc = "dropped"]
    /\ UNCHANGED <<policy, clock, tick, running, runs, cleaning, saves, history>>

WorkByHand(m) ==
    /\ manual[m].works
    /\ manual' = [manual EXCEPT ![m].works = FALSE]
    /\ cleaning' = FALSE
    /\ UNCHANGED <<policy, clock, row, tick, running, runs, saves, mishaps, history>>

RecordFinish(m) ==
    /\ manual[m].pc = "recorded" /\ ~manual[m].works
    /\ \/ Finished(m) /\ UNCHANGED mishaps
       \/ Mishap("fault") /\ UNCHANGED row
    /\ manual' = [manual EXCEPT ![m].pc = "dropped"]
    /\ UNCHANGED <<policy, clock, tick, running, runs, cleaning, saves, history>>

\* update_settings: the next tick computes the next run.
Save(s) ==
    /\ saves < MaxSaves
    /\ saves' = saves + 1
    /\ row' = [row EXCEPT !.settings = s, !.next = None]
    /\ UNCHANGED <<policy, clock, tick, running, runs, cleaning, manual, mishaps, history>>

\* The server is killed and started again: only the row is left.
Crash ==
    /\ Mishap("crash")
    /\ crashed' = TRUE
    /\ tick' = NoTick(row.settings)
    /\ running' = FALSE
    /\ runs' = {}
    /\ cleaning' = FALSE
    /\ manual' = [m \in Manuals |->
                    [pc |-> IF manual[m].pc = "no" THEN "no" ELSE "dropped",
                     works |-> FALSE]]
    /\ UNCHANGED <<policy, clock, row, saves, beganAt>>

---------------------------------------------------------------------------
TickStep == Read \/ Decide \/ Move \/ Claim \/ ClaimRefused
RunStep == \E r \in runs : Begin(r) \/ Work(r) \/ EndRun(r)
ManualStep(m) == RecordStart(m) \/ WorkByHand(m) \/ RecordFinish(m)

Next ==
    \/ Minute \/ TickStep \/ TickFails \/ RunStep \/ Crash
    \/ \E m \in Manuals : Ask(m) \/ ManualStep(m) \/ HangUp(m)
    \/ \E s \in Settings : Save(s)

Spec == Init /\ [][Next]_vars

\* The loop is woken every minute, and every task is polled until it ends.
FairSpec ==
    /\ Spec
    /\ WF_vars(TickStep) /\ WF_vars(RunStep)
    /\ \A m \in Manuals : WF_vars(ManualStep(m))

---------------------------------------------------------------------------
\* Every variable has its type, and only a claimed run is marked as running.
TypeOK ==
    /\ policy \in Policies
    /\ clock \in Minutes
    /\ row \in Rows
    /\ tick \in Ticks
    /\ running \in BOOLEAN /\ cleaning \in BOOLEAN /\ crashed \in BOOLEAN
    /\ runs \subseteq [at : Minutes, pc : {"spawned", "working", "over"}]
    /\ manual \in [Manuals -> [pc : ManualStates, works : BOOLEAN]]
    /\ saves \in 0 .. MaxSaves /\ mishaps \in 0 .. MaxMishaps
    /\ beganAt \in Minutes \cup {None}
    /\ running <=> runs # {}

Workers == {r \in runs : r.pc = "working"} \cup {m \in Manuals : manual[m].works}

\* engine.rs 6-7, storage.rs 344-345: a job never overlaps itself, and a
\* scheduled clean-up never overlaps one started by hand, although the tick
\* looks at both flags long before its run takes them.
NeverOverlaps == Cardinality(runs) <= 1 /\ Cardinality(Workers) <= 1

\* engine.rs 296-297: a save that races a tick is not overwritten by the old
\* schedule, neither by the tick's move nor by its claim.
SavedWins == row.next # None => row.next \in Slots[row.settings]

Quiet ==
    /\ runs = {} /\ ~cleaning
    /\ \A m \in Manuals : manual[m].pc \in {"no", "dropped"}

\* A slot that comes is run: a clean-up begins at or after it, unless the
\* settings are saved meanwhile, the server is restarted, or the job skips what
\* it missed (engine.rs 129-177).
DueRuns ==
    \A d \in Minutes, n \in 0 .. MaxSaves :
        (row.next = d /\ clock >= d /\ saves = n /\ policy = "RunOnce")
            ~> ((beganAt # None /\ beganAt >= d) \/ saves > n \/ crashed)
=============================================================================
