------------------------- MODULE JobSchedulerProofs -------------------------
(***************************************************************************)
(* Proofs about JobScheduler, for any settings, schedules, clean-ups asked *)
(* for by hand and mishaps: a save wins against the tick it races, and the *)
(* job overlaps neither itself nor a clean-up started by hand.             *)
(***************************************************************************)
EXTENDS JobScheduler, FiniteSetTheorems, WellFoundedInduction, TLAPS

\* A set of minutes has a first one: of its beginnings, finite sets, one has none
\* of the others inside it.
LEMMA MinIsIn ==
  ASSUME NEW S \in SUBSET Nat, S # {}
  PROVE  Min(S) \in S
<1> DEFINE Upto(t) == {u \in S : u <= t}
           R == StrictSubsetOrdering(Nat)
           T == {Upto(t) : t \in S}
<1>1. \A t \in S : Upto(t) \in FiniteSubsetsOf(Nat)
  BY FS_BoundedSetOfNaturals DEF FiniteSubsetsOf
<1>2. PICK B \in T : \A C \in T : ~(<<C, B>> \in R)
  <2>1. T \subseteq FiniteSubsetsOf(Nat) /\ T # {}
    BY <1>1
  <2> HIDE DEF R, T
  <2> QED
    BY <2>1, FS_StrictSubsetOrderingWellFounded, WFMin DEF R
<1>3. PICK t \in S : B = Upto(t)
  BY <1>2
<1>4. ASSUME NEW u \in S, u < t
      PROVE  FALSE
  <2>0. t \in Nat /\ u \in Nat /\ S \subseteq Nat
    OBVIOUS
  <2>1. t \in Upto(t) /\ t \notin Upto(u)
    BY <1>4, <2>0
  <2>2. \A v \in S : v <= u => v <= t
    BY <1>4, <2>0
  <2>3. Upto(u) \subseteq Upto(t)
    BY <2>2
  <2>4. <<Upto(u), Upto(t)>> \in R
    BY <2>0, <2>1, <2>3 DEF StrictSubsetOrdering
  <2> QED
    BY <1>2, <1>3, <2>4
<1>5. \A u \in S : t <= u
  BY <1>4
<1> QED
  BY <1>5 DEF Min

\* Schedule::next_after is a slot of the schedule, whenever there is one.
LEMMA NextAfterIsASlot ==
  ASSUME NEW s \in Settings, Slots[s] # {}, NEW t \in Minutes
  PROVE  NextAfter(s, t) \in Slots[s] /\ NextAfter(s, t) \in Instants
<1>1. {u \in Slots[s] : u > t} \in SUBSET Nat
  BY ScheduleAssumption
<1>2. {u \in Slots[s] : u > t} # {}
  BY ScheduleAssumption DEF Minutes
<1> QED
  BY <1>1, <1>2, MinIsIn DEF NextAfter, Instants

-----------------------------------------------------------------------------
(* Type correctness *)

\* One claimed run at a time, and a tick about to claim another finds none.
OneRun ==
  /\ \A r, q \in runs : r = q
  /\ tick.pc = "claiming" => ~running

\* The clean-up's status says whether somebody works, and one does.
OneWorker ==
  /\ cleaning <=> \/ \E r \in runs : r.pc = "working"
                  \/ \E m \in Manuals : manual[m].works
  /\ \A m, k \in Manuals : manual[m].works /\ manual[k].works => m = k
  /\ \A r \in runs, m \in Manuals : ~(r.pc = "working" /\ manual[m].works)

\* What the tick will write is a slot of the settings it read.
TickOfItsSettings ==
  tick.next # None => tick.next \in Slots[tick.settings]

JobInv == TypeOK /\ OneRun /\ OneWorker /\ TickOfItsSettings /\ SavedWins

LEMMA TickToType ==
  ASSUME TypeOK, NEW pc \in {"waiting", "moving", "claiming"}, NEW next \in Instants,
         TickTo(pc, next)
  PROVE  /\ tick' \in Ticks /\ tick'.pc = pc /\ tick'.next = next
         /\ tick'.settings = tick.settings /\ tick'.now = tick.now
  BY DEF TickTo, Ticks, TypeOK

LEMMA NoneIsAnInstant == None \in Instants
  BY DEF Instants

\* The tick moves on to nothing, or to the schedule's next slot.
LEMMA DecideTick ==
  ASSUME TypeOK, Decide
  PROVE  /\ tick' \in Ticks
         /\ tick'.next # None => tick'.next \in Slots[tick'.settings]
         /\ tick'.pc = "claiming" => ~running
<1> DEFINE next == NextAfter(tick.settings, tick.now)
<1>1. Enabled => next \in Slots[tick.settings] /\ next \in Instants
  BY NextAfterIsASlot DEF Enabled, TypeOK, Ticks
<1>2. CASE TickTo("waiting", None) \/ TickTo("moving", None)
  BY <1>2, TickToType, NoneIsAnInstant
<1>3. CASE Enabled /\ TickTo("moving", next)
  BY <1>1, <1>3, TickToType
<1>4. CASE MayRun /\ TickTo("claiming", next)
  BY <1>1, <1>4, TickToType DEF MayRun
<1> QED
  BY <1>2, <1>3, <1>4 DEF Decide, MayRun

LEMMA RunToType ==
  ASSUME TypeOK, NEW r \in runs, NEW pc \in {"working", "over"}, RunTo(r, pc)
  PROVE  /\ runs' \subseteq [at : Minutes, pc : {"spawned", "working", "over"}]
         /\ runs' # {}
         /\ runs' = (runs \ {r}) \cup {[r EXCEPT !.pc = pc]}
         /\ [r EXCEPT !.pc = pc].pc = pc
  BY DEF RunTo, TypeOK

LEMMA FinishedType ==
  ASSUME TypeOK, NEW id \in RunIds, Finished(id)
  PROVE  row' \in Rows /\ row'.settings = row.settings /\ row'.next = row.next
  BY DEF Finished, TypeOK, Rows

LEMMA MishapType == ASSUME TypeOK, NEW kind, Mishap(kind) PROVE mishaps' \in 0 .. MaxMishaps
  BY ScheduleAssumption DEF Mishap, TypeOK

LEMMA TypeInit == Init => TypeOK
<1> SUFFICES ASSUME Init PROVE TypeOK
  OBVIOUS
<1>1. 0 \in Minutes /\ 0 \in 0 .. MaxSaves /\ 0 \in 0 .. MaxMishaps
  BY ScheduleAssumption DEF Minutes
<1>2. row \in Rows /\ tick \in Ticks
  BY <1>1, NoneIsAnInstant DEF Init, Rows, Ticks, NoTick
<1>3. manual \in [Manuals -> [pc : ManualStates, works : BOOLEAN]]
  BY DEF Init, ManualStates
<1> QED
  BY <1>1, <1>2, <1>3 DEF Init, TypeOK

LEMMA TypeStep == JobInv /\ [Next]_vars => TypeOK'
<1> SUFFICES ASSUME JobInv, [Next]_vars PROVE TypeOK'
  OBVIOUS
<1>0. TypeOK
  BY DEF JobInv
<1>1. CASE Minute
  BY <1>0, <1>1, ScheduleAssumption DEF Minute, history, TypeOK, Minutes
<1>2. CASE Read
  <2>1. tick' \in Ticks
    BY <1>0, <1>2, NoneIsAnInstant DEF Read, TypeOK, Ticks, Rows
  <2> QED
    BY <1>0, <1>2, <2>1 DEF Read, history, TypeOK
<1>3. CASE Decide
  BY <1>0, <1>3, DecideTick DEF Decide, history, TypeOK
<1>4. CASE Move
  <2>1. tick' \in Ticks
    BY <1>0, <1>4, TickToType, NoneIsAnInstant DEF Move
  <2>2. row' \in Rows
    BY <1>0, <1>4 DEF Move, TypeOK, Rows, Ticks
  <2> QED
    BY <1>0, <1>4, <2>1, <2>2 DEF Move, history, TypeOK
<1>5. CASE Claim
  <2>1. tick' \in Ticks
    BY <1>0, <1>5, TickToType, NoneIsAnInstant DEF Claim
  <2>2. row' \in Rows
    BY <1>0, <1>5 DEF Claim, TypeOK, Rows, Ticks, RunIds
  <2>3. [at |-> tick.now, pc |-> "spawned"] \in [at : Minutes, pc : {"spawned", "working", "over"}]
    BY <1>0 DEF TypeOK, Ticks
  <2> QED
    BY <1>0, <1>5, <2>1, <2>2, <2>3 DEF Claim, TypeOK
<1>6. CASE ClaimRefused
  BY <1>0, <1>6, TickToType, NoneIsAnInstant DEF ClaimRefused, history, TypeOK
<1>7. CASE TickFails
  BY <1>0, <1>7, TickToType, NoneIsAnInstant, MishapType DEF TickFails, history, TypeOK
<1>8. ASSUME NEW r \in runs, Begin(r)
      PROVE  TypeOK'
  <2>1. CASE cleaning
    BY <1>0, <1>8, <2>1, RunToType DEF Begin, TypeOK
  <2>2. CASE ~cleaning
    BY <1>0, <1>8, <2>2, RunToType DEF Begin, TypeOK
  <2> QED
    BY <2>1, <2>2
<1>9. ASSUME NEW r \in runs, Work(r)
      PROVE  TypeOK'
  BY <1>0, <1>9, RunToType DEF Work, history, TypeOK
<1>10. ASSUME NEW r \in runs, EndRun(r)
       PROVE  TypeOK'
  <2>1. row' \in Rows /\ mishaps' \in 0 .. MaxMishaps
    BY <1>0, <1>10, FinishedType, MishapType DEF EndRun, TypeOK, RunIds
  <2>2. runs' = {}
    BY <1>10 DEF EndRun, JobInv, OneRun
  <2> QED
    BY <1>0, <1>10, <2>1, <2>2 DEF EndRun, history, TypeOK
<1>11. ASSUME NEW m \in Manuals, Ask(m)
       PROVE  TypeOK'
  BY <1>0, <1>11 DEF Ask, TypeOK, ManualStates
<1>12. ASSUME NEW m \in Manuals, RecordStart(m)
       PROVE  TypeOK'
  <2>1. row' \in Rows /\ mishaps' \in 0 .. MaxMishaps
    BY <1>0, <1>12, MishapType DEF RecordStart, TypeOK, Rows, RunIds
  <2> QED
    BY <1>0, <1>12, <2>1 DEF RecordStart, history, TypeOK, ManualStates
<1>13. ASSUME NEW m \in Manuals, HangUp(m)
       PROVE  TypeOK'
  <2>1. row' \in Rows /\ mishaps' \in 0 .. MaxMishaps
    BY <1>0, <1>13, MishapType DEF HangUp, TypeOK, Rows, RunIds
  <2> QED
    BY <1>0, <1>13, <2>1 DEF HangUp, history, TypeOK, ManualStates
<1>14. ASSUME NEW m \in Manuals, WorkByHand(m)
       PROVE  TypeOK'
  BY <1>0, <1>14 DEF WorkByHand, history, TypeOK, ManualStates
<1>15. ASSUME NEW m \in Manuals, RecordFinish(m)
       PROVE  TypeOK'
  <2>1. row' \in Rows /\ mishaps' \in 0 .. MaxMishaps
    BY <1>0, <1>15, FinishedType, MishapType DEF RecordFinish, TypeOK, RunIds
  <2> QED
    BY <1>0, <1>15, <2>1 DEF RecordFinish, history, TypeOK, ManualStates
<1>16. ASSUME NEW s \in Settings, Save(s)
       PROVE  TypeOK'
  <2>1. row' \in Rows
    BY <1>0, <1>16, NoneIsAnInstant DEF Save, TypeOK, Rows
  <2> QED
    BY <1>0, <1>16, <2>1, ScheduleAssumption DEF Save, history, TypeOK
<1>17. CASE Crash
  <2>1. tick' \in Ticks /\ mishaps' \in 0 .. MaxMishaps
    BY <1>0, <1>17, NoneIsAnInstant, MishapType, ScheduleAssumption
    DEF Crash, NoTick, TypeOK, Ticks, Rows, Minutes
  <2> QED
    BY <1>0, <1>17, <2>1 DEF Crash, TypeOK, ManualStates
<1>18. CASE UNCHANGED vars
  BY <1>0, <1>18 DEF vars, TypeOK
<1> QED
  BY <1>1, <1>2, <1>3, <1>4, <1>5, <1>6, <1>7, <1>8, <1>9, <1>10, <1>11, <1>12,
     <1>13, <1>14, <1>15, <1>16, <1>17, <1>18
  DEF Next, TickStep, RunStep, ManualStep
-----------------------------------------------------------------------------
(* A save wins *)

\* What a tick read, decided from and writes belongs to one version of the
\* settings; a write under other settings is refused.
LEMMA SlotsStep == JobInv /\ [Next]_vars => TickOfItsSettings' /\ SavedWins'
<1> SUFFICES ASSUME JobInv, [Next]_vars PROVE TickOfItsSettings' /\ SavedWins'
  OBVIOUS
<1>0. TypeOK
  BY DEF JobInv
<1> USE DEF JobInv, TickOfItsSettings, SavedWins
<1>1. ASSUME UNCHANGED tick \/ tick'.next = None \/ (Decide /\ UNCHANGED row)
      PROVE  TickOfItsSettings'
  BY <1>0, <1>1, DecideTick
<1>2. ASSUME row'.next = None \/ (row'.next = row.next /\ row'.settings = row.settings)
      PROVE  SavedWins'
  BY <1>2
<1>3. CASE Read
  BY <1>1, <1>2, <1>3 DEF Read
<1>4. CASE Decide
  BY <1>1, <1>2, <1>4 DEF Decide
<1>5. CASE Move \/ Claim
  <2>1. tick'.next = None
    BY <1>0, <1>5, TickToType, NoneIsAnInstant DEF Move, Claim
  <2>2. row'.settings = row.settings
        /\ (row'.next = row.next \/ (Unsaved /\ row'.next = tick.next))
    BY <1>0, <1>5 DEF Move, Claim, TypeOK, Rows
  <2>3. SavedWins'
    BY <2>2 DEF Unsaved
  <2> QED
    BY <1>1, <2>1, <2>3
<1>6. CASE ClaimRefused \/ TickFails
  <2>1. tick'.next = None /\ row' = row
    BY <1>0, <1>6, TickToType, NoneIsAnInstant DEF ClaimRefused, TickFails
  <2> QED
    BY <1>1, <1>2, <2>1
<1>7. ASSUME NEW s \in Settings, Save(s)
      PROVE  TickOfItsSettings' /\ SavedWins'
  BY <1>0, <1>1, <1>2, <1>7 DEF Save, history, TypeOK, Rows
<1>8. CASE Crash
  BY <1>1, <1>2, <1>8 DEF Crash, NoTick
<1>9. ASSUME UNCHANGED tick, row'.next = row.next /\ row'.settings = row.settings
      PROVE  TickOfItsSettings' /\ SavedWins'
  BY <1>1, <1>2, <1>9
<1>10. ASSUME NEW r \in runs, Begin(r) \/ Work(r) \/ EndRun(r)
       PROVE  UNCHANGED tick /\ row'.next = row.next /\ row'.settings = row.settings
  BY <1>0, <1>10 DEF Begin, Work, EndRun, Finished, TypeOK, Rows
<1>11. ASSUME NEW m \in Manuals, Ask(m) \/ ManualStep(m) \/ HangUp(m)
       PROVE  UNCHANGED tick /\ row'.next = row.next /\ row'.settings = row.settings
  BY <1>0, <1>11
  DEF Ask, ManualStep, RecordStart, WorkByHand, RecordFinish, HangUp, Finished, TypeOK, Rows
<1>12. Minute \/ UNCHANGED vars => UNCHANGED <<tick, row>>
  BY DEF Minute, vars
<1> QED
  BY <1>3, <1>4, <1>5, <1>6, <1>7, <1>8, <1>9, <1>10, <1>11, <1>12
  DEF Next, TickStep, RunStep

-----------------------------------------------------------------------------
(* Nothing overlaps *)

\* Only the loop claims, and it looks at the mark it sets.
LEMMA OneRunStep == JobInv /\ [Next]_vars => OneRun'
<1> SUFFICES ASSUME JobInv, [Next]_vars PROVE OneRun'
  OBVIOUS
<1>0. TypeOK /\ OneRun
  BY DEF JobInv
<1>1. ASSUME UNCHANGED <<runs, running>>, tick'.pc = "claiming" => ~running
      PROVE  OneRun'
  BY <1>0, <1>1 DEF OneRun
<1>2. CASE Read
  BY <1>1, <1>2 DEF Read
<1>3. CASE Decide
  BY <1>0, <1>1, <1>3, DecideTick DEF Decide
<1>4. CASE Move \/ ClaimRefused \/ TickFails
  <2>1. tick'.pc = "waiting" /\ UNCHANGED <<runs, running>>
    BY <1>0, <1>4, TickToType, NoneIsAnInstant DEF Move, ClaimRefused, TickFails
  <2> QED
    BY <1>1, <2>1
<1>5. CASE Claim
  <2>1. tick'.pc = "waiting"
    BY <1>0, <1>5, TickToType, NoneIsAnInstant DEF Claim
  <2>2. runs = {}
    BY <1>0, <1>5 DEF Claim, OneRun, TypeOK
  <2> QED
    BY <1>5, <2>1, <2>2 DEF Claim, OneRun
<1>6. ASSUME NEW r \in runs, Begin(r) \/ Work(r)
      PROVE  OneRun'
  <2>1. runs = {r} /\ UNCHANGED <<running, tick>>
    BY <1>0, <1>6 DEF OneRun, Begin, Work
  <2>2. PICK pc \in {"working", "over"} : RunTo(r, pc)
    BY <1>6 DEF Begin, Work
  <2> QED
    BY <1>0, <2>1, <2>2 DEF RunTo, OneRun
<1>7. ASSUME NEW r \in runs, EndRun(r)
      PROVE  OneRun'
  BY <1>0, <1>7 DEF EndRun, OneRun
<1>8. ASSUME NEW m \in Manuals, Ask(m) \/ ManualStep(m) \/ HangUp(m)
      PROVE  UNCHANGED <<runs, running, tick>>
  BY <1>8 DEF Ask, ManualStep, RecordStart, WorkByHand, RecordFinish, HangUp
<1>9. CASE Crash
  BY <1>9 DEF Crash, NoTick, OneRun
<1>10. Minute \/ (\E s \in Settings : Save(s)) \/ UNCHANGED vars
         => UNCHANGED <<runs, running, tick>>
  BY DEF Minute, Save, vars
<1> QED
  BY <1>0, <1>1, <1>2, <1>3, <1>4, <1>5, <1>6, <1>7, <1>8, <1>9, <1>10
  DEF Next, TickStep, RunStep, OneRun

\* Whoever works took the clean-up's status, and gives it back.
LEMMA OneWorkerStep == JobInv /\ [Next]_vars => OneWorker'
<1> SUFFICES ASSUME JobInv, [Next]_vars PROVE OneWorker'
  OBVIOUS
<1>0. TypeOK /\ OneRun /\ OneWorker
  BY DEF JobInv
<1>1. ASSUME UNCHANGED <<runs, cleaning, manual>>
      PROVE  OneWorker'
  BY <1>0, <1>1 DEF OneWorker
<1>2. CASE Claim
  <2>1. runs = {} /\ runs' = {[at |-> tick.now, pc |-> "spawned"]}
    BY <1>0, <1>2 DEF Claim, OneRun, TypeOK
  <2>2. UNCHANGED <<cleaning, manual>> /\ \A r \in runs' : r.pc # "working"
    BY <1>2, <2>1 DEF Claim
  <2> QED
    BY <1>0, <2>1, <2>2 DEF OneWorker
<1>3. ASSUME NEW r \in runs, Begin(r)
      PROVE  OneWorker'
  <2>1. runs = {r} /\ r.pc = "spawned" /\ manual' = manual
    BY <1>0, <1>3 DEF OneRun, Begin
  <2>2. CASE cleaning
    <3>1. runs' = {[r EXCEPT !.pc = "over"]} /\ [r EXCEPT !.pc = "over"].pc = "over"
          /\ cleaning' = cleaning
      BY <1>0, <1>3, <2>1, <2>2 DEF Begin, RunTo, TypeOK
    <3> QED
      BY <1>0, <2>1, <3>1 DEF OneWorker
  <2>3. CASE ~cleaning
    <3>1. runs' = {[r EXCEPT !.pc = "working"]} /\ [r EXCEPT !.pc = "working"].pc = "working"
          /\ cleaning' = TRUE
      BY <1>0, <1>3, <2>1, <2>3 DEF Begin, RunTo, TypeOK
    <3> QED
      BY <1>0, <2>1, <2>3, <3>1 DEF OneWorker
  <2> QED
    BY <2>2, <2>3
<1>4. ASSUME NEW r \in runs, Work(r)
      PROVE  OneWorker'
  <2>1. runs = {r} /\ r.pc = "working" /\ manual' = manual /\ cleaning' = FALSE
    BY <1>0, <1>4 DEF OneRun, Work, history
  <2>2. runs' = {[r EXCEPT !.pc = "over"]} /\ [r EXCEPT !.pc = "over"].pc = "over"
    BY <1>0, <1>4, <2>1 DEF Work, RunTo, TypeOK
  <2> QED
    BY <1>0, <2>1, <2>2 DEF OneWorker
<1>5. ASSUME NEW r \in runs, EndRun(r)
      PROVE  OneWorker'
  <2>1. runs = {r} /\ runs' = {} /\ r.pc = "over" /\ UNCHANGED <<manual, cleaning>>
    BY <1>0, <1>5 DEF OneRun, EndRun
  <2> QED
    BY <1>0, <2>1 DEF OneWorker
<1>6. ASSUME NEW m \in Manuals, Ask(m)
      PROVE  OneWorker'
  <2>1. ~cleaning /\ cleaning' = TRUE /\ runs' = runs
    BY <1>6 DEF Ask
  <2>2. manual'[m].works /\ \A k \in Manuals : k # m => manual'[k] = manual[k]
    BY <1>0, <1>6 DEF Ask, TypeOK
  <2> QED
    BY <1>0, <2>1, <2>2 DEF OneWorker
<1>7. ASSUME NEW m \in Manuals, RecordStart(m) \/ HangUp(m) \/ RecordFinish(m)
      PROVE  OneWorker'
  <2>1. \A k \in Manuals : manual'[k].works = manual[k].works
    BY <1>0, <1>7 DEF RecordStart, HangUp, RecordFinish, TypeOK
  <2>2. UNCHANGED <<runs, cleaning>>
    BY <1>7 DEF RecordStart, HangUp, RecordFinish
  <2> QED
    BY <1>0, <2>1, <2>2 DEF OneWorker
<1>8. ASSUME NEW m \in Manuals, WorkByHand(m)
      PROVE  OneWorker'
  <2>1. manual[m].works /\ cleaning' = FALSE /\ runs' = runs
    BY <1>8 DEF WorkByHand
  <2>2. manual'[m].works = FALSE /\ \A k \in Manuals : k # m => manual'[k] = manual[k]
    BY <1>0, <1>8 DEF WorkByHand, TypeOK
  <2> QED
    BY <1>0, <2>1, <2>2 DEF OneWorker
<1>9. CASE Crash
  <2>1. runs' = {} /\ cleaning' = FALSE /\ \A m \in Manuals : manual'[m].works = FALSE
    BY <1>9 DEF Crash
  <2> QED
    BY <2>1 DEF OneWorker
<1>10. Minute \/ Read \/ Decide \/ Move \/ ClaimRefused \/ TickFails
       \/ (\E s \in Settings : Save(s)) \/ UNCHANGED vars
         => UNCHANGED <<runs, cleaning, manual>>
  BY DEF Minute, Read, Decide, Move, ClaimRefused, TickFails, Save, vars
<1> QED
  BY <1>1, <1>2, <1>3, <1>4, <1>5, <1>6, <1>7, <1>8, <1>9, <1>10
  DEF Next, TickStep, RunStep, ManualStep

-----------------------------------------------------------------------------
(* The theorems *)

LEMMA JobInvInit == Init => JobInv
<1> SUFFICES ASSUME Init PROVE OneRun /\ OneWorker /\ TickOfItsSettings /\ SavedWins
  BY TypeInit DEF JobInv
<1>1. OneRun /\ OneWorker
  BY DEF Init, OneRun, OneWorker, NoTick
<1>2. TickOfItsSettings /\ SavedWins
  BY DEF Init, TickOfItsSettings, SavedWins, NoTick
<1> QED
  BY <1>1, <1>2

LEMMA JobInvStep == JobInv /\ [Next]_vars => JobInv'
  BY TypeStep, SlotsStep, OneRunStep, OneWorkerStep DEF JobInv

LEMMA AtMostOne ==
  ASSUME NEW S, \A x, y \in S : x = y
  PROVE  Cardinality(S) <= 1
<1>1. CASE S = {}
  BY <1>1, FS_EmptySet
<1>2. CASE S # {}
  <2>1. PICK x \in S : S = {x}
    BY <1>2
  <2> QED
    BY <2>1, FS_Singleton
<1> QED
  BY <1>1, <1>2

\* Every variable has its type, and only a claimed run is marked as running.
THEOREM JobTypeCorrect == Spec => []TypeOK
<1>1. JobInv => TypeOK
  BY DEF JobInv
<1> QED
  BY <1>1, JobInvInit, JobInvStep, PTL DEF Spec

\* A save that races a tick is not overwritten by the old schedule, neither by
\* the tick's move nor by its claim, even when it is saved back meanwhile.
THEOREM SavedSettingsWin == Spec => []SavedWins
<1>1. JobInv => SavedWins
  BY DEF JobInv
<1> QED
  BY <1>1, JobInvInit, JobInvStep, PTL DEF Spec

\* The job never overlaps itself, and its clean-up never one started by hand,
\* however long the tick waits between looking at both flags and its claim.
THEOREM RunsNeverOverlap == Spec => []NeverOverlaps
<1>1. JobInv => NeverOverlaps
  <2> SUFFICES ASSUME JobInv PROVE NeverOverlaps
    OBVIOUS
  <2>1. Cardinality(runs) <= 1
    BY AtMostOne DEF JobInv, OneRun
  <2>2. \A x, y \in Workers : x = y
    BY DEF JobInv, OneRun, OneWorker, Workers
  <2> QED
    BY <2>1, <2>2, AtMostOne DEF NeverOverlaps
<1> QED
  BY <1>1, JobInvInit, JobInvStep, PTL DEF Spec
==============================================================================
