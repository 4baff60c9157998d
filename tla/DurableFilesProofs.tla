------------------------- MODULE DurableFilesProofs -------------------------
(***************************************************************************)
(* Proofs about what the server keeps on disk, one store after the other,  *)
(* as MCDurableFiles runs them: a published record survives every loss of  *)
(* power, an answered request's every kill, the first hard link decides    *)
(* whose record an event keeps and no event is ever left without; a        *)
(* collection takes no name away from its file, and no file is left that   *)
(* nothing accounts for.                                                   *)
(***************************************************************************)
EXTENDS PendingStore, SourceFiles, SequenceTheorems, TLAPS

-----------------------------------------------------------------------------
(* The record of one event, for any number of writers, faults and crashes *)

LEMMA TypeStep == TypeOK /\ [Next]_vars => TypeOK'
<1> SUFFICES ASSUME TypeOK, [Next]_vars PROVE TypeOK'
  OBVIOUS
<1> USE StoreAssumption DEF TypeOK, Steps, Goto
<1>u. ASSUME NEW new \in Directory, Update(new)
      PROVE  recoverable' \subseteq Directory /\ dir' \in recoverable' /\ dir' \in Directory
  BY <1>u DEF Update
<1>t. \A w : WithoutTemp(w) \in Directory
  BY DEF WithoutTemp, Directory
<1>n. \A w \in Writers : [WithoutTemp(w) EXCEPT !.name = w] \in Directory
  BY DEF WithoutTemp, Directory
<1>1. ASSUME NEW w \in Writers, CreateTemp(w)
      PROVE  TypeOK'
  <2>1. [dir EXCEPT !.temps = @ \cup {w}] \in Directory
    BY DEF Directory
  <2> QED
    BY <1>1, <1>u, <2>1 DEF CreateTemp
<1>2. ASSUME NEW w \in Writers, WriteTemp(w) \/ Inspect(w) \/ Answer(w)
      PROVE  TypeOK'
  BY <1>2 DEF WriteTemp, Inspect, Answer
<1>3. ASSUME NEW w \in Writers, Link(w)
      PROVE  TypeOK'
  <2>1. [dir EXCEPT !.name = w] \in Directory
    BY DEF Directory
  <2> QED
    BY <1>3, <1>u, <2>1 DEF Link
<1>4. ASSUME NEW w \in Writers, UnlinkTemp(w) \/ Discard(w) \/ GiveUp(w)
      PROVE  TypeOK'
  BY <1>4, <1>u, <1>t DEF UnlinkTemp, Discard, GiveUp
<1>5. ASSUME NEW w \in Writers, Quarantine(w)
      PROVE  TypeOK'
  <2>1. dir.name # Missing =>
          [dir EXCEPT !.quarantined = @ \cup {dir.name}] \in Directory
    BY DEF Directory
  <2> QED
    BY <1>5, <1>u, <2>1 DEF Quarantine
<1>6. ASSUME NEW w \in Writers, Rename(w)
      PROVE  TypeOK'
  BY <1>6, <1>u, <1>n DEF Rename
<1>7. ASSUME NEW w \in Writers, SyncDirectory(w)
      PROVE  TypeOK'
  BY <1>7 DEF SyncDirectory
<1>8. ASSUME NEW w \in Writers, CallFails(w)
      PROVE  TypeOK'
  BY <1>8 DEF CallFails
<1>9. ASSUME NEW w \in Writers, SweepTemp(w)
      PROVE  TypeOK'
  BY <1>9, <1>u, <1>t DEF SweepTemp
<1>10. CASE Digest
  <2>1. [dir EXCEPT !.name = Missing] \in Directory
    BY DEF Directory
  <2> QED
    BY <1>10, <1>u, <2>1 DEF Digest
<1>11. CASE Kill
  BY <1>11 DEF Kill
<1>12. CASE PowerLoss
  BY <1>12 DEF PowerLoss
<1>13. CASE UNCHANGED vars
  BY <1>13 DEF vars
<1> QED
  BY <1>1, <1>2, <1>3, <1>4, <1>5, <1>6, <1>7, <1>8, <1>9, <1>10, <1>11,
     <1>12, <1>13 DEF Next, WriterStep

LEMMA TypeInit == Init => TypeOK
<1> SUFFICES ASSUME Init PROVE TypeOK
  OBVIOUS
<1>1. dir \in Directory
  <2>1. PICK found \in Found : dir = [name |-> found, temps |-> {}, quarantined |-> {}]
    BY DEF Init
  <2> QED
    BY <2>1, StoreAssumption DEF Directory
<1>2. pc \in [Writers -> Steps] /\ recoverable = {dir}
  BY DEF Init, Steps
<1>3. settled \in BOOLEAN /\ synced \subseteq Writers /\ acked \subseteq Writers
  BY DEF Init
<1>4. faults \in 0..MaxFaults /\ crashes \in 0..MaxCrashes
  <2>1. MaxFaults \in Nat /\ MaxCrashes \in Nat
    BY StoreAssumption
  <2>2. faults = 0 /\ crashes = 0
    BY DEF Init
  <2> QED
    BY <2>1, <2>2
<1> QED
  BY <1>1, <1>2, <1>3, <1>4 DEF TypeOK

\* What a step does to the name: nothing, or one of the three operations.
LEMMA NameMoves ==
  ASSUME TypeOK, [Next]_vars, ~PowerLoss
  PROVE  /\ \/ dir'.name = dir.name
            \/ Digest
            \/ \E w \in Writers : dir'.name = w /\ ((Link(w) /\ dir.name = Missing) \/ Rename(w))
         /\ \/ UNCHANGED recoverable
            \/ recoverable' = recoverable \cup {dir'}
            \/ \E w \in Writers : SyncDirectory(w)
         /\ settled => settled'
<1> USE DEF TypeOK, Directory, Update, WithoutTemp
<1>1. ASSUME NEW w \in Writers, CreateTemp(w) \/ WriteTemp(w) \/ Inspect(w) \/ Answer(w)
      PROVE  dir'.name = dir.name /\ settled' = settled
             /\ (UNCHANGED recoverable \/ recoverable' = recoverable \cup {dir'})
  BY <1>1 DEF CreateTemp, WriteTemp, Inspect, Answer
<1>2. ASSUME NEW w \in Writers, UnlinkTemp(w) \/ Discard(w) \/ GiveUp(w) \/ SweepTemp(w)
      PROVE  dir'.name = dir.name /\ settled' = settled
             /\ recoverable' = recoverable \cup {dir'}
  BY <1>2 DEF UnlinkTemp, Discard, GiveUp, SweepTemp
<1>3. ASSUME NEW w \in Writers, Quarantine(w) \/ CallFails(w)
      PROVE  dir'.name = dir.name /\ settled' = settled
             /\ (UNCHANGED recoverable \/ recoverable' = recoverable \cup {dir'})
  BY <1>3 DEF Quarantine, CallFails
<1>4. ASSUME NEW w \in Writers, Link(w) \/ Rename(w)
      PROVE  /\ settled' = settled
             /\ UNCHANGED recoverable \/ recoverable' = recoverable \cup {dir'}
             /\ dir'.name = dir.name \/ (dir'.name = w /\ ((Link(w) /\ dir.name = Missing) \/ Rename(w)))
  BY <1>4 DEF Link, Rename
<1>5. ASSUME NEW w \in Writers, SyncDirectory(w)
      PROVE  dir' = dir /\ settled' = settled
  BY <1>5 DEF SyncDirectory
<1>6. CASE Digest
  BY <1>6 DEF Digest
<1>7. CASE Kill \/ UNCHANGED vars
  BY <1>7 DEF Kill, vars
<1> QED
  BY <1>1, <1>2, <1>3, <1>4, <1>5, <1>6, <1>7 DEF Next, WriterStep

-----------------------------------------------------------------------------
(* Published records *)

\* A writer that has published, or found a complete record, is right about it
\* until a digest has settled the event.
Publishing == {"unlink", "sync", "discard", "answer"}

PublishInv ==
  \A w \in Writers : pc[w] \in Publishing /\ ~settled => Complete

LEMMA CompleteStays ==
  ASSUME TypeOK, Complete, [Next]_vars, ~PowerLoss, ~settled'
  PROVE  Complete'
BY NameMoves DEF Complete, Digest

LEMMA PublishStep == TypeOK /\ PublishInv /\ [Next]_vars => PublishInv'
<1> SUFFICES ASSUME TypeOK, PublishInv, [Next]_vars,
                    NEW w \in Writers, pc'[w] \in Publishing, ~settled'
             PROVE  Complete'
  BY DEF PublishInv
<1>p. pc \in [Writers -> Steps]
  BY DEF TypeOK
<1>1. CASE PowerLoss
  BY <1>1, <1>p DEF PowerLoss, Publishing
<1>2. CASE ~PowerLoss /\ pc[w] \in Publishing
  BY <1>2, CompleteStays, NameMoves DEF PublishInv
<1>3. CASE ~PowerLoss /\ pc[w] \notin Publishing
  <2>1. (Link(w) /\ dir'.name = w) \/ (Inspect(w) /\ Complete) \/ (Rename(w) /\ dir'.name = w)
    <3>1. ASSUME NEW v \in Writers, Link(v)
          PROVE  Link(w) /\ dir'.name = w
      <4>1. v = w /\ pc'[w] = "unlink"
        BY <1>p, <1>3, <3>1 DEF Link, Goto, Publishing
      <4> QED
        BY <1>p, <3>1, <4>1 DEF Link, Goto, Update, TypeOK, Directory
    <3>5. ASSUME NEW v \in Writers, Rename(v)
          PROVE  Rename(w) /\ dir'.name = w
      <4>1. v = w /\ pc'[w] = "sync"
        BY <1>p, <1>3, <3>5 DEF Rename, Goto, Publishing
      <4> QED
        BY <1>p, <3>5, <4>1 DEF Rename, Goto, Update, WithoutTemp, TypeOK, Directory
    <3>2. CASE \E v \in Writers : Inspect(v)
      BY <1>p, <1>3, <3>2 DEF Inspect, Goto, Publishing
    <3>3. CASE \E v \in Writers : \/ CreateTemp(v) \/ WriteTemp(v) \/ UnlinkTemp(v)
                                  \/ Discard(v) \/ Quarantine(v) \/ SyncDirectory(v)
                                  \/ Answer(v) \/ CallFails(v) \/ GiveUp(v) \/ SweepTemp(v)
      BY <1>p, <1>3, <3>3
      DEF CreateTemp, WriteTemp, UnlinkTemp, Discard, Quarantine, SyncDirectory,
          Answer, CallFails, GiveUp, SweepTemp, Goto, Publishing
    <3>4. CASE Digest \/ Kill \/ UNCHANGED vars
      BY <1>p, <1>3, <3>4 DEF Digest, Kill, vars, Publishing
    <3> QED
      BY <1>3, <3>1, <3>2, <3>3, <3>4, <3>5 DEF Next, WriterStep
  <2> QED
    BY <2>1 DEF Inspect, Complete
<1> QED
  BY <1>1, <1>2, <1>3

LEMMA PublishAlways == Spec => [](TypeOK /\ PublishInv)
<1>1. Init => PublishInv
  BY DEF Init, PublishInv, Publishing
<1> QED
  BY <1>1, TypeInit, TypeStep, PublishStep, PTL DEF Spec

LEMMA DurableStep ==
  TypeOK /\ PublishInv /\ PublishedIsDurable /\ [Next]_vars => PublishedIsDurable'
<1> SUFFICES ASSUME TypeOK, PublishInv, PublishedIsDurable, [Next]_vars,
                    synced' # {}, ~settled', NEW state \in recoverable'
             PROVE  state.name \in Writers
  BY DEF PublishedIsDurable
<1>1. CASE PowerLoss
  BY <1>1 DEF PowerLoss, PublishedIsDurable
<1>2. ASSUME NEW w \in Writers, SyncDirectory(w)
      PROVE  state.name \in Writers
  <2>1. Complete
    BY <1>2 DEF SyncDirectory, PublishInv, Publishing
  <2> QED
    BY <1>2, <2>1 DEF SyncDirectory, Complete
<1>3. CASE ~PowerLoss /\ ~\E w \in Writers : SyncDirectory(w)
  <2>1. synced' = synced
    BY <1>3
    DEF Next, WriterStep, CreateTemp, WriteTemp, Link, UnlinkTemp, Inspect,
        Discard, Quarantine, Rename, Answer, CallFails, GiveUp, SweepTemp,
        Digest, Kill, vars
  <2>2. ~settled /\ \A old \in recoverable : old.name \in Writers
    BY <1>3, <2>1, NameMoves DEF PublishedIsDurable
  <2>3. Complete'
    BY <1>3, <2>2, CompleteStays DEF TypeOK, Complete
  <2> QED
    BY <1>3, <2>2, <2>3, NameMoves DEF Complete
<1> QED
  BY <1>1, <1>2, <1>3

\* Once a writer has synced the directory under its record, no kill and no loss
\* of power leaves the event without a complete one before it is settled.
THEOREM PublishedStaysDurable == Spec => []PublishedIsDurable
<1>1. Init => PublishedIsDurable
  BY DEF Init, PublishedIsDurable
<1> QED
  BY <1>1, PublishAlways, DurableStep, PTL DEF Spec

LEMMA AckedStep ==
  TypeOK /\ PublishInv /\ AckedIsComplete /\ [Next]_vars => AckedIsComplete'
<1> SUFFICES ASSUME TypeOK, PublishInv, AckedIsComplete, [Next]_vars,
                    acked' # {}, ~settled'
             PROVE  Complete'
  BY DEF AckedIsComplete
<1>0. ~PowerLoss
  BY DEF PowerLoss
<1>1. acked # {} \/ \E w \in Writers : pc[w] = "answer"
  BY <1>0
  DEF Next, WriterStep, CreateTemp, WriteTemp, Link, UnlinkTemp, Inspect,
         Discard, Quarantine, Rename, SyncDirectory, Answer, CallFails, GiveUp,
         SweepTemp, Digest, Kill, vars
<1>2. Complete
  BY <1>0, <1>1, NameMoves DEF AckedIsComplete, PublishInv, Publishing
<1> QED
  BY <1>0, <1>2, CompleteStays

\* Short of a loss of power after the answer, a request that was answered finds
\* its event's record complete until a digest has settled it, duplicates
\* included.
THEOREM AckedStaysComplete == Spec => []AckedIsComplete
<1>1. Init => AckedIsComplete
  BY DEF Init, AckedIsComplete
<1> QED
  BY <1>1, AckedStep, PublishAlways, PTL DEF Spec

-----------------------------------------------------------------------------
(* The first link *)

\* A writer about to replace the name's file has quarantined one.
RenamesAfterQuarantine ==
  \A w \in Writers : pc[w] = "rename" => dir.quarantined # {}

LEMMA QuarantineStep ==
  TypeOK /\ RenamesAfterQuarantine /\ [Next]_vars => RenamesAfterQuarantine'
<1> SUFFICES ASSUME TypeOK, RenamesAfterQuarantine, [Next]_vars,
                    NEW w \in Writers, pc'[w] = "rename"
             PROVE  dir'.quarantined # {}
  BY DEF RenamesAfterQuarantine
<1> USE DEF TypeOK, Goto
<1>1. CASE Kill \/ PowerLoss
  BY <1>1 DEF Kill, PowerLoss
<1>2. CASE \E v \in Writers : Quarantine(v)
  BY <1>2 DEF Quarantine, Update, Directory, RenamesAfterQuarantine
<1>3. CASE ~Kill /\ ~PowerLoss /\ ~\E v \in Writers : Quarantine(v)
  <2>1. dir'.quarantined = dir.quarantined
    BY <1>3
    DEF Next, WriterStep, CreateTemp, WriteTemp, Link, UnlinkTemp, Inspect,
        Discard, Rename, SyncDirectory, Answer, CallFails, GiveUp, SweepTemp,
        Digest, vars, Update, WithoutTemp, Directory
  <2>2. pc[w] = "rename"
    BY <1>3
    DEF Next, WriterStep, CreateTemp, WriteTemp, Link, UnlinkTemp, Inspect,
        Discard, Rename, SyncDirectory, Answer, CallFails, GiveUp, SweepTemp,
        Digest, vars
  <2> QED
    BY <2>1, <2>2 DEF RenamesAfterQuarantine
<1> QED
  BY <1>1, <1>2, <1>3

\* As long as nothing had to be quarantined, the first complete record of an
\* event stays until a digest removes it or a crash brings back an older one.
THEOREM FirstLinkDecides == Spec => FirstLinkWins
<1>1. Init => RenamesAfterQuarantine
  BY DEF Init, RenamesAfterQuarantine
<1>2. TypeOK /\ RenamesAfterQuarantine /\ [Next]_vars
        => [Complete /\ dir.quarantined = {} /\ crashes' = crashes
              => dir'.name \in {dir.name, Missing}]_<<dir, settled>>
  <2> SUFFICES ASSUME TypeOK, RenamesAfterQuarantine, [Next]_vars,
                      Complete, dir.quarantined = {}, crashes' = crashes
               PROVE  dir'.name \in {dir.name, Missing}
    OBVIOUS
  <2>1. \A w \in Writers : ~Rename(w)
    BY DEF RenamesAfterQuarantine, Rename
  <2>2. dir.name # Missing
    BY StoreAssumption DEF Complete
  <2>3. Digest => dir'.name = Missing
    BY DEF Digest, Update, TypeOK, Directory
  <2>4. ~PowerLoss
    BY StoreAssumption DEF PowerLoss, TypeOK
  <2> QED
    BY <2>1, <2>2, <2>3, <2>4, NameMoves
<1> QED
  BY <1>1, <1>2, TypeInit, TypeStep, QuarantineStep, PTL DEF Spec, FirstLinkWins
-----------------------------------------------------------------------------
(* What was quarantined *)

\* A state of the directory with a quarantined file has one under the name.
Replaced(state) == state.quarantined # {} => state.name # Missing

\* A step that leaves the event unsettled leads to such a state of the directory.
LEMMA ReplacedStays ==
  ASSUME TypeOK, [Next]_vars, ~PowerLoss, ~Digest, Replaced(dir)
  PROVE  Replaced(dir')
<1> USE DEF TypeOK, Directory, Replaced, Update, WithoutTemp
<1>1. dir'.name = Missing => dir.name = Missing
  BY NameMoves, StoreAssumption
<1>2. CASE \E w \in Writers : Quarantine(w)
  BY <1>2 DEF Quarantine
<1>3. CASE ~\E w \in Writers : Quarantine(w)
  <2>1. dir'.quarantined = dir.quarantined
    BY <1>3
    DEF Next, WriterStep, CreateTemp, WriteTemp, Link, UnlinkTemp, Inspect,
        Discard, Rename, SyncDirectory, Answer, CallFails, GiveUp, SweepTemp,
        Kill, vars
  <2> QED
    BY <1>1, <2>1
<1> QED
  BY <1>2, <1>3

LEMMA NeverNeitherStep == TypeOK /\ NeverNeither /\ [Next]_vars => NeverNeither'
<1> SUFFICES ASSUME TypeOK, NeverNeither, [Next]_vars,
                    ~settled', NEW state \in recoverable'
             PROVE  Replaced(state)
  BY DEF NeverNeither, Replaced
<1>1. CASE PowerLoss
  BY <1>1 DEF PowerLoss, NeverNeither, Replaced
<1>2. CASE ~PowerLoss
  <2>1. ~settled /\ ~Digest
    BY <1>2, NameMoves DEF Digest
  <2>2. \A old \in recoverable : Replaced(old)
    BY <2>1 DEF NeverNeither, Replaced
  <2>3. Replaced(dir')
    BY <1>2, <2>1, <2>2, ReplacedStays DEF TypeOK
  <2>4. CASE \E w \in Writers : SyncDirectory(w)
    BY <2>2, <2>4 DEF SyncDirectory, TypeOK
  <2>5. CASE ~\E w \in Writers : SyncDirectory(w)
    BY <1>2, <2>2, <2>3, <2>5, NameMoves
  <2> QED
    BY <2>4, <2>5
<1> QED
  BY <1>1, <1>2

\* A malformed record is linked aside before its name is given away: until a
\* digest settles the event, every state of the directory a kill or a loss of
\* power may leave that has a quarantined file has one under the name too.
THEOREM NameIsNeverLost == Spec => []NeverNeither
<1>1. Init => NeverNeither
  <2> SUFFICES ASSUME Init, NEW state \in recoverable PROVE state.quarantined = {}
    BY DEF NeverNeither
  <2> QED
    BY DEF Init
<1> QED
  BY <1>1, TypeInit, TypeStep, NeverNeitherStep, PTL DEF Spec

-----------------------------------------------------------------------------
(* Source maps and debug files, for any assemblies and collections *)

\* The worker is at a job that was taken and has not committed.
WorkersJobIsOpen == worker.pc # "resting" => worker.job \in open

FilesInv == FilesTypeOK /\ WorkersJobIsOpen

ContentsOf(j) == {f.content : f \in ToSet(Files[j])}

LEMMA FilesOfJobs ==
  /\ \A j \in Jobs : /\ Files[j] \in Seq([name : Names, content : Contents])
                     /\ Len(Files[j]) \in Nat \ {0} /\ DOMAIN Files[j] = 1 .. Len(Files[j])
                     /\ ContentsOf(j) \subseteq Contents
                     /\ \A i \in 1 .. Len(Files[j]) :
                          Files[j][i].content \in Contents /\ Files[j][i].content \in ContentsOf(j)
  /\ None \notin Contents /\ None \notin Jobs /\ MaxFails \in Nat
<1> SUFFICES ASSUME NEW j \in Jobs
             PROVE  /\ Files[j] \in Seq([name : Names, content : Contents])
                    /\ Len(Files[j]) \in Nat \ {0} /\ DOMAIN Files[j] = 1 .. Len(Files[j])
                    /\ ContentsOf(j) \subseteq Contents
                    /\ \A i \in 1 .. Len(Files[j]) :
                         Files[j][i].content \in Contents /\ Files[j][i].content \in ContentsOf(j)
  BY SourceFilesAssumption
<1>1. Files[j] \in Seq([name : Names, content : Contents]) /\ Files[j] # <<>>
  BY SourceFilesAssumption
<1>2. Len(Files[j]) \in Nat \ {0} /\ DOMAIN Files[j] = 1 .. Len(Files[j])
  BY <1>1
<1>3. \A i \in 1 .. Len(Files[j]) : Files[j][i] \in [name : Names, content : Contents]
  BY <1>1, <1>2, ElementOfSeq
<1>4. \A i \in 1 .. Len(Files[j]) : Files[j][i] \in ToSet(Files[j])
  BY <1>2 DEF ToSet
<1>5. \A f \in ToSet(Files[j]) : f \in [name : Names, content : Contents]
  BY <1>2, <1>3 DEF ToSet
<1> QED
  BY <1>1, <1>2, <1>3, <1>4, <1>5 DEF ContentsOf

Collections == [pc : {"stopped", "delete", "unlink"}, todo : SUBSET Contents, content : Contents \cup {None}]

WorkerTyped ==
  \/ worker = Resting
  \/ /\ worker \in [job : Jobs, pc : {"look", "write", "insert", "commit"}, i : Nat]
     /\ worker.i \in 1 .. Len(Files[worker.job])

StoreTyped ==
  /\ files \subseteq Contents /\ rows \subseteq Contents
  /\ resolves \in [Names -> Contents \cup {None}]
  /\ gc \in [Collectors -> Collections]
  /\ fails \in 0 .. MaxFails
  /\ locked \in BOOLEAN
  /\ open \subseteq Jobs
  /\ locked => worker.pc # "resting"

LEMMA FilesTypes == FilesTypeOK <=> WorkerTyped /\ StoreTyped
BY DEF FilesTypeOK, WorkerTyped, StoreTyped, Collections

LEMMA ResultTyped ==
  ASSUME resolves \in [Names -> Contents \cup {None}], Commit, worker.job \in Jobs
  PROVE  resolves' \in [Names -> Contents \cup {None}]
<1> DEFINE of == Files[worker.job]
<1> SUFFICES ASSUME NEW n \in Names
             PROVE  (IF \E i \in DOMAIN of : LastOf(i, n)
                     THEN of[CHOOSE i \in DOMAIN of : LastOf(i, n)].content
                     ELSE resolves[n]) \in Contents \cup {None}
  BY DEF Commit
<1>1. CASE \E i \in DOMAIN of : LastOf(i, n)
  <2> DEFINE i == CHOOSE k \in DOMAIN of : LastOf(k, n)
  <2>1. i \in DOMAIN of
    BY <1>1
  <2> HIDE DEF i
  <2>2. of[i].content \in Contents
    BY <2>1, FilesOfJobs
  <2> QED
    BY <1>1, <2>2 DEF i
<1>2. CASE ~ \E i \in DOMAIN of : LastOf(i, n)
  BY <1>2
<1> QED
  BY <1>1, <1>2

LEMMA FilesInvInit == FilesInit => FilesInv
<1> SUFFICES ASSUME FilesInit PROVE FilesInv
  OBVIOUS
<1>1. Stopped \in Collections
  BY DEF Stopped, Collections
<1>2. StoreTyped
  <2>1. resolves \in [Names -> Contents \cup {None}] /\ gc \in [Collectors -> Collections]
    BY <1>1 DEF FilesInit
  <2>2. fails \in 0 .. MaxFails
    BY FilesOfJobs DEF FilesInit
  <2> QED
    BY <2>1, <2>2 DEF FilesInit, StoreTyped
<1>3. WorkerTyped /\ WorkersJobIsOpen
  BY DEF FilesInit, WorkerTyped, WorkersJobIsOpen, Resting
<1> QED
  BY <1>2, <1>3, FilesTypes DEF FilesInv

LEMMA WorkerInvStep == FilesInv /\ [FilesNext]_filesVars => WorkerTyped' /\ WorkersJobIsOpen'
<1> SUFFICES ASSUME FilesInv, [FilesNext]_filesVars PROVE WorkerTyped' /\ WorkersJobIsOpen'
  OBVIOUS
<1>a. WorkerTyped /\ WorkersJobIsOpen
  BY FilesTypes DEF FilesInv
<1>1. ASSUME NEW j \in Jobs, Take(j) PROVE WorkerTyped' /\ WorkersJobIsOpen'
  <2>1. 1 \in 1 .. Len(Files[j])
    BY FilesOfJobs
  <2> QED
    BY <1>1, <2>1 DEF Take, WorkerTyped, WorkersJobIsOpen
<1>2. ASSUME NEW p \in {"look", "write", "insert", "commit"}, NEW i \in {worker.i, worker.i + 1},
             worker.pc # "resting", i \in 1 .. Len(Files[worker.job]), open' = open,
             worker' = [job |-> worker.job, pc |-> p, i |-> i]
      PROVE  WorkerTyped' /\ WorkersJobIsOpen'
  <2>1. worker \in [job : Jobs, pc : {"look", "write", "insert", "commit"}, i : Nat]
          /\ worker.i \in Nat /\ worker.job \in open
    BY <1>a, <1>2 DEF WorkerTyped, WorkersJobIsOpen, Resting
  <2> QED
    BY <1>2, <2>1 DEF WorkerTyped, WorkersJobIsOpen
<1>3. ASSUME NEW p \in {"look", "write", "insert", "commit"},
             worker.pc # "resting", open' = open, worker' = [worker EXCEPT !.pc = p]
      PROVE  WorkerTyped' /\ WorkersJobIsOpen'
  <2>1. worker \in [job : Jobs, pc : {"look", "write", "insert", "commit"}, i : Nat]
          /\ worker.i \in 1 .. Len(Files[worker.job])
    BY <1>a, <1>3 DEF WorkerTyped, Resting
  <2>2. worker' = [job |-> worker.job, pc |-> p, i |-> worker.i]
    BY <1>3, <2>1
  <2> QED
    BY <1>2, <1>3, <2>1, <2>2
<1>4. CASE Look \/ Write
  BY <1>3, <1>4 DEF Look, Write, WorkerTo
<1>5. CASE Insert
  <2>1. /\ worker.job \in Jobs /\ worker.i \in 1 .. Len(Files[worker.job]) /\ worker.pc # "resting"
        /\ open' = open
    BY <1>5, <1>a DEF Insert, WorkerTyped, Resting
  <2>2. CASE worker.i < Len(Files[worker.job])
    <3>1. worker' = [worker EXCEPT !.pc = "look", !.i = worker.i + 1]
      BY <1>5, <2>2 DEF Insert
    <3>2. worker.i + 1 \in 1 .. Len(Files[worker.job])
      BY <2>1, <2>2, FilesOfJobs
    <3>3. worker \in [job : Jobs, pc : {"look", "write", "insert", "commit"}, i : Nat]
      BY <1>a, <2>1 DEF WorkerTyped, Resting
    <3>4. worker' = [job |-> worker.job, pc |-> "look", i |-> worker.i + 1]
      BY <3>1, <3>3
    <3> QED
      BY <1>2, <2>1, <3>2, <3>4
  <2>3. CASE ~(worker.i < Len(Files[worker.job]))
    BY <1>3, <1>5, <2>1, <2>3 DEF Insert
  <2> QED
    BY <2>2, <2>3
<1>6. CASE worker' = Resting
  BY <1>6 DEF WorkerTyped, WorkersJobIsOpen, Resting
<1>7. CASE UNCHANGED <<worker, open>>
  BY <1>a, <1>7 DEF WorkerTyped, WorkersJobIsOpen
<1>8. CASE Commit \/ JobFails \/ Crash
  BY <1>6, <1>8 DEF Commit, JobFails, Crash
<1>9. ASSUME NEW g \in Collectors, Collect(g) PROVE UNCHANGED <<worker, open>>
  BY <1>9 DEF Collect, Snapshot, DeleteRow, Unlink, CollectionEnds, CollectionFails
<1>10. ASSUME NEW from \in Names, NEW to \in Names, Alias(from, to) \/ Forget(to)
       PROVE  UNCHANGED <<worker, open>>
  BY <1>10 DEF Alias, Forget
<1> QED
  BY <1>1, <1>4, <1>5, <1>7, <1>8, <1>9, <1>10 DEF FilesNext, filesVars

LEMMA StoreTypeStep == FilesInv /\ [FilesNext]_filesVars => StoreTyped'
<1> SUFFICES ASSUME FilesInv, [FilesNext]_filesVars PROVE StoreTyped'
  OBVIOUS
<1>a. StoreTyped /\ MaxFails \in Nat
  BY FilesTypes, FilesOfJobs DEF FilesInv
<1>w. worker.pc # "resting" =>
        /\ worker.job \in Jobs /\ File.content \in Contents
        /\ worker.i \in 1 .. Len(Files[worker.job])
        /\ worker \in [job : Jobs, pc : {"look", "write", "insert", "commit"}, i : Nat]
  BY FilesTypes, FilesOfJobs DEF FilesInv, WorkerTyped, Resting, File
<1>f. Fails => fails' \in 0 .. MaxFails
  BY <1>a DEF Fails, StoreTyped
<1>1. ASSUME NEW j \in Jobs, Take(j) PROVE StoreTyped'
  BY <1>1, <1>a DEF Take, StoreTyped
<1>2. CASE Look \/ Write \/ Insert
  <2>1. worker.pc # "resting" /\ worker'.pc # "resting"
    BY <1>2, <1>w DEF Look, Write, Insert, WorkerTo
  <2>2. files' \subseteq Contents /\ UNCHANGED <<open, rows, resolves, gc, fails>> /\ locked' \in BOOLEAN
    BY <1>2, <1>a, <1>w DEF Look, Write, Insert, StoreTyped
  <2> QED
    BY <1>a, <2>1, <2>2 DEF StoreTyped
<1>3. CASE Commit
  <2>1. worker.job \in Jobs /\ ContentsOf(worker.job) \subseteq Contents
    BY <1>3, <1>w, FilesOfJobs DEF Commit
  <2>2. rows' \subseteq Contents
    BY <1>3, <1>a, <2>1 DEF Commit, ContentsOf, StoreTyped
  <2>3. resolves' \in [Names -> Contents \cup {None}]
    BY <1>3, <1>a, <2>1, ResultTyped DEF StoreTyped
  <2>4. UNCHANGED <<files, gc, fails>> /\ locked' = FALSE /\ open' \subseteq open
    BY <1>3 DEF Commit
  <2> QED
    BY <1>a, <2>2, <2>3, <2>4 DEF StoreTyped
<1>4. CASE JobFails
  BY <1>4, <1>a, <1>f DEF JobFails, StoreTyped
<1>5. ASSUME NEW from \in Names, NEW to \in Names, Alias(from, to) \/ Forget(to) PROVE StoreTyped'
  BY <1>5, <1>a DEF Alias, Forget, StoreTyped
<1>6. CASE Crash
  <2>1. [g \in Collectors |-> Stopped] \in [Collectors -> Collections]
    BY DEF Stopped, Collections
  <2> QED
    BY <1>6, <1>a, <1>f, <2>1 DEF Crash, StoreTyped
<1>7. ASSUME NEW g \in Collectors, Collect(g) PROVE StoreTyped'
  <2>a. gc[g] \in Collections
    BY <1>a DEF StoreTyped
  <2>1. CASE Snapshot(g)
    <3>1. [pc |-> "delete", todo |-> {c \in rows : ~Referred(c)}, content |-> None] \in Collections
      BY <1>a DEF StoreTyped, Collections
    <3> QED
      BY <2>1, <1>a, <3>1 DEF Snapshot, StoreTyped
  <2>2. CASE DeleteRow(g)
    <3>1. PICK c \in gc[g].todo :
            /\ gc' = [gc EXCEPT ![g] = [pc |-> IF Orphaned(c) THEN "unlink" ELSE "delete",
                                        todo |-> gc[g].todo \ {c}, content |-> c]]
            /\ rows' = IF Orphaned(c) THEN rows \ {c} ELSE rows
            /\ resolves' = [n \in Names |-> IF Orphaned(c) /\ resolves[n] = c THEN None ELSE resolves[n]]
      BY <2>2 DEF DeleteRow
    <3>2. [pc |-> IF Orphaned(c) THEN "unlink" ELSE "delete",
           todo |-> gc[g].todo \ {c}, content |-> c] \in Collections
      BY <2>a DEF Collections
    <3>3. gc' \in [Collectors -> Collections]
      BY <1>a, <3>1, <3>2 DEF StoreTyped
    <3>4. resolves' \in [Names -> Contents \cup {None}]
      BY <1>a, <3>1 DEF StoreTyped
    <3>5. rows' \subseteq Contents /\ UNCHANGED <<open, files, worker, locked, fails>>
      BY <2>2, <1>a, <3>1 DEF DeleteRow, StoreTyped
    <3> QED
      BY <1>a, <3>3, <3>4, <3>5 DEF StoreTyped
  <2>3. CASE Unlink(g)
    <3>1. [gc[g] EXCEPT !.pc = "delete"] \in Collections
      BY <2>a DEF Collections
    <3>2. gc' \in [Collectors -> Collections]
      BY <2>3, <1>a, <3>1 DEF Unlink, StoreTyped
    <3>3. /\ files' \subseteq Contents /\ fails' \in 0 .. MaxFails
          /\ UNCHANGED <<open, rows, resolves, worker, locked>>
      BY <2>3, <1>a, <1>f DEF Unlink, StoreTyped
    <3> QED
      BY <1>a, <3>2, <3>3 DEF StoreTyped
  <2>4. CASE CollectionEnds(g) \/ CollectionFails(g)
    <3>1. Stopped \in Collections
      BY DEF Stopped, Collections
    <3>2. gc' \in [Collectors -> Collections]
      BY <2>4, <1>a, <3>1 DEF CollectionEnds, CollectionFails, StoreTyped
    <3>3. fails' \in 0 .. MaxFails /\ UNCHANGED <<open, files, rows, resolves, worker, locked>>
      BY <2>4, <1>a, <1>f DEF CollectionEnds, CollectionFails, StoreTyped
    <3> QED
      BY <1>a, <3>2, <3>3 DEF StoreTyped
  <2> QED
    BY <1>7, <2>1, <2>2, <2>3, <2>4 DEF Collect
<1>8. CASE UNCHANGED filesVars
  BY <1>8, <1>a DEF filesVars, StoreTyped
<1> QED
  BY <1>1, <1>2, <1>3, <1>4, <1>5, <1>6, <1>7, <1>8 DEF FilesNext

LEMMA FilesAlways == FilesSpec => []FilesInv
<1>1. FilesInv /\ [FilesNext]_filesVars => FilesInv'
  <2>1. WorkerTyped' /\ StoreTyped' => FilesTypeOK'
    BY DEF FilesTypeOK, WorkerTyped, StoreTyped, Collections
  <2> QED
    BY <2>1, WorkerInvStep, StoreTypeStep DEF FilesInv
<1> QED
  BY <1>1, FilesInvInit, PTL DEF FilesSpec

\* The store's variables keep their types, the worker's place in its job
\* included, for any assemblies and collections.
THEOREM FilesTypeCorrect == FilesSpec => []FilesTypeOK
  BY FilesAlways, PTL DEF FilesInv

-----------------------------------------------------------------------------
(* Names and files *)

\* "So we never unlink a file that's back in use": the condition of the DELETE is
\* part of it, so a collection takes no name away, however old its list of
\* orphans is. The other steps that take one away are not a collection's.
THEOREM NamesOutliveCollections == FilesSpec => CollectionsKeepNames
<1>1. FilesInv /\ [FilesNext]_filesVars =>
        [\A n \in Names : resolves[n] # None /\ resolves'[n] = None => gc' = gc]_filesVars
  <2> SUFFICES ASSUME FilesInv, [FilesNext]_filesVars,
                      NEW n \in Names, resolves[n] # None, resolves'[n] = None
               PROVE  gc' = gc
    OBVIOUS
  <2>1. ASSUME NEW g \in Collectors, Collect(g) PROVE FALSE
    <3>1. DeleteRow(g)
      BY <2>1 DEF Collect, Snapshot, Unlink, CollectionEnds, CollectionFails
    <3>2. PICK c \in gc[g].todo :
            resolves' = [m \in Names |-> IF Orphaned(c) /\ resolves[m] = c THEN None ELSE resolves[m]]
      BY <3>1 DEF DeleteRow
    <3>3. Orphaned(c) /\ resolves[n] = c
      BY <3>2
    <3> QED
      BY <3>3 DEF Orphaned, Referred
  <2>2. ~Crash
    BY DEF Crash
  <2>3. ASSUME NEW j \in Jobs, Take(j) PROVE gc' = gc
    BY <2>3 DEF Take
  <2>4. ASSUME NEW from \in Names, NEW to \in Names, Alias(from, to) \/ Forget(to) PROVE gc' = gc
    BY <2>4 DEF Alias, Forget
  <2>5. CASE Look \/ Write \/ Insert \/ Commit \/ JobFails \/ UNCHANGED filesVars
    BY <2>5 DEF Look, Write, Insert, Commit, JobFails, filesVars
  <2> QED
    BY <2>1, <2>2, <2>3, <2>4, <2>5 DEF FilesNext
<1> QED
  BY <1>1, FilesAlways, PTL DEF FilesSpec, CollectionsKeepNames

\* Every file has its row, or a job that was taken or a collection that will
\* settle it, while nothing has failed, whatever jobs and collections overlap.
THEOREM FilesAreAccounted == FilesSpec => []NoStrayFile
<1>1. FilesInit => NoStrayFile
  BY DEF FilesInit, NoStrayFile
<1>2. FilesInv /\ NoStrayFile /\ [FilesNext]_filesVars => NoStrayFile'
  <2> SUFFICES ASSUME FilesInv, NoStrayFile, [FilesNext]_filesVars, fails' = 0, NEW c \in files'
               PROVE  (c \in rows \/ OnItsWay(c))'
    BY DEF NoStrayFile
  <2>a. FilesTypeOK /\ fails \in Nat
    BY FilesOfJobs DEF FilesInv, FilesTypeOK
  <2>b. ~Fails /\ fails = 0
    <3>1. ASSUME NEW g \in Collectors, Collect(g), ~Fails PROVE fails' = fails
      BY <3>1 DEF Collect, Snapshot, DeleteRow, Unlink, CollectionEnds, CollectionFails
    <3>2. ~Fails
      BY <2>a DEF Fails
    <3>3. ASSUME NEW j \in Jobs, Take(j) PROVE fails' = fails
      BY <3>3 DEF Take
    <3>4. ASSUME NEW from \in Names, NEW to \in Names, Alias(from, to) \/ Forget(to) PROVE fails' = fails
      BY <3>4 DEF Alias, Forget
    <3>5. CASE Look \/ Write \/ Insert \/ Commit \/ JobFails \/ Crash \/ UNCHANGED filesVars
      BY <3>2, <3>5 DEF Look, Write, Insert, Commit, JobFails, Crash, filesVars
    <3> QED
      BY <3>1, <3>2, <3>3, <3>4, <3>5 DEF FilesNext
  <2>c. c \in files => \/ c \in rows
                       \/ \E j \in open : c \in ContentsOf(j)
                       \/ \E g \in Collectors : gc[g].pc = "unlink" /\ gc[g].content = c
    BY <2>b DEF NoStrayFile, OnItsWay, ContentsOf
  <2>d. (\/ c \in rows'
         \/ \E j \in open' : c \in ContentsOf(j)
         \/ \E g \in Collectors : gc'[g].pc = "unlink" /\ gc'[g].content = c)
           => (c \in rows \/ OnItsWay(c))'
    BY DEF OnItsWay, ContentsOf
  <2>1. CASE /\ c \in files /\ rows \subseteq rows' /\ open \subseteq open'
             /\ gc' = gc
    BY <2>1, <2>c, <2>d
  <2>2. ASSUME NEW j \in Jobs, Take(j) PROVE (c \in rows \/ OnItsWay(c))'
    BY <2>1, <2>2 DEF Take
  <2>3. CASE Look \/ Insert \/ UNCHANGED filesVars
    BY <2>1, <2>3 DEF Look, Insert, filesVars
  <2>4. CASE Write
    <3>1. CASE c \in files
      BY <2>1, <2>4, <3>1 DEF Write
    <3>2. CASE c \notin files
      <4>1. c = File.content /\ open' = open /\ worker.pc = "write"
        BY <2>4, <3>2 DEF Write
      <4>2. /\ worker.job \in open /\ worker.job \in Jobs
            /\ worker.i \in 1 .. Len(Files[worker.job])
        BY <4>1 DEF FilesInv, FilesTypeOK, WorkersJobIsOpen, Resting
      <4>3. c \in ContentsOf(worker.job)
        BY <4>1, <4>2, FilesOfJobs DEF File
      <4> QED
        BY <2>d, <4>1, <4>2, <4>3
    <3> QED
      BY <3>1, <3>2
  <2>5. CASE Commit
    <3>1. /\ rows' = rows \cup ContentsOf(worker.job) /\ open' = open \ {worker.job}
          /\ gc' = gc /\ files' = files
      BY <2>5 DEF Commit, ContentsOf
    <3> QED
      BY <2>c, <2>d, <3>1
  <2>6. ASSUME NEW from \in Names, NEW to \in Names, Alias(from, to) \/ Forget(to)
        PROVE  (c \in rows \/ OnItsWay(c))'
    BY <2>1, <2>6 DEF Alias, Forget
  <2>7. ~JobFails /\ ~Crash
    BY <2>b DEF JobFails, Crash
  <2>8. ASSUME NEW g \in Collectors, Collect(g) PROVE (c \in rows \/ OnItsWay(c))'
    <3>a. DOMAIN gc = Collectors /\ gc[g] \in Collections /\ gc \in [Collectors -> Collections]
      BY DEF FilesInv, FilesTypeOK, Collections
    <3>1. ASSUME c \in files, UNCHANGED <<open, rows>>, gc[g].pc # "unlink" \/ gc[g].content # c,
                 \A h \in Collectors : h # g => gc'[h] = gc[h]
          PROVE  (c \in rows \/ OnItsWay(c))'
      BY <2>c, <2>d, <3>1
    <3>2. CASE Snapshot(g) \/ CollectionEnds(g)
      BY <3>a, <3>1, <3>2 DEF Snapshot, CollectionEnds
    <3>3. CASE DeleteRow(g)
      <4>1. PICK d \in gc[g].todo :
              /\ gc' = [gc EXCEPT ![g] = [pc |-> IF Orphaned(d) THEN "unlink" ELSE "delete",
                                          todo |-> gc[g].todo \ {d}, content |-> d]]
              /\ rows' = IF Orphaned(d) THEN rows \ {d} ELSE rows
        BY <3>3 DEF DeleteRow
      <4>2. gc[g].pc = "delete" /\ UNCHANGED <<open, files>>
        BY <3>3 DEF DeleteRow
      <4>3. \A h \in Collectors : h # g => gc'[h] = gc[h]
        BY <3>a, <4>1
      <4>4. CASE Orphaned(d) /\ c = d
        <5>1. gc'[g].pc = "unlink" /\ gc'[g].content = c
          BY <3>a, <4>1, <4>4
        <5> QED
          BY <2>d, <5>1
      <4>5. CASE Orphaned(d) /\ c # d
        BY <2>c, <2>d, <4>1, <4>2, <4>3, <4>5
      <4>6. CASE ~Orphaned(d)
        BY <3>1, <4>1, <4>2, <4>3, <4>6
      <4> QED
        BY <4>4, <4>5, <4>6
    <3>4. CASE Unlink(g)
      <4>1. files' = files \ {gc[g].content} /\ UNCHANGED <<open, rows>>
        BY <2>b, <3>4 DEF Unlink
      <4>2. \A h \in Collectors : h # g => gc'[h] = gc[h]
        BY <3>a, <3>4 DEF Unlink
      <4> QED
        BY <3>1, <4>1, <4>2
    <3>5. ~CollectionFails(g)
      BY <2>b DEF CollectionFails
    <3> QED
      BY <2>8, <3>2, <3>3, <3>4, <3>5 DEF Collect
  <2> QED
    BY <2>2, <2>3, <2>4, <2>5, <2>6, <2>7, <2>8 DEF FilesNext
<1> QED
  BY <1>1, <1>2, FilesAlways, PTL DEF FilesSpec
==============================================================================
