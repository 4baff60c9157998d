---------------------------- MODULE PendingStore ----------------------------
(***************************************************************************)
(* How a pending event record is published in the ingest directory: one    *)
(* event id, whose record may be written by several requests at once (an   *)
(* SDK's retries).  Each writer fills and syncs a temporary file, gives it *)
(* the canonical name by a hard link, or finds the name taken and keeps or *)
(* replaces what is there, then syncs the directory and answers.           *)
(*                                                                         *)
(* What a file holds is durable before it has the canonical name (the file *)
(* is synced first); the directory's entries are not until it is synced.   *)
(* The filesystem is external: it orders directory operations, so that a   *)
(* loss of power leaves some state since the last sync.                    *)
(***************************************************************************)
EXTENDS Naturals

CONSTANTS
  Writers,       \* the requests that store the event's record
  Missing,       \* no file has the canonical name
  Malformed,     \* a file has it that is no complete record of the event
  Found,         \* what may be under the name at the start
  MaxFaults,     \* bound: failing filesystem calls in a behaviour
  MaxCrashes,    \* bound: crashes in a behaviour
  PowerFails     \* whether a crash may be a loss of power

ASSUME StoreAssumption ==
  /\ Missing # Malformed
  /\ Writers \cap {Missing, Malformed} = {}
  /\ Found \subseteq {Missing, Malformed}
  /\ {MaxFaults, MaxCrashes} \subseteq Nat
  /\ PowerFails \in BOOLEAN

VARIABLES
  pc,           \* the step each writer is at
  dir,          \* the directory: the name's record, temporary and quarantined files
  recoverable,  \* the states of the directory a loss of power may leave
  settled,      \* history: a digest has dealt with the event and removed its file
  synced,       \* history: the writers whose own record is published and synced
  acked,        \* history: the writers that have returned Ok since power last failed
  faults,       \* failing calls so far
  crashes       \* crashes so far

vars == <<pc, dir, recoverable, settled, synced, acked, faults, crashes>>

Steps == {"idle", "writing", "link", "unlink", "inspect", "discard",
          "quarantine", "rename", "sync", "answer", "failed", "done"}

\* name is the writer whose complete record has the canonical name.
Directory == [name : Writers \cup {Missing, Malformed},
              temps : SUBSET Writers,
              quarantined : SUBSET (Writers \cup {Malformed})]

TypeOK ==
  /\ pc \in [Writers -> Steps]
  /\ dir \in Directory
  /\ recoverable \subseteq Directory /\ dir \in recoverable
  /\ settled \in BOOLEAN
  /\ synced \subseteq Writers
  /\ acked \subseteq Writers
  /\ faults \in 0..MaxFaults
  /\ crashes \in 0..MaxCrashes

Init ==
  /\ pc = [w \in Writers |-> "idle"]
  /\ \E found \in Found :
        dir = [name |-> found, temps |-> {}, quarantined |-> {}]
  /\ recoverable = {dir}
  /\ settled = FALSE
  /\ synced = {}
  /\ acked = {}
  /\ faults = 0
  /\ crashes = 0

-----------------------------------------------------------------------------
Goto(w, step) == pc' = [pc EXCEPT ![w] = step]

\* A directory operation is seen at once, and reaches the disk some day.
Update(new) == dir' = new /\ recoverable' = recoverable \cup {new}

WithoutTemp(w) == [dir EXCEPT !.temps = @ \ {w}]

Complete == dir.name \in Writers

\* A temporary file is created under a name of its own.
CreateTemp(w) ==
  /\ pc[w] = "idle"
  /\ Update([dir EXCEPT !.temps = @ \cup {w}])
  /\ Goto(w, "writing")
  /\ UNCHANGED <<settled, synced, acked, faults, crashes>>

\* It is filled and synced; it is still this writer's if its name is gone.
WriteTemp(w) ==
  /\ pc[w] = "writing"
  /\ Goto(w, "link")
  /\ UNCHANGED <<dir, recoverable, settled, synced, acked, faults, crashes>>

\* Mutant: the record is renamed into place whatever is there.
RenameOver(w) ==
  /\ pc[w] = "link"
  /\ IF w \notin dir.temps
     THEN Goto(w, "failed") /\ UNCHANGED <<dir, recoverable>>
     ELSE Update([WithoutTemp(w) EXCEPT !.name = w]) /\ Goto(w, "sync")
  /\ UNCHANGED <<settled, synced, acked, faults, crashes>>

\* The hard link takes the name if it is free, as one step; the temporary file
\* may have been swept away meanwhile.
Link(w) ==
  /\ pc[w] = "link"
  /\ \/ /\ w \notin dir.temps
        /\ Goto(w, "failed")
        /\ UNCHANGED <<dir, recoverable>>
     \/ /\ w \in dir.temps
        /\ dir.name = Missing
        /\ Update([dir EXCEPT !.name = w])
        /\ Goto(w, "unlink")
     \/ /\ w \in dir.temps
        /\ dir.name # Missing
        /\ Goto(w, "inspect")
        /\ UNCHANGED <<dir, recoverable>>
  /\ UNCHANGED <<settled, synced, acked, faults, crashes>>

UnlinkTemp(w) ==
  /\ pc[w] = "unlink"
  /\ Update(WithoutTemp(w))
  /\ Goto(w, "sync")
  /\ UNCHANGED <<settled, synced, acked, faults, crashes>>

\* Mutant: a malformed record is taken for a complete one.
InspectTrusts(w) ==
  /\ pc[w] = "inspect"
  /\ Goto(w, IF dir.name = Missing THEN "failed" ELSE "discard")
  /\ UNCHANGED <<dir, recoverable, settled, synced, acked, faults, crashes>>

\* The name was taken: read what has it.  A digest may have removed it since,
\* and then the read is an error.
Inspect(w) ==
  /\ pc[w] = "inspect"
  /\ Goto(w, IF dir.name = Missing THEN "failed"
             ELSE IF Complete THEN "discard" ELSE "quarantine")
  /\ UNCHANGED <<dir, recoverable, settled, synced, acked, faults, crashes>>

\* A complete record is kept and the duplicate reported stored, at once.
Discard(w) ==
  /\ pc[w] = "discard"
  /\ Update(WithoutTemp(w))
  /\ Goto(w, "answer")
  /\ UNCHANGED <<settled, synced, acked, faults, crashes>>

\* Mutant: the malformed record is moved away, not linked.
QuarantineMoves(w) ==
  /\ pc[w] = "quarantine"
  /\ IF dir.name = Missing
     THEN Goto(w, "failed") /\ UNCHANGED <<dir, recoverable>>
     ELSE /\ Update([dir EXCEPT !.quarantined = @ \cup {dir.name}, !.name = Missing])
          /\ Goto(w, "rename")
  /\ UNCHANGED <<settled, synced, acked, faults, crashes>>

\* Whatever has the name by now gets a second one ...
Quarantine(w) ==
  /\ pc[w] = "quarantine"
  /\ IF dir.name = Missing
     THEN Goto(w, "failed") /\ UNCHANGED <<dir, recoverable>>
     ELSE /\ Update([dir EXCEPT !.quarantined = @ \cup {dir.name}])
          /\ Goto(w, "rename")
  /\ UNCHANGED <<settled, synced, acked, faults, crashes>>

\* ... and loses the first to this writer's record.
Rename(w) ==
  /\ pc[w] = "rename"
  /\ IF w \notin dir.temps
     THEN Goto(w, "failed") /\ UNCHANGED <<dir, recoverable>>
     ELSE /\ Update([WithoutTemp(w) EXCEPT !.name = w])
          /\ Goto(w, "sync")
  /\ UNCHANGED <<settled, synced, acked, faults, crashes>>

\* Mutant: the directory is opened, not synced.
SyncSkipped(w) ==
  /\ pc[w] = "sync"
  /\ synced' = synced \cup {w}
  /\ Goto(w, "answer")
  /\ UNCHANGED <<dir, recoverable, settled, acked, faults, crashes>>

\* The directory is synced: what it holds now survives a loss of power.
SyncDirectory(w) ==
  /\ pc[w] = "sync"
  /\ recoverable' = {dir}
  /\ synced' = synced \cup {w}
  /\ Goto(w, "answer")
  /\ UNCHANGED <<dir, settled, acked, faults, crashes>>

\* The store returns Ok, and the client is answered 200.
Answer(w) ==
  /\ pc[w] = "answer"
  /\ acked' = acked \cup {w}
  /\ Goto(w, "done")
  /\ UNCHANGED <<dir, recoverable, settled, synced, faults, crashes>>

\* Any filesystem call may fail.
CallFails(w) ==
  /\ pc[w] \in {"idle", "writing", "link", "inspect", "quarantine", "rename", "sync"}
  /\ faults < MaxFaults
  /\ faults' = faults + 1
  /\ Goto(w, "failed")
  /\ UNCHANGED <<dir, recoverable, settled, synced, acked, crashes>>

\* Every error removes the temporary file and is returned.
GiveUp(w) ==
  /\ pc[w] = "failed"
  /\ Update(WithoutTemp(w))
  /\ Goto(w, "done")
  /\ UNCHANGED <<settled, synced, acked, faults, crashes>>

-----------------------------------------------------------------------------
(* The rest of the server *)

\* A scan removes the temporary files older than its grace.  It cannot tell a
\* dead writer's from a stalled one's.
SweepTemp(w) ==
  /\ w \in dir.temps
  /\ Update(WithoutTemp(w))
  /\ UNCHANGED <<pc, settled, synced, acked, faults, crashes>>

\* A digest has stored or dropped the event for good and removes its record.
\* A record it cannot parse it keeps.
Digest ==
  /\ Complete
  /\ Update([dir EXCEPT !.name = Missing])
  /\ settled' = TRUE
  /\ UNCHANGED <<pc, synced, acked, faults, crashes>>

\* Every writer's thread is gone; the directory is as it was.
Kill ==
  /\ crashes < MaxCrashes
  /\ crashes' = crashes + 1
  /\ pc' = [w \in Writers |-> IF pc[w] = "idle" THEN "idle" ELSE "done"]
  /\ UNCHANGED <<dir, recoverable, settled, synced, acked, faults>>

PowerLoss ==
  /\ PowerFails
  /\ crashes < MaxCrashes
  /\ crashes' = crashes + 1
  /\ pc' = [w \in Writers |-> IF pc[w] = "idle" THEN "idle" ELSE "done"]
  /\ dir' \in recoverable
  /\ recoverable' = {dir'}
  /\ acked' = {}
  /\ UNCHANGED <<settled, synced, faults>>

WriterStep(w) ==
  \/ WriteTemp(w) \/ Link(w) \/ UnlinkTemp(w) \/ Inspect(w) \/ Discard(w)
  \/ Quarantine(w) \/ Rename(w) \/ SyncDirectory(w) \/ Answer(w)
  \/ CallFails(w) \/ GiveUp(w)

Next ==
  \/ \E w \in Writers : CreateTemp(w) \/ WriterStep(w) \/ SweepTemp(w)
  \/ Digest
  \/ Kill
  \/ PowerLoss

Spec == Init /\ [][Next]_vars

-----------------------------------------------------------------------------
(* Properties *)

\* Until a digest has dealt with it, an event whose store returned Ok has a
\* complete record under its name (publish_pending_file): short of a loss of
\* power nothing takes it away, a kill least of all.
AckedIsComplete == acked # {} /\ ~settled => Complete

\* A record a writer has published and synced stays through a loss of power,
\* whatever later writers of the same event do to its name.
PublishedIsDurable ==
  synced # {} /\ ~settled => \A state \in recoverable : state.name \in Writers

\* "A crash cannot leave recovery with neither the old record nor the new
\* durable record": once a record is quarantined, every state a crash or a loss
\* of power may leave has a file under the name.
NeverNeither ==
  ~settled => \A state \in recoverable :
                state.quarantined # {} => state.name # Missing

\* "Keep the first complete record instead of allowing a later payload to win a
\* race": only a digest takes a record off its name, or a crash brings another
\* one back. The hard link decides; once a malformed record was quarantined,
\* a second writer may replace the first one's (publish_pending_file).
FirstLinkWins ==
  [][Complete /\ dir.quarantined = {} /\ crashes' = crashes
       => dir'.name \in {dir.name, Missing}]_<<dir, settled>>
=============================================================================
