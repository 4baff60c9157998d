------------------------------ MODULE CleanupJob ------------------------------
(***************************************************************************)
(* The server's one storage cleanup and the figures of the storage page    *)
(* (services/storage.rs, CleanupJob).                                      *)
(*                                                                         *)
(* The status is kept in memory: begin refuses a second run, execute ends  *)
(* it.  The figures are read slowly, by one task at a time holding the     *)
(* lock `reading`, and kept; the kept ones are served until a cleanup or a *)
(* source map collection makes them wrong.                                 *)
(*                                                                         *)
(* Instants are counted in ends: a read that began after the k-th end of a *)
(* cleanup began at k.                                                     *)
(***************************************************************************)
EXTENDS Integers, Sequences, SequencesExt

CONSTANTS
  Asked,             \* the requests for the figures, each asked once
  MaxJobs,           \* bound: cleanups begun
  MaxCollections     \* bound: source map collections

ASSUME CleanupAssumption == {MaxJobs, MaxCollections} \subseteq Nat

VARIABLES
  job,               \* status: the run's number, its state, when it finished
  ends,              \* history: cleanups finished so far
  collections,       \* history: collections carried out so far
  forgets,           \* collections that have not dropped the figures yet
  kept,              \* snapshot: the figures kept, if any
  holder,            \* the task holding `reading`, if any
  queue,             \* the tasks waiting for it, in order
  asked              \* what each request got, or is waiting for

cleanupVars == <<job, ends, collections, forgets, kept, holder, queue, asked>>
figureVars == <<collections, forgets, kept, holder, queue, asked>>

NoTask == [is |-> "none"]
NoFigures == [at |-> -1, ends |-> 0, collections |-> 0]

CleanupInit ==
  /\ job = [n |-> 0, state |-> "idle", finished |-> 0]
  /\ ends = 0 /\ collections = 0 /\ forgets = 0
  /\ kept = NoFigures
  /\ holder = NoTask
  /\ queue = <<>>
  /\ asked = [q \in Asked |-> [is |-> "unasked"]]

-----------------------------------------------------------------------------
(* The job *)

Running == job.state = "running"

\* begin_kind: refused while one runs.  A new run has not finished at any time.
Begins ==
  /\ ~Running
  /\ job' = [n |-> job.n + 1, state |-> "running", finished |-> 0]

\* A run ends, having deleted rows whichever way it ended.
JobEnds ==
  /\ Running
  /\ ends' = ends + 1
  /\ \E outcome \in {"completed", "failed"} :
       job' = [job EXCEPT !.state = outcome, !.finished = ends + 1]

Begin == job.n < MaxJobs /\ Begins /\ UNCHANGED <<ends, figureVars>>

End == JobEnds /\ UNCHANGED figureVars

-----------------------------------------------------------------------------
(* The figures *)

\* cleaned_since
CleanedSince(figures) == job.finished > figures.at

\* Figures a read begun now will find: no later change is sure to be in them.
FiguresBegunNow == [at |-> ends, ends |-> ends, collections |-> collections]

\* For the history a request remembers what had ended when it was asked, and
\* which run was the last then and when it was answered.
Before == [ends |-> ends, run |-> job]

Got(figures, before) ==
  [is |-> "answered", figures |-> figures, before |-> before, run |-> job.n]

\* serve: the kept figures at once, past their age with a read behind them.
AskKept(q) ==
  /\ asked[q].is = "unasked"
  /\ kept # NoFigures /\ ~CleanedSince(kept)
  /\ asked' = [asked EXCEPT ![q] = Got(kept, Before)]
  /\ \/ UNCHANGED holder
     \/ /\ ~Running /\ holder = NoTask /\ queue = <<>>
        /\ holder' = [is |-> "refresh", figures |-> FiguresBegunNow]
  /\ UNCHANGED <<job, ends, collections, forgets, kept, queue>>

\* Nothing kept, or a cleanup since: the request waits for a read.
AskRead(q) ==
  /\ asked[q].is = "unasked"
  /\ kept = NoFigures \/ CleanedSince(kept)
  /\ asked' = [asked EXCEPT ![q] = [is |-> "waiting", before |-> Before]]
  /\ queue' = Append(queue, [is |-> "read", q |-> q])
  /\ UNCHANGED <<job, ends, collections, forgets, kept, holder>>

Answer(q, figures) ==
  asked' = [asked EXCEPT ![q] = Got(figures, @.before)]

\* The next task has the lock: it shares what the one before it kept, or reads.
Grant ==
  /\ holder = NoTask /\ queue # <<>>
  /\ queue' = Tail(queue)
  /\ LET task == Head(queue) IN
     CASE task.is = "forget" ->
            kept' = NoFigures /\ UNCHANGED <<holder, asked>>
       [] task.is = "read" /\ kept # NoFigures /\ ~CleanedSince(kept) ->
            Answer(task.q, kept) /\ UNCHANGED <<holder, kept>>
       [] OTHER ->
            /\ holder' = [is |-> "read", q |-> task.q, figures |-> FiguresBegunNow]
            /\ UNCHANGED <<kept, asked>>
  /\ UNCHANGED <<job, ends, collections, forgets>>

\* A mutant: the figures are dated when they are kept.
ReadEndsDatedLate ==
  /\ holder # NoTask
  /\ holder' = NoTask
  /\ kept' = [holder.figures EXCEPT !.at = ends]
  /\ IF holder.is = "read" THEN Answer(holder.q, holder.figures) ELSE UNCHANGED asked
  /\ UNCHANGED <<job, ends, collections, forgets, queue>>

\* store, and the lock let go; or the read failed.
ReadEnds ==
  /\ holder # NoTask
  /\ holder' = NoTask
  /\ \/ /\ kept' = holder.figures
        /\ IF holder.is = "read" THEN Answer(holder.q, holder.figures) ELSE UNCHANGED asked
     \/ /\ IF holder.is = "read"
           THEN asked' = [asked EXCEPT ![holder.q] = [is |-> "failed"]] ELSE UNCHANGED asked
        /\ UNCHANGED kept
  /\ UNCHANGED <<job, ends, collections, forgets, queue>>

\* gc_source_maps: the maps are gone, then the figures are dropped.
Collect ==
  /\ collections < MaxCollections
  /\ collections' = collections + 1 /\ forgets' = forgets + 1
  /\ UNCHANGED <<job, ends, kept, holder, queue, asked>>

\* A mutant: dropped at once and not again.
ForgetOnce ==
  /\ forgets > 0
  /\ forgets' = forgets - 1
  /\ kept' = NoFigures
  /\ UNCHANGED <<job, ends, collections, holder, queue, asked>>

\* forget_snapshot: at once, and again behind the read that is running.
Forget ==
  /\ forgets > 0
  /\ forgets' = forgets - 1
  /\ kept' = NoFigures
  /\ queue' = Append(queue, [is |-> "forget"])
  /\ UNCHANGED <<job, ends, collections, holder, asked>>

FiguresNext ==
  \/ Begin \/ End
  \/ \E q \in Asked : AskKept(q) \/ AskRead(q)
  \/ Grant \/ ReadEnds \/ Collect \/ Forget

FiguresSpec == CleanupInit /\ [][FiguresNext]_cleanupVars

-----------------------------------------------------------------------------
(* Properties *)

\* CleanupJob::snapshot "after a cleanup, does a request wait for a read": while
\* no other cleanup begins, no request is answered with figures read before a
\* cleanup that had ended when it asked, whatever reads were in flight then.
FiguresAreCurrent ==
  \A q \in Asked :
    (/\ asked[q].is = "answered"
     /\ asked[q].before.run.state # "running" /\ asked[q].run = asked[q].before.run.n)
      => asked[q].figures.ends >= asked[q].before.ends

\* forget_snapshot "since it began before the change and would store figures
\* from before it": once a collection has dropped the figures and nobody holds
\* or waits for the lock, what is kept was read after it.
KeptIsAfterCollection ==
  (forgets = 0 /\ holder = NoTask /\ queue = <<>> /\ kept # NoFigures)
    => kept.collections = collections
==============================================================================
