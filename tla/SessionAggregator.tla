-------------------------- MODULE SessionAggregator --------------------------
(***************************************************************************)
(* Release health in the Rustrak server: session updates are counted in    *)
(* memory, answered, and written to the database by a flush, every         *)
(* interval and once more when the server stops.                           *)
(*                                                                         *)
(* A counter is kept here as the set of the updates it counts, so that     *)
(* counting one twice can be told from counting two.                       *)
(***************************************************************************)
EXTENDS Integers, FiniteSets

CONSTANTS
  Updates,           \* session items, each of which arrives at most once
  ReleaseOf, UserOf, \* their release and distinct id
  Inits,             \* the updates with init
  Crashes,           \* the updates with a terminal status that is a crash
  Ends,              \* the other updates with a terminal status
  Overflow,          \* OVERFLOW_RELEASE
  Cap,               \* cardinality_cap, for the one project there is
  Nobody,            \* no distinct id; nobody holds the flush lock
  MaxFailures        \* bound: flushes that fail, and kills

Flushers == {"interval", "shutdown"}

ASSUME SessionAssumption ==
  /\ Inits \cup Crashes \cup Ends \subseteq Updates
  /\ Cap \in Nat \ {0} /\ MaxFailures \in Nat
  /\ \A u \in Updates : ReleaseOf[u] # Overflow
  /\ Nobody \notin Flushers

VARIABLES
  state,             \* SessionAggregator.state
  batch,             \* what the running flush has taken out of it
  flushing,          \* who holds the flush lock
  waiting,           \* the flushers that want it
  db,                \* session_counts and session_users
  server,            \* "up", "draining", "flushed", "down"
  failures,
  answered,          \* history: the updates counted and answered
  excused            \* history: what a kill or an unknown commit may have taken

sessionVars == <<state, batch, flushing, waiting, db, server, failures, answered, excused>>

\* counts: what each counter counts; users: the rows of distinct users;
\* crashed: those of them whose flag is set.
Empty == [counts |-> {}, users |-> {}, crashed |-> {}]

Merged(a, b) == [counts  |-> a.counts \cup b.counts,
                 users   |-> a.users \cup b.users,
                 crashed |-> a.crashed \cup b.crashed]

SessionInit ==
  /\ state = Empty /\ batch = Empty /\ db = Empty
  /\ flushing = Nobody /\ waiting = {}
  /\ server = "up"
  /\ failures = 0
  /\ answered = {} /\ excused = {}

-----------------------------------------------------------------------------
(* Ingest *)

Releases(s) == {c.release : c \in s.counts}

\* apply_cardinality_cap
Capped(s, release) ==
  IF release \notin Releases(s) /\ Cardinality(Releases(s)) >= Cap
  THEN Overflow ELSE release

\* What one update adds.  A heartbeat, neither a start nor an end, adds nothing.
Counted(s, u) ==
  LET release == Capped(s, ReleaseOf[u])
      user == IF UserOf[u] = Nobody THEN {} ELSE {[user |-> UserOf[u], release |-> release]}
      counts == IF u \in Inits \cup Crashes \cup Ends
                THEN {[update |-> u, release |-> release]} ELSE {} IN
  [counts  |-> s.counts \cup counts,
   users   |-> s.users \cup (IF u \in Inits \cup Crashes THEN user ELSE {}),
   crashed |-> s.crashed \cup (IF u \in Crashes THEN user ELSE {})]

Ingest(u) ==
  /\ server = "up" /\ u \notin answered
  /\ state' = Counted(state, u)
  /\ answered' = answered \cup {u}
  /\ UNCHANGED <<batch, flushing, waiting, db, server, failures, excused>>

-----------------------------------------------------------------------------
(* Flush *)

FlushTick ==
  /\ server # "down" /\ "interval" \notin waiting /\ flushing # "interval"
  /\ waiting' = waiting \cup {"interval"}
  /\ UNCHANGED <<state, batch, flushing, db, server, failures, answered, excused>>

Ended(f) == IF f = "shutdown" THEN "flushed" ELSE server

\* The lock, then what there is to write; without any, the flush is over.
Take(f) ==
  /\ f \in waiting /\ flushing = Nobody
  /\ waiting' = waiting \ {f}
  /\ batch' = state
  /\ state' = Empty
  /\ flushing' = IF state = Empty THEN Nobody ELSE f
  /\ server' = IF state = Empty /\ f = "shutdown" THEN "flushed" ELSE server
  /\ UNCHANGED <<db, failures, answered, excused>>

Commit(f) ==
  /\ flushing = f
  /\ db' = Merged(db, batch)
  /\ batch' = Empty
  /\ flushing' = Nobody
  /\ server' = Ended(f)
  /\ UNCHANGED <<state, waiting, failures, answered, excused>>

\* Mutant: what has been counted since is replaced.
FlushFailsOver(f) ==
  /\ flushing = f /\ failures < MaxFailures
  /\ state' = batch
  /\ batch' = Empty
  /\ flushing' = Nobody
  /\ server' = Ended(f)
  /\ failures' = failures + 1
  /\ UNCHANGED <<waiting, db, answered, excused>>

\* Anything before the commit fails: the batch goes back under what has been
\* counted since.
FlushFails(f) ==
  /\ flushing = f /\ failures < MaxFailures
  /\ state' = Merged(state, batch)
  /\ batch' = Empty
  /\ flushing' = Nobody
  /\ server' = Ended(f)
  /\ failures' = failures + 1
  /\ UNCHANGED <<waiting, db, answered, excused>>

\* The commit fails, or only its answer: the batch is not counted again.
Unknown(s) == {c.update : c \in s.counts}

\* Mutant: it is.
CommitReplayed(f) ==
  /\ flushing = f /\ failures < MaxFailures
  /\ db' \in {db, Merged(db, batch)}
  /\ state' = Merged(state, batch)
  /\ batch' = Empty
  /\ flushing' = Nobody
  /\ server' = Ended(f)
  /\ failures' = failures + 1
  /\ UNCHANGED <<waiting, answered, excused>>

CommitUnknown(f) ==
  /\ flushing = f /\ failures < MaxFailures
  /\ db' \in {db, Merged(db, batch)}
  /\ excused' = excused \cup Unknown(batch)
  /\ batch' = Empty
  /\ flushing' = Nobody
  /\ server' = Ended(f)
  /\ failures' = failures + 1
  /\ UNCHANGED <<state, waiting, answered>>

-----------------------------------------------------------------------------
(* The end of the process *)

\* SIGTERM: requests are drained, then main flushes.
Stop ==
  /\ server = "up"
  /\ server' = "draining"
  /\ waiting' = waiting \cup {"shutdown"}
  /\ UNCHANGED <<state, batch, flushing, db, failures, answered, excused>>

\* main returns; what a failed last flush put back goes with the process.
Exit ==
  /\ server = "flushed"
  /\ server' = "down"
  /\ state' = Empty /\ batch' = Empty
  /\ waiting' = {} /\ flushing' = Nobody
  /\ UNCHANGED <<db, failures, answered, excused>>

Killed ==
  /\ server # "down" /\ failures < MaxFailures
  /\ server' = "down"
  /\ state' = Empty /\ batch' = Empty
  /\ waiting' = {} /\ flushing' = Nobody
  /\ failures' = failures + 1
  /\ excused' = excused \cup Unknown(state) \cup Unknown(batch)
  /\ UNCHANGED <<db, answered>>

Flush(f) == Take(f) \/ Commit(f) \/ FlushFails(f) \/ CommitUnknown(f)

SessionNext ==
  \/ \E u \in Updates : Ingest(u)
  \/ FlushTick \/ \E f \in Flushers : Flush(f)
  \/ Stop \/ Exit \/ Killed

SessionSpec == SessionInit /\ [][SessionNext]_sessionVars

-----------------------------------------------------------------------------
(* Properties *)

UpdatesIn(s) == {c.update : c \in s.counts}

\* A session is counted once: in memory, in the batch being written or in the
\* database, and for one release, through failed flushes and a commit nobody
\* knows the outcome of (flush: "counters will not be replayed").
CountedOnce ==
  /\ UpdatesIn(state) \cap UpdatesIn(batch) = {}
  /\ UpdatesIn(db) \cap (UpdatesIn(state) \cup UpdatesIn(batch)) = {}
  /\ \A s \in {state, batch, db} : \A c \in s.counts, d \in s.counts :
       c.update = d.update => c = d

\* What was answered is kept: only a kill, a commit of unknown outcome or a
\* last flush that fails may take it, so a stop without a failure leaves all of
\* it in the database (main: "so the runtime cannot exit before it commits").
AnsweredIsKept ==
  \A u \in (answered \cap (Inits \cup Crashes \cup Ends)) \ excused :
    IF server = "down" THEN failures = 0 => u \in UpdatesIn(db)
    ELSE \E s \in {state, batch, db} : u \in UpdatesIn(s)
=============================================================================
