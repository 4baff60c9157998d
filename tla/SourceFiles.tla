----------------------------- MODULE SourceFiles -----------------------------
(***************************************************************************)
(* The content-addressed store of source maps and debug files: the files   *)
(* of services/sourcemap_store.rs, the rows of `source_file` (one per       *)
(* content) and of `source_file_metadata` (which content a debug ID and     *)
(* file type resolve to), the assembly worker that writes all three, and    *)
(* the collection of what nothing refers to (services/storage.rs).          *)
(*                                                                          *)
(* The worker assembles one job at a time. It puts each file in the store   *)
(* before it writes the file's rows, in one transaction for the whole job;  *)
(* the transaction takes SQLite's write lock with its first statement.      *)
(* A collection deletes a row in one statement and unlinks the file after.  *)
(* It is run by the clean-up and by a request, so two may overlap, and a    *)
(* request's is dropped with its handler. A content stands for its file's   *)
(* name and its row's checksum; a name for a project's debug ID and type.   *)
(***************************************************************************)
EXTENDS Naturals, Sequences, FiniteSets, SequencesExt

CONSTANTS
    Names,          \* what files are looked up by
    Contents,       \* what files hold
    Jobs,           \* assemblies
    Files,          \* the names and contents of each, in order
    Collectors,     \* collections that may overlap
    Requested,      \* those of them that run inside a request
    MayCrash,       \* the server is killed and started again
    MaxFails,       \* bound: failures of the database and the disk, hang-ups, kills
    None

ASSUME SourceFilesAssumption ==
    /\ Files \in [Jobs -> Seq([name : Names, content : Contents])]
    /\ \A j \in Jobs : Files[j] # <<>>
    /\ Requested \subseteq Collectors
    /\ MayCrash \in BOOLEAN /\ MaxFails \in Nat
    /\ None \notin Contents \cup Jobs

VARIABLES
    files,          \* the contents that are on disk
    rows,           \* the contents that have a row of source_file
    resolves,       \* the content a name resolves to
    open,           \* the jobs that were taken and have not committed
    worker,         \* the assembly worker: its job, its place in it
    locked,         \* the worker's transaction holds the write lock
    gc,             \* the collections: what they have still to look at
    fails           \* counter

filesVars == <<files, rows, resolves, open, worker, locked, gc, fails>>

Resting == [job |-> None, pc |-> "resting", i |-> 0]
Stopped == [pc |-> "stopped", todo |-> {}, content |-> None]

FilesInit ==
    /\ files = {} /\ rows = {}
    /\ resolves = [n \in Names |-> None]
    /\ open = {} /\ worker = Resting /\ locked = FALSE
    /\ gc = [g \in Collectors |-> Stopped]
    /\ fails = 0

Fails == fails < MaxFails /\ fails' = fails + 1

---------------------------------------------------------------------------
(* The assembly worker *)

File == Files[worker.job][worker.i]

WorkerTo(pc) == worker' = [worker EXCEPT !.pc = pc]

\* A job is taken, again after a failure too.
Take(j) ==
    /\ worker.pc = "resting"
    /\ worker' = [job |-> j, pc |-> "look", i |-> 1]
    /\ open' = open \cup {j}
    /\ UNCHANGED <<files, rows, resolves, locked, gc, fails>>

\* put: a file that is there is left alone.
Look ==
    /\ worker.pc = "look"
    /\ WorkerTo(IF File.content \in files THEN "insert" ELSE "write")
    /\ UNCHANGED <<open, files, rows, resolves, locked, gc, fails>>

\* ... and any other is written aside and renamed to its place.
Write ==
    /\ worker.pc = "write"
    /\ files' = files \cup {File.content}
    /\ WorkerTo("insert")
    /\ UNCHANGED <<open, rows, resolves, locked, gc, fails>>

\* The statements for one file; they show to others when the job commits.
Insert ==
    /\ worker.pc = "insert"
    /\ locked' = TRUE
    /\ worker' = IF worker.i < Len(Files[worker.job])
                 THEN [worker EXCEPT !.pc = "look", !.i = @ + 1]
                 ELSE [worker EXCEPT !.pc = "commit"]
    /\ UNCHANGED <<open, files, rows, resolves, gc, fails>>

\* The job's last file of a name.
LastOf(i, n) ==
    LET of == Files[worker.job] IN
    of[i].name = n /\ \A k \in DOMAIN of : of[k].name = n => k <= i

\* The rows of the job's contents, and what its names resolve to from now on:
\* the last one written for a name.
Commit ==
    /\ worker.pc = "commit"
    /\ rows' = rows \cup {f.content : f \in ToSet(Files[worker.job])}
    /\ resolves' = [n \in Names |->
         IF \E i \in DOMAIN Files[worker.job] : LastOf(i, n)
         THEN Files[worker.job][CHOOSE i \in DOMAIN Files[worker.job] : LastOf(i, n)].content
         ELSE resolves[n]]
    /\ worker' = Resting /\ locked' = FALSE
    /\ open' = open \ {worker.job}
    /\ UNCHANGED <<files, gc, fails>>

\* The store or the database fails the job: its transaction is rolled back,
\* its files stay where they are.
JobFails ==
    /\ worker.pc # "resting"
    /\ Fails
    /\ worker' = Resting /\ locked' = FALSE
    /\ UNCHANGED <<open, files, rows, resolves, gc>>

---------------------------------------------------------------------------
(* What else changes the metadata *)

\* alias_proguard_mapping: one more name for a content.
Alias(from, to) ==
    /\ ~locked
    /\ resolves[from] # None
    /\ resolves' = [resolves EXCEPT ![to] = resolves[from]]
    /\ UNCHANGED <<open, files, rows, worker, locked, gc, fails>>

\* The name's project is deleted, and the metadata with it.
Forget(n) ==
    /\ ~locked
    /\ resolves[n] # None
    /\ resolves' = [resolves EXCEPT ![n] = None]
    /\ UNCHANGED <<open, files, rows, worker, locked, gc, fails>>

---------------------------------------------------------------------------
(* Collections *)

Referred(c) == \E n \in Names : resolves[n] = c

\* gc_source_maps reads the rows that no name refers to.
Snapshot(g) ==
    /\ gc[g].pc = "stopped"
    /\ gc' = [gc EXCEPT ![g] = [pc |-> "delete", todo |-> {c \in rows : ~Referred(c)},
                                content |-> None]]
    /\ UNCHANGED <<open, files, rows, resolves, worker, locked, fails>>

\* Mutant of Orphaned: the row is still there.
OrphanedOnce(c) == c \in rows

\* The condition of the DELETE: the row is still there, and still unreferred.
Orphaned(c) == c \in rows /\ ~Referred(c)

\* One row of the snapshot; deleting a row deletes the metadata that refer to it.
DeleteRow(g) ==
    /\ gc[g].pc = "delete" /\ ~locked
    /\ \E c \in gc[g].todo :
        /\ gc' = [gc EXCEPT ![g] =
                    [pc |-> IF Orphaned(c) THEN "unlink" ELSE "delete",
                     todo |-> gc[g].todo \ {c}, content |-> c]]
        /\ rows' = IF Orphaned(c) THEN rows \ {c} ELSE rows
        /\ resolves' = [n \in Names |-> IF Orphaned(c) /\ resolves[n] = c THEN None
                                        ELSE resolves[n]]
    /\ UNCHANGED <<open, files, worker, locked, fails>>

\* Mutant of Unlink: the file stays.
UnlinkNothing(g) ==
    /\ gc[g].pc = "unlink"
    /\ gc' = [gc EXCEPT ![g].pc = "delete"]
    /\ UNCHANGED <<open, files, rows, resolves, worker, locked, fails>>

\* The file of the deleted row is removed; a failure is ignored.
Unlink(g) ==
    /\ gc[g].pc = "unlink"
    /\ gc' = [gc EXCEPT ![g].pc = "delete"]
    /\ \/ files' = files \ {gc[g].content} /\ UNCHANGED fails
       \/ Fails /\ UNCHANGED files
    /\ UNCHANGED <<open, rows, resolves, worker, locked>>

CollectionEnds(g) ==
    /\ gc[g].pc = "delete" /\ gc[g].todo = {}
    /\ gc' = [gc EXCEPT ![g] = Stopped]
    /\ UNCHANGED <<open, files, rows, resolves, worker, locked, fails>>

\* The database fails the collection, or its client goes away and its handler
\* is dropped where it awaits.
CollectionFails(g) ==
    /\ gc[g].pc = "delete" \/ (gc[g].pc = "unlink" /\ g \in Requested)
    /\ Fails
    /\ gc' = [gc EXCEPT ![g] = Stopped]
    /\ UNCHANGED <<open, files, rows, resolves, worker, locked>>

Crash ==
    /\ MayCrash /\ Fails
    /\ worker' = Resting /\ locked' = FALSE
    /\ gc' = [g \in Collectors |-> Stopped]
    /\ UNCHANGED <<open, files, rows, resolves>>

Collect(g) ==
    Snapshot(g) \/ DeleteRow(g) \/ Unlink(g) \/ CollectionEnds(g) \/ CollectionFails(g)

FilesNext ==
    \/ \E j \in Jobs : Take(j)
    \/ Look \/ Write \/ Insert \/ Commit \/ JobFails
    \/ \E from, to \in Names : Alias(from, to)
    \/ \E n \in Names : Forget(n)
    \/ \E g \in Collectors : Collect(g)
    \/ Crash

FilesSpec == FilesInit /\ [][FilesNext]_filesVars

---------------------------------------------------------------------------
\* Every variable has its type, the worker's place in its job included.
FilesTypeOK ==
    /\ files \subseteq Contents /\ rows \subseteq Contents
    /\ resolves \in [Names -> Contents \cup {None}]
    /\ \/ worker = Resting
       \/ /\ worker \in [job : Jobs, pc : {"look", "write", "insert", "commit"}, i : Nat]
          /\ worker.i \in 1 .. Len(Files[worker.job])
    /\ gc \in [Collectors -> [pc : {"stopped", "delete", "unlink"},
                              todo : SUBSET Contents, content : Contents \cup {None}]]
    /\ fails \in 0 .. MaxFails
    /\ locked \in BOOLEAN
    /\ open \subseteq Jobs
    /\ locked => worker.pc # "resting"

\* A file is still on its way: a job that put it will be taken again and refer
\* to it, or a collection is about to remove it.
OnItsWay(c) ==
    \/ \E j \in open : c \in {f.content : f \in ToSet(Files[j])}
    \/ \E g \in Collectors : gc[g].pc = "unlink" /\ gc[g].content = c

\* storage.rs 723-727: a collection takes no name away from its file, although
\* its list of orphans is as old as its first query.
CollectionsKeepNames ==
    [][\A n \in Names : resolves[n] # None /\ resolves'[n] = None => gc' = gc]_filesVars

\* storage.rs 723-745: no file is left that no row names and nobody will come
\* back for, unless something failed between a row and its file: a crash or a
\* failing unlink leaves one, and a later collection goes by the rows.
NoStrayFile ==
    fails = 0 => \A c \in files : c \in rows \/ OnItsWay(c)

\* storage.rs 723-727: "so we never unlink a file that's back in use". What a
\* name resolves to is on disk.
FileOfEveryName == \A n \in Names : resolves[n] # None => resolves[n] \in files
=============================================================================
