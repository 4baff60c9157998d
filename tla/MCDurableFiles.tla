---------------------------- MODULE MCDurableFiles ----------------------------
(***************************************************************************)
(* Small instances of the two stores the server keeps in the file system:  *)
(* the records of pending events and the source files.  They share nothing *)
(* and one run takes them in turn: `store` says which, and the other stays *)
(* as it begins.                                                           *)
(***************************************************************************)
EXTENDS PendingStore, SourceFiles, TLC

CONSTANTS w1, w2, w3, n1, n2, c1, c2

VARIABLE store

ThreeWriters == {w1, w2, w3}
EitherFound == {Missing, Malformed}
Interchangeable == Permutations(ThreeWriters)

\* A bundle of two files, and another that uploads the same bytes the other way
\* round.
MCFiles == [bundle |-> <<[name |-> n1, content |-> c1], [name |-> n2, content |-> c2]>>,
            again |-> <<[name |-> n2, content |-> c1], [name |-> n1, content |-> c2]>>]
MCJobs == {"bundle", "again"}

StoresInit == store \in {"pending", "sources"} /\ Init /\ FilesInit

StoresNext ==
  \/ store = "pending" /\ Next /\ UNCHANGED <<store, filesVars>>
  \/ store = "sources" /\ FilesNext /\ UNCHANGED <<store, vars>>

Stores == StoresInit /\ [][StoresNext]_<<store, vars, filesVars>>
=============================================================================
