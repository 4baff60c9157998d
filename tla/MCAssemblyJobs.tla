---------------------------- MODULE MCAssemblyJobs ----------------------------
(* A small instance of AssemblyJobs for TLC. *)
EXTENDS AssemblyJobs

CONSTANTS j1, j2, x1, x2, c1, c2, c3, d1

TwoJobs == {j1, j2}
TwoChunks == {x1, x2}
ThreeClients == {c1, c2, c3}
OnlyC2 == {c2}

\* The second file is made of both chunks, the first of one of them.
Nested == [j \in TwoJobs |-> IF j = j1 THEN {x1} ELSE {x1, x2}]
\* Both files carry the same debug ID.
SameDebugId == [j \in TwoJobs |-> d1]

\* Two clients of the first job, one of them wrong about the chunks it is made
\* of, and one of the second.
TwiceJobOf == [c \in ThreeClients |-> IF c = c3 THEN j2 ELSE j1]
MistakenListOf == [c \in ThreeClients |-> IF c = c1 THEN {x1} ELSE {x1, x2}]
=============================================================================
