---------------------------- MODULE MCSourceFiles ----------------------------
(* A small instance of SourceFiles. *)
EXTENDS SourceFiles

CONSTANTS n1, n2, c1, c2

MCOne == [bundle |-> <<[name |-> n1, content |-> c1]>>]
MCOneJob == {"bundle"}
=============================================================================
