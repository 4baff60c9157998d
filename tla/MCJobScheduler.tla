--------------------------- MODULE MCJobScheduler ---------------------------
(* A small instance of JobScheduler. *)
EXTENDS JobScheduler

\* Every minute (the shortest schedule), every other minute, and disabled.
MCSlots == [often |-> 1 .. 6, rarely |-> {2, 4, 6}, off |-> {}]
MCSettings == {"often", "rarely", "off"}
=============================================================================
