--------------------------- MODULE AcceptedEvents ---------------------------
(***************************************************************************)
(* What the error pipeline promises about an event, with nothing said of   *)
(* how: an event the server has taken is held until it is stored or the    *)
(* server itself drops it, and an acknowledged event is never simply gone. *)
(* DigestPipeline is shown to implement this module.                       *)
(***************************************************************************)
CONSTANT Events          \* the events clients send, by event id

VARIABLES
  status,                \* where each event is
  acked                  \* the events some client was answered 200 for

vars == <<status, acked>>

\* none: unknown to the server; held: its pending file is the durable copy;
\* stored: its row is in the database; dropped: refused after acceptance
\* (quota full, payload invalid, project deleted).
Status == {"none", "held", "stored", "dropped"}

TypeOK ==
  /\ status \in [Events -> Status]
  /\ acked \subseteq Events

Init ==
  /\ status = [e \in Events |-> "none"]
  /\ acked = {}

\* A dropped event may be sent again.
Take(e) ==
  /\ status[e] \in {"none", "dropped"}
  /\ status' = [status EXCEPT ![e] = "held"]
  /\ UNCHANGED acked

Ack(e) ==
  /\ status[e] # "none"
  /\ acked' = acked \cup {e}
  /\ UNCHANGED status

\* Two digests of one event may disagree: the one that stores it wins.
Store(e) ==
  /\ status[e] \in {"held", "dropped"}
  /\ status' = [status EXCEPT ![e] = "stored"]
  /\ UNCHANGED acked

Drop(e) ==
  /\ status[e] = "held"
  /\ status' = [status EXCEPT ![e] = "dropped"]
  /\ UNCHANGED acked

Next == \E e \in Events : Take(e) \/ Ack(e) \/ Store(e) \/ Drop(e)

\* An event that is held does not stay held.
Settle(e) == Store(e) \/ Drop(e)

Fairness == \A e \in Events : WF_vars(Settle(e))

Spec == Init /\ [][Next]_vars

-----------------------------------------------------------------------------
\* A power loss may take back the commits no checkpoint has made durable, and
\* bring back files whose removal had not reached the disk.  Every event it
\* touches is one the server holds again.
PowerLoss ==
  /\ \E back \in SUBSET {e \in Events : status[e] \in {"stored", "dropped"}} :
        status' = [e \in Events |-> IF e \in back THEN "held" ELSE status[e]]
  /\ UNCHANGED acked

PowerSpec == Init /\ [][Next \/ PowerLoss]_vars /\ Fairness

==============================================================================
