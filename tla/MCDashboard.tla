----------------------------- MODULE MCDashboard -----------------------------
(***************************************************************************)
(* Small instances of what the dashboard keeps: a call of its API client,  *)
(* who its reader is, a cleanup it follows, and the figures the server     *)
(* answers its storage page with.  The four share no state here, so one    *)
(* run takes them one at a time: `part` says which.                        *)
(***************************************************************************)
EXTENDS ApiClient, SignedIn, CleanupPage

VARIABLE part

dashboardVars == <<part, clientVars, tabVars, cleanupVars, pageVars>>

DashboardInit ==
  /\ part \in {"call", "reader", "cleanup", "figures"}
  /\ ClientInit /\ TabInit /\ CleanupInit /\ PageInit
  /\ part # "call" => method = "GET"
  /\ part # "reader" => cookie = Nobody

InPage(step) ==
  part = "cleanup" /\ step /\ UNCHANGED <<part, clientVars, tabVars>>

DashboardNext ==
  \/ /\ part = "call" /\ ClientNext
     /\ UNCHANGED <<part, tabVars, cleanupVars, pageVars>>
  \/ /\ part = "reader" /\ TabNext
     /\ UNCHANGED <<part, clientVars, cleanupVars, pageVars>>
  \/ /\ part = "cleanup" /\ PageNext
     /\ UNCHANGED <<part, clientVars, tabVars>>
  \/ /\ part = "figures" /\ FiguresNext
     /\ UNCHANGED <<part, clientVars, tabVars, pageVars>>

\* The fairness of CleanupPage; the others need none.
Dashboard ==
  /\ DashboardInit /\ [][DashboardNext]_dashboardVars
  /\ WF_dashboardVars(InPage(ServerEnds))
  /\ WF_dashboardVars(InPage(Poll))
  /\ WF_dashboardVars(InPage(AnswerPoll))
  /\ WF_dashboardVars(InPage(PollLands))
  /\ WF_dashboardVars(InPage(AnswerStart))
  /\ WF_dashboardVars(InPage(Settle))
  /\ WF_dashboardVars(InPage(Counted))
  /\ WF_dashboardVars(InPage(Follow))
==============================================================================
