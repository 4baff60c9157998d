------------------------------ MODULE MCIngested ------------------------------
(***************************************************************************)
(* Small instances of what becomes of ingested items: check-ins, session   *)
(* updates, events grouped into issues, and an issue mirrored to GitHub.   *)
(* They share no state, so one run takes them one at a time: `part` says   *)
(* which, and the others stay where they begin.                            *)
(***************************************************************************)
EXTENDS MonitorCheckIns, SessionAggregator, IssueLifecycle, GitHubMirror, TLC

CONSTANTS a, b, p, e1, e2, e3, r1, r2, i0, i1, i2, i3, g1, g2, o1, o2, s1, s2

VARIABLE part

\* The first run starts, goes on and ends; the second only tells that it failed.
MCRuns == {a, b}
MCRequests == {"a starts", "a beats", "a ends", "b fails"}
MCRunOf == [q \in MCRequests |-> IF q = "b fails" THEN b ELSE a]
MCStatusOf == [q \in MCRequests |-> CASE q = "a ends" -> {"ok", "error"}
                                       [] q = "b fails" -> {"error"}
                                       [] OTHER -> {"in_progress"}]
MCWithConfig == {"a starts", "b fails"}

\* One user's session starts and crashes, and a second one of that user starts
\* in the same release; another release has one that only ends.
MCUpdates == {"start", "beat", "crash", "again", "other"}
MCReleaseOf == [u \in MCUpdates |-> IF u = "other" THEN "2.0" ELSE "1.0"]
MCUserOf == [u \in MCUpdates |-> IF u = "other" THEN Nobody ELSE p]

\* Two events of one key that an older server grouped under i0, and one of a
\* new key.
KeyOfEvents == e1 :> "new" @@ e2 :> "new" @@ e3 :> "other"
LegacyOfEvents == e1 :> "old" @@ e2 :> "old" @@ e3 :> "other"
VersionOfEvents == e1 :> r1 @@ e2 :> r2 @@ e3 :> NoVersion

ingestedVars == <<part, monitorVars, sessionVars, issueVars, mirrorVars>>

IngestedInit ==
  /\ part \in {"monitors", "sessions", "issues", "mirror"}
  /\ MonitorInit /\ SessionInit /\ IssueInit /\ MirrorInit
  /\ part # "mirror" => Links # {}

IngestedNext ==
  \/ part = "monitors" /\ MonitorNext /\ UNCHANGED <<part, sessionVars, issueVars, mirrorVars>>
  \/ part = "sessions" /\ SessionNext /\ UNCHANGED <<part, monitorVars, issueVars, mirrorVars>>
  \/ part = "issues" /\ IssueNext /\ UNCHANGED <<part, monitorVars, sessionVars, mirrorVars>>
  \/ part = "mirror" /\ MirrorNext /\ UNCHANGED <<part, monitorVars, sessionVars, issueVars>>

\* The fairness of MonitorCheckIns; the others need none.
Ingested ==
  /\ IngestedInit /\ [][IngestedNext]_ingestedVars
  /\ WF_ingestedVars(/\ part = "monitors" /\ SweepStep
                     /\ UNCHANGED <<part, sessionVars, issueVars, mirrorVars>>)
  /\ WF_ingestedVars(/\ part = "monitors" /\ Minute
                     /\ UNCHANGED <<part, sessionVars, issueVars, mirrorVars>>)
==============================================================================
