------------------------------- MODULE ApiCall -------------------------------
(***************************************************************************)
(* What a call of the dashboard's API client promises its caller, with     *)
(* nothing said of attempts: what became of it at the server, and what the *)
(* caller is told.  ApiClient is shown to implement this module.           *)
(***************************************************************************)
EXTENDS Integers

CONSTANTS Safe          \* methods that are safe to send twice

VARIABLES
  asked,                \* the method of the call
  effects,              \* what the server has done of it: 0, 1, or 2 for more
  told                  \* what the caller was told

callVars == <<asked, effects, told>>

\* ok: carried out; unusable: carried out, with an answer that cannot be read;
\* refused: a 4xx; failed: a 5xx or 408; unreachable, timeout: no answer;
\* aborted: the caller gave up.
Answers == {"ok", "unusable", "refused", "failed", "unreachable", "timeout", "aborted"}

CallInit == effects = 0 /\ told = "nothing"

\* It may be carried out at any time, after the caller was told of a timeout or
\* a dropped connection too; once, and not after an answer, unless it is safe.
TakeEffect ==
  /\ asked \in Safe \/ (effects = 0 /\ told \notin {"ok", "unusable", "refused"})
  /\ effects' = IF effects = 0 THEN 1 ELSE 2
  /\ UNCHANGED <<asked, told>>

\* A caller is told once.  What it is told was done was done, and an unsafe
\* call it is told was refused was not.
Tell(answer) ==
  /\ told = "nothing"
  /\ answer \in {"ok", "unusable"} => effects > 0
  /\ answer = "refused" /\ asked \notin Safe => effects = 0
  /\ told' = answer
  /\ UNCHANGED <<asked, effects>>

CallNext == TakeEffect \/ \E answer \in Answers : Tell(answer)

CallSpec == CallInit /\ [][CallNext]_callVars
==============================================================================
