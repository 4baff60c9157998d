------------------------------ MODULE ApiClient ------------------------------
(***************************************************************************)
(* The dashboard's HTTP client (@rustrak/client): one call, its attempts,  *)
(* and the server and the network between them.  An attempt the client has *)
(* given up may still reach the server.                                    *)
(***************************************************************************)
EXTENDS Integers

CONSTANTS
  Methods,           \* HTTP methods
  Retried,           \* RETRY_METHODS
  MaxRetries         \* ClientConfig.maxRetries (2)

ASSUME ClientAssumption == Retried \subseteq Methods /\ MaxRetries \in Nat

VARIABLES
  method,            \* request.method
  attempt,           \* what became of each attempt at the server
  n,                 \* the attempt createFetch is at
  phase,             \* what createFetch is doing
  signal,            \* whether the caller has aborted
  effects,           \* how often the server has carried the call out
  outcome            \* what the caller was told

clientVars == <<method, attempt, n, phase, signal, effects, outcome>>

Attempts == 0..MaxRetries
Ends == {"ok", "unusable", "refused", "failed", "unreachable", "timeout", "aborted"}

ClientInit ==
  /\ method \in Methods
  /\ attempt = [k \in Attempts |-> "unsent"]
  /\ n = 0
  /\ phase = "ready"
  /\ signal = FALSE
  /\ effects = 0
  /\ outcome = "nothing"

-----------------------------------------------------------------------------
(* The server and what lies before it *)

\* The handler runs: it does what is asked, or answers a 4xx.  What has been
\* deleted is not there to be deleted again.
Carry(k) ==
  /\ attempt[k] = "sent"
  /\ ~(method = "DELETE" /\ effects > 0)
  /\ attempt' = [attempt EXCEPT ![k] = "done"]
  /\ effects' = effects + 1
  /\ UNCHANGED <<method, n, phase, signal, outcome>>

Refuse(k) ==
  /\ attempt[k] = "sent"
  /\ effects = 0 \/ method = "DELETE"
  /\ attempt' = [attempt EXCEPT ![k] = "refused"]
  /\ UNCHANGED <<method, n, phase, signal, effects, outcome>>

\* A 5xx or a 408: from a proxy, or from a handler that had done its work.
Break(k) ==
  /\ attempt[k] \in {"sent", "done"}
  /\ attempt' = [attempt EXCEPT ![k] = "failed"]
  /\ UNCHANGED <<method, n, phase, signal, effects, outcome>>

-----------------------------------------------------------------------------
(* createFetch and attempt *)

Send ==
  /\ phase = "ready" /\ ~signal
  /\ attempt' = [attempt EXCEPT ![n] = "sent"]
  /\ phase' = "waiting"
  /\ UNCHANGED <<method, n, signal, effects, outcome>>

Retries == IF method \in Retried THEN MaxRetries ELSE 0

\* A mutant: whatever the method.
RepeatsAnything(end) == n < MaxRetries /\ end \in {"failed", "unreachable"}

\* A retryable status, or no connection; never a timeout: "the server may still
\* be working on it".
Repeats(end) == n < Retries /\ end \in {"failed", "unreachable"}

Close(end) ==
  /\ phase' = "done"
  /\ outcome' = end
  /\ UNCHANGED n

Conclude(end) ==
  /\ IF Repeats(end)
     THEN phase' = "sleeping" /\ UNCHANGED <<n, outcome>>
     ELSE Close(end)
  /\ UNCHANGED <<method, attempt, signal, effects>>

\* The answer with its body; toResult finds a body it cannot read unusable.
Receive ==
  /\ phase = "waiting"
  /\ \/ attempt[n] = "done" /\ \E end \in {"ok", "unusable"} : Conclude(end)
     \/ attempt[n] = "refused" /\ Conclude("refused")
     \/ attempt[n] = "failed" /\ Conclude("failed")

\* A connection that dies, at any moment, and the 30 seconds that pass.
Drop == phase = "waiting" /\ Conclude("unreachable")

TimeOut == phase = "waiting" /\ Conclude("timeout")

\* sleep is not interrupted: the next attempt finds the aborted signal.
Wake ==
  /\ phase = "sleeping"
  /\ phase' = "ready"
  /\ n' = n + 1
  /\ UNCHANGED <<method, attempt, signal, effects, outcome>>

Abort ==
  /\ phase # "done" /\ ~signal
  /\ signal' = TRUE
  /\ UNCHANGED <<method, attempt, n, phase, effects, outcome>>

\* "A caller's own AbortSignal aborting is not a transport failure."
Rethrow ==
  /\ signal /\ phase \in {"ready", "waiting"}
  /\ Close("aborted")
  /\ UNCHANGED <<method, attempt, signal, effects>>

ServerStep == \E k \in Attempts : Carry(k) \/ Refuse(k) \/ Break(k)
ClientStep == Send \/ Receive \/ Drop \/ TimeOut \/ Wake \/ Rethrow

ClientNext == ServerStep \/ ClientStep \/ Abort

ClientSpec == ClientInit /\ [][ClientNext]_clientVars

-----------------------------------------------------------------------------
(* Properties *)

\* "A POST that timed out at the proxy may still have created the row, and a
\* second one creates another": whatever fails on the way, a call is carried out
\* once unless it is safe to repeat, and the caller's one answer is true of it.
Call == INSTANCE ApiCall WITH
          Safe <- Retried,
          asked <- method,
          effects <- IF effects > 1 THEN 2 ELSE effects,
          told <- outcome

ImplementsCall == Call!CallSpec
==============================================================================
