--------------------------- MODULE DashboardProofs ---------------------------
(***************************************************************************)
(* Proofs about what the dashboard keeps, one component after the other, as*)
(* MCDashboard runs them: the API client implements ApiCall; a memoised    *)
(* reader was asked for since the session was last dropped, and the query  *)
(* cache holds one reader's answers; the figures the server answers the    *)
(* storage page with are current, and what the page announces is of the run*)
(* it saw or a later one.                                                  *)
(***************************************************************************)
EXTENDS ApiClient, SignedIn, CleanupPage, TLAPS

-----------------------------------------------------------------------------
(* The API client, for any methods and any number of retries *)

ClientTypeOK ==
  /\ method \in Methods
  /\ attempt \in [Attempts -> {"unsent", "sent", "done", "refused", "failed"}]
  /\ n \in Attempts
  /\ phase \in {"ready", "waiting", "sleeping", "done"}
  /\ signal \in BOOLEAN
  /\ effects \in Nat
  /\ outcome \in Ends \cup {"nothing"}

\* What has not been sent yet: the attempts after the client's own, and its own
\* until it sends it.
Unsent == \A k \in Attempts :
            k > n \/ (k = n /\ phase = "ready") => attempt[k] = "unsent"

\* The caller is told when the client is done, and never of more than happened.
ToldAtTheEnd ==
  /\ phase = "done" <=> outcome # "nothing"
  /\ phase = "sleeping" => n < Retries
  /\ outcome \in {"ok", "unusable"} => effects > 0
  /\ \A k \in Attempts : attempt[k] = "done" => effects > 0

\* An unsafe call has one attempt, which is carried out once, before it is
\* answered.
OneAttempt ==
  method \notin Retried =>
    /\ n = 0
    /\ attempt[0] \in {"unsent", "sent", "refused"} => effects = 0
    /\ outcome \in {"ok", "unusable", "refused"} => attempt[0] # "sent"
    /\ outcome = "refused" => effects = 0

ClientInv == ClientTypeOK /\ Unsent /\ ToldAtTheEnd /\ OneAttempt

\* What every step of the proofs uses of the constants.
LEMMA ZeroIsAnAttempt == 0 \in Attempts /\ Attempts \subseteq Nat /\ Retries \in Attempts
  BY ClientAssumption DEF Attempts, Retries

LEMMA ClientInvInit == ClientInit => ClientInv
  BY ZeroIsAnAttempt
  DEF ClientInit, ClientInv, ClientTypeOK, Unsent, ToldAtTheEnd, OneAttempt, Ends

\* Whatever the attempt ended in, the client sleeps before the next one or closes
\* the call, and the caller learns nothing that is not so.
LEMMA ConcludeStep ==
  ASSUME ClientInv, phase = "waiting", NEW end \in Ends, Conclude(end),
         end \in {"ok", "unusable"} => attempt[n] = "done",
         end = "refused" => attempt[n] = "refused"
  PROVE  ClientInv'
<1> USE ZeroIsAnAttempt DEF ClientInv, ClientTypeOK, Conclude
<1>1. CASE Repeats(end)
  BY <1>1 DEF Repeats, Unsent, ToldAtTheEnd, OneAttempt, Retries
<1>2. CASE ~Repeats(end)
  BY <1>2 DEF Close, Unsent, ToldAtTheEnd, OneAttempt, Ends
<1> QED
  BY <1>1, <1>2

LEMMA ClientInvStep == ClientInv /\ [ClientNext]_clientVars => ClientInv'
<1> SUFFICES ASSUME ClientInv, [ClientNext]_clientVars PROVE ClientInv'
  OBVIOUS
<1> USE ZeroIsAnAttempt DEF ClientInv, ClientTypeOK
<1>1. ASSUME NEW k \in Attempts, Carry(k)
      PROVE  ClientInv'
  <2>1. ClientTypeOK'
    BY <1>1 DEF Carry, Ends
  <2>2. Unsent'
    BY <1>1 DEF Carry, Unsent
  <2>3. ToldAtTheEnd'
    BY <1>1 DEF Carry, ToldAtTheEnd, Retries
  <2>4. OneAttempt'
    BY <1>1 DEF Carry, OneAttempt, Unsent, ToldAtTheEnd, Retries
  <2> QED
    BY <2>1, <2>2, <2>3, <2>4
<1>2. ASSUME NEW k \in Attempts, Refuse(k)
      PROVE  ClientInv'
  <2>1. ClientTypeOK'
    BY <1>2 DEF Refuse, Ends
  <2>2. Unsent'
    BY <1>2 DEF Refuse, Unsent
  <2>3. ToldAtTheEnd'
    BY <1>2 DEF Refuse, ToldAtTheEnd, Retries
  <2>4. OneAttempt'
    BY <1>2 DEF Refuse, OneAttempt, Unsent, ToldAtTheEnd, Retries
  <2> QED
    BY <2>1, <2>2, <2>3, <2>4
<1>3. ASSUME NEW k \in Attempts, Break(k)
      PROVE  ClientInv'
  <2>1. ClientTypeOK'
    BY <1>3 DEF Break, Ends
  <2>2. Unsent'
    BY <1>3 DEF Break, Unsent
  <2>3. ToldAtTheEnd'
    BY <1>3 DEF Break, ToldAtTheEnd, Retries
  <2>4. OneAttempt'
    BY <1>3 DEF Break, OneAttempt, Unsent, ToldAtTheEnd, Retries
  <2> QED
    BY <2>1, <2>2, <2>3, <2>4
<1>4. CASE Send
  BY <1>4 DEF Send, Unsent, ToldAtTheEnd, OneAttempt
<1>5. CASE Receive
  BY <1>5, ConcludeStep DEF Receive, Ends
<1>6. CASE Drop
  BY <1>6, ConcludeStep DEF Drop, Ends
<1>7. CASE TimeOut
  BY <1>7, ConcludeStep DEF TimeOut, Ends
<1>8. CASE Wake
  BY <1>8 DEF Wake, Unsent, ToldAtTheEnd, OneAttempt, Attempts, Retries
<1>9. CASE Rethrow
  <2>1. ClientTypeOK'
    BY <1>9 DEF Rethrow, Close, Ends
  <2>2. Unsent'
    BY <1>9 DEF Rethrow, Close, Unsent
  <2>3. ToldAtTheEnd'
    BY <1>9 DEF Rethrow, Close, ToldAtTheEnd, Retries
  <2>4. OneAttempt'
    BY <1>9 DEF Rethrow, Close, OneAttempt, Unsent, ToldAtTheEnd, Retries
  <2> QED
    BY <2>1, <2>2, <2>3, <2>4
<1>10. CASE Abort
  <2>1. ClientTypeOK'
    BY <1>10 DEF Abort, Ends
  <2>2. Unsent'
    BY <1>10 DEF Abort, Unsent
  <2>3. ToldAtTheEnd'
    BY <1>10 DEF Abort, ToldAtTheEnd, Retries
  <2>4. OneAttempt'
    BY <1>10 DEF Abort, OneAttempt, Unsent, ToldAtTheEnd, Retries
  <2> QED
    BY <2>1, <2>2, <2>3, <2>4
<1>11. CASE UNCHANGED clientVars
  BY <1>11 DEF clientVars, Unsent, ToldAtTheEnd, OneAttempt, Retries
<1> QED
  BY <1>1, <1>2, <1>3, <1>4, <1>5, <1>6, <1>7, <1>8, <1>9, <1>10, <1>11
  DEF ClientNext, ServerStep, ClientStep

\* The type of the client's state, for any number of retries.
THEOREM ClientTypeCorrect == ClientSpec => []ClientTypeOK
<1>1. ClientInv => ClientTypeOK
  BY DEF ClientInv
<1> QED
  BY <1>1, ClientInvInit, ClientInvStep, PTL DEF ClientSpec

-----------------------------------------------------------------------------
(* The refinement *)

\* A step that leaves the effects of a call and says what it came to is a Tell.
LEMMA TellingIsTell ==
  ASSUME NEW end \in Ends, outcome = "nothing", outcome' = end,
         UNCHANGED <<method, effects>>, effects \in Nat,
         end \in {"ok", "unusable"} => effects > 0,
         end = "refused" /\ method \notin Retried => effects = 0
  PROVE  Call!CallNext
<1>1. end \in Call!Answers
  BY DEF Ends, Call!Answers
<1>2. Call!Tell(end)
  BY DEF Call!Tell
<1> QED
  BY <1>1, <1>2 DEF Call!CallNext

LEMMA ConcludeIsTell ==
  ASSUME ClientInv, phase = "waiting", NEW end \in Ends, Conclude(end),
         end \in {"ok", "unusable"} => attempt[n] = "done",
         end = "refused" => attempt[n] = "refused"
  PROVE  [Call!CallNext]_(Call!callVars)
<1> USE ZeroIsAnAttempt DEF ClientInv, ClientTypeOK, Conclude
<1>1. CASE Repeats(end)
  BY <1>1 DEF Call!callVars
<1>2. CASE ~Repeats(end)
  <2>1. /\ outcome = "nothing" /\ outcome' = end
        /\ UNCHANGED <<method, effects>>
    BY <1>2 DEF Close, ToldAtTheEnd
  <2>2. end \in {"ok", "unusable"} => effects > 0
    BY DEF ToldAtTheEnd
  <2>3. end = "refused" /\ method \notin Retried => effects = 0
    BY DEF OneAttempt
  <2> QED
    BY <2>1, <2>2, <2>3, TellingIsTell
<1> QED
  BY <1>1, <1>2

\* Only Carry changes what was done: for an unsafe call it is the one attempt's
\* one effect, and the caller has not been told of it.
LEMMA CarryIsTakeEffect ==
  ASSUME ClientInv, NEW k \in Attempts, Carry(k)
  PROVE  Call!CallNext
<1> USE ZeroIsAnAttempt DEF ClientInv, ClientTypeOK
<1>1. method \in Retried \/ (effects = 0 /\ outcome \notin {"ok", "unusable", "refused"})
  BY DEF Carry, OneAttempt, Unsent
<1>2. Call!TakeEffect
  BY <1>1 DEF Carry, Call!TakeEffect
<1> QED
  BY <1>2 DEF Call!CallNext

LEMMA ClientStepRefines ==
  ClientInv /\ [ClientNext]_clientVars => [Call!CallNext]_(Call!callVars)
<1> SUFFICES ASSUME ClientInv, [ClientNext]_clientVars
             PROVE  [Call!CallNext]_(Call!callVars)
  OBVIOUS
<1> USE DEF ClientInv, ClientTypeOK
<1>1. ASSUME NEW k \in Attempts, Carry(k)
      PROVE  Call!CallNext
  BY <1>1, CarryIsTakeEffect
<1>2. ASSUME NEW k \in Attempts, Refuse(k) \/ Break(k)
      PROVE  UNCHANGED Call!callVars
  BY <1>2 DEF Refuse, Break, Call!callVars
<1>3. CASE Send \/ Wake \/ Abort
  BY <1>3 DEF Send, Wake, Abort, Call!callVars
<1>4. CASE Receive
  BY <1>4, ConcludeIsTell DEF Receive, Ends
<1>5. CASE Drop
  BY <1>5, ConcludeIsTell DEF Drop, Ends
<1>6. CASE TimeOut
  BY <1>6, ConcludeIsTell DEF TimeOut, Ends
<1>7. CASE Rethrow
  <2>1. /\ outcome = "nothing" /\ outcome' = "aborted"
        /\ UNCHANGED <<method, effects>>
    BY <1>7 DEF Rethrow, Close, ToldAtTheEnd
  <2> QED
    BY <2>1, TellingIsTell DEF Ends
<1>8. CASE UNCHANGED clientVars
  BY <1>8 DEF clientVars, Call!callVars
<1> QED
  BY <1>1, <1>2, <1>3, <1>4, <1>5, <1>6, <1>7, <1>8
  DEF ClientNext, ServerStep, ClientStep

\* "A POST that timed out at the proxy may still have created the row, and a
\* second one creates another": createFetch carries an unsafe call out at most
\* once and tells its caller once, and truly, whatever is lost on the way.
THEOREM ClientImplementsCall == ClientSpec => ImplementsCall
<1>1. ClientInit => Call!CallInit
  BY DEF ClientInit, Call!CallInit
<1> QED
  BY <1>1, ClientInvInit, ClientInvStep, ClientStepRefines, PTL
  DEF ClientSpec, ImplementsCall, Call!CallSpec

-----------------------------------------------------------------------------
(* The reader, for any accounts, controls and requests *)

Readers == Users \cup {Nobody}
Answerers == Readers \cup {Unknown}

Requests ==
  {Nothing, [is |-> "done"]}
  \cup [is : {"asked"}, since : Nat]
  \cup [is : {"answered"}, who : Answerers, language : Nat, since : Nat]

Memos ==
  {Nothing} \cup {Waiting(r) : r \in Reads}
  \cup [is : {"user"}, who : Readers, language : Nat,
        by : {"read", "sign-in", "write"}, since : Nat]

Fetches ==
  {Nothing} \cup [is : {"asked"}, for : Readers]
  \cup [is : {"answered"}, for : Readers, of : Readers]

Writes ==
  {Nothing} \cup [is : {"asked", "failed"}]
  \cup [is : {"answered"}, who : Users, language : Nat]
  \cup [is : {"reloading"}, language : Nat]

TabTypeOK ==
  /\ cookie \in Readers
  /\ language \in [Users -> Nat]
  /\ read \in [Reads -> Requests]
  /\ memo \in Memos
  /\ settled \in Answerers
  /\ guard \in {Nothing} \cup {Waiting(r) : r \in Reads}
  /\ page \in {"opening", "login", "outage", "inside"}
  /\ fetch \in Fetches
  /\ cache \in SUBSET [for : Readers, of : Users]
  /\ leaving \in [here : BOOLEAN, behind : Nat]
  /\ write \in [Writers -> Writes]
  /\ screen \in Nat
  /\ signIns \in Nat /\ saves \in Nat
  /\ cleared \in Nat

-----------------------------------------------------------------------------
(* Type correctness *)

\* What publish leaves of the page's reads, whoever it publishes.
LEMMA PublishType ==
  ASSUME TabTypeOK, NEW who \in Answerers, Publish(who)
  PROVE  /\ settled' \in Answerers
         /\ fetch' \in Fetches
         /\ cache' \in SUBSET [for : Readers, of : Users]
  BY DEF Publish, TabTypeOK, Fetches

LEMMA ReaderType == ASSUME TabTypeOK PROVE Reader(settled) \in Readers
  BY DEF Reader, Readers

LEMMA AskType ==
  ASSUME TabTypeOK, NEW r \in Reads, Ask(r)
  PROVE  read' \in [Reads -> Requests] /\ memo' \in Memos
  BY DEF Ask, TabTypeOK, Requests, Memos

LEMMA RequestType ==
  ASSUME NEW q \in Requests
  PROVE  /\ q.is = "answered" => /\ q.who \in Answerers /\ q.language \in Nat
                                 /\ q.since \in Nat
         /\ q.is = "asked" => q.since \in Nat
  BY DEF Requests, Nothing

LEMMA FetchType ==
  ASSUME NEW f \in Fetches
  PROVE  /\ f.is = "asked" => f.for \in Readers
         /\ f.is = "answered" => f.for \in Readers /\ f.of \in Readers
  BY DEF Fetches, Nothing

LEMMA WriteType ==
  ASSUME NEW q \in Writes
  PROVE  /\ q.is = "answered" => q.who \in Users /\ q.language \in Nat
         /\ q.is = "reloading" => q.language \in Nat
  BY DEF Writes, Nothing

LEMMA MemoType ==
  ASSUME NEW m \in Memos
  PROVE  /\ m.is = "user" => m.who \in Readers /\ m.language \in Nat /\ m.since \in Nat
         /\ m.is = "read" => m \in {Waiting(r) : r \in Reads}
  BY DEF Memos, Nothing, Waiting

LEMMA ShowType ==
  ASSUME TabTypeOK, NEW next \in {"login", "outage", "inside"}, Show(next)
  PROVE  /\ page' \in {"opening", "login", "outage", "inside"}
         /\ leaving' \in [here : BOOLEAN, behind : Nat]
<1>1. leaving.behind + 1 \in Nat
  BY DEF TabTypeOK
<1>2. [here |-> FALSE, behind |-> leaving.behind + 1] \in [here : BOOLEAN, behind : Nat]
  BY <1>1
<1> QED
  BY <1>2 DEF Show, TabTypeOK

LEMMA LeadsToType == \A who : LeadsTo(who) \in {"login", "outage", "inside"}
  BY DEF LeadsTo

LEMMA RowType == ASSUME TabTypeOK, NEW who PROVE RowOf(who) \in Nat
  BY DEF RowOf, TabTypeOK

LEMMA RememberedType ==
  ASSUME TabTypeOK, NEW r \in Reads, read[r].is = "answered"
  PROVE  Remembered(r) \in Memos
<1>1. /\ read[r].who \in Answerers /\ read[r].language \in Nat /\ read[r].since \in Nat
  BY RequestType DEF TabTypeOK
<1>2. CASE memo # Waiting(r)
  <2>1. Remembered(r) = memo
    BY <1>2 DEF Remembered, Forgets
  <2> QED
    BY <2>1 DEF TabTypeOK
<1>3. CASE memo = Waiting(r) /\ read[r].who = Unknown
  BY <1>3 DEF Remembered, Forgets, Memos
<1>4. CASE memo = Waiting(r) /\ read[r].who # Unknown
  <2>1. read[r].who \in Readers
    BY <1>1, <1>4 DEF Answerers
  <2>2. Remembered(r) = Resolved(read[r].who, read[r].language, "read", read[r].since)
    BY <1>4 DEF Remembered, Forgets
  <2>3. Resolved(read[r].who, read[r].language, "read", read[r].since) \in Memos
    BY <1>1, <2>1 DEF Memos, Resolved
  <2> QED
    BY <2>2, <2>3
<1> QED
  BY <1>2, <1>3, <1>4

LEMMA NothingTypes ==
  Nothing \in Requests /\ Nothing \in Memos /\ Nothing \in Fetches /\ Nothing \in Writes
  BY DEF Requests, Memos, Fetches, Writes

LEMMA TabTypeInit == TabInit => TabTypeOK
<1> SUFFICES ASSUME TabInit PROVE TabTypeOK
  OBVIOUS
<1>1. cookie \in Readers /\ settled \in Answerers /\ memo \in Memos /\ fetch \in Fetches
  BY NothingTypes DEF TabInit, Readers, Answerers
<1>2. language \in [Users -> Nat] /\ read \in [Reads -> Requests]
  BY NothingTypes DEF TabInit
<1>3. write \in [Writers -> Writes]
  BY NothingTypes DEF TabInit
<1> QED
  BY <1>1, <1>2, <1>3 DEF TabInit, TabTypeOK

LEMMA TabTypeStep == TabTypeOK /\ [TabNext]_tabVars => TabTypeOK'
<1> SUFFICES ASSUME TabTypeOK, [TabNext]_tabVars PROVE TabTypeOK'
  OBVIOUS
<1>1. CASE Open
  <2>1. page' \in {"opening", "login", "outage", "inside"}
        /\ leaving' \in [here : BOOLEAN, behind : Nat]
    BY <1>1, ShowType, LeadsToType DEF Open, TabTypeOK
  <2> QED
    BY <1>1, <2>1, AskType, MemoType DEF Open, TabTypeOK
<1>2. CASE Hover
  BY <1>2, AskType DEF Hover, TabTypeOK
<1>3. ASSUME NEW r \in Reads, AnswerRead(r)
      PROVE  TabTypeOK'
  <2>1. PICK who \in {cookie, Unknown} :
          read' = [read EXCEPT ![r] = [is |-> "answered", who |-> who,
                                       language |-> RowOf(who), since |-> read[r].since]]
    BY <1>3 DEF AnswerRead
  <2>2. [is |-> "answered", who |-> who, language |-> RowOf(who), since |-> read[r].since]
          \in Requests
    BY <1>3, RequestType, RowType DEF AnswerRead, TabTypeOK, Requests, Answerers
  <2> QED
    BY <1>3, <2>1, <2>2 DEF AnswerRead, TabTypeOK
<1>4. ASSUME NEW r \in Reads, Deliver(r)
      PROVE  TabTypeOK'
  <2>1. read[r].who \in Answerers
    BY <1>4, RequestType DEF Deliver, TabTypeOK
  <2>2. memo' \in Memos
    BY <1>4, RememberedType DEF Deliver
  <2>3. settled' \in Answerers /\ fetch' \in Fetches
        /\ cache' \in SUBSET [for : Readers, of : Users]
    BY <1>4, <2>1, PublishType DEF Deliver
  <2>4. read' \in [Reads -> Requests]
    BY <1>4 DEF Deliver, TabTypeOK, Requests
  <2>5. page' \in {"opening", "login", "outage", "inside"}
        /\ leaving' \in [here : BOOLEAN, behind : Nat]
    BY <1>4, ShowType, LeadsToType DEF Deliver, TabTypeOK
  <2> QED
    BY <1>4, <2>2, <2>3, <2>4, <2>5 DEF Deliver, TabTypeOK
<1>5. ASSUME NEW u \in Users, SignIn(u)
      PROVE  TabTypeOK'
  <2>1. memo' \in Memos
    BY <1>5 DEF SignIn, Set, Resolved, Memos, TabTypeOK, Readers
  <2>2. settled' \in Answerers /\ fetch' \in Fetches
        /\ cache' \in SUBSET [for : Readers, of : Users]
    BY <1>5, PublishType DEF SignIn, Set, Answerers, Readers
  <2> QED
    BY <1>5, <2>1, <2>2 DEF SignIn, TabTypeOK, Readers
<1>6. CASE SignOut
  BY <1>6 DEF SignOut, TabTypeOK, Readers
<1>7. CASE SignedOut
  <2>1. settled' \in Answerers /\ fetch' \in Fetches
        /\ cache' \in SUBSET [for : Readers, of : Users]
    BY <1>7, PublishType DEF SignedOut, Clear, Answerers, Readers
  <2>2. memo' \in Memos /\ cleared' \in Nat
    BY <1>7, NothingTypes DEF SignedOut, Clear, TabTypeOK
  <2>3. leaving' \in [here : BOOLEAN, behind : Nat]
    <3>1. CASE leaving' = [leaving EXCEPT !.here = FALSE]
      BY <3>1 DEF TabTypeOK
    <3>2. CASE leaving.behind > 0 /\ leaving' = [leaving EXCEPT !.behind = @ - 1]
      <4>1. leaving.behind - 1 \in Nat
        BY <3>2 DEF TabTypeOK
      <4> QED
        BY <3>2, <4>1 DEF TabTypeOK
    <3> QED
      BY <1>7, <3>1, <3>2 DEF SignedOut
  <2> QED
    BY <1>7, <2>1, <2>2, <2>3 DEF SignedOut, TabTypeOK, Readers
<1>8. CASE Elsewhere
  BY <1>8, SessionAssumption DEF Elsewhere, TabTypeOK, Readers
<1>9. CASE Fetch
  BY <1>9, ReaderType DEF Fetch, TabTypeOK, Fetches
<1>10. CASE AnswerFetch
  BY <1>10, FetchType DEF AnswerFetch, TabTypeOK, Fetches
<1>11. CASE Load
  <2>1. fetch.for \in Readers /\ fetch.of \in Readers
    BY <1>11, FetchType DEF Load, TabTypeOK
  <2>2. fetch' \in Fetches /\ memo' \in Memos
    BY <1>11 DEF Load, TabTypeOK, Fetches, Memos
  <2>3. CASE fetch.of = Nobody
    <3>1. page' \in {"opening", "login", "outage", "inside"}
          /\ leaving' \in [here : BOOLEAN, behind : Nat]
      BY <1>11, <2>3, ShowType DEF Load
    <3> QED
      BY <1>11, <2>2, <2>3, <3>1 DEF Load, TabTypeOK, Answerers, Readers
  <2>4. CASE fetch.of # Nobody
    <3>1. [for |-> fetch.for, of |-> fetch.of] \in [for : Readers, of : Users]
      BY <2>1, <2>4 DEF Readers
    <3> QED
      BY <1>11, <2>2, <2>4, <3>1 DEF Load, TabTypeOK
  <2> QED
    BY <2>3, <2>4
<1>12. ASSUME NEW w \in Writers, Save(w)
       PROVE  TabTypeOK'
  BY <1>12 DEF Save, TabTypeOK, Writes
<1>13. ASSUME NEW w \in Writers, AnswerSave(w)
       PROVE  TabTypeOK'
  <2>1. language' \in [Users -> Nat]
    BY <1>13 DEF AnswerSave, TabTypeOK
  <2>2. PICK answer \in {[is |-> "failed"]} \cup
          {[is |-> "answered", who |-> u, language |-> language'[u]] : u \in Users \cap {cookie}} :
            write' = [write EXCEPT ![w] = answer]
    BY <1>13 DEF AnswerSave
  <2>3. answer \in Writes
    BY <2>1 DEF Writes
  <2> QED
    BY <1>13, <2>1, <2>2, <2>3 DEF AnswerSave, TabTypeOK
<1>14. ASSUME NEW w \in Writers, Adopt(w)
       PROVE  TabTypeOK'
  <2>1. write[w].who \in Users /\ write[w].language \in Nat
    BY <1>14, WriteType DEF Adopt, TabTypeOK
  <2>2. memo' \in Memos /\ memo'.language \in Nat
    BY <1>14, <2>1 DEF Adopt, Set, Resolved, Memos, TabTypeOK, Readers
  <2>3. settled' \in Answerers /\ fetch' \in Fetches
        /\ cache' \in SUBSET [for : Readers, of : Users]
    BY <1>14, <2>1, PublishType DEF Adopt, Set, Answerers, Readers
  <2>4. write' \in [Writers -> Writes]
    BY <1>14, <2>2 DEF Adopt, TabTypeOK, Writes
  <2> QED
    BY <1>14, <2>2, <2>3, <2>4 DEF Adopt, TabTypeOK
<1>15. ASSUME NEW w \in Writers, Reload(w)
       PROVE  TabTypeOK'
  BY <1>15, WriteType DEF Reload, TabTypeOK, Writes
<1>16. CASE UNCHANGED tabVars
  BY <1>16 DEF tabVars, TabTypeOK
<1> QED
  BY <1>1, <1>2, <1>3, <1>4, <1>5, <1>6, <1>7, <1>8, <1>9, <1>10, <1>11,
     <1>12, <1>13, <1>14, <1>15, <1>16
  DEF TabNext

\* The tab's state keeps its type, for any accounts and requests.
THEOREM TabTypeCorrect == TabSpec => []TabTypeOK
  BY TabTypeInit, TabTypeStep, PTL DEF TabSpec

-----------------------------------------------------------------------------
(* What is memoised *)

\* A request the memo waits for is in flight, and was made in this session.
WaitsInSession ==
  \A r \in Reads : memo = Waiting(r) =>
    read[r].is \in {"asked", "answered"} /\ read[r].since = cleared

MemoInv == TabTypeOK /\ WaitsInSession /\ ClearedIsAsked

\* A memo says what it is.
LEMMA WaitingIs ==
  /\ Nothing.is = "nothing"
  /\ \A r : Waiting(r).is = "read" /\ Waiting(r) # Nothing
  /\ \A r, q : Waiting(r) = Waiting(q) => r = q
<1>1. \A r : Waiting(r).is = "read" /\ Waiting(r).read = r
  BY DEF Waiting
<1>2. Nothing.is = "nothing"
  BY DEF Nothing
<1> QED
  BY <1>1, <1>2

LEMMA ResolvedIs ==
  ASSUME NEW who, NEW row, NEW by, NEW since
  PROVE  LET m == Resolved(who, row, by, since)
         IN  m.is = "user" /\ m.who = who /\ m.by = by /\ m.since = since
  BY DEF Resolved

LEMMA RememberedIs ==
  ASSUME NEW r
  PROVE  /\ memo # Waiting(r) => Remembered(r) = memo
         /\ memo = Waiting(r) =>
              Remembered(r) \in {Nothing,
                Resolved(read[r].who, read[r].language, "read", read[r].since)}
  BY DEF Remembered, Forgets

LEMMA MemoInvInit == TabInit => MemoInv
  BY TabTypeInit, WaitingIs DEF TabInit, MemoInv, WaitsInSession, ClearedIsAsked

\* A new request: asked in this session, by a memo that waits for it.
LEMMA AskWaits ==
  ASSUME MemoInv, NEW r \in Reads, Ask(r), cleared' = cleared
  PROVE  WaitsInSession' /\ ClearedIsAsked'
<1>1. memo' = Waiting(r) /\ read'[r] = [is |-> "asked", since |-> cleared]
  BY DEF Ask, MemoInv, TabTypeOK
<1> QED
  BY <1>1, WaitingIs DEF WaitsInSession, ClearedIsAsked

LEMMA MemoInvStep == MemoInv /\ [TabNext]_tabVars => MemoInv'
<1> SUFFICES ASSUME MemoInv, [TabNext]_tabVars
             PROVE  WaitsInSession' /\ ClearedIsAsked'
  BY TabTypeStep DEF MemoInv
<1> USE DEF MemoInv
<1>1. CASE Open
  <2>1. CASE UNCHANGED <<memo, read>>
    BY <1>1, <2>1 DEF Open, WaitsInSession, ClearedIsAsked
  <2>2. CASE \E r \in Reads : Ask(r)
    BY <1>1, <2>2, AskWaits DEF Open
  <2> QED
    BY <1>1, <2>1, <2>2 DEF Open
<1>2. CASE Hover
  BY <1>2, AskWaits DEF Hover
<1>3. ASSUME NEW r \in Reads, AnswerRead(r)
      PROVE  WaitsInSession' /\ ClearedIsAsked'
  <2>1. read'[r].is = "answered" /\ read'[r].since = read[r].since
    BY <1>3 DEF AnswerRead, TabTypeOK
  <2>2. \A q \in Reads : q # r => read'[q] = read[q]
    BY <1>3 DEF AnswerRead, TabTypeOK
  <2> QED
    BY <1>3, <2>1, <2>2 DEF AnswerRead, WaitsInSession, ClearedIsAsked
<1>4. ASSUME NEW r \in Reads, Deliver(r)
      PROVE  WaitsInSession' /\ ClearedIsAsked'
  <2>1. /\ memo' = Remembered(r) /\ cleared' = cleared
        /\ \A q \in Reads : q # r => read'[q] = read[q]
    BY <1>4 DEF Deliver, TabTypeOK
  <2>2. CASE memo # Waiting(r)
    BY <2>1, <2>2, RememberedIs DEF WaitsInSession, ClearedIsAsked
  <2>3. CASE memo = Waiting(r)
    <3>1. read[r].since = cleared
      BY <2>3 DEF WaitsInSession
    <3>2. memo' \in {Nothing, Resolved(read[r].who, read[r].language, "read", read[r].since)}
      BY <2>1, <2>3, RememberedIs
    <3>3. memo'.is # "read" /\ (memo'.is = "user" => memo'.since = cleared)
      BY <3>1, <3>2, ResolvedIs, WaitingIs
    <3> QED
      BY <2>1, <3>3, WaitingIs DEF WaitsInSession, ClearedIsAsked
  <2> QED
    BY <2>2, <2>3
<1>5. ASSUME NEW u \in Users, SignIn(u)
      PROVE  WaitsInSession' /\ ClearedIsAsked'
  <2>1. memo' = Resolved(u, language[u], "sign-in", cleared)
    BY <1>5 DEF SignIn, Set
  <2> QED
    BY <2>1, ResolvedIs, WaitingIs DEF WaitsInSession, ClearedIsAsked
<1>6. CASE SignedOut \/ (Load /\ fetch.of = Nobody)
  <2>1. memo' = Nothing
    BY <1>6 DEF SignedOut, Clear, Load
  <2> QED
    BY <2>1, WaitingIs DEF WaitsInSession, ClearedIsAsked
<1>7. CASE UNCHANGED <<memo, read, cleared>>
  BY <1>7 DEF WaitsInSession, ClearedIsAsked
<1>8. ASSUME NEW w \in Writers, Adopt(w)
      PROVE  WaitsInSession' /\ ClearedIsAsked'
  <2>1. memo' = Resolved(write[w].who, write[w].language, "write", cleared)
    BY <1>8 DEF Adopt, Set
  <2> QED
    BY <2>1, ResolvedIs, WaitingIs DEF WaitsInSession, ClearedIsAsked
<1>9. SignOut \/ Elsewhere \/ Fetch \/ AnswerFetch \/ (Load /\ fetch.of # Nobody)
      \/ (\E w \in Writers : Save(w) \/ AnswerSave(w) \/ Reload(w)) \/ UNCHANGED tabVars
        => UNCHANGED <<memo, read, cleared>>
  BY DEF SignOut, Elsewhere, Fetch, AnswerFetch, Load, Save, AnswerSave, Reload, tabVars
<1> QED
  BY <1>1, <1>2, <1>3, <1>4, <1>5, <1>6, <1>7, <1>8, <1>9 DEF TabNext

\* logout "the next guard asks and gets the truth": whatever order the answers
\* come in, a user a guard finds without asking was read in this session.
THEOREM ClearedReaderIsAsked == TabSpec => []ClearedIsAsked
<1>1. MemoInv => ClearedIsAsked
  BY DEF MemoInv
<1> QED
  BY <1>1, MemoInvInit, MemoInvStep, PTL DEF TabSpec

-----------------------------------------------------------------------------
(* One reader's answers *)

\* While no other tab signs in, a memo that says nobody is there is right, and so
\* is an answer to that effect the memo waits for.
NobodyIsThere ==
  /\ memo.is = "user" /\ memo.who = Nobody => cookie = Nobody
  /\ \A r \in Reads : memo = Waiting(r) /\ read[r].is = "answered" /\ read[r].who = Nobody
        => cookie = Nobody

\* Whose answers the tab holds, awaits or could yet be given.
Held ==
  {d.of : d \in cache}
  \cup {u \in Users : (fetch.is = "answered" /\ fetch.of = u) \/ cookie = u}

HeldIsOne == \A u, v \in Held : u = v

\* Where a sign-in may follow that publishes no change of reader, the tab holds
\* nothing.
EmptyAtTheDoor ==
  settled \in Users /\ (page = "login" \/ (memo.is = "user" /\ memo.who = Nobody)) =>
    /\ cache = {}
    /\ fetch.is # "nothing" => cookie = Nobody
    /\ fetch.is = "answered" => fetch.of = Nobody

ReadersInv == MemoInv /\ NobodyIsThere /\ HeldIsOne /\ EmptyAtTheDoor

\* Publishing a user the tab was not showing, or nobody, leaves nothing of
\* another's; publishing the same reader leaves everything as it was.
LEMMA PublishApart ==
  ASSUME NEW who, Publish(who)
  PROVE  /\ settled' = who
         /\ \/ UNCHANGED <<cache, fetch>> /\ Reader(who) = Reader(settled)
            \/ cache' = {} /\ fetch' = Nothing
  BY DEF Publish

\* What publishing does to what the tab holds.
LEMMA PublishHeld ==
  ASSUME ReadersInv, NEW who \in Answerers, Publish(who), cookie' \in {cookie, Nobody}
  PROVE  HeldIsOne'
<1>1. Held' \subseteq Held
  BY PublishApart, WaitingIs, SessionAssumption DEF Held
<1> QED
  BY <1>1 DEF HeldIsOne, ReadersInv

\* At the door, a change of reader empties what the tab holds; the same reader
\* finds it empty.
LEMMA PublishEmpties ==
  ASSUME ReadersInv, NEW who \in Users, Publish(who), UNCHANGED cookie,
         page' = "login" => page = "login", ~(memo'.is = "user" /\ memo'.who = Nobody)
         \/ UNCHANGED memo
  PROVE  EmptyAtTheDoor'
<1>1. CASE cache' = {} /\ fetch' = Nothing
  BY <1>1, WaitingIs DEF EmptyAtTheDoor
<1>2. CASE UNCHANGED <<cache, fetch>> /\ Reader(who) = Reader(settled)
  <2>1. settled = who
    BY <1>2, SessionAssumption DEF Reader
  <2> QED
    BY <1>2, <2>1, PublishApart DEF EmptyAtTheDoor, ReadersInv
<1> QED
  BY <1>1, <1>2, PublishApart

LEMMA ReadersInvInit == TabInit => ReadersInv
<1> SUFFICES ASSUME TabInit PROVE NobodyIsThere /\ HeldIsOne /\ EmptyAtTheDoor
  BY MemoInvInit DEF ReadersInv
<1>1. NobodyIsThere
  BY WaitingIs DEF TabInit, NobodyIsThere
<1>2. HeldIsOne
  BY WaitingIs DEF TabInit, HeldIsOne, Held
<1>3. EmptyAtTheDoor
  BY SessionAssumption DEF TabInit, EmptyAtTheDoor
<1> QED
  BY <1>1, <1>2, <1>3

\* What nobody being there rests on: the cookie only ever goes, but for a sign-in.
LEMMA NobodyStep ==
  ASSUME ReadersInv, [TabNext]_tabVars, Others = {}
  PROVE  NobodyIsThere'
<1> USE DEF ReadersInv, MemoInv
<1>0. cookie' = cookie \/ cookie' = Nobody \/ \E u \in Users : SignIn(u)
  BY DEF TabNext, tabVars, Open, Hover, AnswerRead, Deliver, SignOut, SignedOut, Elsewhere,
         Fetch, AnswerFetch, Load, Save, AnswerSave, Adopt, Reload
<1>1. ASSUME NEW r \in Reads, Ask(r), cookie' = cookie
      PROVE  NobodyIsThere'
  <2>1. memo' = Waiting(r) /\ read'[r].is = "asked"
    BY <1>1 DEF Ask, TabTypeOK
  <2> QED
    BY <2>1, WaitingIs DEF NobodyIsThere
<1>2. ASSUME NEW r \in Reads, AnswerRead(r)
      PROVE  NobodyIsThere'
  <2>1. /\ memo' = memo /\ cookie' = cookie
        /\ read'[r].who \in {cookie, Unknown}
        /\ \A q \in Reads : q # r => read'[q] = read[q]
    BY <1>2 DEF AnswerRead, TabTypeOK
  <2> QED
    BY <2>1, SessionAssumption DEF NobodyIsThere
<1>3. ASSUME NEW r \in Reads, Deliver(r)
      PROVE  NobodyIsThere'
  <2>1. /\ memo' = Remembered(r) /\ cookie' = cookie
        /\ read[r].is = "answered"
        /\ \A q \in Reads : q # r => read'[q] = read[q]
        /\ read'[r].is # "answered"
    BY <1>3 DEF Deliver, TabTypeOK
  <2>2. CASE memo # Waiting(r)
    BY <2>1, <2>2, RememberedIs DEF NobodyIsThere
  <2>3. CASE memo = Waiting(r)
    <3>1. memo' \in {Nothing, Resolved(read[r].who, read[r].language, "read", read[r].since)}
      BY <2>1, <2>3, RememberedIs
    <3>2. memo'.is # "read" /\ (memo'.is = "user" => memo'.who = read[r].who)
      BY <3>1, ResolvedIs, WaitingIs
    <3> QED
      BY <2>1, <2>3, <3>2, WaitingIs DEF NobodyIsThere
  <2> QED
    BY <2>2, <2>3
<1>4. ASSUME NEW u \in Users, SignIn(u)
      PROVE  NobodyIsThere'
  <2>1. memo' = Resolved(u, language[u], "sign-in", cleared)
    BY <1>4 DEF SignIn, Set
  <2> QED
    BY <2>1, ResolvedIs, WaitingIs, SessionAssumption DEF NobodyIsThere
<1>5. ASSUME NEW w \in Writers, Adopt(w)
      PROVE  NobodyIsThere'
  <2>1. memo' = Resolved(write[w].who, write[w].language, "write", cleared)
        /\ write[w].who \in Users
    BY <1>5, WriteType DEF Adopt, Set, TabTypeOK
  <2> QED
    BY <2>1, ResolvedIs, WaitingIs, SessionAssumption DEF NobodyIsThere
<1>6. CASE memo' = Nothing
  BY <1>6, WaitingIs DEF NobodyIsThere
<1>7. CASE UNCHANGED <<memo, read>> /\ ~\E u \in Users : SignIn(u)
  BY <1>0, <1>7 DEF NobodyIsThere
<1>8. CASE UNCHANGED <<memo, read>> /\ \E u \in Users : SignIn(u)
  BY <1>4, <1>8
<1>9. Open => UNCHANGED <<memo, read>> \/ (cookie' = cookie /\ \E r \in Reads : Ask(r))
  BY DEF Open
<1>10. Hover => cookie' = cookie /\ \E r \in Reads : Ask(r)
  BY DEF Hover
<1>11. SignedOut => memo' = Nothing
  BY DEF SignedOut, Clear
<1>12. Load => memo' = Nothing \/ UNCHANGED <<memo, read>>
  BY DEF Load
<1>13. SignOut \/ Elsewhere \/ Fetch \/ AnswerFetch
       \/ (\E w \in Writers : Save(w) \/ AnswerSave(w) \/ Reload(w)) \/ UNCHANGED tabVars
         => UNCHANGED <<memo, read>>
  BY DEF SignOut, Elsewhere, Fetch, AnswerFetch, Save, AnswerSave, Reload, tabVars
<1> QED
  BY <1>1, <1>2, <1>3, <1>4, <1>5, <1>6, <1>7, <1>8, <1>9, <1>10, <1>11, <1>12, <1>13
  DEF TabNext

\* What the tab holds, step by step: only a sign-in brings another account, and
\* then what was held is dropped or there was nothing.
LEMMA HeldStep ==
  ASSUME ReadersInv, [TabNext]_tabVars, Others = {}
  PROVE  HeldIsOne'
<1> USE DEF ReadersInv, MemoInv
<1>1. ASSUME Held' \subseteq Held
      PROVE  HeldIsOne'
  BY <1>1 DEF HeldIsOne
<1>2. ASSUME UNCHANGED <<cache, fetch>>, cookie' \in {cookie, Nobody}
      PROVE  HeldIsOne'
  <2>1. Held' \subseteq Held
    BY <1>2, SessionAssumption DEF Held
  <2> QED
    BY <1>1, <2>1
<1>3. ASSUME NEW r \in Reads, Deliver(r)
      PROVE  HeldIsOne'
  <2>1. read[r].who \in Answerers
    BY <1>3, RequestType DEF Deliver, TabTypeOK
  <2> QED
    BY <1>3, <2>1, PublishHeld DEF Deliver
<1>4. ASSUME NEW u \in Users, SignIn(u)
      PROVE  HeldIsOne'
  <2>1. Publish(u) /\ cookie' = u /\ page = "login"
    BY <1>4 DEF SignIn, Set
  <2>2. CASE cache' = {} /\ fetch' = Nothing
    BY <2>1, <2>2, WaitingIs DEF Held, HeldIsOne
  <2>3. CASE UNCHANGED <<cache, fetch>> /\ Reader(u) = Reader(settled)
    <3>1. settled = u
      BY <2>3, SessionAssumption DEF Reader
    <3>2. cache = {} /\ (fetch.is = "answered" => fetch.of = Nobody)
      BY <2>1, <3>1 DEF EmptyAtTheDoor
    <3> QED
      BY <2>1, <2>3, <3>2, SessionAssumption DEF Held, HeldIsOne
  <2> QED
    BY <2>1, <2>2, <2>3, PublishApart
<1>5. CASE SignedOut
  BY <1>5, PublishHeld DEF SignedOut, Clear, Answerers, Readers
<1>6. CASE Fetch
  <2>1. fetch' = [is |-> "asked", for |-> Reader(settled)] /\ UNCHANGED <<cookie, cache>>
    BY <1>6 DEF Fetch
  <2> QED
    BY <1>1, <2>1 DEF Held
<1>7. CASE AnswerFetch
  <2>1. /\ fetch' = [is |-> "answered", for |-> fetch.for, of |-> cookie]
        /\ UNCHANGED <<cookie, cache>>
    BY <1>7 DEF AnswerFetch
  <2> QED
    BY <1>1, <2>1 DEF Held
<1>8. CASE Load
  <2>1. fetch' = Nothing /\ cookie' = cookie /\ fetch.is = "answered" /\ fetch.of \in Readers
    BY <1>8, FetchType DEF Load, TabTypeOK
  <2>2. CASE fetch.of = Nobody
    BY <1>1, <1>8, <2>1, <2>2, WaitingIs DEF Load, Held
  <2>3. CASE fetch.of # Nobody
    <3>1. fetch.of \in Users /\ cache' = cache \cup {[for |-> fetch.for, of |-> fetch.of]}
      BY <1>8, <2>1, <2>3 DEF Load, Readers
    <3> QED
      BY <1>1, <2>1, <3>1, WaitingIs DEF Held
  <2> QED
    BY <2>2, <2>3
<1>9. ASSUME NEW w \in Writers, Adopt(w)
      PROVE  HeldIsOne'
  <2>1. write[w].who \in Answerers
    BY <1>9, WriteType DEF Adopt, TabTypeOK, Answerers, Readers
  <2> QED
    BY <1>9, <2>1, PublishHeld DEF Adopt, Set
<1>10. Open \/ Hover \/ (\E r \in Reads : AnswerRead(r)) \/ SignOut \/ Elsewhere
       \/ (\E w \in Writers : Save(w) \/ AnswerSave(w) \/ Reload(w)) \/ UNCHANGED tabVars
         => UNCHANGED <<cache, fetch>> /\ cookie' \in {cookie, Nobody}
  BY DEF Open, Hover, AnswerRead, SignOut, Elsewhere, Save, AnswerSave, Reload, tabVars
<1> QED
  BY <1>2, <1>3, <1>4, <1>5, <1>6, <1>7, <1>8, <1>9, <1>10 DEF TabNext

\* That the tab is empty at the door, step by step.
LEMMA DoorStep ==
  ASSUME ReadersInv, [TabNext]_tabVars, Others = {}
  PROVE  EmptyAtTheDoor'
<1> USE DEF ReadersInv, MemoInv
<1>1. ASSUME settled' \notin Users
      PROVE  EmptyAtTheDoor'
  BY <1>1 DEF EmptyAtTheDoor
<1>2. ASSUME cache' = {}, fetch' = Nothing
      PROVE  EmptyAtTheDoor'
  BY <1>2, WaitingIs DEF EmptyAtTheDoor
<1>3. ASSUME UNCHANGED <<settled, cache, fetch>>, cookie' \in {cookie, Nobody},
             page' = "login" => page = "login" \/ (memo.is = "user" /\ memo.who = Nobody),
             UNCHANGED memo \/ memo'.is # "user"
      PROVE  EmptyAtTheDoor'
  BY <1>3 DEF EmptyAtTheDoor
<1>4. CASE Open
  <2>1. CASE UNCHANGED memo
    <3>1. page' = "login" => page = "login" \/ (memo.is = "user" /\ memo.who = Nobody)
      BY <1>4, <2>1, MemoType DEF Open, Show, LeadsTo, TabTypeOK
    <3> QED
      BY <1>3, <1>4, <2>1, <3>1 DEF Open
  <2>2. CASE \E r \in Reads : memo' = Waiting(r) /\ page' = page
    BY <1>3, <1>4, <2>2, WaitingIs DEF Open
  <2> QED
    BY <1>4, <2>1, <2>2 DEF Open, Ask
<1>5. CASE Hover
  BY <1>3, <1>5, WaitingIs DEF Hover, Ask
<1>6. ASSUME NEW r \in Reads, Deliver(r)
      PROVE  EmptyAtTheDoor'
  <2>1. /\ Publish(read[r].who) /\ memo' = Remembered(r) /\ cookie' = cookie
        /\ read[r].who \in Answerers
    BY <1>6, RequestType DEF Deliver, TabTypeOK
  <2>2. CASE read[r].who \notin Users
    BY <1>1, <2>1, <2>2, PublishApart
  <2>3. CASE read[r].who \in Users
    <3>1. page' = "login" => page = "login"
      BY <1>6, <2>3, SessionAssumption DEF Deliver, Show, LeadsTo
    <3>2. UNCHANGED memo \/ ~(memo'.is = "user" /\ memo'.who = Nobody)
      <4>1. CASE memo = Waiting(r)
        BY <2>1, <2>3, <4>1, RememberedIs, ResolvedIs, WaitingIs, SessionAssumption
      <4>2. CASE memo # Waiting(r)
        BY <2>1, <4>2, RememberedIs
      <4> QED
        BY <4>1, <4>2
    <3> QED
      BY <2>1, <2>3, <3>1, <3>2, PublishEmpties
  <2> QED
    BY <2>2, <2>3
<1>7. ASSUME NEW u \in Users, SignIn(u)
      PROVE  EmptyAtTheDoor'
  <2>1. memo' = Resolved(u, language[u], "sign-in", cleared) /\ page' = "inside"
    BY <1>7 DEF SignIn, Set
  <2>2. memo'.who # Nobody
    BY <2>1, ResolvedIs, SessionAssumption
  <2> QED
    BY <2>1, <2>2 DEF EmptyAtTheDoor
<1>8. CASE SignedOut
  BY <1>1, <1>8, PublishApart, SessionAssumption DEF SignedOut, Clear
<1>9. CASE Fetch
  <2>1. /\ page = "inside" /\ fetch.is = "nothing"
        /\ fetch' = [is |-> "asked", for |-> Reader(settled)]
        /\ UNCHANGED <<cookie, memo, settled, page, cache>>
    BY <1>9, WaitingIs DEF Fetch
  <2>2. memo.is = "user" /\ memo.who = Nobody => cookie = Nobody
    BY DEF NobodyIsThere
  <2> QED
    BY <2>1, <2>2 DEF EmptyAtTheDoor
<1>10. CASE AnswerFetch
  <2>1. /\ fetch.is = "asked"
        /\ fetch' = [is |-> "answered", for |-> fetch.for, of |-> cookie]
        /\ UNCHANGED <<cookie, memo, settled, page, cache>>
    BY <1>10 DEF AnswerFetch
  <2> QED
    BY <2>1 DEF EmptyAtTheDoor
<1>11. CASE Load
  <2>1. CASE fetch.of = Nobody
    BY <1>1, <1>11, <2>1, SessionAssumption DEF Load
  <2>2. CASE fetch.of # Nobody
    <3>1. /\ fetch.is = "answered" /\ fetch' = Nothing
          /\ UNCHANGED <<cookie, memo, settled, page>>
      BY <1>11, <2>2 DEF Load
    <3> QED
      BY <2>2, <3>1 DEF EmptyAtTheDoor
  <2> QED
    BY <2>1, <2>2
<1>12. ASSUME NEW w \in Writers, Adopt(w)
       PROVE  EmptyAtTheDoor'
  <2>1. /\ memo' = Resolved(write[w].who, write[w].language, "write", cleared)
        /\ write[w].who \in Users
        /\ Publish(write[w].who) /\ UNCHANGED <<cookie, page>>
    BY <1>12, WriteType DEF Adopt, Set, TabTypeOK
  <2>2. memo'.who # Nobody
    BY <2>1, ResolvedIs, SessionAssumption
  <2> QED
    BY <2>1, <2>2, PublishEmpties
<1>13. (\E r \in Reads : AnswerRead(r)) \/ SignOut \/ Elsewhere
       \/ (\E w \in Writers : Save(w) \/ AnswerSave(w) \/ Reload(w)) \/ UNCHANGED tabVars
         => UNCHANGED <<settled, cache, fetch, memo, page>> /\ cookie' \in {cookie, Nobody}
  BY DEF AnswerRead, SignOut, Elsewhere, Save, AnswerSave, Reload, tabVars
<1> QED
  BY <1>3, <1>4, <1>5, <1>6, <1>7, <1>8, <1>9, <1>10, <1>11, <1>12, <1>13 DEF TabNext

\* clearOnUserChange "what one reader was allowed to see must not be on screen
\* for the next": while no other tab signs in, the cache never holds the answers
\* given to two accounts, whatever is published late.
THEOREM ReadersStayApart ==
  ASSUME Others = {}
  PROVE  TabSpec => []ReadersApart
<1>1. ReadersInv /\ [TabNext]_tabVars => ReadersInv'
  BY MemoInvStep, NobodyStep, HeldStep, DoorStep DEF ReadersInv
<1>2. ReadersInv => ReadersApart
  BY DEF ReadersInv, HeldIsOne, Held, ReadersApart
<1> QED
  BY <1>1, <1>2, ReadersInvInit, PTL DEF TabSpec

-----------------------------------------------------------------------------
(* The figures, for any number of requests, cleanups and collections *)

Figures == [at : Nat, ends : Nat, collections : Nat]

Jobs == [n : Nat, state : {"idle", "running", "completed", "failed"}, finished : Nat]

Memories == [ends : Nat, run : Jobs]

AskedStates == [is : {"unasked", "failed"}]
              \cup [is : {"waiting"}, before : Memories]
              \cup [is : {"answered"}, figures : Figures, before : Memories, run : Nat]

HeldTasks == [is : {"refresh"}, figures : Figures] \cup [is : {"read"}, q : Asked, figures : Figures]

Waiters == [is : {"forget"}] \cup [is : {"read"}, q : Asked]

\* The job and the figures have their types; figures are dated with the cleanups
\* that had ended when their read began, and a run that has ended with its own.
FiguresTypeOK ==
  /\ job \in Jobs
  /\ ends \in Nat /\ collections \in Nat /\ forgets \in Nat
  /\ kept \in Figures \cup {NoFigures}
  /\ holder \in HeldTasks \cup {NoTask}
  /\ queue \in Seq(Waiters)
  /\ asked \in [Asked -> AskedStates]

\* A request whose read is running or queued waits, and for one read only.
ReadsWait ==
  /\ \A i \in DOMAIN queue : queue[i].is = "read" => asked[queue[i].q].is = "waiting"
  /\ \A i, j \in DOMAIN queue :
       (queue[i].is = "read" /\ queue[j].is = "read" /\ queue[i].q = queue[j].q) => i = j
  /\ holder.is = "read" =>
       /\ asked[holder.q].is = "waiting"
       /\ \A i \in DOMAIN queue : queue[i].is = "read" => queue[i].q # holder.q

\* What a task that leaves the queue leaves behind.
LEMMA TailOfQueue ==
  ASSUME FiguresTypeOK, queue # <<>>, queue' = Tail(queue)
  PROVE  /\ Head(queue) = queue[1] /\ Head(queue) \in Waiters /\ 1 \in DOMAIN queue
         /\ queue' \in Seq(Waiters)
         /\ \A i \in DOMAIN queue' : i \in Nat /\ i + 1 \in DOMAIN queue /\ queue'[i] = queue[i + 1]
         /\ \A i \in DOMAIN queue : i \in Nat /\ (i # 1 => i - 1 \in DOMAIN queue' /\ queue'[i - 1] = queue[i])
BY DEF FiguresTypeOK

\* What a task that joins it finds before it.
LEMMA AppendedToQueue ==
  ASSUME FiguresTypeOK, NEW task \in Waiters, queue' = Append(queue, task)
  PROVE  /\ queue' \in Seq(Waiters)
         /\ \A i \in DOMAIN queue : i \in DOMAIN queue' /\ queue'[i] = queue[i]
         /\ Len(queue) + 1 \in DOMAIN queue' /\ queue'[Len(queue) + 1] = task
         /\ \A i \in DOMAIN queue' : i \in DOMAIN queue \/ i = Len(queue) + 1
         /\ Len(queue) + 1 \notin DOMAIN queue
BY DEF FiguresTypeOK

\* What each step does with the queue and the lock.
LEMMA GrantCases ==
  ASSUME FiguresTypeOK, Grant
  PROVE  /\ holder = NoTask /\ queue # <<>> /\ queue' = Tail(queue)
         /\ UNCHANGED <<job, ends, collections, forgets>>
         /\ \/ /\ Head(queue).is = "forget"
               /\ kept' = NoFigures /\ UNCHANGED <<holder, asked>>
            \/ /\ Head(queue).is = "read" /\ Head(queue).q \in Asked
               /\ kept \in Figures /\ ~CleanedSince(kept)
               /\ Answer(Head(queue).q, kept) /\ UNCHANGED <<holder, kept>>
            \/ /\ Head(queue).is = "read" /\ Head(queue).q \in Asked
               /\ holder' = [is |-> "read", q |-> Head(queue).q, figures |-> FiguresBegunNow]
               /\ UNCHANGED <<kept, asked>>
<1>1. holder = NoTask /\ queue # <<>> /\ queue' = Tail(queue)
        /\ UNCHANGED <<job, ends, collections, forgets>>
  BY DEF Grant
<1>2. Head(queue) \in Waiters /\ kept \in Figures \cup {NoFigures}
  BY <1>1 DEF FiguresTypeOK
<1>3. CASE Head(queue).is = "forget"
  BY <1>1, <1>3 DEF Grant
<1>4. CASE Head(queue).is = "read" /\ kept # NoFigures /\ ~CleanedSince(kept)
  <2>1. Answer(Head(queue).q, kept) /\ UNCHANGED <<holder, kept>>
    BY <1>4 DEF Grant
  <2> QED
    BY <1>1, <1>2, <1>4, <2>1 DEF Waiters
<1>5. CASE /\ Head(queue).is # "forget"
           /\ ~(Head(queue).is = "read" /\ kept # NoFigures /\ ~CleanedSince(kept))
  <2>1. /\ holder' = [is |-> "read", q |-> Head(queue).q, figures |-> FiguresBegunNow]
        /\ UNCHANGED <<kept, asked>>
    BY <1>5 DEF Grant
  <2> QED
    BY <1>1, <1>2, <1>5, <2>1 DEF Waiters
<1> QED
  BY <1>3, <1>4, <1>5

LEMMA ReadEndsCases ==
  ASSUME FiguresTypeOK, ReadEnds
  PROVE  /\ holder \in HeldTasks /\ holder.figures \in Figures /\ holder' = NoTask
         /\ UNCHANGED <<job, ends, collections, forgets, queue>>
         /\ holder.is = "read" => holder.q \in Asked
         /\ kept' = holder.figures \/ UNCHANGED kept
         /\ \/ holder.is = "read" /\ Answer(holder.q, holder.figures)
            \/ holder.is = "read" /\ asked' = [asked EXCEPT ![holder.q] = [is |-> "failed"]]
            \/ UNCHANGED asked /\ holder.is # "read"
<1>1. holder \in HeldTasks /\ holder.figures \in Figures /\ (holder.is = "read" => holder.q \in Asked)
  BY DEF ReadEnds, FiguresTypeOK, HeldTasks
<1> QED
  BY <1>1 DEF ReadEnds

LEMMA WaitingRequest ==
  ASSUME FiguresTypeOK, NEW q \in Asked, asked[q].is = "waiting"
  PROVE  asked[q].before \in Memories
BY DEF FiguresTypeOK, AskedStates

LEMMA Answered ==
  ASSUME FiguresTypeOK, NEW q \in Asked, asked[q].is = "waiting", NEW f, Answer(q, f)
  PROVE  /\ asked' = [asked EXCEPT ![q] = Got(f, asked[q].before)]
         /\ asked'[q] = Got(f, asked[q].before)
         /\ \A p \in Asked : p # q => asked'[p] = asked[p]
BY DEF Answer, FiguresTypeOK

-----------------------------------------------------------------------------
(* Types *)

LEMMA FiguresTypeInit == CleanupInit => FiguresTypeOK /\ ReadsWait
BY DEF CleanupInit, FiguresTypeOK, ReadsWait, Jobs, AskedStates, NoTask

LEMMA FiguresTypeStep == FiguresTypeOK /\ ReadsWait /\ [FiguresNext]_cleanupVars => FiguresTypeOK'
<1> SUFFICES ASSUME FiguresTypeOK, ReadsWait, [FiguresNext]_cleanupVars PROVE FiguresTypeOK'
  OBVIOUS
<1> USE DEF FiguresTypeOK, figureVars
<1>f. FiguresBegunNow \in Figures
  BY DEF FiguresBegunNow, Figures
<1>b. Before \in Memories
  BY DEF Before, Memories
<1>g. \A f \in Figures, m \in Memories : Got(f, m) \in AskedStates
  BY DEF Got, AskedStates, Jobs
<1>a. ASSUME NEW q \in Asked, NEW f \in Figures, asked[q].is = "waiting", Answer(q, f)
      PROVE  asked' \in [Asked -> AskedStates]
  BY <1>a, <1>g, WaitingRequest DEF Answer
<1>1. CASE Begin \/ End
  <2>1. CASE Begin
    BY <2>1 DEF Begin, Begins, Jobs
  <2>2. CASE End
    <3>1. PICK final \in {"completed", "failed"} :
            job' = [job EXCEPT !.state = final, !.finished = ends + 1]
      BY <2>2 DEF End, JobEnds
    <3>2. job' = [n |-> job.n, state |-> final, finished |-> ends + 1]
      BY <3>1 DEF Jobs
    <3> QED
      BY <2>2, <3>2 DEF End, JobEnds, Jobs
  <2> QED
    BY <1>1, <2>1, <2>2
<1>2. ASSUME NEW q \in Asked, AskKept(q) PROVE FiguresTypeOK'
  <2>1. asked' \in [Asked -> AskedStates]
    BY <1>2, <1>b, <1>g DEF AskKept
  <2>2. holder' \in HeldTasks \cup {NoTask}
    BY <1>2, <1>f DEF AskKept, HeldTasks
  <2> QED
    BY <1>2, <2>1, <2>2 DEF AskKept
<1>3. ASSUME NEW q \in Asked, AskRead(q) PROVE FiguresTypeOK'
  <2>1. [is |-> "waiting", before |-> Before] \in AskedStates
    BY <1>b DEF AskedStates
  <2>2. asked' \in [Asked -> AskedStates]
    BY <1>3, <2>1 DEF AskRead
  <2>3. [is |-> "read", q |-> q] \in Waiters
    BY DEF Waiters
  <2>4. queue' \in Seq(Waiters)
    BY <1>3, <2>3 DEF AskRead
  <2> QED
    BY <1>3, <2>2, <2>4 DEF AskRead
<1>4. CASE Grant
  <2>1. queue' \in Seq(Waiters) /\ (Head(queue).is = "read" => asked[Head(queue).q].is = "waiting")
    BY <1>4, GrantCases, TailOfQueue DEF ReadsWait
  <2>2. [is |-> "read", q |-> Head(queue).q, figures |-> FiguresBegunNow] \in HeldTasks
          \/ Head(queue).q \notin Asked
    BY <1>f DEF HeldTasks
  <2> QED
    BY <1>4, <1>a, <2>1, <2>2, GrantCases
<1>5. CASE ReadEnds
  <2>1. [is |-> "failed"] \in AskedStates
    BY DEF AskedStates
  <2>2. asked' \in [Asked -> AskedStates]
    BY <1>5, <1>a, <2>1, ReadEndsCases DEF ReadsWait
  <2> QED
    BY <1>5, <2>2, ReadEndsCases
<1>6. CASE Collect \/ Forget
  <2>1. [is |-> "forget"] \in Waiters
    BY DEF Waiters
  <2>2. CASE Collect
    BY <2>2 DEF Collect
  <2>3. CASE Forget
    <3>1. queue' \in Seq(Waiters)
      BY <2>1, <2>3 DEF Forget
    <3>2. forgets' \in Nat /\ kept' = NoFigures
      BY <2>3 DEF Forget
    <3> QED
      BY <2>3, <3>1, <3>2 DEF Forget
  <2> QED
    BY <1>6, <2>2, <2>3
<1>7. CASE UNCHANGED cleanupVars
  BY <1>7 DEF cleanupVars
<1> HIDE DEF FiguresTypeOK, figureVars
<1> QED
  BY <1>1, <1>2, <1>3, <1>4, <1>5, <1>6, <1>7 DEF FiguresNext

LEMMA ReadsWaitStep == FiguresTypeOK /\ ReadsWait /\ [FiguresNext]_cleanupVars => ReadsWait'
<1> SUFFICES ASSUME FiguresTypeOK, ReadsWait, [FiguresNext]_cleanupVars PROVE ReadsWait'
  OBVIOUS
<1>t. /\ \A i \in DOMAIN queue : queue[i] \in Waiters
      /\ holder.is = "read" => holder.q \in Asked
      /\ \A w \in Waiters : w.is = "read" => w.q \in Asked
  BY DEF FiguresTypeOK, HeldTasks, NoTask, Waiters
<1>1. CASE Begin \/ End \/ Collect \/ UNCHANGED cleanupVars
  BY <1>1 DEF Begin, End, Collect, cleanupVars, figureVars, ReadsWait
<1>2. ASSUME NEW q \in Asked, AskKept(q) PROVE ReadsWait'
  <2>1. asked[q].is = "unasked" /\ (\A p \in Asked : p # q => asked'[p] = asked[p]) /\ queue' = queue
    BY <1>2 DEF AskKept, FiguresTypeOK
  <2>2. holder' = holder \/ holder'.is = "refresh"
    BY <1>2 DEF AskKept
  <2> QED
    BY <1>t, <2>1, <2>2 DEF ReadsWait
<1>3. ASSUME NEW q \in Asked, AskRead(q) PROVE ReadsWait'
  <2> DEFINE task == [is |-> "read", q |-> q]
  <2>1. /\ asked[q].is = "unasked" /\ asked'[q].is = "waiting" /\ holder' = holder
        /\ \A p \in Asked : p # q => asked'[p] = asked[p]
        /\ queue' = Append(queue, task) /\ task \in Waiters
    BY <1>3 DEF AskRead, FiguresTypeOK, Waiters
  <2> HIDE DEF task
  <2>2. task.is = "read" /\ task.q = q
    BY DEF task
  <2>3. /\ \A i \in DOMAIN queue : queue'[i] = queue[i]
        /\ queue'[Len(queue) + 1] = task
        /\ \A i \in DOMAIN queue' : i \in DOMAIN queue \/ i = Len(queue) + 1
    BY <2>1, AppendedToQueue
  <2>4. \A i \in DOMAIN queue : queue[i].is = "read" => queue[i].q # q
    BY <2>1 DEF ReadsWait
  <2> QED
    BY <1>t, <2>1, <2>2, <2>3, <2>4 DEF ReadsWait
<1>4. CASE Grant
  <2>1. /\ Head(queue) = queue[1] /\ 1 \in DOMAIN queue /\ queue' = Tail(queue)
        /\ \A i \in DOMAIN queue' : i \in Nat /\ i + 1 \in DOMAIN queue /\ queue'[i] = queue[i + 1]
        /\ \A i \in DOMAIN queue' : i + 1 # 1
    BY <1>4, GrantCases, TailOfQueue
  <2>2. \A i, j \in DOMAIN queue' : i + 1 = j + 1 => i = j
    BY <2>1
  <2>3. holder = NoTask /\ holder.is # "read"
    BY <1>4, GrantCases DEF NoTask
  <2>4. CASE Head(queue).is = "read" /\ holder' = holder
               /\ \A p \in Asked : p # Head(queue).q => asked'[p] = asked[p]
    <3>1. \A i \in DOMAIN queue' : queue'[i].is = "read" =>
             /\ queue[i + 1].q \in Asked /\ queue[i + 1].q # Head(queue).q
             /\ asked[queue[i + 1].q].is = "waiting"
      BY <1>t, <2>1, <2>4 DEF ReadsWait
    <3>2. \A i \in DOMAIN queue' : queue'[i].is = "read" => asked'[queue'[i].q].is = "waiting"
      BY <2>1, <2>4, <3>1
    <3>3. \A i, j \in DOMAIN queue' :
            (queue'[i].is = "read" /\ queue'[j].is = "read" /\ queue'[i].q = queue'[j].q) => i = j
      BY <2>1, <2>2 DEF ReadsWait
    <3> QED
      BY <2>3, <2>4, <3>2, <3>3 DEF ReadsWait
  <2>5. CASE Head(queue).is = "read" /\ asked' = asked
               /\ holder' = [is |-> "read", q |-> Head(queue).q, figures |-> FiguresBegunNow]
    BY <1>t, <2>1, <2>2, <2>5 DEF ReadsWait
  <2>6. CASE holder' = holder /\ asked' = asked
    BY <1>t, <2>1, <2>2, <2>3, <2>6 DEF ReadsWait
  <2>7. CASE Head(queue).is = "read" /\ Head(queue).q \in Asked
               /\ Answer(Head(queue).q, kept) /\ holder' = holder
    <3>1. asked[Head(queue).q].is = "waiting"
      BY <2>1, <2>7 DEF ReadsWait
    <3>2. \A p \in Asked : p # Head(queue).q => asked'[p] = asked[p]
      BY <2>7, <3>1, Answered
    <3> QED
      BY <2>4, <2>7, <3>2
  <2> QED
    BY <1>4, <2>5, <2>6, <2>7, GrantCases
<1>5. CASE ReadEnds
  <2>1. holder' = NoTask /\ holder'.is # "read" /\ queue' = queue
    BY <1>5, ReadEndsCases DEF NoTask
  <2>2. \A p \in Asked : (holder.is = "read" => p # holder.q) => asked'[p] = asked[p]
    BY <1>5, <1>t, ReadEndsCases, Answered DEF ReadsWait, FiguresTypeOK
  <2> QED
    BY <1>t, <2>1, <2>2 DEF ReadsWait
<1>6. CASE Forget
  <2> DEFINE task == [is |-> "forget"]
  <2>1. task \in Waiters /\ queue' = Append(queue, task) /\ holder' = holder /\ asked' = asked
    BY <1>6 DEF Forget, Waiters
  <2> HIDE DEF task
  <2>2. /\ \A i \in DOMAIN queue : queue'[i] = queue[i]
        /\ queue'[Len(queue) + 1] = task
        /\ \A i \in DOMAIN queue' : i \in DOMAIN queue \/ i = Len(queue) + 1
    BY <2>1, AppendedToQueue
  <2>3. task.is # "read"
    BY DEF task
  <2> QED
    BY <2>1, <2>2, <2>3 DEF ReadsWait
<1> QED
  BY <1>1, <1>2, <1>3, <1>4, <1>5, <1>6 DEF FiguresNext

LEMMA FiguresTyped == FiguresSpec => [](FiguresTypeOK /\ ReadsWait)
<1> QED
  BY FiguresTypeInit, FiguresTypeStep, ReadsWaitStep, PTL DEF FiguresSpec

\* The status, the kept figures, the lock and the requests keep their types, for
\* any number of requests (CleanupJob).
THEOREM CleanupTypeCorrect == FiguresSpec => []FiguresTypeOK
  BY FiguresTyped, PTL

-----------------------------------------------------------------------------
(* A collection is seen *)

\* Figures that miss a collection.
Stale(figures) == figures # NoFigures /\ figures.collections # collections

\* forget_snapshot: once every collection has dropped the figures, figures that
\* miss one, kept or being read, have a second drop queued behind them.
StaleFollowed ==
  (forgets = 0 /\ (Stale(kept) \/ (holder # NoTask /\ Stale(holder.figures))))
    => \E i \in DOMAIN queue : queue[i].is = "forget"

LEMMA StaleStep ==
  FiguresTypeOK /\ StaleFollowed /\ [FiguresNext]_cleanupVars => StaleFollowed'
<1> SUFFICES ASSUME FiguresTypeOK, StaleFollowed, [FiguresNext]_cleanupVars PROVE StaleFollowed'
  OBVIOUS
<1>f. FiguresBegunNow.collections = collections
  BY DEF FiguresBegunNow
<1>1. CASE Begin \/ End \/ UNCHANGED cleanupVars
  BY <1>1 DEF Begin, End, cleanupVars, figureVars, StaleFollowed, Stale
<1>2. ASSUME NEW q \in Asked, AskKept(q) PROVE StaleFollowed'
  <2>1. UNCHANGED <<collections, forgets, kept, queue>>
    BY <1>2 DEF AskKept
  <2>2. holder' = holder \/ holder' = [is |-> "refresh", figures |-> FiguresBegunNow]
    BY <1>2 DEF AskKept
  <2> QED
    BY <1>f, <2>1, <2>2 DEF StaleFollowed, Stale
<1>3. CASE Forget \/ \E q \in Asked : AskRead(q)
  <2>1. PICK task \in Waiters : queue' = Append(queue, task) /\ (Forget => task.is = "forget")
    <3>1. CASE Forget
      <4>1. [is |-> "forget"] \in Waiters
        BY DEF Waiters
      <4> QED
        BY <3>1, <4>1 DEF Forget
    <3>2. CASE ~Forget
      <4>1. PICK q \in Asked : AskRead(q)
        BY <1>3, <3>2
      <4>2. [is |-> "read", q |-> q] \in Waiters
        BY DEF Waiters
      <4> QED
        BY <3>2, <4>1, <4>2 DEF AskRead
    <3> QED
      BY <3>1, <3>2
  <2>2. /\ \A i \in DOMAIN queue : i \in DOMAIN queue' /\ queue'[i] = queue[i]
        /\ Len(queue) + 1 \in DOMAIN queue' /\ queue'[Len(queue) + 1] = task
    BY <2>1, AppendedToQueue
  <2>3. CASE Forget
    BY <2>1, <2>2, <2>3 DEF StaleFollowed
  <2>4. CASE \E q \in Asked : AskRead(q)
    <3>1. UNCHANGED <<collections, forgets, kept, holder>>
      BY <2>4 DEF AskRead
    <3> QED
      BY <2>2, <3>1 DEF StaleFollowed, Stale
  <2> QED
    BY <1>3, <2>3, <2>4
<1>4. CASE Grant
  <2>1. /\ Head(queue) = queue[1] /\ holder = NoTask /\ UNCHANGED <<collections, forgets>>
        /\ \A i \in DOMAIN queue : i # 1 => i - 1 \in DOMAIN queue' /\ queue'[i - 1] = queue[i]
    BY <1>4, GrantCases, TailOfQueue
  <2>2. CASE kept' = NoFigures /\ holder' = holder
    BY <2>1, <2>2 DEF StaleFollowed, Stale
  <2>3. CASE /\ Head(queue).is = "read" /\ kept' = kept
             /\ holder' = holder \/ holder'.figures = FiguresBegunNow
    <3>1. \A i \in DOMAIN queue : queue[i].is = "forget" => i # 1
      BY <2>1, <2>3
    <3> QED
      BY <1>f, <2>1, <2>3, <3>1 DEF StaleFollowed, Stale
  <2> QED
    BY <1>4, <2>2, <2>3, GrantCases
<1>5. CASE ReadEnds
  BY <1>5, ReadEndsCases DEF StaleFollowed, Stale, HeldTasks, NoTask
<1>6. CASE Collect
  BY <1>6 DEF Collect, StaleFollowed, FiguresTypeOK
<1> QED
  BY <1>1, <1>2, <1>3, <1>4, <1>5, <1>6 DEF FiguresNext

\* "Since it began before the change and would store figures from before it":
\* what is kept once the collections are over and the lock is free was read after
\* the last of them, however many reads and collections overlapped.
THEOREM KeptFiguresFollowCollections == FiguresSpec => []KeptIsAfterCollection
<1>1. CleanupInit => StaleFollowed
  BY DEF CleanupInit, StaleFollowed, Stale, NoTask
<1>2. FiguresTypeOK /\ StaleFollowed => KeptIsAfterCollection
  <2>1. queue = <<>> => ~ \E i \in DOMAIN queue : queue[i].is = "forget"
    OBVIOUS
  <2> QED
    BY <2>1 DEF StaleFollowed, Stale, KeptIsAfterCollection
<1> QED
  BY <1>1, <1>2, FiguresTyped, StaleStep, PTL DEF FiguresSpec

-----------------------------------------------------------------------------
(* No request gets figures older than a cleanup it was told of *)

\* Figures are dated with the cleanups that had ended when their read began.
Dated(figures) == figures.at = figures.ends /\ figures.ends <= ends

\* cleaned_since's two dates are counted on one clock, and a run that is going on
\* has not finished (begin_kind resets it).
DatesAgree ==
  /\ job.finished = IF Running THEN 0 ELSE ends
  /\ kept # NoFigures => Dated(kept)
  /\ holder # NoTask => Dated(holder.figures)

\* What a request remembers of the moment it was asked is not ahead of now, and
\* is still so while the run it knew, which had ended, is the last one.
Remembers(before) ==
  /\ before.ends <= ends /\ before.run.n <= job.n
  /\ before.run.n = job.n /\ before.run.state # "running" => before.run = job /\ before.ends = ends

MemoriesHold ==
  \A q \in Asked : asked[q].is \in {"waiting", "answered"} => Remembers(asked[q].before)

\* The read that a request waits for began after it was asked.
ReadIsNewer == holder.is = "read" => holder.figures.ends >= asked[holder.q].before.ends

CurrentInv == DatesAgree /\ MemoriesHold /\ ReadIsNewer /\ FiguresAreCurrent

\* Figures served as they are kept are no older than a cleanup that had ended.
LEMMA KeptIsCurrent ==
  ASSUME FiguresTypeOK, DatesAgree, kept \in Figures, ~CleanedSince(kept),
         NEW before \in Memories, Remembers(before),
         before.run.state # "running", job.n = before.run.n
  PROVE  kept.ends >= before.ends
<1>1. before.run = job /\ before.ends = ends
  BY DEF Remembers
<1>2. kept # NoFigures
  BY DEF Figures, NoFigures
<1>3. job.finished = ends /\ kept.at = kept.ends
  BY <1>1, <1>2 DEF DatesAgree, Dated, Running
<1> QED
  BY <1>1, <1>3 DEF CleanedSince, FiguresTypeOK, Figures, Jobs

LEMMA DatesStep ==
  FiguresTypeOK /\ DatesAgree /\ [FiguresNext]_cleanupVars => DatesAgree'
<1> SUFFICES ASSUME FiguresTypeOK, DatesAgree, [FiguresNext]_cleanupVars PROVE DatesAgree'
  OBVIOUS
<1>f. FiguresBegunNow.at = ends /\ FiguresBegunNow.ends = ends
  BY DEF FiguresBegunNow
<1>t. /\ job \in Jobs /\ ends \in Nat
      /\ kept # NoFigures => kept.ends \in Nat
      /\ holder # NoTask => holder.figures.ends \in Nat
  BY DEF FiguresTypeOK, Figures, HeldTasks
<1>1. CASE Begin
  BY <1>1, <1>t DEF Begin, Begins, figureVars, DatesAgree, Dated, Running
<1>2. CASE End
  <2>1. PICK final \in {"completed", "failed"} :
          job' = [job EXCEPT !.state = final, !.finished = ends + 1]
    BY <1>2 DEF End, JobEnds
  <2>2. job'.state \in {"completed", "failed"} /\ job'.finished = ends + 1
    BY <1>t, <2>1 DEF Jobs
  <2>3. ends' = ends + 1 /\ UNCHANGED <<kept, holder>>
    BY <1>2 DEF End, JobEnds, figureVars
  <2> QED
    BY <1>t, <2>2, <2>3 DEF DatesAgree, Dated, Running
<1>3. CASE \/ UNCHANGED cleanupVars \/ Collect \/ Forget
           \/ \E q \in Asked : AskKept(q) \/ AskRead(q)
  <2>1. UNCHANGED <<job, ends>> /\ kept' \in {kept, NoFigures}
    BY <1>3 DEF cleanupVars, Collect, Forget, AskKept, AskRead
  <2>2. holder' = holder \/ holder' = [is |-> "refresh", figures |-> FiguresBegunNow]
    BY <1>3 DEF cleanupVars, Collect, Forget, AskKept, AskRead
  <2> QED
    BY <1>f, <1>t, <2>1, <2>2 DEF DatesAgree, Dated, Running
<1>4. CASE Grant
  <2>1. UNCHANGED <<job, ends>> /\ kept' \in {kept, NoFigures}
          /\ (holder' = holder \/ holder'.figures = FiguresBegunNow)
    BY <1>4, GrantCases
  <2> QED
    BY <1>f, <1>t, <2>1 DEF DatesAgree, Dated, Running
<1>5. CASE ReadEnds
  <2>1. UNCHANGED <<job, ends>> /\ kept' \in {kept, holder.figures} /\ holder # NoTask /\ holder' = NoTask
    BY <1>5, ReadEndsCases DEF ReadEnds
  <2> QED
    BY <2>1 DEF DatesAgree, Dated, Running
<1> QED
  BY <1>1, <1>2, <1>3, <1>4, <1>5 DEF FiguresNext

\* A cleanup that begins has a new number, one that ends had the last.
LEMMA RemembersStep ==
  ASSUME FiguresTypeOK, Begin \/ End \/ UNCHANGED <<job, ends>>,
         NEW before \in Memories, Remembers(before)
  PROVE  Remembers(before)'
<1>t. /\ job.n \in Nat /\ ends \in Nat /\ before.ends \in Nat /\ before.run.n \in Nat
  BY DEF FiguresTypeOK, Memories, Jobs
<1>1. CASE Begin
  BY <1>1, <1>t DEF Begin, Begins, Remembers
<1>2. CASE End
  <2>1. ends' = ends + 1 /\ job.state = "running" /\ job'.n = job.n
    BY <1>2 DEF End, JobEnds, Running, FiguresTypeOK, Jobs
  <2> QED
    BY <1>t, <2>1 DEF Remembers
<1>3. CASE UNCHANGED <<job, ends>>
  BY <1>3 DEF Remembers
<1> QED
  BY <1>1, <1>2, <1>3

LEMMA RemembersNow == FiguresTypeOK => Before \in Memories /\ Remembers(Before)
BY DEF FiguresTypeOK, Before, Memories, Remembers, Jobs

\* What a step does to one request: nothing, an answer with figures that are
\* current for it, or it starts waiting or fails.
LEMMA RequestCases ==
  ASSUME FiguresTypeOK, ReadsWait, CurrentInv, [FiguresNext]_cleanupVars, NEW p \in Asked
  PROVE  \/ asked'[p] = asked[p]
         \/ asked'[p] = [is |-> "failed"]
         \/ asked'[p] = [is |-> "waiting", before |-> Before] /\ UNCHANGED <<job, ends>>
         \/ /\ UNCHANGED <<job, ends>>
            /\ \E f \in Figures, before \in Memories :
                 /\ asked'[p] = Got(f, before) /\ Remembers(before)
                 /\ (before.run.state # "running" /\ job.n = before.run.n) => f.ends >= before.ends
<1>1. CASE Begin \/ End \/ Collect \/ Forget \/ UNCHANGED cleanupVars
  BY <1>1 DEF Begin, End, Collect, Forget, cleanupVars, figureVars
<1>w. \A q \in Asked : asked[q].is = "waiting" =>
        asked[q].before \in Memories /\ Remembers(asked[q].before)
  BY WaitingRequest DEF CurrentInv, MemoriesHold
<1>k. \A before \in Memories :
        (/\ kept \in Figures /\ ~CleanedSince(kept) /\ Remembers(before)
         /\ before.run.state # "running" /\ job.n = before.run.n) => kept.ends >= before.ends
  BY KeptIsCurrent DEF CurrentInv
<1>2. ASSUME NEW q \in Asked, AskKept(q)
      PROVE  \/ asked'[p] = asked[p]
             \/ /\ UNCHANGED <<job, ends>>
                /\ \E f \in Figures, before \in Memories :
                     /\ asked'[p] = Got(f, before) /\ Remembers(before)
                     /\ (before.run.state # "running" /\ job.n = before.run.n) => f.ends >= before.ends
  <2>1. /\ UNCHANGED <<job, ends>> /\ kept \in Figures /\ ~CleanedSince(kept)
        /\ p # q => asked'[p] = asked[p]
        /\ asked'[q] = Got(kept, Before)
    BY <1>2 DEF AskKept, FiguresTypeOK
  <2> QED
    BY <1>k, <2>1, RemembersNow
<1>3. ASSUME NEW q \in Asked, AskRead(q)
      PROVE  \/ asked'[p] = asked[p]
             \/ asked'[p] = [is |-> "waiting", before |-> Before] /\ UNCHANGED <<job, ends>>
  BY <1>3 DEF AskRead, FiguresTypeOK
<1>4. CASE Grant
  <2>1. CASE asked' = asked
    BY <2>1
  <2>2. CASE /\ Head(queue).is = "read" /\ Head(queue).q \in Asked
             /\ kept \in Figures /\ ~CleanedSince(kept) /\ Answer(Head(queue).q, kept)
    <3>1. asked[Head(queue).q].is = "waiting"
      BY <1>4, <2>2, GrantCases, TailOfQueue DEF ReadsWait
    <3>2. /\ asked'[Head(queue).q] = Got(kept, asked[Head(queue).q].before)
          /\ p # Head(queue).q => asked'[p] = asked[p]
      BY <2>2, <3>1, Answered
    <3> QED
      BY <1>4, <1>w, <1>k, <2>2, <3>1, <3>2, GrantCases
  <2> QED
    BY <1>4, <2>1, <2>2, GrantCases
<1>5. CASE ReadEnds
  <2>1. CASE asked' = asked
    BY <2>1
  <2>2. CASE holder.is = "read" /\ asked' = [asked EXCEPT ![holder.q] = [is |-> "failed"]]
    BY <1>5, <2>2, ReadEndsCases DEF FiguresTypeOK
  <2>3. CASE holder.is = "read" /\ Answer(holder.q, holder.figures)
    <3>1. holder.q \in Asked /\ holder.figures \in Figures /\ asked[holder.q].is = "waiting"
            /\ UNCHANGED <<job, ends>>
      BY <1>5, <2>3, ReadEndsCases DEF ReadsWait
    <3>2. /\ asked'[holder.q] = Got(holder.figures, asked[holder.q].before)
          /\ p # holder.q => asked'[p] = asked[p]
      BY <2>3, <3>1, Answered
    <3>3. holder.figures.ends >= asked[holder.q].before.ends
      BY <2>3 DEF CurrentInv, ReadIsNewer
    <3> QED
      BY <1>w, <3>1, <3>2, <3>3
  <2> QED
    BY <1>5, <2>1, <2>2, <2>3, ReadEndsCases
<1> QED
  BY <1>1, <1>2, <1>3, <1>4, <1>5 DEF FiguresNext

LEMMA RequestsStep ==
  FiguresTypeOK /\ ReadsWait /\ CurrentInv /\ [FiguresNext]_cleanupVars
    => MemoriesHold' /\ FiguresAreCurrent'
<1> SUFFICES ASSUME FiguresTypeOK, ReadsWait, CurrentInv, [FiguresNext]_cleanupVars, NEW p \in Asked
             PROVE  /\ asked'[p].is \in {"waiting", "answered"} => Remembers(asked[p].before)'
                    /\ (/\ asked'[p].is = "answered"
                        /\ asked'[p].before.run.state # "running" /\ asked'[p].run = asked'[p].before.run.n)
                          => asked'[p].figures.ends >= asked'[p].before.ends
  BY DEF MemoriesHold, FiguresAreCurrent, Remembers
<1>1. Begin \/ End \/ UNCHANGED <<job, ends>>
  BY GrantCases, ReadEndsCases
     DEF FiguresNext, cleanupVars, Collect, Forget, AskKept, AskRead
<1>2. CASE asked'[p] = asked[p]
  <2>1. asked[p].is \in {"waiting", "answered"} => asked[p].before \in Memories
    BY DEF FiguresTypeOK, AskedStates
  <2>2. asked[p].is \in {"waiting", "answered"} => Remembers(asked[p].before)
    BY DEF CurrentInv, MemoriesHold
  <2>3. \A m \in Memories : Remembers(m) => Remembers(m)'
    BY <1>1, RemembersStep
  <2>4. asked'[p].is \in {"waiting", "answered"} => Remembers(asked[p].before)'
    BY <1>2, <2>1, <2>2, <2>3 DEF Remembers, Memories
  <2> QED
    BY <1>2, <2>4 DEF CurrentInv, FiguresAreCurrent
<1>3. CASE asked'[p] = [is |-> "failed"]
  BY <1>3
<1>4. CASE asked'[p] = [is |-> "waiting", before |-> Before] /\ UNCHANGED <<job, ends>>
  <2>1. asked'[p].is = "waiting" /\ asked'[p].before = Before
    BY <1>4
  <2> QED
    BY <1>4, <2>1, RemembersNow DEF Remembers
<1>5. CASE /\ UNCHANGED <<job, ends>>
           /\ \E f \in Figures, before \in Memories :
                /\ asked'[p] = Got(f, before) /\ Remembers(before)
                /\ (before.run.state # "running" /\ job.n = before.run.n) => f.ends >= before.ends
  BY <1>5 DEF Got, Remembers
<1> QED
  BY <1>2, <1>3, <1>4, <1>5, RequestCases

LEMMA ReadIsNewerStep ==
  FiguresTypeOK /\ ReadsWait /\ CurrentInv /\ [FiguresNext]_cleanupVars => ReadIsNewer'
<1> SUFFICES ASSUME FiguresTypeOK, ReadsWait, CurrentInv, [FiguresNext]_cleanupVars,
                    holder'.is = "read"
             PROVE  holder'.figures.ends >= asked'[holder'.q].before.ends
  BY DEF ReadIsNewer
<1>1. CASE Begin \/ End \/ Collect \/ Forget \/ UNCHANGED cleanupVars
  BY <1>1 DEF Begin, End, Collect, Forget, cleanupVars, figureVars, CurrentInv, ReadIsNewer
<1>2. ASSUME NEW q \in Asked, AskKept(q) \/ AskRead(q)
      PROVE  holder'.figures.ends >= asked'[holder'.q].before.ends
  <2>1. holder' = holder
    BY <1>2 DEF AskKept, AskRead
  <2>2. asked[holder.q].is = "waiting" /\ holder.q \in Asked
    BY <2>1 DEF ReadsWait, FiguresTypeOK, HeldTasks, NoTask
  <2>3. asked'[holder.q] = asked[holder.q]
    BY <1>2, <2>2 DEF AskKept, AskRead, FiguresTypeOK
  <2> QED
    BY <2>1, <2>3 DEF CurrentInv, ReadIsNewer
<1>3. CASE Grant
  <2>1. /\ holder' = [is |-> "read", q |-> Head(queue).q, figures |-> FiguresBegunNow]
        /\ asked' = asked /\ Head(queue).q \in Asked /\ Head(queue).is = "read"
    BY <1>3, GrantCases DEF NoTask
  <2>2. asked[Head(queue).q].is = "waiting"
    BY <1>3, <2>1, GrantCases, TailOfQueue DEF ReadsWait
  <2>3. asked[Head(queue).q].before \in Memories /\ Remembers(asked[Head(queue).q].before)
    BY <2>1, <2>2, WaitingRequest DEF CurrentInv, MemoriesHold
  <2> QED
    BY <2>1, <2>3 DEF FiguresBegunNow, Remembers, Memories, FiguresTypeOK
<1>4. CASE ReadEnds
  BY <1>4, ReadEndsCases DEF NoTask
<1> QED
  BY <1>1, <1>2, <1>3, <1>4 DEF FiguresNext

\* "After a cleanup, does a request wait for a read": a request is never answered
\* with figures from before a cleanup that had ended when it asked, unless
\* another has begun, whoever read, kept and shared them.
THEOREM AnsweredFiguresAreCurrent == FiguresSpec => []FiguresAreCurrent
<1>1. CleanupInit => CurrentInv
  BY DEF CleanupInit, CurrentInv, DatesAgree, Running, NoTask, MemoriesHold, ReadIsNewer,
         FiguresAreCurrent
<1>2. FiguresTypeOK /\ ReadsWait /\ CurrentInv /\ [FiguresNext]_cleanupVars => CurrentInv'
  BY DatesStep, RequestsStep, ReadIsNewerStep DEF CurrentInv
<1>3. CurrentInv => FiguresAreCurrent
  BY DEF CurrentInv
<1> QED
  BY <1>1, <1>2, <1>3, FiguresTyped, PTL DEF FiguresSpec
-----------------------------------------------------------------------------
(* The storage page, for any number of cleanups, restarts and lost answers *)

JobStates == {"idle", "running", "completed", "failed"}

Statuses == [n : 0..MaxJobs, state : JobStates]

Polls == [is : {"none", "asked"}] \cup [is : {"answered"}, status : Statuses]

Starts == [is : {"idle", "asked", "failed"}]
     \cup [is : {"started"}, status : Statuses]
     \cup [is : {"settled"}, follow : {<<>>} \cup {<<s>> : s \in Statuses}]

PageTypeOK ==
  /\ job \in [n : 0..MaxJobs, state : JobStates, finished : Nat]
  /\ ends \in Nat
  /\ open \in BOOLEAN
  /\ status \in [n : 0..MaxJobs, state : JobStates \cup {"unknown"}]
  /\ poll \in Polls
  /\ seen \in 0..MaxJobs
  /\ start \in Starts
  /\ waits \subseteq {"status", "counts"}
  /\ told \in [0..MaxJobs -> Nat]
  /\ {starts, restarts, failures} \subseteq Nat

Landed == poll.is = "answered"

\* The run seen is no newer than the server's, and an answer on its way is not
\* older than it: a page that is left awaits none.
SeenBeforeAnswer ==
  /\ seen <= job.n /\ status.n <= job.n
  /\ Landed => seen <= poll.status.n /\ poll.status.n <= job.n
  /\ ~open => poll.is = "none"

\* A run started here was running when the server said so, and what is read after
\* the mutation has settled is not from before it.
StartedBeforeAnswer ==
  /\ start.is = "started" => start.status.state = "running" /\ start.status.n <= job.n
  /\ start.is = "settled" /\ start.follow # <<>> =>
       /\ start.follow[1].state = "running" /\ start.follow[1].n <= job.n
       /\ Landed => start.follow[1].n <= poll.status.n

PageInv == PageTypeOK /\ SeenBeforeAnswer /\ StartedBeforeAnswer
LEMMA CacheCases ==
  ASSUME NEW s, Cache(s), open \in BOOLEAN
  PROVE  /\ status' = s
         /\ \/ ~open /\ UNCHANGED <<seen, told>>
            \/ open /\ s.state = "running" /\ seen' = s.n /\ told' = told
            \/ /\ open /\ s.state # "running" /\ seen' = 0
               /\ told' = IF seen = 0 THEN told ELSE [told EXCEPT ![s.n] = @ + 1]
BY DEF Cache

LEMMA CacheType ==
  ASSUME PageTypeOK, NEW s \in Statuses, Cache(s)
  PROVE  /\ status' \in Statuses /\ status' = s
         /\ seen' \in 0..MaxJobs /\ seen' \in {seen, s.n, 0}
         /\ told' \in [0..MaxJobs -> Nat]
<1>1. 0 \in 0..MaxJobs /\ s.n \in 0..MaxJobs
  BY CleanupAssumption DEF Statuses
<1>2. [told EXCEPT ![s.n] = @ + 1] \in [0..MaxJobs -> Nat]
  BY <1>1 DEF PageTypeOK
<1> QED
  BY <1>1, <1>2, CacheCases DEF PageTypeOK

\* What the server says of its job.
LEMMA StatusType == ASSUME PageTypeOK PROVE Status \in Statuses
BY DEF PageTypeOK, Status, Statuses

LEMMA FollowedType ==
  ASSUME PageTypeOK, start.is = "settled", start.follow # <<>>
  PROVE  start.follow[1] \in Statuses
BY DEF PageTypeOK, Starts

LEMMA AnsweredType ==
  ASSUME PageTypeOK, Landed
  PROVE  poll.status \in Statuses
BY DEF PageTypeOK, Polls, Landed

\* A run begins.
LEMMA BeginsType ==
  ASSUME PageTypeOK, job.n < MaxJobs, Begins
  PROVE  /\ job' \in [n : 0..MaxJobs, state : JobStates, finished : Nat]
         /\ job'.n = job.n + 1 /\ job'.state = "running"
BY CleanupAssumption DEF PageTypeOK, Begins, JobStates

LEMMA PageInvInit == CleanupInit /\ PageInit => PageInv
<1> SUFFICES ASSUME CleanupInit, PageInit PROVE PageInv
  OBVIOUS
<1>1. 0 \in 0..MaxJobs /\ told \in [0..MaxJobs -> Nat]
  BY CleanupAssumption DEF PageInit
<1>2. PageTypeOK
  BY <1>1 DEF CleanupInit, PageInit, PageTypeOK, JobStates, Polls, NoPoll, Starts, Idle
<1> QED
  BY <1>2 DEF CleanupInit, PageInit, PageInv, SeenBeforeAnswer, StartedBeforeAnswer, Landed,
              NoPoll, Idle

LEMMA PageTypeStep == PageTypeOK /\ [PageNext]_<<cleanupVars, pageVars>> => PageTypeOK'
<1> SUFFICES ASSUME PageTypeOK, [PageNext]_<<cleanupVars, pageVars>> PROVE PageTypeOK'
  OBVIOUS
<1>n. 0 \in 0..MaxJobs /\ [is |-> "asked"] \in Polls /\ NoPoll \in Polls /\ Idle \in Starts
  BY CleanupAssumption DEF Polls, NoPoll, Starts, Idle
<1>1. CASE UNCHANGED <<cleanupVars, pageVars>>
  BY <1>1 DEF cleanupVars, pageVars, PageTypeOK
<1>2. CASE ServerBegins
  BY <1>2, BeginsType DEF ServerBegins, Begin, pageVars, PageTypeOK
<1>3. CASE ServerEnds
  <2>1. PICK ending \in {"completed", "failed"} :
          job' = [job EXCEPT !.state = ending, !.finished = ends + 1]
    BY <1>3 DEF ServerEnds, End, JobEnds
  <2>2. job' \in [n : 0..MaxJobs, state : JobStates, finished : Nat]
    <3>1. ends + 1 \in Nat /\ ending \in JobStates
      BY DEF PageTypeOK, JobStates
    <3> QED
      BY <2>1, <3>1 DEF PageTypeOK
  <2> QED
    BY <1>3, <2>2 DEF ServerEnds, End, JobEnds, pageVars, PageTypeOK
<1>4. CASE Restart
  <2>1. job' \in [n : 0..MaxJobs, state : JobStates, finished : Nat]
    BY <1>4 DEF Restart, PageTypeOK, JobStates
  <2> QED
    BY <1>4, <2>1 DEF Restart, PageTypeOK
<1>5. CASE Visit
  BY <1>5, <1>n DEF Visit, PageTypeOK
<1>6. CASE Leave
  BY <1>6, <1>n DEF Leave, PageTypeOK
<1>7. CASE Poll \/ Focus
  BY <1>7, <1>n DEF Poll, Focus, PageTypeOK
<1>8. CASE AnswerPoll
  <2>1. poll' \in Polls
    BY <1>8, StatusType DEF AnswerPoll, Polls
  <2> QED
    BY <1>8, <2>1 DEF AnswerPoll, PageTypeOK
<1>9. CASE PollLands
  <2>1. poll.status \in Statuses
    BY <1>9, AnsweredType DEF PollLands, Landed
  <2>2. poll' \in Polls
    BY <1>9, <1>n DEF PollLands, PollAfter
  <2>3. status' \in Statuses /\ seen' \in 0..MaxJobs /\ told' \in [0..MaxJobs -> Nat]
    BY <1>9, <2>1, CacheType DEF PollLands
  <2> QED
    BY <1>9, <2>2, <2>3 DEF PollLands, PageTypeOK, Statuses
<1>10. CASE PollFails
  BY <1>10, <1>n DEF PollFails, PageTypeOK
<1>11. CASE Start
  BY <1>11 DEF Start, Starts, PageTypeOK
<1>12. CASE AnswerStart
  <2>1. job' \in [n : 0..MaxJobs, state : JobStates, finished : Nat]
    BY <1>12, BeginsType DEF AnswerStart, PageTypeOK
  <2>2. [n |-> job'.n, state |-> job'.state] \in Statuses
    BY <2>1 DEF Statuses
  <2>3. start' \in Starts
    BY <1>12, <2>2 DEF AnswerStart, Starts
  <2> QED
    BY <1>12, <2>1, <2>3 DEF AnswerStart, figureVars, PageTypeOK
<1>13. CASE Settle
  <2>1. start.is = "started" => start.status \in Statuses
    BY DEF PageTypeOK, Starts
  <2>2. start' \in Starts
    BY <1>13, <2>1 DEF Settle, Starts
  <2> QED
    BY <1>13, <1>n, <2>2 DEF Settle, PageTypeOK
<1>14. CASE Counted
  BY <1>14 DEF Counted, PageTypeOK
<1>15. CASE Follow
  <2>1. CASE start.follow = <<>>
    BY <1>15, <1>n, <2>1 DEF Follow, PageTypeOK
  <2>2. CASE start.follow # <<>>
    <3>1. status' \in Statuses /\ seen' \in 0..MaxJobs /\ told' \in [0..MaxJobs -> Nat]
      BY <1>15, <2>2, FollowedType, CacheType DEF Follow
    <3> QED
      BY <1>15, <1>n, <3>1 DEF Follow, PageTypeOK, Statuses
  <2> QED
    BY <2>1, <2>2
<1> QED
  BY <1>1, <1>2, <1>3, <1>4, <1>5, <1>6, <1>7, <1>8, <1>9, <1>10, <1>11, <1>12, <1>13,
     <1>14, <1>15 DEF PageNext

LEMMA JobKeepsItsNumber ==
  ASSUME PageTypeOK, ServerEnds \/ Restart
  PROVE  job'.n = job.n
<1>1. CASE ServerEnds
  BY <1>1 DEF ServerEnds, End, JobEnds, PageTypeOK
<1>2. CASE Restart
  BY <1>2 DEF Restart, PageTypeOK
<1> QED
  BY <1>1, <1>2

LEMMA SeenBeforeAnswerStep ==
  PageInv /\ [PageNext]_<<cleanupVars, pageVars>> => SeenBeforeAnswer'
<1> SUFFICES ASSUME PageInv, [PageNext]_<<cleanupVars, pageVars>> PROVE SeenBeforeAnswer'
  OBVIOUS
<1>t. PageTypeOK /\ job.n \in Nat /\ status.n \in Nat /\ seen \in Nat
  BY DEF PageInv, PageTypeOK
<1>a. Landed => poll.status \in Statuses /\ poll.status.n \in Nat
  BY <1>t, AnsweredType DEF Statuses
<1>1. CASE UNCHANGED <<cleanupVars, pageVars>>
  BY <1>1 DEF cleanupVars, pageVars, PageInv, SeenBeforeAnswer, Landed
<1>2. CASE ServerBegins
  <2>1. job'.n = job.n + 1
    BY <1>2, <1>t, BeginsType DEF ServerBegins, Begin
  <2> QED
    BY <1>2, <1>t, <1>a, <2>1 DEF ServerBegins, pageVars, PageInv, SeenBeforeAnswer, Landed
<1>3. CASE ServerEnds \/ Restart
  <2>1. job'.n = job.n
    BY <1>3, <1>t, JobKeepsItsNumber
  <2>2. UNCHANGED <<open, status, poll, seen>>
    BY <1>3 DEF ServerEnds, Restart, pageVars
  <2> QED
    BY <2>1, <2>2 DEF PageInv, SeenBeforeAnswer, Landed
<1>4. CASE Visit
  BY <1>4, <1>t DEF Visit, PageInv, SeenBeforeAnswer, Landed
<1>5. CASE Leave
  BY <1>5, <1>t DEF Leave, PageInv, SeenBeforeAnswer, Landed, NoPoll
<1>6. CASE Poll \/ Focus
  BY <1>6 DEF Poll, Focus, PageInv, SeenBeforeAnswer, Landed
<1>7. CASE AnswerPoll
  BY <1>7, <1>t DEF AnswerPoll, PageInv, SeenBeforeAnswer, Landed, Status
<1>8. CASE PollLands
  <2>1. Landed /\ Cache(poll.status) /\ UNCHANGED <<job, open>>
    BY <1>8 DEF PollLands, Landed
  <2>2. status' = poll.status /\ seen' \in {seen, poll.status.n, 0}
    BY <2>1, <1>a, <1>t, CacheType
  <2>3. poll'.is \in {"asked", "none"} /\ (~open => poll'.is = "none")
    BY <1>8 DEF PollLands, PollAfter, Announces, NoPoll
  <2> QED
    BY <2>1, <2>2, <2>3, <1>a, <1>t DEF PageInv, SeenBeforeAnswer, Landed
<1>9. CASE PollFails
  BY <1>9 DEF PollFails, PageInv, SeenBeforeAnswer, Landed, NoPoll
<1>10. CASE Start \/ Counted
  BY <1>10 DEF Start, Counted, PageInv, SeenBeforeAnswer, Landed
<1>11. CASE AnswerStart
  <2>1. job'.n \in Nat /\ job'.n >= job.n
    BY <1>11, <1>t, BeginsType DEF AnswerStart
  <2> QED
    BY <1>11, <1>t, <1>a, <2>1 DEF AnswerStart, PageInv, SeenBeforeAnswer, Landed
<1>12. CASE Settle
  BY <1>12 DEF Settle, PageInv, SeenBeforeAnswer, Landed
<1>13. CASE Follow
  <2>1. CASE start.follow = <<>>
    BY <1>13, <2>1 DEF Follow, PageInv, SeenBeforeAnswer, Landed
  <2>2. CASE start.follow # <<>>
    <3>1. Cache(start.follow[1]) /\ UNCHANGED <<job, open, poll>>
      BY <1>13, <2>2 DEF Follow
    <3>2. start.is = "settled" /\ start.follow[1] \in Statuses /\ start.follow[1].n \in Nat
      BY <1>13, <1>t, <2>2, FollowedType DEF Follow, Statuses
    <3>3. status' = start.follow[1] /\ seen' \in {seen, start.follow[1].n, 0}
      BY <3>1, <3>2, <1>t, CacheType
    <3>4. start.follow[1].n <= job.n /\ (Landed => start.follow[1].n <= poll.status.n)
      BY <2>2, <3>2 DEF PageInv, StartedBeforeAnswer
    <3> QED
      BY <1>a, <1>t, <3>1, <3>2, <3>3, <3>4 DEF PageInv, SeenBeforeAnswer, Landed
  <2> QED
    BY <2>1, <2>2
<1> QED
  BY <1>1, <1>2, <1>3, <1>4, <1>5, <1>6, <1>7, <1>8, <1>9, <1>10, <1>11, <1>12, <1>13
  DEF PageNext

LEMMA StartedBeforeAnswerStep ==
  PageInv /\ [PageNext]_<<cleanupVars, pageVars>> => StartedBeforeAnswer'
<1> SUFFICES ASSUME PageInv, [PageNext]_<<cleanupVars, pageVars>> PROVE StartedBeforeAnswer'
  OBVIOUS
<1>t. PageTypeOK /\ job.n \in Nat
  BY DEF PageInv, PageTypeOK
<1>a. start.is = "started" => start.status \in Statuses /\ start.status.n \in Nat
  BY <1>t DEF PageTypeOK, Starts, Statuses
<1>f. start.is = "settled" /\ start.follow # <<>> => start.follow[1].n \in Nat
  BY <1>t, FollowedType DEF Statuses
<1>1. CASE UNCHANGED <<cleanupVars, pageVars>>
  BY <1>1 DEF cleanupVars, pageVars, PageInv, StartedBeforeAnswer, Landed
<1>2. CASE ServerBegins
  <2>1. job'.n = job.n + 1
    BY <1>2, <1>t, BeginsType DEF ServerBegins, Begin
  <2> QED
    BY <1>2, <1>t, <1>a, <1>f, <2>1 DEF ServerBegins, pageVars, PageInv, StartedBeforeAnswer, Landed
<1>3. CASE ServerEnds \/ Restart
  <2>1. job'.n = job.n
    BY <1>3, <1>t, JobKeepsItsNumber
  <2>2. UNCHANGED <<poll, start>>
    BY <1>3 DEF ServerEnds, Restart, pageVars
  <2> QED
    BY <2>1, <2>2 DEF PageInv, StartedBeforeAnswer, Landed
<1>4. CASE Visit \/ Leave \/ Poll \/ Focus \/ PollFails
  BY <1>4 DEF Visit, Leave, Poll, Focus, PollFails, PageInv, StartedBeforeAnswer, Landed, NoPoll
<1>5. CASE AnswerPoll
  BY <1>5, <1>t DEF AnswerPoll, PageInv, StartedBeforeAnswer, Landed, Status
<1>6. CASE PollLands
  <2>1. poll'.is \in {"asked", "none"}
    BY <1>6 DEF PollLands, PollAfter, NoPoll
  <2> QED
    BY <1>6, <2>1 DEF PollLands, PageInv, StartedBeforeAnswer, Landed
<1>7. CASE Start
  BY <1>7 DEF Start, StartedBeforeAnswer
<1>8. CASE Counted
  BY <1>8 DEF Counted, PageInv, StartedBeforeAnswer, Landed
<1>9. CASE AnswerStart
  <2>1. CASE start'.is = "failed"
    BY <2>1 DEF StartedBeforeAnswer
  <2>2. CASE start' = [is |-> "started", status |-> [n |-> job'.n, state |-> job'.state]] /\ Begins
                 /\ job.n < MaxJobs
    <3>1. job'.n \in Nat /\ job'.state = "running"
      BY <1>t, <2>2, BeginsType
    <3> QED
      BY <2>2, <3>1 DEF StartedBeforeAnswer
  <2> QED
    BY <1>9, <2>1, <2>2 DEF AnswerStart
<1>10. CASE Settle
  <2>1. start'.is = "settled" /\ job' = job
    BY <1>10 DEF Settle
  <2>2. ~Landed'
    BY <1>10 DEF Settle, PageInv, PageTypeOK, SeenBeforeAnswer, Landed
  <2>3. start.is = "started" => start'.follow[1] = start.status
    BY <1>10 DEF Settle
  <2>4. start.is # "started" => start'.follow = <<>>
    BY <1>10 DEF Settle
  <2> QED
    BY <2>1, <2>2, <2>3, <2>4 DEF PageInv, StartedBeforeAnswer
<1>11. CASE Follow
  BY <1>11 DEF Follow, Idle, StartedBeforeAnswer
<1> QED
  BY <1>1, <1>2, <1>3, <1>4, <1>5, <1>6, <1>7, <1>8, <1>9, <1>10, <1>11 DEF PageNext

LEMMA PageInvariant == PageSpec => []PageInv
<1>1. CleanupInit /\ PageInit => PageInv
  BY PageInvInit
<1>2. PageInv /\ [PageNext]_<<cleanupVars, pageVars>> => PageInv'
  BY PageTypeStep, SeenBeforeAnswerStep, StartedBeforeAnswerStep DEF PageInv
<1> QED
  BY <1>1, <1>2, PTL DEF PageSpec

\* The page's state as the hook and the server keep it.
THEOREM PageTypeCorrect == PageSpec => []PageTypeOK
<1>1. PageInv => PageTypeOK
  BY DEF PageInv
<1> QED
  BY <1>1, PageInvariant, PTL

\* An announcement is of the status that reaches the cache, and of a run seen.
LEMMA AnnouncementStep ==
  ASSUME PageInv, [PageNext]_<<cleanupVars, pageVars>>,
         NEW k \in DOMAIN told, told'[k] # told[k]
  PROVE  seen # 0 /\ k >= seen
<1>t. PageTypeOK /\ told \in [0..MaxJobs -> Nat] /\ open \in BOOLEAN
  BY DEF PageInv, PageTypeOK
<1>1. PollLands \/ (Follow /\ start.follow # <<>>)
  BY DEF PageNext, ServerBegins, ServerEnds, Restart, Visit, Leave, Poll, Focus, AnswerPoll,
         PollFails, Start, AnswerStart, Settle, Counted, Follow, pageVars
<1>2. CASE PollLands
  <2>1. Landed /\ Cache(poll.status)
    BY <1>2 DEF PollLands, Landed
  <2>2. seen # 0 /\ told' = [told EXCEPT ![poll.status.n] = @ + 1]
    BY <2>1, <1>t, CacheCases
  <2>3. k = poll.status.n
    BY <2>2, <1>t
  <2> QED
    BY <2>1, <2>2, <2>3, <1>t, AnsweredType DEF PageInv, PageTypeOK, SeenBeforeAnswer, Statuses
<1>3. CASE Follow /\ start.follow # <<>>
  <2>1. Cache(start.follow[1]) /\ start.follow[1].state = "running"
    BY <1>3 DEF Follow, PageInv, StartedBeforeAnswer
  <2> QED
    BY <2>1, <1>t, CacheCases
<1> QED
  BY <1>1, <1>2, <1>3

\* "Only a job seen running is announced when it stops, not the last one's
\* outcome on arrival": whatever polls, restarts and mutations interleave, an
\* answer on its way is of the run seen or a later one.
THEOREM OutcomesAreOfTheRunSeen == PageSpec => NeverAnOldOutcome
<1>1. PageInv /\ [PageNext]_<<cleanupVars, pageVars>> =>
        [\A run \in DOMAIN told : told'[run] # told[run] =>
           seen # 0 /\ run >= seen]_<<cleanupVars, pageVars>>
  BY AnnouncementStep
<1>2. PageSpec => [][\A run \in DOMAIN told : told'[run] # told[run] =>
           seen # 0 /\ run >= seen]_<<cleanupVars, pageVars>>
  BY <1>1, PageInvariant, PTL DEF PageSpec
<1> QED
  BY <1>2 DEF NeverAnOldOutcome
==============================================================================
