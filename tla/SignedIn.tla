------------------------------- MODULE SignedIn -------------------------------
(***************************************************************************)
(* Who the dashboard takes its reader to be, in one browser tab: the       *)
(* session store and its memo of /auth/me, the guards of the router, the   *)
(* writes that publish a user, the query cache that is emptied when the    *)
(* reader changes, and the language the screen is in.                      *)
(*                                                                         *)
(* A request is carried out at the server and answered later, so answers   *)
(* come in any order.  Other tabs share the cookie and nothing else.       *)
(***************************************************************************)
EXTENDS Integers, FiniteSets

CONSTANTS
  Users,             \* the accounts
  Nobody,            \* no account: an anonymous reader
  Unknown,           \* no answer yet, or none that says who is asking
  Writers,           \* controls that save a preference: "language", "zone"
  Others,            \* the accounts other tabs may sign in as
  Reads,             \* bound: the requests to /auth/me, each used once
  MaxSignIns,        \* bound: sign-ins of this tab, and ends of its session
  MaxSaves           \* bound: preferences saved

ASSUME SessionAssumption ==
  /\ Nobody \notin Users /\ Unknown \notin Users \cup {Nobody}
  /\ Writers \subseteq {"language", "zone"} /\ Others \subseteq Users
  /\ {MaxSignIns, MaxSaves} \subseteq Nat

VARIABLES
  cookie,            \* the server's session for this browser's cookie
  language,          \* users.language of each account: how often it was changed
  read,              \* the requests to /auth/me
  memo,              \* inFlight: nothing, a request, or a user it resolved to
  settled,           \* the last session published
  guard,             \* the request the router's guard waits for, if any
  page,              \* what the tab shows
  fetch,             \* the page's read in flight
  cache,             \* the query cache's entries
  leaving,           \* the sign-outs in flight: the page's, and those of pages left
  write,             \* the preference each control is saving
  screen,            \* the language the screen is in, by the same count
  signIns, saves,
  cleared            \* history: how often the tab has dropped its session

tabVars == <<cookie, language, read, memo, settled, guard, page, fetch, cache,
          leaving, write, screen, signIns, saves, cleared>>

Nothing == [is |-> "nothing"]

\* A user as an answer carries it: with the row as it was when it was read, and
\* for the history with what proved it and the session it was asked in.
Resolved(who, row, by, since) ==
  [is |-> "user", who |-> who, language |-> row, by |-> by, since |-> since]
Waiting(r) == [is |-> "read", read |-> r]

TabInit ==
  /\ cookie \in Users \cup {Nobody}
  /\ language = [u \in Users |-> 0]
  /\ read = [r \in Reads |-> Nothing]
  /\ memo = Nothing
  /\ settled = Unknown
  /\ guard = Nothing
  /\ page = "opening"
  /\ fetch = Nothing
  /\ cache = {}
  /\ leaving = [here |-> FALSE, behind |-> 0]
  /\ write = [w \in Writers |-> Nothing]
  /\ screen = 0
  /\ signIns = 0 /\ saves = 0
  /\ cleared = 0

-----------------------------------------------------------------------------
(* The store *)

\* clearOnUserChange: who a cached read belongs to.
Reader(s) == IF s \in Users THEN s ELSE Nobody

\* A mutant: the listener follows sign-outs only.
PublishLeaving(who) ==
  /\ settled' = who
  /\ IF who # Nobody \/ Reader(settled) = Nobody THEN UNCHANGED <<cache, fetch>>
     ELSE cache' = {} /\ fetch' = Nothing

\* publish and its listener: a change of reader empties the cache and cancels
\* what it was waiting for.
Publish(who) ==
  /\ settled' = who
  /\ IF Reader(who) = Reader(settled) THEN UNCHANGED <<cache, fetch>>
     ELSE cache' = {} /\ fetch' = Nothing

\* session.set, with the user an answer proved.
Set(who, row, by) ==
  /\ memo' = Resolved(who, row, by, cleared)
  /\ Publish(who)

\* session.clear
Clear ==
  /\ memo' = Nothing
  /\ Publish(Nobody)
  /\ cleared' = cleared + 1

\* What a row says at the server.
RowOf(who) == IF who \in Users THEN language[who] ELSE 0

\* ensure: what is memoised, or a new request.  A resolved memo needs none.
Asks == memo.is = "nothing"

Ask(r) ==
  /\ read[r] = Nothing
  /\ read' = [read EXCEPT ![r] = [is |-> "asked", since |-> cleared]]
  /\ memo' = Waiting(r)

-----------------------------------------------------------------------------
(* The guards *)

\* Where a guard's answer leads (_authenticated.tsx, index.tsx): only an
\* anonymous reader is sent to the sign-in page.
LeadsTo(who) == CASE who = Nobody -> "login"
                  [] who = Unknown -> "outage"
                  [] OTHER -> "inside"

\* Another page is shown. A sign-out in flight goes on without its page, and
\* then clears the session and leads nowhere (mutate's onSettled).
Show(next) ==
  /\ page' = next
  /\ leaving' = IF leaving.here /\ next # "inside"
                THEN [here |-> FALSE, behind |-> leaving.behind + 1] ELSE leaving

\* A page behind the gate is opened: by the reader, or by a sign-in.
Open ==
  /\ guard = Nothing
  /\ \/ /\ memo.is = "user"
        /\ LeadsTo(memo.who) # page
        /\ Show(LeadsTo(memo.who))
        /\ UNCHANGED <<guard, read, memo>>
     \/ /\ memo.is = "read"
        /\ guard' = memo
        /\ UNCHANGED <<page, leaving, read, memo>>
     \/ /\ Asks
        /\ \E r \in Reads : Ask(r) /\ guard' = Waiting(r)
        /\ UNCHANGED <<page, leaving>>
  /\ UNCHANGED <<cookie, language, settled, fetch, cache, write, screen,
                 signIns, saves, cleared>>

\* A link to such a page is hovered: the guard runs and leads nowhere.
Hover ==
  /\ Asks
  /\ \E r \in Reads : Ask(r)
  /\ UNCHANGED <<cookie, language, settled, guard, page, fetch, cache, leaving,
                 write, screen, signIns, saves, cleared>>

AnswerRead(r) ==
  /\ read[r].is = "asked"
  /\ \E who \in {cookie, Unknown} :
       read' = [read EXCEPT ![r] = [is |-> "answered", who |-> who, language |-> RowOf(who),
                                    since |-> read[r].since]]
  /\ UNCHANGED <<cookie, language, memo, settled, guard, page, fetch, cache, leaving,
                 write, screen, signIns, saves, cleared>>

\* read().then(publish): published whatever has happened since; the memo keeps
\* the answer if it is still this request's, and forgets it if there was none.
Forgets(r, who) == memo = Waiting(r) /\ who = Unknown

\* A mutant: the answer is remembered after a clear too.
RememberedAnyway(r) ==
  IF read[r].who = Unknown THEN Nothing
  ELSE Resolved(read[r].who, read[r].language, "read", read[r].since)

Remembered(r) ==
  CASE memo # Waiting(r) -> memo
    [] Forgets(r, read[r].who) -> Nothing
    [] OTHER -> Resolved(read[r].who, read[r].language, "read", read[r].since)

Deliver(r) ==
  /\ read[r].is = "answered"
  /\ Publish(read[r].who)
  /\ memo' = Remembered(r)
  /\ read' = [read EXCEPT ![r] = [is |-> "done"]]
  /\ IF guard = Waiting(r)
     THEN guard' = Nothing /\ Show(LeadsTo(read[r].who))
     ELSE UNCHANGED <<guard, page, leaving>>
  /\ UNCHANGED <<cookie, language, write, screen, signIns, saves, cleared>>

-----------------------------------------------------------------------------
(* Signing in and out *)

\* login, confirmSsoLink, acceptInvitation: the answer brings the cookie and the
\* user, and the front door is opened next.
SignIn(u) ==
  /\ page = "login" /\ guard = Nothing
  /\ signIns < MaxSignIns
  /\ cookie' = u
  /\ Set(u, language[u], "sign-in")
  /\ page' = "inside"
  /\ signIns' = signIns + 1
  /\ UNCHANGED <<language, read, guard, leaving, write, screen, saves, cleared>>

SignOut ==
  /\ page = "inside" /\ ~leaving.here
  /\ leaving' = [leaving EXCEPT !.here = TRUE]
  /\ UNCHANGED <<cookie, language, read, memo, settled, guard, page, fetch, cache, write,
                 screen, signIns, saves, cleared>>

\* Answered or not: what this tab holds is dropped. An answer takes the cookie
\* with it, a newer sign-in's too: the session is the cookie (CookieSessionStore).
SignedOut ==
  /\ \/ /\ leaving.here
        /\ leaving' = [leaving EXCEPT !.here = FALSE]
        /\ page' = "login" /\ guard' = Nothing
     \/ /\ leaving.behind > 0
        /\ leaving' = [leaving EXCEPT !.behind = @ - 1]
        /\ UNCHANGED <<page, guard>>
  /\ Clear
  /\ cookie' \in {cookie, Nobody}
  /\ UNCHANGED <<language, read, write, screen, signIns, saves>>

\* The session ends at the server, or another tab signs in.
Elsewhere ==
  /\ signIns < MaxSignIns
  /\ cookie' \in (Others \cup {Nobody}) \ {cookie}
  /\ signIns' = signIns + 1
  /\ UNCHANGED <<language, read, memo, settled, guard, page, fetch, cache, leaving,
                 write, screen, saves, cleared>>

-----------------------------------------------------------------------------
(* The page's reads *)

Fetch ==
  /\ page = "inside" /\ fetch = Nothing
  /\ fetch' = [is |-> "asked", for |-> Reader(settled)]
  /\ UNCHANGED <<cookie, language, read, memo, settled, guard, page, cache, leaving,
                 write, screen, signIns, saves, cleared>>

AnswerFetch ==
  /\ fetch.is = "asked"
  /\ fetch' = [is |-> "answered", for |-> fetch.for, of |-> cookie]
  /\ UNCHANGED <<cookie, language, read, memo, settled, guard, page, cache, leaving,
                 write, screen, signIns, saves, cleared>>

\* A 401 drops the session and leads to the sign-in page (LoadFailure).
Load ==
  /\ fetch.is = "answered"
  /\ IF fetch.of = Nobody
     THEN /\ memo' = Nothing
          /\ settled' = Nobody
          /\ cache' = IF Reader(settled) = Nobody THEN cache ELSE {}
          /\ cleared' = cleared + 1
          /\ Show("login") /\ guard' = Nothing
     ELSE /\ cache' = cache \cup {[for |-> fetch.for, of |-> fetch.of]}
          /\ UNCHANGED <<memo, settled, cleared, page, guard, leaving>>
  /\ fetch' = Nothing
  /\ UNCHANGED <<cookie, language, read, write, screen, signIns, saves>>

-----------------------------------------------------------------------------
(* Preferences *)

\* A control saves one field, one save at a time.
Save(w) ==
  /\ page = "inside" /\ write[w].is \in {"nothing", "failed"}
  /\ saves < MaxSaves
  /\ write' = [write EXCEPT ![w] = [is |-> "asked"]]
  /\ saves' = saves + 1
  /\ UNCHANGED <<cookie, language, read, memo, settled, guard, page, fetch, cache,
                 leaving, screen, signIns, cleared>>

\* update_current_user answers with the whole row; the answer may be lost.
AnswerSave(w) ==
  /\ write[w].is = "asked"
  /\ language' = IF w = "language" /\ cookie \in Users
                 THEN [language EXCEPT ![cookie] = @ + 1] ELSE language
  /\ \E answer \in {[is |-> "failed"]} \cup
          {[is |-> "answered", who |-> u, language |-> language'[u]] : u \in Users \cap {cookie}} :
       write' = [write EXCEPT ![w] = answer]
  /\ UNCHANGED <<cookie, read, memo, settled, guard, page, fetch, cache, leaving,
                 screen, signIns, saves, cleared>>

\* updatePreferences: the row goes to the store, and intl.reload resolves what
\* the store holds now.
Adopt(w) ==
  /\ write[w].is = "answered"
  /\ Set(write[w].who, write[w].language, "write")
  /\ write' = [write EXCEPT ![w] = [is |-> "reloading", language |-> memo'.language]]
  /\ UNCHANGED <<cookie, language, read, guard, page, leaving, screen, signIns, saves, cleared>>

\* The catalogue arrives and is shown.
Reload(w) ==
  /\ write[w].is = "reloading"
  /\ screen' = write[w].language
  /\ write' = [write EXCEPT ![w] = Nothing]
  /\ UNCHANGED <<cookie, language, read, memo, settled, guard, page, fetch, cache,
                 leaving, signIns, saves, cleared>>

TabNext ==
  \/ Open \/ Hover
  \/ \E r \in Reads : AnswerRead(r) \/ Deliver(r)
  \/ \E u \in Users : SignIn(u)
  \/ SignOut \/ SignedOut \/ Elsewhere
  \/ Fetch \/ AnswerFetch \/ Load
  \/ \E w \in Writers : Save(w) \/ AnswerSave(w) \/ Adopt(w) \/ Reload(w)

TabSpec == TabInit /\ [][TabNext]_tabVars

-----------------------------------------------------------------------------
(* Properties *)

\* logout "the next guard asks and gets the truth": a user a guard finds
\* without asking was never read before the session was last dropped, in
\* whatever order the answers came (ensure's forget, clear).
ClearedIsAsked ==
  memo.is = "user" /\ memo.by = "read" => memo.since = cleared

\* clearOnUserChange "what one reader was allowed to see must not be on screen
\* for the next": the cache never holds the answers given to two accounts.
ReadersApart == \A d, e \in cache : d.of = e.of

\* updatePreferences "without this intl.reload() would resolve straight back to
\* the language the reader just changed away from": once every save has been
\* answered and shown, the screen is in the account's language.
LanguageShown ==
  (/\ \A w \in Writers : write[w] = Nothing
   /\ cookie \in Users /\ signIns = 0 /\ cleared = 0)
    => screen = language[cookie]
==============================================================================
