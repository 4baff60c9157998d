---------------------------- MODULE IssueLifecycle ----------------------------
(***************************************************************************)
(* The issues of one project: digests find, create and reopen them         *)
(* (digest/processors/event.rs, write_digest and what it calls), and       *)
(* people set their status or delete them beside (services/issue.rs).      *)
(*                                                                         *)
(* On Postgres a digest's transaction takes the project's advisory lock,   *)
(* reads the grouping with its issue, writes and commits; people's writes  *)
(* take no such lock.  On SQLite nothing comes between.  A digest's writes *)
(* show at its commit: Land and Create are the writes and the commit.  The *)
(* UNIQUE key of groupings is left out: the lock leaves it nothing to do.  *)
(***************************************************************************)
EXTENDS Integers, FiniteSets

CONSTANTS
  Events,            \* the events digested
  KeyOf,             \* each event's grouping key
  LegacyOf,          \* each event's key as an older server built it
  VersionOf,         \* each event's release, NoVersion when it names none
  NoVersion,         \* no release
  Versions,          \* the releases that can be created
  Issues,            \* issue rows, each used once
  Old,               \* the issue of Issues an older server left, under its keys
  OldKeys,           \* those keys
  MaxActions         \* bound: what people do to issues

Keys == {KeyOf[e] : e \in Events} \cup {LegacyOf[e] : e \in Events} \cup OldKeys

ASSUME IssueAssumption ==
  /\ Old \in Issues /\ "none" \notin Issues /\ "free" \notin Events
  /\ NoVersion \notin Versions
  /\ \A e \in Events : VersionOf[e] \in Versions \cup {NoVersion}
  /\ MaxActions \in Nat

VARIABLES
  issue,             \* issues
  used,              \* rows there have been
  group,             \* groupings: the issue of a key, or none
  stored,            \* events: the issue an event is stored under, or none
  digest,            \* each event's digest
  lock,              \* the digest holding the advisory lock, if any
  shipped,           \* releases created, in order of their dates
  actions

issueVars == <<issue, used, group, stored, digest, lock, shipped, actions>>

Absent == [status |-> "absent"]
Gone == "none"
Free == "free"

Row(release) == [status |-> "unresolved", nextRelease |-> FALSE, last |-> release, events |-> 1]

Present(i) == issue[i] # Absent

IssueInit ==
  /\ issue = [i \in Issues |-> IF i = Old THEN Row(NoVersion) ELSE Absent]
  /\ used = {Old}
  /\ group = [k \in Keys |-> IF k \in OldKeys THEN Old ELSE Gone]
  /\ stored = [e \in Events |-> Gone]
  /\ digest = [e \in Events |-> [at |-> "ready"]]
  /\ lock = Free
  /\ shipped = <<>>
  /\ actions = 0

-----------------------------------------------------------------------------
(* Digests *)

\* A mutant: the lock is not waited for.
LockShared(e) ==
  /\ digest[e].at = "ready"
  /\ lock' = e
  /\ digest' = [digest EXCEPT ![e] = [at |-> "locked"]]
  /\ UNCHANGED <<issue, used, group, stored, shipped, actions>>

\* write_digest_once: the lock, and the reads under it.
Lock(e) ==
  /\ digest[e].at = "ready" /\ lock = Free
  /\ lock' = e
  /\ digest' = [digest EXCEPT ![e] = [at |-> "locked"]]
  /\ UNCHANGED <<issue, used, group, stored, shipped, actions>>

\* find: the current key, or the key an older server would have built.
Finds(e) == IF group[KeyOf[e]] # Gone THEN group[KeyOf[e]] ELSE group[LegacyOf[e]]

Find(e) ==
  /\ digest[e].at = "locked"
  /\ digest' = [digest EXCEPT ![e] =
       IF Finds(e) = Gone THEN [at |-> "creating"]
       ELSE [at |-> "found", issue |-> Finds(e), read |-> issue[Finds(e)]]]
  /\ UNCHANGED <<issue, used, group, stored, lock, shipped, actions>>

\* The transaction ends; the event's file is digested again if it must be.
Finish(e, at) ==
  /\ lock' = Free
  /\ digest' = [digest EXCEPT ![e] = [at |-> at]]

\* Only a resolved issue regresses, and not for the release it was resolved in
\* when it waits for the next one.
Regresses(read, e) ==
  /\ read.status = "resolved"
  /\ ~(read.nextRelease /\ VersionOf[e] \in {NoVersion, read.last})

\* The update: what the read decided, on the row as it is now.
After(row, read, e) ==
  [row EXCEPT !.events = @ + 1,
              !.last = IF VersionOf[e] # NoVersion THEN VersionOf[e] ELSE @,
              !.status = IF Regresses(read, e) THEN "unresolved" ELSE @,
              !.nextRelease = IF Regresses(read, e) THEN FALSE ELSE @]

\* An event already stored conflicts, and the transaction is rolled back.
Duplicate(e) == stored[e] # Gone

\* A mutant: an event that comes again is counted again.
LandAgain(e) ==
  /\ digest[e].at = "found"
  /\ LET i == digest[e].issue IN
     /\ Present(i)
     /\ issue' = [issue EXCEPT ![i] = After(@, digest[e].read, e)]
     /\ stored' = [stored EXCEPT ![e] = i]
     /\ group' = [group EXCEPT ![KeyOf[e]] = i]
  /\ Finish(e, "done")
  /\ UNCHANGED <<used, shipped, actions>>

Land(e) ==
  /\ digest[e].at = "found" /\ ~Duplicate(e)
  /\ LET i == digest[e].issue IN
     /\ Present(i)
     /\ issue' = [issue EXCEPT ![i] = After(@, digest[e].read, e)]
     /\ stored' = [stored EXCEPT ![e] = i]
     /\ group' = [group EXCEPT ![KeyOf[e]] = i]
  /\ Finish(e, "done")
  /\ UNCHANGED <<used, shipped, actions>>

Create(e) ==
  /\ digest[e].at = "creating" /\ ~Duplicate(e)
  /\ \E i \in Issues \ used :
       /\ used' = used \cup {i}
       /\ issue' = [issue EXCEPT ![i] = Row(VersionOf[e])]
       /\ stored' = [stored EXCEPT ![e] = i]
       /\ group' = [group EXCEPT ![KeyOf[e]] = i]
  /\ Finish(e, "done")
  /\ UNCHANGED <<shipped, actions>>

\* The issue is deleted under the digest, the quota is full, the process dies:
\* nothing of the transaction stays.
RollBack(e) ==
  /\ digest[e].at \in {"locked", "found", "creating"}
  /\ Finish(e, IF Duplicate(e) THEN "done" ELSE "ready")
  /\ UNCHANGED <<issue, used, group, stored, shipped, actions>>

\* A crash before the digest was acknowledged: the event comes again.
Replay(e) ==
  /\ digest[e].at = "done" /\ actions < MaxActions
  /\ actions' = actions + 1
  /\ digest' = [digest EXCEPT ![e] = [at |-> "ready"]]
  /\ UNCHANGED <<issue, used, group, stored, lock, shipped>>

-----------------------------------------------------------------------------
(* People *)

\* set_status: clears the wait for the next release.
SetStatus(i, status) ==
  /\ Present(i) /\ actions < MaxActions
  /\ actions' = actions + 1
  /\ issue' = [issue EXCEPT ![i].status = status, ![i].nextRelease = FALSE]
  /\ UNCHANGED <<used, group, stored, digest, lock, shipped>>

ResolveInNextRelease(i) ==
  /\ Present(i) /\ actions < MaxActions
  /\ actions' = actions + 1
  /\ issue' = [issue EXCEPT ![i].status = "resolved", ![i].nextRelease = TRUE]
  /\ UNCHANGED <<used, group, stored, digest, lock, shipped>>

\* finalize_release: the wait is over for issues last seen in an earlier release.
Ship(r) ==
  /\ \A n \in DOMAIN shipped : shipped[n] # r
  /\ issue' = [i \in Issues |->
       IF Present(i) /\ issue[i].nextRelease /\ \E n \in DOMAIN shipped : shipped[n] = issue[i].last
       THEN [issue[i] EXCEPT !.nextRelease = FALSE] ELSE issue[i]]
  /\ shipped' = [n \in 1..Cardinality(DOMAIN shipped) + 1 |->
                   IF n \in DOMAIN shipped THEN shipped[n] ELSE r]
  /\ UNCHANGED <<used, group, stored, digest, lock, actions>>

\* Its groupings and its events go with it.
Delete(i) ==
  /\ Present(i) /\ actions < MaxActions
  /\ actions' = actions + 1
  /\ issue' = [issue EXCEPT ![i] = Absent]
  /\ group' = [k \in Keys |-> IF group[k] = i THEN Gone ELSE group[k]]
  /\ stored' = [e \in Events |-> IF stored[e] = i THEN Gone ELSE stored[e]]
  /\ UNCHANGED <<used, digest, lock, shipped>>

IssueNext ==
  \/ \E e \in Events : Lock(e) \/ Find(e) \/ Land(e) \/ Create(e) \/ RollBack(e) \/ Replay(e)
  \/ \E i \in Issues :
       \/ \E status \in {"unresolved", "resolved", "ignored"} : SetStatus(i, status)
       \/ ResolveInNextRelease(i) \/ Delete(i)
  \/ \E r \in Versions : Ship(r)

IssueSpec == IssueInit /\ [][IssueNext]_issueVars

-----------------------------------------------------------------------------
(* Properties *)

\* Two events that group together are stored under one issue while both are
\* stored, however their digests, deletions and replays interleave.
OneIssuePerKey ==
  \A d, e \in Events :
    (KeyOf[d] = KeyOf[e] /\ stored[d] # Gone /\ stored[e] # Gone) => stored[d] = stored[e]

\* "The issue counters claim the event row inserted here, so all of it commits
\* together or none of it does": an issue counts the events stored under it.
CountsItsEvents ==
  \A i \in Issues :
    Present(i) => issue[i].events = Cardinality({e \in Events : stored[e] = i})
                                      + (IF i = Old THEN 1 ELSE 0)
==============================================================================
