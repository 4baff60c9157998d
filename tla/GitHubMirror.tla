----------------------------- MODULE GitHubMirror -----------------------------
(***************************************************************************)
(* One Rustrak issue and its GitHub issues: services/github/sync.rs and    *)
(* webhook.rs.                                                             *)
(*                                                                         *)
(* Each change of the issue's status spawns a task that copies it to the   *)
(* linked GitHub issues (mirror_status); each change that somebody makes   *)
(* on GitHub comes as a webhook that changes the status, while the app's   *)
(* own come as its bot's and are dropped unread.  Nothing orders the tasks,*)
(* nor GitHub's answers among them.  A new issue's event also spawns a task*)
(* that opens a GitHub issue (auto_create), and a replay of the event      *)
(* spawns another.  GitHub is external: it carries out a request at once,  *)
(* or not at all, and its answer may be lost.                              *)
(***************************************************************************)
EXTENDS Naturals, FiniteSets, BagsExt, Bags

CONSTANTS
  Remotes,           \* GitHub issues that exist or may be opened
  Linked,            \* those of them an older issue is linked to
  Openers,           \* runs of auto_create: the event's and its replays
  Syncs,             \* bound: the tasks spawned by changes that run at a time
  MaxAttempts,       \* attempts of auto_create, three in the code
  MaxHooks,          \* bound: webhooks under way
  MaxChanges,        \* bound: changes of the status, here and on GitHub
  MaxLost,           \* bound: requests that fail, and kills
  Unset

ASSUME MirrorAssumption ==
  /\ Linked \subseteq Remotes
  /\ Openers \cap Syncs = {} /\ Unset \notin Openers \cup Syncs \cup Remotes
  /\ MaxAttempts \in Nat \ {0} /\ {MaxHooks, MaxLost, MaxChanges} \subseteq Nat

Tasks == Openers \cup Syncs

VARIABLES
  status,            \* issues.status
  link,              \* issue_external_links.state, "none" where there is no link
  remote,            \* GitHub: "none", "open", "closed"
  opener,            \* GitHub: whose marker is in the issue's body
  hooks,             \* the bag of webhooks on their way or being handled
  task,              \* where each task is
  opening,           \* who holds the issue in OPENING
  changes, lost,
  asked,             \* history: the status last asked for, here or on GitHub
  failedRuns,        \* history: runs of auto_create that gave up or were killed
  spared,           \* history: links that a failure or a kill may have kept from a sync
  crossed            \* history: two changes met on their way

mirrorVars == <<status, link, remote, opener, hooks, task, opening, changes, lost,
                asked, failedRuns, spared, crossed>>

Resting == [pc |-> "idle", want |-> "none", todo |-> {}, attempt |-> 0, known |-> Unset]
Pending == [Resting EXCEPT !.pc = "pending"]

MirrorInit ==
  /\ status = "unresolved"
  \* an older issue with its links, or a new one that may get one
  /\ \E old \in BOOLEAN :
       /\ link = [r \in Remotes |-> IF old /\ r \in Linked THEN "open" ELSE "none"]
       /\ task = [t \in Tasks |-> IF ~old /\ t \in Openers THEN Pending ELSE Resting]
  /\ remote = link
  /\ opener = [r \in Remotes |-> Unset]
  /\ hooks = EmptyBag
  /\ opening = Unset
  /\ changes = 0 /\ lost = 0 /\ failedRuns = 0
  /\ asked = status /\ spared = {} /\ crossed = FALSE

-----------------------------------------------------------------------------
(* Statuses and tasks *)

\* What GitHub shows for a status; an ignored issue leaves GitHub alone.
StateOf(s) == CASE s = "resolved" -> "closed" [] s = "unresolved" -> "open" [] OTHER -> "none"

StatusFor(s) == IF s = "closed" THEN "resolved" ELSE "unresolved"

Links == {r \in Remotes : link[r] # "none"}

Goes(t, pc) == task' = [task EXCEPT ![t].pc = pc]

Rest == <<changes, lost, asked, failedRuns, spared, crossed>>

\* spawn: a task begins beside those that run.
Spawned == \E t \in Syncs : task[t] = Resting /\ task' = [task EXCEPT ![t].pc = "read"]

Loses == lost < MaxLost /\ lost' = lost + 1

Quiet == hooks = EmptyBag /\ \A t \in Tasks : task[t] \in {Resting, Pending}

\* Somebody asks for a status, here or on GitHub.
Asks(s) == changes < MaxChanges /\ changes' = changes + 1 /\ asked' = s

\* A person, a commit or a digest changes the status (routes/issues.rs).  The
\* webhook of another change may still be on its way.
ChangeStatus(s) ==
  /\ Asks(s) /\ status' = s
  /\ Spawned
  /\ crossed' = (crossed \/ hooks # EmptyBag)
  /\ UNCHANGED <<link, remote, opener, hooks, opening, lost, failedRuns, spared>>

-----------------------------------------------------------------------------
(* mirror_status *)

\* The task of `auto_create` gives OPENING back when its last step returns.
Returns(t) ==
  /\ task' = [task EXCEPT ![t] = Resting]
  /\ opening' = IF opening = t THEN Unset ELSE opening

\* The status as it is now.
ReadIssue(t) ==
  /\ task[t].pc = "read"
  /\ \/ /\ StateOf(status) # "none"
        /\ task' = [task EXCEPT ![t].pc = "links", ![t].want = StateOf(status)]
        /\ UNCHANGED opening
     \/ StateOf(status) = "none" /\ Returns(t)
  /\ UNCHANGED <<status, link, remote, opener, hooks, Rest>>

\* mirror_targets, and the links whose state is another.
ReadLinks(t) ==
  /\ task[t].pc = "links"
  /\ \/ /\ Links # {}
        /\ task' = [task EXCEPT ![t].pc = "patch",
                                ![t].todo = {r \in Links : link[r] # task[t].want}]
        /\ UNCHANGED opening
     \/ Links = {} /\ Returns(t)
  /\ UNCHANGED <<status, link, remote, opener, hooks, Rest>>

\* Another task has changed the issue on GitHub and not noted it yet.
Crosses(t, r) ==
  \E u \in Tasks \ {t} : task[u].pc = "note" /\ task[u].known = r /\ task[u].want # task[t].want

\* set_issue_state: GitHub carries it out and its answer comes back.
SetIssueState(t, r) ==
  /\ task[t].pc = "patch" /\ r \in task[t].todo
  /\ remote' = [remote EXCEPT ![r] = task[t].want]
  /\ task' = [task EXCEPT ![t].pc = "note", ![t].known = r]
  /\ crossed' = (crossed \/ Crosses(t, r))
  /\ UNCHANGED <<status, link, opener, hooks, opening, changes, lost, asked, failedRuns, spared>>

\* It fails, or its answer does not come, or the note fails: skip_failed.
SkipFailed(t, r) ==
  /\ \/ /\ task[t].pc = "patch" /\ r \in task[t].todo
        /\ remote' = [remote EXCEPT ![r] = task[t].want] \/ UNCHANGED remote
     \/ task[t].pc = "note" /\ r = task[t].known /\ UNCHANGED remote
  /\ task' = [task EXCEPT ![t].pc = "patch", ![t].todo = @ \ {r}, ![t].known = Unset]
  /\ Loses /\ spared' = spared \cup {r}
  /\ UNCHANGED <<status, link, opener, hooks, opening, changes, asked, failedRuns, crossed>>

\* set_remote_state.
SetRemoteState(t) ==
  /\ task[t].pc = "note"
  /\ link' = [link EXCEPT ![task[t].known] = IF @ = "none" THEN @ ELSE task[t].want]
  /\ task' = [task EXCEPT ![t].pc = "patch", ![t].todo = @ \ {task[t].known}, ![t].known = Unset]
  /\ UNCHANGED <<status, remote, opener, hooks, opening, Rest>>

\* Mutant: it returns after one pass.
ReadAgainNever(t) ==
  /\ task[t].pc = "patch" /\ task[t].todo = {}
  /\ Returns(t)
  /\ UNCHANGED <<status, link, remote, opener, hooks, Rest>>

\* The status is read again, and another pass runs until it stops moving.
ReadAgain(t) ==
  /\ task[t].pc = "patch" /\ task[t].todo = {}
  /\ \/ StateOf(status) = task[t].want /\ Returns(t)
     \/ StateOf(status) # task[t].want /\ Goes(t, "read") /\ UNCHANGED opening
  /\ UNCHANGED <<status, link, remote, opener, hooks, Rest>>

\* One of its reads fails, and it ends.
ReadFails(t) ==
  /\ task[t].pc \in {"read", "links"} \/ (task[t].pc = "patch" /\ task[t].todo = {})
  /\ Returns(t)
  /\ Loses /\ spared' = Remotes
  /\ UNCHANGED <<status, link, remote, opener, hooks, changes, asked, failedRuns, crossed>>

MirrorStep(t) ==
  \/ ReadIssue(t) \/ ReadLinks(t) \/ SetRemoteState(t) \/ ReadAgain(t) \/ ReadFails(t)
  \/ \E r \in Remotes : SetIssueState(t, r) \/ SkipFailed(t, r)

-----------------------------------------------------------------------------
(* GitHub and its webhooks *)

\* Somebody closes or reopens the issue on GitHub, which tells the server.
OnGitHub(r) ==
  /\ remote[r] # "none" /\ BagCardinality(hooks) < MaxHooks
  /\ LET s == IF remote[r] = "open" THEN "closed" ELSE "open" IN
       /\ remote' = [remote EXCEPT ![r] = s]
       /\ hooks' = BagAdd(hooks, [of |-> r, state |-> s, pc |-> "sent"])
       /\ Asks(IF link[r] = "none" THEN asked ELSE StatusFor(s))
  /\ crossed' = (crossed \/ ~Quiet)
  /\ UNCHANGED <<status, link, opener, task, opening, lost, failedRuns, spared>>

\* links_to_remote and update_remote.
StoreHook(h) ==
  /\ h.pc = "sent"
  /\ link' = [link EXCEPT ![h.of] = IF @ = "none" THEN @ ELSE h.state]
  /\ hooks' = IF link[h.of] = "none" THEN BagRemove(hooks, h)
              ELSE BagAdd(BagRemove(hooks, h), [h EXCEPT !.pc = "stored"])
  /\ UNCHANGED <<status, remote, opener, task, opening, Rest>>

\* The issue follows, and its other GitHub issues through a task.
FollowHook(h) ==
  /\ h.pc = "stored"
  /\ hooks' = BagRemove(hooks, h)
  /\ IF StateOf(status) = h.state
     THEN UNCHANGED <<status, task>>
     ELSE status' = StatusFor(h.state) /\ Spawned
  /\ UNCHANGED <<link, remote, opener, opening, Rest>>

\* It is lost on its way, or a statement of its handler fails: the status may
\* have been set and the task not been spawned.
HookFails(h) ==
  /\ hooks' = BagRemove(hooks, h)
  /\ Loses
  /\ \/ spared' = spared \cup {h.of} /\ UNCHANGED status
     \/ h.pc = "stored" /\ status' = StatusFor(h.state) /\ spared' = Remotes
  /\ UNCHANGED <<link, remote, opener, task, opening, changes, asked, failedRuns, crossed>>

-----------------------------------------------------------------------------
(* auto_create *)

Untouched == <<status, hooks, changes, asked, spared, crossed>>

\* The project asked for it and nobody else holds the issue, or nothing is done.
ClaimOpening(o) ==
  /\ task[o] = Pending
  /\ IF opening = Unset
     THEN opening' = o /\ task' = [task EXCEPT ![o].pc = "check", ![o].attempt = 1]
     ELSE UNCHANGED opening /\ task' = [task EXCEPT ![o] = Resting]
  /\ UNCHANGED <<link, remote, opener, lost, failedRuns, Untouched>>

\* Mutant: a retry opens another without looking for the first one.
FindLinkUnsearched(o) ==
  /\ task[o].pc = "check"
  /\ \/ Links # {} /\ Returns(o)
     \/ /\ Links = {} /\ UNCHANGED opening
        /\ Goes(o, IF task[o].known # Unset THEN "add" ELSE "create")
  /\ UNCHANGED <<link, remote, opener, lost, failedRuns, Untouched>>

\* An issue that already has a link keeps it.
FindLink(o) ==
  /\ task[o].pc = "check"
  /\ \/ Links # {} /\ Returns(o)
     \/ /\ Links = {} /\ UNCHANGED opening
        /\ Goes(o, IF task[o].known # Unset THEN "add"
                   ELSE IF task[o].attempt > 1 THEN "search" ELSE "create")
  /\ UNCHANGED <<link, remote, opener, lost, failedRuns, Untouched>>

\* issues_since, and the one with this run's marker among them.
IssuesSince(o) ==
  /\ task[o].pc = "search"
  /\ \/ \E r \in Remotes : /\ opener[r] = o
                          /\ task' = [task EXCEPT ![o].pc = "add", ![o].known = r,
                                                  ![o].want = remote[r]]
     \/ (\A r \in Remotes : opener[r] # o) /\ Goes(o, "create")
  /\ UNCHANGED <<link, remote, opener, opening, lost, failedRuns, Untouched>>

\* Which number it gets does not matter.
Opens(o, r) ==
  /\ remote[r] = "none" /\ r = CHOOSE free \in Remotes : remote[free] = "none"
  /\ remote' = [remote EXCEPT ![r] = "open"]
  /\ opener' = [opener EXCEPT ![r] = o]

\* create_issue: GitHub opens it and says so.
CreateIssue(o, r) ==
  /\ task[o].pc = "create" /\ Opens(o, r)
  /\ task' = [task EXCEPT ![o].pc = "add", ![o].known = r, ![o].want = "open"]
  /\ UNCHANGED <<link, opening, lost, failedRuns, Untouched>>

\* add_link, and the new link catches up with the status.
AddLink(o) ==
  /\ task[o].pc = "add"
  /\ link' = [link EXCEPT ![task[o].known] = task[o].want]
  /\ task' = [task EXCEPT ![o].pc = "read", ![o].known = Unset]
  /\ UNCHANGED <<remote, opener, opening, lost, failedRuns, Untouched>>

\* A failed attempt is followed by another, the last one ends the run.
NextAttempt(o) ==
  IF task[o].attempt < MaxAttempts
  THEN /\ task' = [task EXCEPT ![o].pc = "check", ![o].attempt = @ + 1]
       /\ UNCHANGED <<opening, failedRuns>>
  ELSE Returns(o) /\ failedRuns' = failedRuns + 1

\* The search, the draft, the request or its answer, or the link fails.
AttemptFails(o) ==
  /\ task[o].pc \in {"search", "create", "add"} /\ Loses
  /\ \/ task[o].pc = "create" /\ \E r \in Remotes : Opens(o, r)
     \/ UNCHANGED <<remote, opener>>
  /\ NextAttempt(o)
  /\ UNCHANGED <<link, Untouched>>

\* Reading the links is not retried.
FindLinkFails(o) ==
  /\ task[o].pc = "check" /\ Loses
  /\ Returns(o) /\ failedRuns' = failedRuns + 1
  /\ UNCHANGED <<link, remote, opener, Untouched>>

OpenStep(o) ==
  \/ ClaimOpening(o) \/ FindLink(o) \/ IssuesSince(o) \/ AddLink(o)
  \/ \E r \in Remotes : CreateIssue(o, r)
  \/ AttemptFails(o) \/ FindLinkFails(o)

\* The process ends, with every task and what OPENING holds; a replay of the
\* event may still come.
KillTasks ==
  /\ Loses
  /\ task' = [t \in Tasks |-> IF task[t] = Pending THEN Pending ELSE Resting]
  /\ failedRuns' = failedRuns + IF opening = Unset THEN 0 ELSE 1
  /\ opening' = Unset
  /\ hooks' = [h \in {x \in DOMAIN hooks : x.pc = "sent"} |-> hooks[h]]
  /\ spared' = Remotes
  /\ UNCHANGED <<status, link, remote, opener, changes, asked, crossed>>

MirrorNext ==
  \/ \E s \in {"resolved", "unresolved", "ignored"} : ChangeStatus(s)
  \/ \E t \in Tasks : MirrorStep(t)
  \/ \E o \in Openers : OpenStep(o)
  \/ \E r \in Remotes : OnGitHub(r)
  \/ \E h \in BagToSet(hooks) : StoreHook(h) \/ FollowHook(h) \/ HookFails(h)
  \/ KillTasks

MirrorSpec == MirrorInit /\ [][MirrorNext]_mirrorVars

-----------------------------------------------------------------------------
(* Properties *)

States == {"open", "closed"}

\* Every variable has its type; a task that sets or links a GitHub issue knows
\* which and to what, and only the tasks of auto_create open one.
MirrorTypeOK ==
  /\ {status, asked} \subseteq {"resolved", "unresolved", "ignored"}
  /\ {link, remote} \subseteq [Remotes -> States \cup {"none"}]
  /\ opener \in [Remotes -> Openers \cup {Unset}]
  /\ IsABag(hooks)
  /\ DOMAIN hooks \subseteq [of : Remotes, state : States, pc : {"sent", "stored"}]
  /\ task \in [Tasks -> [pc : {"idle", "read", "links", "patch", "note",
                                "pending", "check", "search", "create", "add"},
                         want : States \cup {"none"}, todo : SUBSET Remotes,
                         attempt : Nat, known : Remotes \cup {Unset}]]
  /\ \A t \in Tasks :
       /\ task[t].pc \in {"links", "patch", "note"} => task[t].want # "none"
       /\ task[t].pc \in {"note", "add"} => task[t].known # Unset
       /\ task[t].pc \in {"pending", "check", "search", "create", "add"} => t \in Openers
       /\ t \in Openers /\ task[t].known # Unset => task[t].want # "none"
  /\ opening \in Openers \cup {Unset}
  /\ crossed \in BOOLEAN /\ spared \subseteq Remotes
  /\ changes \in 0 .. MaxChanges /\ lost \in 0 .. MaxLost /\ failedRuns \in Nat

\* An event opens one GitHub issue, however often it is replayed and whatever
\* answer is lost; a run that gave up or was killed may have left one behind.
OpenedOnce == Cardinality({r \in Remotes : opener[r] # Unset}) <= 1 + failedRuns

InSync ==
  StateOf(status) # "none" => \A r \in Links \ spared : remote[r] = StateOf(status)

\* Once every task and webhook is done, the linked GitHub issues are as the
\* issue is, and that is as it was last asked for: a change that found the link
\* in its old state has not been skipped for good (mirror_status), a link made
\* meanwhile has caught up (auto_create), and the other GitHub issues have
\* followed one that was changed there (webhook::issues).  Exempt are changes
\* that met on their way: one here and one on GitHub, or two tasks at one
\* GitHub issue; and what a failure or a kill may have lost.
CatchesUp == Quiet /\ ~crossed => InSync /\ (spared = {} => status = asked)

\* "Closes (or reopens) the linked GitHub issues to match the Rustrak issue's
\* status as it is now": the same, whatever changes have met.
MatchesAsItIsNow == Quiet => InSync
=============================================================================
