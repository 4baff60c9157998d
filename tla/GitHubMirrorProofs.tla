-------------------------- MODULE GitHubMirrorProofs --------------------------
(***************************************************************************)
(* Proofs about GitHubMirror, for any number of GitHub issues, replays,    *)
(* attempts, tasks, webhooks and failures: an issue is opened once but for *)
(* what runs that gave up or were killed have left, and once all is quiet  *)
(* the links, GitHub and the issue agree.                                  *)
(***************************************************************************)
EXTENDS GitHubMirror, FiniteSetTheorems, TLAPS

Statuses == {"resolved", "unresolved", "ignored"}

Webhooks == [of : Remotes, state : States, pc : {"sent", "stored"}]

Steps == {"idle", "read", "links", "patch", "note", "pending", "check", "search", "create", "add"}

Wants == States \cup {"none"}

Numbers == Remotes \cup {Unset}

TaskStates == [pc : Steps, want : Wants, todo : SUBSET Remotes, attempt : Nat, known : Numbers]

OpenSteps == {"pending", "check", "search", "create", "add"}

TaskTyped(t, k) ==
  /\ k \in TaskStates
  /\ k.pc \in {"links", "patch", "note"} => k.want # "none"
  /\ k.pc \in {"note", "add"} => k.known # Unset
  /\ k.pc \in OpenSteps => t \in Openers
  /\ t \in Openers /\ k.known # Unset => k.want # "none"

TasksTyped == task \in [Tasks -> TaskStates] /\ \A t \in Tasks : TaskTyped(t, task[t])

GitHubTyped ==
  /\ remote \in [Remotes -> States \cup {"none"}]
  /\ opener \in [Remotes -> Openers \cup {Unset}]
  /\ IsABag(hooks) /\ DOMAIN hooks \subseteq Webhooks

IssueTyped ==
  /\ status \in Statuses /\ asked \in Statuses
  /\ link \in [Remotes -> States \cup {"none"}]
  /\ opening \in Openers \cup {Unset}
  /\ crossed \in BOOLEAN /\ spared \subseteq Remotes

CountersTyped ==
  changes \in 0 .. MaxChanges /\ lost \in 0 .. MaxLost /\ failedRuns \in Nat

\* GitHub issues that a run has opened exist.
OpenedExist == \A r \in Remotes : opener[r] # Unset => remote[r] # "none"

LEMMA MirrorTypes == MirrorTypeOK <=> TasksTyped /\ GitHubTyped /\ IssueTyped /\ CountersTyped
<1>1. (\A t \in Tasks : task[t] \in TaskStates) <=> \A t \in Tasks : task[t] \in TaskStates
  OBVIOUS
<1> QED
  BY DEF MirrorTypeOK, TasksTyped, TaskTyped, TaskStates, Steps, Wants, Numbers, OpenSteps, GitHubTyped, Webhooks, IssueTyped,
         Statuses, CountersTyped

-----------------------------------------------------------------------------
(* Bags of webhooks *)

LEMMA BagAddIsABag ==
  ASSUME NEW B, IsABag(B), NEW x
  PROVE  IsABag(BagAdd(B, x)) /\ DOMAIN BagAdd(B, x) = DOMAIN B \cup {x}
<1>1. B \in [DOMAIN B -> {n \in Nat : n > 0}]
  BY DEF IsABag
<1>2. CASE x \in DOMAIN B
  <2>1. BagAdd(B, x) = [e \in DOMAIN B |-> IF e = x THEN B[e] + 1 ELSE B[e]]
    BY <1>2 DEF BagAdd
  <2>2. \A e \in DOMAIN B : (IF e = x THEN B[e] + 1 ELSE B[e]) \in {n \in Nat : n > 0}
    BY <1>1
  <2> QED
    BY <1>2, <2>1, <2>2 DEF IsABag
<1>3. CASE x \notin DOMAIN B
  <2>1. BagAdd(B, x) = [e \in DOMAIN B \cup {x} |-> IF e = x THEN 1 ELSE B[e]]
    BY <1>3 DEF BagAdd
  <2>2. \A e \in DOMAIN B \cup {x} : (IF e = x THEN 1 ELSE B[e]) \in {n \in Nat : n > 0}
    BY <1>1
  <2> QED
    BY <2>1, <2>2 DEF IsABag
<1> QED
  BY <1>2, <1>3

LEMMA BagRemoveIsABag ==
  ASSUME NEW B, IsABag(B), NEW x
  PROVE  IsABag(BagRemove(B, x)) /\ DOMAIN BagRemove(B, x) \subseteq DOMAIN B
<1>1. B \in [DOMAIN B -> {n \in Nat : n > 0}]
  BY DEF IsABag
<1>2. CASE x \in DOMAIN B /\ B[x] = 1
  <2>1. BagRemove(B, x) = [e \in DOMAIN B \ {x} |-> B[e]]
    BY <1>2 DEF BagRemove
  <2> QED
    BY <1>1, <2>1 DEF IsABag
<1>3. CASE x \in DOMAIN B /\ B[x] # 1
  <2>1. BagRemove(B, x) = [e \in DOMAIN B |-> IF e = x THEN B[e] - 1 ELSE B[e]]
    BY <1>3 DEF BagRemove
  <2>2. \A e \in DOMAIN B : (IF e = x THEN B[e] - 1 ELSE B[e]) \in {n \in Nat : n > 0}
    BY <1>1, <1>3
  <2> QED
    BY <2>1, <2>2 DEF IsABag
<1>4. CASE x \notin DOMAIN B
  BY <1>4 DEF BagRemove
<1> QED
  BY <1>2, <1>3, <1>4

\* GitHub's state after a change of one issue.
LEMMA RemoteSet ==
  ASSUME GitHubTyped, OpenedExist, NEW r \in Remotes, NEW s \in States,
         remote' = [remote EXCEPT ![r] = s], UNCHANGED hooks,
         opener' = opener \/ \E o \in Openers : opener' = [opener EXCEPT ![r] = o]
  PROVE  GitHubTyped' /\ OpenedExist'
<1>1. remote' \in [Remotes -> States \cup {"none"}] /\ opener' \in [Remotes -> Openers \cup {Unset}]
  BY DEF GitHubTyped
<1>2. \A q \in Remotes : remote'[q] = IF q = r THEN s ELSE remote[q]
  BY DEF GitHubTyped
<1>3. \A q \in Remotes : q # r => opener'[q] = opener[q]
  BY DEF GitHubTyped
<1> QED
  BY <1>1, <1>2, <1>3 DEF GitHubTyped, OpenedExist, States

-----------------------------------------------------------------------------
(* Types *)

LEMMA FieldsOf ==
  /\ "idle" \in Steps /\ "read" \in Steps /\ "links" \in Steps /\ "patch" \in Steps /\ "note" \in Steps
  /\ "check" \in Steps /\ "search" \in Steps /\ "create" \in Steps /\ "add" \in Steps
  /\ States \subseteq Wants /\ "none" \in Wants /\ Remotes \subseteq Numbers /\ Unset \in Numbers
BY DEF Steps, Wants, Numbers

LEMMA OneTask ==
  ASSUME TasksTyped, NEW t \in Tasks, task' \in [Tasks -> TaskStates],
         \A u \in Tasks : u # t => task'[u] = task[u], TaskTyped(t, task'[t])
  PROVE  TasksTyped'
BY DEF TasksTyped, TaskTyped

LEMMA TaskSet ==
  ASSUME TasksTyped, NEW t \in Tasks, NEW k, TaskTyped(t, k), task' = [task EXCEPT ![t] = k]
  PROVE  TasksTyped'
<1>1. task' \in [Tasks -> TaskStates] /\ task'[t] = k /\ \A u \in Tasks : u # t => task'[u] = task[u]
  BY DEF TasksTyped, TaskTyped
<1> QED
  BY <1>1, OneTask

LEMMA RestingTyped == \A t \in Tasks : TaskTyped(t, Resting) /\ (t \in Openers => TaskTyped(t, Pending))
BY FieldsOf DEF Resting, Pending, TaskTyped, TaskStates, Steps, OpenSteps

LEMMA StatesOf == \A s \in Statuses : StateOf(s) \in States \cup {"none"} /\ (StateOf(s) = "none" <=> s = "ignored")
BY DEF Statuses, StateOf, States

LEMMA SpawnTyped == TasksTyped /\ Spawned => TasksTyped'
<1> SUFFICES ASSUME TasksTyped, NEW t \in Syncs, task[t] = Resting, task' = [task EXCEPT ![t].pc = "read"]
             PROVE  TasksTyped'
  BY DEF Spawned
<1>1. t \in Tasks
  BY DEF Tasks
<1> DEFINE k == [Resting EXCEPT !.pc = "read"]
<1>2. TaskTyped(t, k)
  BY <1>1, FieldsOf DEF Resting, TaskTyped, TaskStates, OpenSteps
<1>3. task' = [task EXCEPT ![t] = k]
  OBVIOUS
<1> HIDE DEF k
<1> QED
  BY <1>1, <1>2, <1>3, TaskSet

LEMMA ReturnTyped == \A t \in Tasks : TasksTyped /\ Returns(t) => TasksTyped'
BY RestingTyped, TaskSet DEF Returns

LEMMA MirrorStepTasks ==
  ASSUME TasksTyped, IssueTyped, NEW t \in Tasks, MirrorStep(t)
  PROVE  TasksTyped'
<1>a. TaskTyped(t, task[t]) /\ task \in [Tasks -> TaskStates]
  BY DEF TasksTyped
<1>1. CASE Returns(t)
  BY <1>1, ReturnTyped
<1>2. CASE ReadIssue(t) /\ ~Returns(t)
  <2>1. task' = [task EXCEPT ![t].pc = "links", ![t].want = StateOf(status)]
          /\ StateOf(status) \in States
    BY <1>2, StatesOf DEF ReadIssue, IssueTyped
  <2>2. task' \in [Tasks -> TaskStates]
    BY <1>a, <2>1, FieldsOf DEF TaskStates
  <2>3. /\ task'[t].pc = "links" /\ task'[t].want \in States
        /\ \A u \in Tasks : u # t => task'[u] = task[u]
    BY <1>a, <2>1
  <2>4. TaskTyped(t, task'[t])
    BY <2>2, <2>3 DEF TaskTyped, OpenSteps, States
  <2> QED
    BY <2>2, <2>3, <2>4, OneTask
<1>3. CASE ReadLinks(t) /\ ~Returns(t)
  <2> DEFINE todo == {r \in Links : link[r] # task[t].want}
  <2>1. task' = [task EXCEPT ![t].pc = "patch", ![t].todo = todo] /\ task[t].pc = "links"
    BY <1>3 DEF ReadLinks
  <2>2. todo \in SUBSET Remotes
    BY DEF Links
  <2> HIDE DEF todo
  <2>3. task' \in [Tasks -> TaskStates]
    BY <1>a, <2>1, <2>2, FieldsOf DEF TaskStates
  <2>4. /\ task'[t].pc = "patch" /\ task'[t].want = task[t].want /\ task'[t].known = task[t].known
        /\ \A u \in Tasks : u # t => task'[u] = task[u]
    BY <1>a, <2>1
  <2>5. TaskTyped(t, task'[t])
    BY <1>a, <2>1, <2>3, <2>4 DEF TaskTyped, OpenSteps
  <2> QED
    BY <2>3, <2>4, <2>5, OneTask
<1>4. ASSUME NEW r \in Remotes, SetIssueState(t, r) PROVE TasksTyped'
  <2>1. task' = [task EXCEPT ![t].pc = "note", ![t].known = r] /\ task[t].pc = "patch"
    BY <1>4 DEF SetIssueState
  <2>2. task' \in [Tasks -> TaskStates]
    BY <1>a, <2>1, FieldsOf DEF TaskStates
  <2>3. /\ task'[t].pc = "note" /\ task'[t].want = task[t].want /\ task'[t].known = r
        /\ \A u \in Tasks : u # t => task'[u] = task[u]
    BY <1>a, <2>1
  <2>4. TaskTyped(t, task'[t])
    BY <1>a, <2>1, <2>2, <2>3, MirrorAssumption DEF TaskTyped, OpenSteps
  <2> QED
    BY <2>2, <2>3, <2>4, OneTask
<1>5. ASSUME NEW r, task' = [task EXCEPT ![t].pc = "patch", ![t].todo = @ \ {r}, ![t].known = Unset],
             task[t].pc \in {"patch", "note"}
      PROVE  TasksTyped'
  <2>1. task' \in [Tasks -> TaskStates]
    BY <1>a, <1>5, FieldsOf DEF TaskStates
  <2>2. /\ task'[t].pc = "patch" /\ task'[t].want = task[t].want /\ task'[t].known = Unset
        /\ \A u \in Tasks : u # t => task'[u] = task[u]
    BY <1>a, <1>5
  <2>3. TaskTyped(t, task'[t])
    BY <1>a, <1>5, <2>1, <2>2 DEF TaskTyped, OpenSteps
  <2> QED
    BY <2>1, <2>2, <2>3, OneTask
<1>6. ASSUME NEW r \in Remotes, SkipFailed(t, r) PROVE TasksTyped'
  BY <1>5, <1>6 DEF SkipFailed
<1>7. CASE SetRemoteState(t)
  BY <1>5, <1>7 DEF SetRemoteState
<1>8. CASE ReadAgain(t) /\ ~Returns(t)
  <2>1. task' = [task EXCEPT ![t].pc = "read"]
    BY <1>8 DEF ReadAgain, Goes
  <2>2. task' \in [Tasks -> TaskStates]
    BY <1>a, <2>1, FieldsOf DEF TaskStates
  <2>3. /\ task'[t].pc = "read" /\ task'[t].want = task[t].want /\ task'[t].known = task[t].known
        /\ \A u \in Tasks : u # t => task'[u] = task[u]
    BY <1>a, <2>1
  <2>4. TaskTyped(t, task'[t])
    BY <1>a, <2>2, <2>3 DEF TaskTyped, OpenSteps
  <2> QED
    BY <2>2, <2>3, <2>4, OneTask
<1>9. CASE ReadFails(t)
  BY <1>1, <1>9 DEF ReadFails
<1> QED
  BY <1>1, <1>2, <1>3, <1>4, <1>6, <1>7, <1>8, <1>9 DEF MirrorStep

LEMMA NextAttemptTasks ==
  ASSUME TasksTyped, NEW o \in Openers, NextAttempt(o)
  PROVE  TasksTyped'
<1>a. o \in Tasks /\ TaskTyped(o, task[o]) /\ task \in [Tasks -> TaskStates]
  BY DEF TasksTyped, Tasks
<1>1. CASE Returns(o)
  BY <1>a, <1>1, ReturnTyped
<1>2. CASE task' = [task EXCEPT ![o].pc = "check", ![o].attempt = @ + 1]
  <2>1. task' \in [Tasks -> TaskStates]
    BY <1>a, <1>2, FieldsOf DEF TaskStates
  <2>2. /\ task'[o].pc = "check" /\ task'[o].want = task[o].want /\ task'[o].known = task[o].known
        /\ \A u \in Tasks : u # o => task'[u] = task[u]
    BY <1>a, <1>2
  <2>3. TaskTyped(o, task'[o])
    BY <1>a, <2>1, <2>2 DEF TaskTyped, OpenSteps
  <2> QED
    BY <1>a, <2>1, <2>2, <2>3, OneTask
<1> QED
  BY <1>1, <1>2 DEF NextAttempt

LEMMA OpenStepTasks ==
  ASSUME TasksTyped, GitHubTyped, OpenedExist, NEW o \in Openers, OpenStep(o)
  PROVE  TasksTyped'
<1>a. o \in Tasks /\ TaskTyped(o, task[o]) /\ task \in [Tasks -> TaskStates] /\ o # Unset
  BY MirrorAssumption DEF TasksTyped, Tasks
<1>r. CASE Returns(o)
  BY <1>a, <1>r, ReturnTyped
<1>1. CASE ClaimOpening(o)
  <2>1. CASE task' = [task EXCEPT ![o] = Resting]
    BY <1>a, <2>1, RestingTyped, TaskSet
  <2>2. CASE task' = [task EXCEPT ![o].pc = "check", ![o].attempt = 1]
    <3>1. task' \in [Tasks -> TaskStates]
      BY <1>a, <2>2, FieldsOf DEF TaskStates
    <3>2. /\ task'[o].pc = "check" /\ task'[o].want = task[o].want /\ task'[o].known = task[o].known
          /\ \A u \in Tasks : u # o => task'[u] = task[u]
      BY <1>a, <2>2
    <3>3. TaskTyped(o, task'[o])
      BY <1>a, <3>1, <3>2 DEF TaskTyped, OpenSteps
    <3> QED
      BY <1>a, <3>1, <3>2, <3>3, OneTask
  <2> QED
    BY <1>1, <2>1, <2>2 DEF ClaimOpening
<1>2. ASSUME NEW pc \in {"add", "search", "create"}, pc = "add" => task[o].known # Unset,
             task' = [task EXCEPT ![o].pc = pc]
      PROVE  TasksTyped'
  <2>1. task' \in [Tasks -> TaskStates]
    BY <1>a, <1>2, FieldsOf DEF TaskStates
  <2>2. /\ task'[o].pc = pc /\ task'[o].want = task[o].want /\ task'[o].known = task[o].known
        /\ \A u \in Tasks : u # o => task'[u] = task[u]
    BY <1>a, <1>2
  <2>3. TaskTyped(o, task'[o])
    BY <1>a, <1>2, <2>1, <2>2 DEF TaskTyped, OpenSteps
  <2> QED
    BY <1>a, <2>1, <2>2, <2>3, OneTask
<1>3. CASE FindLink(o)
  BY <1>2, <1>3, <1>r DEF FindLink, Goes
<1>4. ASSUME NEW r \in Remotes, NEW s \in States,
             task' = [task EXCEPT ![o].pc = "add", ![o].known = r, ![o].want = s]
      PROVE  TasksTyped'
  <2>1. task' \in [Tasks -> TaskStates]
    BY <1>a, <1>4, FieldsOf DEF TaskStates
  <2>2. /\ task'[o].pc = "add" /\ task'[o].want = s /\ task'[o].known = r
        /\ \A u \in Tasks : u # o => task'[u] = task[u]
    BY <1>a, <1>4
  <2>3. TaskTyped(o, task'[o])
    BY <1>4, <2>1, <2>2, MirrorAssumption DEF TaskTyped, OpenSteps, States
  <2> QED
    BY <1>a, <2>1, <2>2, <2>3, OneTask
<1>5. CASE IssuesSince(o)
  <2>1. CASE Goes(o, "create")
    BY <1>2, <2>1 DEF Goes
  <2>2. ASSUME NEW r \in Remotes, opener[r] = o,
               task' = [task EXCEPT ![o].pc = "add", ![o].known = r, ![o].want = remote[r]]
        PROVE  TasksTyped'
    <3>1. remote[r] \in States
      BY <1>a, <2>2 DEF GitHubTyped, OpenedExist
    <3> QED
      BY <1>4, <2>2, <3>1
  <2> QED
    BY <1>5, <2>1, <2>2 DEF IssuesSince
<1>6. CASE AddLink(o)
  <2>1. task' = [task EXCEPT ![o].pc = "read", ![o].known = Unset]
    BY <1>6 DEF AddLink
  <2>2. task' \in [Tasks -> TaskStates]
    BY <1>a, <2>1, FieldsOf DEF TaskStates
  <2>3. /\ task'[o].pc = "read" /\ task'[o].want = task[o].want /\ task'[o].known = Unset
        /\ \A u \in Tasks : u # o => task'[u] = task[u]
    BY <1>a, <2>1
  <2>4. TaskTyped(o, task'[o])
    BY <1>a, <2>2, <2>3 DEF TaskTyped, OpenSteps
  <2> QED
    BY <1>a, <2>2, <2>3, <2>4, OneTask
<1>7. ASSUME NEW r \in Remotes, CreateIssue(o, r) PROVE TasksTyped'
  BY <1>4, <1>7 DEF CreateIssue, States
<1>8. CASE AttemptFails(o)
  BY <1>8, NextAttemptTasks DEF AttemptFails
<1>9. CASE FindLinkFails(o)
  BY <1>9, <1>r DEF FindLinkFails
<1> QED
  BY <1>1, <1>3, <1>5, <1>6, <1>7, <1>8, <1>9 DEF OpenStep

LEMMA TasksStep ==
  ASSUME TasksTyped, GitHubTyped, IssueTyped, OpenedExist, [MirrorNext]_mirrorVars
  PROVE  TasksTyped'
<1>1. CASE UNCHANGED task
  BY <1>1 DEF TasksTyped, TaskTyped
<1>2. CASE Spawned
  BY <1>2, SpawnTyped
<1>3. ASSUME NEW t \in Tasks, MirrorStep(t) PROVE TasksTyped'
  BY <1>3, MirrorStepTasks
<1>4. ASSUME NEW o \in Openers, OpenStep(o) PROVE TasksTyped'
  BY <1>4, OpenStepTasks
<1>5. CASE KillTasks
  <2>1. task' = [t \in Tasks |-> IF task[t] = Pending THEN Pending ELSE Resting]
    BY <1>5 DEF KillTasks
  <2>2. \A t \in Tasks : task[t] = Pending => t \in Openers
    BY DEF TasksTyped, TaskTyped, Pending, Resting, OpenSteps
  <2>3. \A t \in Tasks : TaskTyped(t, task'[t])
    BY <2>1, <2>2, RestingTyped
  <2>4. \A t \in Tasks : task'[t] \in TaskStates
    BY <2>3 DEF TaskTyped
  <2> QED
    BY <2>1, <2>3, <2>4 DEF TasksTyped, TaskTyped
<1>6. ASSUME NEW h \in BagToSet(hooks), StoreHook(h) \/ FollowHook(h) \/ HookFails(h)
      PROVE  UNCHANGED task \/ Spawned
  BY <1>6 DEF StoreHook, FollowHook, HookFails
<1>7. ASSUME NEW s \in Statuses, ChangeStatus(s) PROVE Spawned
  BY <1>7 DEF ChangeStatus
<1>8. ASSUME NEW r \in Remotes, OnGitHub(r) PROVE UNCHANGED task
  BY <1>8 DEF OnGitHub
<1>9. CASE UNCHANGED mirrorVars
  BY <1>1, <1>9 DEF mirrorVars
<1> QED
  BY <1>1, <1>2, <1>3, <1>4, <1>5, <1>6, <1>7, <1>8, <1>9 DEF MirrorNext, Statuses

\* What a step does to the GitHub issues and their webhooks.
LEMMA GitHubStep ==
  ASSUME TasksTyped, GitHubTyped, OpenedExist, [MirrorNext]_mirrorVars
  PROVE  GitHubTyped' /\ OpenedExist'
<1>a. ASSUME NEW r \in Remotes, NEW s \in States, remote' = [remote EXCEPT ![r] = s], UNCHANGED <<opener, hooks>>
      PROVE  GitHubTyped' /\ OpenedExist'
  BY <1>a, RemoteSet
<1>b. ASSUME NEW o \in Openers, NEW r \in Remotes, Opens(o, r), UNCHANGED hooks
      PROVE  GitHubTyped' /\ OpenedExist'
  BY <1>b, RemoteSet DEF Opens, States
<1>c. CASE UNCHANGED <<remote, opener, hooks>>
  BY <1>c DEF GitHubTyped, OpenedExist
<1>d. CASE IsABag(hooks') /\ DOMAIN hooks' \subseteq Webhooks /\ UNCHANGED <<remote, opener>>
  BY <1>d DEF GitHubTyped, OpenedExist
<1>1. ASSUME NEW t \in Tasks, NEW r \in Remotes, SetIssueState(t, r) \/ SkipFailed(t, r)
      PROVE  GitHubTyped' /\ OpenedExist'
  <2>1. task[t].pc = "patch" => task[t].want \in States
    BY DEF TasksTyped, TaskTyped, TaskStates, Wants
  <2> QED
    BY <1>1, <1>a, <1>c, <2>1 DEF SetIssueState, SkipFailed
<1>2. ASSUME NEW t \in Tasks, ReadIssue(t) \/ ReadLinks(t) \/ SetRemoteState(t) \/ ReadAgain(t) \/ ReadFails(t)
      PROVE  UNCHANGED <<remote, opener, hooks>>
  BY <1>2 DEF ReadIssue, ReadLinks, SetRemoteState, ReadAgain, ReadFails
<1>3. ASSUME NEW t \in Tasks, MirrorStep(t) PROVE GitHubTyped' /\ OpenedExist'
  BY <1>1, <1>2, <1>3, <1>c DEF MirrorStep
<1>4. ASSUME NEW o \in Openers, OpenStep(o) PROVE GitHubTyped' /\ OpenedExist'
  <2>1. CASE ClaimOpening(o) \/ FindLink(o) \/ IssuesSince(o) \/ AddLink(o) \/ FindLinkFails(o)
    BY <1>c, <2>1 DEF ClaimOpening, FindLink, IssuesSince, AddLink, FindLinkFails, Untouched
  <2>2. ASSUME NEW r \in Remotes, CreateIssue(o, r) PROVE GitHubTyped' /\ OpenedExist'
    BY <1>b, <2>2 DEF CreateIssue, Untouched
  <2>3. CASE AttemptFails(o)
    BY <1>b, <1>c, <2>3 DEF AttemptFails, Untouched
  <2> QED
    BY <1>4, <2>1, <2>2, <2>3 DEF OpenStep
<1>5. ASSUME NEW r \in Remotes, OnGitHub(r) PROVE GitHubTyped' /\ OpenedExist'
  <2>1. PICK s \in States :
          /\ remote' = [remote EXCEPT ![r] = s]
          /\ hooks' = BagAdd(hooks, [of |-> r, state |-> s, pc |-> "sent"])
    BY <1>5 DEF OnGitHub, States
  <2> DEFINE h == [of |-> r, state |-> s, pc |-> "sent"]
  <2>2. h \in Webhooks
    BY DEF Webhooks
  <2>h. hooks' = BagAdd(hooks, h)
    BY <2>1
  <2> HIDE DEF h
  <2>3. IsABag(hooks') /\ DOMAIN hooks' = DOMAIN hooks \cup {h}
    BY <2>h, BagAddIsABag DEF GitHubTyped
  <2>4. IsABag(hooks') /\ DOMAIN hooks' \subseteq Webhooks
    BY <2>2, <2>3 DEF GitHubTyped
  <2>5. UNCHANGED opener
    BY <1>5 DEF OnGitHub
  <2> QED
    BY <2>1, <2>4, <2>5 DEF GitHubTyped, OpenedExist, States
<1>6. ASSUME NEW h \in BagToSet(hooks), StoreHook(h) \/ FollowHook(h) \/ HookFails(h)
      PROVE  GitHubTyped' /\ OpenedExist'
  <2>a. h \in Webhooks /\ IsABag(hooks)
    BY DEF GitHubTyped, BagToSet
  <2>1. IsABag(BagRemove(hooks, h)) /\ DOMAIN BagRemove(hooks, h) \subseteq Webhooks
    BY <2>a, BagRemoveIsABag DEF GitHubTyped
  <2>2. CASE hooks' = BagRemove(hooks, h)
    BY <1>6, <1>d, <2>1, <2>2 DEF StoreHook, FollowHook, HookFails
  <2>3. CASE hooks' = BagAdd(BagRemove(hooks, h), [h EXCEPT !.pc = "stored"])
    <3> DEFINE rest == BagRemove(hooks, h)
               stored == [h EXCEPT !.pc = "stored"]
    <3>1. stored \in Webhooks
      BY <2>a DEF Webhooks
    <3>2. IsABag(rest) /\ DOMAIN rest \subseteq Webhooks /\ hooks' = BagAdd(rest, stored)
      BY <2>1, <2>3
    <3> HIDE DEF rest, stored
    <3>3. IsABag(hooks') /\ DOMAIN hooks' = DOMAIN rest \cup {stored}
      BY <3>2, BagAddIsABag
    <3>4. IsABag(hooks') /\ DOMAIN hooks' \subseteq Webhooks
      BY <3>1, <3>2, <3>3
    <3> QED
      BY <1>6, <1>d, <3>4 DEF StoreHook, FollowHook, HookFails
  <2> QED
    BY <1>6, <2>2, <2>3 DEF StoreHook, FollowHook, HookFails
<1>7. CASE KillTasks
  <2>1. /\ hooks' = [h \in {x \in DOMAIN hooks : x.pc = "sent"} |-> hooks[h]]
        /\ UNCHANGED <<remote, opener>>
    BY <1>7 DEF KillTasks
  <2>2. hooks \in [DOMAIN hooks -> {n \in Nat : n > 0}]
    BY DEF GitHubTyped, IsABag
  <2>3. DOMAIN hooks' = {x \in DOMAIN hooks : x.pc = "sent"} /\ hooks' \in [DOMAIN hooks' -> {n \in Nat : n > 0}]
    BY <2>1, <2>2
  <2> QED
    BY <1>d, <2>1, <2>3 DEF GitHubTyped, IsABag
<1>8. CASE UNCHANGED mirrorVars \/ \E s \in Statuses : ChangeStatus(s)
  BY <1>8, <1>c DEF mirrorVars, ChangeStatus
<1> QED
  BY <1>3, <1>4, <1>5, <1>6, <1>7, <1>8 DEF MirrorNext, Statuses

\* A link is never taken away again.
LinksStay == \A r \in Remotes : link[r] # "none" => link'[r] # "none"

\* What a step does to the issue, its links and OPENING.
LEMMA IssueStep ==
  ASSUME TasksTyped, GitHubTyped, IssueTyped, OpenedExist, [MirrorNext]_mirrorVars
  PROVE  IssueTyped' /\ LinksStay
<1> DEFINE Keeps == UNCHANGED <<status, asked, link, opening>> /\ crossed' \in BOOLEAN
                      /\ spared' \subseteq Remotes
<1>k. Keeps => IssueTyped' /\ LinksStay
  BY DEF IssueTyped, LinksStay
<1>l. ASSUME NEW r \in Remotes, NEW s \in States,
             link' = link \/ link' = [link EXCEPT ![r] = s],
             UNCHANGED <<status, asked, crossed, spared, opening>>
      PROVE  IssueTyped' /\ LinksStay
  <2>1. link' \in [Remotes -> States \cup {"none"}] /\ LinksStay
    BY <1>l DEF IssueTyped, LinksStay, States
  <2> QED
    BY <1>l, <2>1 DEF IssueTyped
<1>o. ASSUME opening' \in Openers \cup {Unset}, UNCHANGED <<status, asked, link, crossed>>,
             spared' \subseteq Remotes
      PROVE  IssueTyped' /\ LinksStay
  BY <1>o DEF IssueTyped, LinksStay
<1>r. ASSUME NEW t \in Tasks, Returns(t) PROVE opening' \in Openers \cup {Unset}
  BY <1>r DEF Returns, IssueTyped
<1>s. ASSUME NEW s \in Statuses PROVE StatusFor(s) \in Statuses
  BY DEF StatusFor, Statuses
<1>1. ASSUME NEW t \in Tasks, MirrorStep(t) PROVE IssueTyped' /\ LinksStay
  <2>1. ASSUME NEW r \in Remotes, SetIssueState(t, r) \/ SkipFailed(t, r) PROVE Keeps
    BY <2>1 DEF SetIssueState, SkipFailed, IssueTyped, Crosses
  <2>2. CASE SetRemoteState(t)
    <3> DEFINE r == task[t].known
    <3>1. r \in Remotes /\ task[t].want \in States
      BY <2>2 DEF SetRemoteState, TasksTyped, TaskTyped, TaskStates, Wants, Numbers
    <3>2. link' = link \/ link' = [link EXCEPT ![r] = task[t].want]
      BY <2>2, <3>1 DEF SetRemoteState, IssueTyped
    <3>3. UNCHANGED <<status, asked, crossed, spared, opening>>
      BY <2>2 DEF SetRemoteState, Rest
    <3> HIDE DEF r
    <3> QED
      BY <1>l, <3>1, <3>2, <3>3
  <2>3. CASE ReadIssue(t) \/ ReadLinks(t) \/ ReadAgain(t)
    <3>1. opening' = opening \/ Returns(t)
      BY <2>3 DEF ReadIssue, ReadLinks, ReadAgain
    <3>2. UNCHANGED <<status, asked, link, crossed, spared>>
      BY <2>3 DEF ReadIssue, ReadLinks, ReadAgain, Rest
    <3> QED
      BY <1>o, <1>r, <3>1, <3>2 DEF IssueTyped
  <2>4. CASE ReadFails(t)
    BY <1>o, <1>r, <2>4 DEF ReadFails
  <2> QED
    BY <1>1, <1>k, <2>1, <2>2, <2>3, <2>4 DEF MirrorStep
<1>2. ASSUME NEW o \in Openers, OpenStep(o) PROVE IssueTyped' /\ LinksStay
  <2>a. o \in Tasks
    BY DEF Tasks
  <2>1. CASE AddLink(o)
    <3> DEFINE r == task[o].known
    <3>1. r \in Remotes /\ task[o].want \in States
      BY <2>1, <2>a DEF AddLink, TasksTyped, TaskTyped, TaskStates, Wants, Numbers
    <3>2. /\ link' = [link EXCEPT ![r] = task[o].want]
          /\ UNCHANGED <<status, asked, crossed, spared, opening>>
      BY <2>1 DEF AddLink, Untouched
    <3> HIDE DEF r
    <3> QED
      BY <1>l, <3>1, <3>2
  <2>2. CASE ~AddLink(o)
    <3>1. ASSUME NEW r \in Remotes, CreateIssue(o, r)
          PROVE  UNCHANGED <<status, asked, link, crossed, spared, opening>>
      BY <3>1 DEF CreateIssue, Untouched
    <3>2. CASE ClaimOpening(o) \/ FindLink(o) \/ IssuesSince(o)
      <4>1. opening' \in {opening, o} \/ Returns(o)
        BY <3>2 DEF ClaimOpening, FindLink, IssuesSince
      <4>2. UNCHANGED <<status, asked, link, crossed, spared>>
        BY <3>2 DEF ClaimOpening, FindLink, IssuesSince, Untouched
      <4> QED
        BY <1>o, <1>r, <2>a, <4>1, <4>2 DEF IssueTyped
    <3>3. CASE AttemptFails(o) \/ FindLinkFails(o)
      <4>1. opening' = opening \/ Returns(o)
        BY <3>3 DEF AttemptFails, FindLinkFails, NextAttempt
      <4>2. UNCHANGED <<status, asked, link, crossed, spared>>
        BY <3>3 DEF AttemptFails, FindLinkFails, Untouched
      <4> QED
        BY <1>o, <1>r, <2>a, <4>1, <4>2 DEF IssueTyped
    <3> QED
      BY <1>2, <1>o, <2>2, <3>1, <3>2, <3>3 DEF OpenStep, IssueTyped
  <2> QED
    BY <2>1, <2>2
<1>3. ASSUME NEW s \in Statuses, ChangeStatus(s) PROVE IssueTyped' /\ LinksStay
  BY <1>3 DEF ChangeStatus, Asks, IssueTyped, LinksStay
<1>4. ASSUME NEW r \in Remotes, OnGitHub(r) PROVE IssueTyped' /\ LinksStay
  <2>1. asked' \in Statuses /\ crossed' \in BOOLEAN
    BY <1>4 DEF OnGitHub, Asks, StatusFor, Statuses, IssueTyped
  <2> QED
    BY <1>4, <2>1 DEF OnGitHub, IssueTyped, LinksStay
<1>5. ASSUME NEW h \in BagToSet(hooks), StoreHook(h) \/ FollowHook(h) \/ HookFails(h)
      PROVE  IssueTyped' /\ LinksStay
  <2>a. h.of \in Remotes /\ h.state \in States
    BY DEF GitHubTyped, BagToSet, Webhooks
  <2>1. CASE StoreHook(h)
    <3>1. link' = link \/ link' = [link EXCEPT ![h.of] = h.state]
      BY <2>1, <2>a DEF StoreHook, IssueTyped
    <3>2. UNCHANGED <<status, asked, crossed, spared, opening>>
      BY <2>1 DEF StoreHook, Rest
    <3> QED
      BY <1>l, <2>a, <3>1, <3>2
  <2>2. CASE FollowHook(h) \/ HookFails(h)
    <3>1. status' \in {status, StatusFor(h.state)} /\ spared' \subseteq Remotes
      BY <2>2, <2>a DEF FollowHook, HookFails, Rest, IssueTyped
    <3>2. status' \in Statuses
      BY <3>1 DEF StatusFor, Statuses, IssueTyped
    <3>3. UNCHANGED <<asked, link, crossed, opening>>
      BY <2>2 DEF FollowHook, HookFails, Rest
    <3> QED
      BY <3>1, <3>2, <3>3 DEF IssueTyped, LinksStay
  <2> QED
    BY <1>5, <2>1, <2>2
<1>6. CASE KillTasks
  BY <1>6, <1>o DEF KillTasks
<1>7. CASE UNCHANGED mirrorVars
  BY <1>7 DEF mirrorVars, IssueTyped, LinksStay
<1> QED
  BY <1>1, <1>2, <1>3, <1>4, <1>5, <1>6, <1>7 DEF MirrorNext, Statuses

\* What a step counts.
CountStep ==
  /\ UNCHANGED changes \/ (changes < MaxChanges /\ changes' = changes + 1)
  /\ UNCHANGED lost \/ Loses
  /\ failedRuns' \in {failedRuns, failedRuns + 1}

LEMMA Counts == ASSUME CountersTyped, [MirrorNext]_mirrorVars PROVE CountStep
<1>1. ASSUME NEW t \in Tasks, MirrorStep(t) PROVE CountStep
  <2>1. CASE ReadIssue(t) \/ ReadLinks(t) \/ SetRemoteState(t) \/ ReadAgain(t)
    BY <2>1 DEF ReadIssue, ReadLinks, SetRemoteState, ReadAgain, Rest, CountStep
  <2>2. ASSUME NEW r \in Remotes, SetIssueState(t, r) \/ SkipFailed(t, r) PROVE CountStep
    BY <2>2 DEF SetIssueState, SkipFailed, CountStep
  <2>3. CASE ReadFails(t)
    BY <2>3 DEF ReadFails, CountStep
  <2> QED
    BY <1>1, <2>1, <2>2, <2>3 DEF MirrorStep
<1>2. ASSUME NEW o \in Openers, OpenStep(o) PROVE CountStep
  <2>1. CASE ClaimOpening(o) \/ FindLink(o) \/ IssuesSince(o) \/ AddLink(o)
    BY <2>1 DEF ClaimOpening, FindLink, IssuesSince, AddLink, Untouched, CountStep
  <2>2. ASSUME NEW r \in Remotes, CreateIssue(o, r) PROVE CountStep
    BY <2>2 DEF CreateIssue, Untouched, CountStep
  <2>3. CASE AttemptFails(o) \/ FindLinkFails(o)
    BY <2>3 DEF AttemptFails, FindLinkFails, NextAttempt, Untouched, CountStep
  <2> QED
    BY <1>2, <2>1, <2>2, <2>3 DEF OpenStep
<1>3. ASSUME NEW s \in Statuses, ChangeStatus(s) PROVE CountStep
  BY <1>3 DEF ChangeStatus, Asks, CountStep
<1>4. ASSUME NEW r \in Remotes, OnGitHub(r) PROVE CountStep
  BY <1>4 DEF OnGitHub, Asks, CountStep
<1>5. ASSUME NEW h \in BagToSet(hooks), StoreHook(h) \/ FollowHook(h) \/ HookFails(h) PROVE CountStep
  BY <1>5 DEF StoreHook, FollowHook, HookFails, Rest, CountStep
<1>6. CASE KillTasks
  <2>1. failedRuns' = failedRuns + (IF opening = Unset THEN 0 ELSE 1)
    BY <1>6 DEF KillTasks
  <2>2. failedRuns + 0 = failedRuns
    BY DEF CountersTyped
  <2>3. failedRuns' \in {failedRuns, failedRuns + 1}
    BY <2>1, <2>2
  <2> QED
    BY <1>6, <2>3 DEF KillTasks, CountStep
<1>7. CASE UNCHANGED mirrorVars
  BY <1>7 DEF mirrorVars, CountStep
<1> QED
  BY <1>1, <1>2, <1>3, <1>4, <1>5, <1>6, <1>7 DEF MirrorNext, Statuses

LEMMA CountersStep ==
  ASSUME CountersTyped, IssueTyped, [MirrorNext]_mirrorVars
  PROVE  CountersTyped'
<1>1. MaxChanges \in Nat /\ MaxLost \in Nat
  BY MirrorAssumption
<1> QED
  BY <1>1, Counts DEF CountStep, CountersTyped, Loses

MirrorInv == MirrorTypeOK /\ OpenedExist

LEMMA MirrorInvInit == MirrorInit => MirrorInv
<1> SUFFICES ASSUME MirrorInit PROVE MirrorInv
  OBVIOUS
<1>1. TasksTyped
  <2>1. PICK old \in BOOLEAN : task = [t \in Tasks |-> IF ~old /\ t \in Openers THEN Pending ELSE Resting]
    BY DEF MirrorInit
  <2>2. \A t \in Tasks : TaskTyped(t, task[t])
    BY <2>1, RestingTyped
  <2>3. \A t \in Tasks : task[t] \in TaskStates
    BY <2>2 DEF TaskTyped
  <2> QED
    BY <2>1, <2>2, <2>3 DEF TasksTyped
<1>2. link \in [Remotes -> States \cup {"none"}] /\ remote = link
  BY DEF MirrorInit, States
<1>3. IsABag(hooks) /\ DOMAIN hooks \subseteq Webhooks
  BY DEF MirrorInit, EmptyBag, SetToBag, IsABag
<1>4. GitHubTyped /\ OpenedExist
  BY <1>2, <1>3 DEF GitHubTyped, OpenedExist, MirrorInit
<1>5. MaxChanges \in Nat /\ MaxLost \in Nat
  BY MirrorAssumption
<1>6. IssueTyped
  BY <1>2 DEF IssueTyped, MirrorInit, Statuses
<1>7. CountersTyped
  <2>1. 0 \in 0 .. MaxChanges /\ 0 \in 0 .. MaxLost
    BY <1>5
  <2> QED
    BY <2>1 DEF CountersTyped, MirrorInit
<1> QED
  BY <1>1, <1>4, <1>6, <1>7, MirrorTypes DEF MirrorInv

LEMMA MirrorAlways == MirrorSpec => []MirrorInv
<1>1. MirrorInv /\ [MirrorNext]_mirrorVars => MirrorInv'
  <2>1. TasksTyped' /\ GitHubTyped' /\ IssueTyped' /\ CountersTyped' => MirrorTypeOK'
    BY MirrorTypes, PTL
  <2> QED
    BY <2>1, MirrorTypes, TasksStep, GitHubStep, IssueStep, CountersStep DEF MirrorInv
<1> QED
  BY <1>1, MirrorInvInit, PTL DEF MirrorSpec

\* Every variable of the mirror keeps its type, for any number of GitHub issues,
\* tasks and webhooks; a task that sets or links a GitHub issue knows which and
\* to what, and only the tasks of auto_create open one.
THEOREM MirrorTypeCorrect == MirrorSpec => []MirrorTypeOK
  BY MirrorAlways, PTL DEF MirrorInv

-----------------------------------------------------------------------------
(* One GitHub issue *)

Opened == {r \in Remotes : opener[r] # Unset}

OpenedNone(o) == \A r \in Remotes : opener[r] # o

\* Where a run is tells what it has opened and whether the issue is linked: only
\* the run that holds OPENING is under way, and it creates a GitHub issue only
\* once a search has found none of its own and nothing is linked.
RunIsSound(o) ==
  /\ task[o].pc \notin {"idle", "pending"} => opening = o
  /\ \/ task[o].pc \in {"pending", "create"}
     \/ task[o].pc = "check" /\ task[o].attempt = 1
     => OpenedNone(o)
  /\ task[o].pc \in {"check", "search", "create", "add"} => task[o].attempt >= 1
  /\ task[o].pc \in {"search", "create", "add"} => Links = {}
  /\ task[o].pc \in {"read", "links", "patch", "note"} => Links # {}

\* What was opened and is not a failed run's: the linked issue, or the one that
\* the run under way has opened.
Allowance == IF Links # {} \/ (opening # Unset /\ ~OpenedNone(opening)) THEN 1 ELSE 0

OpenedIsCounted == IsFiniteSet(Opened) /\ Cardinality(Opened) <= failedRuns + Allowance

OnceInv == (\A o \in Openers : RunIsSound(o)) /\ OpenedIsCounted

LEMMA OnceInvInit == MirrorInit => OnceInv
<1> SUFFICES ASSUME MirrorInit PROVE OnceInv
  OBVIOUS
<1>1. Opened = {}
  BY DEF MirrorInit, Opened
<1>2. OpenedIsCounted
  BY <1>1, FS_EmptySet DEF OpenedIsCounted, Allowance, MirrorInit
<1>3. ASSUME NEW o \in Openers PROVE RunIsSound(o)
  <2>1. OpenedNone(o)
    BY MirrorAssumption DEF MirrorInit, OpenedNone
  <2>2. task[o].pc \in {"idle", "pending"}
    BY DEF MirrorInit, Tasks, Resting, Pending
  <2> QED
    BY <2>1, <2>2 DEF RunIsSound
<1> QED
  BY <1>2, <1>3 DEF OnceInv

\* What the invariant speaks of, left alone.
LEMMA OnceKept ==
  ASSUME OnceInv, UNCHANGED <<opener, opening, failedRuns>>, Links' = Links,
         \A o \in Openers : task'[o] = task[o]
  PROVE  OnceInv'
BY DEF OnceInv, RunIsSound, OpenedIsCounted, Opened, Allowance, OpenedNone

\* The other runs are not under way.
LEMMA OtherRuns ==
  ASSUME OnceInv, NEW o \in Openers, opening = o,
         \A u \in Openers : u # o => task'[u] = task[u],
         \A r \in Remotes : opener'[r] \in {opener[r], o}
  PROVE  \A u \in Openers : u # o => RunIsSound(u)'
<1> SUFFICES ASSUME NEW u \in Openers, u # o PROVE RunIsSound(u)'
  OBVIOUS
<1>1. task[u].pc \in {"idle", "pending"} /\ task'[u] = task[u] /\ RunIsSound(u)
  BY DEF OnceInv, RunIsSound
<1>2. OpenedNone(u) => OpenedNone(u)'
  BY DEF OpenedNone
<1> QED
  BY <1>1, <1>2 DEF RunIsSound

\* One more is opened.
LEMMA OneMoreOpened ==
  ASSUME GitHubTyped, OnceInv, NEW o \in Openers, NEW r \in Remotes, Opens(o, r)
  PROVE  /\ IsFiniteSet(Opened') /\ Cardinality(Opened') <= Cardinality(Opened) + 1
         /\ Cardinality(Opened') \in Nat /\ Cardinality(Opened) \in Nat
         /\ \A q \in Remotes : opener'[q] \in {opener[q], o}
         /\ opener'[r] = o
<1>1. opener' = [opener EXCEPT ![r] = o] /\ o # Unset
  BY MirrorAssumption DEF Opens
<1>2. Opened' = Opened \cup {r}
  BY <1>1 DEF GitHubTyped, Opened
<1>3. IsFiniteSet(Opened)
  BY DEF OnceInv, OpenedIsCounted
<1>4. IsFiniteSet(Opened') /\ Cardinality(Opened') \in {Cardinality(Opened), Cardinality(Opened) + 1}
  BY <1>2, <1>3, FS_AddElement
<1>5. Cardinality(Opened') \in Nat /\ Cardinality(Opened) \in Nat
  BY <1>3, <1>4, FS_CardinalityType
<1> QED
  BY <1>1, <1>4, <1>5 DEF GitHubTyped

\* A run ends: it failed, or the issue is linked.
LEMMA RunEnds ==
  ASSUME TasksTyped, IssueTyped, CountersTyped, OnceInv, NEW o \in Openers, opening = o, Returns(o),
         UNCHANGED opener, Links' = Links,
         \/ failedRuns' = failedRuns + 1
         \/ failedRuns' = failedRuns /\ Links # {}
  PROVE  OnceInv'
<1>1. task'[o] = Resting /\ opening' = Unset /\ \A u \in Openers : u # o => task'[u] = task[u]
  BY DEF Returns, TasksTyped, Tasks
<1>2. RunIsSound(o)'
  BY <1>1 DEF RunIsSound, Resting
<1>3. \A u \in Openers : RunIsSound(u)'
  BY <1>1, <1>2, OtherRuns
<1>4. Opened' = Opened /\ IsFiniteSet(Opened) /\ Cardinality(Opened) \in Nat
  BY FS_CardinalityType DEF OnceInv, OpenedIsCounted, Opened
<1>5. Cardinality(Opened) <= failedRuns' + (IF Links # {} THEN 1 ELSE 0)
  BY <1>4 DEF OnceInv, OpenedIsCounted, Allowance, CountersTyped
<1>6. Allowance' = IF Links # {} THEN 1 ELSE 0
  BY <1>1 DEF Allowance
<1> QED
  BY <1>3, <1>4, <1>5, <1>6 DEF OnceInv, OpenedIsCounted

\* The links of a step are those there were, but for the run that links its own.
LEMMA LinksAre ==
  ASSUME TasksTyped, GitHubTyped, IssueTyped
  PROVE  /\ \A t \in Tasks : MirrorStep(t) => Links' = Links
         /\ \A h \in BagToSet(hooks) : StoreHook(h) => Links' = Links
<1>a. ASSUME NEW r \in Remotes, NEW s \in States,
             link' = [link EXCEPT ![r] = IF link[r] = "none" THEN link[r] ELSE s]
      PROVE  Links' = Links
  BY <1>a DEF Links, IssueTyped, States
<1>1. ASSUME NEW t \in Tasks, MirrorStep(t) PROVE Links' = Links
  <2>1. CASE SetRemoteState(t)
    <3> DEFINE r == task[t].known
    <3>1. r \in Remotes /\ task[t].want \in States
      BY <2>1 DEF SetRemoteState, TasksTyped, TaskTyped, TaskStates, Wants, Numbers
    <3>2. link' = [link EXCEPT ![r] = IF link[r] = "none" THEN link[r] ELSE task[t].want]
      BY <2>1 DEF SetRemoteState
    <3> HIDE DEF r
    <3> QED
      BY <1>a, <3>1, <3>2
  <2>2. CASE UNCHANGED link
    BY <2>2 DEF Links
  <2>3. ReadIssue(t) \/ ReadLinks(t) \/ ReadAgain(t) \/ ReadFails(t) => UNCHANGED link
    BY DEF ReadIssue, ReadLinks, ReadAgain, ReadFails
  <2>4. ASSUME NEW r \in Remotes, SetIssueState(t, r) \/ SkipFailed(t, r) PROVE UNCHANGED link
    BY <2>4 DEF SetIssueState, SkipFailed
  <2> QED
    BY <1>1, <2>1, <2>2, <2>3, <2>4 DEF MirrorStep
<1>2. ASSUME NEW h \in BagToSet(hooks), StoreHook(h) PROVE Links' = Links
  <2>1. h.of \in Remotes /\ h.state \in States
    BY DEF GitHubTyped, BagToSet, Webhooks
  <2>2. link' = [link EXCEPT ![h.of] = IF link[h.of] = "none" THEN link[h.of] ELSE h.state]
    BY <1>2 DEF StoreHook
  <2> QED
    BY <1>a, <2>1, <2>2
<1> QED
  BY <1>1, <1>2

\* mirror_status, in a task of its own or at the end of a run.
LEMMA OnceMirrorStep ==
  ASSUME TasksTyped, GitHubTyped, IssueTyped, CountersTyped, OnceInv, NEW t \in Tasks, MirrorStep(t)
  PROVE  OnceInv'
<1>a. UNCHANGED <<opener, failedRuns>> /\ Links' = Links
  <2>1. ReadIssue(t) \/ ReadLinks(t) \/ SetRemoteState(t) \/ ReadAgain(t) \/ ReadFails(t)
          => UNCHANGED <<opener, failedRuns>>
    BY DEF ReadIssue, ReadLinks, SetRemoteState, ReadAgain, ReadFails, Rest
  <2>2. ASSUME NEW r \in Remotes, SetIssueState(t, r) \/ SkipFailed(t, r) PROVE UNCHANGED <<opener, failedRuns>>
    BY <2>2 DEF SetIssueState, SkipFailed
  <2> QED
    BY <2>1, <2>2, LinksAre DEF MirrorStep
<1>b. /\ task[t].pc \in {"read", "links", "patch", "note"}
      /\ \A u \in Tasks : u # t => task'[u] = task[u]
      /\ Returns(t) \/ (opening' = opening /\ task'[t].pc \in {"read", "links", "patch", "note"})
  <2>a. task \in [Tasks -> TaskStates] /\ task[t] \in TaskStates
    BY DEF TasksTyped
  <2>b. task[t].pc \in {"read", "links", "patch", "note"}
    <3>1. ReadIssue(t) \/ ReadLinks(t) \/ SetRemoteState(t) \/ ReadAgain(t) \/ ReadFails(t)
            => task[t].pc \in {"read", "links", "patch", "note"}
      BY DEF ReadIssue, ReadLinks, SetRemoteState, ReadAgain, ReadFails
    <3>2. ASSUME NEW r \in Remotes, SetIssueState(t, r) \/ SkipFailed(t, r)
          PROVE  task[t].pc \in {"read", "links", "patch", "note"}
      BY <3>2 DEF SetIssueState, SkipFailed
    <3> QED
      BY <3>1, <3>2 DEF MirrorStep
  <2> DEFINE Goal == /\ \A u \in Tasks : u # t => task'[u] = task[u]
                     /\ Returns(t) \/ (opening' = opening /\ task'[t].pc \in {"read", "links", "patch", "note"})
  <2>c. ASSUME Returns(t) PROVE Goal
    <3>1. \A u \in Tasks : u # t => task'[u] = task[u]
      BY <2>a, <2>c DEF Returns
    <3> QED
      BY <2>c, <3>1
  <2>d. ASSUME NEW pc \in {"read", "links", "patch", "note"}, task'[t].pc = pc, opening' = opening,
               \A u \in Tasks : u # t => task'[u] = task[u]
        PROVE  Goal
    BY <2>d
  <2>1. ASSUME ReadIssue(t) /\ ~Returns(t) PROVE Goal
    <3>1. task' = [task EXCEPT ![t].pc = "links", ![t].want = StateOf(status)] /\ opening' = opening
      BY <2>1 DEF ReadIssue
    <3>2. task'[t].pc = "links" /\ \A u \in Tasks : u # t => task'[u] = task[u]
      BY <2>a, <3>1
    <3> QED
      BY <2>d, <3>1, <3>2
  <2>2. ASSUME ReadLinks(t) /\ ~Returns(t) PROVE Goal
    <3> DEFINE todo == {r \in Links : link[r] # task[t].want}
    <3>1. task' = [task EXCEPT ![t].pc = "patch", ![t].todo = todo] /\ opening' = opening
      BY <2>2 DEF ReadLinks
    <3> HIDE DEF todo
    <3>2. task'[t].pc = "patch" /\ \A u \in Tasks : u # t => task'[u] = task[u]
      BY <2>a, <3>1
    <3> QED
      BY <2>d, <3>1, <3>2
  <2>3. ASSUME ReadAgain(t) /\ ~Returns(t) PROVE Goal
    <3>1. task' = [task EXCEPT ![t].pc = "read"] /\ opening' = opening
      BY <2>3 DEF ReadAgain, Goes
    <3>2. task'[t].pc = "read" /\ \A u \in Tasks : u # t => task'[u] = task[u]
      BY <2>a, <3>1
    <3> QED
      BY <2>d, <3>1, <3>2
  <2>4. ASSUME NEW r, task' = [task EXCEPT ![t].pc = "patch", ![t].todo = @ \ {r}, ![t].known = Unset],
               opening' = opening
        PROVE  Goal
    <3>1. task'[t].pc = "patch" /\ \A u \in Tasks : u # t => task'[u] = task[u]
      BY <2>a, <2>4
    <3> QED
      BY <2>d, <2>4, <3>1
  <2>5. ASSUME SetRemoteState(t) PROVE Goal
    BY <2>4, <2>5 DEF SetRemoteState
  <2>6. ASSUME NEW r \in Remotes, SetIssueState(t, r) PROVE Goal
    <3>1. task' = [task EXCEPT ![t].pc = "note", ![t].known = r] /\ opening' = opening
      BY <2>6 DEF SetIssueState
    <3>2. task'[t].pc = "note" /\ \A u \in Tasks : u # t => task'[u] = task[u]
      BY <2>a, <3>1
    <3> QED
      BY <2>d, <3>1, <3>2
  <2>7. ASSUME NEW r \in Remotes, SkipFailed(t, r) PROVE Goal
    BY <2>4, <2>7 DEF SkipFailed
  <2>8. ASSUME ReadFails(t) PROVE Goal
    BY <2>c, <2>8 DEF ReadFails
  <2> HIDE DEF Goal
  <2>9. Goal
    BY <2>c, <2>1, <2>2, <2>3, <2>5, <2>6, <2>7, <2>8 DEF MirrorStep
  <2> QED
    BY <2>b, <2>9 DEF Goal
<1>1. CASE t \in Syncs
  <2>1. t \notin Openers /\ opening # t
    BY <1>1, MirrorAssumption DEF IssueTyped
  <2>2. UNCHANGED opening
    BY <1>b, <2>1 DEF Returns
  <2> QED
    BY <1>a, <1>b, <2>1, <2>2, OnceKept DEF Tasks
<1>2. CASE t \in Openers
  <2>1. opening = t /\ Links # {}
    BY <1>2, <1>b DEF OnceInv, RunIsSound
  <2>2. CASE Returns(t)
    BY <1>2, <1>a, <2>1, <2>2, RunEnds
  <2>3. CASE opening' = opening /\ task'[t].pc \in {"read", "links", "patch", "note"}
    <3>1. RunIsSound(t)'
      BY <1>a, <2>1, <2>3 DEF RunIsSound
    <3>2. \A u \in Openers : u # t => RunIsSound(u)'
      BY <1>2, <1>a, <1>b, <2>1, OtherRuns DEF Tasks
    <3>3. OpenedIsCounted'
      BY <1>a, <2>3 DEF OnceInv, OpenedIsCounted, Opened, Allowance, OpenedNone
    <3> QED
      BY <3>1, <3>2, <3>3 DEF OnceInv
  <2> QED
    BY <1>b, <2>2, <2>3
<1> QED
  BY <1>1, <1>2 DEF Tasks

\* A step of the run under way that opens nothing.
LEMMA RunGoesOn ==
  ASSUME OnceInv, NEW o \in Openers, opening = o, UNCHANGED <<opener, opening, failedRuns>>,
         \A u \in Openers : u # o => task'[u] = task[u],
         Links' = Links, RunIsSound(o)'
  PROVE  OnceInv'
<1>1. \A u \in Openers : RunIsSound(u)'
  BY OtherRuns
<1>2. OpenedIsCounted'
  BY DEF OnceInv, OpenedIsCounted, Opened, Allowance, OpenedNone
<1> QED
  BY <1>1, <1>2 DEF OnceInv

\* A run opens a GitHub issue, and the request fails or not.
LEMMA RunOpens ==
  ASSUME TasksTyped, GitHubTyped, IssueTyped, CountersTyped, OnceInv,
         NEW o \in Openers, NEW r \in Remotes, Opens(o, r), task[o].pc = "create", opening = o,
         \A u \in Openers : u # o => task'[u] = task[u],
         UNCHANGED link, RunIsSound(o)',
         \/ failedRuns' = failedRuns /\ opening' = o
         \/ failedRuns' = failedRuns + 1
  PROVE  OnceInv'
<1>1. /\ IsFiniteSet(Opened') /\ Cardinality(Opened') <= Cardinality(Opened) + 1
      /\ Cardinality(Opened') \in Nat /\ Cardinality(Opened) \in Nat
      /\ \A q \in Remotes : opener'[q] \in {opener[q], o}
      /\ opener'[r] = o
  BY OneMoreOpened
<1>2. \A u \in Openers : RunIsSound(u)'
  BY <1>1, OtherRuns
<1>3. OpenedNone(o) /\ Links = {}
  BY DEF OnceInv, RunIsSound
<1>4. Cardinality(Opened) <= failedRuns
  BY <1>1, <1>3 DEF OnceInv, OpenedIsCounted, Allowance, CountersTyped
<1>5. Allowance' \in {0, 1}
  BY DEF Allowance
<1>6. CASE failedRuns' = failedRuns /\ opening' = o
  <2>1. opening' # Unset /\ ~OpenedNone(opening)'
    BY <1>1, <1>6, MirrorAssumption DEF OpenedNone
  <2>2. Allowance' = 1
    BY <2>1 DEF Allowance
  <2>3. OpenedIsCounted'
    BY <1>1, <1>4, <1>6, <2>2 DEF OpenedIsCounted, CountersTyped
  <2> QED
    BY <1>2, <2>3 DEF OnceInv
<1>7. CASE failedRuns' = failedRuns + 1
  <2>1. OpenedIsCounted'
    BY <1>1, <1>4, <1>5, <1>7 DEF OpenedIsCounted, CountersTyped
  <2> QED
    BY <1>2, <2>1 DEF OnceInv
<1> QED
  BY <1>6, <1>7

\* auto_create.
LEMMA OnceOpenStep ==
  ASSUME TasksTyped, GitHubTyped, IssueTyped, CountersTyped, OpenedExist, OnceInv,
         NEW o \in Openers, OpenStep(o)
  PROVE  OnceInv'
<1>a. /\ o \in Tasks /\ o # Unset /\ task \in [Tasks -> TaskStates] /\ task[o] \in TaskStates
      /\ task[o].attempt \in Nat /\ Openers \subseteq Tasks
  BY MirrorAssumption DEF TasksTyped, Tasks, TaskStates
<1>b. RunIsSound(o)
  BY DEF OnceInv
<1>1. CASE ClaimOpening(o)
  <2>a. task[o].pc = "pending" /\ OpenedNone(o) /\ UNCHANGED <<link, opener, failedRuns>> /\ Links' = Links
    BY <1>1, <1>b DEF ClaimOpening, RunIsSound, Pending, Resting, Links
  <2>1. CASE opening = Unset
    <3>1. opening' = o /\ task' = [task EXCEPT ![o].pc = "check", ![o].attempt = 1]
      BY <1>1, <2>1 DEF ClaimOpening
    <3>2. /\ task'[o].pc = "check" /\ task'[o].attempt = 1
          /\ \A u \in Openers : u # o => task'[u] = task[u]
      BY <1>a, <3>1
    <3>3. RunIsSound(o)'
      BY <2>a, <3>1, <3>2 DEF RunIsSound, OpenedNone
    <3>4. ASSUME NEW u \in Openers, u # o PROVE RunIsSound(u)'
      <4>1. task[u].pc \in {"idle", "pending"} /\ RunIsSound(u) /\ task'[u] = task[u]
        BY <2>1, <3>2, <3>4, MirrorAssumption DEF OnceInv, RunIsSound
      <4> QED
        BY <2>a, <4>1 DEF RunIsSound, OpenedNone
    <3>5. Allowance' = Allowance
      BY <2>1, <2>a, <3>1 DEF Allowance, OpenedNone
    <3>6. OpenedIsCounted'
      BY <2>a, <3>5 DEF OnceInv, OpenedIsCounted, Opened
    <3> QED
      BY <3>3, <3>4, <3>6 DEF OnceInv
  <2>2. CASE opening # Unset
    <3>1. opening' = opening /\ task' = [task EXCEPT ![o] = Resting]
      BY <1>1, <2>2 DEF ClaimOpening
    <3>2. task'[o] = Resting /\ \A u \in Openers : u # o => task'[u] = task[u]
      BY <1>a, <3>1
    <3>3. \A u \in Openers : RunIsSound(u)'
      BY <2>a, <3>1, <3>2 DEF OnceInv, RunIsSound, OpenedNone, Resting
    <3>4. OpenedIsCounted'
      BY <2>a, <3>1 DEF OnceInv, OpenedIsCounted, Opened, Allowance, OpenedNone
    <3> QED
      BY <3>3, <3>4 DEF OnceInv
  <2> QED
    BY <2>1, <2>2
<1>g. ASSUME NEW pc \in {"search", "create", "add"}, Links = {}, opening = o, task[o].attempt >= 1,
             pc = "create" => OpenedNone(o), task'[o].pc = pc, task'[o].attempt = task[o].attempt,
             \A u \in Openers : u # o => task'[u] = task[u],
             UNCHANGED <<link, opener, opening, failedRuns>>
      PROVE  OnceInv'
  <2>1. Links' = Links
    BY <1>g DEF Links
  <2>2. RunIsSound(o)'
    BY <1>g, <2>1 DEF RunIsSound, OpenedNone
  <2> QED
    BY <1>g, <2>1, <2>2, RunGoesOn
<1>2. CASE FindLink(o)
  <2>a. opening = o /\ UNCHANGED <<link, opener, failedRuns>> /\ task[o].pc = "check" /\ Links' = Links
    BY <1>2, <1>b DEF FindLink, RunIsSound, Links
  <2>1. CASE Links # {}
    <3>1. Returns(o)
      BY <1>2, <2>1 DEF FindLink
    <3> QED
      BY <2>a, <2>1, <3>1, RunEnds
  <2>2. CASE Links = {}
    <3> DEFINE pc == IF task[o].known # Unset THEN "add"
                     ELSE IF task[o].attempt > 1 THEN "search" ELSE "create"
    <3>1. task' = [task EXCEPT ![o].pc = pc] /\ UNCHANGED opening
      BY <1>2, <2>2 DEF FindLink, Goes
    <3>2. pc \in {"search", "create", "add"} /\ task[o].attempt >= 1 /\ (pc = "create" => OpenedNone(o))
      BY <1>a, <1>b, <2>a DEF RunIsSound
    <3> HIDE DEF pc
    <3>3. /\ task'[o].pc = pc /\ task'[o].attempt = task[o].attempt
          /\ \A u \in Openers : u # o => task'[u] = task[u]
      BY <1>a, <3>1
    <3> QED
      BY <1>g, <2>a, <2>2, <3>1, <3>2, <3>3
  <2> QED
    BY <2>1, <2>2
<1>3. CASE IssuesSince(o)
  <2>a. /\ opening = o /\ UNCHANGED <<link, opener, opening, failedRuns>>
        /\ Links = {} /\ task[o].attempt >= 1
    BY <1>3, <1>b DEF IssuesSince, RunIsSound, Untouched
  <2>1. CASE (\A r \in Remotes : opener[r] # o) /\ Goes(o, "create")
    <3>1. /\ task'[o].pc = "create" /\ task'[o].attempt = task[o].attempt
          /\ \A u \in Openers : u # o => task'[u] = task[u]
      BY <1>a, <2>1 DEF Goes
    <3> QED
      BY <1>g, <2>a, <2>1, <3>1 DEF OpenedNone
  <2>2. ASSUME NEW r \in Remotes,
               task' = [task EXCEPT ![o].pc = "add", ![o].known = r, ![o].want = remote[r]]
        PROVE  OnceInv'
    <3>1. /\ task'[o].pc = "add" /\ task'[o].attempt = task[o].attempt
          /\ \A u \in Openers : u # o => task'[u] = task[u]
      BY <1>a, <2>2
    <3> QED
      BY <1>g, <2>a, <3>1
  <2> QED
    BY <1>3, <2>1, <2>2 DEF IssuesSince
<1>4. ASSUME NEW r \in Remotes, CreateIssue(o, r) PROVE OnceInv'
  <2>a. /\ opening = o /\ opening' = o /\ failedRuns' = failedRuns /\ Opens(o, r)
        /\ UNCHANGED link /\ task[o].pc = "create" /\ Links = {} /\ task[o].attempt >= 1
        /\ task' = [task EXCEPT ![o].pc = "add", ![o].known = r, ![o].want = "open"]
    BY <1>4, <1>b DEF CreateIssue, RunIsSound
  <2>1. /\ task'[o].pc = "add" /\ task'[o].attempt = task[o].attempt
        /\ \A u \in Openers : u # o => task'[u] = task[u]
    BY <1>a, <2>a
  <2>2. RunIsSound(o)'
    BY <2>a, <2>1 DEF RunIsSound, Links
  <2> QED
    BY <2>a, <2>1, <2>2, RunOpens
<1>5. CASE AddLink(o)
  <2> DEFINE r == task[o].known
  <2>a. /\ opening = o /\ UNCHANGED <<opener, opening, failedRuns>>
        /\ link' = [link EXCEPT ![r] = task[o].want]
        /\ task' = [task EXCEPT ![o].pc = "read", ![o].known = Unset]
    BY <1>5, <1>b DEF AddLink, RunIsSound
  <2>b. r \in Remotes /\ task[o].want # "none"
    BY <1>5, <1>a DEF AddLink, TasksTyped, TaskTyped, TaskStates, Numbers
  <2> HIDE DEF r
  <2>1. task'[o].pc = "read" /\ \A u \in Openers : u # o => task'[u] = task[u]
    BY <1>a, <2>a
  <2>2. Links' # {}
    BY <2>a, <2>b DEF Links, IssueTyped
  <2>3. RunIsSound(o)'
    BY <2>a, <2>1, <2>2 DEF RunIsSound
  <2>4. \A u \in Openers : RunIsSound(u)'
    BY <2>a, <2>1, <2>3, OtherRuns
  <2>5. Opened' = Opened /\ Allowance' = 1 /\ Allowance \in {0, 1}
    BY <2>a, <2>2 DEF Opened, Allowance
  <2>6. Cardinality(Opened) \in Nat /\ IsFiniteSet(Opened)
    BY FS_CardinalityType DEF OnceInv, OpenedIsCounted
  <2>7. OpenedIsCounted'
    BY <2>a, <2>5, <2>6 DEF OnceInv, OpenedIsCounted, CountersTyped
  <2> QED
    BY <2>4, <2>7 DEF OnceInv
<1>6. CASE AttemptFails(o)
  <2>a. /\ opening = o /\ UNCHANGED link /\ Links' = Links /\ task[o].attempt >= 1
        /\ task[o].pc \in {"search", "create", "add"}
    BY <1>6, <1>b DEF AttemptFails, RunIsSound, Links
  <2>1. CASE Returns(o) /\ failedRuns' = failedRuns + 1
    <3>1. task'[o] = Resting /\ \A u \in Openers : u # o => task'[u] = task[u]
      BY <1>a, <2>1 DEF Returns
    <3>2. RunIsSound(o)'
      BY <3>1 DEF RunIsSound, Resting
    <3>3. ASSUME NEW r \in Remotes, Opens(o, r), task[o].pc = "create" PROVE OnceInv'
      BY <2>a, <2>1, <3>1, <3>2, <3>3, RunOpens
    <3>4. CASE UNCHANGED opener
      BY <2>a, <2>1, <3>4, RunEnds
    <3> QED
      BY <1>6, <3>3, <3>4 DEF AttemptFails
  <2>2. CASE /\ task' = [task EXCEPT ![o].pc = "check", ![o].attempt = @ + 1]
             /\ UNCHANGED <<opening, failedRuns>>
    <3>1. /\ task'[o].pc = "check" /\ task'[o].attempt = task[o].attempt + 1
          /\ \A u \in Openers : u # o => task'[u] = task[u]
      BY <1>a, <2>2
    <3>2. RunIsSound(o)'
      BY <1>a, <2>a, <2>2, <3>1 DEF RunIsSound
    <3>3. ASSUME NEW r \in Remotes, Opens(o, r), task[o].pc = "create" PROVE OnceInv'
      BY <2>a, <2>2, <3>1, <3>2, <3>3, RunOpens
    <3>4. CASE UNCHANGED opener
      BY <2>a, <2>2, <3>1, <3>2, <3>4, RunGoesOn
    <3> QED
      BY <1>6, <3>3, <3>4 DEF AttemptFails
  <2> QED
    BY <1>6, <2>1, <2>2 DEF AttemptFails, NextAttempt
<1>7. CASE FindLinkFails(o)
  <2>1. /\ opening = o /\ Returns(o) /\ failedRuns' = failedRuns + 1
        /\ UNCHANGED opener /\ Links' = Links
    BY <1>7, <1>b DEF FindLinkFails, RunIsSound, Links
  <2> QED
    BY <2>1, RunEnds
<1> QED
  BY <1>1, <1>2, <1>3, <1>4, <1>5, <1>6, <1>7 DEF OpenStep

LEMMA OnceStep ==
  ASSUME MirrorInv, OnceInv, [MirrorNext]_mirrorVars
  PROVE  OnceInv'
<1>a. TasksTyped /\ GitHubTyped /\ IssueTyped /\ CountersTyped /\ OpenedExist
  BY MirrorTypes DEF MirrorInv
<1>b. CASE /\ UNCHANGED <<opener, opening, failedRuns>> /\ Links' = Links
           /\ UNCHANGED task \/ Spawned
  <2>1. \A o \in Openers : task'[o] = task[o]
    BY <1>a, <1>b, MirrorAssumption DEF Spawned, TasksTyped, Tasks
  <2> QED
    BY <1>b, <2>1, OnceKept
<1>1. ASSUME NEW t \in Tasks, MirrorStep(t) PROVE OnceInv'
  BY <1>1, <1>a, OnceMirrorStep
<1>2. ASSUME NEW o \in Openers, OpenStep(o) PROVE OnceInv'
  BY <1>2, <1>a, OnceOpenStep
<1>3. ASSUME NEW s \in Statuses, ChangeStatus(s) PROVE OnceInv'
  BY <1>3, <1>b DEF ChangeStatus, Links
<1>4. ASSUME NEW r \in Remotes, OnGitHub(r) PROVE OnceInv'
  BY <1>4, <1>b DEF OnGitHub, Links
<1>5. ASSUME NEW h \in BagToSet(hooks), StoreHook(h) \/ FollowHook(h) \/ HookFails(h) PROVE OnceInv'
  <2>1. Links' = Links
    BY <1>5, <1>a, LinksAre DEF FollowHook, HookFails, Links
  <2>2. UNCHANGED <<opener, opening, failedRuns>>
    BY <1>5 DEF StoreHook, FollowHook, HookFails, Rest
  <2>3. UNCHANGED task \/ Spawned
    BY <1>5 DEF StoreHook, FollowHook, HookFails
  <2> QED
    BY <1>b, <2>1, <2>2, <2>3
<1>6. CASE KillTasks
  <2>1. /\ task' = [t \in Tasks |-> IF task[t] = Pending THEN Pending ELSE Resting]
        /\ failedRuns' = failedRuns + (IF opening = Unset THEN 0 ELSE 1)
        /\ opening' = Unset /\ UNCHANGED <<opener, link>>
    BY <1>6 DEF KillTasks
  <2>2. ASSUME NEW o \in Openers PROVE RunIsSound(o)'
    <3>1. \/ task'[o] = Resting
          \/ task[o] = Pending /\ task'[o] = Pending
      BY <2>1 DEF Tasks
    <3>2. RunIsSound(o)
      BY DEF OnceInv
    <3> QED
      BY <2>1, <3>1, <3>2 DEF RunIsSound, OpenedNone, Resting, Pending
  <2>3. Opened' = Opened /\ IsFiniteSet(Opened) /\ Cardinality(Opened) \in Nat
    BY <2>1, FS_CardinalityType DEF OnceInv, OpenedIsCounted, Opened
  <2>4. Allowance' = IF Links # {} THEN 1 ELSE 0
    BY <2>1 DEF Allowance, Links
  <2>5. Allowance <= (IF Links # {} THEN 1 ELSE 0) + (IF opening = Unset THEN 0 ELSE 1)
    BY DEF Allowance
  <2>6. OpenedIsCounted'
    BY <1>a, <2>1, <2>3, <2>4, <2>5 DEF OnceInv, OpenedIsCounted, CountersTyped, Allowance
  <2> QED
    BY <2>2, <2>6 DEF OnceInv
<1>7. CASE UNCHANGED mirrorVars
  BY <1>7, <1>b DEF mirrorVars, Links
<1> QED
  BY <1>1, <1>2, <1>3, <1>4, <1>5, <1>6, <1>7 DEF MirrorNext, Statuses

\* However often an event is replayed and whatever answer is lost, at most one
\* GitHub issue is opened, and one for each run that gave up or was killed: a
\* retry looks for the run's own marker before it opens another, and OPENING
\* keeps the replays apart.
THEOREM OneIssueIsOpened == MirrorSpec => []OpenedOnce
<1>1. MirrorInv /\ OnceInv => OpenedOnce
  <2>1. OnceInv => Cardinality(Opened) \in Nat
    BY FS_CardinalityType DEF OnceInv, OpenedIsCounted
  <2>2. Allowance \in {0, 1}
    BY DEF Allowance
  <2>3. OnceInv /\ failedRuns \in Nat => Cardinality(Opened) <= 1 + failedRuns
    BY <2>1, <2>2 DEF OnceInv, OpenedIsCounted
  <2> QED
    BY <2>3, MirrorTypes DEF OpenedOnce, Opened, MirrorInv, CountersTyped
<1> QED
  BY <1>1, OnceInvInit, OnceStep, MirrorAlways, PTL DEF MirrorSpec

-----------------------------------------------------------------------------
(* Both sides alike *)

\* A run of auto_create that holds OPENING and has linked nothing yet.
Unlinked(o) == task[o].pc \in {"check", "search", "create", "add"}

\* A task has set r on GitHub and not noted it yet.
Sets(t, r) == task[t].pc = "note" /\ task[t].known = r

\* A task that will set r, or read the status again.
SeesTo(t, r) ==
  \/ task[t].pc \in {"read", "links"}
  \/ task[t].pc \in {"patch", "note"} /\ (task[t].want # StateOf(status) \/ r \in task[t].todo)

Told(r) == \E h \in DOMAIN hooks : h.of = r

TasksSetLinks ==
  /\ \A r \in Links : remote[r] # "none"
  /\ \A t \in Tasks :
       /\ task[t].pc \in {"patch", "note"} => task[t].todo \subseteq Links
       /\ task[t].pc = "note" => task[t].known \in task[t].todo

\* Nobody else touches what a run has opened before it is linked.
RunsKnowTheirs ==
  \A o \in Openers : Unlinked(o) =>
    /\ \A r \in Remotes : opener[r] = o => r \notin Links /\ remote[r] = "open" /\ ~Told(r)
    /\ task[o].known # Unset => opener[task[o].known] = o /\ task[o].want = "open"

\* A webhook is alone, and while that of a linked issue is on its way no task is.
HooksAreAlone ==
  \A h \in DOMAIN hooks :
    /\ DOMAIN hooks = {h} /\ hooks[h] = 1
    /\ remote[h.of] # "none"
    /\ h.pc = "stored" => h.of \in Links
    /\ h.of \in Links => \A t \in Tasks : task[t].pc \in {"idle", "pending", "check"}
    /\ h.of \in Links \ spared => h.state = remote[h.of]

\* What a link holds is GitHub's state, unless a task or a webhook will say so.
LinksAreTrue ==
  \A r \in Links \ spared :
    /\ \A t \in Tasks : Sets(t, r) => task[t].want = remote[r]
    /\ \/ link[r] = remote[r]
       \/ \E t \in Tasks : Sets(t, r)
       \/ \E h \in DOMAIN hooks : h.of = r /\ h.pc = "sent"

\* A link out of step has somebody who sees to it.
SomebodySeesToIt ==
  StateOf(status) # "none" =>
    \A r \in Links \ spared : \/ remote[r] = StateOf(status)
                              \/ \E t \in Tasks : SeesTo(t, r)
                              \/ Told(r)

\* The status is the one asked for, or a webhook brings it.
StatusIsAsked ==
  spared = {} =>
    /\ \A h \in DOMAIN hooks : h.of \in Links => StatusFor(h.state) = asked
    /\ status = asked \/ \E h \in DOMAIN hooks : h.of \in Links

Synced ==
  TasksSetLinks /\ RunsKnowTheirs /\ HooksAreAlone /\ LinksAreTrue /\ SomebodySeesToIt /\ StatusIsAsked

SyncInv == ~crossed => Synced

LEMMA SyncInvInit == MirrorInit => SyncInv
<1> SUFFICES ASSUME MirrorInit PROVE Synced
  BY DEF SyncInv
<1>1. /\ DOMAIN hooks = {} /\ remote = link /\ spared = {} /\ status = asked /\ status = "unresolved"
      /\ opener = [r \in Remotes |-> Unset]
      /\ \A r \in Links : link[r] = "open"
  BY DEF MirrorInit, EmptyBag, SetToBag, Links
<1>2. \A t \in Tasks : task[t].pc \in {"idle", "pending"}
  BY DEF MirrorInit, Resting, Pending
<1>3. TasksSetLinks
  BY <1>1, <1>2 DEF TasksSetLinks
<1>4. RunsKnowTheirs
  BY <1>2 DEF RunsKnowTheirs, Unlinked, Tasks
<1>5. HooksAreAlone /\ StatusIsAsked
  BY <1>1 DEF HooksAreAlone, StatusIsAsked
<1>6. LinksAreTrue
  BY <1>1, <1>2 DEF LinksAreTrue, Sets
<1>7. SomebodySeesToIt
  BY <1>1 DEF SomebodySeesToIt, StateOf, Links
<1> QED
  BY <1>3, <1>4, <1>5, <1>6, <1>7 DEF Synced

LEMMA RunsStillKnow ==
  ASSUME UNCHANGED <<opener, hooks>>, Links' = Links,
         \A o \in Openers : Unlinked(o)' =>
           /\ \A r \in Remotes : opener[r] = o => r \notin Links /\ remote'[r] = "open" /\ ~Told(r)
           /\ task'[o].known # Unset => opener[task'[o].known] = o /\ task'[o].want = "open"
  PROVE  RunsKnowTheirs'
<1>1. opener' = opener /\ \A r \in Remotes : Told(r)' <=> Told(r)
  BY DEF Told
<1> QED
  BY <1>1 DEF RunsKnowTheirs

\* A task goes on without a change of the issue, its links or GitHub.
LEMMA TaskGoesOn ==
  ASSUME Synced, NEW t \in Tasks, \A u \in Tasks : u # t => task'[u] = task[u],
         UNCHANGED <<status, asked, link, remote, opener, hooks>>, spared \subseteq spared',
         task[t].pc # "note" /\ task'[t].pc # "note",
         task'[t].pc = "patch" => task'[t].todo \subseteq Links,
         Unlinked(t)' /\ t \in Openers =>
           /\ \A r \in Remotes : opener[r] = t => r \notin Links /\ remote[r] = "open" /\ ~Told(r)
           /\ task'[t].known # Unset => opener[task'[t].known] = t /\ task'[t].want = "open",
         \/ task'[t].pc \in {"idle", "pending", "check"}
         \/ task[t].pc \notin {"idle", "pending", "check"}
         \/ Links = {},
         \A r \in Links \ spared' :
           SeesTo(t, r) /\ StateOf(status) # "none" /\ remote[r] # StateOf(status) =>
             \/ SeesTo(t, r)'
             \/ Told(r)
             \/ \E u \in Tasks : u # t /\ SeesTo(u, r)
  PROVE  Synced'
<1>1. Links' = Links /\ DOMAIN hooks' = DOMAIN hooks
  BY DEF Links
<1>2. TasksSetLinks'
  BY <1>1 DEF Synced, TasksSetLinks
<1>3. RunsKnowTheirs'
  <2> SUFFICES ASSUME NEW o \in Openers, Unlinked(o)'
               PROVE  /\ \A r \in Remotes : opener[r] = o => r \notin Links /\ remote[r] = "open" /\ ~Told(r)
                      /\ task'[o].known # Unset => opener[task'[o].known] = o /\ task'[o].want = "open"
    BY <1>1 DEF RunsKnowTheirs, Told
  <2>1. CASE o # t
    BY <2>1 DEF Synced, RunsKnowTheirs, Unlinked, Tasks
  <2> QED
    BY <2>1
<1>4. HooksAreAlone'
  <2> SUFFICES ASSUME NEW h \in DOMAIN hooks
               PROVE  /\ DOMAIN hooks = {h} /\ hooks[h] = 1
                      /\ remote[h.of] # "none"
                      /\ h.pc = "stored" => h.of \in Links
                      /\ h.of \in Links => \A u \in Tasks : task'[u].pc \in {"idle", "pending", "check"}
                      /\ h.of \in Links \ spared' => h.state = remote[h.of]
    BY <1>1 DEF HooksAreAlone
  <2> QED
    BY DEF Synced, HooksAreAlone
<1>5. LinksAreTrue'
  BY <1>1 DEF Synced, LinksAreTrue, Sets
<1>6. SomebodySeesToIt'
  <2> SUFFICES ASSUME StateOf(status) # "none", NEW r \in Links \ spared', remote[r] # StateOf(status), ~Told(r)
               PROVE  \E u \in Tasks : SeesTo(u, r)'
    BY <1>1 DEF SomebodySeesToIt, Told
  <2>1. PICK u \in Tasks : SeesTo(u, r)
    BY DEF Synced, SomebodySeesToIt
  <2>2. \A v \in Tasks : v # t /\ SeesTo(v, r) => SeesTo(v, r)'
    BY DEF SeesTo
  <2> QED
    BY <2>1, <2>2
<1>7. StatusIsAsked'
  BY <1>1 DEF Synced, StatusIsAsked
<1> QED
  BY <1>2, <1>3, <1>4, <1>5, <1>6, <1>7 DEF Synced

LEMMA SyncReturns ==
  ASSUME TasksTyped, Synced, NEW t \in Tasks, Returns(t), task[t].pc # "note",
         UNCHANGED <<status, asked, link, remote, opener, hooks>>, spared \subseteq spared',
         \A r \in Links \ spared' : ~SeesTo(t, r) \/ StateOf(status) = "none"
  PROVE  Synced'
<1>1. task'[t] = Resting /\ \A u \in Tasks : u # t => task'[u] = task[u]
  BY DEF Returns, TasksTyped
<1> QED
  BY <1>1, TaskGoesOn DEF Resting, Unlinked

\* What mirror_status reads.
LEMMA SyncReads ==
  ASSUME TasksTyped, IssueTyped, Synced, NEW t \in Tasks,
         ReadIssue(t) \/ ReadLinks(t) \/ ReadAgain(t) \/ ReadFails(t)
  PROVE  Synced'
<1>a. task \in [Tasks -> TaskStates] /\ task[t] \in TaskStates
  BY DEF TasksTyped
<1>1. CASE ReadIssue(t)
  <2>a. task[t].pc = "read" /\ UNCHANGED <<status, asked, link, remote, opener, hooks, spared>>
    BY <1>1 DEF ReadIssue, Rest
  <2>1. CASE StateOf(status) = "none" /\ Returns(t)
    BY <2>a, <2>1, SyncReturns
  <2>2. CASE task' = [task EXCEPT ![t].pc = "links", ![t].want = StateOf(status)]
    <3>1. task'[t].pc = "links" /\ \A u \in Tasks : u # t => task'[u] = task[u]
      BY <1>a, <2>2
    <3> QED
      BY <2>a, <3>1, TaskGoesOn DEF SeesTo, Unlinked
  <2> QED
    BY <1>1, <2>1, <2>2 DEF ReadIssue
<1>2. CASE ReadLinks(t)
  <2>a. task[t].pc = "links" /\ UNCHANGED <<status, asked, link, remote, opener, hooks, spared>>
    BY <1>2 DEF ReadLinks, Rest
  <2>1. CASE Links = {} /\ Returns(t)
    BY <2>a, <2>1, SyncReturns
  <2>2. CASE task' = [task EXCEPT ![t].pc = "patch", ![t].todo = {r \in Links : link[r] # task[t].want}]
    <3> DEFINE todo == {r \in Links : link[r] # task[t].want}
    <3>1. \A r \in Links : r \in todo <=> link[r] # task[t].want
      OBVIOUS
    <3>2. todo \subseteq Links
      OBVIOUS
    <3>3. task' = [task EXCEPT ![t].pc = "patch", ![t].todo = todo]
      BY <2>2
    <3> HIDE DEF todo
    <3>4. /\ task'[t].pc = "patch" /\ task'[t].todo = todo /\ task'[t].want = task[t].want
          /\ \A u \in Tasks : u # t => task'[u] = task[u]
      BY <1>a, <3>3
    <3>5. ASSUME NEW r \in Links \ spared, StateOf(status) # "none", remote[r] # StateOf(status), ~Told(r)
          PROVE  SeesTo(t, r)' \/ \E u \in Tasks : u # t /\ SeesTo(u, r)
      <4>1. CASE task[t].want # StateOf(status) \/ r \in todo
        BY <2>a, <3>4, <4>1 DEF SeesTo
      <4>2. CASE link[r] = StateOf(status)
        <5>1. PICK u \in Tasks : Sets(u, r)
          BY <3>5, <4>2 DEF Synced, LinksAreTrue, Told
        <5>2. task[u].want = remote[r]
          BY <5>1 DEF Synced, LinksAreTrue
        <5>3. u # t /\ SeesTo(u, r)
          BY <2>a, <3>5, <5>1, <5>2 DEF Sets, SeesTo
        <5> QED
          BY <5>3
      <4> QED
        BY <3>1, <4>1, <4>2
    <3> QED
      BY <2>a, <3>2, <3>4, <3>5, TaskGoesOn DEF Unlinked
  <2> QED
    BY <1>2, <2>1, <2>2 DEF ReadLinks
<1>3. CASE ReadAgain(t)
  <2>a. /\ task[t].pc = "patch" /\ task[t].todo = {}
        /\ UNCHANGED <<status, asked, link, remote, opener, hooks, spared>>
    BY <1>3 DEF ReadAgain, Rest
  <2>1. CASE StateOf(status) = task[t].want /\ Returns(t)
    BY <2>a, <2>1, SyncReturns DEF SeesTo
  <2>2. CASE Goes(t, "read")
    <3>1. task'[t].pc = "read" /\ \A u \in Tasks : u # t => task'[u] = task[u]
      BY <1>a, <2>2 DEF Goes
    <3> QED
      BY <2>a, <3>1, TaskGoesOn DEF SeesTo, Unlinked
  <2> QED
    BY <1>3, <2>1, <2>2 DEF ReadAgain
<1>4. CASE ReadFails(t)
  <2>1. /\ task[t].pc # "note" /\ spared' = Remotes /\ Returns(t)
        /\ UNCHANGED <<status, asked, link, remote, opener, hooks>>
    BY <1>4 DEF ReadFails
  <2>2. spared \subseteq spared' /\ Links \ spared' = {}
    BY <2>1 DEF IssueTyped, Links
  <2> QED
    BY <2>1, <2>2, SyncReturns
<1> QED
  BY <1>1, <1>2, <1>3, <1>4

\* What a task in the middle of its links knows.
LEMMA SetterKnows ==
  ASSUME TasksTyped, IssueTyped, Synced, NEW t \in Tasks, task[t].pc \in {"patch", "note"}
  PROVE  /\ task[t].want \in States /\ task[t].want # "none"
         /\ task[t].todo \subseteq Links
         /\ task[t].pc = "note" => task[t].known \in task[t].todo
         /\ \A h \in DOMAIN hooks : h.of \notin Links
<1>1. TaskTyped(t, task[t])
  BY DEF TasksTyped
<1>2. task[t].want \in States /\ task[t].want # "none"
  BY <1>1 DEF TaskTyped, TaskStates, Wants, States
<1> QED
  BY <1>2 DEF Synced, TasksSetLinks, HooksAreAlone

LEMMA SyncSet ==
  ASSUME TasksTyped, GitHubTyped, IssueTyped, Synced, ~crossed',
         NEW t \in Tasks, NEW r \in Remotes, SetIssueState(t, r)
  PROVE  Synced'
<1>a. /\ task[t].pc = "patch" /\ r \in task[t].todo
      /\ remote' = [remote EXCEPT ![r] = task[t].want]
      /\ task' = [task EXCEPT ![t].pc = "note", ![t].known = r]
      /\ UNCHANGED <<status, asked, link, opener, hooks, spared>>
      /\ ~Crosses(t, r)
  BY DEF SetIssueState
<1>b. task \in [Tasks -> TaskStates] /\ task[t] \in TaskStates
  BY DEF TasksTyped
<1>c. /\ task'[t].pc = "note" /\ task'[t].known = r /\ task'[t].want = task[t].want
      /\ task'[t].todo = task[t].todo
      /\ \A u \in Tasks : u # t => task'[u] = task[u]
  BY <1>a, <1>b
<1>d. /\ remote'[r] = task[t].want /\ \A q \in Remotes : q # r => remote'[q] = remote[q]
      /\ Links' = Links /\ Links \subseteq Remotes
  BY <1>a DEF GitHubTyped, Links
<1>e. /\ task[t].want # "none" /\ task[t].todo \subseteq Links
      /\ \A h \in DOMAIN hooks : h.of \notin Links
  BY <1>a, SetterKnows
<1>f. \A u \in Tasks : u # t /\ Sets(u, r) => task[u].want = task[t].want
  BY <1>a DEF Crosses, Sets
<1>1. TasksSetLinks'
  BY <1>a, <1>c, <1>d, <1>e DEF Synced, TasksSetLinks
<1>2. RunsKnowTheirs'
  <2>t. opener' = opener /\ Links' = Links /\ \A q \in Remotes : Told(q)' <=> Told(q)
    BY <1>a, <1>d DEF Told
  <2> SUFFICES ASSUME NEW o \in Openers, Unlinked(o)'
               PROVE  /\ \A q \in Remotes : opener[q] = o => q \notin Links /\ remote'[q] = "open" /\ ~Told(q)
                      /\ task'[o].known # Unset => opener[task'[o].known] = o /\ task'[o].want = "open"
    BY <1>a, <1>d, RunsStillKnow
  <2>1. o # t /\ o \in Tasks /\ task'[o] = task[o] /\ Unlinked(o)
    BY <1>c DEF Unlinked, Tasks
  <2> QED
    BY <1>a, <1>d, <1>e, <2>1 DEF Synced, RunsKnowTheirs
<1>3. HooksAreAlone'
  <2> SUFFICES ASSUME NEW h \in DOMAIN hooks
               PROVE  /\ DOMAIN hooks = {h} /\ hooks[h] = 1
                      /\ remote'[h.of] # "none"
                      /\ h.pc # "stored"
                      /\ h.of \notin Links
    BY <1>a, <1>d DEF HooksAreAlone
  <2>1. h.of \in Remotes
    BY DEF GitHubTyped, Webhooks
  <2> QED
    BY <1>a, <1>d, <1>e, <2>1 DEF Synced, HooksAreAlone
<1>4. LinksAreTrue'
  <2> SUFFICES ASSUME NEW q \in Links \ spared
               PROVE  /\ \A u \in Tasks : Sets(u, q)' => task'[u].want = remote'[q]
                      /\ \/ link[q] = remote'[q]
                         \/ \E u \in Tasks : Sets(u, q)'
                         \/ \E h \in DOMAIN hooks : h.of = q /\ h.pc = "sent"
    BY <1>a, <1>d DEF LinksAreTrue
  <2>a. \A u \in Tasks : u # t => (Sets(u, q)' <=> Sets(u, q)) /\ task'[u].want = task[u].want
    BY <1>c DEF Sets
  <2>1. CASE q = r
    <3>1. Sets(t, q)'
      BY <1>c, <2>1 DEF Sets
    <3>2. ASSUME NEW u \in Tasks, Sets(u, q)' PROVE task'[u].want = remote'[q]
      BY <1>c, <1>d, <1>f, <2>a, <2>1, <3>2
    <3> QED
      BY <3>1, <3>2
  <2>2. CASE q # r
    <3>1. ~Sets(t, q) /\ ~Sets(t, q)'
      BY <1>a, <1>c, <2>2 DEF Sets
    <3>2. remote'[q] = remote[q]
      BY <1>d, <2>2
    <3> QED
      BY <2>a, <3>1, <3>2 DEF Synced, LinksAreTrue
  <2> QED
    BY <2>1, <2>2
<1>5. SomebodySeesToIt'
  <2> SUFFICES ASSUME StateOf(status) # "none", NEW q \in Links \ spared,
                      remote'[q] # StateOf(status), ~Told(q)
               PROVE  \E u \in Tasks : SeesTo(u, q)'
    BY <1>a, <1>d DEF SomebodySeesToIt, Told
  <2>1. CASE q = r
    BY <1>a, <1>c, <1>d, <2>1 DEF SeesTo
  <2>2. CASE q # r
    <3>1. PICK u \in Tasks : SeesTo(u, q)
      BY <1>d, <2>2 DEF Synced, SomebodySeesToIt
    <3>2. CASE u = t
      BY <1>a, <1>c, <3>1, <3>2 DEF SeesTo
    <3>3. CASE u # t
      BY <1>a, <1>c, <3>1, <3>3 DEF SeesTo
    <3> QED
      BY <3>2, <3>3
  <2> QED
    BY <2>1, <2>2
<1>6. StatusIsAsked'
  BY <1>a, <1>d DEF Synced, StatusIsAsked
<1> QED
  BY <1>1, <1>2, <1>3, <1>4, <1>5, <1>6 DEF Synced

\* A task comes to the end of one link: it has noted it, or could not.
LEMMA SyncLinkDone ==
  ASSUME TasksTyped, GitHubTyped, IssueTyped, Synced, NEW t \in Tasks, NEW r \in Links,
         task[t].pc \in {"patch", "note"}, task[t].pc = "note" => task[t].known = r,
         task' = [task EXCEPT ![t].pc = "patch", ![t].todo = @ \ {r}, ![t].known = Unset],
         UNCHANGED <<status, asked, opener, hooks>>, Links' = Links,
         remote'[r] # "none", \A q \in Remotes : q # r => remote'[q] = remote[q] /\ link'[q] = link[q],
         \/ r \in spared' /\ spared \subseteq spared'
         \/ /\ UNCHANGED <<remote, spared>>
            /\ task[t].pc = "note" /\ link'[r] = task[t].want
  PROVE  Synced'
<1>b. task \in [Tasks -> TaskStates] /\ task[t] \in TaskStates
  BY DEF TasksTyped
<1>c. /\ task'[t].pc = "patch" /\ task'[t].want = task[t].want
      /\ task'[t].todo = task[t].todo \ {r}
      /\ \A u \in Tasks : u # t => task'[u] = task[u]
  BY <1>b
<1>d. Links \subseteq Remotes
  BY DEF Links
<1>e. /\ task[t].want # "none" /\ task[t].todo \subseteq Links
      /\ \A h \in DOMAIN hooks : h.of \notin Links
  BY SetterKnows
<1>1. TasksSetLinks'
  BY <1>c, <1>d, <1>e DEF Synced, TasksSetLinks
<1>2. RunsKnowTheirs'
  <2>t. opener' = opener /\ Links' = Links /\ \A q \in Remotes : Told(q)' <=> Told(q)
    BY <1>d DEF Told
  <2> SUFFICES ASSUME NEW o \in Openers, Unlinked(o)'
               PROVE  /\ \A q \in Remotes : opener[q] = o => q \notin Links /\ remote'[q] = "open" /\ ~Told(q)
                      /\ task'[o].known # Unset => opener[task'[o].known] = o /\ task'[o].want = "open"
    BY RunsStillKnow
  <2>1. o # t /\ o \in Tasks /\ task'[o] = task[o] /\ Unlinked(o)
    BY <1>c DEF Unlinked, Tasks
  <2> QED
    BY <1>d, <1>e, <2>1 DEF Synced, RunsKnowTheirs
<1>3. HooksAreAlone'
  <2> SUFFICES ASSUME NEW h \in DOMAIN hooks
               PROVE  /\ DOMAIN hooks = {h} /\ hooks[h] = 1
                      /\ remote'[h.of] # "none"
                      /\ h.pc # "stored"
                      /\ h.of \notin Links
    BY <1>d DEF HooksAreAlone
  <2>1. h.of \in Remotes
    BY DEF GitHubTyped, Webhooks
  <2> QED
    BY <1>d, <1>e, <2>1 DEF Synced, HooksAreAlone
<1>4. LinksAreTrue'
  <2> SUFFICES ASSUME NEW q \in Links \ spared'
               PROVE  /\ \A u \in Tasks : Sets(u, q)' => task'[u].want = remote'[q]
                      /\ \/ link'[q] = remote'[q]
                         \/ \E u \in Tasks : Sets(u, q)'
                         \/ \E h \in DOMAIN hooks : h.of = q /\ h.pc = "sent"
    BY <1>d DEF LinksAreTrue
  <2>a. \A u \in Tasks : u # t => (Sets(u, q)' <=> Sets(u, q)) /\ task'[u].want = task[u].want
    BY <1>c DEF Sets
  <2>b. ~Sets(t, q)' /\ q \in Links \ spared
    BY <1>c DEF Sets
  <2>1. CASE q = r
    <3>1. UNCHANGED remote /\ link'[r] = task[t].want /\ Sets(t, r)
      BY <2>1 DEF Sets
    <3> QED
      BY <2>a, <2>b, <2>1, <3>1 DEF Synced, LinksAreTrue
  <2>2. CASE q # r
    <3>1. ~Sets(t, q) /\ remote'[q] = remote[q] /\ link'[q] = link[q]
      BY <1>d, <2>2 DEF Sets
    <3> QED
      BY <2>a, <2>b, <3>1 DEF Synced, LinksAreTrue
  <2> QED
    BY <2>1, <2>2
<1>5. SomebodySeesToIt'
  <2> SUFFICES ASSUME StateOf(status) # "none", NEW q \in Links \ spared',
                      remote'[q] # StateOf(status), ~Told(q)
               PROVE  \E u \in Tasks : SeesTo(u, q)'
    BY <1>d DEF SomebodySeesToIt, Told
  <2>a. q \in Links \ spared
    OBVIOUS
  <2>1. CASE q = r
    <3>1. UNCHANGED remote /\ Sets(t, r)
      BY <2>1 DEF Sets
    <3>2. remote[r] = task[t].want
      BY <2>a, <2>1, <3>1 DEF Synced, LinksAreTrue
    <3> QED
      BY <1>c, <2>1, <3>1, <3>2 DEF SeesTo
  <2>2. CASE q # r
    <3>1. PICK u \in Tasks : SeesTo(u, q)
      BY <1>d, <2>a, <2>2 DEF Synced, SomebodySeesToIt
    <3>2. CASE u = t
      BY <1>c, <2>2, <3>1, <3>2 DEF SeesTo
    <3>3. CASE u # t
      BY <1>c, <3>1, <3>3 DEF SeesTo
    <3> QED
      BY <3>2, <3>3
  <2> QED
    BY <2>1, <2>2
<1>6. StatusIsAsked'
  <2>1. spared' = {} => spared = {}
    OBVIOUS
  <2> QED
    BY <2>1 DEF Synced, StatusIsAsked
<1> QED
  BY <1>1, <1>2, <1>3, <1>4, <1>5, <1>6 DEF Synced

LEMMA SyncMirrorStep ==
  ASSUME TasksTyped, GitHubTyped, IssueTyped, Synced, ~crossed', NEW t \in Tasks, MirrorStep(t)
  PROVE  Synced'
<1>1. ASSUME NEW r \in Remotes, SkipFailed(t, r) PROVE Synced'
  <2>a. /\ task[t].pc \in {"patch", "note"} /\ (task[t].pc = "note" => r = task[t].known)
        /\ task[t].pc = "patch" => r \in task[t].todo
        /\ remote' = remote \/ remote' = [remote EXCEPT ![r] = task[t].want]
        /\ task' = [task EXCEPT ![t].pc = "patch", ![t].todo = @ \ {r}, ![t].known = Unset]
        /\ spared' = spared \cup {r}
        /\ UNCHANGED <<status, asked, link, opener, hooks>>
    BY <1>1 DEF SkipFailed
  <2>1. r \in Links /\ task[t].want # "none" /\ Links' = Links
    BY <2>a, SetterKnows DEF Links
  <2>2. remote[r] # "none"
    BY <2>1 DEF Synced, TasksSetLinks
  <2>3. remote'[r] # "none" /\ \A q \in Remotes : q # r => remote'[q] = remote[q] /\ link'[q] = link[q]
    BY <2>a, <2>1, <2>2 DEF GitHubTyped
  <2>4. r \in spared' /\ spared \subseteq spared'
    BY <2>a
  <2> QED
    BY <2>a, <2>1, <2>3, <2>4, SyncLinkDone
<1>2. CASE SetRemoteState(t)
  <2> DEFINE r == task[t].known
  <2>a. /\ task[t].pc = "note"
        /\ link' = [link EXCEPT ![r] = IF @ = "none" THEN @ ELSE task[t].want]
        /\ task' = [task EXCEPT ![t].pc = "patch", ![t].todo = @ \ {r}, ![t].known = Unset]
        /\ UNCHANGED <<status, asked, remote, opener, hooks, spared>>
    BY <1>2 DEF SetRemoteState, Rest
  <2>1. r \in Links /\ Links' = Links
    BY <1>2, <2>a, SetterKnows, LinksAre DEF MirrorStep
  <2> HIDE DEF r
  <2>2. remote'[r] # "none"
    BY <2>a, <2>1 DEF Synced, TasksSetLinks
  <2>3. link'[r] = task[t].want /\ \A q \in Remotes : q # r => remote'[q] = remote[q] /\ link'[q] = link[q]
    BY <2>a, <2>1 DEF IssueTyped, Links
  <2>4. task[t].known = r
    BY DEF r
  <2> QED
    BY <2>a, <2>1, <2>2, <2>3, <2>4, SyncLinkDone
<1>3. ASSUME NEW r \in Remotes, SetIssueState(t, r) PROVE Synced'
  BY <1>3, SyncSet
<1> QED
  BY <1>1, <1>2, <1>3, SyncReads DEF MirrorStep

\* A run opens a GitHub issue, and the request fails or not.
LEMMA SyncOpens ==
  ASSUME GitHubTyped, Synced, NEW o \in Openers, NEW r \in Remotes, Opens(o, r),
         Links = {}, OpenedNone(o),
         \A u \in Tasks : u # o => task'[u] = task[u],
         task'[o].pc \notin {"patch", "note"},
         task'[o].known = Unset \/ (task'[o].known = r /\ task'[o].want = "open"),
         UNCHANGED <<status, asked, link, hooks, spared>>
  PROVE  Synced'
<1>a. /\ Links' = {} /\ remote[r] = "none" /\ opener'[r] = o /\ remote'[r] = "open"
      /\ \A q \in Remotes : q # r => opener'[q] = opener[q] /\ remote'[q] = remote[q]
  BY DEF Opens, GitHubTyped, Links
<1>b. \A h \in DOMAIN hooks : h.of \in Remotes /\ h.of # r
  BY <1>a DEF Synced, HooksAreAlone, GitHubTyped, Webhooks
<1>1. TasksSetLinks'
  BY <1>a DEF Synced, TasksSetLinks
<1>2. RunsKnowTheirs'
  <2> SUFFICES ASSUME NEW u \in Openers, Unlinked(u)'
               PROVE  /\ \A q \in Remotes : opener'[q] = u => remote'[q] = "open" /\ ~Told(q)'
                      /\ task'[u].known # Unset => opener'[task'[u].known] = u /\ task'[u].want = "open"
    BY <1>a DEF RunsKnowTheirs
  <2>1. CASE u = o
    BY <1>a, <1>b, <2>1 DEF OpenedNone, Told
  <2>2. CASE u # o
    <3>1. task'[u] = task[u] /\ Unlinked(u)
      BY <2>2 DEF Unlinked, Tasks
    <3>2. /\ \A q \in Remotes : opener[q] = u => remote[q] = "open" /\ ~Told(q)
          /\ task[u].known # Unset => opener[task[u].known] = u /\ task[u].want = "open"
      BY <3>1 DEF Synced, RunsKnowTheirs
    <3>3. \A q \in Remotes : opener'[q] = u => q # r
      BY <1>a, <2>2
    <3>4. task[u].known # Unset => task[u].known # r
      BY <1>a, <3>2
    <3>5. task[u].known # Unset => opener'[task[u].known] = opener[task[u].known]
      BY <3>4 DEF Opens
    <3> QED
      BY <1>a, <3>1, <3>2, <3>3, <3>5 DEF Told
  <2> QED
    BY <2>1, <2>2
<1>3. HooksAreAlone'
  <2> SUFFICES ASSUME NEW h \in DOMAIN hooks
               PROVE  DOMAIN hooks = {h} /\ hooks[h] = 1 /\ remote'[h.of] # "none" /\ h.pc # "stored"
    BY <1>a DEF HooksAreAlone
  <2> QED
    BY <1>a, <1>b DEF Synced, HooksAreAlone
<1>4. LinksAreTrue' /\ SomebodySeesToIt'
  BY <1>a DEF LinksAreTrue, SomebodySeesToIt
<1>5. StatusIsAsked'
  BY <1>a DEF Synced, StatusIsAsked
<1> QED
  BY <1>1, <1>2, <1>3, <1>4, <1>5 DEF Synced

\* The first link is there, and the run goes on as a sync.
LEMMA SyncLinked ==
  ASSUME TasksTyped, GitHubTyped, IssueTyped, Synced, OnceInv, NEW o \in Openers, AddLink(o)
  PROVE  Synced'
<1> DEFINE r == task[o].known
<1>a. /\ task[o].pc = "add" /\ link' = [link EXCEPT ![r] = task[o].want]
      /\ task' = [task EXCEPT ![o].pc = "read", ![o].known = Unset]
      /\ UNCHANGED <<status, asked, remote, opener, hooks, spared>>
  BY DEF AddLink, Untouched
<1>b. o \in Tasks /\ task \in [Tasks -> TaskStates] /\ TaskTyped(o, task[o])
  BY DEF TasksTyped, Tasks
<1>c. r \in Remotes /\ r # Unset /\ Links = {}
  BY <1>a, <1>b DEF TaskTyped, TaskStates, Numbers, OnceInv, RunIsSound
<1>d. /\ opener[r] = o /\ task[o].want = "open" /\ remote[r] = "open" /\ ~Told(r)
      /\ \A u \in Openers : u # o /\ Unlinked(u) => task[u].known = Unset \/ opener[task[u].known] = u
  BY <1>a, <1>c DEF Synced, RunsKnowTheirs, Unlinked
<1> HIDE DEF r
<1>e. task'[o].pc = "read" /\ \A u \in Tasks : u # o => task'[u] = task[u]
  BY <1>a, <1>b
<1>f. link'[r] = "open" /\ Links' = {r}
  BY <1>a, <1>c, <1>d DEF Links, IssueTyped
<1>g. \A u \in Tasks : task[u].pc # "note"
  BY <1>c DEF Synced, TasksSetLinks
<1>h. \A h \in DOMAIN hooks : h.of # r
  BY <1>d DEF Told
<1>1. TasksSetLinks'
  BY <1>a, <1>c, <1>d, <1>e, <1>f DEF Synced, TasksSetLinks
<1>2. RunsKnowTheirs'
  <2> SUFFICES ASSUME NEW u \in Openers, Unlinked(u)'
               PROVE  /\ \A q \in Remotes : opener[q] = u => q # r /\ remote[q] = "open" /\ ~Told(q)'
                      /\ task'[u].known # Unset => opener[task'[u].known] = u /\ task'[u].want = "open"
    BY <1>a, <1>f DEF RunsKnowTheirs
  <2>1. u # o /\ task'[u] = task[u] /\ Unlinked(u)
    BY <1>e DEF Unlinked, Tasks
  <2>2. /\ \A q \in Remotes : opener[q] = u => remote[q] = "open" /\ ~Told(q)
        /\ task[u].known # Unset => opener[task[u].known] = u /\ task[u].want = "open"
    BY <2>1 DEF Synced, RunsKnowTheirs
  <2> QED
    BY <1>a, <1>d, <2>1, <2>2 DEF Told
<1>3. HooksAreAlone'
  <2> SUFFICES ASSUME NEW h \in DOMAIN hooks
               PROVE  /\ DOMAIN hooks = {h} /\ hooks[h] = 1
                      /\ remote[h.of] # "none" /\ h.pc # "stored"
    BY <1>a, <1>f, <1>h DEF HooksAreAlone
  <2> QED
    BY <1>c DEF Synced, HooksAreAlone
<1>4. LinksAreTrue'
  <2>1. \A u \in Tasks : task'[u].pc # "note"
    BY <1>e, <1>g
  <2>2. link'[r] = remote'[r]
    BY <1>a, <1>d, <1>f
  <2>3. \A q \in Links' : q = r
    BY <1>f
  <2> QED
    BY <2>1, <2>2, <2>3 DEF LinksAreTrue, Sets
<1>5. SomebodySeesToIt'
  BY <1>b, <1>e DEF SomebodySeesToIt, SeesTo
<1>6. StatusIsAsked'
  BY <1>a, <1>c, <1>f, <1>h DEF Synced, StatusIsAsked
<1> QED
  BY <1>1, <1>2, <1>3, <1>4, <1>5, <1>6 DEF Synced

\* An attempt's failure that has opened nothing.
LEMMA SyncAttemptFails ==
  ASSUME TasksTyped, Synced, OnceInv, NEW o \in Openers, NextAttempt(o),
         task[o].pc \in {"search", "create", "add"},
         UNCHANGED <<status, asked, link, remote, opener, hooks, spared>>
  PROVE  Synced'
<1>a. /\ o \in Tasks /\ task \in [Tasks -> TaskStates] /\ task[o] \in TaskStates /\ Unlinked(o)
  BY DEF TasksTyped, Tasks, Unlinked
<1>1. CASE Returns(o)
  BY <1>a, <1>1, SyncReturns DEF SeesTo
<1>2. CASE task' = [task EXCEPT ![o].pc = "check", ![o].attempt = @ + 1]
  <2>1. /\ task'[o].pc = "check" /\ task'[o].known = task[o].known /\ task'[o].want = task[o].want
        /\ \A u \in Tasks : u # o => task'[u] = task[u]
    BY <1>a, <1>2
  <2>2. /\ \A r \in Remotes : opener[r] = o => r \notin Links /\ remote[r] = "open" /\ ~Told(r)
        /\ task[o].known # Unset => opener[task[o].known] = o /\ task[o].want = "open"
    BY <1>a DEF Synced, RunsKnowTheirs
  <2> QED
    BY <1>a, <2>1, <2>2, TaskGoesOn DEF SeesTo
<1> QED
  BY <1>1, <1>2 DEF NextAttempt

LEMMA SyncOpenStep ==
  ASSUME TasksTyped, GitHubTyped, IssueTyped, Synced, OnceInv, NEW o \in Openers, OpenStep(o)
  PROVE  Synced'
<1>a. /\ o \in Tasks /\ o # Unset /\ task \in [Tasks -> TaskStates] /\ TaskTyped(o, task[o])
      /\ task[o] \in TaskStates /\ RunIsSound(o)
  BY MirrorAssumption DEF TasksTyped, TaskTyped, Tasks, OnceInv
<1>b. Unlinked(o) =>
        /\ \A r \in Remotes : opener[r] = o => r \notin Links /\ remote[r] = "open" /\ ~Told(r)
        /\ task[o].known # Unset => opener[task[o].known] = o /\ task[o].want = "open"
  BY DEF Synced, RunsKnowTheirs
<1>1. CASE ClaimOpening(o)
  <2>a. /\ task[o] = Pending /\ UNCHANGED <<status, asked, link, remote, opener, hooks, spared>>
    BY <1>1 DEF ClaimOpening, Untouched
  <2>b. task[o].pc = "pending" /\ task[o].known = Unset /\ OpenedNone(o)
    BY <1>a, <2>a DEF Pending, Resting, RunIsSound
  <2>1. \/ task' = [task EXCEPT ![o].pc = "check", ![o].attempt = 1]
        \/ task' = [task EXCEPT ![o] = Resting]
    BY <1>1 DEF ClaimOpening
  <2>2. /\ \A u \in Tasks : u # o => task'[u] = task[u]
        /\ task'[o].pc \in {"check", "idle"} /\ task'[o].known = Unset
    <3>1. CASE task' = [task EXCEPT ![o].pc = "check", ![o].attempt = 1]
      BY <1>a, <2>b, <3>1
    <3>2. CASE task' = [task EXCEPT ![o] = Resting]
      BY <1>a, <3>2 DEF Resting
    <3> QED
      BY <2>1, <3>1, <3>2
  <2> QED
    BY <1>a, <2>a, <2>b, <2>2, TaskGoesOn DEF SeesTo, OpenedNone
<1>g. ASSUME NEW pc \in {"add", "search", "create"}, task' = [task EXCEPT ![o].pc = pc],
             Unlinked(o), Links = {},
             UNCHANGED <<status, asked, link, remote, opener, hooks, spared>>
      PROVE  Synced'
  <2>1. /\ task'[o].pc = pc /\ task'[o].known = task[o].known /\ task'[o].want = task[o].want
        /\ \A u \in Tasks : u # o => task'[u] = task[u]
    BY <1>a, <1>g
  <2> QED
    BY <1>a, <1>b, <1>g, <2>1, TaskGoesOn DEF Unlinked
<1>2. CASE FindLink(o)
  <2>a. task[o].pc = "check" /\ UNCHANGED <<status, asked, link, remote, opener, hooks, spared>>
    BY <1>2 DEF FindLink, Untouched
  <2>1. CASE Returns(o)
    BY <1>a, <2>a, <2>1, SyncReturns DEF SeesTo
  <2>2. CASE ~Returns(o)
    <3>1. PICK pc \in {"add", "search", "create"} : task' = [task EXCEPT ![o].pc = pc] /\ Links = {}
      BY <1>2, <2>2 DEF FindLink, Goes
    <3> QED
      BY <1>g, <2>a, <3>1 DEF Unlinked
  <2> QED
    BY <2>1, <2>2
<1>3. CASE IssuesSince(o)
  <2>a. /\ task[o].pc = "search" /\ UNCHANGED <<status, asked, link, remote, opener, hooks, spared>>
        /\ Links = {} /\ Unlinked(o)
    BY <1>3, <1>a DEF IssuesSince, Untouched, RunIsSound, Unlinked
  <2>1. CASE Goes(o, "create")
    BY <1>g, <2>a, <2>1 DEF Goes
  <2>2. ASSUME NEW r \in Remotes, opener[r] = o,
               task' = [task EXCEPT ![o].pc = "add", ![o].known = r, ![o].want = remote[r]]
        PROVE  Synced'
    <3>1. /\ task'[o].pc = "add" /\ task'[o].known = r /\ task'[o].want = remote[r]
          /\ \A u \in Tasks : u # o => task'[u] = task[u]
      BY <1>a, <2>2
    <3> QED
      BY <1>a, <1>b, <2>a, <2>2, <3>1, TaskGoesOn
  <2> QED
    BY <1>3, <2>1, <2>2 DEF IssuesSince
<1>c. task[o].pc = "create" => /\ Links = {} /\ OpenedNone(o)
                              /\ task[o].known = Unset
  <2> SUFFICES ASSUME task[o].pc = "create"
               PROVE  Links = {} /\ OpenedNone(o) /\ task[o].known = Unset
    OBVIOUS
  <2>1. Links = {} /\ OpenedNone(o)
    BY <1>a DEF RunIsSound
  <2>2. task[o].known \in Remotes \cup {Unset}
    BY <1>a DEF TaskStates, Numbers
  <2> QED
    BY <1>b, <2>1, <2>2 DEF Unlinked, OpenedNone
<1>4. ASSUME NEW r \in Remotes, CreateIssue(o, r) PROVE Synced'
  <2>1. /\ Opens(o, r) /\ task[o].pc = "create"
        /\ task' = [task EXCEPT ![o].pc = "add", ![o].known = r, ![o].want = "open"]
        /\ UNCHANGED <<status, asked, link, hooks, spared>>
    BY <1>4 DEF CreateIssue, Untouched
  <2>2. /\ task'[o].pc = "add" /\ task'[o].known = r /\ task'[o].want = "open"
        /\ \A u \in Tasks : u # o => task'[u] = task[u]
    BY <1>a, <2>1
  <2> QED
    BY <1>c, <2>1, <2>2, SyncOpens
<1>5. CASE AttemptFails(o)
  <2>a. /\ task[o].pc \in {"search", "create", "add"} /\ NextAttempt(o)
        /\ UNCHANGED <<status, asked, link, hooks, spared>>
    BY <1>5 DEF AttemptFails, Untouched
  <2>1. CASE UNCHANGED <<remote, opener>>
    BY <2>a, <2>1, SyncAttemptFails
  <2>2. ASSUME NEW r \in Remotes, Opens(o, r), task[o].pc = "create" PROVE Synced'
    <3>1. /\ \A u \in Tasks : u # o => task'[u] = task[u]
          /\ task'[o].pc \in {"check", "idle"} /\ task'[o].known = Unset
      <4>1. CASE Returns(o)
        BY <1>a, <4>1 DEF Returns, Resting
      <4>2. CASE task' = [task EXCEPT ![o].pc = "check", ![o].attempt = @ + 1]
        BY <1>a, <1>c, <2>2, <4>2
      <4> QED
        BY <2>a, <4>1, <4>2 DEF NextAttempt
    <3> QED
      BY <1>c, <2>a, <2>2, <3>1, SyncOpens
  <2> QED
    BY <1>5, <2>1, <2>2 DEF AttemptFails
<1>6. CASE FindLinkFails(o)
  <2>1. /\ task[o].pc = "check" /\ Returns(o)
        /\ UNCHANGED <<status, asked, link, remote, opener, hooks, spared>>
    BY <1>6 DEF FindLinkFails, Untouched
  <2> QED
    BY <1>a, <2>1, SyncReturns DEF SeesTo
<1> QED
  BY <1>1, <1>2, <1>3, <1>4, <1>5, <1>6, SyncLinked DEF OpenStep

\* A step after which the status is read anew, with nothing on its way.
LEMMA SyncSpawns ==
  ASSUME TasksTyped, Synced, Spawned, DOMAIN hooks' = {}, spared' = {} => status' = asked',
         UNCHANGED <<link, remote, opener, spared>>,
         \A r \in Links \ spared : link[r] = remote[r] \/ \E u \in Tasks : Sets(u, r)
  PROVE  Synced'
<1>a. PICK t \in Syncs : task[t] = Resting /\ task' = [task EXCEPT ![t].pc = "read"]
  BY DEF Spawned
<1>b. t \in Tasks /\ t \notin Openers
  BY MirrorAssumption DEF Tasks
<1>c. /\ task'[t].pc = "read" /\ task[t].pc = "idle"
      /\ \A u \in Tasks : u # t => task'[u] = task[u]
  BY <1>a, <1>b DEF TasksTyped, TaskStates, Resting
<1>d. Links' = Links
  BY DEF Links
<1>1. TasksSetLinks'
  BY <1>c, <1>d DEF Synced, TasksSetLinks
<1>2. RunsKnowTheirs'
  <2> SUFFICES ASSUME NEW o \in Openers, Unlinked(o)'
               PROVE  /\ \A r \in Remotes : opener[r] = o => r \notin Links /\ remote[r] = "open"
                      /\ task'[o].known # Unset => opener[task'[o].known] = o /\ task'[o].want = "open"
    BY <1>d DEF RunsKnowTheirs, Told
  <2>1. task'[o] = task[o] /\ Unlinked(o)
    BY <1>b, <1>c DEF Unlinked, Tasks
  <2> QED
    BY <2>1 DEF Synced, RunsKnowTheirs
<1>3. HooksAreAlone' /\ StatusIsAsked'
  BY DEF HooksAreAlone, StatusIsAsked
<1>4. LinksAreTrue'
  <2> SUFFICES ASSUME NEW r \in Links \ spared
               PROVE  /\ \A u \in Tasks : task'[u].pc = "note" /\ task'[u].known = r => task'[u].want = remote[r]
                      /\ \/ link[r] = remote[r]
                         \/ \E u \in Tasks : task'[u].pc = "note" /\ task'[u].known = r
    BY <1>d DEF LinksAreTrue, Sets
  <2>1. \A u \in Tasks : Sets(u, r) => task[u].want = remote[r] /\ u # t
    BY <1>c DEF Synced, LinksAreTrue, Sets
  <2>2. ASSUME NEW u \in Tasks, task'[u].pc = "note", task'[u].known = r PROVE task'[u].want = remote[r]
    BY <1>c, <2>1, <2>2 DEF Sets
  <2>3. ASSUME NEW u \in Tasks, Sets(u, r) PROVE task'[u].pc = "note" /\ task'[u].known = r
    BY <1>c, <2>1, <2>3 DEF Sets
  <2> QED
    BY <2>2, <2>3
<1>5. SomebodySeesToIt'
  BY <1>b, <1>c DEF SomebodySeesToIt, SeesTo
<1> QED
  BY <1>1, <1>2, <1>3, <1>4, <1>5 DEF Synced

LEMMA SyncChangeStatus ==
  ASSUME TasksTyped, GitHubTyped, Synced, ~crossed', NEW s \in Statuses, ChangeStatus(s)
  PROVE  Synced'
<1>1. /\ hooks = EmptyBag /\ status' = asked' /\ Spawned
      /\ UNCHANGED <<link, remote, opener, hooks, spared>>
  BY DEF ChangeStatus, Asks
<1>2. DOMAIN hooks = {} /\ DOMAIN hooks' = {}
  BY <1>1 DEF EmptyBag, SetToBag
<1>3. \A r \in Links \ spared : link[r] = remote[r] \/ \E u \in Tasks : Sets(u, r)
  BY <1>2 DEF Synced, LinksAreTrue
<1> QED
  BY <1>1, <1>2, <1>3, SyncSpawns

\* The GitHub issues are as the issue is when nothing is on its way.
LEMMA QuietInSync ==
  ASSUME Synced, Quiet
  PROVE  InSync /\ (spared = {} => status = asked)
<1>1. DOMAIN hooks = {}
  BY DEF Quiet, EmptyBag, SetToBag
<1>2. \A t \in Tasks, r \in Remotes : ~SeesTo(t, r)
  BY DEF Quiet, SeesTo, Resting, Pending
<1>3. \A r \in Remotes : ~Told(r)
  BY <1>1 DEF Told
<1> QED
  BY <1>1, <1>2, <1>3 DEF Synced, SomebodySeesToIt, StatusIsAsked, InSync, Links

LEMMA SyncKill ==
  ASSUME GitHubTyped, IssueTyped, Synced, KillTasks
  PROVE  Synced'
<1>a. /\ task' = [t \in Tasks |-> IF task[t] = Pending THEN Pending ELSE Resting]
      /\ hooks' = [h \in {x \in DOMAIN hooks : x.pc = "sent"} |-> hooks[h]]
      /\ spared' = Remotes
      /\ UNCHANGED <<status, link, remote, opener, asked>>
  BY DEF KillTasks
<1>b. /\ Links' = Links /\ Links \subseteq Remotes /\ Links' \ spared' = {}
      /\ \A t \in Tasks : task'[t].pc \in {"idle", "pending"}
  BY <1>a DEF Links, Resting, Pending
<1>c. /\ \A h \in DOMAIN hooks' : h \in DOMAIN hooks /\ h.pc = "sent" /\ hooks'[h] = hooks[h]
  BY <1>a
<1>1. TasksSetLinks'
  BY <1>a, <1>b DEF Synced, TasksSetLinks
<1>2. RunsKnowTheirs'
  BY <1>b DEF RunsKnowTheirs, Unlinked, Tasks
<1>3. HooksAreAlone'
  <2> SUFFICES ASSUME NEW h \in DOMAIN hooks'
               PROVE  DOMAIN hooks' = {h} /\ hooks'[h] = 1 /\ remote[h.of] # "none" /\ h.pc # "stored"
    BY <1>a, <1>b DEF HooksAreAlone
  <2>1. DOMAIN hooks = {h} /\ hooks[h] = 1 /\ remote[h.of] # "none" /\ h.pc # "stored" /\ hooks'[h] = hooks[h]
    BY <1>c DEF Synced, HooksAreAlone
  <2>2. \A x \in DOMAIN hooks' : x = h
    BY <1>c, <2>1
  <2> QED
    BY <2>1, <2>2
<1>4. LinksAreTrue' /\ SomebodySeesToIt'
  BY <1>b DEF LinksAreTrue, SomebodySeesToIt
<1>5. StatusIsAsked'
  <2> SUFFICES ASSUME Remotes = {} PROVE StatusIsAsked'
    BY <1>a DEF StatusIsAsked
  <2>1. DOMAIN hooks = {} /\ spared = {}
    BY DEF GitHubTyped, IssueTyped, Webhooks
  <2>2. DOMAIN hooks' = {} /\ status' = asked'
    BY <1>a, <1>c, <2>1 DEF Synced, StatusIsAsked
  <2> QED
    BY <2>2 DEF StatusIsAsked
<1> QED
  BY <1>1, <1>2, <1>3, <1>4, <1>5 DEF Synced

LEMMA OnlyHook ==
  ASSUME NEW B, DOMAIN B = {}, NEW x
  PROVE  DOMAIN BagAdd(B, x) = {x} /\ BagAdd(B, x)[x] = 1
BY DEF BagAdd

LEMMA NoHook ==
  ASSUME NEW B, NEW x, DOMAIN B = {x}, B[x] = 1
  PROVE  DOMAIN BagRemove(B, x) = {}
BY DEF BagRemove

\* Somebody changes an issue on GitHub, and nothing else is on its way.
LEMMA SyncOnGitHub ==
  ASSUME TasksTyped, GitHubTyped, IssueTyped, Synced, ~crossed', NEW r \in Remotes, OnGitHub(r)
  PROVE  Synced'
<1>q. Quiet /\ InSync /\ (spared = {} => status = asked)
  BY QuietInSync DEF OnGitHub
<1>a. PICK s \in States :
        /\ remote' = [remote EXCEPT ![r] = s]
        /\ hooks' = BagAdd(hooks, [of |-> r, state |-> s, pc |-> "sent"])
        /\ asked' = IF link[r] = "none" THEN asked ELSE StatusFor(s)
  BY DEF OnGitHub, Asks, States
<1> DEFINE h == [of |-> r, state |-> s, pc |-> "sent"]
<1>h. h.of = r /\ h.state = s /\ h.pc = "sent" /\ hooks' = BagAdd(hooks, h)
  BY <1>a
<1> HIDE DEF h
<1>b. DOMAIN hooks = {} /\ DOMAIN hooks' = {h} /\ hooks'[h] = 1
  BY <1>q, <1>h, OnlyHook DEF Quiet, EmptyBag, SetToBag
<1>c. /\ UNCHANGED <<status, link, opener, task, spared>> /\ remote[r] # "none"
      /\ \A t \in Tasks : task[t].pc \in {"idle", "pending"}
  BY <1>q DEF OnGitHub, Quiet, Resting, Pending
<1>d. /\ remote'[r] = s /\ \A q \in Remotes : q # r => remote'[q] = remote[q]
      /\ Links' = Links /\ Links \subseteq Remotes /\ s # "none"
      /\ link[r] = "none" <=> r \notin Links
  BY <1>a, <1>c DEF GitHubTyped, Links, States
<1>1. TasksSetLinks'
  BY <1>c, <1>d DEF Synced, TasksSetLinks
<1>2. RunsKnowTheirs'
  BY <1>c DEF RunsKnowTheirs, Unlinked, Tasks
<1>3. HooksAreAlone'
  BY <1>b, <1>c, <1>d, <1>h DEF HooksAreAlone
<1>4. LinksAreTrue'
  <2> SUFFICES ASSUME NEW q \in Links \ spared
               PROVE  link[q] = remote'[q] \/ h.of = q
    BY <1>b, <1>c, <1>d, <1>h DEF LinksAreTrue, Sets
  <2>1. link[q] = remote[q]
    BY <1>b, <1>c DEF Synced, LinksAreTrue, Sets
  <2> QED
    BY <1>d, <1>h, <2>1
<1>5. SomebodySeesToIt'
  <2>1. StateOf(status') = StateOf(status) /\ Links' \ spared' = Links \ spared
    BY <1>c, <1>d
  <2>2. \A q \in Remotes : h.of = q => Told(q)'
    BY <1>b DEF Told
  <2>3. StateOf(status) # "none" => \A q \in Links \ spared : remote'[q] = StateOf(status) \/ h.of = q
    BY <1>q, <1>d, <1>h DEF InSync
  <2>4. StateOf(status) # "none" => \A q \in Links \ spared : remote'[q] = StateOf(status) \/ Told(q)'
    BY <2>2, <2>3, <1>d
  <2>5. StateOf(status)' = StateOf(status) /\ Links' = Links /\ spared' = spared
    BY <1>c, <1>d DEF StateOf
  <2> QED
    BY <2>4, <2>5 DEF SomebodySeesToIt
<1>6. StatusIsAsked'
  BY <1>q, <1>a, <1>b, <1>c, <1>d, <1>h DEF StatusIsAsked
<1> QED
  BY <1>1, <1>2, <1>3, <1>4, <1>5, <1>6 DEF Synced

\* The webhook is gone, and nothing waits for it.
LEMMA SyncHookGone ==
  ASSUME Synced, NEW h \in DOMAIN hooks, DOMAIN hooks' = {},
         UNCHANGED <<task, link, remote, opener, asked>>, spared \subseteq spared',
         \A q \in Links \ spared' : q = h.of => h.pc = "stored" /\ remote[q] = StateOf(status),
         status' = status \/ Links \ spared' = {},
         spared' = {} => status' = asked
  PROVE  Synced'
<1>a. Links' = Links
  BY DEF Links
<1>b. \A x \in DOMAIN hooks : x = h
  BY DEF Synced, HooksAreAlone
<1>1. TasksSetLinks'
  BY <1>a DEF Synced, TasksSetLinks
<1>2. RunsKnowTheirs'
  BY <1>a DEF Synced, RunsKnowTheirs, Unlinked, Told
<1>3. HooksAreAlone' /\ StatusIsAsked'
  BY DEF HooksAreAlone, StatusIsAsked
<1>4. LinksAreTrue'
  <2> SUFFICES ASSUME NEW q \in Links \ spared'
               PROVE  /\ \A u \in Tasks : Sets(u, q) => task[u].want = remote[q]
                      /\ link[q] = remote[q] \/ \E u \in Tasks : Sets(u, q)
    BY <1>a DEF LinksAreTrue, Sets
  <2> QED
    BY <1>b DEF Synced, LinksAreTrue
<1>5. SomebodySeesToIt'
  <2>1. CASE Links \ spared' = {}
    BY <1>a, <2>1 DEF SomebodySeesToIt
  <2>2. CASE status' = status
    <3> SUFFICES ASSUME StateOf(status) # "none", NEW q \in Links \ spared', remote[q] # StateOf(status)
                 PROVE  \E u \in Tasks : SeesTo(u, q)
      BY <1>a, <2>2 DEF SomebodySeesToIt, SeesTo
    <3>1. ~Told(q)
      BY <1>b DEF Told
    <3> QED
      BY <3>1 DEF Synced, SomebodySeesToIt
  <2> QED
    BY <2>1, <2>2
<1> QED
  BY <1>1, <1>2, <1>3, <1>4, <1>5 DEF Synced

LEMMA StatusOfState ==
  /\ \A s \in Statuses : StateOf(s) # "none" => StatusFor(StateOf(s)) = s
BY DEF Statuses, StateOf, StatusFor

LEMMA SyncHook ==
  ASSUME TasksTyped, GitHubTyped, IssueTyped, Synced,
         NEW h \in BagToSet(hooks), StoreHook(h) \/ FollowHook(h) \/ HookFails(h)
  PROVE  Synced'
<1>a. h \in DOMAIN hooks /\ h \in Webhooks /\ h.of \in Remotes /\ h.state \in States
  BY DEF GitHubTyped, BagToSet, Webhooks
<1>b. /\ DOMAIN hooks = {h} /\ hooks[h] = 1
      /\ remote[h.of] # "none"
      /\ h.pc = "stored" => h.of \in Links
      /\ h.of \in Links => \A t \in Tasks : task[t].pc \in {"idle", "pending", "check"}
      /\ h.of \in Links \ spared => h.state = remote[h.of]
  BY <1>a DEF Synced, HooksAreAlone
<1>c. DOMAIN BagRemove(hooks, h) = {}
  BY <1>b, NoHook
<1>d. /\ spared = {} /\ h.of \in Links => StatusFor(h.state) = asked
      /\ spared = {} /\ h.of \notin Links => status = asked
  BY <1>b DEF Synced, StatusIsAsked
<1>e. Links \subseteq Remotes
  BY DEF Links
<1>1. CASE StoreHook(h)
  <2>a. /\ h.pc = "sent" /\ UNCHANGED <<status, remote, opener, task, asked, spared>>
        /\ link' = [link EXCEPT ![h.of] = IF @ = "none" THEN @ ELSE h.state]
    BY <1>1 DEF StoreHook, Rest
  <2>1. CASE link[h.of] = "none"
    <3>1. link' = link /\ h.of \notin Links /\ hooks' = BagRemove(hooks, h)
      BY <1>1, <2>a, <2>1 DEF StoreHook, IssueTyped, Links
    <3> QED
      BY <1>a, <1>c, <1>d, <2>a, <3>1, SyncHookGone
  <2>2. CASE link[h.of] # "none"
    <3> DEFINE k == [h EXCEPT !.pc = "stored"]
    <3>a. k.of = h.of /\ k.state = h.state /\ k.pc = "stored"
      BY <1>a DEF Webhooks
    <3>b. hooks' = BagAdd(BagRemove(hooks, h), k)
      BY <1>1, <2>2 DEF StoreHook
    <3> HIDE DEF k
    <3>c. DOMAIN hooks' = {k} /\ hooks'[k] = 1
      BY <1>c, <3>b, OnlyHook
    <3>d. /\ h.of \in Links /\ Links' = Links /\ link'[h.of] = h.state
          /\ \A q \in Remotes : q # h.of => link'[q] = link[q]
      BY <1>1, <1>a, <2>a, <2>2, LinksAre DEF Links, IssueTyped
    <3>1. TasksSetLinks'
      BY <2>a, <3>d DEF Synced, TasksSetLinks
    <3>2. RunsKnowTheirs'
      BY <1>b, <2>a, <3>a, <3>c, <3>d DEF Synced, RunsKnowTheirs, Unlinked, Told
    <3>3. HooksAreAlone'
      BY <1>b, <2>a, <3>a, <3>c, <3>d DEF HooksAreAlone
    <3>4. LinksAreTrue'
      <4> SUFFICES ASSUME NEW q \in Links \ spared
                   PROVE  link'[q] = remote[q]
        BY <1>b, <2>a, <3>d DEF LinksAreTrue, Sets
      <4>1. CASE q = h.of
        BY <1>b, <3>d, <4>1
      <4>2. CASE q # h.of
        BY <1>b, <1>e, <3>d, <4>2 DEF Synced, LinksAreTrue, Sets
      <4> QED
        BY <4>1, <4>2
    <3>5. SomebodySeesToIt'
      <4>1. \A q \in Remotes : Told(q) => Told(q)'
        BY <1>b, <3>a, <3>c DEF Told
      <4> QED
        BY <1>e, <2>a, <3>d, <4>1 DEF Synced, SomebodySeesToIt, SeesTo
    <3>6. StatusIsAsked'
      BY <1>d, <2>a, <3>a, <3>c, <3>d DEF StatusIsAsked
    <3> QED
      BY <3>1, <3>2, <3>3, <3>4, <3>5, <3>6 DEF Synced
  <2> QED
    BY <2>1, <2>2
<1>2. CASE FollowHook(h)
  <2>a. /\ h.pc = "stored" /\ h.of \in Links /\ DOMAIN hooks' = {}
        /\ UNCHANGED <<link, remote, opener, asked, spared>>
    BY <1>2, <1>b, <1>c DEF FollowHook, Rest
  <2>1. CASE StateOf(status) = h.state
    <3>1. UNCHANGED <<status, task>>
      BY <1>2, <2>1 DEF FollowHook
    <3>2. spared = {} => status = asked
      BY <1>a, <1>d, <2>a, <2>1, StatusOfState DEF IssueTyped, States
    <3> QED
      BY <1>a, <1>b, <2>a, <2>1, <3>1, <3>2, SyncHookGone
  <2>2. CASE StateOf(status) # h.state
    <3>1. Spawned /\ status' = StatusFor(h.state)
      BY <1>2, <2>2 DEF FollowHook
    <3>2. \A q \in Links \ spared : link[q] = remote[q] \/ \E u \in Tasks : Sets(u, q)
      BY <1>b, <2>a DEF Synced, LinksAreTrue
    <3> QED
      BY <1>d, <2>a, <3>1, <3>2, SyncSpawns
  <2> QED
    BY <2>1, <2>2
<1>3. CASE HookFails(h)
  <2>a. DOMAIN hooks' = {} /\ UNCHANGED <<task, link, remote, opener, asked>>
    BY <1>3, <1>c DEF HookFails
  <2>1. CASE spared' = spared \cup {h.of} /\ UNCHANGED status
    BY <1>a, <2>a, <2>1, SyncHookGone
  <2>2. CASE spared' = Remotes
    BY <1>a, <1>e, <2>a, <2>2, SyncHookGone DEF IssueTyped
  <2> QED
    BY <1>3, <2>1, <2>2 DEF HookFails
<1> QED
  BY <1>1, <1>2, <1>3

LEMMA SyncStep ==
  ASSUME MirrorInv, OnceInv, SyncInv, [MirrorNext]_mirrorVars
  PROVE  SyncInv'
<1>a. TasksTyped /\ GitHubTyped /\ IssueTyped
  BY MirrorTypes DEF MirrorInv
<1>b. crossed => crossed'
  <2>1. \A t \in Tasks : MirrorStep(t) => (crossed => crossed')
    BY DEF MirrorStep, ReadIssue, ReadLinks, SetRemoteState, ReadAgain, ReadFails, SetIssueState, SkipFailed, Rest
  <2>2. \A o \in Openers : OpenStep(o) => crossed' = crossed
    BY DEF OpenStep, ClaimOpening, FindLink, IssuesSince, AddLink, CreateIssue, AttemptFails, FindLinkFails, Untouched
  <2>3. \A h \in BagToSet(hooks) : StoreHook(h) \/ FollowHook(h) \/ HookFails(h) => crossed' = crossed
    BY DEF StoreHook, FollowHook, HookFails, Rest
  <2>4. (\E s \in Statuses : ChangeStatus(s)) \/ (\E r \in Remotes : OnGitHub(r)) => (crossed => crossed')
    BY DEF ChangeStatus, OnGitHub
  <2>5. KillTasks \/ UNCHANGED mirrorVars => crossed' = crossed
    BY DEF KillTasks, mirrorVars
  <2> QED
    BY <2>1, <2>2, <2>3, <2>4, <2>5 DEF MirrorNext, Statuses
<1> SUFFICES ASSUME ~crossed' PROVE Synced'
  BY DEF SyncInv
<1>c. Synced
  BY <1>b DEF SyncInv
<1>1. ASSUME NEW t \in Tasks, MirrorStep(t) PROVE Synced'
  BY <1>1, <1>a, <1>c, SyncMirrorStep
<1>2. ASSUME NEW o \in Openers, OpenStep(o) PROVE Synced'
  BY <1>2, <1>a, <1>c, SyncOpenStep
<1>3. ASSUME NEW s \in Statuses, ChangeStatus(s) PROVE Synced'
  BY <1>3, <1>a, <1>c, SyncChangeStatus
<1>4. ASSUME NEW r \in Remotes, OnGitHub(r) PROVE Synced'
  BY <1>4, <1>a, <1>c, SyncOnGitHub
<1>5. ASSUME NEW h \in BagToSet(hooks), StoreHook(h) \/ FollowHook(h) \/ HookFails(h) PROVE Synced'
  BY <1>5, <1>a, <1>c, SyncHook
<1>6. CASE KillTasks
  BY <1>6, <1>a, <1>c, SyncKill
<1>7. CASE UNCHANGED mirrorVars
  BY <1>7, <1>c DEF mirrorVars, Synced, TasksSetLinks, RunsKnowTheirs, HooksAreAlone, LinksAreTrue,
     SomebodySeesToIt, StatusIsAsked, Links, Unlinked, Told, Sets, SeesTo
<1> QED
  BY <1>1, <1>2, <1>3, <1>4, <1>5, <1>6, <1>7 DEF MirrorNext, Statuses

\* When every task and webhook is done, the linked GitHub issues are as the issue
\* is, and that is as it was last asked for, whatever order the tasks of
\* mirror_status, auto_create and the webhooks took, for any number of each:
\* a link that is out of step always has a task or a webhook that sees to it.
THEOREM LinksCatchUp == MirrorSpec => []CatchesUp
<1>1. MirrorInv /\ SyncInv => CatchesUp
  BY QuietInSync DEF CatchesUp, SyncInv
<1>2. MirrorSpec => []OnceInv
  BY OnceInvInit, OnceStep, MirrorAlways, PTL DEF MirrorSpec
<1> QED
  BY <1>1, <1>2, SyncInvInit, SyncStep, MirrorAlways, PTL DEF MirrorSpec

===============================================================================
