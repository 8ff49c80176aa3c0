--------------------------- MODULE ExecutionRuntime ---------------------------
(***************************************************************************)
(* The execution domain of one run (labelkit/runtime/scheduler.py): one    *)
(* workflow submits task groups; every group admits its leaf tasks through *)
(* the admission semaphores that all groups share; a failing leaf cancels  *)
(* its group, and a fatal one aborts the domain.                           *)
(*                                                                         *)
(* A task is named by its declaration key, a natural number; task ids and  *)
(* declaration keys are one thing here.  The awaits of the code are the    *)
(* boundaries of the actions: what the event loop runs between two awaits  *)
(* is one step.                                                            *)
(***************************************************************************)
EXTENDS Integers, FiniteSets

CONSTANTS
  Tasks,       \* declaration keys of every leaf task that may be submitted
  Groups,      \* the run_group calls of the run, each with its own caller
  Resources,   \* logical resource keys
  Members,     \* Members[g]: the tasks of request g; two requests may overlap
  ResourceOf,  \* ResourceOf[t]: the resource whose admission t needs
  Capacity,    \* Capacity[r]: admission capacity of r
  NoGroup      \* owner of a task no request has registered yet

ASSUME RuntimeAssumption ==
  /\ Tasks \subseteq Nat
  /\ IsFiniteSet(Tasks)
  /\ Members \in [Groups -> SUBSET Tasks]
  /\ ResourceOf \in [Tasks -> Resources]
  /\ Capacity \in [Resources -> Nat \ {0}]
  /\ NoGroup \notin Groups

VARIABLES
  state,        \* life cycle of the domain
  workflow,     \* "new", "running", or how the workflow coroutine ended
  watcher,      \* the task that waits for the abort event
  interrupted,  \* the task running run() was cancelled from outside
  primary,      \* what the root task group raised: "none", "cancelled", "group"
  terminal,     \* what run() returned or raised
  group,        \* life cycle of each run_group call
  owner,        \* owner[t]: the request that registered the id of t
  task,         \* life cycle of each leaf task
  outcome,      \* how the operation of each leaf ended
  cancelling,   \* leaves whose task has a cancellation request
  permits,      \* free permits of each admission semaphore
  results,      \* tasks whose result is stored in their group's result list
  queued,       \* the _queued counter
  running,      \* the _running counter
  cancelled,    \* the cancelled_tasks metric
  fatalEntries,         \* keys in _fatal_entries
  cancellationEntries,  \* keys in _cancellation_entries
  abort         \* the abort event

domainVars  == <<state, workflow, watcher, interrupted, primary, terminal>>
counterVars == <<queued, running, cancelled>>
entryVars   == <<fatalEntries, cancellationEntries, abort>>
leafVars    == <<owner, task, outcome, cancelling, permits, results>>
vars == <<domainVars, group, leafVars, counterVars, entryVars>>

-------------------------------------------------------------------------------
(* Vocabulary *)

WorkflowEnds == {"result", "error", "cancelled"}
Active  == {"open", "aborting"}          \* caller is inside run_group
Settled == {"returned", "raised", "refused"}
Holding == {"created", "running", "ended"}   \* task owns an admission permit
Failures == {"fatal", "control", "self_cancelled"}
Outcomes == Failures \cup {"ok", "cancelled"}

Least(S) == CHOOSE x \in S : \A y \in S : x <= y

Owned(g) == {t \in Tasks : owner[t] = g}
OwnedIn(g, S) == {t \in Owned(g) : task[t] \in S}
OutcomeIn(g, o) == {t \in Owned(g) : task[t] = "done" /\ outcome[t] = o}

\* A lane admits the tasks of one resource of one group in input order.
NextOfLane(g, t) ==
  /\ task[t] = "pending" /\ owner[t] = g
  /\ \A u \in OwnedIn(g, {"pending"}) : ResourceOf[u] = ResourceOf[t] => t <= u

-------------------------------------------------------------------------------
Init ==
  /\ state = "new" /\ workflow = "new" /\ watcher = "new"
  /\ interrupted = FALSE /\ primary = "none"
  /\ terminal = [kind |-> "none", key |-> {}]
  /\ group = [g \in Groups |-> "idle"]
  /\ owner = [t \in Tasks |-> NoGroup]
  /\ task = [t \in Tasks |-> "unknown"]
  /\ outcome = [t \in Tasks |-> "none"]
  /\ cancelling = {} /\ results = {}
  /\ permits = Capacity
  /\ queued = 0 /\ running = 0 /\ cancelled = 0
  /\ fatalEntries = {} /\ cancellationEntries = {}
  /\ abort = FALSE

\* run(): enter the domain, start the workflow and the watcher.
EnterDomain ==
  /\ state = "new"
  /\ state' = "running" /\ workflow' = "running" /\ watcher' = "waiting"
  /\ UNCHANGED <<interrupted, primary, terminal, group, leafVars, counterVars,
                 entryVars>>

-------------------------------------------------------------------------------
(* run_group *)

\* The whole request is validated before any id is registered.
Duplicate(g) == \E t \in Members[g] : owner[t] # NoGroup

Submit(g) ==
  /\ group[g] = "idle" /\ state = "running" /\ workflow = "running"
  /\ Members[g] # {} /\ ~Duplicate(g)
  /\ group' = [group EXCEPT ![g] = "open"]
  /\ owner' = [t \in Tasks |-> IF t \in Members[g] THEN g ELSE owner[t]]
  /\ task' = [t \in Tasks |-> IF t \in Members[g] THEN "pending" ELSE task[t]]
  /\ queued' = queued + Cardinality(Members[g])
  /\ UNCHANGED <<domainVars, outcome, cancelling, permits, results, running,
                 cancelled, entryVars>>

\* A duplicate id, or a caller that outlived the domain, is refused.
Refuse(g) ==
  /\ group[g] = "idle" /\ Members[g] # {}
  /\ \/ state = "running" /\ workflow = "running" /\ Duplicate(g)
     \/ state \in {"stopping", "closed"}
  /\ group' = [group EXCEPT ![g] = "refused"]
  /\ UNCHANGED <<domainVars, leafVars, counterVars, entryVars>>

\* Mutants of Admit: it goes on after an abort, it does not wait for a permit.
AdmitAfterAbort(g, t) ==
  /\ group[g] \in Active
  /\ NextOfLane(g, t)
  /\ permits[ResourceOf[t]] > 0
  /\ permits' = [permits EXCEPT ![ResourceOf[t]] = @ - 1]
  /\ task' = [task EXCEPT ![t] = "created"]
  /\ queued' = queued - 1
  /\ UNCHANGED <<domainVars, group, owner, outcome, cancelling, results,
                 running, cancelled, entryVars>>
AdmitWithoutPermit(g, t) ==
  /\ group[g] = "open"
  /\ NextOfLane(g, t)
  /\ permits' = [permits EXCEPT ![ResourceOf[t]] = @ - 1]
  /\ task' = [task EXCEPT ![t] = "created"]
  /\ queued' = queued - 1
  /\ UNCHANGED <<domainVars, group, owner, outcome, cancelling, results,
                 running, cancelled, entryVars>>

\* _produce_lane: one acquisition, then the leaf task is created.
Admit(g, t) ==
  /\ group[g] = "open"
  /\ NextOfLane(g, t)
  /\ permits[ResourceOf[t]] > 0
  /\ permits' = [permits EXCEPT ![ResourceOf[t]] = @ - 1]
  /\ task' = [task EXCEPT ![t] = "created"]
  /\ queued' = queued - 1
  /\ UNCHANGED <<domainVars, group, owner, outcome, cancelling, results,
                 running, cancelled, entryVars>>

\* The task group of g cancels its producers and every leaf that is not done.
CancelChildren(g) == cancelling' = cancelling \cup OwnedIn(g, Holding \ {"ended"})

\* The caller of run_group is cancelled: by the abort of the domain, by the
\* workflow that cleans up a coordinator, or by _settle_unmanaged_groups.
CancelCaller(g) ==
  /\ group[g] = "open" /\ state \in {"running", "stopping"}
  /\ group' = [group EXCEPT ![g] = "aborting"]
  /\ CancelChildren(g)
  /\ UNCHANGED <<domainVars, owner, task, outcome, permits, results,
                 counterVars, entryVars>>

\* Mutant of GroupSettle: it waits for the admission of the last task only.
GroupSettleEarly(g) ==
  /\ group[g] \in Active /\ OwnedIn(g, {"pending"}) = {}
  /\ group' = [group EXCEPT ![g] = IF group[g] = "open" THEN "returned" ELSE "raised"]
  /\ UNCHANGED <<domainVars, leafVars, counterVars, entryVars>>

\* The task group ends when every created child is done; run_group drops what
\* is still pending and returns the results or raises one stable error.
GroupSettle(g) ==
  /\ \/ group[g] = "open" /\ OwnedIn(g, {"pending"}) = {}
     \/ group[g] = "aborting"
  /\ OwnedIn(g, Holding) = {}
  /\ LET dropped == OwnedIn(g, {"pending"}) IN
       /\ queued' = queued - Cardinality(dropped)
       /\ task' = [t \in Tasks |-> IF t \in dropped THEN "dropped" ELSE task[t]]
       /\ group' = [group EXCEPT ![g] =
                      IF group[g] = "open" /\ Owned(g) \subseteq results
                      THEN "returned" ELSE "raised"]
  /\ UNCHANGED <<domainVars, owner, outcome, cancelling, permits, results,
                 running, cancelled, entryVars>>

\* _unwrap_group: what a group that raised hands to its caller.
GroupError(g) ==
  LET self == OutcomeIn(g, "self_cancelled")
      fatal == OutcomeIn(g, "fatal")
      control == OutcomeIn(g, "control")
  IN IF self # {} THEN [kind |-> "cancelled", key |-> {Least(self)}]
     ELSE IF fatal # {} THEN [kind |-> "fatal", key |-> {Least(fatal)}]
     ELSE IF control # {} THEN [kind |-> "control", key |-> {Least(control)}]
     ELSE [kind |-> "cancelled", key |-> {}]

-------------------------------------------------------------------------------
(* One leaf *)

StartLeaf(t) ==
  /\ task[t] = "created" /\ t \notin cancelling
  /\ task' = [task EXCEPT ![t] = "running"]
  /\ running' = running + 1
  /\ UNCHANGED <<domainVars, group, owner, outcome, cancelling, permits,
                 results, queued, cancelled, entryVars>>

\* Mutant of NeverStarted: the permit is given back by the body of the leaf only.
NeverStartedLeaks(t) ==
  /\ task[t] = "created" /\ t \in cancelling
  /\ task' = [task EXCEPT ![t] = "done"]
  /\ outcome' = [outcome EXCEPT ![t] = "cancelled"]
  /\ cancelled' = cancelled + 1
  /\ UNCHANGED <<domainVars, group, owner, cancelling, permits, results,
                 queued, running, entryVars>>

\* A leaf cancelled before its first step never runs its body.
NeverStarted(t) ==
  /\ task[t] = "created" /\ t \in cancelling
  /\ task' = [task EXCEPT ![t] = "ended"]
  /\ outcome' = [outcome EXCEPT ![t] = "cancelled"]
  /\ UNCHANGED <<domainVars, group, owner, cancelling, permits, results,
                 counterVars, entryVars>>

\* The outcomes of a leaf that set the abort event; a breaker that trips does not.
EveryFailure == Failures   \* mutant
AbortsDomain == {"fatal", "self_cancelled"}

\* The operation of t ends with o.  A leaf that was asked to cancel may still
\* end with any outcome but a cancellation of its own; one that was not, with
\* any but a structural one.
LeafEnd(t, o) ==
  /\ task[t] = "running"
  /\ o = "cancelled" => t \in cancelling
  /\ o = "self_cancelled" => t \notin cancelling
  /\ task' = [task EXCEPT ![t] = "ended"]
  /\ outcome' = [outcome EXCEPT ![t] = o]
  /\ results' = IF o = "ok" THEN results \cup {t} ELSE results
  /\ fatalEntries' = IF o = "fatal" THEN fatalEntries \cup {t} ELSE fatalEntries
  /\ cancellationEntries' = IF o = "self_cancelled"
                            THEN cancellationEntries \cup {t}
                            ELSE cancellationEntries
  /\ abort' = (abort \/ o \in AbortsDomain)
  /\ running' = running - 1
  /\ cancelled' = IF o = "self_cancelled" THEN cancelled + 1 ELSE cancelled
  /\ UNCHANGED <<domainVars, group, owner, cancelling, permits, queued>>

\* Mutant of LeafDone: a leaf that cancelled itself is counted by its body and again
\* by its callback.
LeafDoneCountsTwice(t) ==
  /\ task[t] = "ended"
  /\ task' = [task EXCEPT ![t] = "done"]
  /\ permits' = [permits EXCEPT ![ResourceOf[t]] = @ + 1]
  /\ cancelled' = IF outcome[t] \in {"cancelled", "self_cancelled"} THEN cancelled + 1
                  ELSE cancelled
  /\ IF outcome[t] \in Failures /\ group[owner[t]] = "open"
     THEN /\ group' = [group EXCEPT ![owner[t]] = "aborting"]
          /\ CancelChildren(owner[t])
     ELSE UNCHANGED <<group, cancelling>>
  /\ UNCHANGED <<domainVars, owner, outcome, results, queued, running, entryVars>>

\* The done callbacks of an ended leaf: the task group starts to abort on a
\* failure, then _finish_leaf gives the permit back.
LeafDone(t) ==
  /\ task[t] = "ended"
  /\ task' = [task EXCEPT ![t] = "done"]
  /\ permits' = [permits EXCEPT ![ResourceOf[t]] = @ + 1]
  /\ cancelled' = IF outcome[t] = "cancelled" THEN cancelled + 1 ELSE cancelled
  /\ IF outcome[t] \in Failures /\ group[owner[t]] = "open"
     THEN /\ group' = [group EXCEPT ![owner[t]] = "aborting"]
          /\ CancelChildren(owner[t])
     ELSE UNCHANGED <<group, cancelling>>
  /\ UNCHANGED <<domainVars, owner, outcome, results, queued, running, entryVars>>

-------------------------------------------------------------------------------
(* The domain *)

\* The watcher wakes up, raises, and the root task group cancels the workflow.
WatchAbort ==
  /\ state = "running" /\ abort /\ watcher = "waiting"
  /\ watcher' = "raised"
  /\ UNCHANGED <<state, workflow, interrupted, primary, terminal, group,
                 leafVars, counterVars, entryVars>>

\* The task that runs the domain is cancelled from outside.  It awaits the workflow,
\* so the request goes to the workflow alone, which may absorb it; the watcher waits
\* on.  A cancellation that comes between the return of the workflow and the exit of
\* the root task group takes the place of the result.
Interrupt ==
  /\ state = "running"
  /\ interrupted' = TRUE
  /\ workflow' = IF workflow = "result" THEN "cancelled" ELSE workflow
  /\ UNCHANGED <<state, watcher, primary, terminal, group, leafVars,
                 counterVars, entryVars>>

\* A cancellation the workflow may let through: one asked for by the root task
\* group, or the self-cancellation a group handed to it.
MayEndCancelled ==
  \/ interrupted \/ watcher = "raised"
  \/ \E g \in Groups : group[g] = "raised" /\ GroupError(g).kind = "cancelled"

\* The workflow ends.  It may have swallowed the error of a group, and it may
\* leave groups behind that nobody awaits.
WorkflowEnd(e) ==
  /\ state = "running" /\ workflow = "running"
  /\ e = "cancelled" => MayEndCancelled
  /\ workflow' = e
  /\ UNCHANGED <<state, watcher, interrupted, primary, terminal, group, leafVars,
                 counterVars, entryVars>>

\* The root task group is left: the domain stops accepting groups.  An error beats
\* a cancellation, and a workflow that absorbed the cancellation has a result.
RootExit ==
  /\ state = "running" /\ workflow \in WorkflowEnds
  /\ state' = "stopping"
  /\ watcher' = IF watcher = "waiting" THEN "cancelled" ELSE watcher
  /\ primary' = IF workflow = "error" \/ watcher = "raised" THEN "group"
                ELSE IF workflow = "cancelled" THEN "cancelled"
                ELSE "none"
  /\ UNCHANGED <<workflow, interrupted, terminal, group, leafVars,
                 counterVars, entryVars>>

\* Mutant of Terminal: the entries only matter when the workflow failed.
TerminalOfWorkflow ==
  IF primary = "cancelled" THEN [kind |-> "cancelled", key |-> {}]
  ELSE IF primary = "none" THEN [kind |-> "result", key |-> {}]
  ELSE IF fatalEntries # {} THEN [kind |-> "fatal", key |-> {Least(fatalEntries)}]
  ELSE [kind |-> "error", key |-> {}]

\* _raise_terminal: control first, then the least recorded entry, whatever the
\* workflow returned.
Terminal ==
  IF primary = "cancelled" THEN [kind |-> "cancelled", key |-> {}]
  ELSE IF cancellationEntries # {}
       THEN [kind |-> "cancelled", key |-> {Least(cancellationEntries)}]
  ELSE IF fatalEntries # {} THEN [kind |-> "fatal", key |-> {Least(fatalEntries)}]
  ELSE IF primary = "group" THEN [kind |-> "error", key |-> {}]
  ELSE [kind |-> "result", key |-> {}]

\* run() is cancelled while it waits for the callers the workflow left behind (or
\* resumes a cancellation that an error had overtaken): it raises at once, and the
\* domain is never marked closed.
SettleInterrupted ==
  /\ state = "stopping" /\ terminal.kind = "none"
  /\ \E g \in Groups : group[g] \in Active
  /\ terminal' = [kind |-> "cancelled", key |-> {}]
  /\ UNCHANGED <<state, workflow, watcher, interrupted, primary, group, leafVars,
                 counterVars, entryVars>>

\* The domain closes once no caller is left inside run_group.
Close ==
  /\ state = "stopping" /\ terminal.kind = "none"
  /\ \A g \in Groups : group[g] \notin Active
  /\ state' = "closed"
  /\ terminal' = Terminal
  /\ UNCHANGED <<workflow, watcher, interrupted, primary, group, leafVars,
                 counterVars, entryVars>>

-------------------------------------------------------------------------------
GroupStep(g) ==
  \/ Submit(g) \/ Refuse(g) \/ CancelCaller(g) \/ GroupSettle(g)
  \/ \E t \in Tasks : Admit(g, t)

LeafStep(t) ==
  \/ StartLeaf(t) \/ NeverStarted(t) \/ LeafDone(t)
  \/ \E o \in Outcomes : LeafEnd(t, o)

DomainStep ==
  \/ EnterDomain \/ WatchAbort \/ Interrupt \/ RootExit
  \/ SettleInterrupted \/ Close
  \/ \E e \in WorkflowEnds : WorkflowEnd(e)

Next ==
  \/ DomainStep
  \/ \E g \in Groups : GroupStep(g)
  \/ \E t \in Tasks : LeafStep(t)

\* The event loop runs every callback that is ready and an operation is bounded
\* by its timeouts.  The workflow awaits its groups: it is only sure to end when
\* none is active.  No cancellation is sure to come, and one that came may be
\* absorbed: no caller is assumed to be cancelled.
Fairness ==
  /\ WF_vars(EnterDomain) /\ WF_vars(WatchAbort) /\ WF_vars(RootExit)
  /\ WF_vars(Close)
  /\ WF_vars(/\ \A g \in Groups : group[g] \notin Active
             /\ \E e \in WorkflowEnds : WorkflowEnd(e))
  /\ \A g \in Groups :
       WF_vars(GroupSettle(g)) /\ WF_vars(\E t \in Tasks : Admit(g, t))
  /\ \A t \in Tasks : WF_vars(LeafStep(t))

Spec == Init /\ [][Next]_vars
FairSpec == Spec /\ Fairness

-------------------------------------------------------------------------------
(* Properties *)

\* The states of every component and the types of the counters.
TypeOK ==
  /\ state \in {"new", "running", "stopping", "closed"}
  /\ workflow \in {"new", "running"} \cup WorkflowEnds
  /\ watcher \in {"new", "waiting", "raised", "cancelled"}
  /\ interrupted \in BOOLEAN /\ abort \in BOOLEAN
  /\ primary \in {"none", "cancelled", "group"}
  /\ terminal \in [kind : {"none", "result", "error", "fatal", "cancelled"},
                   key : SUBSET Tasks]
  /\ group \in [Groups -> {"idle"} \cup Active \cup Settled]
  /\ owner \in [Tasks -> Groups \cup {NoGroup}]
  /\ task \in [Tasks -> {"unknown", "pending", "done", "dropped"} \cup Holding]
  /\ outcome \in [Tasks -> Outcomes \cup {"none"}]
  /\ cancelling \subseteq Tasks /\ results \subseteq Tasks
  /\ permits \in [Resources -> Nat]
  /\ queued \in Int /\ running \in Int /\ cancelled \in Nat
  /\ fatalEntries \subseteq Tasks /\ cancellationEntries \subseteq Tasks

TasksIn(S) == {t \in Tasks : task[t] \in S}

\* Every permit of an admission semaphore is free or owned by exactly one
\* admitted leaf, over all groups and all ways a leaf can end
\* (_produce_lane, _finish_leaf).
PermitsConserved ==
  \A r \in Resources :
    permits[r] + Cardinality({t \in TasksIn(Holding) : ResourceOf[t] = r})
      = Capacity[r]

\* The queue and running counters, and with them the high-water marks of the
\* report, agree with the tasks that wait and run; each cancelled leaf is
\* counted once whether it was cancelled before it started, while it ran, or
\* by itself (_change_queue, _change_running, _finish_leaf, _run_leaf).
CountersExact ==
  /\ queued = Cardinality(TasksIn({"pending"}))
  /\ running = Cardinality(TasksIn({"running"}))
  /\ cancelled = Cardinality(
       {t \in TasksIn({"done"}) : outcome[t] = "cancelled"} \cup
       {t \in TasksIn({"ended", "done"}) : outcome[t] = "self_cancelled"})

\* run_group returns only when every leaf of the request ended with a result;
\* a group with a failed, cancelled or unadmitted leaf raises.
CompleteResults ==
  \A g \in Groups : group[g] = "returned" =>
    Owned(g) # {} /\ \A t \in Owned(g) : task[t] = "done" /\ outcome[t] = "ok"

\* A leaf lives only inside the run_group call that created it, so when the
\* domain has closed nothing runs, nothing waits and every permit is back,
\* even when the workflow left groups behind.
LeavesInsideGroups ==
  \A t \in Tasks :
    task[t] \in Holding \cup {"pending"} =>
      owner[t] \in Groups /\ group[owner[t]] \in Active

QuietWhenClosed ==
  state = "closed" =>
    /\ TasksIn(Holding \cup {"pending"}) = {}
    /\ queued = 0 /\ running = 0 /\ permits = Capacity

\* A fatal leaf decides the end of the run even when the workflow swallowed its
\* error, or the cancellation of the run during whose cleanup it failed: a closed
\* domain with such a leaf has no result, and what it raises is the least key of all
\* the leaves that failed, in any group and however late (_raise_terminal).  Only a
\* cancellation that got through the workflow goes before it.
LeastOf(S, key) == \E t \in S : key = {t} /\ \A u \in S : t <= u
FatalDecides ==
  state = "closed" =>
    LET failed == {t \in Tasks : outcome[t] = "fatal"}
        self == {t \in Tasks : outcome[t] = "self_cancelled"}
    IN /\ terminal.kind \in {"result", "error"} => failed = {} /\ self = {}
       /\ terminal.kind = "fatal" => self = {} /\ LeastOf(failed, terminal.key)
       /\ terminal.kind = "cancelled" =>
            workflow = "cancelled" \/ LeastOf(self, terminal.key)

\* A circuit breaker that trips in a leaf ends its own group and never wakes
\* the watcher: only a fatal or self-cancelled leaf does (_run_leaf).
BreakerStaysInGroup ==
  watcher = "raised" =>
    \E t \in Tasks : outcome[t] \in {"fatal", "self_cancelled"}

\* The permits and the counters of the report, whatever ends how.
AccountsExact == PermitsConserved /\ CountersExact

\* run_group returns whole results only, its leaves never outlive it, and a
\* domain that closed left nothing behind.
GroupsWhole == CompleteResults /\ LeavesInsideGroups /\ QuietWhenClosed

\* An id belongs to one request for the whole domain, and a request that reuses
\* it changes nothing of its task (_validate_and_group); once a group aborts,
\* none of its pending tasks is admitted any more (_produce_lane).
TasksKeepTheirFate ==
  [][\A t \in Tasks : owner[t] # NoGroup =>
       /\ owner'[t] = owner[t]
       /\ task[t] \in {"done", "dropped"} => task'[t] = task[t]
       /\ task[t] = "pending" /\ group[owner[t]] = "aborting"
            => task'[t] \in {"pending", "dropped"}]_vars

-------------------------------------------------------------------------------
(* What makes the safety properties inductive *)

\* A registered id belongs to a request that was accepted.
OwnersMatch ==
  /\ \A t \in Tasks : owner[t] = NoGroup <=> task[t] = "unknown"
  /\ \A g \in Groups : group[g] \in {"idle", "refused"} <=> Owned(g) = {}

\* The lists of the domain hold exactly the leaves that ended that way.
EntriesMatch ==
  /\ fatalEntries = {t \in Tasks : outcome[t] = "fatal"}
  /\ cancellationEntries = {t \in Tasks : outcome[t] = "self_cancelled"}
  /\ results = {t \in Tasks : outcome[t] = "ok"}
  /\ \A t \in Tasks : outcome[t] = "none" <=> task[t] \notin {"ended", "done"}
  /\ abort <=> fatalEntries \cup cancellationEntries # {}
  /\ watcher = "raised" => abort

\* Nothing moves after the domain has closed, and a cancellation that decides its
\* end came out of the workflow.
ClosedIsFinal ==
  /\ state = "closed" =>
       /\ \A g \in Groups : group[g] \notin Active
       /\ terminal = Terminal
  /\ state \in {"stopping", "closed"} /\ primary = "cancelled" => workflow = "cancelled"

Structure ==
  OwnersMatch /\ EntriesMatch /\ LeavesInsideGroups /\ ClosedIsFinal
  /\ CompleteResults

IInv == TypeOK /\ Structure /\ PermitsConserved /\ CountersExact

\* Whatever fails or is cancelled, at whatever await of run(), the run comes to rest:
\* run() has ended, by closing the domain or by a cancellation of its settling, and
\* no caller stays inside run_group.
AtRest ==
  /\ state = "closed" \/ (state = "stopping" /\ terminal.kind = "cancelled")
  /\ \A g \in Groups : group[g] \notin Active
DomainCloses == <>[]AtRest

===============================================================================
