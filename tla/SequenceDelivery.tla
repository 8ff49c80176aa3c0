--------------------------- MODULE SequenceDelivery ---------------------------
(***************************************************************************)
(* The delivery controller of sequence generation                          *)
(* (labelkit/orchestration/sequence_workflow.py): coordinators prepare the *)
(* attempts of a window of slots concurrently, and the controller commits, *)
(* retries or gives up on them strictly in declaration order.  Primary     *)
(* slots reserve their content in the group index of the deduplication     *)
(* (labelkit/operators/dedup.py) while they wait; noise slots are tested   *)
(* when they are committed.                                                *)
(*                                                                         *)
(* Slots are ordinals: the primary slots first, then the noise slots.      *)
(* What the controller runs between two awaits is one action.              *)
(***************************************************************************)
EXTENDS Integers, Sequences, FiniteSets, Functions

CONSTANTS
  Primary,      \* number of delivery slots
  Noise,        \* number of noise slots
  Window,       \* candidate window: total capacity of the profiles of a phase
  MaxAttempts,  \* max_slot_attempts
  Contents,     \* identities of content, as deduplication sees them
  Sizes,        \* retained sizes of a candidate
  MemoryLimit,  \* limits.retained_content_bytes
  NoContent,    \* no attempt has produced content
  NoSlot,       \* failed_slot = null
  Absorbs       \* whether the exit of an aborting asyncio.TaskGroup keeps for
                \* itself a cancellation of its parent (CPython 3.11 and 3.12) or
                \* issues it again (3.13)

ASSUME DeliveryAssumption ==
  /\ Primary \in Nat \ {0} /\ Noise \in Nat
  /\ Window \in Nat \ {0} /\ MaxAttempts \in Nat \ {0}
  /\ Sizes \subseteq Nat /\ MemoryLimit \in Nat
  /\ NoContent \notin Contents /\ NoSlot \notin Nat /\ Absorbs \in BOOLEAN

VARIABLES
  stage,        \* the phase that runs: "primary" or "noise"
  control,      \* where the controller is
  verdict,      \* how deliver() ends, once that is decided
  workflow,     \* cancellation of the workflow: "untouched", "requested",
                \* "delivered" or "swallowed"
  requester,    \* history: who requested it, "nobody" if nobody did
  next,         \* next_commit, over both phases
  launched,     \* next_launch, over both phases
  coordinator,  \* life cycle of the coordinator of each slot
  cancelling,   \* coordinators with an undelivered cancellation request
  attempt,      \* attempt_index of each coordinator
  content,      \* content of the current attempt
  size,         \* retained size of the current candidate
  failure,      \* what makes the task group of an attempt abort
  notice,       \* outcome each coordinator handed over, in queue or buffer
  registry,     \* slots with an entry among the pending reservations
  index,        \* contents committed to the group index or similarity filter
  accepted,     \* contents of the committed slots, in commit order
  retained,     \* retained_bytes
  consumed,     \* attempts charged to each slot
  rejected,     \* rejection counters, summed
  ledger,       \* failed_slot and attempts_used of a failed report
  absorbed      \* history: coordinators whose cancellation was absorbed

controlVars == <<stage, control, verdict, workflow, requester, next, launched>>
coordVars   == <<coordinator, cancelling, attempt, content, size, failure, notice>>
stateVars   == <<index, accepted, retained>>
reportVars  == <<consumed, rejected, ledger>>
vars == <<controlVars, coordVars, registry, stateVars, reportVars, absorbed>>

-------------------------------------------------------------------------------
(* Vocabulary *)

Slots == 0 .. Primary + Noise - 1
PhaseSlots == {o \in Slots : (o < Primary) = (stage = "primary")}
PhaseEnd == IF stage = "primary" THEN Primary ELSE Primary + Noise
IsPrimary(o) == o < Primary

Working == {"generating", "downstream", "aborting"}
Alive == Working \cup {"deciding", "done", "retry"}     \* holds a window permit
AliveIn(S) == {o \in S : coordinator[o] \in Alive}
Terminal == {"fatal", "control"}                        \* notices that end a phase
FatalNotices == {o \in PhaseSlots : notice[o] \in Terminal}
NoLedger == [slot |-> NoSlot, attempts |-> 0]

\* The controller takes no step between a cancellation request and its delivery.
Undisturbed == workflow # "requested"

MinOf(a, b) == IF a <= b THEN a ELSE b

-------------------------------------------------------------------------------
\* _launch_initial opens the window of the primary phase.
InitialWindowWide(first, last) == first .. MinOf(first + Window + 1, last) - 1   \* mutant
InitialWindow(first, last) == first .. MinOf(first + Window, last) - 1

Init ==
  /\ stage = "primary" /\ control = "waiting" /\ verdict = "none"
  /\ workflow = "untouched" /\ requester = "nobody"
  /\ next = 0 /\ launched = MinOf(Window, Primary)
  /\ coordinator = [o \in Slots |->
       IF o \in InitialWindow(0, Primary) THEN "generating" ELSE "absent"]
  /\ cancelling = {}
  /\ attempt = [o \in Slots |-> 0] /\ size = [o \in Slots |-> 0]
  /\ content = [o \in Slots |-> NoContent]
  /\ failure = [o \in Slots |-> "none"] /\ notice = [o \in Slots |-> "none"]
  /\ registry = {} /\ index = {} /\ accepted = <<>> /\ retained = 0
  /\ consumed = [o \in Slots |-> 0] /\ rejected = 0 /\ ledger = NoLedger
  /\ absorbed = {}

-------------------------------------------------------------------------------
(* A coordinator prepares one attempt *)

\* A running coordinator whose cancellation is not under way.
Runs(o, states) == coordinator[o] \in states /\ o \notin cancelling

\* The outcome becomes a notice; the coordinator awaits the decision on it.
Hand(o, outcome) ==
  /\ coordinator' = [coordinator EXCEPT ![o] = "deciding"]
  /\ notice' = [notice EXCEPT ![o] = outcome]

\* The attempt ends in the generation calls of the coordinator itself.
FailEarly(o, outcome) ==
  /\ Runs(o, {"generating"})
  /\ Hand(o, outcome)
  /\ UNCHANGED <<controlVars, cancelling, attempt, content, size, failure, registry,
                 stateVars, reportVars, absorbed>>

\* group_reserve: content that repeats a committed set is rejected at once,
\* anything else gets a pending reservation and touches no index.
Reserve(o, c) ==
  /\ Runs(o, {"generating"}) /\ IsPrimary(o)
  /\ content' = [content EXCEPT ![o] = c]
  /\ IF c \in index
     THEN Hand(o, "rejected") /\ UNCHANGED registry
     ELSE /\ coordinator' = [coordinator EXCEPT ![o] = "downstream"]
          /\ registry' = registry \cup {o}
          /\ UNCHANGED notice
  /\ UNCHANGED <<controlVars, cancelling, attempt, size, failure, stateVars,
                 reportVars, absorbed>>

\* The gates and the assembly are over: a candidate, or a recoverable failure
\* that keeps its reservation.
Prepared(o, outcome, s) ==
  /\ Runs(o, {"downstream"}) /\ outcome \in {"candidate", "rejected"}
  /\ Hand(o, outcome)
  /\ size' = [size EXCEPT ![o] = s]
  /\ UNCHANGED <<controlVars, cancelling, attempt, content, failure, registry,
                 stateVars, reportVars, absorbed>>

\* A noise attempt reserves nothing.
PreparedNoise(o, c, s) ==
  /\ Runs(o, {"generating"}) /\ ~IsPrimary(o)
  /\ Hand(o, "candidate")
  /\ content' = [content EXCEPT ![o] = c] /\ size' = [size EXCEPT ![o] = s]
  /\ UNCHANGED <<controlVars, cancelling, attempt, failure, registry, stateVars,
                 reportVars, absorbed>>

\* Mutant of FailLate: the reservation goes out of scope without a discard.
FailLateKeeping(o) ==
  /\ Runs(o, {"downstream"})
  /\ Hand(o, "fatal")
  /\ UNCHANGED <<controlVars, cancelling, attempt, content, size, failure, registry,
                 stateVars, reportVars, absorbed>>

\* A gate fails beyond recovery outside any task group: discard, then hand over.
FailLate(o) ==
  /\ Runs(o, {"downstream"})
  /\ Hand(o, "fatal")
  /\ registry' = registry \ {o}
  /\ UNCHANGED <<controlVars, cancelling, attempt, content, size, failure, stateVars,
                 reportVars, absorbed>>

\* A task in a group of the attempt fails beyond recovery and the group starts to
\* cancel its siblings.  A leaf that is fatal or cancels itself also aborts the
\* execution domain, which cancels the workflow; the variants of a generation
\* group and a tripped breaker do not.
GroupAborts(o, why, leaf) ==
  /\ IsPrimary(o) /\ coordinator[o] \in {"generating", "downstream"}
  /\ leaf => coordinator[o] = "downstream"
  /\ coordinator' = [coordinator EXCEPT ![o] = "aborting"]
  /\ failure' = [failure EXCEPT ![o] = why]
  /\ IF leaf /\ workflow = "untouched"
     THEN workflow' = "requested" /\ requester' = why
     ELSE UNCHANGED <<workflow, requester>>
  /\ UNCHANGED <<stage, control, verdict, next, launched, cancelling, attempt, content,
                 size, notice, registry, stateVars, reportVars, absorbed>>

\* The group has cleaned up and raises: the reservation is discarded; a
\* self-cancellation ends the coordinator, anything else is its outcome.
GroupRaises(o) ==
  /\ coordinator[o] = "aborting" /\ (Absorbs => o \notin cancelling)
  /\ registry' = registry \ {o}
  /\ IF failure[o] = "self_cancelled"
     THEN /\ coordinator' = [coordinator EXCEPT ![o] = "ended"]
          /\ notice' = [notice EXCEPT ![o] = IF o \in absorbed \cup cancelling THEN @ ELSE "control"]
     ELSE Hand(o, "fatal")
  /\ failure' = [failure EXCEPT ![o] = "none"]
  /\ UNCHANGED <<controlVars, cancelling, attempt, content, size, stateVars,
                 reportVars, absorbed>>

\* The attempt cancels itself outside any task group.
CancelsItself(o) ==
  /\ Runs(o, {"generating", "downstream"})
  /\ registry' = registry \ {o}
  /\ coordinator' = [coordinator EXCEPT ![o] = "ended"]
  /\ notice' = [notice EXCEPT ![o] = "control"]
  /\ UNCHANGED <<controlVars, cancelling, attempt, content, size, failure, stateVars,
                 reportVars, absorbed>>

\* The coordinator resumes with the decision of the controller.
Decided(o) ==
  /\ Runs(o, {"done", "retry"})
  /\ IF coordinator[o] = "done"
     THEN coordinator' = [coordinator EXCEPT ![o] = "ended"] /\ UNCHANGED attempt
     ELSE /\ coordinator' = [coordinator EXCEPT ![o] = "generating"]
          /\ attempt' = [attempt EXCEPT ![o] = @ + 1]
  /\ UNCHANGED <<controlVars, cancelling, content, size, failure, notice, registry,
                 stateVars, reportVars, absorbed>>

\* A cancellation request reaches the coordinator.  The exit of a group that is
\* aborting already may take it for its own and drop it.
CoordinatorCancelled(o) ==
  /\ o \in cancelling /\ coordinator[o] \in Alive
  /\ Absorbs \/ coordinator[o] # "aborting"
  /\ cancelling' = cancelling \ {o}
  /\ IF coordinator[o] = "aborting"
     THEN absorbed' = absorbed \cup {o} /\ UNCHANGED <<coordinator, registry>>
     ELSE /\ coordinator' = [coordinator EXCEPT ![o] = "ended"]
          /\ registry' = IF coordinator[o] = "downstream" THEN registry \ {o} ELSE registry
          /\ UNCHANGED absorbed
  /\ UNCHANGED <<controlVars, attempt, content, size, failure, notice, stateVars,
                 reportVars>>

-------------------------------------------------------------------------------
(* The controller waits for the head or for a terminal notice *)

\* _cancel_phase, up to its await.
CancelWorkers(v) ==   \* mutant: coordinators that await a decision are forgotten
  /\ control' = "cancelling" /\ verdict' = v
  /\ cancelling' = cancelling \cup {o \in PhaseSlots : coordinator[o] \in Working}
CancelPhase(v) ==
  /\ control' = "cancelling" /\ verdict' = v
  /\ cancelling' = cancelling \cup AliveIn(PhaseSlots)

\* A terminal notice wins over a head that is ready; the least ordinal is reported.
TakeFatal(o) ==
  /\ control = "waiting" /\ Undisturbed
  /\ o \in FatalNotices /\ \A p \in FatalNotices : o <= p
  /\ ledger' = IF notice[o] = "control" THEN NoLedger
               ELSE [slot |-> o, attempts |-> consumed[o]]
  /\ CancelPhase("fatal")
  /\ UNCHANGED <<stage, workflow, requester, next, launched, coordinator, attempt, content, size,
                 failure, notice, registry, stateVars, consumed, rejected, absorbed>>

AnyReady(o) ==   \* mutant: candidates are judged as they arrive
  /\ control = "waiting" /\ Undisturbed /\ FatalNotices = {} /\ notice[o] # "none"
HeadReady(o) ==
  /\ control = "waiting" /\ Undisturbed
  /\ o = next /\ FatalNotices = {} /\ notice[o] # "none"

\* group_revalidate for a primary slot, the similarity probe for a noise slot.
ConflictAtReserve(o) == ~IsPrimary(o) /\ content[o] \in index   \* mutant
Conflict(o) == (o \in registry \/ ~IsPrimary(o)) /\ content[o] \in index

TooLarge(o) == retained + size[o] > MemoryLimit

\* An attempt is charged to its slot when the head is judged.
ChargeLate(o) == consumed' = [consumed EXCEPT ![o] = attempt[o]]   \* mutant
Charge(o) == consumed' = [consumed EXCEPT ![o] = attempt[o] + 1]

CommitHead(o) ==
  /\ HeadReady(o) /\ notice[o] = "candidate" /\ ~Conflict(o) /\ ~TooLarge(o)
  /\ index' = index \cup {content[o]}
  /\ accepted' = Append(accepted, content[o])
  /\ retained' = retained + size[o]
  /\ registry' = registry \ {o}
  /\ Charge(o)
  /\ notice' = [notice EXCEPT ![o] = "none"]
  /\ coordinator' = [coordinator EXCEPT ![o] = "done"]
  /\ next' = next + 1
  /\ control' = IF next' = PhaseEnd THEN "settling"
                ELSE IF launched < PhaseEnd THEN "launching" ELSE "waiting"
  /\ UNCHANGED <<stage, verdict, workflow, requester, launched, cancelling, attempt, content,
                 size, failure, rejected, ledger, absorbed>>

\* The head is rejected: it was, or it repeats what was committed meanwhile, or
\* it does not reconcile, or it does not fit.  The slot tries again or the run
\* is exhausted.
RejectHead(o) ==
  /\ HeadReady(o)
  /\ registry' = registry \ {o}
  /\ Charge(o) /\ rejected' = rejected + 1
  /\ ledger' = [slot |-> o, attempts |-> attempt[o] + 1]
  /\ notice' = [notice EXCEPT ![o] = "none"]
  /\ IF attempt[o] + 1 < MaxAttempts
     THEN /\ coordinator' = [coordinator EXCEPT ![o] = "retry"]
          /\ UNCHANGED <<control, verdict, cancelling>>
     ELSE CancelPhase("exhausted") /\ UNCHANGED coordinator
  /\ UNCHANGED <<stage, workflow, requester, next, launched, attempt, content, size, failure,
                 stateVars, absorbed>>

\* A contract is broken while the head is judged; no attempt is charged.
HeadFails(o) ==
  /\ HeadReady(o)
  /\ registry' = registry \ {o}
  /\ notice' = [notice EXCEPT ![o] = "none"]
  /\ ledger' = [slot |-> o, attempts |-> attempt[o]]
  /\ CancelPhase("internal")
  /\ UNCHANGED <<stage, workflow, requester, next, launched, coordinator, attempt, content, size,
                 failure, stateVars, consumed, rejected, absorbed>>

\* _launch_tail: the window moves when a coordinator gave its permit back.
LaunchTail ==
  /\ control = "launching" /\ Undisturbed
  /\ Cardinality(AliveIn(PhaseSlots)) < Window
  /\ coordinator' = [coordinator EXCEPT ![launched] = "generating"]
  /\ launched' = launched + 1 /\ control' = "waiting"
  /\ UNCHANGED <<stage, verdict, workflow, requester, next, cancelling, attempt, content, size,
                 failure, notice, registry, stateVars, reportVars, absorbed>>

-------------------------------------------------------------------------------
(* The end of a phase and of the delivery *)

\* The primary phase is over and the noise phase opens its window.
EndPrimary ==
  /\ control = "settling" /\ stage = "primary" /\ Undisturbed
  /\ AliveIn(PhaseSlots) = {} /\ Noise > 0
  /\ stage' = "noise" /\ control' = "waiting"
  /\ launched' = MinOf(Primary + Window, Primary + Noise)
  /\ coordinator' = [o \in Slots |->
       IF o \in InitialWindow(Primary, Primary + Noise) THEN "generating"
       ELSE coordinator[o]]
  /\ UNCHANGED <<verdict, workflow, requester, next, cancelling, attempt, content, size, failure,
                 notice, registry, stateVars, reportVars, absorbed>>

\* The last phase is over: final reconciliation, preparation and commit, without
\* an await.  Here they succeed (Projection and ProductCommit have their failures).
Deliver ==
  /\ control = "settling" /\ Undisturbed
  /\ AliveIn(PhaseSlots) = {} /\ next = Primary + Noise
  /\ control' = "ended" /\ verdict' = "delivered"
  /\ ledger' = NoLedger
  /\ UNCHANGED <<stage, workflow, requester, next, launched, coordVars, registry, stateVars,
                 consumed, rejected, absorbed>>

\* Every coordinator has ended after _cancel_phase: _cleanup_phase_buffer
\* discards what queue and buffer own, then the failed report is written.
CleanUp ==
  /\ control = "cancelling" /\ Undisturbed /\ AliveIn(PhaseSlots) = {}
  /\ registry' = {o \in registry : notice[o] \notin {"candidate", "rejected"}}
  /\ notice' = [o \in Slots |-> "none"]
  /\ control' = "ended"
  /\ ledger' = IF verdict = "interrupted" THEN NoLedger ELSE ledger
  /\ UNCHANGED <<stage, verdict, workflow, requester, next, launched, coordinator, cancelling,
                 attempt, content, size, failure, stateVars, consumed, rejected, absorbed>>

\* The task that runs the domain is cancelled from outside.
Interrupt ==
  /\ workflow = "untouched" /\ control # "ended"
  /\ workflow' = "requested" /\ requester' = "outside"
  /\ UNCHANGED <<stage, control, verdict, next, launched, coordVars, registry,
                 stateVars, reportVars, absorbed>>

\* The cancellation of the workflow is delivered at the await it is in.  In
\* _settle_phase it goes to the coordinator awaited there, the least one alive, and
\* is taken for the end of that coordinator and dropped.
WorkflowCancelled ==
  /\ workflow = "requested"
  /\ IF control \in {"waiting", "launching"}
     THEN workflow' = "delivered" /\ CancelPhase("interrupted")
     ELSE /\ workflow' = "swallowed"
          /\ cancelling' = cancelling \cup
               {o \in AliveIn(PhaseSlots) : \A p \in AliveIn(PhaseSlots) : o <= p}
          /\ UNCHANGED <<control, verdict>>
  /\ UNCHANGED <<stage, requester, next, launched, coordinator, attempt, content, size, failure,
                 notice, registry, stateVars, reportVars, absorbed>>

-------------------------------------------------------------------------------
CoordinatorStep(o) ==
  \/ \E outcome \in {"rejected", "fatal"} : FailEarly(o, outcome)
  \/ \E c \in Contents : Reserve(o, c)
  \/ \E outcome \in {"candidate", "rejected"}, s \in Sizes : Prepared(o, outcome, s)
  \/ \E c \in Contents, s \in Sizes : PreparedNoise(o, c, s)
  \/ FailLate(o) \/ CancelsItself(o) \/ Decided(o) \/ CoordinatorCancelled(o)
  \/ \E why \in {"fatal", "self_cancelled"}, leaf \in BOOLEAN : GroupAborts(o, why, leaf)
  \/ GroupRaises(o)

HeadStep(o) == TakeFatal(o) \/ CommitHead(o) \/ RejectHead(o) \/ HeadFails(o)

ControllerStep ==
  \/ LaunchTail \/ EndPrimary \/ Deliver \/ CleanUp \/ WorkflowCancelled
  \/ \E o \in Slots : HeadStep(o)

Next == ControllerStep \/ Interrupt \/ \E o \in Slots : CoordinatorStep(o)

\* The event loop runs what is ready, and an attempt is bounded by the timeouts
\* and retries of its calls.
Fairness ==
  /\ WF_vars(ControllerStep)
  /\ \A o \in Slots : WF_vars(CoordinatorStep(o))

Spec == Init /\ [][Next]_vars
FairSpec == Spec /\ Fairness


-------------------------------------------------------------------------------
(* Properties *)

\* Every variable has a value the code can give it.
TypeOK ==
  /\ stage \in {"primary", "noise"}
  /\ control \in {"waiting", "launching", "settling", "cancelling", "ended"}
  /\ verdict \in {"none", "delivered", "exhausted", "fatal", "internal", "interrupted"}
  /\ workflow \in {"untouched", "requested", "delivered", "swallowed"}
  /\ requester \in {"nobody", "outside", "fatal", "self_cancelled"}
  /\ next \in 0 .. Primary + Noise /\ launched \in 0 .. Primary + Noise
  /\ coordinator \in [Slots -> Alive \cup {"absent", "ended"}]
  /\ attempt \in [Slots -> 0 .. MaxAttempts - 1]
  /\ content \in [Slots -> Contents \cup {NoContent}]
  /\ size \in [Slots -> Sizes \cup {0}]
  /\ failure \in [Slots -> {"none", "fatal", "self_cancelled"}]
  /\ notice \in [Slots -> {"none", "candidate", "rejected"} \cup Terminal]
  /\ cancelling \subseteq Slots /\ absorbed \subseteq Slots
  /\ registry \subseteq Slots /\ index \subseteq Contents
  /\ accepted \in Seq(Contents)
  /\ retained \in 0 .. MemoryLimit
  /\ consumed \in [Slots -> 0 .. MaxAttempts] /\ rejected \in Nat
  /\ ledger \in [slot : Slots \cup {NoSlot}, attempts : 0 .. MaxAttempts]

\* Attempts are prepared while the slots before them are still open, and yet no
\* two delivered slots have the same content (group_revalidate and the similarity
\* probe at the head).
NoDuplicateDelivered ==
  \A i, j \in DOMAIN accepted : i # j => accepted[i] # accepted[j]

\* A pending reservation has exactly one owner, the coordinator that prepares the
\* attempt or the notice that carries it, and a coordinator that still needs its
\* reservation has it: no group_discard or group_commit hits a consumed entry.
\* When deliver() ends, however it ends, no coordinator runs, nothing waits to be
\* committed and the registry is empty.
ReservationsOwned ==
  /\ \A o \in Slots :
       /\ o \in registry =>
            \/ coordinator[o] \in {"downstream", "aborting"}
            \/ coordinator[o] \in {"deciding", "ended"} /\ notice[o] \in {"candidate", "rejected"}
       /\ IsPrimary(o) /\ (coordinator[o] = "downstream" \/ notice[o] = "candidate")
            => o \in registry
  /\ control = "ended" =>
       /\ AliveIn(Slots) = {} /\ registry = {}
       /\ \A o \in Slots : notice[o] = "none"

\* The window: coordinators that hold a permit never exceed it, preparation runs
\* ahead of the commit point by no more than the window, and never behind it.
WindowHolds ==
  /\ Cardinality(AliveIn(Slots)) <= Window
  /\ launched <= next + Window
  /\ \A o \in AliveIn(Slots) : o < launched /\ (o < next => coordinator[o] = "done")

\* Speculation is free: slots after the head are never charged, the charges add
\* up to the verdicts of the head, and the attempt a coordinator works on is the
\* next one its slot is charged for.  So a failed report of an exhausted run names
\* the head and all its attempts, the one of a fatal failure a launched slot and
\* what was charged to it, an interrupted one nothing.
AttemptsReconcile ==
  /\ \A o \in Slots : consumed[o] > 0 => o <= next
  /\ FoldFunction(+, 0, consumed) = rejected + Len(accepted)
  /\ \A o \in Slots : o >= next /\ verdict = "none" =>
       consumed[o] = attempt[o] + (IF coordinator[o] = "retry" THEN 1 ELSE 0)
  /\ control = "ended" =>
       /\ verdict = "exhausted" => ledger = [slot |-> next, attempts |-> MaxAttempts]
       /\ verdict \in {"fatal", "internal"} /\ ledger # NoLedger =>
            /\ ledger.slot \in next .. launched - 1
            /\ ledger.attempts = consumed[ledger.slot]
       /\ verdict \in {"delivered", "interrupted"} => ledger = NoLedger

\* What the controller does is what a controller would do that prepares nothing
\* ahead: order, uniqueness, budget, attempts and the end of the run agree.
Ordered == INSTANCE OrderedDelivery WITH
  Slots <- Primary + Noise,
  attempt <- IF next < Primary + Noise THEN consumed[next] ELSE 0,
  result <- CASE verdict \in {"none", "delivered", "exhausted"} -> verdict
              [] OTHER -> "aborted"

DeliversInOrder == Ordered!Spec

\* docs/dev/SPEC-execution-runtime.md, section 6: whatever fails, the siblings are
\* cancelled, cleaned up, and the failed report is frozen: deliver() ends.
DeliveryEnds == <>(control = "ended")

\* docs/dev/SPEC-execution-runtime.md, section 9: the failed report of a fatal
\* failure names the slot of the selected fatal, so it is not the report of an
\* interruption.
FatalNamesSlot == control = "ended" /\ requester = "fatal" => verdict # "interrupted"

\* docs/dev/SPEC-execution-runtime.md, section 6: an external cancellation stops
\* admission, cancels what runs and is raised again; it never ends in a commit.
CancelledNeverCommits == verdict = "delivered" => workflow = "untouched"

===============================================================================
