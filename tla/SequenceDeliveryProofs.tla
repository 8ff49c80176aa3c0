------------------------ MODULE SequenceDeliveryProofs ------------------------
(***************************************************************************)
(* Theorems about the delivery controller of sequence generation for every *)
(* number of slots, window, budget of attempts and set of contents, and    *)
(* for both ways an aborting task group treats a cancellation.             *)
(*                                                                         *)
(* The invariant has a part about the controller alone (Steered), a part   *)
(* about one slot and its coordinator (Tended), a part that places each    *)
(* slot with respect to the head and the window (Placed), and what the     *)
(* head has decided so far (Decisions).                                    *)
(***************************************************************************)
EXTENDS SequenceDelivery, CollectionTheorems

Total == Primary + Noise

\* The controller: its verdict is open exactly while it works, the head is inside
\* its phase, and the window ends as far ahead of the head as it may.
Steered ==
  /\ verdict = "none" <=> control \in {"waiting", "launching", "settling"}
  /\ verdict = "delivered" => next = Total /\ control = "ended"
  /\ IF stage = "primary" THEN launched <= Primary ELSE Primary <= next
  /\ next <= launched /\ launched <= next + Window /\ launched <= PhaseEnd
  /\ control = "settling" => next = PhaseEnd
  /\ control # "settling" /\ verdict # "delivered" => next < PhaseEnd
  /\ control = "waiting" => launched = MinOf(next + Window, PhaseEnd)
  /\ control = "launching" => launched = next + Window - 1 /\ launched < PhaseEnd

\* A slot and its coordinator: who owns a notice and a reservation, and what a
\* candidate is made of.
Tended(o) ==
  /\ notice[o] # "none" => coordinator[o] \in {"deciding", "ended"}
  /\ o \in registry =>
       \/ coordinator[o] \in {"downstream", "aborting"}
       \/ coordinator[o] \in {"deciding", "ended"} /\ notice[o] \in {"candidate", "rejected"}
  /\ IsPrimary(o) /\ (coordinator[o] = "downstream" \/ notice[o] = "candidate")
       => o \in registry
  /\ coordinator[o] = "downstream" \/ notice[o] = "candidate" => content[o] \in Contents
  /\ notice[o] = "candidate" => size[o] \in Sizes
  /\ coordinator[o] = "retry" => attempt[o] + 1 < MaxAttempts

\* A slot, seen from the controller.
Placed(o) ==
  /\ o < next => notice[o] = "none" /\ coordinator[o] \in {"done", "ended"}
  /\ o >= launched => coordinator[o] = "absent"
  /\ stage = "noise" /\ IsPrimary(o) => coordinator[o] = "ended"
  /\ verdict = "none" =>
       /\ notice[o] \notin {"none", "control"} => coordinator[o] = "deciding"
       /\ o \in cancelling => coordinator[o] = "done" /\ control = "settling"
  /\ control = "ended" => coordinator[o] \notin Alive /\ notice[o] = "none"

\* What a slot has been charged for.
Charged(o) ==
  /\ consumed[o] > 0 => o <= next
  /\ o >= next /\ verdict = "none" =>
       consumed[o] = attempt[o] + (IF coordinator[o] = "retry" THEN 1 ELSE 0)

\* What the head has delivered.
Decisions ==
  /\ Len(accepted) = next
  /\ index = {accepted[i] : i \in DOMAIN accepted}
  /\ NoDuplicateDelivered
  /\ SumOf(consumed, Slots) = rejected + Len(accepted)

\* The report that a verdict leaves behind.
Reported ==
  /\ verdict = "exhausted" => ledger = [slot |-> next, attempts |-> MaxAttempts]
  /\ verdict \in {"fatal", "internal"} /\ ledger # NoLedger =>
       /\ ledger.slot \in next .. launched - 1
       /\ ledger.attempts = consumed[ledger.slot]
  /\ control = "ended" /\ verdict \in {"delivered", "interrupted"} => ledger = NoLedger

Windowed == Cardinality(AliveIn(Slots)) <= Window

\* The arithmetic of the parameters.
LEMMA Bounds ==
  /\ Primary \in Nat \ {0} /\ Noise \in Nat /\ Total \in Nat /\ Primary <= Total
  /\ Window \in Nat \ {0} /\ MaxAttempts \in Nat \ {0}
  /\ Slots = 0 .. Total - 1
  /\ \A o \in Slots : o \in Nat /\ o < Total
BY DeliveryAssumption DEF Slots, Total

--------------------------------------------------------------------------------
(* The controller *)

\* What a step of a coordinator leaves to the controller.
LEMMA CoordinatorQuiet ==
  ASSUME NEW o \in Slots, CoordinatorStep(o)
  PROVE  UNCHANGED <<stage, control, verdict, next, launched, stateVars, reportVars>>
<1> USE DEF controlVars
<1>1. CASE GroupRaises(o) \/ FailLate(o) \/ CancelsItself(o) \/ Decided(o)
           \/ CoordinatorCancelled(o)
  BY <1>1 DEF GroupRaises, FailLate, CancelsItself, Decided, CoordinatorCancelled
<1>2. CASE \E outcome \in {"rejected", "fatal"} : FailEarly(o, outcome)
  BY <1>2 DEF FailEarly
<1>3. CASE \E c \in Contents : Reserve(o, c)
  BY <1>3 DEF Reserve
<1>4. CASE \E outcome \in {"candidate", "rejected"}, s \in Sizes : Prepared(o, outcome, s)
  BY <1>4 DEF Prepared
<1>5. CASE \E c \in Contents, s \in Sizes : PreparedNoise(o, c, s)
  BY <1>5 DEF PreparedNoise
<1>6. CASE \E why \in {"fatal", "self_cancelled"}, leaf \in BOOLEAN : GroupAborts(o, why, leaf)
  BY <1>6 DEF GroupAborts
<1>7. QED
  BY <1>1, <1>2, <1>3, <1>4, <1>5, <1>6 DEF CoordinatorStep

\* The types of what the controller steers by.
SteerTypes ==
  /\ stage \in {"primary", "noise"}
  /\ control \in {"waiting", "launching", "settling", "cancelling", "ended"}
  /\ verdict \in {"none", "delivered", "exhausted", "fatal", "internal", "interrupted"}
  /\ next \in 0 .. Total /\ launched \in 0 .. Total

\* A verdict that ends a phase.
LEMMA CancelSteers ==
  ASSUME SteerTypes, Steered, NEW v \in {"exhausted", "fatal", "internal", "interrupted"},
         CancelPhase(v), control \in {"waiting", "launching"},
         UNCHANGED <<stage, next, launched>>
  PROVE  SteerTypes' /\ Steered'
BY Bounds DEF SteerTypes, Steered, CancelPhase, PhaseEnd, Total

\* The head moves on.
LEMMA CommitSteers ==
  ASSUME SteerTypes, Steered, NEW o \in Slots, CommitHead(o)
  PROVE  SteerTypes' /\ Steered'
<1>1. /\ control = "waiting" /\ next' = next + 1 /\ UNCHANGED <<stage, verdict, launched>>
      /\ control' = IF next' = PhaseEnd THEN "settling"
                    ELSE IF launched < PhaseEnd THEN "launching" ELSE "waiting"
  BY DEF CommitHead, HeadReady
<1>2. PhaseEnd' = PhaseEnd /\ PhaseEnd \in Nat /\ PhaseEnd <= Total
      /\ next \in Nat /\ launched \in Nat /\ next < PhaseEnd
      /\ launched = MinOf(next + Window, PhaseEnd) /\ verdict = "none"
  BY <1>1, Bounds DEF SteerTypes, Steered, PhaseEnd, Total
<1>3. /\ next < launched /\ launched <= next + Window /\ launched <= PhaseEnd
      /\ launched < PhaseEnd => launched = next + Window
  BY <1>2, Bounds DEF MinOf
<1>4. SteerTypes'
  BY <1>1, <1>2, Bounds DEF SteerTypes
<1>5. control' = "settling" => next' = PhaseEnd
  BY <1>1
<1>6. control' # "settling" => next' < PhaseEnd
  BY <1>1, <1>2
<1>7. control' = "waiting" => launched = MinOf(next' + Window, PhaseEnd)
  BY <1>1, <1>2, <1>3, Bounds DEF MinOf
<1>8. control' = "launching" => launched = next' + Window - 1 /\ launched < PhaseEnd
  BY <1>1, <1>2, <1>3, Bounds
<1>9. (IF stage = "primary" THEN launched <= Primary ELSE Primary <= next')
  BY <1>1, <1>2, Bounds DEF Steered, PhaseEnd
<1>10. next' <= launched /\ launched <= next' + Window
  BY <1>1, <1>2, <1>3, Bounds
<1>11. QED
  BY <1>1, <1>2, <1>3, <1>4, <1>5, <1>6, <1>7, <1>8, <1>9, <1>10 DEF Steered

\* Every step keeps the controller on course.
LEMMA SteeredStep == SteerTypes /\ Steered /\ [Next]_vars => SteerTypes' /\ Steered'
<1> SUFFICES ASSUME SteerTypes, Steered, [Next]_vars PROVE SteerTypes' /\ Steered'
  OBVIOUS
<1> USE Bounds
<1>1. CASE UNCHANGED <<stage, control, verdict, next, launched>>
  BY <1>1 DEF SteerTypes, Steered, PhaseEnd
<1>2. CASE \E o \in Slots : CoordinatorStep(o)
  BY <1>1, <1>2, CoordinatorQuiet
<1>3. CASE Interrupt \/ UNCHANGED vars
  BY <1>1, <1>3 DEF Interrupt, vars, controlVars
<1>4. CASE LaunchTail
  BY <1>4 DEF LaunchTail, SteerTypes, Steered, PhaseEnd, MinOf, Total
<1>5. CASE EndPrimary
  BY <1>5 DEF EndPrimary, SteerTypes, Steered, PhaseEnd, MinOf, Total
<1>6. CASE Deliver
  BY <1>6 DEF Deliver, SteerTypes, Steered, PhaseEnd, Total
<1>7. CASE CleanUp
  BY <1>7 DEF CleanUp, SteerTypes, Steered, PhaseEnd
<1>8. CASE WorkflowCancelled
  <2>1. CASE control \in {"waiting", "launching"}
    BY <1>8, <2>1, CancelSteers DEF WorkflowCancelled
  <2>2. CASE control \notin {"waiting", "launching"}
    BY <1>1, <1>8, <2>2 DEF WorkflowCancelled
  <2>3. QED
    BY <2>1, <2>2
<1>9. ASSUME NEW o \in Slots, HeadStep(o) PROVE SteerTypes' /\ Steered'
  <2>1. CASE CommitHead(o)
    BY <2>1, CommitSteers
  <2>2. CASE RejectHead(o) \/ HeadFails(o) \/ TakeFatal(o)
    <3>1. UNCHANGED <<stage, next, launched>> /\ control = "waiting"
      BY <2>2 DEF RejectHead, HeadFails, TakeFatal, HeadReady
    <3>2. \/ UNCHANGED <<control, verdict>>
          \/ \E v \in {"exhausted", "fatal", "internal", "interrupted"} : CancelPhase(v)
      BY <2>2 DEF RejectHead, HeadFails, TakeFatal
    <3>3. QED
      BY <1>1, <3>1, <3>2, CancelSteers
  <2>3. QED
    BY <1>9, <2>1, <2>2 DEF HeadStep
<1>10. QED
  BY <1>2, <1>3, <1>4, <1>5, <1>6, <1>7, <1>8, <1>9 DEF Next, ControllerStep

\* The controller at the start.
LEMMA SteeredInit == Init => SteerTypes /\ Steered
BY Bounds DEF Init, SteerTypes, Steered, PhaseEnd, MinOf, Total

--------------------------------------------------------------------------------
(* The coordinators *)

\* The types of what belongs to the coordinators.
CoordinatorTypes ==
  /\ coordinator \in [Slots -> Alive \cup {"absent", "ended"}]
  /\ attempt \in [Slots -> 0 .. MaxAttempts - 1]
  /\ content \in [Slots -> Contents \cup {NoContent}]
  /\ size \in [Slots -> Sizes \cup {0}]
  /\ failure \in [Slots -> {"none", "fatal", "self_cancelled"}]
  /\ notice \in [Slots -> {"none", "candidate", "rejected"} \cup Terminal]
  /\ cancelling \subseteq Slots /\ absorbed \subseteq Slots /\ registry \subseteq Slots

\* Nothing that belongs to slot p changes, but for a request to cancel it.
Alone(p) ==
  /\ coordinator'[p] = coordinator[p] /\ attempt'[p] = attempt[p]
  /\ content'[p] = content[p] /\ size'[p] = size[p] /\ notice'[p] = notice[p]
  /\ p \in registry' <=> p \in registry

\* A step of a coordinator disturbs no other slot, and requests no cancellation.
LEMMA CoordinatorAlone ==
  ASSUME CoordinatorTypes, NEW o \in Slots, CoordinatorStep(o)
  PROVE  cancelling' \subseteq cancelling /\ \A p \in Slots \ {o} : Alone(p)
<1> USE DEF CoordinatorTypes, Alone, Hand
<1>1. CASE \E outcome \in {"rejected", "fatal"} : FailEarly(o, outcome)
  BY <1>1 DEF FailEarly
<1>2. CASE \E c \in Contents : Reserve(o, c)
  BY <1>2 DEF Reserve
<1>3. CASE \E outcome \in {"candidate", "rejected"}, s \in Sizes : Prepared(o, outcome, s)
  BY <1>3 DEF Prepared
<1>4. CASE \E c \in Contents, s \in Sizes : PreparedNoise(o, c, s)
  BY <1>4 DEF PreparedNoise
<1>5. CASE \E why \in {"fatal", "self_cancelled"}, leaf \in BOOLEAN : GroupAborts(o, why, leaf)
  BY <1>5 DEF GroupAborts
<1>6. CASE GroupRaises(o)
  BY <1>6 DEF GroupRaises
<1>7. CASE FailLate(o) \/ CancelsItself(o) \/ Decided(o)
  BY <1>7 DEF FailLate, CancelsItself, Decided
<1>8. CASE CoordinatorCancelled(o)
  BY <1>8 DEF CoordinatorCancelled
<1>9. QED
  BY <1>1, <1>2, <1>3, <1>4, <1>5, <1>6, <1>7, <1>8 DEF CoordinatorStep

\* A step of a coordinator keeps its types and tends its own slot.
LEMMA CoordinatorTends ==
  ASSUME CoordinatorTypes, NEW o \in Slots, Tended(o), CoordinatorStep(o)
  PROVE  CoordinatorTypes' /\ Tended(o)'
<1> USE DEF CoordinatorTypes, Tended, Runs, Hand, Alive, Working, Terminal, IsPrimary
<1>1. CASE \E outcome \in {"rejected", "fatal"} : FailEarly(o, outcome)
  BY <1>1 DEF FailEarly
<1>2. ASSUME NEW c \in Contents, Reserve(o, c) PROVE CoordinatorTypes' /\ Tended(o)'
  BY <1>2 DEF Reserve
<1>3. ASSUME NEW outcome \in {"candidate", "rejected"}, NEW s \in Sizes, Prepared(o, outcome, s)
      PROVE  CoordinatorTypes' /\ Tended(o)'
  BY <1>3 DEF Prepared
<1>4. ASSUME NEW c \in Contents, NEW s \in Sizes, PreparedNoise(o, c, s)
      PROVE  CoordinatorTypes' /\ Tended(o)'
  BY <1>4 DEF PreparedNoise
<1>5. ASSUME NEW why \in {"fatal", "self_cancelled"}, NEW leaf \in BOOLEAN,
             GroupAborts(o, why, leaf)
      PROVE  CoordinatorTypes' /\ Tended(o)'
  BY <1>5 DEF GroupAborts
<1>6. CASE GroupRaises(o)
  BY <1>6 DEF GroupRaises
<1>7. CASE FailLate(o) \/ CancelsItself(o)
  BY <1>7 DEF FailLate, CancelsItself
<1>8. CASE Decided(o)
  <2>1. coordinator[o] = "retry" => attempt[o] + 1 \in 0 .. MaxAttempts - 1
    BY Bounds
  <2>2. attempt' \in [Slots -> 0 .. MaxAttempts - 1]
    BY <1>8, <2>1 DEF Decided
  <2>3. /\ coordinator[o] \in {"done", "retry"} /\ coordinator'[o] \in {"ended", "generating"}
        /\ coordinator' \in [Slots -> Alive \cup {"absent", "ended"}]
    BY <1>8 DEF Decided
  <2>4. UNCHANGED <<cancelling, content, size, failure, notice, registry, absorbed>>
    BY <1>8 DEF Decided
  <2>5. QED
    BY <2>2, <2>3, <2>4
<1>9. CASE CoordinatorCancelled(o)
  BY <1>9 DEF CoordinatorCancelled
<1>10. QED
  BY <1>1, <1>2, <1>3, <1>4, <1>5, <1>6, <1>7, <1>8, <1>9 DEF CoordinatorStep

\* A step of a coordinator keeps its place: only a coordinator that works hands
\* anything over, and before a verdict only one that is done is cancelled.
LEMMA CoordinatorPlaces ==
  ASSUME SteerTypes, CoordinatorTypes, NEW o \in Slots, Tended(o), Placed(o), CoordinatorStep(o)
  PROVE  Placed(o)'
<1>0. UNCHANGED <<stage, control, verdict, next, launched>>
  BY CoordinatorQuiet
<1> USE DEF CoordinatorTypes, Tended, Placed, Runs, Hand, Alive, Working, Terminal, IsPrimary
<1>1. CASE \E outcome \in {"rejected", "fatal"} : FailEarly(o, outcome)
  BY <1>0, <1>1 DEF FailEarly
<1>2. ASSUME NEW c \in Contents, Reserve(o, c) PROVE Placed(o)'
  BY <1>0, <1>2 DEF Reserve
<1>3. ASSUME NEW outcome \in {"candidate", "rejected"}, NEW s \in Sizes, Prepared(o, outcome, s)
      PROVE  Placed(o)'
  BY <1>0, <1>3 DEF Prepared
<1>4. ASSUME NEW c \in Contents, NEW s \in Sizes, PreparedNoise(o, c, s)
      PROVE  Placed(o)'
  BY <1>0, <1>4 DEF PreparedNoise
<1>5. ASSUME NEW why \in {"fatal", "self_cancelled"}, NEW leaf \in BOOLEAN,
             GroupAborts(o, why, leaf)
      PROVE  Placed(o)'
  BY <1>0, <1>5 DEF GroupAborts
<1>6. CASE GroupRaises(o)
  BY <1>0, <1>6 DEF GroupRaises
<1>7. CASE FailLate(o) \/ CancelsItself(o)
  BY <1>0, <1>7 DEF FailLate, CancelsItself
<1>8. CASE Decided(o)
  BY <1>0, <1>8 DEF Decided
<1>9. CASE CoordinatorCancelled(o)
  BY <1>0, <1>9 DEF CoordinatorCancelled
<1>10. QED
  BY <1>1, <1>2, <1>3, <1>4, <1>5, <1>6, <1>7, <1>8, <1>9 DEF CoordinatorStep

\* A step of a coordinator keeps what its slot has been charged for.
LEMMA CoordinatorCharges ==
  ASSUME SteerTypes, CoordinatorTypes, NEW o \in Slots, Placed(o), Charged(o),
         CoordinatorStep(o)
  PROVE  Charged(o)'
<1>0. UNCHANGED <<verdict, next, consumed>>
  BY CoordinatorQuiet DEF reportVars
<1>1. CASE Decided(o)
  BY <1>0, <1>1, Bounds DEF Decided, Runs, CoordinatorTypes, Charged
<1>2. CASE CoordinatorCancelled(o)
  <2>1. /\ UNCHANGED attempt /\ o \in cancelling
        /\ coordinator'[o] \in {"aborting", "ended"}
    BY <1>2 DEF CoordinatorCancelled, CoordinatorTypes
  <2>2. QED
    BY <1>0, <2>1 DEF Charged, Placed
<1>3. CASE ~Decided(o) /\ ~CoordinatorCancelled(o)
  <2>1. UNCHANGED attempt /\ coordinator[o] # "retry" /\ coordinator'[o] # "retry"
    <3> USE DEF CoordinatorTypes, Runs, Hand
    <3>1. CASE \E outcome \in {"rejected", "fatal"} : FailEarly(o, outcome)
      BY <3>1 DEF FailEarly
    <3>2. CASE \E c \in Contents : Reserve(o, c)
      BY <3>2 DEF Reserve
    <3>3. CASE \E outcome \in {"candidate", "rejected"}, s \in Sizes : Prepared(o, outcome, s)
      BY <3>3 DEF Prepared
    <3>4. CASE \E c \in Contents, s \in Sizes : PreparedNoise(o, c, s)
      BY <3>4 DEF PreparedNoise
    <3>5. CASE \E why \in {"fatal", "self_cancelled"}, leaf \in BOOLEAN : GroupAborts(o, why, leaf)
      BY <3>5 DEF GroupAborts
    <3>6. CASE GroupRaises(o)
      BY <3>6 DEF GroupRaises
    <3>7. CASE FailLate(o) \/ CancelsItself(o)
      BY <3>7 DEF FailLate, CancelsItself
    <3>8. QED
      BY <1>3, <3>1, <3>2, <3>3, <3>4, <3>5, <3>6, <3>7 DEF CoordinatorStep
  <2>2. QED
    BY <1>0, <2>1 DEF Charged
<1>4. QED
  BY <1>1, <1>2, <1>3

--------------------------------------------------------------------------------
(* What the controller does to the slots *)

\* The types of what is committed and reported.
BookTypes ==
  /\ workflow \in {"untouched", "requested", "delivered", "swallowed"}
  /\ requester \in {"nobody", "outside", "fatal", "self_cancelled"}
  /\ index \subseteq Contents /\ accepted \in Seq(Contents)
  /\ retained \in 0 .. MemoryLimit
  /\ consumed \in [Slots -> 0 .. MaxAttempts] /\ rejected \in Nat
  /\ ledger \in [slot : Slots \cup {NoSlot}, attempts : 0 .. MaxAttempts]

Attended == \A o \in Slots : Tended(o) /\ Placed(o) /\ Charged(o)
SlotInv == SteerTypes /\ Steered /\ CoordinatorTypes /\ BookTypes /\ Attended

\* A slot that a step leaves alone stays as it was, also when a verdict falls.
LEMMA AloneKept ==
  ASSUME NEW p \in Slots, Alone(p), consumed'[p] = consumed[p],
         Tended(p), Placed(p), Charged(p), UNCHANGED <<stage, next, launched>>,
         \/ UNCHANGED <<control, verdict>> /\ (p \in cancelling' => p \in cancelling)
         \/ control' = "cancelling" /\ verdict' # "none"
  PROVE  Tended(p)' /\ Placed(p)' /\ Charged(p)'
<1>1. Tended(p)'
  BY DEF Alone, Tended, IsPrimary
<1>2. Placed(p)'
  BY DEF Alone, Placed, IsPrimary
<1>3. Charged(p)'
  BY DEF Alone, Charged
<1>4. QED
  BY <1>1, <1>2, <1>3

\* A head that is ready is a slot of the phase whose coordinator awaits the decision
\* on an outcome that ends nothing, and it has not been charged for its attempt.
LEMMA HeadPlaced ==
  ASSUME SlotInv, NEW o \in Slots, HeadReady(o)
  PROVE  /\ o = next /\ o < launched /\ o \in PhaseSlots /\ verdict = "none"
         /\ control = "waiting" /\ cancelling = {}
         /\ notice[o] \in {"candidate", "rejected"} /\ coordinator[o] = "deciding"
         /\ consumed[o] = attempt[o] /\ attempt[o] \in 0 .. MaxAttempts - 1
<1>1. o = next /\ control = "waiting" /\ notice[o] # "none" /\ FatalNotices = {}
  BY DEF HeadReady
<1>2. verdict = "none" /\ next < PhaseEnd /\ launched = MinOf(next + Window, PhaseEnd)
  BY <1>1 DEF SlotInv, Steered
<1>3. o < launched
  BY <1>1, <1>2, Bounds DEF MinOf, PhaseEnd, Total
<1>4. o \in PhaseSlots
  BY <1>1, <1>2, Bounds DEF SlotInv, SteerTypes, Steered, PhaseSlots, PhaseEnd
<1>5. notice[o] \in {"candidate", "rejected"}
  BY <1>1, <1>4 DEF FatalNotices, SlotInv, CoordinatorTypes, Terminal
<1>6. coordinator[o] = "deciding"
  BY <1>2, <1>5 DEF SlotInv, Attended, Placed
<1>7. attempt[o] \in 0 .. MaxAttempts - 1 /\ consumed[o] = attempt[o]
  <2>1. attempt[o] \in 0 .. MaxAttempts - 1 /\ attempt[o] \in Nat /\ o >= next
    BY <1>1, Bounds DEF SlotInv, CoordinatorTypes
  <2>2. Charged(o)
    BY DEF SlotInv, Attended
  <2>3. consumed[o] = attempt[o] + 0
    BY <1>2, <1>6, <2>1, <2>2 DEF Charged
  <2>4. QED
    BY <2>1, <2>3
<1>8. cancelling = {}
  BY <1>1, <1>2 DEF SlotInv, Attended, Placed, CoordinatorTypes
<1>9. QED
  BY <1>1, <1>2, <1>3, <1>4, <1>5, <1>6, <1>7, <1>8

\* A coordinator that is alive belongs to the phase that runs.
LEMMA AliveInPhase ==
  ASSUME SlotInv, NEW o \in Slots, coordinator[o] \in Alive
  PROVE  o \in PhaseSlots
BY Bounds DEF SlotInv, SteerTypes, Steered, Attended, Placed, PhaseSlots, IsPrimary, Alive, Working

\* A terminal notice is taken.
LEMMA FatalAttends ==
  ASSUME SlotInv, NEW o \in Slots, TakeFatal(o)
  PROVE  CoordinatorTypes' /\ Attended'
<1>1. /\ UNCHANGED <<stage, next, launched, coordinator, attempt, content, size, failure,
                     notice, registry, consumed, absorbed>>
      /\ control' = "cancelling" /\ verdict' # "none"
      /\ cancelling' = cancelling \cup AliveIn(PhaseSlots)
  BY DEF TakeFatal, CancelPhase, stateVars
<1>2. \A p \in Slots : Alone(p) /\ consumed'[p] = consumed[p]
  BY <1>1 DEF Alone
<1>3. Attended'
  BY <1>1, <1>2, AloneKept DEF SlotInv, Attended, Slots
<1>4. CoordinatorTypes'
  BY <1>1 DEF SlotInv, CoordinatorTypes, AliveIn, PhaseSlots, Slots, Alive, Working
<1>5. QED
  BY <1>3, <1>4

\* A contract breaks at the head.
LEMMA FailsAttends ==
  ASSUME SlotInv, NEW o \in Slots, HeadFails(o)
  PROVE  CoordinatorTypes' /\ Attended'
<1>0. /\ o = next /\ coordinator[o] = "deciding"
      /\ o < launched
  BY HeadPlaced DEF HeadFails
<1>1. /\ UNCHANGED <<stage, next, launched, coordinator, attempt, content, size, failure,
                     consumed, absorbed>>
      /\ registry' = registry \ {o} /\ notice' = [notice EXCEPT ![o] = "none"]
      /\ control' = "cancelling" /\ verdict' = "internal"
      /\ cancelling' = cancelling \cup AliveIn(PhaseSlots)
  BY DEF HeadFails, CancelPhase, stateVars
<1>2. \A p \in Slots \ {o} : Alone(p) /\ consumed'[p] = consumed[p]
  BY <1>1 DEF Alone, SlotInv, CoordinatorTypes
<1>3. \A p \in Slots \ {o} : Tended(p)' /\ Placed(p)' /\ Charged(p)'
  BY <1>1, <1>2, AloneKept DEF SlotInv, Attended
<1>4. notice'[o] = "none" /\ Tended(o) /\ Placed(o) /\ Charged(o)
  BY <1>1 DEF SlotInv, CoordinatorTypes, Attended
<1>5. Tended(o)' /\ Placed(o)' /\ Charged(o)'
  BY <1>0, <1>1, <1>4 DEF Tended, Placed, Charged, IsPrimary
<1>6. CoordinatorTypes'
  BY <1>1 DEF SlotInv, CoordinatorTypes, AliveIn, PhaseSlots, Slots, Alive, Working
<1>7. QED
  BY <1>3, <1>5, <1>6 DEF Attended, Slots

\* The head is rejected: its slot tries again or the run is exhausted.
LEMMA RejectAttends ==
  ASSUME SlotInv, NEW o \in Slots, RejectHead(o)
  PROVE  CoordinatorTypes' /\ Attended'
<1>0. /\ o = next /\ coordinator[o] = "deciding" /\ o < launched /\ control = "waiting"
      /\ cancelling = {} /\ attempt[o] \in 0 .. MaxAttempts - 1 /\ consumed[o] = attempt[o]
      /\ verdict = "none"
  BY HeadPlaced DEF RejectHead
<1>1. /\ UNCHANGED <<stage, next, launched, attempt, content, size, failure, absorbed>>
      /\ registry' = registry \ {o} /\ notice' = [notice EXCEPT ![o] = "none"]
      /\ consumed' = [consumed EXCEPT ![o] = attempt[o] + 1]
  BY DEF RejectHead, Charge, stateVars
<1>2. \/ /\ attempt[o] + 1 < MaxAttempts /\ UNCHANGED <<control, verdict, cancelling>>
         /\ coordinator' = [coordinator EXCEPT ![o] = "retry"]
      \/ /\ control' = "cancelling" /\ verdict' = "exhausted" /\ UNCHANGED coordinator
         /\ cancelling' = cancelling \cup AliveIn(PhaseSlots)
  BY DEF RejectHead, CancelPhase
<1>3. \A p \in Slots \ {o} : Alone(p) /\ consumed'[p] = consumed[p]
  BY <1>1, <1>2 DEF Alone, SlotInv, CoordinatorTypes, BookTypes
<1>4. \A p \in Slots \ {o} : Tended(p)' /\ Placed(p)' /\ Charged(p)'
  <2>1. ASSUME NEW p \in Slots \ {o} PROVE p \in cancelling' => p \in cancelling \/ verdict' # "none"
    BY <1>2
  <2>2. QED
    BY <1>1, <1>2, <1>3, <2>1, AloneKept DEF SlotInv, Attended
<1>5. /\ notice'[o] = "none" /\ consumed'[o] = attempt[o] + 1 /\ attempt'[o] = attempt[o]
      /\ o \notin registry'
      /\ \/ coordinator'[o] = "deciding"
         \/ coordinator'[o] = "retry" /\ attempt[o] + 1 < MaxAttempts
  <2>1. notice'[o] = "none" /\ attempt'[o] = attempt[o] /\ o \notin registry'
    BY <1>1 DEF SlotInv, CoordinatorTypes
  <2>2. consumed'[o] = attempt[o] + 1
    BY <1>1 DEF SlotInv, BookTypes
  <2>3. CASE coordinator' = [coordinator EXCEPT ![o] = "retry"] /\ attempt[o] + 1 < MaxAttempts
    <3>1. coordinator'[o] = "retry"
      BY <2>3 DEF SlotInv, CoordinatorTypes
    <3>2. QED
      BY <2>1, <2>2, <2>3, <3>1
  <2>4. CASE UNCHANGED coordinator
    BY <1>0, <2>1, <2>2, <2>4
  <2>5. QED
    BY <1>2, <2>3, <2>4
<1>6. Tended(o)'
  BY <1>5 DEF Tended, IsPrimary
<1>7. Placed(o)'
  <2>1. Placed(o) /\ o \in Nat /\ next \in Nat /\ launched \in Nat
    BY Bounds DEF SlotInv, Attended, SteerTypes
  <2>2. control' # "ended" /\ (verdict' = "none" => cancelling' = {})
    BY <1>0, <1>2
  <2>3. QED
    BY <1>0, <1>1, <1>5, <2>1, <2>2 DEF Placed, IsPrimary
<1>8. Charged(o)'
  <2>1. verdict' = "none" => coordinator'[o] = "retry"
    BY <1>0, <1>2 DEF SlotInv, CoordinatorTypes
  <2>2. QED
    BY <1>0, <1>1, <1>5, <2>1, Bounds DEF Charged
<1>9. CoordinatorTypes'
  <2>1. coordinator' \in [Slots -> Alive \cup {"absent", "ended"}]
    BY <1>2 DEF SlotInv, CoordinatorTypes, Alive
  <2>2. cancelling' \subseteq Slots
    BY <1>2 DEF SlotInv, CoordinatorTypes, AliveIn, PhaseSlots
  <2>3. QED
    BY <1>1, <2>1, <2>2 DEF SlotInv, CoordinatorTypes, Slots, Alive, Working
<1>10. QED
  BY <1>4, <1>6, <1>7, <1>8, <1>9 DEF Attended, Slots

\* The head is committed: it is charged for its attempt, and its coordinator is done.
LEMMA CommitAttends ==
  ASSUME SlotInv, NEW o \in Slots, CommitHead(o)
  PROVE  CoordinatorTypes' /\ Attended'
<1>0. /\ o = next /\ coordinator[o] = "deciding" /\ o < launched /\ control = "waiting"
      /\ cancelling = {} /\ verdict = "none" /\ o \in PhaseSlots
  BY HeadPlaced DEF CommitHead
<1>1. /\ UNCHANGED <<stage, verdict, launched, cancelling, attempt, content, size, failure,
                     absorbed>>
      /\ registry' = registry \ {o} /\ notice' = [notice EXCEPT ![o] = "none"]
      /\ consumed' = [consumed EXCEPT ![o] = attempt[o] + 1]
      /\ coordinator' = [coordinator EXCEPT ![o] = "done"] /\ next' = next + 1
      /\ control' # "ended"
  BY DEF CommitHead, Charge
<1>2. \A p \in Slots \ {o} : /\ Alone(p) /\ consumed'[p] = consumed[p]
                             /\ Tended(p) /\ Placed(p) /\ Charged(p)
  BY <1>1 DEF Alone, SlotInv, CoordinatorTypes, BookTypes, Attended
<1>3. next \in Nat /\ launched \in Nat /\ (\A p \in Slots : p \in Nat)
      /\ (\A p \in Slots : consumed[p] \in Nat)
  BY Bounds DEF SlotInv, SteerTypes, BookTypes
<1>4. ASSUME NEW p \in Slots \ {o} PROVE Tended(p)' /\ Placed(p)' /\ Charged(p)'
  <2>1. p < next' => p < next
    BY <1>0, <1>1, <1>3
  <2>2. Tended(p)'
    BY <1>2 DEF Alone, Tended, IsPrimary
  <2>3. Placed(p)'
    BY <1>0, <1>1, <1>2, <2>1 DEF Alone, Placed, IsPrimary
  <2>4. Charged(p)'
    BY <1>0, <1>1, <1>2, <1>3 DEF Alone, Charged
  <2>5. QED
    BY <2>2, <2>3, <2>4
<1>5. notice'[o] = "none" /\ o \notin registry' /\ coordinator'[o] = "done"
  BY <1>1 DEF SlotInv, CoordinatorTypes
<1>6. Tended(o)'
  BY <1>5 DEF Tended, IsPrimary
<1>7. Placed(o)'
  BY <1>0, <1>1, <1>3, <1>5 DEF Placed, PhaseSlots, IsPrimary
<1>8. Charged(o)'
  BY <1>0, <1>1, <1>3 DEF Charged
<1>9. CoordinatorTypes'
  BY <1>1 DEF SlotInv, CoordinatorTypes, Slots, Alive, Working
<1>10. QED
  BY <1>4, <1>6, <1>7, <1>8, <1>9 DEF Attended, Slots

\* The window moves: the coordinator of the next slot starts.
LEMMA LaunchAttends ==
  ASSUME SlotInv, LaunchTail
  PROVE  /\ CoordinatorTypes' /\ Attended'
         /\ launched \in Slots /\ coordinator[launched] = "absent"
<1>0. /\ control = "launching" /\ verdict = "none" /\ next <= launched /\ launched < PhaseEnd
      /\ next \in Nat /\ launched \in Nat /\ \A p \in Slots : p \in Nat
  BY Bounds DEF SlotInv, SteerTypes, Steered, LaunchTail
<1>1. launched \in Slots /\ (stage = "noise" => ~IsPrimary(launched))
  BY <1>0, Bounds DEF SlotInv, Steered, PhaseEnd, Total, IsPrimary
<1>2. Tended(launched) /\ Placed(launched) /\ Charged(launched)
      /\ coordinator[launched] = "absent"
  BY <1>0, <1>1 DEF SlotInv, Attended, Placed
<1>3. /\ UNCHANGED <<stage, verdict, next, cancelling, attempt, content, size, failure, notice,
                     registry, consumed, absorbed>>
      /\ coordinator' = [coordinator EXCEPT ![launched] = "generating"]
      /\ launched' = launched + 1 /\ control' = "waiting"
  BY DEF LaunchTail, stateVars, reportVars
<1>4. coordinator'[launched] = "generating"
      /\ \A p \in Slots \ {launched} : coordinator'[p] = coordinator[p]
  BY <1>1, <1>3 DEF SlotInv, CoordinatorTypes
<1>5. ASSUME NEW p \in Slots PROVE Tended(p)' /\ Placed(p)' /\ Charged(p)'
  <2>0. Tended(p) /\ Placed(p) /\ Charged(p)
    BY DEF SlotInv, Attended
  <2>1. CASE p = launched
    <3>1. Tended(p)'
      BY <1>2, <1>3, <1>4, <2>1 DEF Tended, IsPrimary
    <3>2. Placed(p)'
      BY <1>0, <1>1, <1>2, <1>3, <1>4, <2>1 DEF Placed, IsPrimary, Tended
    <3>3. Charged(p)'
      BY <1>2, <1>3, <1>4, <2>1 DEF Charged
    <3>4. QED
      BY <3>1, <3>2, <3>3
  <2>2. CASE p # launched
    <3>1. Tended(p)'
      BY <1>3, <1>4, <2>0, <2>2 DEF Tended, IsPrimary
    <3>2. Placed(p)'
      BY <1>0, <1>3, <1>4, <2>0, <2>2 DEF Placed, IsPrimary
    <3>3. Charged(p)'
      BY <1>3, <1>4, <2>0, <2>2 DEF Charged
    <3>4. QED
      BY <3>1, <3>2, <3>3
  <2>3. QED
    BY <2>1, <2>2
<1>6. CoordinatorTypes'
  BY <1>3 DEF SlotInv, CoordinatorTypes, Slots, Alive, Working
<1>7. QED
  BY <1>1, <1>2, <1>5, <1>6 DEF Attended, Slots

\* Once no coordinator of the phase is alive, none is.
LEMMA NoneAlive ==
  ASSUME SlotInv, AliveIn(PhaseSlots) = {}
  PROVE  \A o \in Slots : coordinator[o] \notin Alive
BY AliveInPhase DEF AliveIn

\* The noise phase opens its window: the primary slots have all ended.
LEMMA NoiseAttends ==
  ASSUME SlotInv, EndPrimary
  PROVE  CoordinatorTypes' /\ Attended'
<1>0. /\ stage = "primary" /\ next = Primary /\ launched = Primary /\ verdict = "none"
      /\ \A p \in Slots : p \in Nat
  BY Bounds DEF SlotInv, SteerTypes, Steered, EndPrimary, PhaseEnd
<1>1. /\ UNCHANGED <<verdict, next, cancelling, attempt, content, size, failure, notice,
                     registry, consumed, absorbed>>
      /\ stage' = "noise" /\ control' = "waiting"
      /\ launched' = MinOf(Primary + Window, Primary + Noise)
      /\ coordinator' = [o \in Slots |->
           IF o \in InitialWindow(Primary, Primary + Noise) THEN "generating" ELSE coordinator[o]]
  BY DEF EndPrimary, stateVars, reportVars
<1>2. \A p \in Slots : coordinator[p] \notin Alive /\ Tended(p) /\ Placed(p) /\ Charged(p)
  BY NoneAlive DEF EndPrimary, SlotInv, Attended
<1>3. \A p \in Slots :
        coordinator'[p] = IF Primary <= p /\ p < launched' THEN "generating" ELSE coordinator[p]
  BY <1>0, <1>1, Bounds DEF InitialWindow, MinOf
<1>4. ASSUME NEW p \in Slots PROVE Tended(p)' /\ Placed(p)' /\ Charged(p)'
  <2>1. p < Primary => coordinator[p] = "ended" /\ notice[p] = "none"
    BY <1>0, <1>2 DEF Placed, Alive
  <2>2. p >= Primary => coordinator[p] = "absent" /\ notice[p] = "none" /\ p \notin registry
    BY <1>0, <1>2 DEF Placed, Tended
  <2>3. p \notin cancelling
    BY <1>0, <1>2 DEF Placed, Alive
  <2>4. coordinator'[p] = IF Primary <= p /\ p < launched' THEN "generating" ELSE coordinator[p]
    BY <1>3
  <2>5. Tended(p)'
    BY <1>0, <1>1, <1>2, <2>1, <2>2, <2>4 DEF Tended, IsPrimary
  <2>6. Placed(p)'
    <3>1. /\ notice'[p] = "none" /\ p \notin cancelling' /\ control' = "waiting"
          /\ next' = Primary /\ stage' = "noise" /\ p \in Nat
      BY <1>0, <1>1, <2>1, <2>2, <2>3, Bounds
    <3>2. p < Primary => coordinator'[p] = "ended"
      BY <3>1, <2>1, <2>4, Bounds
    <3>3. p >= launched' => coordinator'[p] = "absent"
      <4>1. launched' \in Nat /\ launched' >= Primary
        BY <1>1, Bounds DEF MinOf
      <4>2. QED
        BY <2>2, <2>4, <3>1, <4>1, Bounds
    <3>4. QED
      BY <3>1, <3>2, <3>3 DEF Placed, IsPrimary
  <2>7. Charged(p)'
    BY <1>0, <1>1, <1>2, <2>1, <2>2, <2>4 DEF Charged
  <2>8. QED
    BY <2>5, <2>6, <2>7
<1>5. CoordinatorTypes'
  <2>1. coordinator' \in [Slots -> Alive \cup {"absent", "ended"}]
    BY <1>1 DEF SlotInv, CoordinatorTypes, Alive, Working
  <2>2. QED
    BY <1>1, <2>1 DEF SlotInv, CoordinatorTypes, Slots, Alive, Working
<1>6. QED
  BY <1>4, <1>5 DEF Attended, Slots

\* The delivery is complete: every slot is behind the head.
LEMMA DeliverAttends ==
  ASSUME SlotInv, Deliver
  PROVE  CoordinatorTypes' /\ Attended'
<1>0. /\ next = Total /\ \A p \in Slots : p < next
      /\ \A p \in Slots : coordinator[p] \notin Alive
      /\ \A p \in Slots : notice[p] = "none" /\ Tended(p) /\ Placed(p) /\ Charged(p)
  BY NoneAlive, Bounds DEF Deliver, SlotInv, Attended, Placed, Total
<1>1. UNCHANGED <<stage, next, launched, coordVars, registry, consumed, absorbed>>
      /\ control' = "ended" /\ verdict' = "delivered"
  BY DEF Deliver
<1>2. ASSUME NEW p \in Slots PROVE Tended(p)' /\ Placed(p)' /\ Charged(p)'
  <2>1. Tended(p)'
    BY <1>0, <1>1 DEF coordVars, Tended, IsPrimary
  <2>2. Placed(p)'
    BY <1>0, <1>1 DEF coordVars, Placed, IsPrimary
  <2>3. Charged(p)'
    BY <1>0, <1>1 DEF coordVars, Charged
  <2>4. QED
    BY <2>1, <2>2, <2>3
<1>3. CoordinatorTypes'
  BY <1>1 DEF SlotInv, coordVars, CoordinatorTypes, Slots, Alive, Working
<1>4. QED
  BY <1>2, <1>3 DEF Attended, Slots

\* The phase is cleaned up: what no coordinator owns is discarded.
LEMMA CleanUpAttends ==
  ASSUME SlotInv, CleanUp
  PROVE  CoordinatorTypes' /\ Attended'
<1>0. /\ verdict # "none"
      /\ \A p \in Slots : coordinator[p] \notin Alive
      /\ \A p \in Slots : Tended(p) /\ Placed(p) /\ Charged(p)
  BY NoneAlive DEF CleanUp, SlotInv, Attended, Steered
<1>1. /\ UNCHANGED <<stage, verdict, next, launched, coordinator, cancelling, attempt, content,
                     size, failure, consumed, absorbed>>
      /\ registry' = {o \in registry : notice[o] \notin {"candidate", "rejected"}}
      /\ notice' = [o \in Slots |-> "none"] /\ control' = "ended"
  BY DEF CleanUp, stateVars
<1>2. ASSUME NEW p \in Slots PROVE Tended(p)' /\ Placed(p)' /\ Charged(p)'
  <2>0. notice'[p] = "none" /\ p \notin registry'
    BY <1>0, <1>1 DEF Tended, Alive, Working
  <2>1. Tended(p)'
    BY <1>0, <1>1, <2>0 DEF Tended, IsPrimary, Alive, Working
  <2>2. Placed(p)'
    BY <1>0, <1>1, <2>0 DEF Placed, IsPrimary
  <2>3. Charged(p)'
    BY <1>0, <1>1 DEF Charged
  <2>4. QED
    BY <2>1, <2>2, <2>3
<1>3. CoordinatorTypes'
  BY <1>1 DEF SlotInv, CoordinatorTypes, Slots, Alive, Working
<1>4. QED
  BY <1>2, <1>3 DEF Attended, Slots

\* The cancellation of the workflow is delivered, or swallowed while the phase
\* settles or is being cancelled.
LEMMA WorkflowAttends ==
  ASSUME SlotInv, WorkflowCancelled
  PROVE  CoordinatorTypes' /\ Attended'
<1>1. UNCHANGED <<stage, next, launched, coordinator, attempt, content, size, failure,
                  notice, registry, consumed, absorbed>>
  BY DEF WorkflowCancelled, stateVars, reportVars
<1>2. \A p \in Slots : Alone(p) /\ consumed'[p] = consumed[p]
  BY <1>1 DEF Alone
<1>3. cancelling' \subseteq Slots
  BY DEF WorkflowCancelled, CancelPhase, AliveIn, PhaseSlots, SlotInv, CoordinatorTypes
<1>4. CoordinatorTypes'
  BY <1>1, <1>3 DEF SlotInv, CoordinatorTypes, Slots, Alive, Working
<1>5. CASE control \in {"waiting", "launching"}
  <2>1. control' = "cancelling" /\ verdict' # "none"
    BY <1>5 DEF WorkflowCancelled, CancelPhase
  <2>2. QED
    BY <1>1, <1>2, <1>4, <2>1, AloneKept DEF SlotInv, Attended, Slots
<1>6. CASE control \notin {"waiting", "launching"}
  <2>1. UNCHANGED <<control, verdict>>
        /\ cancelling' \subseteq cancelling \cup AliveIn(PhaseSlots)
    BY <1>6 DEF WorkflowCancelled
  <2>2. ASSUME NEW p \in Slots PROVE Tended(p)' /\ Placed(p)' /\ Charged(p)'
    <3>1. Tended(p) /\ Placed(p) /\ Charged(p)
      BY DEF SlotInv, Attended
    <3>2. CASE verdict = "none" /\ p \in AliveIn(PhaseSlots)
      <4>1. control = "settling" /\ next = PhaseEnd
        BY <1>6, <3>2 DEF SlotInv, Steered
      <4>2. p < next
        BY <3>2, <4>1, Bounds DEF AliveIn, PhaseSlots, PhaseEnd, Total
      <4>3. coordinator[p] = "done"
        BY <3>1, <3>2, <4>2 DEF Placed, AliveIn, Alive, Working
      <4>4. Placed(p)'
        BY <1>2, <2>1, <3>1, <4>1, <4>3, <1>1 DEF Placed, Alone, IsPrimary
      <4>5. Tended(p)'
        BY <1>2, <3>1 DEF Tended, Alone, IsPrimary
      <4>6. Charged(p)'
        BY <1>1, <2>1, <3>1 DEF Charged
      <4>7. QED
        BY <4>4, <4>5, <4>6
    <3>3. CASE p \notin AliveIn(PhaseSlots)
      BY <1>1, <1>2, <2>1, <3>1, <3>3, AloneKept
    <3>4. CASE verdict # "none"
      <4>1. Placed(p)'
        BY <1>1, <1>2, <2>1, <3>1, <3>4 DEF Placed, Alone, IsPrimary
      <4>2. Tended(p)'
        BY <1>2, <3>1 DEF Tended, Alone, IsPrimary
      <4>3. Charged(p)'
        BY <1>1, <2>1, <3>1 DEF Charged
      <4>4. QED
        BY <4>1, <4>2, <4>3
    <3>5. QED
      BY <3>2, <3>3, <3>4
  <2>3. QED
    BY <1>4, <2>2 DEF Attended, Slots
<1>7. QED
  BY <1>5, <1>6

--------------------------------------------------------------------------------
(* Types, and who owns what *)

\* No verdict of the head and no report leaves its type.
LEMMA BooksStep == SlotInv /\ [Next]_vars => BookTypes'
<1> SUFFICES ASSUME SlotInv, [Next]_vars PROVE BookTypes'
  OBVIOUS
<1>0. /\ BookTypes /\ NoLedger \in [slot : Slots \cup {NoSlot}, attempts : 0 .. MaxAttempts]
      /\ MaxAttempts \in Nat /\ MemoryLimit \in Nat
  BY Bounds, DeliveryAssumption DEF SlotInv, NoLedger
<1>1. CASE /\ UNCHANGED <<stateVars, reportVars>>
           /\ workflow' \in {"untouched", "requested", "delivered", "swallowed"}
           /\ requester' \in {"nobody", "outside", "fatal", "self_cancelled"}
  BY <1>0, <1>1 DEF BookTypes, stateVars, reportVars, Slots
<1>2. CASE \E o \in Slots : CoordinatorStep(o)
  <2>1. PICK o \in Slots : CoordinatorStep(o)
    BY <1>2
  <2>2. UNCHANGED <<stateVars, reportVars>>
    BY <2>1, CoordinatorQuiet
  <2>3. \/ UNCHANGED <<workflow, requester>>
        \/ workflow' = "requested" /\ requester' \in {"fatal", "self_cancelled"}
    BY <2>1 DEF CoordinatorStep, FailEarly, Reserve, Prepared, PreparedNoise, FailLate,
                CancelsItself, Decided, CoordinatorCancelled, GroupAborts, GroupRaises, controlVars
  <2>4. QED
    BY <1>0, <1>1, <2>2, <2>3 DEF BookTypes
<1>3. CASE Interrupt \/ WorkflowCancelled \/ LaunchTail \/ EndPrimary \/ UNCHANGED vars
  BY <1>0, <1>1, <1>3 DEF Interrupt, WorkflowCancelled, LaunchTail, EndPrimary, vars, controlVars,
                          BookTypes
<1>4. CASE Deliver \/ CleanUp
  <2>1. UNCHANGED <<workflow, requester, stateVars, consumed, rejected>>
        /\ ledger' \in {NoLedger, ledger}
    BY <1>4 DEF Deliver, CleanUp
  <2>2. QED
    BY <1>0, <2>1 DEF BookTypes, stateVars, Slots
<1>5. ASSUME NEW o \in Slots, HeadStep(o) PROVE BookTypes'
  <2>0. UNCHANGED <<workflow, requester>>
    BY <1>5 DEF HeadStep, TakeFatal, CommitHead, RejectHead, HeadFails
  <2>1. CASE CommitHead(o)
    <3>1. notice[o] = "candidate" /\ ~TooLarge(o) /\ Tended(o) /\ attempt[o] \in 0 .. MaxAttempts - 1
      BY <2>1 DEF CommitHead, SlotInv, Attended, CoordinatorTypes
    <3>2. content[o] \in Contents /\ size[o] \in Nat
      BY <3>1, DeliveryAssumption DEF Tended
    <3>3. index' \subseteq Contents /\ accepted' \in Seq(Contents)
      BY <1>0, <2>1, <3>2 DEF CommitHead, BookTypes
    <3>4. retained' \in 0 .. MemoryLimit
      BY <1>0, <2>1, <3>1, <3>2, SMTT(30) DEF CommitHead, BookTypes, TooLarge
    <3>5. consumed' \in [Slots -> 0 .. MaxAttempts]
      <4>1. attempt[o] + 1 \in 0 .. MaxAttempts
        BY <1>0, <3>1
      <4>2. QED
        BY <1>0, <2>1, <4>1 DEF CommitHead, Charge, BookTypes
    <3>6. UNCHANGED <<rejected, ledger>>
      BY <2>1 DEF CommitHead
    <3>7. QED
      BY <1>0, <2>0, <3>3, <3>4, <3>5, <3>6 DEF BookTypes, Slots
  <2>2. CASE RejectHead(o)
    <3>1. attempt[o] + 1 \in 0 .. MaxAttempts
      BY <1>0 DEF SlotInv, CoordinatorTypes
    <3>2. consumed' \in [Slots -> 0 .. MaxAttempts] /\ rejected' \in Nat /\ UNCHANGED stateVars
      BY <1>0, <2>2, <3>1 DEF RejectHead, Charge, BookTypes
    <3>3. ledger' \in [slot : Slots \cup {NoSlot}, attempts : 0 .. MaxAttempts]
      BY <2>2, <3>1 DEF RejectHead
    <3>4. QED
      BY <1>0, <2>0, <3>2, <3>3 DEF BookTypes, stateVars, Slots
  <2>3. CASE HeadFails(o) \/ TakeFatal(o)
    <3>1. attempt[o] \in 0 .. MaxAttempts /\ consumed[o] \in 0 .. MaxAttempts
      BY <1>0 DEF SlotInv, CoordinatorTypes, BookTypes
    <3>2. UNCHANGED <<stateVars, consumed, rejected>>
      BY <2>3 DEF HeadFails, TakeFatal
    <3>3. ledger' \in {NoLedger, [slot |-> o, attempts |-> attempt[o]],
                       [slot |-> o, attempts |-> consumed[o]]}
      BY <2>3 DEF HeadFails, TakeFatal
    <3>4. ledger' \in [slot : Slots \cup {NoSlot}, attempts : 0 .. MaxAttempts]
      BY <1>0, <3>1, <3>3
    <3>5. QED
      BY <1>0, <2>0, <3>2, <3>4 DEF BookTypes, stateVars, Slots
  <2>4. QED
    BY <1>5, <2>1, <2>2, <2>3 DEF HeadStep
<1>6. QED
  BY <1>2, <1>3, <1>4, <1>5 DEF Next, ControllerStep

\* Every step keeps the slots attended.
LEMMA SlotInvStep == SlotInv /\ [Next]_vars => SlotInv'
<1> SUFFICES ASSUME SlotInv, [Next]_vars PROVE CoordinatorTypes' /\ Attended'
  BY SteeredStep, BooksStep DEF SlotInv
<1>0. CoordinatorTypes /\ \A p \in Slots : Tended(p) /\ Placed(p) /\ Charged(p)
  BY DEF SlotInv, Attended
<1>1. ASSUME NEW o \in Slots, CoordinatorStep(o) PROVE CoordinatorTypes' /\ Attended'
  <2>1. /\ UNCHANGED <<stage, control, verdict, next, launched, consumed>>
        /\ cancelling' \subseteq cancelling /\ \A p \in Slots \ {o} : Alone(p)
    BY <1>0, <1>1, CoordinatorQuiet, CoordinatorAlone DEF reportVars
  <2>2. \A p \in Slots \ {o} : Tended(p)' /\ Placed(p)' /\ Charged(p)'
    BY <1>0, <2>1, AloneKept
  <2>3. CoordinatorTypes' /\ Tended(o)' /\ Placed(o)' /\ Charged(o)'
    BY <1>0, <1>1, CoordinatorTends, CoordinatorPlaces, CoordinatorCharges DEF SlotInv
  <2>4. QED
    BY <2>2, <2>3 DEF Attended, Slots
<1>2. ASSUME NEW o \in Slots, HeadStep(o) PROVE CoordinatorTypes' /\ Attended'
  BY <1>2, FatalAttends, CommitAttends, RejectAttends, FailsAttends DEF HeadStep
<1>3. CASE Interrupt \/ UNCHANGED vars
  <2>1. UNCHANGED <<stage, control, verdict, next, launched, coordVars, registry, consumed,
                    absorbed>>
    BY <1>3 DEF Interrupt, vars, controlVars, reportVars
  <2>2. \A p \in Slots : Alone(p)
    BY <2>1 DEF coordVars, Alone
  <2>3. \A p \in Slots : Tended(p)' /\ Placed(p)' /\ Charged(p)'
    BY <1>0, <2>1, <2>2, AloneKept DEF coordVars
  <2>4. CoordinatorTypes'
    BY <1>0, <2>1 DEF CoordinatorTypes, coordVars, Slots, Alive, Working
  <2>5. QED
    BY <2>3, <2>4 DEF Attended, Slots
<1>4. QED
  BY <1>1, <1>2, <1>3, LaunchAttends, NoiseAttends, DeliverAttends, CleanUpAttends,
     WorkflowAttends DEF Next, ControllerStep

\* At the start the window of the primary phase is open.
LEMMA SlotInvInit == Init => SlotInv
<1> SUFFICES ASSUME Init PROVE SlotInv
  OBVIOUS
<1>1. SteerTypes /\ Steered
  BY SteeredInit
<1>2. /\ coordinator \in [Slots -> Alive \cup {"absent", "ended"}]
      /\ \A o \in Slots : /\ coordinator[o] \in {"generating", "absent"}
                          /\ o >= launched => coordinator[o] = "absent"
  BY Bounds DEF Init, InitialWindow, MinOf, Alive, Working
<1>3. CoordinatorTypes
  BY <1>2, Bounds DEF Init, CoordinatorTypes
<1>4. BookTypes
  BY Bounds, DeliveryAssumption DEF Init, BookTypes, NoLedger
<1>5. ASSUME NEW o \in Slots PROVE Tended(o) /\ Placed(o) /\ Charged(o)
  BY <1>2, Bounds DEF Init, Tended, Placed, Charged, IsPrimary
<1>6. QED
  BY <1>1, <1>3, <1>4, <1>5 DEF SlotInv, Attended

\* The slots are attended in every reachable state.
LEMMA SlotInvCorrect == Spec => []SlotInv
BY SlotInvInit, SlotInvStep, PTL DEF Spec

\* Every variable keeps its type.
THEOREM DeliveryTypeCorrect == Spec => []TypeOK
<1>1. SlotInv => TypeOK
  BY DEF SlotInv, SteerTypes, CoordinatorTypes, BookTypes, TypeOK, Total
<1>2. QED
  BY <1>1, SlotInvCorrect, PTL

\* A pending reservation has exactly one owner, whoever fails or is cancelled at
\* whichever await; and when deliver() ends nothing runs, waits or is reserved.
THEOREM ReservationsOwnedCorrect == Spec => []ReservationsOwned
<1>1. SlotInv => ReservationsOwned
  <2> SUFFICES ASSUME SlotInv PROVE ReservationsOwned
    OBVIOUS
  <2>1. \A o \in Slots : Tended(o) /\ Placed(o)
    BY DEF SlotInv, Attended
  <2>2. control = "ended" => AliveIn(Slots) = {} /\ \A o \in Slots : notice[o] = "none"
    BY <2>1 DEF Placed, AliveIn
  <2>3. control = "ended" => registry = {}
    BY <2>1 DEF SlotInv, CoordinatorTypes, Tended, Placed, Alive, Working
  <2>4. QED
    BY <2>1, <2>2, <2>3 DEF ReservationsOwned, Tended
<1>2. QED
  BY <1>1, SlotInvCorrect, PTL

--------------------------------------------------------------------------------
(* The window *)

\* Sets of slots can be counted, and an interval has as many as it is long.
LEMMA SlotsCounted ==
  ASSUME NEW S \in SUBSET Slots
  PROVE  /\ IsFiniteSet(S) /\ Cardinality(S) \in Nat
         /\ \A T \in SUBSET S : Cardinality(T) <= Cardinality(S)
         /\ \A o \in Slots \ S : Cardinality(S \cup {o}) = Cardinality(S) + 1
<1>1. IsFiniteSet(Slots)
  BY Bounds, FS_Interval
<1>2. QED
  BY <1>1, FS_Subset, FS_CardinalityType, FS_AddElement

\* The slots that are prepared at the start of a phase fit the window.
LEMMA WindowCounted ==
  ASSUME NEW first \in Nat, NEW last \in Nat
  PROVE  /\ IsFiniteSet(InitialWindow(first, last))
         /\ Cardinality(InitialWindow(first, last)) \in Nat
         /\ Cardinality(InitialWindow(first, last)) <= Window
<1> DEFINE l == MinOf(first + Window, last) - 1
<1>1. l \in Int /\ l < first + Window /\ Window \in Nat
  BY Bounds DEF MinOf
<1>2. InitialWindow(first, last) = first .. l
  BY DEF InitialWindow
<1> HIDE DEF l
<1>3. /\ IsFiniteSet(first .. l)
      /\ Cardinality(first .. l) = IF first > l THEN 0 ELSE l - first + 1
  BY <1>1, FS_Interval
<1>4. Cardinality(first .. l) \in Nat /\ Cardinality(first .. l) <= Window
  BY <1>1, <1>3
<1>5. QED
  BY <1>2, <1>3, <1>4

\* A coordinator comes to life only where the window is opened or moved.
LEMMA AliveShrinks ==
  ASSUME SlotInv, [Next]_vars, ~LaunchTail, ~EndPrimary
  PROVE  AliveIn(Slots)' \subseteq AliveIn(Slots)
<1>0. CoordinatorTypes /\ AliveIn(Slots)' = {o \in Slots : coordinator'[o] \in Alive}
  BY DEF SlotInv, AliveIn, Slots, Alive, Working
<1>1. ASSUME NEW o \in Slots, CoordinatorStep(o), coordinator'[o] \in Alive
      PROVE  coordinator[o] \in Alive
  <2> USE DEF Alive, Working, Runs
  <2>1. CASE \E outcome \in {"rejected", "fatal"} : FailEarly(o, outcome)
    BY <2>1 DEF FailEarly
  <2>2. CASE \E c \in Contents : Reserve(o, c)
    BY <2>2 DEF Reserve
  <2>3. CASE \E outcome \in {"candidate", "rejected"}, s \in Sizes : Prepared(o, outcome, s)
    BY <2>3 DEF Prepared
  <2>4. CASE \E c \in Contents, s \in Sizes : PreparedNoise(o, c, s)
    BY <2>4 DEF PreparedNoise
  <2>5. CASE \E why \in {"fatal", "self_cancelled"}, leaf \in BOOLEAN : GroupAborts(o, why, leaf)
    BY <2>5 DEF GroupAborts
  <2>6. CASE GroupRaises(o) \/ FailLate(o) \/ CancelsItself(o) \/ Decided(o)
             \/ CoordinatorCancelled(o)
    BY <2>6 DEF GroupRaises, FailLate, CancelsItself, Decided, CoordinatorCancelled
  <2>7. QED
    BY <1>1, <2>1, <2>2, <2>3, <2>4, <2>5, <2>6 DEF CoordinatorStep
<1>2. CASE \E o \in Slots : CoordinatorStep(o)
  BY <1>0, <1>1, <1>2, CoordinatorAlone DEF Alone, AliveIn
<1>3. ASSUME NEW o \in Slots, HeadStep(o) PROVE AliveIn(Slots)' \subseteq AliveIn(Slots)
  <2>1. \/ UNCHANGED coordinator
        \/ HeadReady(o) /\ \A p \in Slots \ {o} : coordinator'[p] = coordinator[p]
    BY <1>0, <1>3 DEF HeadStep, TakeFatal, CommitHead, RejectHead, HeadFails, CoordinatorTypes
  <2>2. HeadReady(o) => coordinator[o] \in Alive
    BY HeadPlaced DEF Alive
  <2>3. QED
    BY <1>0, <2>1, <2>2 DEF AliveIn
<1>4. CASE Deliver \/ CleanUp \/ WorkflowCancelled \/ Interrupt \/ UNCHANGED vars
  <2>1. UNCHANGED coordinator
    BY <1>4 DEF Deliver, CleanUp, WorkflowCancelled, Interrupt, vars, coordVars
  <2>2. QED
    BY <1>0, <2>1 DEF AliveIn
<1>5. QED
  BY <1>2, <1>3, <1>4 DEF Next, ControllerStep

\* No step puts more coordinators to work than the window has permits.
LEMMA WindowStep == SlotInv /\ Windowed /\ [Next]_vars => Windowed'
<1> SUFFICES ASSUME SlotInv, Windowed, [Next]_vars PROVE Windowed'
  OBVIOUS
<1>0. /\ AliveIn(Slots) \in SUBSET Slots /\ AliveIn(Slots)' \in SUBSET Slots
      /\ AliveIn(Slots)' = {o \in Slots : coordinator'[o] \in Alive} /\ Window \in Nat
  BY Bounds DEF AliveIn, Slots, Alive, Working
<1>1. CASE LaunchTail
  <2>1. AliveIn(PhaseSlots) = AliveIn(Slots)
    BY AliveInPhase DEF AliveIn, PhaseSlots
  <2>2. launched \in Slots /\ coordinator[launched] = "absent"
    BY <1>1, LaunchAttends
  <2>3. AliveIn(Slots)' = AliveIn(Slots) \cup {launched} /\ launched \notin AliveIn(Slots)
    BY <1>0, <1>1, <2>2 DEF LaunchTail, AliveIn, SlotInv, CoordinatorTypes, Alive, Working
  <2>4. Cardinality(AliveIn(Slots)') = Cardinality(AliveIn(Slots)) + 1
    BY <1>0, <2>2, <2>3, SlotsCounted
  <2>5. Cardinality(AliveIn(Slots)) < Window /\ Cardinality(AliveIn(Slots)) \in Nat
    BY <1>0, <1>1, <2>1, SlotsCounted DEF LaunchTail
  <2>6. QED
    BY <1>0, <2>4, <2>5 DEF Windowed
<1>2. CASE EndPrimary
  <2>1. \A o \in Slots : coordinator[o] \notin Alive
    BY <1>2, NoneAlive DEF EndPrimary
  <2>2. AliveIn(Slots)' \subseteq InitialWindow(Primary, Primary + Noise)
    BY <1>0, <1>2, <2>1 DEF EndPrimary
  <2>3. /\ IsFiniteSet(InitialWindow(Primary, Primary + Noise))
        /\ Cardinality(InitialWindow(Primary, Primary + Noise)) \in Nat
        /\ Cardinality(InitialWindow(Primary, Primary + Noise)) <= Window
    BY Bounds, WindowCounted DEF Total
  <2>4. Cardinality(AliveIn(Slots)') <= Cardinality(InitialWindow(Primary, Primary + Noise))
    BY <2>2, <2>3, FS_Subset
  <2>5. Cardinality(AliveIn(Slots)') \in Nat
    BY <1>0, SlotsCounted
  <2>6. QED
    BY <1>0, <2>3, <2>4, <2>5 DEF Windowed
<1>3. CASE ~LaunchTail /\ ~EndPrimary
  <2>1. AliveIn(Slots)' \subseteq AliveIn(Slots)
    BY <1>3, AliveShrinks
  <2>2. Cardinality(AliveIn(Slots)') <= Cardinality(AliveIn(Slots))
    BY <1>0, <2>1, SlotsCounted
  <2>3. QED
    BY <1>0, <2>2, SlotsCounted DEF Windowed
<1>4. QED
  BY <1>1, <1>2, <1>3

\* At the start the window of the primary phase is full.
LEMMA WindowInit == Init => Windowed
<1> SUFFICES ASSUME Init PROVE Windowed
  OBVIOUS
<1>1. AliveIn(Slots) \subseteq InitialWindow(0, Primary)
  BY DEF Init, AliveIn, Alive, Working
<1>2. /\ IsFiniteSet(InitialWindow(0, Primary))
      /\ Cardinality(InitialWindow(0, Primary)) \in Nat
      /\ Cardinality(InitialWindow(0, Primary)) <= Window
  BY Bounds, WindowCounted
<1>3. /\ Cardinality(AliveIn(Slots)) <= Cardinality(InitialWindow(0, Primary))
      /\ Cardinality(AliveIn(Slots)) \in Nat
  BY <1>1, <1>2, FS_Subset, FS_CardinalityType
<1>4. QED
  BY <1>2, <1>3, Bounds DEF Windowed

\* Preparation runs ahead of the commit point by no more than the window, and no
\* more coordinators than that are at work.
THEOREM WindowHoldsCorrect == Spec => []WindowHolds
<1>1. SlotInv /\ Windowed => WindowHolds
  <2> SUFFICES ASSUME SlotInv, Windowed PROVE WindowHolds
    OBVIOUS
  <2>1. launched <= next + Window
    BY DEF SlotInv, Steered
  <2>2. ASSUME NEW o \in AliveIn(Slots)
        PROVE  o < launched /\ (o < next => coordinator[o] = "done")
    <3>1. o \in Slots /\ coordinator[o] \in Alive /\ Placed(o) /\ launched \in Int /\ o \in Int
      BY Bounds DEF AliveIn, SlotInv, Attended, SteerTypes
    <3>2. QED
      BY <3>1 DEF Placed, Alive, Working
  <2>3. QED
    BY <2>1, <2>2 DEF WindowHolds, Windowed
<1>2. QED
  BY <1>1, SlotInvCorrect, WindowInit, WindowStep, PTL DEF Spec

--------------------------------------------------------------------------------
(* What the head decides *)

\* What a commit does, as the promise of ordered delivery sees it: new content that
\* fits, and one more charge to the slot.
LEMMA CommitDecides ==
  ASSUME SlotInv, NEW o \in Slots, CommitHead(o)
  PROVE  /\ content[o] \in Contents \ index /\ size[o] \in Sizes
         /\ retained' = retained + size[o] /\ retained' <= MemoryLimit
         /\ accepted' = Append(accepted, content[o]) /\ index' = index \cup {content[o]}
         /\ o = next /\ next' = next + 1 /\ UNCHANGED <<rejected, verdict>>
         /\ consumed' = [consumed EXCEPT ![o] = @ + 1]
<1>1. notice[o] = "candidate" /\ ~Conflict(o) /\ ~TooLarge(o) /\ HeadReady(o)
  BY DEF CommitHead
<1>2. content[o] \in Contents /\ size[o] \in Sizes /\ (IsPrimary(o) => o \in registry)
  BY <1>1 DEF SlotInv, Attended, Tended
<1>3. content[o] \notin index
  BY <1>1, <1>2 DEF Conflict
<1>4. consumed[o] = attempt[o] /\ o = next
  BY <1>1, HeadPlaced
<1>5. retained + size[o] <= MemoryLimit
  <2>1. /\ retained \in Nat
        /\ size[o] \in Nat /\ MemoryLimit \in Nat
    <3>1. size[o] \in Nat /\ MemoryLimit \in Nat
      BY <1>2, DeliveryAssumption
    <3>2. retained \in 0 .. MemoryLimit
      BY DEF SlotInv, BookTypes
    <3>3. QED
      BY <3>1, <3>2
  <2>2. ~ (retained + size[o] > MemoryLimit)
    BY <1>1 DEF TooLarge
  <2>3. QED
    BY <2>1, <2>2
<1>6. consumed' = [consumed EXCEPT ![o] = @ + 1]
  BY <1>4 DEF CommitHead, Charge
<1>7. QED
  BY <1>2, <1>3, <1>4, <1>5, <1>6 DEF CommitHead

\* A rejection charges the slot for one more attempt, and the last one exhausts the
\* run.
LEMMA RejectDecides ==
  ASSUME SlotInv, NEW o \in Slots, RejectHead(o)
  PROVE  /\ o = next /\ UNCHANGED <<next, launched, accepted, index, retained>>
         /\ rejected' = rejected + 1 /\ verdict = "none"
         /\ consumed' = [consumed EXCEPT ![o] = @ + 1] /\ consumed[o] + 1 <= MaxAttempts
         /\ verdict' = IF consumed[o] + 1 = MaxAttempts THEN "exhausted" ELSE "none"
         /\ ledger' = [slot |-> o, attempts |-> consumed[o] + 1]
<1>1. o = next /\ consumed[o] = attempt[o] /\ attempt[o] \in 0 .. MaxAttempts - 1
      /\ verdict = "none"
  BY HeadPlaced DEF RejectHead
<1>2. UNCHANGED <<next, launched, accepted, index, retained>> /\ rejected' = rejected + 1
      /\ ledger' = [slot |-> o, attempts |-> attempt[o] + 1]
  BY DEF RejectHead, stateVars
<1>3. consumed' = [consumed EXCEPT ![o] = @ + 1]
  BY <1>1 DEF RejectHead, Charge
<1>4. IF attempt[o] + 1 < MaxAttempts THEN UNCHANGED verdict ELSE verdict' = "exhausted"
  BY DEF RejectHead, CancelPhase
<1>5. attempt[o] + 1 <= MaxAttempts /\ (attempt[o] + 1 < MaxAttempts <=> attempt[o] + 1 # MaxAttempts)
  BY <1>1, Bounds
<1>6. QED
  BY <1>1, <1>2, <1>3, <1>4, <1>5

\* One more charge is one more in the sum.
LEMMA ChargeAdds ==
  ASSUME NEW g, NEW h, NEW o \in Slots, \A p \in Slots : g[p] \in Int,
         h[o] = g[o] + 1, \A p \in Slots \ {o} : g[p] = h[p]
  PROVE  SumOf(h, Slots) = SumOf(g, Slots) + 1
<1>1. IsFiniteSet(Slots)
  BY Bounds, FS_Interval
<1>2. \A p \in Slots : g[p] \in Int /\ h[p] \in Int
  OBVIOUS
<1>3. SumOf(h, Slots) = SumOf(g, Slots) - g[o] + h[o]
  BY <1>1, <1>2, SumUpdate
<1>4. SumOf(g, Slots) \in Int
  BY <1>1, SumType
<1>5. QED
  BY <1>3, <1>4

\* So a charge by the head adds one to what all slots are charged for.
LEMMA ChargesAdd ==
  ASSUME BookTypes, NEW o \in Slots, consumed' = [consumed EXCEPT ![o] = @ + 1]
  PROVE  SumOf(consumed', Slots) = SumOf(consumed, Slots) + 1
<1>1. \A p \in Slots : consumed[p] \in Int
  BY Bounds DEF BookTypes
<1>2. consumed'[o] = consumed[o] + 1 /\ \A p \in Slots \ {o} : consumed[p] = consumed'[p]
  BY DEF BookTypes
<1> DEFINE g == consumed
           h == consumed'
<1> HIDE DEF g, h
<1>3. SumOf(h, Slots) = SumOf(g, Slots) + 1
  BY <1>1, <1>2, ChargeAdds DEF g, h
<1>4. QED
  BY <1>3 DEF g, h

\* Only a commit and a rejection decide anything.
LEMMA OnlyHeadDecides ==
  ASSUME [Next]_vars, \A o \in Slots : ~CommitHead(o) /\ ~RejectHead(o)
  PROVE  UNCHANGED <<next, accepted, index, retained, consumed, rejected>>
<1>1. CASE \E o \in Slots : CoordinatorStep(o)
  BY <1>1, CoordinatorQuiet DEF stateVars, reportVars
<1>2. CASE LaunchTail \/ EndPrimary \/ Deliver \/ CleanUp \/ WorkflowCancelled \/ Interrupt
           \/ UNCHANGED vars
  BY <1>2 DEF LaunchTail, EndPrimary, Deliver, CleanUp, WorkflowCancelled, Interrupt, vars,
              controlVars, stateVars, reportVars
<1>3. CASE \E o \in Slots : HeadStep(o)
  BY <1>3 DEF HeadStep, TakeFatal, HeadFails, stateVars
<1>4. QED
  BY <1>1, <1>2, <1>3 DEF Next, ControllerStep

\* Every step keeps what has been delivered distinct and counted.
LEMMA DecisionsStep == SlotInv /\ Decisions /\ [Next]_vars => Decisions'
<1> SUFFICES ASSUME SlotInv, Decisions, [Next]_vars PROVE Decisions'
  OBVIOUS
<1>0. /\ accepted \in Seq(Contents) /\ Len(accepted) = next /\ next \in Nat /\ rejected \in Nat
      /\ index = {accepted[i] : i \in DOMAIN accepted} /\ DOMAIN accepted = 1 .. next
      /\ \A i, j \in DOMAIN accepted : i # j => accepted[i] # accepted[j]
      /\ SumOf(consumed, Slots) = rejected + Len(accepted) /\ BookTypes
  BY DEF SlotInv, BookTypes, SteerTypes, Decisions, NoDuplicateDelivered
<1>1. ASSUME NEW o \in Slots, CommitHead(o) PROVE Decisions'
  <2>1. /\ content[o] \in Contents \ index /\ UNCHANGED rejected
        /\ accepted' = Append(accepted, content[o]) /\ index' = index \cup {content[o]}
        /\ next' = next + 1 /\ consumed' = [consumed EXCEPT ![o] = @ + 1]
    BY <1>1, CommitDecides
  <2>2. /\ Len(accepted') = next' /\ DOMAIN accepted' = 1 .. next + 1
        /\ accepted'[next + 1] = content[o]
        /\ \A i \in 1 .. next : accepted'[i] = accepted[i]
    BY <1>0, <2>1
  <2>3. index' = {accepted'[i] : i \in DOMAIN accepted'}
    <3>1. 1 .. next + 1 = (1 .. next) \cup {next + 1}
      BY <1>0
    <3>2. {accepted'[i] : i \in DOMAIN accepted'} = {accepted[i] : i \in 1 .. next} \cup {content[o]}
      BY <2>2, <3>1
    <3>3. QED
      BY <1>0, <2>1, <3>2
  <2>4. \A i, j \in DOMAIN accepted' : i # j => accepted'[i] # accepted'[j]
    <3>1. \A i \in 1 .. next : accepted[i] \in index
      BY <1>0
    <3>2. \A i \in 1 .. next : accepted[i] # content[o]
      BY <2>1, <3>1
    <3>3. QED
      BY <1>0, <2>2, <3>2
  <2>5. SumOf(consumed', Slots) = rejected' + Len(accepted')
    <3>1. SumOf(consumed', Slots) = SumOf(consumed, Slots) + 1
      BY <1>0, <2>1, ChargesAdd
    <3>2. QED
      BY <1>0, <2>1, <2>2, <3>1
  <2>6. QED
    BY <2>2, <2>3, <2>4, <2>5 DEF Decisions, NoDuplicateDelivered, Slots
<1>2. ASSUME NEW o \in Slots, RejectHead(o) PROVE Decisions'
  <2>1. /\ UNCHANGED <<next, accepted, index>> /\ rejected' = rejected + 1
        /\ consumed' = [consumed EXCEPT ![o] = @ + 1]
    BY <1>2, RejectDecides
  <2>2. SumOf(consumed', Slots) = SumOf(consumed, Slots) + 1
    BY <1>0, <2>1, ChargesAdd
  <2>3. SumOf(consumed', Slots) = rejected' + Len(accepted')
    BY <1>0, <2>1, <2>2
  <2>4. QED
    BY <1>0, <2>1, <2>3 DEF Decisions, NoDuplicateDelivered, Slots
<1>3. CASE \A o \in Slots : ~CommitHead(o) /\ ~RejectHead(o)
  <2>1. UNCHANGED <<next, accepted, index, consumed, rejected>>
    BY <1>3, OnlyHeadDecides
  <2>2. QED
    BY <2>1 DEF Decisions, NoDuplicateDelivered, Slots
<1>4. QED
  BY <1>1, <1>2, <1>3

\* At the start nothing is delivered and nothing charged.
LEMMA DecisionsInit == Init => Decisions
<1> SUFFICES ASSUME Init PROVE Decisions
  OBVIOUS
<1>1. IsFiniteSet(Slots) /\ \A o \in Slots : consumed[o] = 0
  BY Bounds, FS_Interval DEF Init
<1>2. SumOf(consumed, Slots) = 0
  BY <1>1, SumZero
<1>3. QED
  BY <1>2 DEF Init, Decisions, NoDuplicateDelivered

\* What the head decided adds up in every state.
LEMMA DecisionsCorrect == Spec => []Decisions
BY SlotInvCorrect, DecisionsInit, DecisionsStep, PTL DEF Spec

\* No two delivered slots have the same content, although they are prepared while
\* the slots before them are still open.
THEOREM NoDuplicateDeliveredCorrect == Spec => []NoDuplicateDelivered
<1>1. Decisions => NoDuplicateDelivered
  BY DEF Decisions
<1>2. QED
  BY <1>1, DecisionsCorrect, PTL

--------------------------------------------------------------------------------
(* The report *)

\* A terminal notice that is taken, or a contract that breaks at the head, reports a
\* launched slot at or after the head with what was charged to it, or nothing.
LEMMA FatalReports ==
  ASSUME SlotInv, NEW o \in Slots, TakeFatal(o) \/ HeadFails(o)
  PROVE  /\ verdict' \in {"fatal", "internal"} /\ control' = "cancelling" /\ verdict = "none"
         /\ UNCHANGED <<next, launched, accepted, index, retained, consumed>>
         /\ ledger' # NoLedger =>
              o \in next .. launched - 1 /\ ledger' = [slot |-> o, attempts |-> consumed[o]]
<1>0. Tended(o) /\ Placed(o) /\ o \in Nat /\ next \in Nat /\ launched \in Nat
  BY Bounds DEF SlotInv, Attended, SteerTypes
<1>1. CASE TakeFatal(o)
  <2>1. notice[o] # "none" /\ control = "waiting"
    BY <1>1 DEF TakeFatal, FatalNotices, Terminal
  <2>2. o >= next /\ o < launched
    BY <1>0, <2>1 DEF Tended, Placed
  <2>3. verdict = "none"
    BY <2>1 DEF SlotInv, Steered
  <2>4. verdict' = "fatal" /\ control' = "cancelling"
        /\ UNCHANGED <<next, launched, accepted, index, retained, consumed>>
        /\ ledger' \in {NoLedger, [slot |-> o, attempts |-> consumed[o]]}
    BY <1>1 DEF TakeFatal, CancelPhase, stateVars
  <2>5. QED
    BY <1>0, <2>2, <2>3, <2>4
<1>2. CASE HeadFails(o)
  <2>1. o = next /\ o < launched /\ consumed[o] = attempt[o] /\ verdict = "none"
    BY <1>2, HeadPlaced DEF HeadFails
  <2>2. verdict' = "internal" /\ control' = "cancelling"
        /\ UNCHANGED <<next, launched, accepted, index, retained, consumed>>
        /\ ledger' = [slot |-> o, attempts |-> attempt[o]]
    BY <1>2 DEF HeadFails, CancelPhase, stateVars
  <2>3. QED
    BY <1>0, <2>1, <2>2
<1>3. QED
  BY <1>1, <1>2

\* Every step keeps the report true of its verdict.
LEMMA ReportedStep == SlotInv /\ Reported /\ [Next]_vars => Reported'
<1> SUFFICES ASSUME SlotInv, Reported, [Next]_vars PROVE Reported'
  OBVIOUS
<1> USE DEF NoLedger
<1>0. Steered
  BY DEF SlotInv
<1>1. CASE /\ UNCHANGED <<verdict, ledger, next, launched, consumed>>
           /\ control' = "ended" => control = "ended"
  BY <1>1 DEF Reported
<1>2. CASE \E o \in Slots : CoordinatorStep(o)
  BY <1>1, <1>2, CoordinatorQuiet DEF reportVars
<1>3. CASE Interrupt \/ UNCHANGED vars
  BY <1>1, <1>3 DEF Interrupt, vars, controlVars, reportVars
<1>4. CASE LaunchTail \/ EndPrimary
  <2>1. verdict = "none" /\ UNCHANGED verdict /\ control' = "waiting"
    BY <1>0, <1>4 DEF LaunchTail, EndPrimary, Steered
  <2>2. QED
    BY <2>1 DEF Reported
<1>5. CASE Deliver
  BY <1>5 DEF Deliver, Reported
<1>6. CASE CleanUp
  <2>1. /\ UNCHANGED <<verdict, next, launched, consumed>> /\ control' = "ended"
        /\ control = "cancelling"
        /\ ledger' = IF verdict = "interrupted" THEN NoLedger ELSE ledger
    BY <1>6 DEF CleanUp
  <2>2. verdict # "delivered"
    BY <1>0, <2>1 DEF Steered
  <2>3. QED
    BY <2>1, <2>2 DEF Reported
<1>7. CASE WorkflowCancelled
  <2>1. CASE control \in {"waiting", "launching"}
    BY <1>7, <2>1 DEF WorkflowCancelled, CancelPhase, Reported
  <2>2. CASE control \notin {"waiting", "launching"}
    BY <1>1, <1>7, <2>2 DEF WorkflowCancelled, reportVars
  <2>3. QED
    BY <2>1, <2>2
<1>8. ASSUME NEW o \in Slots, HeadStep(o) PROVE Reported'
  <2>1. CASE CommitHead(o)
    <3>1. verdict = "none" /\ UNCHANGED verdict
      BY <2>1, HeadPlaced DEF CommitHead
    <3>2. QED
      BY <3>1 DEF Reported
  <2>2. CASE RejectHead(o)
    <3>1. /\ o = next /\ UNCHANGED next
          /\ verdict' = IF consumed[o] + 1 = MaxAttempts THEN "exhausted" ELSE "none"
          /\ ledger' = [slot |-> o, attempts |-> consumed[o] + 1]
      BY <2>2, RejectDecides
    <3>2. QED
      BY <3>1 DEF Reported
  <2>3. CASE TakeFatal(o) \/ HeadFails(o)
    <3>1. /\ verdict' \in {"fatal", "internal"} /\ control' = "cancelling"
          /\ UNCHANGED <<next, launched, consumed>>
          /\ ledger' # NoLedger =>
               o \in next .. launched - 1 /\ ledger' = [slot |-> o, attempts |-> consumed[o]]
      BY <2>3, FatalReports
    <3>2. QED
      BY <3>1 DEF Reported
  <2>4. QED
    BY <1>8, <2>1, <2>2, <2>3 DEF HeadStep
<1>9. QED
  BY <1>2, <1>3, <1>4, <1>5, <1>6, <1>7, <1>8 DEF Next, ControllerStep

\* The report agrees with the verdict in every state.
LEMMA ReportedCorrect == Spec => []Reported
<1>1. Init => Reported
  BY DEF Init, Reported
<1>2. QED
  BY <1>1, ReportedStep, SlotInvCorrect, PTL DEF Spec

\* Speculation is free: only what the head has judged is charged, the charges add up
\* to its verdicts, and the report of a failed run names what the verdict says.
THEOREM AttemptsReconcileCorrect == Spec => []AttemptsReconcile
<1>1. SlotInv /\ Decisions /\ Reported => AttemptsReconcile
  <2> SUFFICES ASSUME SlotInv, Decisions, Reported PROVE AttemptsReconcile
    OBVIOUS
  <2>1. FoldFunction(+, 0, consumed) = rejected + Len(accepted)
    <3>1. DOMAIN consumed = Slots
      BY DEF SlotInv, BookTypes
    <3>2. QED
      BY <3>1, FoldFunctionIsSum DEF Decisions
  <2>2. \A o \in Slots : Charged(o)
    BY DEF SlotInv, Attended
  <2>3. QED
    BY <2>1, <2>2 DEF AttemptsReconcile, Charged, Reported
<1>2. QED
  BY <1>1, SlotInvCorrect, DecisionsCorrect, ReportedCorrect, PTL

--------------------------------------------------------------------------------
(* The promise of ordered delivery *)

\* The attempt of the current slot and the result, as the promise sees them.
Used == IF next < Primary + Noise THEN consumed[next] ELSE 0
Result == CASE verdict \in {"none", "delivered", "exhausted"} -> verdict
            [] OTHER -> "aborted"

\* A step that decides nothing is a stutter.
LEMMA NothingDecided ==
  ASSUME UNCHANGED <<accepted, retained, next, consumed>>, Result' = Result
  PROVE  UNCHANGED Ordered!promise
BY DEF Ordered!promise, Used, Result

\* The end of the run, as the promise sees it.
LEMMA ResultIs ==
  /\ verdict \in {"none", "delivered", "exhausted"} => Result = verdict
  /\ verdict \in {"fatal", "internal", "interrupted"} => Result = "aborted"
BY DEF Result

\* A fatal failure or an interruption decides the end and nothing else.
LEMMA AbortsPromise ==
  ASSUME verdict = "none", verdict' \in {"fatal", "internal", "interrupted"},
         UNCHANGED <<accepted, retained, next, consumed>>
  PROVE  Ordered!Next
<1>1. Result = "none"
  BY ResultIs
<1>2. Result' = "aborted"
  BY DEF Result
<1>3. Ordered!Abort
  BY <1>1, <1>2 DEF Ordered!Abort, Result
<1>4. QED
  BY <1>3 DEF Ordered!Next

\* A commit accepts new content that fits, in the order of the slots.
LEMMA CommitAccepts ==
  ASSUME SlotInv, Decisions, NEW o \in Slots, CommitHead(o)
  PROVE  Ordered!Next
<1>1. /\ content[o] \in Contents \ index /\ size[o] \in Sizes
      /\ retained' = retained + size[o] /\ retained' <= MemoryLimit
      /\ accepted' = Append(accepted, content[o])
      /\ o = next /\ next' = next + 1 /\ UNCHANGED verdict
      /\ consumed' = [consumed EXCEPT ![o] = @ + 1]
  BY CommitDecides
<1>2. verdict = "none" /\ o \in Nat /\ next < Primary + Noise /\ Len(accepted) = next
  BY <1>1, HeadPlaced, Bounds DEF CommitHead, Decisions, Total
<1>3. Ordered!ContentsOf(accepted) = index
  BY DEF Decisions, Ordered!ContentsOf
<1>4. Used' = 0
  <2>1. CASE next' < Primary + Noise
    <3>1. next' \in Slots /\ next' # o /\ ~ (next' <= next)
      BY <1>1, <1>2, <2>1, Bounds DEF Total
    <3>2. consumed[next'] \in Nat /\ ~ (consumed[next'] > 0)
      BY <3>1, Bounds DEF SlotInv, BookTypes, Attended, Charged
    <3>3. consumed'[next'] = consumed[next']
      BY <1>1, <3>1 DEF SlotInv, BookTypes
    <3>4. QED
      BY <2>1, <3>2, <3>3 DEF Used
  <2>2. CASE ~ (next' < Primary + Noise)
    BY <2>2 DEF Used
  <2>3. QED
    BY <2>1, <2>2
<1>5. Result = "none" /\ Result' = "none"
  BY <1>1, <1>2 DEF Result
<1>6. Ordered!Accept(content[o], size[o])
  BY <1>1, <1>2, <1>3, <1>4, <1>5 DEF Ordered!Accept, Used, Result
<1>7. QED
  BY <1>1, <1>6 DEF Ordered!Next

\* A rejection uses up one attempt of the current slot, and the last one ends the
\* run.
LEMMA RejectRejects ==
  ASSUME SlotInv, Decisions, NEW o \in Slots, RejectHead(o)
  PROVE  Ordered!Next
<1>1. /\ o = next /\ UNCHANGED <<next, accepted, retained>> /\ verdict = "none"
      /\ consumed' = [consumed EXCEPT ![o] = @ + 1] /\ consumed[o] + 1 <= MaxAttempts
      /\ verdict' = IF consumed[o] + 1 = MaxAttempts THEN "exhausted" ELSE "none"
  BY RejectDecides
<1>2. next < Primary + Noise /\ Len(accepted) = next
  BY <1>1, Bounds DEF Decisions, Total
<1>3. Used = consumed[o] /\ Used' = consumed[o] + 1
  BY <1>1, <1>2 DEF Used, SlotInv, BookTypes
<1>4. Result = "none" /\ Result' = IF consumed[o] + 1 = MaxAttempts THEN "exhausted" ELSE "none"
  BY <1>1 DEF Result
<1>5. Ordered!Reject
  BY <1>1, <1>2, <1>3, <1>4 DEF Ordered!Reject, Used, Result
<1>6. QED
  BY <1>5 DEF Ordered!Next

\* Every step of the controller and of a coordinator is a step of the promise or
\* changes nothing it speaks of.
LEMMA PromiseStep ==
  SlotInv /\ Decisions /\ [Next]_vars => [Ordered!Next]_(Ordered!promise)
<1> SUFFICES ASSUME SlotInv, Decisions, [Next]_vars
             PROVE  Ordered!Next \/ UNCHANGED Ordered!promise
  BY Zenon
<1>1. CASE \E o \in Slots : CommitHead(o)
  BY <1>1, CommitAccepts
<1>2. CASE \E o \in Slots : RejectHead(o)
  BY <1>2, RejectRejects
<1>3. CASE \E o \in Slots : TakeFatal(o) \/ HeadFails(o)
  BY <1>3, FatalReports, AbortsPromise
<1>4. CASE Deliver
  <2>1. UNCHANGED <<accepted, retained, next, consumed>> /\ verdict' = "delivered"
        /\ next = Primary + Noise /\ control = "settling"
    BY <1>4 DEF Deliver, stateVars
  <2>2. verdict = "none" /\ Len(accepted) = Primary + Noise
    BY <2>1 DEF SlotInv, Steered, Decisions
  <2>3. Result = "none" /\ Result' = "delivered" /\ Used' = Used
    BY <2>1, <2>2 DEF Result, Used
  <2>4. Ordered!Complete
    BY <2>1, <2>2, <2>3 DEF Ordered!Complete, Result, Used
  <2>5. QED
    BY <2>4 DEF Ordered!Next
<1>5. CASE WorkflowCancelled
  <2>1. UNCHANGED <<accepted, retained, next, consumed>>
    BY <1>5 DEF WorkflowCancelled, stateVars, reportVars
  <2>2. CASE control \in {"waiting", "launching"}
    <3>1. verdict = "none" /\ verdict' = "interrupted"
      BY <1>5, <2>2 DEF WorkflowCancelled, CancelPhase, SlotInv, Steered
    <3>2. QED
      BY <2>1, <3>1, AbortsPromise
  <2>3. CASE control \notin {"waiting", "launching"}
    <3>1. UNCHANGED verdict
      BY <1>5, <2>3 DEF WorkflowCancelled
    <3>2. QED
      BY <2>1, <3>1, NothingDecided DEF Result
  <2>4. QED
    BY <2>2, <2>3
<1>6. CASE \/ LaunchTail \/ EndPrimary \/ CleanUp \/ Interrupt \/ UNCHANGED vars
           \/ \E o \in Slots : CoordinatorStep(o)
  <2>1. UNCHANGED <<accepted, retained, next, consumed, verdict>>
    BY <1>6, CoordinatorQuiet DEF LaunchTail, EndPrimary, CleanUp, Interrupt, vars, controlVars,
                                  stateVars, reportVars
  <2>2. QED
    BY <2>1, NothingDecided DEF Result
<1>7. QED
  BY <1>1, <1>2, <1>3, <1>4, <1>5, <1>6 DEF Next, ControllerStep, HeadStep

\* Concurrent preparation is invisible: the controller delivers what a controller
\* would that prepares nothing ahead, in order, once each, within the budgets, and
\* ends for the same reason.
THEOREM DeliversInOrderCorrect == Spec => DeliversInOrder
<1>1. Init => Ordered!Init
  <2> SUFFICES ASSUME Init PROVE Ordered!Init
    OBVIOUS
  <2>1. Result = "none" /\ Used = 0
    BY Bounds DEF Init, Result, Used, Total
  <2>2. QED
    BY <2>1 DEF Init, Ordered!Init, Result, Used
<1>2. QED
  BY <1>1, PromiseStep, SlotInvCorrect, DecisionsCorrect, PTL DEF Spec, DeliversInOrder, Ordered!Spec
================================================================================
