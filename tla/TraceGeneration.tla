---------------------------- MODULE TraceGeneration ----------------------------
(***************************************************************************)
(* One attempt at a slot of a planned run: the seed of the scenario, the   *)
(* baseline, event by event, and its variants side by side                 *)
(* (operators/generation/scenario.py), the execution of each transition    *)
(* (state.py), the text of each event (render.py) and the evaluation of    *)
(* what came about (evaluate.py); and one attempt at a noise slot.         *)
(*                                                                         *)
(* Caller 0 generates the baseline (or the only branch of an instruction), *)
(* caller c the c-th variant of the set.  The state that a transition      *)
(* leaves is a mark.  The code between two calls of the model is one step. *)
(***************************************************************************)
EXTENDS SequencePlan, SchemaEngine

CONSTANTS
  Generated,  \* the programs whose first slot is generated
  Answers,    \* what the model may answer: [text, wrong]
  Marks,      \* the states, as the hook and the outcomes tell them apart
  Hook,       \* the state hook: [variant name -> [mark -> "ok", "objects", "invalid" or "raises"]]
  Outcomes,   \* the outcome schemas: [variant name -> marks]; "none" allows all
  Errors      \* what LLMClient.complete may raise

ASSUME CallersAssumption == Callers = 0..VariantsCap

VARIABLES
  attempt,  \* where the attempt is, and what it was rejected for
  branch    \* [doing, drafts, mark, error] of each caller; asked counts its calls

NoAttempt == [phase |-> "none", kind |-> "none"]
Calls == {"seeding", "planning", "rendering", "reviewing"}
Idle == [doing |-> "idle", drafts |-> <<>>, mark |-> 0, error |-> "none",
         asked |-> [k \in Calls |-> 0]]
Untouched == [c \in Callers |-> Idle]
Silent == [c \in Callers |-> NoCall]

Slot == Slots(plan.program)[1]
Source == plan.program.sets[Slot[1]]
HasPositive == Declared(plan.program) /\ Positive(Source) # {}
Variants == IF Declared(plan.program) THEN DOMAIN Source.variants \ Positive(Source) ELSE {}

\* What the hook is called with, while an event is planned and when it is replayed.
PlanName(c) == IF c = 0 THEN "none" ELSE Source.variants[c].kind
ReviewName(c) == IF c = 0 /\ HasPositive THEN "positive" ELSE PlanName(c)
Allowed(c) == IF Declared(plan.program) THEN Outcomes[ReviewName(c)] ELSE Marks

\* The branch that was planned; the baseline is that of the positive variant, if there is one.
BranchOf(c) ==
  LET variant == IF c = 0 /\ HasPositive THEN Min(Positive(Source)) ELSE c
  IN IF c = 0 /\ Declared(plan.program) /\ ~HasPositive
     THEN Baseline(plan.program, Slot, Base(plan.program, Slot))
     ELSE plan.branches[CHOOSE i \in DOMAIN plan.branches :
                          plan.branches[i].slot = Slot /\ plan.branches[i].variant = variant]

\* _protected_count: how much of the baseline a variant takes over.
ProtectedCount(c) ==
  IF c = 0 THEN 0 ELSE Divergence(Source.variants[c]) - 1

-------------------------------------------------------------------------------
(* execute_event at the n-th event of a branch: the hook, then, at the     *)
(* last event, the outcome of the variant.                                 *)
Transition(c, n, mark) ==
  LET said == Hook[PlanName(c)][mark]
  IN CASE said = "raises" -> "exception"
       [] said = "invalid" -> "invalid"
       [] said = "objects" -> "violates"
       [] OTHER -> IF n = Len(BranchOf(c).roles) /\ mark \notin Allowed(c) THEN "violates" ELSE "fits"

\* evaluate_state: every transition is replayed under the name of the variant.
StatePasses(c, drafts) ==
  /\ \A i \in DOMAIN drafts : Hook[ReviewName(c)][drafts[i].mark] = "ok"
  /\ drafts[Len(drafts)].mark \in Allowed(c)
  /\ SubSeq(drafts, 1, ProtectedCount(c)) = SubSeq(branch[0].drafts, 1, ProtectedCount(c))

\* _require_expected: the trace shows the violation of its variant and no other.
ShowsExpected(c) ==
  Declared(plan.program) =>
    Evaluated(plan.program, BranchOf(c), 0) = IF c = 0 THEN {} ELSE Expected(Source.variants[c])

-------------------------------------------------------------------------------
Asks(c, form) == call' = [call EXCEPT ![c] = Request(form, FALSE, TRUE)]
Busy(b, doing) == [b EXCEPT !.doing = doing, !.asked[doing] = @ + 1]
Leaves(c, doing, error) ==
  /\ branch' = [branch EXCEPT ![c].doing = doing, ![c].error = error, ![c].mark = 0]
  /\ call' = [call EXCEPT ![c] = NoCall]

\* _generate_fresh_branch and _generate_variant after an event: the next one, or the evaluation.
GoesOn(c, drafts) ==
  LET now == [branch[c] EXCEPT !.drafts = drafts, !.mark = 0]
  IN IF Len(drafts) < Len(BranchOf(c).roles)
     THEN /\ branch' = [branch EXCEPT ![c] = Busy(now, "planning")]
          /\ Asks(c, "post")
     ELSE IF StatePasses(c, drafts)
     THEN /\ branch' = [branch EXCEPT ![c] = Busy(now, "reviewing")]
          /\ Asks(c, "validated")
     ELSE /\ branch' = [branch EXCEPT ![c] =
               [now EXCEPT !.doing = "failed", !.error = "state_evaluation"]]
          /\ call' = [call EXCEPT ![c] = NoCall]

\* generate_slot_traces: a catalog holds the seed, or the model is asked for it.
BeginAttempt ==
  /\ plan.phase = "planned" /\ plan.program \in Generated /\ attempt = NoAttempt
  /\ attempt' = [attempt EXCEPT !.phase = "baseline"]
  /\ IF plan.program.catalog # Absence
     THEN GoesOn(0, <<>>) \/ Leaves(0, "failed", "scenario_schema")
     ELSE Asks(0, "validated") /\ branch' = [branch EXCEPT ![0] = Busy(@, "seeding")]
  /\ UNCHANGED <<plan, stats>>

BeginNoise ==
  /\ plan.phase = "planned" /\ plan.program \in Generated /\ attempt = NoAttempt
  /\ plan.noise # <<>>
  /\ attempt' = [attempt EXCEPT !.phase = "noise"]
  /\ Asks(0, "finalized") /\ branch' = [branch EXCEPT ![0] = Busy(@, "rendering")]
  /\ UNCHANGED <<plan, stats>>

\* The faults of an answer to a planning call are found by executing it.
Faults(c, answer, mark) ==
  IF branch[c].doing = "planning" /\ answer.wrong = {}
  THEN {Transition(c, Len(branch[c].drafts) + 1, mark)} ELSE answer.wrong

CallStep(c) ==
  /\ \/ \E answer \in Answers, mark \in IF branch[c].doing = "planning" THEN Marks ELSE {0} :
          Answered(c, [text |-> answer.text, wrong |-> Faults(c, answer, mark), mark |-> mark])
     \/ RepairTooLong(c) \/ Overflows(c)
     \/ \E error \in Errors : Raises(c, error)
  /\ UNCHANGED <<plan, attempt, branch>>

Answer(c, doing) == branch[c].doing = doing /\ call[c].end = "answered"

Seeded ==
  /\ Answer(0, "seeding")
  /\ GoesOn(0, <<>>) \/ Leaves(0, "failed", "scenario_schema")
  /\ UNCHANGED <<plan, attempt, stats>>

EventPlanned(c) ==
  /\ Answer(c, "planning")
  /\ branch' = [branch EXCEPT ![c] = [Busy(@, "rendering") EXCEPT !.mark = call[c].mark]]
  /\ Asks(c, "finalized")
  /\ UNCHANGED <<plan, attempt, stats>>

\* render_event and render_noise; the payload may exceed rendered_payload_bytes.
Rendered(c) ==
  LET noise == attempt.phase = "noise"
      n == Len(branch[c].drafts) + 1
      draft == [role |-> BranchOf(c).roles[n], logical |-> BranchOf(c).times[n], mark |-> branch[c].mark]
  IN /\ Answer(c, "rendering")
     /\ \/ Leaves(c, "failed", IF noise THEN "noise_schema" ELSE "frame_schema")
        \/ noise /\ Asks(c, "validated") /\ branch' = [branch EXCEPT ![c] = Busy(@, "reviewing")]
        \/ ~noise /\ GoesOn(c, Append(branch[c].drafts, draft))
     /\ UNCHANGED <<plan, attempt, stats>>

\* evaluate_semantics and evaluate_noise: the verdict may be negative, or contradict itself.
Reviewed(c) ==
  /\ Answer(c, "reviewing")
  /\ \/ Leaves(c, "failed", IF attempt.phase = "noise" THEN "noise_semantic" ELSE "semantic_evaluation")
     \/ IF attempt.phase = "noise" \/ ShowsExpected(c) THEN Leaves(c, "traced", "none")
        ELSE Leaves(c, "failed", "pattern_evaluation")
  /\ UNCHANGED <<plan, attempt, stats>>

RejectionOf(doing, end) ==
  CASE doing = "seeding" -> "scenario_schema"
    [] doing = "planning" -> CASE end = "rejected" -> "event_schema"
                               [] end = "violations" -> "state_transition"
                               [] OTHER -> end
    [] doing = "rendering" -> IF attempt.phase = "noise" THEN "noise_schema" ELSE "frame_schema"
    [] doing = "reviewing" -> IF attempt.phase = "noise" THEN "noise_semantic" ELSE "semantic_evaluation"

CallFails(c) ==
  LET end == call[c].end
  IN /\ branch[c].doing \in Calls
     /\ end \notin {"asked", "answered"}
     /\ CASE end = "cancelled" -> Leaves(c, "cancelled", end)
          [] end \in {"fatal", "contract"} -> Leaves(c, "fatal", end)
          [] end \in {"retryable", "truncated", "context_overflow"} -> Leaves(c, "failed", end)
          [] OTHER -> Leaves(c, "failed", RejectionOf(branch[c].doing, end))
     /\ UNCHANGED <<plan, attempt, stats>>

-------------------------------------------------------------------------------
(* A variant takes over the baseline up to its divergence, executing every *)
(* event again under its own name; an objection there is not a rejection   *)
(* of the attempt but ends the run.                                        *)
BeginVariant(c) ==
  LET b == BranchOf(c)
      base == branch[0].drafts
      protected == 1..ProtectedCount(c)
      Objects(n) == n <= Len(b.roles) /\ Transition(c, n, base[n].mark) # "fits"
      Differs(n) == <<b.roles[n], b.times[n]>> # <<base[n].role, base[n].logical>>
      faulty == {n \in protected : Objects(n) \/ Differs(n)}
  IN /\ branch[c].doing = "waiting"
     /\ IF faulty = {} THEN GoesOn(c, SubSeq(base, 1, ProtectedCount(c)))
        ELSE IF Objects(Min(faulty)) THEN Leaves(c, "fatal", "state_violation")
        ELSE Leaves(c, "failed", "coupling_evaluation")
     /\ UNCHANGED <<plan, attempt, stats>>

Over == {"traced", "failed", "fatal", "cancelled", "lost"}

\* The task group cancels what is left when one of its tasks raised.
AbortVariants ==
  LET left == {c \in Variants : branch[c].doing \notin Over}
  IN /\ attempt.phase = "variants" /\ left # {}
     /\ \E c \in Variants : branch[c].doing \in {"fatal", "cancelled"}
     /\ branch' = [c \in Callers |-> IF c \in left THEN [branch[c] EXCEPT !.doing = "lost", !.mark = 0]
                                     ELSE branch[c]]
     /\ call' = [c \in Callers |-> IF c \in left THEN NoCall ELSE call[c]]
     /\ UNCHANGED <<plan, attempt, stats>>

\* Mutant of WorstOf: an error of an earlier variant hides a fatal one.
WorstOfFirst(S) == branch[Min({c \in S : branch[c].doing # "traced"})].doing

\* _unwrap_variant_group: a cancellation, then a fatal error, then the first failure.
WorstOf(S) ==
  LET seen == {branch[c].doing : c \in S}
  IN CASE "cancelled" \in seen -> "cancelled"
       [] "fatal" \in seen -> "fatal"
       [] OTHER -> "failed"

Join ==
  LET members == IF attempt.phase = "variants" THEN Variants ELSE {0}
      traced == \A c \in members : branch[c].doing = "traced"
  IN /\ attempt.phase \in {"baseline", "variants", "noise"}
     /\ \A c \in members : branch[c].doing \in Over
     /\ \/ /\ traced /\ attempt.phase = "baseline" /\ Variants # {}
           /\ attempt' = [phase |-> "variants", kind |-> "none"]
           /\ branch' = [c \in Callers |-> IF c \in Variants THEN [Idle EXCEPT !.doing = "waiting"]
                                           ELSE branch[c]]
           /\ UNCHANGED call
        \/ /\ traced /\ attempt.phase = "noise"
           /\ attempt' = [phase |-> "accepted", kind |-> "noise"]
           /\ UNCHANGED <<branch, call>>
        \/ /\ traced /\ attempt.phase # "noise" /\ (attempt.phase = "variants" \/ Variants = {})
           /\ attempt' = [phase |-> "annotating", kind |-> "none"]
           /\ call' = [call EXCEPT ![0] = Request("finalized", TRUE, FALSE)]
           /\ UNCHANGED branch
        \/ /\ ~traced
           /\ LET worst == WorstOf(members)
                  first == Min({c \in members : branch[c].doing = worst})
              IN attempt' = IF worst = "failed"
                            THEN [phase |-> "rejected", kind |-> branch[first].error]
                            ELSE [phase |-> worst, kind |-> "none"]
           /\ UNCHANGED <<branch, call>>
     /\ UNCHANGED <<plan, stats>>

\* The sequences are annotated; one of them stands for all.
Annotated ==
  /\ attempt.phase = "annotating" /\ call[0].end # "asked"
  /\ attempt' = CASE call[0].end = "answered" -> [attempt EXCEPT !.phase = "accepted"]
                  [] call[0].end \in {"contract", "fatal"} -> [attempt EXCEPT !.phase = "fatal"]
                  [] call[0].end = "cancelled" -> [attempt EXCEPT !.phase = "cancelled"]
                  [] OTHER -> [phase |-> "rejected", kind |-> "annotate"]
  /\ UNCHANGED <<plan, branch, call, stats>>

\* _sequence_generation_calls: the calls of a slot as a rehearsal announces them.
Estimate ==
  LET baseline == Len(BranchOf(0).roles)
      fresh == baseline + MapThenSumSet(LAMBDA c : Len(BranchOf(c).roles) - ProtectedCount(c), Variants)
  IN [seeding |-> IF plan.program.catalog # Absence THEN 0 ELSE 1,
      planning |-> fresh, rendering |-> fresh,
      reviewing |-> IF Declared(plan.program)
                    THEN Len(Source.variants) + IF HasPositive THEN 0 ELSE 1 ELSE 1]

(* What an attempt hands over was earned.  When it is over nothing of it   *)
(* still runs or asks.  Accepted, every branch is complete in the planned  *)
(* order and shows exactly its own violation, agrees with the baseline in  *)
(* every event before its divergence, passed the hook under both names and *)
(* meets its outcome, and the bucket of its annotation tells how many      *)
(* answers that took; the calls made are those a rehearsal announced.  A   *)
(* rejection names the first failure in the order declared and never hides *)
(* a fatal error or a cancellation of a sibling.                           *)
TracesEarned ==
  attempt.phase \in {"accepted", "rejected", "fatal", "cancelled"} =>
    LET members == {c \in Callers : branch[c].doing # "idle"}
        Drafts(c) == branch[c].drafts
        Fate(c) == branch[c].doing
    IN /\ \A c \in members : Fate(c) \in Over /\ (c # 0 => call[c] = NoCall)
       /\ call[0].end # "asked"
       /\ attempt.phase = "accepted" /\ attempt.kind # "noise" =>
            /\ members = Variants \cup {0}
            /\ \A c \in members :
                 /\ Fate(c) = "traced"
                 /\ [i \in DOMAIN Drafts(c) |-> Drafts(c)[i].role] = BranchOf(c).roles
                 /\ \A i \in 1..ProtectedCount(c) : Drafts(c)[i] = Drafts(0)[i]
                 /\ \A i \in DOMAIN Drafts(c), name \in {PlanName(c), ReviewName(c)} :
                      Hook[name][Drafts(c)[i].mark] = "ok"
                 /\ Drafts(c)[Len(Drafts(c))].mark \in Allowed(c)
                 /\ Declared(plan.program) => Evaluated(plan.program, BranchOf(c), 0) =
                      IF c = 0 THEN {} ELSE Expected(Source.variants[c])
            /\ [k \in Calls |-> MapThenSumSet(LAMBDA c : branch[c].asked[k], members)] = Estimate
            /\ HandedOut(call[0])
            /\ \E s \in Buckets : /\ stats = [b \in Buckets |-> IF b = s THEN 1 ELSE 0]
                                /\ s \in {"l3_1", "l3_2"} <=> Len(call[0].trail) > 1
       /\ attempt.phase = "rejected" =>
            /\ \A c \in members : Fate(c) \notin {"fatal", "cancelled", "lost"}
            /\ attempt.kind # "annotate" =>
                 \E c \in members : /\ branch[c].error = attempt.kind
                                    /\ \A d \in members : d < c => Fate(d) = "traced"
       /\ attempt.phase = "fatal" => \A c \in members : Fate(c) # "cancelled"

TraceStep ==
  \/ BeginAttempt \/ BeginNoise \/ Seeded \/ AbortVariants \/ Join \/ Annotated
  \/ \E c \in Callers : \/ CallStep(c) \/ EventPlanned(c) \/ Rendered(c)
                        \/ Reviewed(c) \/ CallFails(c) \/ BeginVariant(c)

===============================================================================
