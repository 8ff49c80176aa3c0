----------------------------- MODULE SchemaEngine -----------------------------
(***************************************************************************)
(* A structured call (common/inference/schema_engine.py): the answer of    *)
(* the model is read, checked layer by layer and, while it is at fault and *)
(* rounds are left, sent back with its violations.  Three forms of call    *)
(* share this: the validated one, the finalized one, whose object code     *)
(* completes before it is checked again, and the post-validated one, whose *)
(* caller executes the object as part of the check.                        *)
(***************************************************************************)
EXTENDS Integers, Sequences, FiniteSets, SequencesExt

CONSTANTS
  Callers,    \* the tasks that call
  MaxRepair,  \* output.max_repair_attempts
  Validated   \* output.validator is set

ASSUME EngineAssumption == MaxRepair \in Nat /\ Validated \in BOOLEAN

VARIABLES
  call,   \* what each task asks the engine, or NoCall
  stats   \* SchemaEngine._stats: the calls that ended in each bucket

engineVars == <<call, stats>>

Buckets == {"l0_or_clean", "l1", "l3_1", "l3_2", "rejected"}
NoCall == [form |-> "none", end |-> "none"]

(* form is "validated", "finalized" or "post"; treated and limited are     *)
(* CallScope's user_treatment and whether it has repair_context_bytes;     *)
(* budget is the number of rounds.  trail is a history:                    *)
(* the text and verdict of every answer so far.  An answer is [text, wrong,*)
(* mark]: clean, damaged or garbage, the layers that object to it, and     *)
(* what a transition in it leads to.                                       *)
Request(form, treated, limited) ==
  [form |-> form, treated |-> treated, limited |-> limited,
   budget |-> IF form = "post" /\ MaxRepair > 2 THEN 2 ELSE MaxRepair,
   trail |-> <<>>, end |-> "asked", mark |-> 0, callback |-> FALSE]

-------------------------------------------------------------------------------
\* The checks of an answer, in order; an answer is wrong for some of them.
Layers(c) ==
  LET hook == IF c.treated /\ Validated THEN <<"callback", "hook">> ELSE <<>>
  IN CASE c.form = "validated" -> <<"schema", "reference">> \o hook
       [] c.form = "finalized" ->
            <<"schema", "reference", "postprocessor", "finalizer", "final">> \o hook
       [] c.form = "post" -> <<"schema", "invalid", "exception", "violates">>

\* _extract_object and the inspections: the first layer that objects.
Verdict(c, answer) ==
  LET objecting == SelectSeq(Layers(c), LAMBDA layer : layer \in answer.wrong)
  IN IF answer.text = "garbage" THEN "garbage"
     ELSE IF objecting = <<>> THEN "sound" ELSE Head(objecting)

\* Violations can be sent back; anything else ends the call.
Repairable == {"garbage", "schema", "reference", "callback", "violates"}

EndOf(verdict) ==
  CASE verdict = "sound" -> "answered"
    [] verdict \in {"finalizer", "final"} -> "contract"
    [] verdict = "postprocessor" -> "postprocessor"
    [] verdict = "hook" -> "hook"
    [] verdict = "invalid" -> "post_validator_invalid"
    [] verdict = "exception" -> "post_validator_exception"

\* Mutant of BucketFor: an answer of a repair counts as clean when it was not damaged.
BucketForText(c) ==
  IF c.trail[Len(c.trail)].text = "damaged" THEN "l1" ELSE "l0_or_clean"

BucketFor(c) ==
  CASE Len(c.trail) = 1 -> IF c.trail[1].text = "damaged" THEN "l1" ELSE "l0_or_clean"
    [] Len(c.trail) = 2 -> "l3_1"
    [] OTHER -> "l3_2"

\* _resolve: only calls that get the treatment of the user's schema are counted.
Resolve(c, bucket) == stats' = IF c.treated THEN [stats EXCEPT ![bucket] = @ + 1] ELSE stats

Finishes(caller, c, end) == call' = [call EXCEPT ![caller] = [c EXCEPT !.end = end]]

\* The rounds are used up, or one could not be sent.
GivesUp(caller, c) ==
  LET last == c.trail[Len(c.trail)].verdict
  IN /\ Finishes(caller, [c EXCEPT !.callback = last = "callback"],
             IF c.form = "post" /\ last = "violates" THEN "violations" ELSE "rejected")
     /\ IF c.form = "post" THEN UNCHANGED stats ELSE Resolve(c, "rejected")

-------------------------------------------------------------------------------
Asked(caller) == call[caller].end = "asked"

(* complete_validated, complete_finalized and complete_post_validated: the *)
(* first answer and every answer to a repair are judged alike.             *)
Answered(caller, answer) ==
  LET verdict == Verdict(call[caller], answer)
      c == [call[caller] EXCEPT !.trail = Append(@, [text |-> answer.text, verdict |-> verdict]),
                                !.mark = IF verdict = "sound" THEN answer.mark ELSE 0]
  IN /\ Asked(caller)
     /\ \/ /\ verdict = "sound"
           /\ Finishes(caller, c, "answered") /\ Resolve(c, BucketFor(c))
        \/ /\ verdict \notin Repairable \cup {"sound"}
           /\ Finishes(caller, c, EndOf(verdict)) /\ UNCHANGED stats
        \/ /\ verdict \in Repairable
           /\ IF Len(c.trail) <= c.budget
              THEN call' = [call EXCEPT ![caller] = c] /\ UNCHANGED stats
              ELSE GivesUp(caller, c)

(* The answer and its violations exceed repair_context_bytes, or the       *)
(* context of the repair profile: the rounds that are left are not tried.  *)
(* (A caller with complete_evidence gets the error instead; none here.)    *)
RepairTooLong(caller) ==
  LET c == call[caller]
  IN /\ Asked(caller) /\ c.trail # <<>> /\ c.limited
     /\ GivesUp(caller, c)

Overflows(caller) ==
  LET c == call[caller]
  IN /\ Asked(caller)
     /\ IF c.trail = <<>>
        THEN Finishes(caller, c, "context_overflow") /\ UNCHANGED stats
        ELSE GivesUp(caller, c)

\* LLMClient.complete raises: the call ends with the error, uncounted.
Raises(caller, error) ==
  /\ Asked(caller)
  /\ Finishes(caller, call[caller], error) /\ UNCHANGED stats

(* What an answer that is handed out went through: nothing objected to it, *)
(* everything before it could be repaired and was answered within the      *)
(* rounds, and the bucket that counts it tells how it was come by.         *)
HandedOut(c) ==
  c.end = "answered" =>
    /\ Len(c.trail) \in 1..(1 + c.budget)
    /\ c.trail[Len(c.trail)].verdict = "sound"
    /\ \A i \in 1..(Len(c.trail) - 1) : c.trail[i].verdict \in Repairable

===============================================================================
