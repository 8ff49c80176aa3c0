------------------------------- MODULE Annotate -------------------------------
(***************************************************************************)
(* Annotation of a batch (labelkit/operators/annotate.py): each active     *)
(* envelope by one answer or by the vote of several, then the frames of    *)
(* its sequence, once for all siblings of a record.                        *)
(***************************************************************************)
EXTENDS Generate

AnnotateOK(p) ==
  /\ p.annotate \in BOOLEAN
  /\ p.annotate_sc \in Nat \ {1, 2}          \* annotate.self_consistency
  /\ \A c \in p.combinations : c = [f \in 1 .. p.voted |-> c[f]]
  /\ p.annotate_failures \subseteq CallErrors
  /\ p.frame_annotate \in BOOLEAN /\ p.frame_failures \subseteq CallErrors
  /\ p.frame_off \subseteq Nat \union {None}  \* frame classes whose view is off

AnnotateSamples == IF project.annotate_sc = 0 THEN 1 ELSE project.annotate_sc

(* _modal_combination: the value most samples have in each voted field, if *)
(* every field has one.                                                    *)
ModalCombination(samples) ==
  LET votes(f, v) == Cardinality({k \in DOMAIN samples : samples[k][f] = v})
      winners(f) == {v \in {samples[k][f] : k \in DOMAIN samples} :
                       \A w \in {samples[k][f] : k \in DOMAIN samples} : votes(f, w) <= votes(f, v)}
  IN IF \A f \in 1 .. project.voted : Cardinality(winners(f)) = 1
     THEN [f \in 1 .. project.voted |-> CHOOSE v \in winners(f) : TRUE]
     ELSE None

(* _majority_vote: the first sample with the modal combination; none has   *)
(* it, or there is none: the first of all.                                 *)
MajorityVote(samples) ==
  LET target == ModalCombination(samples)
      like == {k \in DOMAIN samples : samples[k] = target}
  IN IF like = {} THEN 1 ELSE Min(like)

(* _annotation_from_samples, and _classify_failure for what went wrong.    *)
Annotated(e, got) ==
  LET hard == HardErrors(got)
      valid == Answers(got)
  IN IF hard # <<>> THEN Fail(e, hard[1].failed)
     ELSE IF valid = <<>> THEN Fail(e, "schema_violation")
     ELSE [e EXCEPT !.annotation = [chosen |-> valid[MajorityVote(valid)], of |-> valid,
                                    version |-> 0]]

\* _sequence_wave.
AnnotateWave ==
  /\ stage = "annotate"
  /\ IF ~project.annotate THEN UNCHANGED batch
     ELSE \E got \in [Active -> [1 .. AnnotateSamples ->
                        Got(project.combinations, project.annotate_failures)]] :
            batch' = [i \in DOMAIN batch |->
                        IF i \in Active THEN Annotated(batch[i], got[i]) ELSE batch[i]]
  /\ stage' = "frame_notes"
  /\ UNCHANGED <<project, products, leaves, tally, ratedVars, vars>>

-----------------------------------------------------------------------------
\* What an envelope shows of the frame annotations of its record.
Notes(e) == IF e.shared \/ IsAnchor(e) THEN products[e.record].notes ELSE None

FrameLabelOf(r, f) == IF products[r].labels = None THEN None ELSE products[r].labels[f]

\* AnnotateStage._frame_gate.
NotesGate == {i \in Active :
  /\ project.frame_annotate /\ IsSequence(batch[i].record) /\ IsAnchor(batch[i])
  /\ batch[i].record \notin project.degraded}

(* _frame_plans and _settle_frame: a frame whose class is off leaves no    *)
(* key, a frame that failed leaves None; what is there already stays.      *)
FrameNotesWave ==
  /\ stage = "frame_notes"
  /\ \E failing \in SUBSET {x \in NotesGate \X (1 .. Longest) :
                              project.frame_failures # {} /\ x[2] <= Len(batch[x[1]].members)} :
       products' = [r \in DOMAIN products |->
         LET mine == {i \in NotesGate : batch[i].record = r}
         IN IF mine = {} THEN products[r]
            ELSE LET i == CHOOSE i \in mine : TRUE
                     before == IF products[r].notes = None THEN <<>> ELSE products[r].notes
                     wanted == {f \in Range(batch[i].members) : FrameLabelOf(r, f) \notin project.frame_off}
                 IN [products[r] EXCEPT !.notes =
                      [f \in DOMAIN before \union wanted |->
                        IF f \in DOMAIN before THEN before[f]
                        ELSE IF \E k \in DOMAIN batch[i].members :
                                  batch[i].members[k] = f /\ <<i, k>> \in failing
                             THEN None ELSE "annotated"]]]
  /\ stage' = "verify"
  /\ UNCHANGED <<project, batch, leaves, tally, ratedVars, vars>>
=============================================================================
