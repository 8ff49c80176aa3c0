------------------------------- MODULE Classify -------------------------------
(***************************************************************************)
(* Classification of a batch (labelkit/operators/classify.py): labels by   *)
(* one answer or by the vote of several, one label per frame of a          *)
(* sequence, and the sibling envelopes of a record with several labels.    *)
(*                                                                         *)
(* The calls of a wave run concurrently but only read plans frozen before  *)
(* and are reduced in declaration order after the last has ended, so one   *)
(* action takes all their outcomes at once.                                *)
(***************************************************************************)
EXTENDS Dedup, Functions, FiniteSetsExt, Ordering

CONSTANT
  Projects  \* what the later stages are configured to do, see ProjectOK

VARIABLES
  project,
  stage,    \* the stage whose turn it is, "dedup" before the others
  batch,    \* the envelopes of the batch, siblings at the end
  products, \* record -> [labels, notes] of its frames: position -> value, or None
  leaves,   \* history: record -> frame spans that were answered or given up
  tally     \* class -> dataset counter classify.classes.<class>

classifyVars == <<batch, products, leaves, tally>>

\* How a call can fail.  An endpoint that rejects a request as too long is
\* "overflow"; "violation" is an answer no repair could bring to its schema.
CallErrors == {"violation", "overflow", "truncated", "retryable", "fatal", "other"}
Got(values, failures) == {[ok |-> v] : v \in values} \union {[failed |-> k] : k \in failures}
IsOk(o) == "ok" \in DOMAIN o
Answers(got) ==
  LET ok == Picked(got, {k \in DOMAIN got : IsOk(got[k])}) IN [k \in DOMAIN ok |-> ok[k].ok]
HardErrors(got) ==
  Picked(got, {k \in DOMAIN got : ~IsOk(got[k]) /\ got[k] # [failed |-> "violation"]})

\* Classifications by the labels of a project.
Labelled(classes) ==
  [label : Range(classes), labels : Seq(Range(classes)), source : {"llm", "fallback", "inherited"}]

ClassifyOK(p) ==
  /\ p.classes \in Seq(STRING) /\ IsInjective(p.classes) /\ Len(p.classes) > 0
  /\ None \notin Labelled(p.classes) \union Range(p.classes)
  /\ p.fallback \in Range(p.classes) /\ p.max_labels \in 1 .. Len(p.classes)
  /\ p.max_labels = 1 \/ p.max_labels >= 2   \* single, or multi
  /\ p.samples \in Nat                        \* classify.self_consistency
  /\ p.classify \in BOOLEAN /\ p.classify_on_error \in {"fail", "fallback"}
  /\ p.failures \subseteq CallErrors
  /\ p.members \in Seq(Seq(Nat))                \* frames of each record, <<>> if plain:
  /\ \A r \in DOMAIN p.members :                \* ascending positions in the session
       \A j \in 2 .. Len(p.members[r]) : p.members[r][j - 1] < p.members[r][j]
  /\ p.degraded \subseteq DOMAIN p.members    \* segmentation fell back
  /\ p.oversized \subseteq DOMAIN p.members   \* fit no prompt at all
  /\ p.frame_classify \in BOOLEAN /\ p.frame_room \in Nat

MaxDegradeLevels == 2  \* _MAX_FRAME_DEGRADE_LEVELS

Envelope(r) == [record |-> r, status |-> "active", class |-> None, shared |-> FALSE,
                annotation |-> None, score |-> None, verification |-> None, error |-> None,
                members |-> project.members[r], steps |-> None, seams |-> <<>>]
Fail(e, kind) == [e EXCEPT !.status = "failed", !.error = kind]
Active == {i \in DOMAIN batch : batch[i].status = "active"}
IsSequence(r) == project.members[r] # <<>>
IsAnchor(e) == e.class = None \/ e.class.label = e.class.labels[1]

-----------------------------------------------------------------------------
Sampled == IF project.samples = 0 THEN 1 ELSE project.samples

\* Some of the classes, in the order in which they are declared.
Declared(hit) ==
  Picked(project.classes, {n \in DOMAIN project.classes : project.classes[n] \in hit})

\* _normalize_labels: declaration order, and the fallback class only alone.
Normalized(raw) ==
  Declared(IF Cardinality(raw) > 1 THEN raw \ {project.fallback} ELSE raw)

\* Mutant of Vote: as many votes as not are enough.
VoteEven(answers) ==
  LET votes(c) == Cardinality({k \in DOMAIN answers : c \in Range(answers[k])})
      kept == Declared({c \in Range(project.classes) : 2 * votes(c) >= Sampled})
  IN IF kept = <<>> THEN <<project.fallback>> ELSE kept

\* _vote_labels: more than half of the samples asked for, lost ones included.
Vote(answers) ==
  LET votes(c) == Cardinality({k \in DOMAIN answers : c \in Range(answers[k])})
      kept == Declared({c \in Range(project.classes) : 2 * votes(c) > Sampled})
  IN IF kept = <<>> THEN <<project.fallback>> ELSE kept

LabelledBy(labels, source) == [label |-> labels[1], labels |-> labels, source |-> source]

(* _reduce_classification, then _dispose_failure: the first error that is  *)
(* not a violation decides; violations only count when nothing is valid.   *)
Classified(e, got) ==
  LET hard == HardErrors(got)
      valid == Answers(got)
  IN IF hard # <<>> THEN Fail(e, hard[1].failed)
     ELSE IF valid # <<>> THEN
       LET sets == [k \in DOMAIN valid |-> Normalized(valid[k])]
       IN [e EXCEPT !.class = LabelledBy(IF project.samples = 0 THEN sets[1] ELSE Vote(sets), "llm")]
     ELSE IF project.classify_on_error = "fail" THEN Fail(e, "classification_invalid")
     ELSE [e EXCEPT !.class = LabelledBy(<<project.fallback>>, "fallback")]

Unclassified == {i \in Active : project.classify /\ batch[i].class = None}
RawHits == {h \in SUBSET Range(project.classes) : Cardinality(h) \in 1 .. project.max_labels}

\* A record whose prompt fits nowhere fails in planning, without a call.
ClassifyWave ==
  /\ stage = "classify"
  /\ \E got \in [{i \in Unclassified : batch[i].record \notin project.oversized} -> [1 .. Sampled -> Got(RawHits, project.failures)]] :
       /\ batch' = [i \in DOMAIN batch |->
            IF i \notin Unclassified THEN batch[i]
            ELSE IF batch[i].record \in project.oversized THEN Fail(batch[i], "overflow")
            ELSE Classified(batch[i], got[i])]
  /\ tally' = [c \in Range(project.classes) |-> tally[c] +
        Cardinality({i \in Unclassified : batch'[i].class # None /\ c \in Range(batch'[i].class.labels)})]
  /\ stage' = "frames"
  /\ UNCHANGED <<project, products, leaves, vars>>

-----------------------------------------------------------------------------
(* _frame_windows: the windows of pack_windows overlap in one frame, which *)
(* every window but the first drops.  A session attempt has one window for *)
(* a sequence, whatever its length (_plan_frame_episode): a large room.    *)
FrameWindows(n) ==
  LET w == Max({project.frame_room, 2})
      from[start \in 0 .. n] ==
        LET end == Min({start + w, n})
        IN <<<<IF start = 0 THEN 0 ELSE start + 1, end>>>>
             \o (IF end = n THEN <<>> ELSE from[end - 1])
  IN from[0]

(* _judge_frames_degrading: a span longer than the endpoint takes (cap) is *)
(* halved; the spans that were answered, or none if a half failed.         *)
Judged(span, cap) ==
  LET try[s \in Nat \X Nat, level \in 0 .. MaxDegradeLevels] ==
        LET mid == (s[1] + s[2]) \div 2
        IN IF s[2] - s[1] <= cap THEN {s}
           ELSE IF s[2] - s[1] < 2 \/ level = MaxDegradeLevels THEN {}
           ELSE LET left == try[<<s[1], mid>>, level + 1]
                    right == try[<<mid, s[2]>>, level + 1]
                IN IF left = {} \/ right = {} THEN {} ELSE left \union right
  IN try[span, 0]

FrameGate == {i \in Active :
  /\ project.frame_classify /\ IsSequence(batch[i].record) /\ IsAnchor(batch[i])
  /\ products[batch[i].record].labels = None /\ batch[i].record \notin project.degraded}

(* _assemble_frame_results: the label the model gave the frame, which is   *)
(* here called after the frame, or the fallback of frame classification.   *)
FrameLabels(r, spans, short) ==
  LET m == project.members[r]
      answered(k) == \E s \in spans : s[1] < k /\ k <= s[2] /\ ~(short /\ k = s[2])
  IN [f \in Range(m) |-> IF \E k \in DOMAIN m : m[k] = f /\ answered(k) THEN f ELSE None]

\* Mutant of Siblings: they take the frame products as they are now.
SiblingsUnpinned(e) ==
  IF e.class = None THEN <<>>
  ELSE [k \in 1 .. Len(e.class.labels) - 1 |->
         [Envelope(e.record) EXCEPT !.class = [e.class EXCEPT !.label = e.class.labels[k + 1]],
                                    !.seams = e.seams]]

\* Frame annotation is still to come, but its dictionary is shared already.
Pinned(e) ==
  /\ project.frame_annotate /\ e.class # None /\ Len(e.class.labels) >= 2
  /\ IsSequence(e.record) /\ e.record \notin project.degraded

\* _pin_shared_annotations and _fan_out for one envelope.
Siblings(e) ==
  IF e.class = None THEN <<>>
  ELSE [k \in 1 .. Len(e.class.labels) - 1 |->
         [Envelope(e.record) EXCEPT !.class = [e.class EXCEPT !.label = e.class.labels[k + 1]],
                                    !.seams = e.seams, !.shared = Pinned(e)]]

FanOut(items) ==
  LET pinned == [i \in DOMAIN items |-> [items[i] EXCEPT !.shared = @ \/ Pinned(items[i])]]
  IN pinned \o FlattenSeq([i \in DOMAIN items |->
                             IF items[i].status = "active" THEN Siblings(items[i]) ELSE <<>>])

Longest == Max({0} \union {Len(project.members[r]) : r \in DOMAIN project.members})

\* The frame wave; then, without another await, the siblings.
FrameWave ==
  /\ stage = "frames"
  /\ \E caps \in [FrameGate -> [1 .. Len(FrameWindows(Longest)) -> 0 .. Longest]], short \in BOOLEAN :
       LET windows(i) == FrameWindows(Len(project.members[batch[i].record]))
           spans(i) == UNION {Judged(windows(i)[w], caps[i][w]) : w \in DOMAIN windows(i)}
           lost(i) == {windows(i)[w] : w \in {v \in DOMAIN windows(i) :
                                               Judged(windows(i)[v], caps[i][v]) = {}}}
           multi == project.max_labels > 1
       IN /\ batch' = IF multi THEN FanOut(batch) ELSE batch
          /\ products' = [r \in DOMAIN products |->
               [labels |-> IF \E i \in FrameGate : batch[i].record = r
                           THEN LET i == CHOOSE i \in FrameGate : batch[i].record = r
                                IN FrameLabels(r, spans(i), short)
                           ELSE products[r].labels,
                notes |-> IF multi /\ \E i \in DOMAIN batch : batch[i].record = r /\ Pinned(batch[i])
                          THEN <<>> ELSE products[r].notes]]
          /\ leaves' = [r \in DOMAIN leaves |-> leaves[r] \o FlattenSeq([i \in DOMAIN batch |->
               IF i \in FrameGate /\ batch[i].record = r
               THEN SetToSeq(spans(i)) \o SetToSeq(lost(i)) ELSE <<>>])]
  /\ stage' = "extract"
  /\ UNCHANGED <<project, tally, vars>>
=============================================================================
