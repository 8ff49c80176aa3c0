------------------------------- MODULE Extract --------------------------------
(***************************************************************************)
(* The steps of a sequence (labelkit/operators/extract.py): one action for *)
(* each two adjacent members, or a placeholder where the sequence was      *)
(* interrupted by frames of another (a seam, operators/stitch.py).         *)
(***************************************************************************)
EXTENDS Classify

ExtractOK(p) ==
  /\ p.stitch \in BOOLEAN /\ p.extract \in BOOLEAN
  /\ p.extract_fails \in BOOLEAN  \* the error of a pair may fail its sequence

Pairs(m) == {<<m[j], m[j + 1]>> : j \in 1 .. Len(m) - 1}

(* compute_seams over the frames each of the others holds (record ->       *)
(* positions): the pairs with foreign frames between, and whose they are.  *)
ComputeSeams(m, holds) ==
  LET by(pair) == {r \in DOMAIN holds :
                     \E p \in holds[r] \ Range(m) : pair[1] < p /\ p < pair[2]}
  IN [pair \in {q \in Pairs(m) : by(q) # {}} |-> by(pair)]

Step(pair) == [pair |-> pair, seam |-> {}]
SeamStep(pair, by) == [pair |-> pair, seam |-> by]

\* _plan_episode_pairs and _finalize_transitions.
StepsOf(m, seams) ==
  [j \in 1 .. Len(m) - 1 |->
    LET pair == <<m[j], m[j + 1]>>
    IN IF pair \in DOMAIN seams THEN SeamStep(pair, seams[pair]) ELSE Step(pair)]

Unextracted == {i \in Active : IsSequence(batch[i].record) /\ batch[i].steps = None}

\* ExtractStage.run: an error in one pair fails the whole sequence.
ExtractWave ==
  /\ stage = "extract"
  /\ \E failing \in SUBSET {i \in Unextracted : project.extract_fails} :
       /\ project.extract \/ failing = {}
       /\ batch' = [i \in DOMAIN batch |->
            IF ~project.extract \/ i \notin Unextracted THEN batch[i]
            ELSE IF i \in failing THEN Fail(batch[i], "extraction_invalid")
            ELSE [batch[i] EXCEPT !.steps = StepsOf(batch[i].members, batch[i].seams)]]
  /\ stage' = "quality"
  /\ UNCHANGED <<project, products, leaves, tally, vars>>
=============================================================================
