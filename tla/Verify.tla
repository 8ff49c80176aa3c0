-------------------------------- MODULE Verify --------------------------------
(***************************************************************************)
(* Verification of single records (labelkit/operators/verify.py): waves of *)
(* reviews by one judge or a panel, each followed by a wave of repairs of  *)
(* the annotations that were rejected and may still be repaired.           *)
(***************************************************************************)
EXTENDS Annotate

VARIABLES
  turn,    \* the wave whose turn it is
  pending, \* indices of the envelopes under review or repair
  reviews, \* index -> the ledger of its review
  seen     \* history: index -> what the last review of it saw and said

verifyVars == <<turn, pending, reviews, seen>>

VerifyOK(p) ==
  /\ p.verify \in BOOLEAN /\ p.policy \in {"drop", "repair"}
  /\ p.repairs \in Nat                        \* verify.max_repair_rounds
  /\ p.panel \in Nat                          \* verify.judges, 0 if none is listed
  /\ p.votes \subseteq {"pass", "fail", "error"}
  /\ p.repair_fails \in BOOLEAN
  /\ p.stream \in BOOLEAN                     \* segment.sequence_resolved

Judging == 1 .. Max({1, project.panel})

(* _fold_verdict_round and majority_verdict: a judge of a panel whose call *)
(* fails has voted against; a judge alone fails the record with it.        *)
PanelVerdict(votes) ==
  IF project.panel = 0 THEN votes[1]
  ELSE IF 2 * Cardinality({j \in DOMAIN votes : votes[j] # "pass"}) > Cardinality(DOMAIN votes)
       THEN "fail" ELSE "pass"

Eligible == {i \in Active : batch[i].annotation # None}
Streamed == {i \in Eligible : project.stream /\ IsSequence(batch[i].record)}

NewReview(i) == [rounds |-> 0, verdict |-> None, annotation |-> batch[i].annotation,
                 working |-> batch[i].members, surgical |-> FALSE, relabel |-> FALSE,
                 claims |-> <<>>]

\* What a reviewer is shown of an envelope.
Evidence(e) == [annotation |-> e.annotation, members |-> e.members, steps |-> e.steps, seams |-> e.seams]

VerifyBegin ==
  /\ stage = "verify" /\ turn = "idle"
  /\ IF project.verify
     THEN /\ turn' = "review" /\ pending' = Eligible \ Streamed
          /\ reviews' = [i \in Eligible |-> NewReview(i)]
          /\ UNCHANGED stage
     ELSE stage' = "done" /\ UNCHANGED <<turn, pending, reviews>>
  /\ UNCHANGED <<project, classifyVars, ratedVars, seen, vars>>

\* _reduce_classic_round and _route_round: who is repaired once more.
Repairable(review) ==
  review.verdict = "fail" /\ project.policy = "repair" /\ review.rounds - 1 < project.repairs

\* _finalize_classic and _finalize_episode.
Finalized(e, review) ==
  [e EXCEPT !.annotation = review.annotation,
            !.verification = [verdict |-> review.verdict, rounds |-> review.rounds],
            !.status = IF review.verdict = "fail" THEN "dropped_verify" ELSE @]

\* _classic_review_wave and _reduce_classic_round.
ReviewWave ==
  /\ turn = "review" /\ pending # {}
  /\ \E votes \in [pending -> [Judging -> project.votes]] :
       LET verdict(i) == PanelVerdict(votes[i])
           review(i) == [reviews[i] EXCEPT !.rounds = @ + 1, !.verdict = verdict(i)]
           judged == {i \in pending : verdict(i) # "error"}
           repairs == {i \in judged : Repairable(review(i))}
       IN /\ reviews' = [i \in DOMAIN reviews |-> IF i \in judged THEN review(i) ELSE reviews[i]]
          /\ seen' = [i \in DOMAIN seen \union judged |->
               IF i \in judged
               THEN [evidence |-> Evidence([batch[i] EXCEPT !.annotation = reviews[i].annotation]),
                     verdict |-> verdict(i)]
               ELSE seen[i]]
          /\ batch' = [i \in DOMAIN batch |->
               IF i \in pending \ judged THEN Fail(batch[i], "verify")
               ELSE IF i \in judged \ repairs THEN Finalized(batch[i], review(i))
               ELSE batch[i]]
          /\ pending' = repairs
  /\ turn' = "repair"
  /\ UNCHANGED <<project, stage, products, leaves, tally, ratedVars, vars>>

\* _classic_repair_wave: the old annotation stays if the new one fails.
RepairWave ==
  /\ turn = "repair"
  /\ \E failing \in SUBSET {i \in pending : project.repair_fails} :
       /\ reviews' = [i \in DOMAIN reviews |->
            IF i \in pending \ failing THEN [reviews[i] EXCEPT !.annotation.version = @ + 1]
            ELSE reviews[i]]
       /\ batch' = [i \in DOMAIN batch |-> IF i \in failing THEN Fail(batch[i], "repair") ELSE batch[i]]
       /\ pending' = pending \ failing
  /\ turn' = "review"
  /\ UNCHANGED <<project, stage, products, leaves, tally, seen, ratedVars, vars>>
=============================================================================
