----------------------------- MODULE StreamVerify -----------------------------
(***************************************************************************)
(* Verification of the sequences of a session (operators/stream_verify.py  *)
(* and verify_capacity.py).  A reviewer may find frames missing or out of  *)
(* place; then the sequence gives up frames, claims noise back, has steps  *)
(* and frame products made for what is new, is annotated again and judged  *)
(* again.  Sequences compete for the frames and show in the seams of each  *)
(* other.                                                                  *)
(***************************************************************************)
EXTENDS Verify

VARIABLES
  frames,  \* position -> [status, by] of the frame envelopes of the session
  saved,   \* index -> frames as they were before its surgery (_repair_snapshots)
  settled, \* envelopes to finalize after the repairs of the round
  snapshot \* batch, products and frames when the driver started

streamVars == <<frames, saved, settled, snapshot>>

DefectKinds == <<"label_mismatch", "off_task_members", "missing_head",
                 "missing_tail", "missing_members", "wrong_stitch">>

StreamOK(p) ==
  /\ \A x \in p.reports : /\ x.verdict \in {"pass", "fail", "error"}
                          /\ \A d \in x.defects : d.kind \in Range(DefectKinds)
                          /\ \A c, d \in x.defects : c.kind = d.kind => c = d
  /\ p.fates \subseteq {"done", "reseam", "label", "notes", "annotate"}
  /\ p.session \in Nat                       \* frames of the session
  /\ \A r \in DOMAIN p.members :              \* of which no two sequences share any
       /\ Range(p.members[r]) \subseteq 0 .. p.session - 1
       /\ \A q \in DOMAIN p.members \ {r} : Range(p.members[q]) \intersect Range(p.members[r]) = {}
  /\ \A r \in DOMAIN p.members :              \* capacity bounds, and the cuts at them
       p.bounds[r].lower \in Nat /\ p.bounds[r].upper \in Nat
  /\ p.capacity \in BOOLEAN /\ p.breaker \in BOOLEAN

Bounds(i) == project.bounds[batch[i].record]
Allowed(i, p) == Bounds(i).lower <= p /\ p < Bounds(i).upper  \* allows_position

StreamStates == {i \in DOMAIN reviews : project.stream /\ IsSequence(batch[i].record)}

(* current_seams and plan_seams: the frames of the other sequences, which  *)
(* the sequences in "during" hold as far as their surgery has come.        *)
SeamsNow(i, b, revs, during) ==
  LET held(j) == IF j \in during THEN revs[j].working ELSE b[j].members
      others == {j \in DOMAIN b : IsAnchor(b[j]) /\ b[j].record # b[i].record}
      holds == [r \in {b[j].record : j \in others} |->
                 Range(held(CHOOSE j \in others : b[j].record = r))]
  IN IF project.stitch THEN ComputeSeams(held(i), holds) ELSE <<>>

StreamBegin ==
  /\ turn = "review" /\ pending = {} /\ Streamed # {}
  /\ turn' = "stream" /\ pending' = Streamed
  /\ snapshot' = [batch |-> batch, products |-> products, frames |-> frames]
  /\ UNCHANGED <<project, stage, classifyVars, ratedVars, reviews, seen, frames, saved, settled, vars>>

-----------------------------------------------------------------------------
\* boundary_suspicion: what is missing lies behind a cut made for capacity.
Suspicious(i, d) ==
  LET m == batch[i].members
      named == d.members \in {{}, {IF d.kind = "missing_head" THEN Head(m) - 1 ELSE Last(m) + 1}}
  IN \/ d.kind = "missing_head" /\ Bounds(i).before /\ Head(m) = Bounds(i).lower /\ named
     \/ d.kind = "missing_tail" /\ Bounds(i).after /\ Last(m) = Bounds(i).upper - 1 /\ named

\* _commit_review, begin_round and _normalize_capacity_defects.
Reviewed(i, report) ==
  LET defects == IF report.verdict = "fail" /\ report.defects = {}
                 THEN {[kind |-> "label_mismatch", members |-> {}]} ELSE report.defects
      real == {d \in defects : ~Suspicious(i, d)}
  IN [review |-> [reviews[i] EXCEPT !.rounds = @ + 1, !.working = batch[i].members,
                    !.surgical = FALSE, !.relabel = FALSE, !.claims = <<>>,
                    !.verdict = IF defects # {} /\ real = {} THEN "pass" ELSE report.verdict],
      defects |-> real]

\* Mutant of Reclaimable: what another sequence claimed is not asked.
ReclaimableTwice(p, acc) == acc.frames[p].status = "noise" /\ acc.frames[p].by # "verify"

\* _qualifies_for_reclaim: what a review dropped never comes back.
Reclaimable(p, acc) ==
  acc.frames[p].status = "noise" /\ acc.frames[p].by # "verify" /\ p \notin acc.claimed

\* _find_reclaim_candidate: the frame before the first or after the last member, or one within.
Candidates(i, d, acc) ==
  LET w == acc.review.working
      within == {p \in Head(w) + 1 .. Last(w) - 1 : d.members = {} \/ p \in d.members}
      asked == CASE d.kind = "missing_head" -> {Head(w) - 1}
                 [] d.kind = "missing_tail" -> {Last(w) + 1}
                 [] OTHER -> within
  IN {p \in asked \intersect DOMAIN acc.frames : Allowed(i, p) /\ Reclaimable(p, acc)}

\* _shrink_off_task: the frames named leave, unless none would be left.
Shrunk(i, d, acc) ==
  LET leaving == Range(acc.review.working) \intersect d.members
      absorbed == {p \in leaving : acc.frames[p].status = "absorbed"}
  IN IF leaving = {} \/ leaving = Range(acc.review.working) THEN acc
     ELSE [acc EXCEPT
       !.review.working = InOrder(Range(@) \ leaving),
       !.review.surgical = TRUE,
       !.saved = [p \in DOMAIN @ \union absorbed |-> IF p \in absorbed THEN acc.frames[p] ELSE @[p]],
       !.frames = [p \in DOMAIN @ |->
         IF p \in absorbed THEN [status |-> "noise", by |-> "verify"] ELSE @[p]]]

\* _route_one_defect.
Routed(i, d, acc) ==
  IF d.kind = "label_mismatch" THEN [acc EXCEPT !.review.relabel = TRUE]
  ELSE IF d.kind = "wrong_stitch" \/ ~IsAnchor(batch[i]) THEN acc
  ELSE IF d.kind = "off_task_members" THEN Shrunk(i, d, acc)
  ELSE IF Candidates(i, d, acc) = {} THEN acc
  ELSE LET p == Min(Candidates(i, d, acc))
       IN [acc EXCEPT !.review.claims = Append(@, p), !.claimed = @ \union {p}]

\* _route_defects, in the order of normalize_defects.
RouteDefects(i, defects, acc) ==
  LET after[n \in 0 .. Len(DefectKinds)] ==
        IF n = 0 THEN acc
        ELSE IF \E d \in defects : d.kind = DefectKinds[n]
             THEN Routed(i, CHOOSE d \in defects : d.kind = DefectKinds[n], after[n - 1])
             ELSE after[n - 1]
  IN after[Len(DefectKinds)]

\* _route_round for one sequence, on what those before it have left.
RouteReview(i, report, all) ==
  LET done == Reviewed(i, report)
      acc == [review |-> done.review, frames |-> all.frames, claimed |-> all.claimed, saved |-> <<>>]
      r == IF Repairable(done.review) THEN RouteDefects(i, done.defects, acc) ELSE acc
  IN [frames |-> r.frames, claimed |-> r.claimed,
      reviews |-> [all.reviews EXCEPT ![i] = r.review],
      saved |-> [all.saved EXCEPT ![i] = r.saved]]

RouteRound(judged, reports) ==
  LET order == InOrder(judged)
      after[n \in 0 .. Len(order)] ==
        IF n = 0 THEN [frames |-> frames, claimed |-> {}, reviews |-> reviews,
                       saved |-> [i \in DOMAIN reviews |-> <<>>]]
        ELSE RouteReview(order[n], reports[order[n]], after[n - 1])
  IN after[Len(order)]

(* _review_round and _route_round: reports as folded from the panel; one   *)
(* sequence after the other is routed, on frames that change meanwhile.    *)
StreamReview ==
  /\ turn = "stream" /\ pending # {}
  /\ \E reports \in [pending -> project.reports] :
       LET judged == {i \in pending : reports[i].verdict # "error"}
           done(i) == Reviewed(i, reports[i])
           routed == {i \in judged : Repairable(done(i).review)}
           end == RouteRound(judged, reports)
       IN /\ reviews' = end.reviews /\ frames' = end.frames /\ saved' = end.saved
          /\ seen' = [i \in DOMAIN seen \union judged |->
               IF i \in judged THEN [evidence |-> Evidence(batch[i]), verdict |-> done(i).review.verdict]
               ELSE seen[i]]
          /\ batch' = [i \in DOMAIN batch |->
               IF i \in pending \ judged THEN Fail(batch[i], "verify") ELSE batch[i]]
          /\ pending' = routed /\ settled' = judged \ routed
  /\ turn' = "claims"
  /\ UNCHANGED <<project, stage, products, leaves, tally, ratedVars, snapshot, vars>>

(* _resolve_claims: of each frame claimed, whether it continues the        *)
(* sequence; a call that fails is a no.                                    *)
StreamClaims ==
  /\ turn = "claims"
  /\ \E granted \in SUBSET UNION {{i} \X Range(reviews[i].claims) : i \in pending} :
       LET gains(i) == {p \in Range(reviews[i].claims) : <<i, p>> \in granted}
           review(i) == [reviews[i] EXCEPT
             !.working = InOrder(Range(@) \union gains(i)),
             !.surgical = @ \/ gains(i) # {}]
           repairing == {i \in pending : review(i).surgical \/ review(i).relabel}
       IN /\ reviews' = [i \in DOMAIN reviews |-> IF i \in pending THEN review(i) ELSE reviews[i]]
          /\ saved' = [i \in DOMAIN saved |->
               IF i \notin pending THEN saved[i]
               ELSE [p \in DOMAIN saved[i] \union gains(i) |->
                      IF p \in DOMAIN saved[i] THEN saved[i][p] ELSE frames[p]]]
          /\ frames' = [p \in DOMAIN frames |->
               IF \E i \in pending : <<i, p>> \in granted THEN [frames[p] EXCEPT !.status = "absorbed"]
               ELSE frames[p]]
          /\ pending' = repairing /\ settled' = settled \union (pending \ repairing)
  /\ turn' = "mend"
  /\ UNCHANGED <<project, stage, classifyVars, ratedVars, seen, snapshot, vars>>

-----------------------------------------------------------------------------
\* _affected_pairs: the pairs that need a step they have not got.
NewPairs(i, seams) ==
  {pair \in Pairs(reviews[i].working) :
     /\ pair \notin Pairs(batch[i].members) \/ pair \in DOMAIN batch[i].seams
     /\ pair \notin DOMAIN seams}

\* _rebuild_episode: new members and seams, and the steps between them.
Rebuilt(i, seams) ==
  LET m == reviews[i].working
      old(pair) == batch[i].steps[CHOOSE j \in DOMAIN batch[i].steps : batch[i].steps[j].pair = pair]
      step(pair) == IF pair \in DOMAIN seams THEN SeamStep(pair, seams[pair])
                    ELSE IF pair \in NewPairs(i, seams) THEN Step(pair) ELSE old(pair)
  IN [batch[i] EXCEPT !.members = m, !.seams = seams,
        !.steps = IF @ = None THEN None ELSE [j \in 1 .. Len(m) - 1 |-> step(<<m[j], m[j + 1]>>)]]

\* _rollback_repair for the sequences "dead".
RolledBack(dead) ==
  [p \in DOMAIN frames |->
    IF \E i \in dead : p \in DOMAIN saved[i]
    THEN saved[CHOOSE i \in dead : p \in DOMAIN saved[i]][p] ELSE frames[p]]

\* _shrink_frame_products: labels and notes of the frames that left go.
Trimmed(m, old) ==
  LET trim(f) == IF f = None THEN None ELSE [p \in DOMAIN f \intersect Range(m) |-> f[p]]
  IN [labels |-> trim(old.labels), notes |-> trim(old.notes)]

(* _sync_frame_products: then the frames that came get theirs.  Siblings   *)
(* never touch what they share.                                            *)
Synced(m, old, broken) ==
  LET labels == [p \in Range(m) |-> IF p \in DOMAIN old.labels THEN old.labels[p] ELSE p]
      label(p) == IF old.labels = None \/ ~project.frame_classify THEN None ELSE labels[p]
      noted == {p \in Range(m) : p \in DOMAIN old.notes \/ (project.frame_annotate /\ label(p) \notin project.frame_off)}
  IN [labels |-> IF old.labels = None \/ ~project.frame_classify THEN old.labels ELSE labels,
      notes |-> IF old.notes = None THEN None
                ELSE [p \in noted |-> IF p \in DOMAIN old.notes THEN old.notes[p]
                                      ELSE IF broken THEN None ELSE "annotated"]]

(* _repair_wave for the sequences "pending": what becomes of each is its   *)
(* fate.  Steps are made first, then frame labels, frame annotations and   *)
(* the annotation ("revised", unless that wave is torn); whoever fails at  *)
(* one takes no part in the next.                                          *)
Mend(fate, revised) ==
  LET seams(i) == SeamsNow(i, batch, reviews, pending)
      cuts(i) == reviews[i].surgical /\ project.extract /\ batch[i].steps # None /\ NewPairs(i, seams(i)) # {}
      unstepped == {i \in pending : fate[i] = "reseam" /\ cuts(i)}
      rebuilt == {i \in pending \ unstepped : reviews[i].surgical}
      syncing == {i \in rebuilt : IsAnchor(batch[i])}
      labels(i) == products[batch[i].record].labels
      unlabelled == {i \in syncing : fate[i] = "label" /\ project.frame_classify /\ labels(i) # None
                       /\ ~(Range(reviews[i].working) \subseteq DOMAIN labels(i))}
      next == {i \in pending \ (unstepped \union unlabelled) : fate[i] # "annotate"}
  IN [frames |-> RolledBack(unstepped),
      next |-> next,
      products |-> [r \in DOMAIN products |->
        IF \E i \in syncing : batch[i].record = r
        THEN LET i == CHOOSE i \in syncing : batch[i].record = r
             IN IF i \in unlabelled THEN Trimmed(reviews[i].working, products[r])
                ELSE Synced(reviews[i].working, products[r], fate[i] = "notes")
        ELSE products[r]],
      batch |-> [i \in DOMAIN batch |->
        LET e == IF i \in rebuilt THEN Rebuilt(i, seams(i)) ELSE batch[i]
        IN IF i \notin pending THEN e
           ELSE IF i \in next THEN IF revised THEN [e EXCEPT !.annotation.version = @ + 1] ELSE e
           ELSE Fail(e, "verify")]]

Settle(b, revs, done) ==
  [i \in DOMAIN b |->
    IF i \in done THEN Finalized(b[i], [revs[i] EXCEPT !.annotation = b[i].annotation]) ELSE b[i]]

\* Mutant of SeamDependents: whoever was finalized is left alone.
SeamDependentsPending(b, revs) ==
  {i \in StreamStates : b[i].status = "active" /\ b[i].verification = None
                         /\ b[i].seams # SeamsNow(i, b, revs, {})}

\* _seam_dependents: active sequences, finalized or not, whose seams have moved.
SeamDependents(b, revs) ==
  {i \in StreamStates : b[i].status = "active" /\ b[i].seams # SeamsNow(i, b, revs, {})}

(* The repairs of a round; then, without another await, what was settled   *)
(* is finalized and the sequences that depend on moved seams are found.    *)
StreamMend ==
  /\ turn = "mend"
  /\ \E fate \in [pending -> project.fates] :
       LET m == Mend(fate, TRUE)
           b == Settle(m.batch, reviews, settled)
           dirty == SeamDependents(b, reviews)
           spent == {i \in dirty : reviews[i].rounds > project.repairs}
           redo == dirty \ spent
           revs == [i \in DOMAIN reviews |->
             IF i \in spent THEN [reviews[i] EXCEPT !.verdict = "fail"]
             ELSE IF i \in redo THEN [reviews[i] EXCEPT !.working = b[i].members, !.surgical = TRUE,
                                        !.relabel = TRUE, !.claims = <<>>]
             ELSE reviews[i]]
       IN /\ batch' = Settle(b, revs, spent)
          /\ reviews' = revs /\ frames' = m.frames /\ products' = m.products
          /\ pending' = redo /\ settled' = m.next \ spent
          /\ saved' = [i \in DOMAIN saved |-> <<>>]
  /\ turn' = "refresh"
  /\ UNCHANGED <<project, stage, leaves, tally, ratedVars, seen, snapshot, vars>>

\* The repairs of those; all that were repaired are reviewed again.
StreamRefresh ==
  /\ turn = "refresh"
  /\ \E fate \in [pending -> project.fates] :
       LET m == Mend(fate, TRUE)
       IN /\ batch' = m.batch /\ frames' = m.frames /\ products' = m.products
          /\ pending' = {i \in m.next \union settled : m.batch[i].status = "active"}
  /\ turn' = "stream" /\ settled' = {}
  /\ UNCHANGED <<project, stage, leaves, tally, ratedVars, reviews, seen, saved, snapshot, vars>>

-----------------------------------------------------------------------------
(* A call of some wave has met a limit of capacity: the items are restored *)
(* and the attempt at the session starts over, with a smaller cut.         *)
StreamCapacity ==
  /\ turn \in {"stream", "claims", "mend", "refresh"} /\ pending # {} /\ project.capacity
  /\ batch' = snapshot.batch /\ products' = snapshot.products /\ frames' = snapshot.frames
  /\ saved' = [i \in DOMAIN saved |-> <<>>]
  /\ stage' = "discarded" /\ turn' = "idle" /\ pending' = {} /\ settled' = {}
  /\ UNCHANGED <<project, leaves, tally, ratedVars, reviews, seen, snapshot, vars>>

(* The breaker trips, or the run is cancelled, while some wave is out; the *)
(* batch goes no further.  A review has changed nothing yet.               *)
ReviewTripped ==
  /\ turn = "stream" /\ pending # {}
  /\ stage' = "tripped" /\ turn' = "idle" /\ pending' = {}
  /\ UNCHANGED <<batch, products, frames, saved>>

(* The claims are left as they stand: frames have been given up that the   *)
(* sequences still list, and nothing is rolled back.                       *)
ClaimsTripped ==
  /\ turn = "claims" /\ \E i \in pending : reviews[i].claims # <<>>
  /\ turn' = "torn"
  /\ UNCHANGED <<stage, batch, products, frames, saved, pending>>

\* While steps are made: all surgery of the wave is undone.
StepsTripped ==
  /\ turn \in {"mend", "refresh"}
  /\ \E i \in pending : /\ reviews[i].surgical /\ project.extract /\ batch[i].steps # None
                        /\ NewPairs(i, SeamsNow(i, batch, reviews, pending)) # {}
  /\ frames' = RolledBack(pending)
  /\ saved' = [i \in DOMAIN saved |-> <<>>]
  /\ stage' = "tripped" /\ turn' = "idle" /\ pending' = {}
  /\ UNCHANGED <<batch, products>>

(* In a later wave of the repair the surgery stands.  What had become of   *)
(* the frame products by then is not told apart: nobody reads them again.  *)
RepairTripped ==
  /\ turn \in {"mend", "refresh"}
  /\ \E fate \in [pending -> project.fates \ {"annotate"}] :
       LET m == Mend(fate, FALSE)
       IN m.next # {} /\ batch' = m.batch /\ frames' = m.frames /\ products' = m.products
  /\ saved' = [i \in DOMAIN saved |-> <<>>]
  /\ stage' = "tripped" /\ turn' = "idle" /\ pending' = {}

StreamTripped ==
  /\ turn \in {"stream", "claims", "mend", "refresh"} /\ project.breaker
  /\ ReviewTripped \/ ClaimsTripped \/ StepsTripped \/ RepairTripped
  /\ UNCHANGED <<project, leaves, tally, ratedVars, reviews, seen, settled, snapshot, vars>>

VerifyEnd ==
  /\ turn \in {"review", "stream"} /\ pending = {}
  /\ turn = "review" => Streamed = {}
  /\ stage' = "done" /\ turn' = "idle"
  /\ UNCHANGED <<project, classifyVars, ratedVars, pending, reviews, seen, streamVars, vars>>
=============================================================================
