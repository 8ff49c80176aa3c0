------------------------------- MODULE Quality --------------------------------
(***************************************************************************)
(* Quality rating of a batch (labelkit/operators/quality.py): the active   *)
(* envelopes are pooled by class and rated against each other (pairwise,   *)
(* with a Bradley-Terry fit) or alone (pointwise), and a gate drops the    *)
(* worst.  All pools are judged in one wave of calls; pools share nothing, *)
(* so each is rated by an action of its own, in order.                     *)
(*                                                                         *)
(* Scores are counted in sixtieths of the unit interval, which is exact    *)
(* for raw scores of one to five and for pools of up to four.              *)
(***************************************************************************)
EXTENDS Extract

VARIABLES
  rated,    \* pools that are done
  contest,  \* history: plan and answers of the last pool judged in pairs
  gated     \* history: what the gate of each pool saw and kept

qualityVars == <<rated, contest, gated>>

QualityOK(p) ==
  /\ p.quality \in {"off", "pairwise", "pointwise"}
  /\ p.rounds \in Nat \ {0} /\ p.judges \in Nat \ {0} /\ p.both_orders \in BOOLEAN
  /\ p.weights \in [DOMAIN p.weights -> Nat \ {0}]  \* of the criteria
  /\ p.selection \in {"threshold", "top_ratio", "none"}
  /\ p.threshold = None \/ p.threshold \in Nat   \* in sixtieths
  /\ p.selection = "threshold" => p.threshold # None
  /\ p.top_ratio \in Nat \X (Nat \ {0})       \* a fraction
  /\ p.on_unscored \in {"keep", "drop"}
  /\ p.answers \subseteq {"A", "B", "tie", "violation", "overflow", "call", "pool"}
  /\ p.raw \subseteq 1 .. 5 /\ p.raw_failures \subseteq {"violation", "overflow", "call", "pool"}
  /\ Len(p.members) <= 4

LabelOf(e) == IF e.class = None THEN None ELSE e.class.label

\* _build_pools: in order of the batch; without classes one nameless pool.
Pools == {LabelOf(batch[i]) : i \in Active}
PoolOf(label) == InOrder({i \in Active : LabelOf(batch[i]) = label})

-----------------------------------------------------------------------------
Orders == IF project.both_orders THEN {FALSE, TRUE} ELSE {FALSE}
Judges == 1 .. project.judges

\* _pairing_plan: in each round a random matching, and who is shown first.
RoundDraws(n) ==
  {d \in [1 .. n \div 2 -> {c \in (1 .. n) \X (1 .. n) : c[1] # c[2]} \X BOOLEAN] :
     \A k, l \in DOMAIN d : k # l => Range(d[k][1]) \intersect Range(d[l][1]) = {}}
PairingPlans(n) == {FlattenSeq(r) : r \in [1 .. project.rounds -> RoundDraws(n)]}

\* What the letter of one call says of the comparison <<<<i, j>>, first_is_a>>.
JudgedBy(c, flipped, answer) ==
  LET a == IF c[2] # flipped THEN c[1][1] ELSE c[1][2]
      b == IF c[2] # flipped THEN c[1][2] ELSE c[1][1]
  IN CASE answer = "A" -> a [] answer = "B" -> b [] answer = "tie" -> 0 [] OTHER -> None

\* Mutant of ComposeOrders: an order that was lost is not counted.
ComposeOrdersAlone(v) ==
  IF Cardinality(DOMAIN v) = 1 THEN v[FALSE]
  ELSE IF v[FALSE] # None THEN v[FALSE] ELSE v[TRUE]

\* _compose_orders: 0 is a tie, None a comparison no answer was got for.
ComposeOrders(v) ==
  LET side(f) == IF v[f] = None THEN 0 ELSE v[f]
  IN IF Cardinality(DOMAIN v) = 1 THEN v[FALSE]
     ELSE IF v[FALSE] = None /\ v[TRUE] = None THEN None
     ELSE IF side(FALSE) = side(TRUE) THEN side(FALSE) ELSE 0

\* _majority over the judges: more than half, else a tie.
Majority(votes) ==
  LET cast == [v \in DOMAIN votes |-> IF votes[v] = None THEN 0 ELSE votes[v]]
      won == {x \in Range(cast) :
                2 * Cardinality({v \in DOMAIN cast : cast[v] = x}) > Cardinality(DOMAIN votes)}
  IN IF Range(votes) = {None} THEN None ELSE IF won = {} THEN 0 ELSE CHOOSE x \in won : TRUE

Outcome(c, answers) ==
  Majority([j \in Judges |-> ComposeOrders([f \in Orders |-> JudgedBy(c, f, answers[j][f])])])

(* _tally_criterion: comparisons, wins and ties of each item of the pool,  *)
(* and how many of its comparisons somebody answered.                      *)
Tally(n, plan, answers) ==
  [k \in 1 .. n |->
    LET mine == {x \in DOMAIN plan : k \in Range(plan[x][1])}
        out(x) == Outcome(plan[x], answers[x])
    IN [comparisons |-> Cardinality(mine),
        wins |-> Cardinality({x \in mine : out(x) = k}),
        ties |-> Cardinality({x \in mine : out(x) \in {0, None}}),
        success |-> Cardinality({x \in mine : out(x) # None})]]

(* _average_ranks and _percentile_scores of what the fit came to.          *)
Percentile(theta, k) ==
  LET less == Cardinality({j \in DOMAIN theta : theta[j] < theta[k]})
      equal == Cardinality({j \in DOMAIN theta : theta[j] = theta[k]})
  IN (60 * (2 * less + equal - 1)) \div (2 * (Len(theta) - 1))

\* The fit itself is numeric: any weak order of the pool may come out of it.
WeakOrders(n) == {t \in [1 .. n -> 0 .. n - 1] : \E m \in 0 .. n - 1 : Range(t) = 0 .. m}

-----------------------------------------------------------------------------
\* _weighted_aggregate: criteria without a score do not count.
Aggregate(scores) ==
  LET known == {c \in DOMAIN scores : scores[c] # None}
      weight(c) == project.weights[c]
  IN IF known = {} THEN None
     ELSE <<MapThenSumSet(LAMBDA c : weight(c) * scores[c], known), MapThenSumSet(weight, known)>>

Above(a, b) == a[1] * b[2] > b[1] * a[2]

(* _top_ratio_selection: ceil(top_ratio * N) of n items.  The product is a *)
(* float: one that should be whole may come out just above (ceil of 0.07 * *)
(* 100 is 8).                                                              *)
Quotas(n) ==
  LET product == project.top_ratio[1] * n
      up == (product + project.top_ratio[2] - 1) \div project.top_ratio[2]
  IN {up} \union (IF n > 0 /\ product % project.top_ratio[2] = 0 THEN {up + 1} ELSE {})

\* The id of a record is a digest of its line: equal lines share it.
LineOf(i) == project.contents[batch[i].record]

(* _gate_top_ratio and _gate_threshold: of the items with a score (item -> *)
(* aggregate) those that stay.  The quota is filled in order of score, id  *)
(* and place; then every item stays whose id is among those chosen.        *)
Kept(scored, quota) ==
  LET better(i, j) ==
        \/ Above(scored[i], scored[j])
        \/ /\ ~Above(scored[j], scored[i])
           /\ LineOf(i) < LineOf(j) \/ (LineOf(i) = LineOf(j) /\ i < j)
      chosen == {i \in DOMAIN scored : Cardinality({j \in DOMAIN scored : better(j, i)}) < quota}
  IN CASE project.selection = "top_ratio" -> {i \in DOMAIN scored : \E j \in chosen : LineOf(i) = LineOf(j)}
       [] project.selection = "threshold" ->
            {i \in DOMAIN scored : ~Above(<<project.threshold, 1>>, scored[i])}
       [] OTHER -> DOMAIN scored

(* _apply_gate on the pool s, given the scores of its items and those that *)
(* failed while it was judged.                                             *)
Gate(s, scores, failed) ==
  LET aggregate(i) == Aggregate(scores[i])
      scored == [i \in {i \in Range(s) \ failed : aggregate(i) # None} |-> aggregate(i)]
      unscored == Range(s) \ (failed \union DOMAIN scored)
  IN \E quota \in Quotas(Cardinality(DOMAIN scored)) :
     LET kept == Kept(scored, quota)
         stays == kept \union (IF project.on_unscored = "keep" THEN unscored ELSE {})
     IN /\ batch' = [i \in DOMAIN batch |->
             IF i \notin Range(s) THEN batch[i]
             ELSE [batch[i] EXCEPT !.score = aggregate(i),
                     !.status = IF i \in failed THEN "failed" ELSE IF i \in stays THEN "active" ELSE "dropped_lowq"]]
        /\ gated' = Append(gated, [scored |-> scored, kept |-> kept])

\* _fail_pool: an error outside the calls fails what is left of the pool.
FailPool(s) ==
  /\ batch' = [i \in DOMAIN batch |->
       IF i \in Range(s) THEN Fail(batch[i], "internal_error") ELSE batch[i]]
  /\ UNCHANGED gated

NextPool(label) ==
  /\ stage = "quality" /\ project.quality # "off"
  /\ label \in Pools \ rated
  /\ \A l \in Pools \ rated : PoolOf(label)[1] <= PoolOf(l)[1]
  /\ rated' = rated \union {label}
  /\ UNCHANGED <<project, stage, products, leaves, tally, vars>>

(* One pool in pairs: a lost answer is a tie (a violation, an overflow) or *)
(* the failure of both items; an item nobody judged has no score.          *)
RatePairwise(label) ==
  /\ NextPool(label) /\ project.quality = "pairwise"
  /\ LET s == PoolOf(label)
         n == Len(s)
     IN IF n = 1
        THEN /\ Gate(s, [i \in Range(s) |-> [c \in DOMAIN project.weights |-> 30]], {})
             /\ UNCHANGED contest
        ELSE \E plan \in PairingPlans(n) :
             \E answers \in [DOMAIN plan -> [Judges -> [Orders -> project.answers]]] :
               LET sees(k, kinds) == \E x \in DOMAIN plan : k \in Range(plan[x][1]) /\
                                      \E j \in Judges, f \in Orders : answers[x][j][f] \in kinds
                   failed == {s[k] : k \in {k \in 1 .. n : sees(k, {"call"})}}
                   done == Tally(n, plan, answers)
                   blank(k) == done[k].comparisons > 0 /\ done[k].success = 0
               IN /\ contest' = [n |-> n, plan |-> plan, answers |-> answers]
                  /\ IF \E k \in 1 .. n : sees(k, {"pool"})
                     THEN FailPool(s)
                     ELSE \E theta \in WeakOrders(n) :
                       Gate(s, [i \in Range(s) |-> [c \in DOMAIN project.weights |->
                                  LET k == CHOOSE k \in 1 .. n : s[k] = i
                                  IN IF blank(k) THEN None ELSE Percentile(theta, k)]], failed)

\* One pool item by item: an overflow fails it, a violation leaves a gap.
RatePointwise(label) ==
  /\ NextPool(label) /\ project.quality = "pointwise"
  /\ LET s == PoolOf(label)
     IN \E raw \in [Range(s) -> [DOMAIN project.weights -> Got(project.raw, project.raw_failures)]] :
          LET sees(i, kinds) == \E c \in DOMAIN project.weights : ~IsOk(raw[i][c]) /\ raw[i][c].failed \in kinds
              failed == {i \in Range(s) : sees(i, {"overflow", "call"})}
          IN IF \E i \in Range(s) : sees(i, {"pool"})
             THEN FailPool(s)
             ELSE Gate(s, [i \in Range(s) |-> [c \in DOMAIN project.weights |->
                             IF IsOk(raw[i][c]) THEN 12 * raw[i][c].ok ELSE None]], failed)
  /\ UNCHANGED contest

QualityDone ==
  /\ stage = "quality"
  /\ project.quality = "off" \/ Pools \subseteq rated
  /\ stage' = "generate"
  /\ UNCHANGED <<project, classifyVars, qualityVars, vars>>
=============================================================================
