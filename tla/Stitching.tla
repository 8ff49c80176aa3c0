------------------------------- MODULE Stitching -------------------------------
(***************************************************************************)
(* Stitching of the episodes of one session into threads                   *)
(* (labelkit/operators/stitch.py): candidates are judged one after the     *)
(* other against the pool of open threads, a merge that no request         *)
(* downstream could hold seals the older thread, a full pool evicts, and a *)
(* second pass looks again at the threads of one fragment.                 *)
(*                                                                         *)
(* A session is stitched by itself; waves only run several sessions at     *)
(* once.  A verdict names a thread by its place in the cards shown.        *)
(***************************************************************************)
EXTENDS Segmentation

VARIABLES
  threads,  \* _SessionState.threads: [item, frags, last, alive], item an index
  pool,     \* the open ones, as a set of indices of threads
  queue,    \* candidates still to be judged: episodes and rescue runs, or the
            \* threads of the second pass
  clock,    \* judgments settled so far
  cuts      \* history: <<left, right>> of every cut made so far

stitchVars == <<threads, pool, queue, clock, cuts>>

Pos(t) == items[threads[t].item].pos
HeadPos(t) == Min(Pos(t))
TailPos(t) == Max(Pos(t))
Sealed(c) == c.item # 0 /\ items[c.item].sealed

Episode(i) == [kind |-> "episode", item |-> i, pos |-> items[i].pos, thread |-> 0]
Rescue(run) == [kind |-> "rescue", item |-> 0, pos |-> run, thread |-> 0]
Again(t) == [kind |-> "episode", item |-> threads[t].item, pos |-> Pos(t), thread |-> t]

(* _assemble_candidates: the active episodes and, to be rescued, every     *)
(* maximal run of frames that were dropped for min_len.                    *)
Runs ==
  LET short == {p \in Positions : frames[p] = "below_min_len"}
  IN {run \in {a .. b : a, b \in short} :
        /\ run # {} /\ run \subseteq short
        /\ Min(run) - 1 \notin short /\ Max(run) + 1 \notin short}

Candidates ==
  Arranged({Episode(i) : i \in {j \in DOMAIN items : items[j].status = "active"}}
                 \union (IF cfg.rescue_short THEN {Rescue(run) : run \in Runs} ELSE {}),
               LAMBDA a, b : Min(a.pos) < Min(b.pos))

\* _merge_bounds: what both may take members from; None when a member is outside.
LowerOf(c) == IF c.item = 0 THEN 0 ELSE items[c.item].lower
UpperOf(c) == IF c.item = 0 THEN Frames ELSE items[c.item].upper
Merged(t, c) ==
  LET own == items[threads[t].item]
  IN [own EXCEPT !.pos = own.pos \union c.pos,
                 !.lower = Max({own.lower, LowerOf(c)}),
                 !.upper = Min({own.upper, UpperOf(c)})]
Mergeable(t, c) ==
  /\ ~items[threads[t].item].sealed /\ ~Sealed(c)
  /\ LET m == Merged(t, c) IN \A p \in m.pos : m.lower <= p /\ p < m.upper

Recent(set) == Arranged(set, LAMBDA t, u : threads[t].last > threads[u].last)

(* The cards shown to the judge: in the first pass the open threads; in    *)
(* the second every other live thread, the max_open nearest when there are *)
(* more.                                                                   *)
SpanDistance(t, u) ==
  IF TailPos(t) < HeadPos(u) THEN HeadPos(u) - TailPos(t)
  ELSE IF TailPos(u) < HeadPos(t) THEN HeadPos(t) - TailPos(u) ELSE 0
Cards(c) ==
  IF c.thread = 0 THEN Recent({t \in pool : Mergeable(t, c)})
  ELSE LET others == {t \in DOMAIN threads : threads[t].alive /\ t # c.thread /\ Mergeable(t, c)}
           near(a, b) == LET d == SpanDistance(c.thread, a) e == SpanDistance(c.thread, b)
                         IN d < e \/ (d = e /\ HeadPos(a) < HeadPos(b))
       IN Recent(ToSet(SubSeq(Arranged(others, near), 1,
                              Min({cfg.max_open, Cardinality(others)}))))

-------------------------------------------------------------------------------
(* aggregate_votes: the verdict most samples agree on, when it has more    *)
(* than half of all votes; an abstention (NoVerdict) counts against it.    *)
(* Without a single sample the judgment failed.                            *)
NewThread == 0
NoVerdict == -1
Verdicts(cards) == {NewThread} \union DOMAIN cards
Majority(ballots) ==
  LET for(v) == Cardinality({b \in DOMAIN ballots : ballots[b] = v})
      won == {v \in Range(ballots) \ {NoVerdict} : 2 * for(v) > Len(ballots)}
  IN IF Range(ballots) = {NoVerdict} THEN NoVerdict
     ELSE IF won = {} THEN NewThread ELSE CHOOSE v \in won : TRUE
Outcomes(cards) ==
  {Majority(b) : b \in [1 .. cfg.votes -> Verdicts(cards) \union {NoVerdict}]} \ {NoVerdict}

(* _resolve_merge: a thread is resumed only when enough of the three       *)
(* mechanical priors agree, two of them over a stale gap.                  *)
Required(t, c) ==
  IF cfg.bias = "llm" THEN 0
  ELSE IF cfg.stale_gap_steps > 0 /\ Min(c.pos) - TailPos(t) > cfg.stale_gap_steps THEN 2 ELSE 1
Target(cards, outcome, hits, c) ==
  IF outcome \in DOMAIN cards /\ hits >= Required(cards[outcome], c) THEN cards[outcome] ELSE 0

\* Mutant of Guarded: the second pass merges without a look at the capacity.
GuardedOnce(t, c) ==
  t = 0 \/ c.thread # 0 \/ Preview(Merged(t, c).pos) = "fits"

\* _guard_capacity: no merge that a request downstream could not hold.
Guarded(t, c) ==
  t = 0 \/ Preview(Merged(t, c).pos) = "fits"

\* _open_thread: a full pool loses its stalest or least recent thread.
SelectEviction(open, first) ==
  LET stale == {t \in open : cfg.stale_gap_steps > 0 /\ first - TailPos(t) > cfg.stale_gap_steps}
      from == IF stale # {} THEN stale ELSE open
  IN CHOOSE t \in from : \A u \in from : threads[t].last <= threads[u].last

OpenThread(c, open) ==
  LET full == Cardinality(open) >= cfg.max_open /\ ~Sealed(c)
  IN /\ threads' = Append(threads, [item |-> c.item, last |-> clock, alive |-> TRUE,
                                    frags |-> {[pos |-> c.pos, cause |-> "origin"]}])
     /\ pool' = (open \ (IF full THEN {SelectEviction(open, Min(c.pos))} ELSE {}))
                  \union (IF Sealed(c) THEN {} ELSE {Len(threads) + 1})

\* What the candidate brings: itself, or the fragments of its thread.
Fragments(c) ==
  IF c.thread = 0
  THEN {[pos |-> c.pos, cause |-> IF c.kind = "rescue" THEN "rescued" ELSE "resumed"]}
  ELSE {[f EXCEPT !.cause = IF @ = "origin" THEN "resumed" ELSE @] : f \in threads[c.thread].frags}

(* _merge_pass1, _merge_rescue and _merge_pass2: the thread takes over the *)
(* members, an episode that was merged is "stitched", rescued frames are   *)
(* absorbed after all.                                                     *)
Merge(t, c) ==
  /\ items' = [i \in DOMAIN items |->
          IF i = threads[t].item THEN Merged(t, c)
          ELSE IF i = c.item THEN [items[i] EXCEPT !.status = "stitched"] ELSE items[i]]
  /\ threads' = [u \in DOMAIN threads |->
          IF u = t THEN [threads[t] EXCEPT !.last = clock,
                           !.frags = @ \union Fragments(c)]
          ELSE IF u = c.thread THEN [threads[u] EXCEPT !.alive = FALSE] ELSE threads[u]]
  /\ frames' = [p \in Positions |->
          IF c.kind = "rescue" /\ p \in c.pos THEN "absorbed" ELSE frames[p]]

Swapped(t, c) == c.thread # 0 /\ HeadPos(c.thread) < HeadPos(t)
Older(t, c) == IF Swapped(t, c) THEN c.thread ELSE t
(* _seal_capacity: of the two that would have been merged the older is     *)
(* sealed and leaves the pool; when it ends before the other begins, a cut *)
(* between them bounds both.                                               *)
Seal(t, c) ==
  LET older == Older(t, c)
      newer == IF Swapped(t, c) THEN Again(t) ELSE c
      right == Min(newer.pos)
      apart == TailPos(older) < right
  IN /\ items' = [i \in DOMAIN items |->
          IF i = threads[older].item
          THEN [items[i] EXCEPT !.sealed = TRUE,
                                !.upper = IF apart THEN Min({@, right}) ELSE @]
          ELSE IF i = newer.item /\ apart THEN [items[i] EXCEPT !.lower = Max({@, right})]
          ELSE items[i]]
     /\ cuts' = cuts \union (IF apart THEN {<<TailPos(older), right>>} ELSE {})

-------------------------------------------------------------------------------
InitStitch ==
  /\ threads = <<>> /\ pool = {} /\ queue = <<>> /\ clock = 0 /\ cuts = {}

CutsOf(seq) == {<<Max(seq[i].pos), seq[i].upper>> : i \in {j \in DOMAIN seq : seq[j].upper < Frames}}

\* The upstream stages of the session: stitch follows when it is configured.
BeginStitch ==
  /\ phase = "assembled"
  /\ IF cfg.stitch /\ Candidates # <<>> /\ \E i \in DOMAIN items : items[i].status = "active"
     THEN phase' = "stitch" /\ queue' = Candidates /\ cuts' = CutsOf(items)
     ELSE phase' = "serve" /\ UNCHANGED <<queue, cuts>>
  /\ UNCHANGED <<segmentVars, items, threads, pool, clock>>

(* _next_candidate_plan: a sealed episode opens its thread without a call, *)
(* a run that no open thread can take stays dropped.                       *)
SkipCandidate ==
  /\ phase = "stitch" /\ queue # <<>>
  /\ LET c == Head(queue)
     IN \/ Sealed(c) /\ OpenThread(c, pool)
        \/ c.kind = "rescue" /\ Cards(c) = <<>> /\ UNCHANGED <<threads, pool>>
  /\ queue' = Tail(queue)
  /\ UNCHANGED <<segmentVars, phase, items, clock, cuts>>

\* _next_repass_plan: a thread that died, was sealed or has no other is passed over.
SkipThread ==
  /\ phase = "repass" /\ queue # <<>>
  /\ LET t == Head(queue)
     IN ~threads[t].alive \/ Sealed(Again(t)) \/ Cards(Again(t)) = <<>>
  /\ queue' = Tail(queue)
  /\ UNCHANGED <<segmentVars, phase, items, threads, pool, clock, cuts>>

\* The candidate of the next judgment.
Judged ==
  IF phase = "stitch" THEN Head(queue) ELSE Again(Head(queue))
Judgeable ==
  /\ phase \in {"stitch", "repass"} /\ queue # <<>>
  /\ phase = "repass" => threads[Head(queue)].alive
  /\ ~Sealed(Judged)
  /\ (Judged.kind = "rescue" \/ phase = "repass") => Cards(Judged) # <<>>

(* _settle_judgment with a verdict: the candidate is merged; or the merge  *)
(* would be too large, the older thread is sealed and the candidate stays  *)
(* by itself; or it is new.                                                *)
SettleJudgment ==
  /\ Judgeable
  /\ LET c == Judged
         alone == c.kind = "episode" /\ phase = "stitch"
     IN \E outcome \in Outcomes(Cards(c)), hits \in 0 .. 2 :
          LET t == Target(Cards(c), outcome, hits, c)
              open == IF t = 0 THEN pool ELSE pool \ {Older(t, c)}
          IN \/ t # 0 /\ Guarded(t, c) /\ Merge(t, c) /\ UNCHANGED <<pool, cuts>>
             \/ /\ t = 0 \/ ~Guarded(t, c)
                /\ IF t = 0 THEN UNCHANGED <<items, cuts>> ELSE Seal(t, c)
                /\ IF alone THEN OpenThread(c, open) ELSE pool' = open /\ UNCHANGED threads
                /\ UNCHANGED frames
  /\ clock' = clock + 1 /\ queue' = Tail(queue)
  /\ UNCHANGED <<cfg, spans, broken, rel, paired, phase>>

(* _settle_judgment_failure: an episode of the first pass fails or starts  *)
(* a thread without a name; a rescue and a second look have no effect.     *)
FailJudgment ==
  /\ Judgeable
  /\ LET c == Judged
     IN IF c.kind = "rescue" \/ phase = "repass" THEN UNCHANGED <<items, threads, pool>>
        ELSE \/ /\ cfg.stitch_on_error = "fail"
                /\ items' = [items EXCEPT ![c.item].status = "failed"]
                /\ UNCHANGED <<threads, pool>>
             \/ /\ cfg.stitch_on_error = "keep"
                /\ OpenThread(c, pool) /\ UNCHANGED items
  /\ clock' = clock + 1 /\ queue' = Tail(queue)
  /\ UNCHANGED <<segmentVars, phase, cuts>>

\* _prepare_repass: the live threads of one fragment, by position.
PrepareRepass ==
  /\ phase = "stitch" /\ queue = <<>>
  /\ IF cfg.repass
     THEN /\ phase' = "repass"
          /\ queue' = Arranged(
               {t \in DOMAIN threads : /\ threads[t].alive /\ Cardinality(threads[t].frags) = 1
                                       /\ ~Sealed(Again(t))},
               LAMBDA t, u : HeadPos(t) < HeadPos(u))
     ELSE phase' = "finalize" /\ UNCHANGED queue
  /\ UNCHANGED <<segmentVars, items, threads, pool, clock, cuts>>

EndRepass ==
  /\ phase = "repass" /\ queue = <<>>
  /\ phase' = "finalize"
  /\ UNCHANGED <<segmentVars, items, threads, pool, queue, clock, cuts>>

(* compute_seams: between two members next to each other lies a frame of   *)
(* another live thread.                                                    *)
Live == {t \in DOMAIN threads : threads[t].alive}
Foreign(members, others) ==
  LET s == InOrder(members)
  IN {i \in 0 .. Len(s) - 2 :
        \E p \in s[i + 1] + 1 .. s[i + 2] - 1 : p \in others \ members}
Owned == UNION {Pos(t) : t \in Live}

\* _finalize_session; the threads live on in their envelopes alone.
Finalize ==
  /\ phase = "finalize"
  /\ phase' = "serve"
  /\ items' = [i \in DOMAIN items |->
       IF \E t \in Live : threads[t].item = i
       THEN [items[i] EXCEPT !.seams = Foreign(items[i].pos, Owned)] ELSE items[i]]
  /\ threads' = <<>> /\ pool' = {} /\ clock' = 0 /\ cuts' = {}
  /\ UNCHANGED <<segmentVars, queue>>

StitchNext ==
  \/ BeginStitch \/ SkipCandidate \/ SkipThread \/ SettleJudgment \/ FailJudgment
  \/ PrepareRepass \/ EndRepass \/ Finalize
===============================================================================
