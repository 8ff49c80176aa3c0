----------------------------- MODULE RecordChain ------------------------------
(***************************************************************************)
(* One batch on its way through the stages of the chain, in the order of   *)
(* _CHAIN_ORDER (orchestration/process_workflow.py): deduplication,        *)
(* classification, extraction, quality, generation, annotation and         *)
(* verification; then what was generated, as a batch of its own.  Without  *)
(* a project only deduplication runs, over as many rounds as it may have.  *)
(***************************************************************************)
EXTENDS StreamVerify

CONSTANT Off  \* no project: deduplication alone

\* What a project says of the record path.
Settings ==
  {"dedup", "deduplicate", "contents", "members", "degraded", "oversized", "classes", "fallback", "max_labels",
   "samples", "classify", "classify_on_error", "failures", "frame_classify", "frame_room", "stitch",
   "extract", "extract_fails", "quality", "rounds", "judges", "both_orders", "weights", "selection",
   "threshold", "top_ratio", "on_unscored", "answers", "raw", "raw_failures", "generate", "seed_min",
   "num_per_record", "seeds_per_call", "num_per_call", "examples", "standalone", "limit", "rooms",
   "samples_of", "generate_failures", "rejected", "annotate", "annotate_sc", "combinations", "voted",
   "annotate_failures", "frame_annotate", "frame_failures", "frame_off", "verify", "policy",
   "repairs", "panel", "votes", "repair_fails", "stream", "reports", "fates", "session", "bounds",
   "capacity", "breaker"}

ProjectOK(p) ==
  /\ DOMAIN p = Settings
  /\ ClassifyOK(p) /\ ExtractOK(p) /\ QualityOK(p) /\ AnnotateOK(p)
  /\ VerifyOK(p) /\ StreamOK(p) /\ GenerateOK(p)
  /\ p.dedup.streaming = FALSE /\ p.deduplicate \in BOOLEAN
  /\ p.contents \in Seq(Contents) /\ Len(p.contents) <= Len(p.members)
  /\ p.generate = "alone" \/ p.contents # <<>>

ASSUME ProjectsAssumption == Off \notin Projects /\ \A p \in Projects : ProjectOK(p)

chainVars == <<project, stage, classifyVars, ratedVars, verifyVars, streamVars>>
allVars == <<vars, chainVars>>

ChainInit ==
  /\ project \in Projects \union {Off}
  /\ Init
  /\ project # Off => config = project.dedup
  /\ stage = IF project # Off /\ project.generate = "alone" THEN "generate" ELSE "dedup"
  /\ batch = <<>> /\ products = <<>> /\ leaves = <<>> /\ tally = <<>>
  /\ rated = {} /\ contest = None /\ gated = <<>> /\ fresh = <<>> /\ spawned = None
  /\ turn = "idle" /\ pending = {} /\ reviews = <<>> /\ seen = <<>>
  /\ frames = <<>> /\ saved = <<>> /\ settled = {} /\ snapshot = None

\* The records of the project are one batch; otherwise rounds follow freely.
ChainStart ==
  /\ stage = "dedup"
  /\ IF project = Off THEN Start
     ELSE project.deduplicate /\ round = 0 /\ StartWith(project.contents)
  /\ UNCHANGED chainVars

Deduplicate ==
  /\ stage = "dedup" /\ (Embed \/ RunBatch \/ Reserve \/ Discard \/ Commit)
  /\ UNCHANGED chainVars

(* _enqueue_generated: what was generated follows as a batch that passes   *)
(* the same stages, without generating again.                              *)
Reflow ==
  /\ project # Off /\ stage = "done" /\ project.generate # "off" /\ fresh # <<>>
  /\ LET contents == [k \in DOMAIN fresh |-> fresh[k].content]
     IN /\ IF project.deduplicate THEN StartWith(contents) ELSE UNCHANGED vars
        /\ project' = [project EXCEPT !.generate = "off", !.contents = contents, !.degraded = {},
                         !.oversized = {}, !.members = [k \in DOMAIN fresh |-> <<>>]]
  /\ stage' = "dedup" /\ batch' = <<>> /\ products' = <<>> /\ leaves' = <<>> /\ tally' = <<>>
  /\ rated' = {} /\ contest' = None /\ gated' = <<>>
  /\ turn' = "idle" /\ pending' = {} /\ reviews' = <<>> /\ seen' = <<>>
  /\ UNCHANGED <<generateVars, streamVars>>

\* _make_item: a generated record has the class of its seeds.
Inherited(i) ==
  IF spawned = None \/ project.generate # "off" \/ fresh[i].class = None THEN None
  ELSE LabelledBy(<<fresh[i].class>>, "inherited")

(* The batch after deduplication, if the project has that stage: envelopes *)
(* with the verdict of their record, and the frames of the session they    *)
(* were cut from.                                                          *)
Admit ==
  /\ project # Off /\ stage = "dedup"
  /\ project.deduplicate => pc = "idle" /\ round > 0
  /\ LET n == Len(project.contents)
         own == SubSeq(log, Len(log) - n + 1, Len(log))
         status(i) == CASE ~project.deduplicate \/ own[i].kind = "unique" -> "active"
                        [] own[i].kind = "failed" -> "failed" [] OTHER -> "dropped_dup"
         holds(r) == [q \in 1 .. n \ {r} |-> Range(project.members[q])]
         owned == UNION {Range(project.members[r]) : r \in 1 .. n}
     IN /\ batch' = [i \in 1 .. n |->
             [Envelope(i) EXCEPT !.status = status(i), !.class = Inherited(i),
                !.seams = IF project.stitch /\ IsSequence(i)
                          THEN ComputeSeams(project.members[i], holds(i)) ELSE <<>>]]
        /\ products' = [r \in 1 .. n |-> [labels |-> None, notes |-> None]]
        /\ frames' = [p \in 0 .. project.session - 1 |->
             IF p \in owned THEN [status |-> "absorbed", by |-> None]
             ELSE [status |-> "noise", by |-> "segment"]]
        /\ leaves' = [r \in 1 .. n |-> <<>>]
        /\ tally' = [c \in Range(project.classes) |-> 0]
  /\ stage' = "classify"
  /\ UNCHANGED <<project, ratedVars, verifyVars, saved, settled, snapshot, vars>>

Rate == \E label \in Pools : RatePairwise(label) \/ RatePointwise(label)

Stages ==
  \/ (ClassifyWave \/ FrameWave \/ ExtractWave) /\ UNCHANGED <<ratedVars, verifyVars, streamVars>>
  \/ (Rate \/ QualityDone) /\ UNCHANGED <<generateVars, verifyVars, streamVars>>
  \/ (GenerateWave \/ AnnotateWave \/ FrameNotesWave) /\ UNCHANGED <<verifyVars, streamVars>>
  \/ (VerifyBegin \/ ReviewWave \/ RepairWave) /\ UNCHANGED streamVars
  \/ StreamBegin \/ StreamReview \/ StreamClaims \/ StreamMend \/ StreamRefresh
  \/ StreamCapacity \/ StreamTripped \/ VerifyEnd

ChainNext == ChainStart \/ Deduplicate \/ Admit \/ Stages \/ Reflow

ChainSpec == ChainInit /\ [][ChainNext]_allVars

-----------------------------------------------------------------------------
After(stages) == stage \in stages

(* However the samples voted: the fallback class never stands beside       *)
(* another, a combination of values that more than half of the valid       *)
(* samples agree on is the one annotated, and the counters of the classes  *)
(* agree with the envelopes once the siblings have joined the batch.       *)
VotesSound ==
  /\ \A i \in DOMAIN batch : batch[i].class # None =>
       (project.fallback \in Range(batch[i].class.labels) => Len(batch[i].class.labels) = 1)
  /\ After({"extract", "quality"}) => \A c \in Range(project.classes) :
       tally[c] = Cardinality({i \in DOMAIN batch : LabelOf(batch[i]) = c /\ batch[i].class.source # "inherited"})
  /\ \A i \in DOMAIN batch : batch[i].annotation # None =>
       LET of == batch[i].annotation.of
       IN \A k \in DOMAIN of :
            2 * Cardinality({l \in DOMAIN of : of[l] = of[k]}) > Len(of) =>
              batch[i].annotation.chosen = of[k]

(* Whatever the windows and however often they were halved, each frame of  *)
(* a labelled sequence was judged by exactly one call, or given up once.   *)
(* And the rows of a record with several labels show the same frame        *)
(* annotations, though they are made by one of them, after the siblings    *)
(* have parted, and changed by it when it is verified.                     *)
FrameProductsAgree ==
  /\ After({"extract"}) => \A r \in DOMAIN products : products[r].labels # None =>
       \A k \in DOMAIN project.members[r] :
         Cardinality({x \in DOMAIN leaves[r] : leaves[r][x][1] < k /\ k <= leaves[r][x][2]}) = 1
  /\ After({"verify", "done"}) => \A i, j \in Active :
       batch[i].record = batch[j].record => Notes(batch[i]) = Notes(batch[j])

(* When both orders are asked, it does not matter to the ratings which of  *)
(* two records a coin put first.                                           *)
CoinIrrelevant ==
  contest # None /\ project.both_orders =>
    LET flipped == [x \in DOMAIN contest.plan |-> <<contest.plan[x][1], ~contest.plan[x][2]>>]
        swapped == [x \in DOMAIN contest.answers |-> [j \in Judges |->
                     [f \in Orders |-> contest.answers[x][j][~f]]]]
    IN Tally(contest.n, contest.plan, contest.answers) = Tally(contest.n, flipped, swapped)

(* Whichever items of the pool failed or went without a score, whichever   *)
(* share a line, and however the product rounds: a top-ratio gate keeps at *)
(* least the ratio, no more than one line beyond it, and drops an item     *)
(* only in favour of the ratio of items that it does not beat; and items   *)
(* of one line share their fate.                                           *)
GateKeepsBest ==
  project # Off /\ project.selection = "top_ratio" => \A g \in Range(gated) :
    LET n == project.top_ratio[1] * Cardinality(DOMAIN g.scored)
        lines == {LineOf(i) : i \in g.kept}
        reaches(items) == project.top_ratio[2] * Cardinality(items) >= n
    IN /\ reaches(g.kept)
       /\ project.top_ratio[2] * (Cardinality(lines) - 1) <= n
       /\ \A j \in DOMAIN g.scored \ g.kept :
            LineOf(j) \notin lines /\ reaches({i \in g.kept : ~Above(g.scored[j], g.scored[i])})

\* Neither the coin of a pairing nor a lost score decides who is kept.
RatingFair == CoinIrrelevant /\ GateKeepsBest

(* What was generated is new and accounted for: near no seed of any class, *)
(* shown or not, and near no other survivor; each survivor is an answer of *)
(* the call that was shown its seeds, though other calls were never sent   *)
(* or failed, and enters the chain again under their class.  No answer is  *)
(* lost without one of these reasons, unless a limit cut the rest.         *)
GeneratedNovel ==
  spawned # None =>
    LET got == spawned.got
        seeds == UNION {Range(spawned.segments[s].texts) : s \in DOMAIN spawned.segments}
        owner(l) == CHOOSE s \in Range(spawned.segments) : s.class = l
        kept == {fresh[k].content : k \in DOMAIN fresh}
    IN /\ \A k \in DOMAIN fresh :
            /\ \A d \in seeds : ~Similar(fresh[k].content, d)
            /\ \A l \in 1 .. k - 1 : ~Similar(fresh[k].content, fresh[l].content)
            /\ fresh[k].call \in DOMAIN got /\ IsOk(got[fresh[k].call]) /\ fresh[k].content \in Range(got[fresh[k].call].ok)
            /\ fresh[k].seeds = spawned.plans[fresh[k].call].ids
            /\ Range(fresh[k].seeds) \subseteq Range(owner(fresh[k].class).ids)
       /\ project.limit = None => \A n \in DOMAIN got : IsOk(got[n]) =>
            \A c \in Range(got[n].ok) \ (project.rejected \union kept) :
              \E d \in seeds \union kept : Similar(c, d)
       /\ project.generate = "off" => \A i \in DOMAIN batch :
            LET l == fresh[batch[i].record].class
            IN LabelOf(batch[i]) \in IF l = None THEN {None} \union Range(project.classes) ELSE {l}

(* What is delivered after verification is what the last review saw and    *)
(* passed: the same annotation, members, steps and seams, though repairs   *)
(* of other sequences may have moved the seams after its own review.  Its  *)
(* steps are those of its members, with a placeholder exactly where        *)
(* another sequence now interrupts it.  And no record is reviewed more     *)
(* often than the repairs allow, whoever asks for the review: its own      *)
(* verdict, or the seams of another sequence.                              *)
DeliveredWasReviewed ==
  /\ After({"done"}) /\ project.verify => \A i \in Active :
       batch[i].annotation # None =>
         seen[i].verdict = "pass" /\ seen[i].evidence = Evidence(batch[i])
  /\ (turn = "stream" \/ After({"done"})) /\ project.extract => \A i \in Active :
       IsSequence(batch[i].record) /\ batch[i].annotation # None =>
         batch[i].steps = StepsOf(batch[i].members, SeamsNow(i, batch, reviews, {}))
  /\ \A i \in DOMAIN reviews : reviews[i].rounds <= project.repairs + 1

(* Between rounds, and when the driver is left in whatever way, a frame is *)
(* absorbed exactly if it is a member of a sequence, and of one only: no   *)
(* frame is claimed twice, none is lost by surgery that failed half-way.   *)
(* The one exception is a wave of claims that a breaker or a cancellation  *)
(* tears: there a sequence still lists what its review has just dropped,   *)
(* and nothing else is out of place.                                       *)
Holders(p) == {i \in DOMAIN batch : IsAnchor(batch[i]) /\ p \in Range(batch[i].members)}

FrameOwned ==
  /\ turn = "stream" \/ After({"done", "discarded", "tripped"}) => \A p \in DOMAIN frames :
       Cardinality(Holders(p)) = IF frames[p].status = "absorbed" THEN 1 ELSE 0
  /\ turn = "torn" => \A p \in DOMAIN frames :
       /\ Cardinality(Holders(p)) <= 1
       /\ frames[p].status = "absorbed" => Holders(p) # {}
       /\ Holders(p) # {} => frames[p].status = "absorbed" \/ frames[p] = [status |-> "noise", by |-> "verify"]
=============================================================================
