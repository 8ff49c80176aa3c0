------------------------------- MODULE Generate -------------------------------
(***************************************************************************)
(* Flat generation (labelkit/operators/generate.py and generation/flat.py):*)
(* calls that each show a few seeds and ask for new texts, and the filter  *)
(* that keeps the texts near no seed and near no text kept before.  Within *)
(* a chain the seeds are the best records of each class and the survivors  *)
(* enter the chain again as a batch of their own; without any input the    *)
(* seeds are examples of the project, or there are none.                   *)
(*                                                                         *)
(* Which provider and which style a call uses changes only its wording and *)
(* is left out; how many seeds fit the prompt is any number of "rooms".    *)
(***************************************************************************)
EXTENDS Quality

VARIABLES
  fresh,   \* survivors: [content, class, seeds, call]
  spawned  \* history: pools of seeds, plans as sent and what each came to

generateVars == <<fresh, spawned>>
ratedVars == <<qualityVars, generateVars>>

GenerateOK(p) ==
  /\ p.generate \in {"off", "inline", "alone"}
  /\ p.generate = "inline" => p.quality # "off" /\ \A r \in DOMAIN p.members : p.members[r] = <<>>
  /\ p.seed_min = None \/ p.seed_min \in 0 .. 60  \* in sixtieths
  /\ p.num_per_record \in Nat \ {0} /\ p.seeds_per_call \in Nat \ {0} /\ p.num_per_call \in Nat \ {0}
  /\ p.examples \in Seq(Contents) /\ p.standalone \in Nat
  /\ p.generate = "alone" => p.contents = <<>> /\ (p.examples = <<>>) = (p.standalone > 0)
  /\ p.limit = None \/ p.limit \in Nat \ {0}
  /\ p.rooms \subseteq Int  \* seeds a prompt has room for, -1: not even for none
  /\ \A s \in p.samples_of : /\ s \in Seq(Contents) /\ Len(s) = p.num_per_call
                              /\ \A c \in Range(s) : Points(Feature[c].text)
  /\ p.generate_failures \subseteq CallErrors /\ p.rejected \subseteq Contents
  /\ None \notin Got(p.samples_of, p.generate_failures)

CeilDiv(a, b) == (a + b - 1) \div b

-----------------------------------------------------------------------------
(* The median of a sequence of scores, each a fraction.                    *)
AtLeast(a, b) == ~Above(b, a)
Median(scores) ==
  LET sorted == SortSeq(scores, LAMBDA a, b : Above(b, a))
      n == Len(scores)
      low == sorted[(n + 1) \div 2]
      high == sorted[n \div 2 + 1]
  IN <<low[1] * high[2] + high[1] * low[2], 2 * low[2] * high[2]>>

\* _select_pool: the records of a class no worse than the least score of a seed.
SeedPool(label) ==
  LET scored == InOrder({i \in Range(PoolOf(label)) : batch[i].score # None})
      least == IF project.seed_min # None THEN <<project.seed_min, 1>>
               ELSE IF project.threshold # None THEN <<project.threshold, 1>>
               ELSE Median([k \in DOMAIN scored |-> batch[scored[k]].score])
  IN InOrder({i \in Range(scored) : AtLeast(batch[i].score, least)})

Segment(label, ids, texts, calls) == [class |-> label, ids |-> ids, texts |-> texts, calls |-> calls]

(* select_seeds and build_class_segments: a segment for each class that has *)
(* seeds, by name, the order in which the project declares the classes.     *)
ClassSegments ==
  LET all == <<None>> \o project.classes
      named == Picked(all, {n \in DOMAIN all : all[n] \in Pools /\ SeedPool(all[n]) # <<>>})
  IN [k \in DOMAIN named |->
       LET pool == SeedPool(named[k])
           ids == [j \in DOMAIN pool |-> batch[pool[j]].record]
       IN Segment(named[k], ids, [j \in DOMAIN ids |-> project.contents[ids[j]]],
                  CeilDiv(Len(pool) * project.num_per_record, project.num_per_call))]

\* generate_all: the examples have no ids, and there may be none.
OneSegment ==
  LET asked == IF project.examples # <<>> THEN Len(project.examples) * project.num_per_record
               ELSE project.standalone
  IN Segment(None, <<>>, project.examples, CeilDiv(asked, project.num_per_call))

Segments == IF project.generate = "alone" THEN <<OneSegment>> ELSE ClassSegments
Limit == IF project.generate = "alone" THEN project.limit ELSE None

-----------------------------------------------------------------------------
\* build_segment_plans: the segment each call belongs to.
Owners(segments) ==
  LET all == FlattenSeq([s \in DOMAIN segments |-> [c \in 1 .. segments[s].calls |-> segments[s]]])
      most == IF Limit = None THEN Len(all) ELSE CeilDiv(Limit, project.num_per_call)
  IN SubSeq(all, 1, Min({most, Len(all)}))

\* _draw_seeds: a random sample, in random order.
Draws(owner) ==
  LET n == Len(owner.texts)
  IN {d \in [1 .. Min({project.seeds_per_call, n}) -> 1 .. n] : IsInjective(d)}

(* fit_plan_seeds: seeds are dropped from the tail until the prompt fits;   *)
(* a plan that does not fit with a single one is not sent.                  *)
Fitted(owner, draw, room) ==
  LET fits == room >= Min({Len(draw), 1})
      kept == IF fits THEN SubSeq(draw, 1, Min({Len(draw), Max({room, 0})})) ELSE draw
  IN [class |-> owner.class, sent |-> fits,
      texts |-> [k \in DOMAIN kept |-> owner.texts[kept[k]]],
      ids |-> IF owner.ids = <<>> THEN <<>> ELSE [k \in DOMAIN kept |-> owner.ids[kept[k]]]]

\* Mutant of Aligned: the outcomes are taken from the first plan on.
AlignedFirst(plans, dispatched) ==
  [k \in DOMAIN plans |-> IF k \in DOMAIN dispatched THEN dispatched[k] ELSE None]

\* _dispatch_plans: a plan that was not sent takes no outcome.
Aligned(plans, dispatched) ==
  [k \in DOMAIN plans |->
     IF plans[k].sent THEN dispatched[Cardinality({l \in 1 .. k : plans[l].sent})] ELSE None]

\* SimilarityFilter: MinHash over the normalized text.
Similar(c, d) ==
  LET a == Feature[c].text
      b == Feature[d].text
  IN Points(a) /\ Points(b) /\ Abs(a - b) <= Reach

(* postprocess_samples: the filter knows the seeds of all segments, then    *)
(* each sample in the order of the plans; the validator is asked first.     *)
Survivors(segments, plans, results) ==
  LET seeds == FlattenSeq([s \in DOMAIN segments |-> segments[s].texts])
      candidates == FlattenSeq([k \in DOMAIN plans |->
        IF results[k] = None \/ ~IsOk(results[k]) THEN <<>>
        ELSE [n \in DOMAIN results[k].ok |->
                [content |-> results[k].ok[n], class |-> plans[k].class,
                 seeds |-> plans[k].ids, call |-> k]]])
      novel(c, kept) == \A d \in Range(seeds) \union {kept[n].content : n \in DOMAIN kept} :
                          ~Similar(c.content, d)
      after[n \in 0 .. Len(candidates)] ==
        IF n = 0 THEN <<>>
        ELSE LET c == candidates[n]
             IN IF c.content \in project.rejected \/ ~novel(c, after[n - 1]) THEN after[n - 1]
                ELSE Append(after[n - 1], c)
  IN after[Len(candidates)]

(* GenerateStage.run and generate_all: one wave of calls; a call that fails *)
(* is void.  (A tripped breaker ends the run instead.)                      *)
Spawn(segments, owners) ==
  \E draws \in {d \in [DOMAIN owners -> UNION {Draws(owners[k]) : k \in DOMAIN owners}] :
                 \A k \in DOMAIN owners : d[k] \in Draws(owners[k])},
     rooms \in [DOMAIN owners -> project.rooms] :
    LET plans == [k \in DOMAIN owners |-> Fitted(owners[k], draws[k], rooms[k])]
    IN \E got \in [{k \in DOMAIN plans : plans[k].sent} ->
                     Got(project.samples_of, project.generate_failures)] :
         LET order == InOrder(DOMAIN got)
             results == Aligned(plans, [n \in DOMAIN order |-> got[order[n]]])
             kept == Survivors(segments, plans, results)
         IN /\ fresh' = IF Limit = None THEN kept ELSE SubSeq(kept, 1, Min({Limit, Len(kept)}))
            /\ spawned' = [segments |-> segments, plans |-> plans, got |-> got]

GenerateWave ==
  /\ stage = "generate"
  /\ IF project.generate = "off" \/ Segments = <<>> THEN UNCHANGED generateVars
     ELSE \E segments \in {Segments} : \E owners \in {Owners(segments)} : Spawn(segments, owners)
  /\ stage' = IF project.generate = "alone" THEN "done" ELSE "annotate"
  /\ UNCHANGED <<project, classifyVars, qualityVars, vars>>
=============================================================================
