-------------------------------- MODULE Dedup --------------------------------
(***************************************************************************)
(* Record deduplication (labelkit/operators/dedup.py) and its session      *)
(* overlay (labelkit/operators/dedup_session.py): four levels of likeness  *)
(* over one index, the order in which verdicts are reduced, and the        *)
(* reservation in which a session keeps what it would add to the index     *)
(* until its last attempt is committed.                                    *)
(*                                                                         *)
(* Features are points on a line: the same exact key is the same content,  *)
(* two points at a distance of at most Reach are near.                     *)
(***************************************************************************)
EXTENDS Integers, Sequences, FiniteSets, SequencesExt

CONSTANTS
  Feature,   \* content -> [exact, text, image, vector, kind]: exact is a key,
             \* text, image and vector are points or None, an image may be
             \* Undecodable; kind is "plain", "sequence", "sample" (of an image
             \* run) or "generated" (judged by its exact key alone)
  Reach,     \* greatest distance of two near points
  None, Undecodable,
  Configs,   \* possible [modality, requires, semantic, scope, streaming]
  Size,      \* bound: records of a batch or a session
  MaxRounds, \* bound: batches or sessions of a run
  MaxAttempts \* bound: attempts of a session

Contents == DOMAIN Feature

\* A point that a feature may have, and what the index keeps of a record.
Point == Int \union {None, Undecodable}
Entries == [id : Nat \X Nat, exact : {Feature[c].exact : c \in Contents},
            vector : Point, text : Point, image : Point]

ASSUME DedupAssumption ==
  /\ Reach \in Nat /\ Size \in Nat \ {0}
  /\ MaxRounds \in Nat \ {0} /\ MaxAttempts \in Nat \ {0}
  /\ \A c \in Configs : /\ c.modality \in {"text", "ui"}
                        /\ c.requires \in {"both", "tree", "image"}
                        /\ c.scope \in {"global", "batch"}
  /\ \A c \in Contents : {Feature[c].text, Feature[c].image, Feature[c].vector} \subseteq Point
  /\ None \notin Entries

VARIABLES
  config,     \* dedup.* of the project
  round,      \* number of the batch or session
  attempt,    \* attempt of the session
  pc,         \* where the round is
  records,    \* contents of its active records, in order
  outcomes,   \* what the embedding call of each record came to
  index,      \* DedupIndex of the owner: its kept records in insertion order
  generation, \* _ordinary_generation
  counted,    \* _counted_clusters of the owner
  clusters,   \* the counter dedup.clusters
  local,      \* the reservation: local index, verdicts, clusters, generation
  verdicts,   \* DedupInfo of the records of the round
  log         \* history: the verdicts of all rounds in the scope of the index

vars == <<config, round, attempt, pc, records, outcomes, index, generation,
          counted, clusters, local, verdicts, log>>

Id(i) == <<round, i>>

Abs(n) == IF n < 0 THEN -n ELSE n
Points(p) == p \notin {None, Undecodable}

\* Of some distances the place of the least, and of those the first.
Closest(d) ==
  CHOOSE i \in DOMAIN d : \A j \in DOMAIN d : d[i] < d[j] \/ (d[i] = d[j] /\ i <= j)

(* _query_near_text, _query_near_image and semantic_probe: of the entries  *)
(* in reach the nearest, and of those the one inserted first.              *)
Nearest(entries, f, p) ==
  LET hits == {i \in DOMAIN entries : Points(entries[i][f]) /\ Abs(entries[i][f] - p) <= Reach}
  IN IF ~Points(p) \/ hits = {} THEN None
     ELSE entries[Closest([i \in hits |-> Abs(entries[i][f] - p)])]

\* Mutant of NearestIn: what the session itself kept is preferred.
NearestInLocal(view, f, p) ==
  LET hits == {v \in DOMAIN view : Nearest(view[v], f, p) # None}
  IN IF hits = {} THEN None ELSE Nearest(view[CHOOSE v \in hits : \A w \in hits : w <= v], f, p)

\* max and min over the hits in the indexes of a view: the first wins a tie.
NearestIn(view, f, p) ==
  LET hits == {v \in DOMAIN view : Nearest(view[v], f, p) # None}
  IN IF hits = {} THEN None
     ELSE Nearest(view[Closest([v \in hits |-> Abs(Nearest(view[v], f, p)[f] - p)])], f, p)

Unique(r) == [kind |-> "unique", key |-> r.exact, kept |-> None]
Failed == [kind |-> "failed", key |-> None, kept |-> None]
Verdict(kind, e) == [kind |-> kind, key |-> e.exact, kept |-> e.id]

\* _compose's choice of the sides that have to agree.
Requires(r) ==
  IF r.image = Undecodable \/ r.kind = "sequence" THEN "tree"
  ELSE IF config.requires = "both" /\ r.kind = "sample" /\ r.text = None THEN "image"
  ELSE config.requires

Compose(r, tree, image) ==
  LET duplicate == IF config.modality = "text" THEN tree # None
                   ELSE CASE Requires(r) = "both" -> tree # None /\ image # None
                          [] Requires(r) = "tree" -> tree # None
                          [] Requires(r) = "image" -> image # None
  IN IF ~duplicate THEN Unique(r)
     ELSE IF tree # None /\ (config.modality = "text" \/ image = None)
          THEN Verdict("near_text", tree)
     ELSE IF tree # None THEN Verdict("near_both", tree)
     ELSE Verdict("near_image", image)

\* probe_prepared over the indexes of a view, the prefix first.
Probe(view, r) ==
  LET same(v) == {i \in DOMAIN view[v] : view[v][i].exact = r.exact}
      known == {v \in DOMAIN view : same(v) # {}}
      first == CHOOSE v \in known : \A w \in known : v <= w
      text == IF r.kind = "generated" THEN None ELSE r.text
      image == IF r.kind = "generated" \/ config.modality = "text" THEN None ELSE r.image
  IN IF known # {}
     THEN [Verdict("exact", view[first][CHOOSE i \in same(first) : \A j \in same(first) : i <= j])
             EXCEPT !.key = r.exact]
     ELSE Compose(r, NearestIn(view, "text", text), NearestIn(view, "image", image))

SemanticParticipates(r) ==
  /\ config.semantic /\ r.kind \notin {"generated", "sample"}
  /\ \/ config.modality = "text" \/ config.requires # "image"
     \/ r.image = Undecodable \/ r.kind = "sequence"

\* _semantic_verdict_kind, given whether the image side hit.
SemanticKind(r, image) ==
  IF config.modality = "text" THEN "near_semantic"
  ELSE IF image # None THEN "near_both"
  ELSE IF config.requires = "both" /\ r.image # Undecodable /\ r.kind # "sequence" THEN None
  ELSE "near_semantic"

Entry(id, r, vector) ==
  [id |-> id, exact |-> r.exact, vector |-> vector,
   text |-> IF r.kind = "generated" THEN None ELSE r.text,
   image |-> IF r.kind = "generated" \/ config.modality = "text" THEN None ELSE r.image]

\* Mutant of Reduce: a record is added before the semantic level judged it.
ReduceEarly(view, id, r, outcome) ==
  LET info == Probe(view, r)
      hit == NearestIn(view, "vector", r.vector)
  IN IF outcome = "vector" /\ info.kind = "unique" /\ hit # None
     THEN [verdict |-> Verdict("near_semantic", hit), adds |-> <<Entry(id, r, None)>>]
     ELSE [verdict |-> IF info.kind = "unique" /\ outcome = "broken" THEN Failed ELSE info,
           adds |-> IF info.kind = "unique" /\ outcome # "broken"
                    THEN <<Entry(id, r, IF outcome = "vector" THEN r.vector ELSE None)>>
                    ELSE <<>>]

(* _reduce_one: the verdict on record r and what it adds to the index.     *)
(* Without an embedding the first three levels stand.                      *)
Reduce(view, id, r, outcome) ==
  LET info == Probe(view, r)
      image == IF config.modality = "text" THEN None ELSE NearestIn(view, "image", r.image)
      hit == NearestIn(view, "vector", r.vector)
      kind == IF hit = None THEN None ELSE SemanticKind(r, image)
  IN IF info.kind # "unique" THEN [verdict |-> info, adds |-> <<>>]
     ELSE
     CASE outcome = "broken" -> [verdict |-> Failed, adds |-> <<>>]
       [] outcome \in {"none", "unavailable"} ->
            [verdict |-> info, adds |-> <<Entry(id, r, None)>>]
       [] outcome = "vector" /\ kind = None ->
            [verdict |-> info, adds |-> <<Entry(id, r, r.vector)>>]
       [] outcome = "vector" /\ kind # None -> [verdict |-> Verdict(kind, hit), adds |-> <<>>]

(* run's reduction loop: directly on an index (one), or on an overlay, the *)
(* prefix and what the session adds to it (two).                           *)
ReduceNext(done, prefix, i, c, outcome, indexes) ==
  LET view == IF indexes = 2 THEN <<prefix, done.own>> ELSE <<prefix \o done.own>>
      one == Reduce(view, Id(i), Feature[c], outcome)
  IN [own |-> done.own \o one.adds, verdicts |-> Append(done.verdicts, one.verdict)]

Reduction(prefix, recs, outs, indexes) ==
  LET after[n \in 0 .. Len(recs)] ==
        IF n = 0 THEN [own |-> <<>>, verdicts |-> <<>>]
        ELSE ReduceNext(after[n - 1], prefix, n, recs[n], outs[n], indexes)
  IN after[Len(recs)]

Duplicates(vs) == {i \in DOMAIN vs : vs[i].kind \notin {"unique", "failed"}}
KeysOf(vs) == {vs[i].key : i \in Duplicates(vs)}

NoReservation == [own |-> <<>>, counted |-> {}, generation |-> 0, held |-> FALSE]

Init == /\ config \in Configs
        /\ round = 0 /\ attempt = 0
        /\ pc = "idle"
        /\ records = <<>> /\ outcomes = <<>>
        /\ index = <<>> /\ generation = 0
        /\ counted = {} /\ clusters = 0
        /\ local = NoReservation
        /\ verdicts = <<>> /\ log = <<>>

Batches == UNION {[1..n -> Contents] : n \in 1..Size}

\* The next batch or session reaches the stage.
StartWith(recs) ==
         /\ pc = "idle" /\ round < MaxRounds
         /\ round' = round + 1 /\ attempt' = 1
         /\ records' = recs
         /\ pc' = "prepared"
         /\ UNCHANGED <<config, outcomes, index, generation, counted, clusters,
                        local, verdicts, log>>
Start == \E recs \in Batches : StartWith(recs)

(* _run_embeddings: what the leaf of each record that takes part comes to. *)
(* In a session an overflow ends the attempt and a fatal provider the run. *)
Possible(c) == IF SemanticParticipates(Feature[c])
               THEN {"vector", "unavailable", "broken"} ELSE {"none", "broken"}
Embed == /\ pc = "prepared"
         /\ \E outs \in [DOMAIN records -> {"vector", "unavailable", "broken", "none"}] :
              /\ \A i \in DOMAIN records : outs[i] \in Possible(records[i])
              /\ outcomes' = outs
         /\ pc' = "embedded"
         /\ UNCHANGED <<config, round, attempt, records, index, generation, counted,
                        clusters, local, verdicts, log>>

Prefix == IF config.scope = "global" THEN index ELSE <<>>

\* DedupStage.run outside a session: scope "batch" starts from an empty index.
RunBatch ==
  /\ pc = "embedded" /\ ~config.streaming
  /\ LET done == Reduction(Prefix, records, outcomes, 1)
     IN /\ index' = Prefix \o done.own
        /\ generation' = generation + Len(done.own)
        /\ counted' = counted \cup KeysOf(done.verdicts)
        /\ clusters' = clusters + Cardinality(KeysOf(done.verdicts) \ counted)
        /\ log' = (IF config.scope = "global" THEN log ELSE <<>>) \o done.verdicts
  /\ pc' = "idle" /\ records' = <<>> /\ outcomes' = <<>>
  /\ UNCHANGED <<config, round, attempt, verdicts, local>>

\* reserve_session: the same stage over an overlay of the owner's index.
Reserve ==
  /\ pc = "embedded" /\ config.streaming
  /\ LET done == Reduction(Prefix, records, outcomes, 2)
     IN /\ local' = [own |-> done.own, counted |-> KeysOf(done.verdicts),
                     generation |-> generation, held |-> TRUE]
        /\ verdicts' = done.verdicts
  /\ pc' = "reserved"
  /\ UNCHANGED <<config, round, attempt, records, outcomes, index, generation,
                 counted, clusters, log>>

(* A later stage asks for more capacity: discard, and another attempt over *)
(* other sequences (their contents change with the cut).                   *)
Discard ==
  /\ pc \in {"embedded", "reserved"} /\ config.streaming /\ attempt < MaxAttempts
  /\ local' = NoReservation
  /\ attempt' = attempt + 1
  /\ records' \in Batches
  /\ pc' = "prepared" /\ outcomes' = <<>> /\ verdicts' = <<>>
  /\ UNCHANGED <<config, round, index, generation, counted, clusters, log>>

\* commit: the reservation must be live and of this generation of the index.
Commit ==
  /\ pc = "reserved" /\ local.held /\ local.generation = generation
  /\ index' = Prefix \o local.own
  /\ generation' = generation + Len(local.own)
                   + (IF config.scope = "batch" THEN 1 ELSE 0)
  /\ counted' = counted \cup local.counted
  /\ clusters' = clusters + Cardinality(local.counted \ counted)
  /\ log' = (IF config.scope = "global" THEN log ELSE <<>>) \o verdicts
  /\ local' = NoReservation
  /\ pc' = "idle" /\ records' = <<>> /\ outcomes' = <<>> /\ verdicts' = <<>>
  /\ UNCHANGED <<config, round, attempt>>

Next == Start \/ Embed \/ RunBatch \/ Reserve \/ Discard \/ Commit

Spec == Init /\ [][Next]_vars

-----------------------------------------------------------------------------
(* A session that is judged on an overlay and committed in one piece gets  *)
(* the verdicts, and leaves the index, that the stage would have produced  *)
(* directly on the index of its owner.                                     *)
OverlayAgrees ==
  [][Commit => LET direct == Reduction(Prefix, records, outcomes, 1)
               IN verdicts = direct.verdicts /\ index' = Prefix \o direct.own]_vars

(* A record is only dropped in favour of one that was itself kept, and the *)
(* index holds exactly the kept records: no chain of duplicates loses the  *)
(* last one, and no discarded attempt leaves an entry behind; nor a count, *)
(* as dedup.clusters has each cluster once over the whole run, whichever   *)
(* attempt saw it first.                                                   *)
KeptIsKept ==
  /\ \A i \in DOMAIN log : log[i].kind \notin {"unique", "failed"} =>
       \E e \in DOMAIN index : index[e].id = log[i].kept
  /\ Len(index) = Cardinality({i \in DOMAIN log : log[i].kind = "unique"})
  /\ clusters = Cardinality(counted)
=============================================================================
