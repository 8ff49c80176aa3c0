---------------------------- MODULE SessionWorkflow ----------------------------
(***************************************************************************)
(* One process session from its frames to its output                       *)
(* (labelkit/orchestration/session_workflow.py, session_capacity.py and    *)
(* common/contracts/sequence_capacity.py): segment and stitch run once;    *)
(* the other stages run on a fresh copy of the partition, and whenever a   *)
(* request overflows the context the attempt is discarded, a sequence is   *)
(* cut in two or its failure is established as final, and the stages run   *)
(* again.                                                                  *)
(*                                                                         *)
(* All requests of a stage use one profile, all sequences one label; what  *)
(* verification does to the membership inside an attempt is not modelled.  *)
(***************************************************************************)
EXTENDS Stitching

CONSTANTS
  Stages,     \* the stages after stitch, in order
  MaxWave     \* bound: failures raised by one stage at once

Units == {"sequence", "pairwise", "frame", "transition", "fixed"}

ASSUME SessionAssumption ==
  /\ Stages \in Seq(STRING) /\ Stages # <<>> /\ MaxWave \in Nat \ {0}
  /\ \A c \in Configs : c.units \in [ToSet(Stages) -> SUBSET Units]
     \* units of the requests of each stage that may overflow

VARIABLES
  at,          \* the stages of this attempt that are done
  failed,      \* sequences that failed in this attempt
  terminals,   \* self.terminals: failures established as final
  pending,     \* failures of the wave that are not handled yet
  progress,    \* whether the wave cut or established anything
  reservation, \* whether this attempt holds a deduplication reservation
  captured,    \* stages counted in this attempt
  merged,      \* stages whose counters were merged, in order
  episodes,    \* sequences that segment made
  netEpisodes, \* and those that cuts added: SessionPartition.net_episodes
  delta        \* what the commit added to counts.episodes

sessionVars == <<at, failed, terminals, pending, progress, reservation, captured,
                 merged, episodes, netEpisodes, delta>>
vars == <<segmentVars, phase, items, stitchVars, sessionVars>>

-------------------------------------------------------------------------------
Whole(e) == [root |-> e.root, cut |-> e.cut, pos |-> e.pos]
At(e, members) == [root |-> e.root, cut |-> e.cut, pos |-> members]
Names(x, e) == x.root = e.root /\ x.cut = e.cut
Active(e) == e.status = "active"
Failure(stage, unit, targets) == [stage |-> stage, unit |-> unit, targets |-> targets]

\* terminal_capacity_failure: a failure established for the target before.
SameTarget(x, y, unit) == IF unit = "frame" THEN x.root = y.root /\ x.pos = y.pos ELSE Names(x, y)
Known(f, x) ==
  \E g \in terminals : /\ g.stage = f.stage /\ g.unit = f.unit
                       /\ \E y \in g.targets : SameTarget(y, x, f.unit)

\* project_terminals: what is final fails before its stage runs again.
Doomed(stage) ==
  {i \in DOMAIN items : /\ Active(items[i]) /\ i \notin failed
                        /\ \E u \in Units \ {"frame"} :
                             Known(Failure(stage, u, {}), Whole(items[i]))}

(* The requests of a stage that may overflow: of one sequence, of two that *)
(* are compared, of a pool that shares a fixed prompt, of a frame, of two  *)
(* frames next to each other.                                              *)
Next2(members) == {{p, q} : p, q \in members} \ {{p} : p \in members}
Adjacent(members) == {m \in Next2(members) : ~\E p \in members : Min(m) < p /\ p < Max(m)}
Requests(stage) ==
  LET in == {items[i] : i \in {j \in DOMAIN items :
                Active(items[j]) /\ j \notin failed \union Doomed(stage)}}
      some(n) == {s \in SUBSET in : s # {} /\ Cardinality(s) <= n}
      for(u) == CASE u = "sequence"   -> {{Whole(e)} : e \in in}
                  [] u = "pairwise"   -> {{Whole(e) : e \in s} : s \in some(2) \ some(1)}
                  [] u = "fixed"      -> {{Whole(e) : e \in s} : s \in some(2)}
                  [] u = "frame"      -> UNION {{{At(e, {p})} : p \in e.pos} : e \in in}
                  [] u = "transition" -> UNION {{{At(e, m)} : m \in Adjacent(e.pos)} : e \in in}
  IN UNION {{Failure(stage, u, x) : x \in for(u)} : u \in cfg.units[stage]}

\* raise_session_capacities: only failures that are not final already.
Overflows(stage) == {f \in Requests(stage) : ~\A x \in f.targets : Known(f, x)}

-------------------------------------------------------------------------------
\* Mutant of Splittable: a sequence of two is taken for a minimum.
SplittableLonger(f) ==
  {i \in DOMAIN items : /\ f.unit \in {"sequence", "pairwise"} /\ Active(items[i])
                        /\ \E x \in f.targets : Names(x, items[i])
                        /\ Cardinality(items[i].pos) > 2}

(* SessionPartition.split: the longest of the sequences that can be cut,   *)
(* the first of equals, at the middle of its members.                      *)
Splittable(f) ==
  {i \in DOMAIN items : /\ f.unit \in {"sequence", "pairwise"} /\ Active(items[i])
                        /\ \E x \in f.targets : Names(x, items[i])
                        /\ Cardinality(items[i].pos) > 1}
Parent(f) ==
  CHOOSE i \in Splittable(f) : \A j \in Splittable(f) :
    LET n == Cardinality(items[i].pos) m == Cardinality(items[j].pos)
    IN n > m \/ (n = m /\ Min(items[i].pos) <= Min(items[j].pos))

\* Mutant of SeamsWithin: the seams of the parent are kept as they are.
SeamsKept(e, first, len) == {i \in e.seams : i < len - 1}

\* _project_fragments: a seam keeps its pair of members, counted anew.
SeamsWithin(e, first, len) ==
  {i - first : i \in {j \in e.seams : first <= j /\ j < first + len - 1}}

Child(e, members, first, right) ==
  [e EXCEPT !.cut = members, !.pos = members, !.sealed = TRUE,
            !.lower = IF Min(members) >= right THEN right ELSE @,
            !.upper = IF Min(members) >= right THEN @ ELSE right,
            !.seams = SeamsWithin(e, first, Cardinality(members))]

Children(e) ==
  LET s == InOrder(e.pos)
      middle == Len(s) \div 2
  IN <<Child(e, {s[i] : i \in 1 .. middle}, 0, s[middle + 1]),
       Child(e, {s[i] : i \in middle + 1 .. Len(s)}, middle, s[middle + 1])>>

(* _project_failure_targets: what was said of the parent by its length is  *)
(* void, a fixed part is shared by both children, a frame or a transition  *)
(* belongs to the child that has it.                                       *)
Projected(f, parent, children) ==
  LET of(x) == IF ~Names(x, parent) THEN {x}
               ELSE {At(e, IF f.unit = "fixed" THEN e.pos ELSE x.pos) :
                     e \in {c \in ToSet(children) :
                              \A p \in (IF f.unit = "fixed" THEN c.pos ELSE x.pos) :
                                c.lower <= p /\ p < c.upper}}
  IN Failure(f.stage, f.unit, UNION {of(x) : x \in f.targets})
Survives(f, parent, children) ==
  /\ ~(f.unit \in {"sequence", "pairwise"} /\ \E x \in f.targets : Names(x, parent))
  /\ Projected(f, parent, children).targets # {}

\* _request_current and the look at the failures known already.
Current(f) ==
  /\ f.targets # {}
  /\ \A x \in f.targets : \E i \in DOMAIN items : Active(items[i]) /\ Names(x, items[i])
Handled(f) == ~Current(f) \/ f \in terminals

-------------------------------------------------------------------------------
Init ==
  /\ InitSegment /\ InitStitch
  /\ at = 0 /\ failed = {} /\ terminals = {} /\ pending = <<>> /\ progress = FALSE
  /\ reservation = FALSE /\ captured = <<>> /\ merged = <<>> /\ netEpisodes = 0
  /\ episodes = 0 /\ delta = 0

Upstream == (SegmentNext /\ UNCHANGED stitchVars) \/ StitchNext
RunUpstream ==
  /\ Upstream
  /\ episodes' = Len(items')
  /\ UNCHANGED <<at, failed, terminals, pending, progress, reservation, captured, merged,
                 netEpisodes, delta>>

Stage == Stages[at + 1]

\* _stage: it ends, whatever it does to single records; dedup holds a reservation.
StageEnds ==
  /\ phase = "serve" /\ at < Len(Stages)
  /\ failed' = failed \union Doomed(Stage)
  /\ reservation' = (reservation \/ Stage = "dedup")
  /\ captured' = Append(captured, Stage)
  /\ at' = at + 1
  /\ UNCHANGED <<segmentVars, stitchVars, phase, items, terminals, pending, progress,
                 merged, episodes, netEpisodes, delta>>

\* Mutant of Discard: the counts of the attempt stay captured.
DiscardUncounted ==
  /\ reservation' = FALSE /\ failed' = {} /\ at' = 0 /\ UNCHANGED captured

\* SessionCapacityError: the attempt is discarded with its reservation and its counts.
Discard ==
  /\ reservation' = FALSE /\ captured' = <<>> /\ failed' = {} /\ at' = 0

StageOverflows ==
  /\ phase = "serve" /\ at < Len(Stages)
  /\ \E wave \in UNION {[1 .. n -> Overflows(Stage)] : n \in 1 .. MaxWave} :
       pending' = wave
  /\ Discard
  /\ phase' = "advance" /\ progress' = FALSE
  /\ UNCHANGED <<segmentVars, stitchVars, items, terminals, merged, episodes, netEpisodes, delta>>

\* _advance, one failure: passed over, cut, or established as final.
PassOver ==
  /\ phase = "advance" /\ pending # <<>>
  /\ Handled(Head(pending))
  /\ pending' = Tail(pending)
  /\ UNCHANGED <<segmentVars, stitchVars, phase, items, at, failed, terminals, progress,
                 reservation, captured, merged, episodes, netEpisodes, delta>>

Split ==
  /\ phase = "advance" /\ pending # <<>>
  /\ LET f == Head(pending)
     IN /\ ~Handled(f) /\ Splittable(f) # {}
        /\ \E i \in {Parent(f)} : \E children \in {Children(items[i])} :
             LET left == Tail(pending)
                 kept == Picked(left, {k \in DOMAIN left : Survives(left[k], items[i], children)})
             IN /\ items' = SubSeq(items, 1, i - 1) \o children \o SubSeq(items, i + 1, Len(items))
                /\ terminals' = {Projected(g, items[i], children) :
                     g \in {h \in terminals : Survives(h, items[i], children)}}
                /\ pending' = [k \in DOMAIN kept |-> Projected(kept[k], items[i], children)]
  /\ progress' = TRUE /\ netEpisodes' = netEpisodes + 1
  /\ UNCHANGED <<segmentVars, stitchVars, phase, at, failed, reservation, captured, merged,
                 episodes, delta>>

\* Mutant of Establish: the failure is not recorded.
EstablishNothing ==
  /\ phase = "advance" /\ pending # <<>>
  /\ ~Handled(Head(pending)) /\ Splittable(Head(pending)) = {}
  /\ pending' = Tail(pending) /\ progress' = TRUE
  /\ UNCHANGED <<segmentVars, stitchVars, phase, items, at, failed, terminals, reservation,
                 captured, merged, episodes, netEpisodes, delta>>

Establish ==
  /\ phase = "advance" /\ pending # <<>>
  /\ ~Handled(Head(pending)) /\ Splittable(Head(pending)) = {}
  /\ terminals' = terminals \union {Head(pending)}
  /\ pending' = Tail(pending) /\ progress' = TRUE
  /\ UNCHANGED <<segmentVars, stitchVars, phase, items, at, failed, reservation,
                 captured, merged, episodes, netEpisodes, delta>>

\* The next attempt, or the InternalError of a wave without progress.
Recompute ==
  /\ phase = "advance" /\ pending = <<>>
  /\ phase' = IF progress THEN "serve" ELSE "internal"
  /\ UNCHANGED <<segmentVars, stitchVars, items, sessionVars>>

(* validate_session: the live sequences have members in their bounds, no   *)
(* two claim the same frame, and what they claim is what was absorbed.     *)
Claiming == {i \in DOMAIN items : items[i].status # "stitched"}
Valid ==
  /\ \A i \in Claiming : /\ items[i].pos # {}
                         /\ \A p \in items[i].pos : items[i].lower <= p /\ p < items[i].upper
  /\ \A i, j \in Claiming : i # j => items[i].pos \intersect items[j].pos = {}
  /\ {p \in Positions : frames[p] = "absorbed"} = UNION {items[i].pos : i \in Claiming}

\* _commit: what upstream and the last attempt counted is merged, once.
Commit ==
  /\ phase = "serve" /\ at = Len(Stages)
  /\ IF Valid
     THEN /\ phase' = "done"
          /\ merged' = <<"upstream">> \o captured
          /\ delta' = episodes + netEpisodes
          /\ reservation' = FALSE /\ captured' = <<>> /\ UNCHANGED <<at, failed>>
     ELSE phase' = "internal" /\ Discard /\ UNCHANGED <<merged, delta>>
  /\ UNCHANGED <<segmentVars, stitchVars, items, terminals, pending, progress, episodes,
                 netEpisodes>>

(* A cancellation, an open breaker or a fatal of a stage: the session ends *)
(* with it and leaves nothing behind.                                      *)
Interrupted ==
  /\ phase \notin {"advance", "done", "raised", "internal"}
  /\ phase' = "raised" /\ Discard
  /\ UNCHANGED <<segmentVars, stitchVars, items, terminals, pending, progress, merged,
                 episodes, netEpisodes, delta>>

Progress ==
  \/ RunUpstream
  \/ StageEnds \/ StageOverflows
  \/ PassOver \/ Split \/ Establish \/ Recompute
  \/ Commit

Next == Progress \/ Interrupted

Spec == Init /\ [][Next]_vars

\* The chain of a session is one coroutine; whether it is cancelled is up to others.
FairSpec == Spec /\ WF_vars(Progress)

-------------------------------------------------------------------------------
(* However often windows were halved, the relation of every frame was      *)
(* judged together with the frame before it: halves and windows overlap in *)
(* one frame (_judge_span_degrading, pack_windows).  And no sequence of    *)
(* several members leaves segmentation and stitching that a request        *)
(* downstream is known to be too small for (capacity_episodes,             *)
(* _guard_capacity in both passes).                                        *)
UpstreamSound ==
  /\ phase = "judge" /\ spans = <<>> /\ broken = {} => paired = 0 .. Frames - 2
  /\ phase \in {"repass", "finalize"} \/ (phase = "serve" /\ netEpisodes = 0) =>
       \A i \in DOMAIN items : Active(items[i]) /\ Cardinality(items[i].pos) > 1 =>
         Preview(items[i].pos) # "sequence"

(* The sequence before a cut neither takes another member nor goes into    *)
(* another thread, whichever of the two passes, a rescue or a repeated     *)
(* merge comes after the cut (_sealed, _seal_capacity, capacity_episodes). *)
CutSeals ==
  [][\A c \in cuts, i \in DOMAIN items :
       phase \in {"stitch", "repass"} /\ c[1] \in items[i].pos =>
         /\ items'[i].status = items[i].status
         /\ items'[i].pos = items[i].pos]_vars

(* Whatever overflows when and however a wave was cut, there is no         *)
(* internal error: each wave makes progress, and the sequences always      *)
(* claim the frames that were absorbed, each once and within its bounds    *)
(* (validate_session, _advance).  What is final is still there to fail,    *)
(* and a sequence that could have been shortened has not failed.           *)
MinimaFail ==
  /\ phase # "internal"
  /\ \A f \in terminals :
       /\ Current(f)
       /\ f.unit \in {"sequence", "pairwise"} =>
            \A i \in DOMAIN items : (\E x \in f.targets : Names(x, items[i])) =>
              Cardinality(items[i].pos) = 1

(* A seam always marks two neighbours between which another thread had a   *)
(* frame, in the threads and in every piece cut from them.                 *)
SeamsMarkInterruptions ==
  cfg.stitch /\ phase \in {"serve", "advance", "done"} =>
    \A i \in DOMAIN items : Active(items[i]) =>
      items[i].seams =
        Foreign(items[i].pos, UNION {items[j].pos : j \in {k \in DOMAIN items : Active(items[k])}})

(* The counters of upstream and of each stage of the last attempt, and no  *)
(* others, reach the totals once; episodes are counted with the cuts.      *)
CountsOnce ==
  IF phase = "done"
  THEN /\ merged = <<"upstream">> \o Stages
       /\ delta = Len(items) /\ ~reservation
  ELSE /\ merged = <<>> /\ delta = 0
       /\ phase \in {"advance", "raised", "internal"} => ~reservation

(* The recomputation ends: every wave cuts a sequence or makes a failure   *)
(* final, and cuts void only what they replace.                            *)
SessionEnds == <>(phase \in {"done", "raised"})
===============================================================================
