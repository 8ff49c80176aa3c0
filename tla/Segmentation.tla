----------------------------- MODULE Segmentation -----------------------------
(***************************************************************************)
(* Segmentation of one process session into episodes                       *)
(* (labelkit/operators/segment.py, segment_capacity.py and the window      *)
(* packer of common/inference/budget.py): windows that overlap in one      *)
(* frame are judged, a window that overflows the context is halved, the    *)
(* relations of the frames become episodes, and an episode that no request *)
(* downstream can hold is cut.                                             *)
(*                                                                         *)
(* Frames are their positions 0 .. Frames - 1 in the session.  A relation  *)
(* of the vocabulary is what it does to the frame: it continues, it starts *)
(* a new episode (returns_to_entry, context_switch), or it is noise        *)
(* (interruption).                                                         *)
(***************************************************************************)
EXTENDS Ordering, Integers, Sequences, FiniteSets, SequencesExt, FiniteSetsExt

CONSTANTS
  Configs  \* possible projects and sessions, see ConfigOK

Relations == {"continues", "boundary", "interruption"}
Unjudged == "unjudged"

ConfigOK(c) ==
  /\ c.frames \in Nat \ {0}         \* of the session
  /\ c.refine \in BOOLEAN           \* segment.strategy is llm or hybrid
  /\ c.window \in Nat /\ c.window >= 2 /\ c.budget \in Nat  \* of one window, in frames
  /\ c.noise_filter \in BOOLEAN /\ c.min_len \in Nat \ {0}
  /\ c.segment_on_error \in {"fail", "keep"}
  /\ c.room \in Nat                 \* members a request downstream holds;
                                    \* with 0 its fixed part alone is too large
  /\ c.heavy \subseteq 0 .. c.frames - 1  \* frames no request holds, even alone
  /\ c.stitch \in BOOLEAN /\ c.rescue_short \in BOOLEAN /\ c.repass \in BOOLEAN
  /\ c.max_open \in Nat \ {0} /\ c.stale_gap_steps \in Nat
  /\ c.bias \in {"llm", "conservative"} /\ c.votes \in Nat \ {0}
  /\ c.stitch_on_error \in {"fail", "keep"}

ASSUME SegmentationAssumption == \A c \in Configs : ConfigOK(c)

VARIABLES
  cfg,     \* the project
  phase,   \* "plan", "judge", "assembled", and what follows segmentation
  spans,   \* windows still to be judged, in order: <<start, end, job>>, end
           \* excluded; the halves of a window are of its job
  broken,  \* failures of the windows so far
  rel,     \* relation of each frame
  paired,  \* history: the p for which some window judged p and p + 1 together
  frames,  \* status of each frame
  items    \* the sequence envelopes of the session, in order of creation

Frames == cfg.frames
Positions == 0 .. Frames - 1
segmentVars == <<cfg, spans, broken, rel, paired, frames>>

-------------------------------------------------------------------------------
(* pack_windows: the longest window that keeps the budget and the cap, of  *)
(* two frames at least; the next one starts at its last frame.             *)
WindowEnd(start) ==
  LET room == Min({cfg.window, cfg.budget, Frames - start})
  IN Min({start + Max({room, 2}), Frames})

PackWindows ==
  LET from[start \in 0 .. Frames] ==
        LET end == WindowEnd(start)
        IN <<<<start, end, start>>>> \o (IF end = Frames THEN <<>> ELSE from[end - 1])
  IN from[0]

\* The two halves of a window that overflows: they share the middle frame.
Halves(s) ==
  LET mid == (s[1] + s[2]) \div 2 IN <<<<s[1], mid + 1, s[3]>>, <<mid, s[2], s[3]>>>>

-------------------------------------------------------------------------------
(* A sequence: positions in the session, the bounds its members may come   *)
(* from, and whether it was cut behind.  Its id is made of its positions   *)
(* when it is created; a piece cut off later (cut) keeps the root.         *)
Envelope(members, lower, upper, sealed) ==
  [root |-> members, cut |-> {}, pos |-> members, lower |-> lower, upper |-> upper,
   sealed |-> sealed, status |-> "active", seams |-> {}]

(* SessionCapacityChecker.preview: the first request downstream that the   *)
(* members would overflow, by what could shorten it.                       *)
Preview(members) ==
  IF cfg.room = 0 THEN "fixed"
  ELSE IF Cardinality(members) > cfg.room \/ members \intersect cfg.heavy # {} THEN "sequence"
  ELSE "fits"

(* _partition_members: grow a part frame by frame until the preview says   *)
(* no; a frame that fits nowhere is a part that failed.  Any other reason  *)
(* than the sequence itself keeps the episode whole.                       *)
Partition(members) ==
  LET s == InOrder(members)
      Reach(i) == Max({i - 1} \union {j \in i .. Len(s) :
                    \A k \in i .. j : Preview({s[x] : x \in i .. k}) = "fits"})
      from[i \in 1 .. Len(s) + 1] ==
        IF i > Len(s) THEN <<>>
        ELSE LET stop == Max({Reach(i), i})
             IN <<[pos |-> {s[x] : x \in i .. stop}, failed |-> Reach(i) < i]>> \o from[stop + 1]
  IN IF Preview({s[1]}) = "fixed" THEN <<[pos |-> members, failed |-> FALSE]>>
     ELSE from[1]

\* Mutant of CapacityEpisodes: the part before a cut is not sealed.
CapacityEpisodesOpen(members) ==
  LET parts == Partition(members)
  IN [i \in DOMAIN parts |->
       [Envelope(parts[i].pos,
                 IF i = 1 THEN 0 ELSE Min(parts[i].pos),
                 IF i = Len(parts) THEN Frames ELSE Min(parts[i + 1].pos),
                 FALSE)
        EXCEPT !.status = IF parts[i].failed THEN "failed" ELSE "active"]]

\* capacity_episodes: a cut bounds both sides and seals the one before it.
CapacityEpisodes(members) ==
  LET parts == Partition(members)
  IN [i \in DOMAIN parts |->
       [Envelope(parts[i].pos,
                 IF i = 1 THEN 0 ELSE Min(parts[i].pos),
                 IF i = Len(parts) THEN Frames ELSE Min(parts[i + 1].pos),
                 i < Len(parts))
        EXCEPT !.status = IF parts[i].failed THEN "failed" ELSE "active"]]

-------------------------------------------------------------------------------
(* _assemble: noise is dropped, a frame with a boundary relation starts a  *)
(* segment, and a segment shorter than min_len is dropped.                 *)
Kept == {p \in Positions : ~(cfg.noise_filter /\ rel[p] = "interruption")}
Starts == {p \in Kept : p = Min(Kept) \/ rel[p] = "boundary"}
Segments ==
  LET starts == InOrder(Starts)
  IN [i \in DOMAIN starts |->
       {p \in Kept : p >= starts[i] /\ (i < Len(starts) => p < starts[i + 1])}]

Assemble ==
  \E long \in {Picked(Segments, {i \in DOMAIN Segments : Cardinality(Segments[i]) >= cfg.min_len})} :
    /\ items' = FlattenSeq([i \in DOMAIN long |-> CapacityEpisodes(long[i])])
    /\ frames' = [p \in Positions |->
         IF p \notin Kept THEN "noise"
         ELSE IF \E i \in DOMAIN long : p \in long[i] THEN "absorbed" ELSE "below_min_len"]

WholeEpisode ==
  /\ items' = CapacityEpisodes(Positions)
  /\ frames' = [p \in Positions |-> "absorbed"]

(* _dispose_failed: an overflow fails the session whatever on_error says,  *)
(* otherwise "keep" makes one degraded episode of it.                      *)
DisposeFailed ==
  IF cfg.segment_on_error = "fail" \/ "overflow" \in broken
  THEN items' = <<>> /\ frames' = [p \in Positions |-> "failed"]
  ELSE WholeEpisode

-------------------------------------------------------------------------------
InitSegment ==
  /\ cfg \in Configs
  /\ phase = "plan"
  /\ spans = <<>> /\ broken = {} /\ paired = {}
  /\ rel = [p \in Positions |-> Unjudged]
  /\ frames = [p \in Positions |-> "active"]
  /\ items = <<>>

Refined == cfg.refine /\ Frames > 1

\* _plan_windows; a session that is not refined, or of one frame, needs no call.
Plan ==
  /\ phase = "plan"
  /\ UNCHANGED <<cfg, broken, rel, paired>>
  /\ \/ /\ Refined
        /\ phase' = "judge" /\ spans' = PackWindows /\ UNCHANGED <<frames, items>>
     \/ /\ ~Refined
        /\ phase' = "assembled" /\ WholeEpisode /\ UNCHANGED spans

\* _call_window of the next window; the later window overwrites the frame it shares.
JudgeWindow ==
  /\ phase = "judge" /\ spans # <<>>
  /\ LET s == Head(spans)
     IN \E verdict \in [s[1] .. s[2] - 1 -> Relations] :
          /\ rel' = [p \in Positions |-> IF p \in DOMAIN verdict THEN verdict[p] ELSE rel[p]]
          /\ paired' = paired \union s[1] .. s[2] - 2
  /\ spans' = Tail(spans)
  /\ UNCHANGED <<cfg, phase, broken, frames, items>>

\* A failure ends the job of the window: _run_window returns it as the result.
WithoutJob == SelectSeq(spans, LAMBDA s : s[3] # Head(spans)[3])

\* _judge_span_degrading: a window that overflows is halved, one of two frames fails.
OverflowWindow ==
  /\ phase = "judge" /\ spans # <<>>
  /\ LET s == Head(spans)
     IN IF s[2] - s[1] < 3
        THEN broken' = broken \union {"overflow"} /\ spans' = WithoutJob
        ELSE spans' = Halves(s) \o Tail(spans) /\ UNCHANGED broken
  /\ UNCHANGED <<cfg, phase, rel, paired, frames, items>>

\* Any other failure of a window.
FailWindow ==
  /\ phase = "judge" /\ spans # <<>>
  /\ broken' = broken \union {"invalid"}
  /\ spans' = WithoutJob
  /\ UNCHANGED <<cfg, phase, rel, paired, frames, items>>

\* _settle_sessions; what the windows said is forgotten with it.
Settle ==
  /\ phase = "judge" /\ spans = <<>>
  /\ phase' = "assembled"
  /\ IF broken # {} THEN DisposeFailed ELSE Assemble
  /\ rel' = [p \in Positions |-> Unjudged] /\ broken' = {} /\ paired' = {}
  /\ UNCHANGED <<cfg, spans>>

SegmentNext == Plan \/ JudgeWindow \/ OverflowWindow \/ FailWindow \/ Settle
===============================================================================
