----------------------------- MODULE SequencePlan -----------------------------
(***************************************************************************)
(* The planner of a sequence run (operators/generation/planner.py) and the *)
(* evaluation of a pattern (evaluate.py).  Times within a branch are the   *)
(* lexicographic minimum of a constraint problem; branches are then placed *)
(* one after the other on the timeline, chosen pairs of them interleaved,  *)
(* followed by noise and by replays of the first positive branches.  The   *)
(* pseudo-random draws (pattern and partner of a pair, rank of a witness)  *)
(* are choices.                                                            *)
(***************************************************************************)
EXTENDS SequenceConfig

CONSTANTS
  Programs,   \* families of sequence configurations that are tried
  DayLength,  \* milliseconds of a day
  Week,       \* days of a week
  Horizon,    \* days in which a start is looked for, 21 in the code
  BlockCap    \* primary events of a block, 4096 in the code

ASSUME PlanAssumption == {DayLength, Week, Horizon, BlockCap} \subseteq Nat \ {0}

VARIABLE plan

NoPlan == [phase |-> "none"]

-------------------------------------------------------------------------------
(* Times of one branch: starts maps the roles that are present to times.   *)
Overlap(a, b) == a[1] < b[2] /\ b[1] < a[2]
Span(S) == Max({i[2] : i \in S}) - Min({i[1] : i \in S})

Temporal(program, p, starts) ==
  LET interval == [r \in DOMAIN starts |-> <<starts[r], starts[r] + Duration(program, p, r)>>]
      Lasting(r) == Duration(program, p, r) > 0
  IN /\ Span(Range(interval)) <= p.span
     /\ \A q, r \in DOMAIN starts :
          q < r /\ Lasting(q) /\ Lasting(r) /\ Resources(program, p, q) \cap Resources(program, p, r) # {}
            => ~Overlap(interval[q], interval[r])
     /\ \A c \in p.containments : c[2] \in DOMAIN starts =>
          /\ c[1] \in DOMAIN starts /\ Lasting(c[1]) /\ Lasting(c[2])
          /\ starts[c[1]] <= starts[c[2]]
          /\ interval[c[2]][2] < interval[c[1]][2]

\* The gaps hold but for one; gaps of an absent role do not count.
GapsHold(p, starts, but) ==
  \A g \in p.gaps : {g.before, g.after} \subseteq DOMAIN starts /\ Ends(g) # but =>
    starts[g.after] - starts[g.before] \in g.min..g.max

Exchanged(starts, pair) ==
  [starts EXCEPT ![pair[1]] = starts[pair[2]], ![pair[2]] = starts[pair[1]]]
Shifted(starts, from, amount) ==
  [r \in DOMAIN starts |-> IF r >= from THEN starts[r] + amount ELSE starts[r]]

ReorderFits(program, p, starts, v) ==
  LET exchanged == Exchanged(starts, v.target)
  IN /\ \A r \in 1..(Len(starts) - 1) : <<r, r + 1>> # v.target => exchanged[r] < exchanged[r + 1]
     /\ GapsHold(p, exchanged, v.target)
     /\ Temporal(program, p, exchanged)

\* The amounts by which the end of a branch can be put off to exceed a gap.
Excesses(program, p, starts, v, amounts) ==
  LET most == (CHOOSE g \in p.gaps : Ends(g) = v.target).max
  IN {a \in amounts :
        LET shifted == Shifted(starts, v.target[2], a)
        IN /\ shifted[v.target[2]] - shifted[v.target[1]] \in (most + v.low)..(most + v.high)
           /\ GapsHold(p, shifted, v.target)
           /\ Temporal(program, p, shifted)}

BeforeInOrder(a, b) ==
  \E i \in DOMAIN a : a[i] < b[i] /\ \A j \in 1..(i - 1) : a[j] = b[j]
Earliest(S) == CHOOSE a \in S : \A b \in S : a = b \/ BeforeInOrder(a, b)

\* The times without regard to the variants that are derived from them.
OwnTimes(program, s) ==
  LET p == s.pattern
  IN {t \in [Roles(p) -> 0..p.span] :
        /\ t[1] = 0
        /\ \A r \in 1..(Len(t) - 1) : t[r] < t[r + 1]
        /\ GapsHold(p, t, <<>>)
        /\ Temporal(program, p, t)}

\* Mutant of BaselineTimes: a reordered branch need not fit.
BaselineTimesLoose(program, s) ==
  {t \in OwnTimes(program, s) : \A v \in Range(s.variants) :
     v.kind = "interval_exceeded" => Excesses(program, s.pattern, t, v, 0..s.pattern.span) # {}}

BaselineTimes(program, s) ==
  {t \in OwnTimes(program, s) : \A v \in Range(s.variants) :
     /\ v.kind = "reordered" => ReorderFits(program, s.pattern, t, v)
     /\ v.kind = "interval_exceeded" => Excesses(program, s.pattern, t, v, 0..s.pattern.span) # {}}

ExceededAmount(program, p, base, v) ==
  LET gap == CHOOSE g \in p.gaps : Ends(g) = v.target
      now == base[gap.after] - base[gap.before]
  IN Min(Excesses(program, p, base, v, Max({0, gap.max + v.low - now})..(gap.max + v.high - now)))

-------------------------------------------------------------------------------
(* A branch: its slot <<set, number>>, its variant (0: it has none), and   *)
(* roles and times of its events in order.                                 *)
VariantBranch(program, slot, baseline, variant) ==
  LET s == program.sets[slot[1]]
      v == s.variants[variant]
      roles == VariantRoles(s.pattern, v)
      amount == IF v.kind = "interval_exceeded"
                THEN ExceededAmount(program, s.pattern, baseline, v) ELSE 0
  IN [slot |-> slot, variant |-> variant, roles |-> roles,
      times |-> [i \in DOMAIN roles |->
        CASE v.kind = "missing" -> baseline[roles[i]]
          [] v.kind = "interval_exceeded" -> Shifted(baseline, v.target[2], amount)[i]
          [] OTHER -> baseline[i]]]

Baseline(program, slot, times) ==
  [slot |-> slot, variant |-> 0, times |-> times, roles |-> [i \in DOMAIN times |-> i]]

BranchFits(program, b) ==
  LET p == program.sets[b.slot[1]].pattern
  IN Temporal(program, p, [r \in Range(b.roles) |->
                             b.times[CHOOSE i \in DOMAIN b.roles : b.roles[i] = r]])

InstructionBranch(program, slot) ==
  LET low == program.instructions[slot[1]].low
  IN Baseline(program, slot, [i \in 1..low |-> (i - 1) * program.eventGap])

\* _delivery_slots: every scenario of every set, in the order declared.
Slots(program) ==
  LET sources == IF program.mode = "declared" THEN program.sets ELSE program.instructions
  IN FlattenSeq([i \in DOMAIN sources |-> [n \in 1..sources[i].count |-> <<i, n>>]])

Base(program, slot) == Earliest(BaselineTimes(program, program.sets[slot[1]]))

Branches(program) ==
  LET Variants(slot) ==
        LET times == Base(program, slot)
        IN [v \in DOMAIN program.sets[slot[1]].variants |-> VariantBranch(program, slot, times, v)]
      slots == Slots(program)
  IN IF program.mode = "instruction_only"
     THEN [i \in DOMAIN slots |-> InstructionBranch(program, slots[i])]
     ELSE FlattenSeq([i \in DOMAIN slots |-> Variants(slots[i])])

KindOf(program, b) ==
  IF b.variant = 0 THEN "baseline" ELSE program.sets[b.slot[1]].variants[b.variant].kind
LabelOf(program, b) == IF program.mode = "declared" THEN program.sets[b.slot[1]].label ELSE Absence

-------------------------------------------------------------------------------
(* Events of a branch that starts at a time.                               *)
Offsets(b) == [i \in DOMAIN b.times |-> b.times[i] - b.times[1]]
Declared(program) == program.mode = "declared"
EventDuration(program, b, i) ==
  IF Declared(program) THEN Duration(program, program.sets[b.slot[1]].pattern, b.roles[i]) ELSE 0
EventResources(program, b, i) ==
  IF Declared(program) THEN Resources(program, program.sets[b.slot[1]].pattern, b.roles[i]) ELSE {}

PlannedEvents(program, b, start) ==
  [i \in DOMAIN b.roles |->
     [role |-> b.roles[i], logical |-> b.times[i], start |-> start + Offsets(b)[i],
      end |-> start + Offsets(b)[i] + EventDuration(program, b, i),
      resources |-> IF EventDuration(program, b, i) > 0 THEN EventResources(program, b, i) ELSE {}]]

EventsTail(events) == Max({Max({e.end, e.start + 1}) : e \in Range(events)})

\* The planned intervals claim no resource at the same time.
Exclusive(events) ==
  \A i, j \in DOMAIN events :
    i < j /\ events[i].resources \cap events[j].resources # {}
      => ~Overlap(<<events[i].start, events[i].end>>, <<events[j].start, events[j].end>>)

\* A window [days, intervals, offset] is looked up in its own time zone.
InWindow(w, at, duration, lower) ==
  LET today == (lower + w.offset) \div DayLength
      Midnight(d) == (today + d) * DayLength - w.offset
  IN \E d \in 0..Horizon, i \in w.intervals :
       /\ (today + d) % Week \in w.days
       /\ Midnight(d) + i[1] <= at
       /\ at + Max({duration, 1}) <= Midnight(d) + i[2]

Constrained(program, b) ==
  IF Declared(program)
  THEN {i \in DOMAIN b.roles : program.sets[b.slot[1]].pattern.windows[b.roles[i]] # Absence}
  ELSE {}

StartTimes(program, b, lower) ==
  {s \in lower..(lower + Horizon * DayLength) :
     \A i \in Constrained(program, b) :
       InWindow(program.sets[b.slot[1]].pattern.windows[b.roles[i]],
                s + Offsets(b)[i], EventDuration(program, b, i), lower)}

\* Empty when there is no start.
EarliestStart(program, b, lower) ==
  IF Constrained(program, b) = {} THEN {lower}
  ELSE LET starts == StartTimes(program, b, lower)
       IN IF starts = {} THEN {} ELSE {Min(starts)}

SessionFits(program, events) ==
  /\ Len(events) <= program.sessionEvents
  /\ Span({<<e.start, e.end>> : e \in Range(events)}) <= program.sessionSpan

-------------------------------------------------------------------------------
\* The repeated checks of compile_generation_program (program.py).
CompilerErrors(program) ==
  ~ /\ CatalogSound(program) /\ ReplaySound(program)
    /\ PrimarySequences(program) + StreamRows(program) \in 1..UnitsCap
    /\ StreamRows(program) <= RowsCap

Solvable(program) ==
  \A s \in Range(program.sets) : BaselineTimes(program, s) # {}

Candidates(program, branches) ==
  SelectSeq([i \in DOMAIN branches |-> i],
            LAMBDA i : /\ LabelOf(program, branches[i]) # Absence
                       /\ KindOf(program, branches[i]) = "positive")

\* The planner refuses the program: the run ends with a configuration error.
Refused == [phase |-> "refused"]

Solved(program) ==
  LET branches == Branches(program)
  IN IF \E i \in DOMAIN branches : Declared(program) /\ ~BranchFits(program, branches[i])
     THEN Refused
     ELSE [phase |-> IF program.interleavings = <<>> THEN "placing" ELSE "selecting",
           program |-> program, branches |-> branches,
           open |-> Candidates(program, branches), pairs |-> <<>>,
           free |-> Range(Candidates(program, branches)),
           placed |-> <<>>, cursor |-> Absence, session |-> 0, block |-> 1, load |-> 0,
           noise |-> <<>>, replays |-> <<>>]

Load(program) ==
  /\ plan = NoPlan
  /\ plan' = IF ~Loads(program) \/ CompilerErrors(program) THEN [phase |-> "invalid"]
             ELSE IF ~Solvable(program) THEN Refused
             ELSE Solved(program)

-------------------------------------------------------------------------------
\* _select_interleaving for one candidate: none of the applicable patterns, or
\* one of them with a partner that is taken out of its pool.
Pool(label) == {j \in plan.free : LabelOf(plan.program, plan.branches[j]) = label}
Applicable(i) ==
  {k \in DOMAIN plan.program.interleavings :
     /\ plan.program.interleavings[k].trigger = LabelOf(plan.program, plan.branches[i])
     /\ Pool(plan.program.interleavings[k].partner) # {}}

\* Mutant of Draws: the partner stays in its pool.
DrawsAgain(trigger, k) ==
  \E partner \in Pool(plan.program.interleavings[k].partner) :
    plan' = [plan EXCEPT !.open = Tail(@), !.pairs = Append(@, <<trigger, partner>>)]

Draws(trigger, k) ==
  \E partner \in Pool(plan.program.interleavings[k].partner) :
    plan' = [plan EXCEPT !.open = Tail(@), !.pairs = Append(@, <<trigger, partner>>),
                         !.free = @ \ {partner}]

Select ==
  /\ plan.phase = "selecting"
  /\ \/ plan.open = <<>> /\ plan' = [plan EXCEPT !.phase = "placing"]
     \/ /\ plan.open # <<>>
        /\ LET trigger == Head(plan.open)
           IN \/ /\ Applicable(trigger) = {} \/ plan.program.without > 0
                 /\ plan' = [plan EXCEPT !.open = Tail(@)]
              \/ \E k \in Applicable(trigger) : Draws(trigger, k)

-------------------------------------------------------------------------------
PairOf(i) == {j \in DOMAIN plan.pairs : i \in Range(plan.pairs[j])}
EventsFrom(i, start) == PlannedEvents(plan.program, plan.branches[i], start)
Lower == IF plan.cursor = Absence THEN plan.program.start
         ELSE plan.cursor + Max({plan.program.sessionGap, 1})

\* The layouts <<trigger start, partner start>> of a pair that share no instant
\* and no resource and fit into one session.
PairLayouts(trigger, partner) ==
  {l \in StartTimes(plan.program, plan.branches[trigger], Lower)
         \X StartTimes(plan.program, plan.branches[partner], Lower) :
     LET own == EventsFrom(trigger, l[1])
         other == EventsFrom(partner, l[2])
     IN /\ \A a \in Range(own), b \in Range(other) : a.start # b.start
        /\ Exclusive(own \o other)
        /\ SessionFits(plan.program, own \o other)}

\* A witness <<owner, gap>>: the other branch begins between two events of the owner.
Wraps(trigger, partner, l, witness) ==
  LET own == EventsFrom(trigger, l[1])
      other == EventsFrom(partner, l[2])
      outer == IF witness[1] = "trigger" THEN own ELSE other
      inner == IF witness[1] = "trigger" THEN other ELSE own
  IN /\ witness[2] < Len(outer)
     /\ outer[witness[2]].start < inner[1].start
     /\ inner[1].start < outer[witness[2] + 1].start

\* The earliest layout for the witness of least rank that has one.
WitnessedLayouts(trigger, partner) ==
  LET layouts == PairLayouts(trigger, partner)
      witnesses == {"trigger", "partner"} \X (1..RolesCap)
      EarliestOf(S) == LET a == Earliest({<<Min({l[1], l[2]}), l[1], l[2]>> : l \in S})
                       IN <<a[2], a[3]>>
      Served(w) == {l \in layouts : Wraps(trigger, partner, l, w)}
  IN {EarliestOf(Served(w)) : w \in {v \in witnesses : Served(v) # {}}}

\* _allocate_blocks: a session goes into one block, a full block is closed.
BlockFor(count) == IF plan.load > 0 /\ plan.load + count > BlockCap THEN plan.block + 1 ELSE plan.block

PlaceAt(starts) ==
  LET events == FlattenSeq([k \in 1..Cardinality(DOMAIN starts) |->
                  LET i == SetToSortSeq(DOMAIN starts, <)[k] IN EventsFrom(i, starts[i])])
      block == BlockFor(Len(events))
  IN plan' = IF ~SessionFits(plan.program, events) THEN Refused
             ELSE [plan EXCEPT
               !.placed = @ @@ [i \in DOMAIN starts |->
                                  [start |-> starts[i], session |-> plan.session, block |-> block]],
               !.cursor = EventsTail(events), !.session = @ + 1, !.block = block,
               !.load = Len(events) + IF block = plan.block THEN @ ELSE 0]

Place ==
  /\ plan.phase = "placing"
  /\ LET waiting == DOMAIN plan.branches \ DOMAIN plan.placed
     IN \/ waiting = {} /\ plan' = [plan EXCEPT !.phase = "following"]
        \/ /\ waiting # {}
           /\ LET i == Min(waiting)
                  starts == EarliestStart(plan.program, plan.branches[i], Lower)
              IN IF PairOf(i) = {}
                 THEN IF starts = {} THEN plan' = Refused
                      ELSE PlaceAt([j \in {i} |-> Min(starts)])
                 ELSE LET pair == plan.pairs[CHOOSE k \in PairOf(i) : TRUE]
                          layouts == WitnessedLayouts(pair[1], pair[2])
                      IN IF layouts = {} THEN plan' = Refused
                         ELSE \E l \in layouts :
                                PlaceAt([j \in Range(pair) |-> IF j = pair[1] THEN l[1] ELSE l[2]])

-------------------------------------------------------------------------------
\* _next_noise_time: noise fills sessions of its own.
NextNoise ==
  LET program == plan.program
      n == Len(plan.noise)
      session == IF n = 0 THEN 0 ELSE plan.noise[n].session
      ours == SelectSeq(plan.noise, LAMBDA e : e.session = session)
      apart == plan.cursor + Max({program.sessionGap, 1})
      near == IF n = 0 THEN apart ELSE plan.cursor + Max({program.eventGap, 1}) - 1
      first == IF n = 0 THEN near ELSE ours[1].start
      full == Len(ours) >= program.sessionEvents \/ near - first > program.sessionSpan
  IN IF full THEN [start |-> apart, session |-> session + 1]
     ELSE [start |-> near, session |-> session]

AddNoise ==
  /\ plan.phase = "following" /\ Len(plan.noise) < plan.program.noise
  /\ plan' = [plan EXCEPT !.noise = Append(@, NextNoise), !.cursor = NextNoise.start + 1]

Positives == SelectSeq([i \in DOMAIN plan.branches |-> i],
                       LAMBDA i : KindOf(plan.program, plan.branches[i]) = "positive")

\* Mutant of AddReplay: the time does not go on after a replay.
AddReplayStalled ==
  /\ plan.phase = "following" /\ Len(plan.noise) = plan.program.noise
  /\ Len(plan.replays) < plan.program.duplicates
  /\ LET i == Positives[Len(plan.replays) + 1]
         starts == EarliestStart(plan.program, plan.branches[i], Lower)
         shift == Min(starts) - plan.placed[i].start
     IN plan' = IF starts = {} \/ shift <= 0 THEN Refused
                ELSE [plan EXCEPT !.replays = Append(@, [source |-> i, shift |-> shift])]

AddReplay ==
  /\ plan.phase = "following" /\ Len(plan.noise) = plan.program.noise
  /\ Len(plan.replays) < plan.program.duplicates
  /\ LET i == Positives[Len(plan.replays) + 1]
         starts == EarliestStart(plan.program, plan.branches[i], Lower)
         shift == Min(starts) - plan.placed[i].start
         events == EventsFrom(i, Min(starts))
     IN plan' = IF starts = {} \/ shift <= 0 \/ ~SessionFits(plan.program, events)
                THEN Refused
                ELSE [plan EXCEPT !.replays = Append(@, [source |-> i, shift |-> shift]),
                                  !.cursor = EventsTail(events)]

\* Where the baseline of a slot is in no branch, it is laid out at the beginning.
HiddenBaseline(slot) ==
  LET b == Baseline(plan.program, slot, Base(plan.program, slot))
      starts == EarliestStart(plan.program, b, plan.program.start)
  IN IF starts = {} THEN <<>> ELSE PlannedEvents(plan.program, b, Min(starts))

HiddenSlots ==
  IF ~Declared(plan.program) THEN {}
  ELSE {slot \in Range(Slots(plan.program)) : Positive(plan.program.sets[slot[1]]) = {}}

\* _preflight_annotations: every branch has an interval with the bound resource.
Preflight ==
  plan.program.bound # Absence =>
    \A i \in DOMAIN plan.branches : \E e \in Range(EventsFrom(i, 0)) : plan.program.bound \in e.resources

ClosePlan ==
  /\ plan.phase = "following"
  /\ Len(plan.noise) = plan.program.noise /\ Len(plan.replays) = plan.program.duplicates
  /\ plan' = IF Preflight /\ \A slot \in HiddenSlots : HiddenBaseline(slot) # <<>>
             THEN [plan EXCEPT !.phase = "planned"] ELSE Refused

PlanStep == Select \/ Place \/ AddNoise \/ AddReplay \/ ClosePlan

-------------------------------------------------------------------------------
(* evaluate_pattern: frames, times and ends of the events of a branch.     *)
Rank(s, i) == Cardinality({j \in 1..i : s[j] = s[i]})

EvaluatePattern(program, p, frames, times) ==
  LET bound == {b \in Roles(p) \X DOMAIN frames :
                  frames[b[2]] = p.frames[b[1]] /\ Rank(frames, b[2]) = Rank(p.frames, b[1])}
      Present == {b[1] : b \in bound}
      At(r) == times[(CHOOSE b \in bound : b[1] = r)[2]]
      missing == Roles(p) \ Present
      reordered == {<<r, r + 1>> : r \in {q \in 1..(Len(p.frames) - 1) :
                      {q, q + 1} \subseteq Present /\ At(q) > At(q + 1)}}
      measured == {g \in p.gaps : {g.before, g.after} \subseteq Present /\ Ends(g) \notin reordered}
      Delta(g) == At(g.after) - At(g.before)
  IN {[kind |-> "missing", target |-> <<r>>] : r \in missing}
     \cup {[kind |-> "extra", target |-> <<i>>] : i \in DOMAIN frames \ {b[2] : b \in bound}}
     \cup {[kind |-> "reordered", target |-> pair] : pair \in reordered}
     \cup {[kind |-> "gap_below_min", target |-> Ends(g)] : g \in {h \in measured : Delta(h) < h.min}}
     \cup {[kind |-> "interval_exceeded", target |-> Ends(g)] : g \in {h \in measured : Delta(h) > h.max}}
     \cup IF missing = {} /\ Span({<<At(r), At(r) + Duration(program, p, r)>> : r \in Roles(p)}) > p.span
          THEN {[kind |-> "max_span_exceeded", target |-> <<>>]} ELSE {}

Evaluated(program, b, start) ==
  LET p == program.sets[b.slot[1]].pattern
      events == PlannedEvents(program, b, start)
  IN EvaluatePattern(program, p, [i \in DOMAIN events |-> p.frames[events[i].role]],
                     [i \in DOMAIN events |-> events[i].start])

-------------------------------------------------------------------------------
\* The events of a session of primary branches.
SessionOf(n) ==
  FlattenSeq(SetToSeq({EventsFrom(i, plan.placed[i].start) :
                         i \in {j \in DOMAIN plan.placed : plan.placed[j].session = n}}))

Interleaved(a, b) ==
  /\ a[1].start < b[Len(b)].start /\ b[1].start < a[Len(a)].start

(* What is planned is what was declared.  Every branch shows exactly the   *)
(* violation of its variant (the baseline none), agrees with the baseline  *)
(* in role and time of every event before its divergence, and lies in one  *)
(* session and block; sessions follow one another within their limits and  *)
(* claim no resource twice; a pair interleaves, and no branch is in two    *)
(* pairs; noise and replays come after.                                    *)
PlanRealises ==
  plan.phase = "planned" =>
    LET program == plan.program
        sessions == 0..(plan.session - 1)
        LastOf(n) == EventsTail(SessionOf(n))
        First(n) == Min({e.start : e \in Range(SessionOf(n))})
    IN /\ Declared(program) => \A i \in DOMAIN plan.branches :
            LET b == plan.branches[i]
                v == program.sets[b.slot[1]].variants[b.variant]
                base == Base(program, b.slot)
                same == IF Divergence(v) = Absence THEN Len(base) ELSE Divergence(v) - 1
            IN /\ Evaluated(program, b, plan.placed[i].start) = Expected(v)
               /\ \A r \in 1..same : b.roles[r] = r /\ b.times[r] = base[r]
       /\ \A n \in sessions :
            /\ SessionFits(program, SessionOf(n)) /\ Exclusive(SessionOf(n))
            /\ n > 0 => First(n) > LastOf(n - 1)
       /\ plan.session + Len(plan.pairs) = Len(plan.branches)
       /\ \A k \in DOMAIN plan.pairs :
            LET pair == plan.pairs[k]
            IN /\ pair[1] # pair[2] /\ PairOf(pair[1]) = {k} /\ PairOf(pair[2]) = {k}
               /\ plan.placed[pair[1]].session = plan.placed[pair[2]].session
               /\ Interleaved(EventsFrom(pair[1], plan.placed[pair[1]].start),
                              EventsFrom(pair[2], plan.placed[pair[2]].start))
       /\ \A k \in DOMAIN plan.noise : \A i \in DOMAIN plan.placed :
            plan.noise[k].start >= EventsTail(EventsFrom(i, plan.placed[i].start))
       /\ \A k \in DOMAIN plan.replays : \A n \in sessions :
            plan.placed[plan.replays[k].source].start + plan.replays[k].shift > LastOf(n)

===============================================================================
