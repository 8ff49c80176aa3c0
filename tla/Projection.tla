------------------------------- MODULE Projection -------------------------------
(***************************************************************************)
(* The rows of a sequence product and the checks between its views:        *)
(* operators/generation/project.py, and the assembly of the rows in        *)
(* emitter.py.  A branch becomes a main row and one row of the stream per  *)
(* event; noise and replays only have rows of the stream.  A candidate is  *)
(* checked when its slot is prepared, against what was committed when its  *)
(* turn comes, and with everything at the end; a conflict of times is not  *)
(* a rejection of the attempt but ends the run.                            *)
(*                                                                         *)
(* Derived identifiers are the tuples they are derived from.  All payloads *)
(* say the same: only identity and time tell rows apart.                   *)
(***************************************************************************)
EXTENDS SequencePlan

\* _branch_ids: variants of a scenario are worlds of their own.
World(b) == <<b.slot, b.variant>>

FrameOf(b, role) ==
  IF Declared(plan.program) THEN plan.program.sets[b.slot[1]].pattern.frames[role] ELSE Absence

\* The payload with its bound times.
PayloadOf(e) == [says |-> "something", from |-> e.start, to |-> e.end]
EventId(world, e) == <<"event", world, e.role, e.start, e.end, e.resources, PayloadOf(e)>>
NoiseId(n, at) == <<"noise", n, at>>
ReplayId(owner, ordinal, id, e) == <<"replay", <<owner, ordinal>>, id, PayloadOf(e)>>

\* _generation_truth, with the violations that only the main row tells.
Truth(i) ==
  LET b == plan.branches[i]
  IN [world |-> World(b),
      violations |-> IF Declared(plan.program) THEN Evaluated(plan.program, b, plan.placed[i].start) ELSE {}]

\* _branch_events: the planned events of a branch.
BranchEvents(i) == EventsFrom(i, plan.placed[i].start)

\* The earliest start of an interval with the resource of the annotation time.
FirstStart(events) ==
  Min({e.start : e \in {f \in Range(events) : plan.program.bound \in f.resources}})

-------------------------------------------------------------------------------
Row(b, e, owner) ==
  [id |-> EventId(World(b), e), key |-> <<b.slot, e.role>>, owner |-> owner, of |-> World(b),
   frame |-> FrameOf(b, e.role), logical |-> e.logical, start |-> e.start, end |-> e.end,
   resources |-> e.resources, payload |-> PayloadOf(e), again |-> <<>>]

\* project_trace and assemble_sequence.
Sequence(i) ==
  LET b == plan.branches[i]
      events == BranchEvents(i)
      ids == [k \in DOMAIN events |-> EventId(World(b), events[k])]
      owner == <<World(b), ids>>
  IN [main |-> [id |-> owner, truth |-> Truth(i), members |-> ids,
                session |-> plan.placed[i].session,
                time |-> IF plan.program.bound = Absence THEN 0 ELSE FirstStart(events)],
      rows |-> [k \in DOMAIN events |-> Row(b, events[k], owner)]]

NoiseRow(n) ==
  LET at == plan.noise[n].start
  IN [id |-> NoiseId(n, at), key |-> n, frame |-> plan.program.noiseFrame, start |-> at, end |-> at,
      resources |-> {}]

\* _replay_row: a row again, later, with its bound times and owned by nobody.
ReplayRow(row, ordinal, shift) ==
  LET later == [row EXCEPT !.start = @ + shift, !.end = @ + shift]
  IN [later EXCEPT !.id = ReplayId(row.owner, ordinal, row.id, later), !.owner = Absence,
                   !.payload = PayloadOf(later), !.again = row.id]
RowsOfReplay(r, rows) == [k \in DOMAIN rows |-> ReplayRow(rows[k], r, plan.replays[r].shift)]

Projected ==
  LET sequences == [i \in DOMAIN plan.branches |-> Sequence(i)]
  IN [sequences |-> sequences,
      noise |-> [n \in DOMAIN plan.noise |-> NoiseRow(n)],
      replays |-> [r \in DOMAIN plan.replays |-> RowsOfReplay(r, sequences[plan.replays[r].source].rows)]]

-------------------------------------------------------------------------------
(* One view against the plan and against the others.                       *)
\* _reconcile_containments
Contained(i) ==
  LET p == plan.program.sets[plan.branches[i].slot[1]].pattern
      events == Range(BranchEvents(i))
      Within(e, f) == e.start <= f.start /\ f.end + 1 <= e.end /\ f.end > f.start
  IN \A c \in p.containments : \A f \in events :
       f.role = c[2] => \E e \in events : e.role = c[1] /\ Within(e, f)

\* _reconcile_primary_row
RowReconciles(row, i, k, owner) ==
  LET e == BranchEvents(i)[k]
      b == plan.branches[i]
  IN /\ row.again = <<>> /\ row.key = <<b.slot, e.role>> /\ row.owner = owner /\ row.of = World(b)
     /\ row.logical = e.logical /\ row.start = e.start /\ row.end = e.end
     /\ row.resources = e.resources /\ row.payload = PayloadOf(row)
     /\ row.id = EventId(World(b), e) /\ row.frame = FrameOf(b, e.role)

\* _reconcile_sequence
SequenceReconciles(sequence, i) ==
  LET main == sequence.main
      rows == sequence.rows
      ids == [k \in DOMAIN rows |-> rows[k].id]
  IN /\ main.truth = Truth(i) /\ main.id = <<World(plan.branches[i]), ids>>
     /\ Len(rows) = Len(BranchEvents(i)) /\ IsInjective(ids)
     /\ \A k \in DOMAIN rows : RowReconciles(rows[k], i, k, main.id)
     /\ main.members = ids /\ main.session = plan.placed[i].session
     /\ plan.program.bound # Absence => main.time = FirstStart(BranchEvents(i))
     /\ Declared(plan.program) => Contained(i)

\* _reconcile_noise_row
NoiseReconciles(row, n) ==
  /\ row.key = n /\ row.frame = plan.program.noiseFrame /\ row.id = NoiseId(n, plan.noise[n].start)
  /\ row.start = plan.noise[n].start /\ row.end = row.start /\ row.resources = {}

\* _reconcile_replay: each replay against the rows of its source.
ReplayReconciles(rows, r, sequence) ==
  /\ plan.replays[r].shift > 0 /\ Len(rows) = Len(sequence.rows)
  /\ \A k \in DOMAIN rows :
       LET source == sequence.rows[k]
       IN /\ rows[k].again = source.id /\ rows[k].key = source.key /\ rows[k].frame = source.frame
          /\ rows[k].owner = Absence /\ rows[k].of = source.of /\ rows[k].logical = source.logical
          /\ rows[k].start = source.start + plan.replays[r].shift
          /\ rows[k].end - rows[k].start = source.end - source.start
          /\ rows[k].resources = source.resources /\ rows[k].payload = PayloadOf(rows[k])
          /\ rows[k].id = ReplayId(sequence.main.id, r, source.id, rows[k])

\* _reconcile_timeline, _resource_intervals_overlap
TimelineHolds(rows) ==
  /\ IsInjective([k \in DOMAIN rows |-> rows[k].start])
  /\ IsInjective([k \in DOMAIN rows |-> rows[k].id])
ResourcesHold(rows) ==
  /\ \A row \in Range(rows) : row.start = row.end => row.resources = {}
  /\ Exclusive(rows)

-------------------------------------------------------------------------------
(* The three times rows are checked.                                       *)
BranchesOf(slot) == SelectSeq([i \in DOMAIN plan.branches |-> i], LAMBDA i : plan.branches[i].slot = slot)
ReplaysOf(slot) ==
  SelectSeq([r \in DOMAIN plan.replays |-> r], LAMBDA r : plan.branches[plan.replays[r].source].slot = slot)
RowsOf(product, slot) ==
  FlattenSeq([n \in DOMAIN BranchesOf(slot) |-> product.sequences[BranchesOf(slot)[n]].rows])
    \o FlattenSeq([n \in DOMAIN ReplaysOf(slot) |-> product.replays[ReplaysOf(slot)[n]]])

\* reconcile_primary_candidate, when the candidate of a slot is prepared.
CandidateReconciles(product, slot) ==
  LET rows == RowsOf(product, slot)
  IN /\ \A i \in Range(BranchesOf(slot)) : SequenceReconciles(product.sequences[i], i)
     /\ \A r \in Range(ReplaysOf(slot)) :
          ReplayReconciles(product.replays[r], r, product.sequences[plan.replays[r].source])
     /\ TimelineHolds(rows) /\ ResourcesHold(rows)

\* _planned_primary_facts: what the plan knows of the rows of a slot, in their order.
Fact(key, e, shift) == [key |-> key, start |-> e.start + shift, end |-> e.end + shift, resources |-> e.resources]
PlannedFacts(slot) ==
  LET OfBranch(i) ==
        [k \in DOMAIN BranchEvents(i) |->
           Fact(<<"primary", World(plan.branches[i]), BranchEvents(i)[k].role>>, BranchEvents(i)[k], 0)]
      OfReplay(r) ==
        LET events == BranchEvents(plan.replays[r].source)
        IN [k \in DOMAIN events |-> Fact(<<"replay", r, events[k].role>>, events[k], plan.replays[r].shift)]
  IN FlattenSeq([n \in DOMAIN BranchesOf(slot) |-> OfBranch(BranchesOf(slot)[n])])
       \o FlattenSeq([n \in DOMAIN ReplaysOf(slot) |-> OfReplay(ReplaysOf(slot)[n])])

\* CrossViewFrontier: candidates are committed in turn, slots and then noise,
\* unless one differs from the plan or meets what was committed before it.
Turns(product) ==
  LET slots == Slots(plan.program)
  IN [n \in DOMAIN slots |-> [rows |-> RowsOf(product, slots[n]), facts |-> PlannedFacts(slots[n])]]
       \o [n \in DOMAIN product.noise |->
             [rows |-> <<product.noise[n]>>,
              facts |-> <<[key |-> <<"noise", n>>, start |-> plan.noise[n].start,
                           end |-> plan.noise[n].start, resources |-> {}]>>]]
Matches(turn) ==
  /\ turn.rows # <<>> /\ Len(turn.rows) = Len(turn.facts)
  /\ \A k \in DOMAIN turn.rows : /\ turn.rows[k].start = turn.facts[k].start
                                 /\ turn.rows[k].end = turn.facts[k].end
                                 /\ turn.rows[k].resources = turn.facts[k].resources
NoConflict(turns) ==
  LET rows == FlattenSeq([n \in DOMAIN turns |-> turns[n].rows])
      facts == FlattenSeq([n \in DOMAIN turns |-> turns[n].facts])
  IN TimelineHolds(rows) /\ Exclusive(rows) /\ IsInjective([k \in DOMAIN facts |-> facts[k].key])
FrontierAccepts(product) ==
  LET turns == Turns(product)
  IN \A n \in DOMAIN turns : Matches(turns[n]) /\ NoConflict(SubSeq(turns, 1, n))

\* reconcile_views, before the product is written.
ViewsReconcile(product) ==
  LET rows == FlattenSeq([n \in DOMAIN Turns(product) |-> Turns(product)[n].rows])
  IN /\ \A i \in DOMAIN plan.branches : SequenceReconciles(product.sequences[i], i)
     /\ \A n \in DOMAIN plan.noise : NoiseReconciles(product.noise[n], n)
     /\ \A r \in DOMAIN plan.replays :
          ReplayReconciles(product.replays[r], r, product.sequences[plan.replays[r].source])
     /\ TimelineHolds(rows) /\ ResourcesHold(rows)

Committed(product) ==
  /\ \A slot \in Range(Slots(plan.program)) : CandidateReconciles(product, slot)
  /\ \A n \in DOMAIN product.noise : NoiseReconciles(product.noise[n], n)
  /\ FrontierAccepts(product)

-------------------------------------------------------------------------------
\* Events of an instruction sequence without a gap happen at the same time.
Simultaneous ==
  /\ ~Declared(plan.program) /\ plan.program.eventGap = 0
  /\ \E s \in Range(plan.program.instructions) : s.low > 1

\* Products with one thing wrong.
Later(row) == [row EXCEPT !.start = @ + 1, !.end = @ + 1]
Damaged ==
  LET good == Projected
      InSequence(i, bad) == [good EXCEPT !.sequences[i] = bad]
      Of(i) == good.sequences[i]
  IN {InSequence(i, [Of(i) EXCEPT !.rows = SubSeq(@, 1, Len(@) - 1)]) : i \in DOMAIN plan.branches}
     \cup {InSequence(i, [Of(i) EXCEPT !.rows[1] = Later(@)]) : i \in DOMAIN plan.branches}
     \cup {InSequence(i, [Of(i) EXCEPT !.main.session = @ + 1]) : i \in DOMAIN plan.branches}
     \cup {InSequence(i, [Of(i) EXCEPT !.rows = Of(i - 1).rows]) : i \in 2..Len(plan.branches)}
     \cup {[good EXCEPT !.replays[r] = Of(plan.replays[r].source).rows] : r \in DOMAIN plan.replays}
     \cup {[good EXCEPT !.noise[n] = Later(@)] : n \in DOMAIN plan.noise}

\* The planned rows pass every check and no damaged product passes any.
PlanReconciles ==
  /\ Committed(Projected) <=> ~Simultaneous
  /\ ViewsReconcile(Projected) <=> ~Simultaneous
  /\ \A product \in Damaged : ~Committed(product)

===============================================================================
