---------------------------- MODULE SequenceConfig ----------------------------
(***************************************************************************)
(* What the loader and the compiler accept of a sequence configuration     *)
(* (common/config/generation.py, _sequence_layout.py, _temporal.py and     *)
(* operators/generation/program.py), as far as the planner depends on it.  *)
(*                                                                         *)
(* A program is a record:                                                  *)
(*   mode          "declared" or "instruction_only"                        *)
(*   frames        [frame class -> [duration, resources]]                  *)
(*   sets          counterfactual sets: [pattern, count, label, variants]  *)
(*   instructions  instruction-only rows: [count, low, high]               *)
(*   interleavings [trigger, partner, weight], and without, the weight of  *)
(*                 no interleaving                                         *)
(*   start, eventGap, sessionEvents, sessionSpan, sessionGap, noise,       *)
(*   duplicates    the timeline; noiseFrame is None or a frame class       *)
(*   bound         the resource an annotation time is bound to, or None    *)
(*   catalog       the number of catalog rows, or None                     *)
(* A pattern is [frames, windows, gaps, span, containments]; its roles are *)
(* the positions of its order, and a gap is [before, after, min, max].  A  *)
(* variant is [kind, target, low, high]; target is a tuple of roles.       *)
(* Times are in milliseconds, the planner's quantum.                       *)
(***************************************************************************)
EXTENDS Integers, Sequences, FiniteSets, FiniteSetsExt, SequencesExt

CONSTANTS
  RolesCap,     \* limits.pattern_roles
  VariantsCap,  \* limits.variants_per_counterfactual_set
  RowsCap,      \* limits.stream_rows
  UnitsCap,     \* limits.record_units
  Absence       \* the value of an option that is not set

ASSUME ConfigAssumption == {RolesCap, VariantsCap, RowsCap, UnitsCap} \subseteq Nat \ {0}

Roles(p) == DOMAIN p.frames
Duration(program, p, r) == program.frames[p.frames[r]].duration
Resources(program, p, r) == program.frames[p.frames[r]].resources
Ends(g) == <<g.before, g.after>>

-------------------------------------------------------------------------------
\* The expected violation of a variant, as evaluate_pattern reports it.
Expected(v) == IF v.kind = "positive" THEN {} ELSE {[kind |-> v.kind, target |-> v.target]}

\* The first role that may differ from the baseline, or Absence.
Divergence(v) ==
  CASE v.kind = "positive" -> Absence
    [] v.kind = "interval_exceeded" -> v.target[2]
    [] OTHER -> v.target[1]

\* The roles of a branch in the order of its events.
VariantRoles(p, v) ==
  LET order == [r \in Roles(p) |-> r]
  IN CASE v.kind = "missing" -> SelectSeq(order, LAMBDA r : r # v.target[1])
       [] v.kind = "reordered" ->
            [order EXCEPT ![v.target[1]] = v.target[2], ![v.target[2]] = v.target[1]]
       [] OTHER -> order

GapSound(p, g) == {g.before, g.after} \subseteq Roles(p) /\ g.min \in Nat /\ g.min <= g.max

PatternSound(p) ==
  /\ Len(p.frames) \in 1..RolesCap
  /\ \A g \in p.gaps : GapSound(p, g) /\ g.before < g.after
  /\ \A g, h \in p.gaps : Ends(g) = Ends(h) => g = h
  /\ \A r \in 1..(Len(p.frames) - 1) : \E g \in p.gaps : Ends(g) = <<r, r + 1>>
  /\ \A c \in p.containments : {c[1], c[2]} \subseteq Roles(p) /\ c[1] # c[2]

\* The least gaps between neighbours fit into the span.
GapShell(p) ==
  MapThenSumSet(LAMBDA g : g.min, {g \in p.gaps : g.after = g.before + 1}) <= p.span

TargetShape(p, v) ==
  CASE v.kind = "positive" -> v.target = <<>>
    [] v.kind = "missing" -> v.target[1] \in Roles(p)
    [] v.kind = "reordered" -> v.target[1] \in Roles(p) /\ v.target[2] = v.target[1] + 1
                               /\ v.target[2] \in Roles(p)
    [] v.kind = "interval_exceeded" -> \E g \in p.gaps : Ends(g) = v.target

ExcessShape(v) == v.kind = "interval_exceeded" => v.low \in 1..v.high

\* Mutant of VariantTarget: the frame class of a missing role may be shared.
VariantTargetShared(p, v) ==
  /\ v.kind = "missing" => Len(p.frames) > 1
  /\ v.kind = "reordered" => p.frames[v.target[1]] # p.frames[v.target[2]]

VariantTarget(p, v) ==
  /\ v.kind = "missing" => /\ Len(p.frames) > 1
                           /\ \A r \in Roles(p) : p.frames[r] = p.frames[v.target[1]] => r = v.target[1]
  /\ v.kind = "reordered" => p.frames[v.target[1]] # p.frames[v.target[2]]

SetSound(s) ==
  /\ PatternSound(s.pattern) /\ s.count >= 1
  /\ Len(s.variants) \in 1..VariantsCap
  /\ \A i \in DOMAIN s.variants : TargetShape(s.pattern, s.variants[i]) /\ ExcessShape(s.variants[i])
  /\ \A i, j \in DOMAIN s.variants : Expected(s.variants[i]) = Expected(s.variants[j]) => i = j
  /\ GapShell(s.pattern)
  /\ \A i \in DOMAIN s.variants : VariantTarget(s.pattern, s.variants[i])

-------------------------------------------------------------------------------
\* A contained role needs its container in every branch, and no resource of it.
ContainmentsSound(program, s) ==
  \A c \in s.pattern.containments :
    /\ Duration(program, s.pattern, c[1]) > 0 /\ Duration(program, s.pattern, c[2]) > 0
    /\ Resources(program, s.pattern, c[1]) \cap Resources(program, s.pattern, c[2]) = {}
    /\ \A i \in DOMAIN s.variants :
         s.variants[i].kind = "missing" => s.variants[i].target[1] # c[1]

BranchResources(program, p, roles) ==
  UNION {Resources(program, p, r) : r \in {q \in roles : Duration(program, p, q) > 0}}

\* The resource of an annotation time occurs in every branch.
AnnotationSound(program) ==
  program.bound # Absence =>
    /\ program.mode = "declared"
    /\ \A s \in Range(program.sets) : \A v \in Range(s.variants) :
         program.bound \in BranchResources(program, s.pattern, Range(VariantRoles(s.pattern, v)))

NoiseSound(program) ==
  /\ (program.noise > 0) = (program.noiseFrame # Absence)
  /\ program.noiseFrame # Absence =>
       /\ program.frames[program.noiseFrame].duration = 0
       /\ \A s \in Range(program.sets) : program.noiseFrame \notin Range(s.pattern.frames)

Eligible(program) == DOMAIN program.frames \ {program.noiseFrame}

\* Instruction-only events are points: their frame class is not known to the planner.
InstructionsSound(program) ==
  /\ program.instructions # <<>> /\ program.sets = <<>>
  /\ \A s \in Range(program.instructions) : s.count >= 1 /\ 1 <= s.low /\ s.low <= s.high
  /\ Eligible(program) # {}
  /\ \A f \in Eligible(program) : program.frames[f].duration = 0

-------------------------------------------------------------------------------
Positive(s) == {i \in DOMAIN s.variants : s.variants[i].kind = "positive"}
Labels(program) == {s.label : s \in Range(program.sets)} \ {Absence}
Triggers(program) == {i.trigger : i \in Range(program.interleavings)}
Partners(program) == {i.partner : i \in Range(program.interleavings)}

\* Interleaving sections and candidate labels belong together.
InterleavingSound(program) ==
  /\ (Labels(program) # {}) = (program.interleavings # <<>>)
  /\ \A s \in Range(program.sets) : s.label # Absence => Cardinality(Positive(s)) = 1
  /\ Triggers(program) \cup Partners(program) = Labels(program)
  /\ Triggers(program) \cap Partners(program) = {}
  /\ \A i \in Range(program.interleavings) : i.weight >= 1

Total(seq, Value(_)) == FoldLeft(LAMBDA sum, s : sum + Value(s), 0, seq)
EventCount(s) ==
  Total(s.variants, LAMBDA v : Len(s.pattern.frames) - IF v.kind = "missing" THEN 1 ELSE 0)
PositiveLengths(program) ==
  FoldLeft(LAMBDA lengths, s : lengths \o [i \in 1..(IF Positive(s) = {} THEN 0 ELSE s.count)
                                             |-> Len(s.pattern.frames)],
           <<>>, program.sets)

PrimarySequences(program) ==
  IF program.mode = "declared" THEN Total(program.sets, LAMBDA s : s.count * Len(s.variants))
  ELSE Total(program.instructions, LAMBDA s : s.count)
PrimaryRows(program) ==
  IF program.mode = "declared" THEN Total(program.sets, LAMBDA s : s.count * EventCount(s))
  ELSE Total(program.instructions, LAMBDA s : s.count * s.low)
ReplayRows(program) ==
  LET lengths == PositiveLengths(program)
  IN FoldLeft(LAMBDA sum, n : sum + n, 0,
              SubSeq(lengths, 1, Min({program.duplicates, Len(lengths)})))
StreamRows(program) == PrimaryRows(program) + program.noise + ReplayRows(program)

ReplaySound(program) ==
  program.duplicates <= IF program.mode = "declared" THEN Len(PositiveLengths(program)) ELSE 0

DerivedLimits(program) ==
  /\ StreamRows(program) \in 1..RowsCap
  /\ PrimarySequences(program) + StreamRows(program) \in 1..UnitsCap

CatalogSound(program) ==
  program.catalog # Absence =>
    /\ program.mode = "declared"
    /\ program.catalog >= Total(program.sets, LAMBDA s : s.count)

\* What the loader accepts.
Loads(program) ==
  /\ IF program.mode = "declared"
     THEN /\ program.sets # <<>> /\ program.instructions = <<>>
          /\ \A s \in Range(program.sets) : SetSound(s) /\ ContainmentsSound(program, s)
     ELSE InstructionsSound(program)
  /\ CatalogSound(program) /\ NoiseSound(program) /\ AnnotationSound(program)
  /\ InterleavingSound(program) /\ ReplaySound(program) /\ DerivedLimits(program)

===============================================================================
