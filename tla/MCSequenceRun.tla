----------------------------- MODULE MCSequenceRun -----------------------------
(***************************************************************************)
(* Two runs over the same paths and one loss of power.  A repeated run may *)
(* write the bytes of an earlier one, so a file that is put back can       *)
(* complete an older product again.  The first run is planned in detail.   *)
(*                                                                         *)
(* The programs: every pattern of three roles over three frame classes (a  *)
(* point, an interval, an interval with two resources), tight and loose    *)
(* gaps and spans, with and without containment, times nine lists of       *)
(* variants; two roles with windows in two time zones, noise, replays,     *)
(* small sessions and a catalog; pairs of sets that interleave; and        *)
(* instructions.  The programs of Attempted are generated as well, under a *)
(* hook and outcomes that depend on the variant: a mark the baseline may   *)
(* leave can fail under the name of a variant that takes it over.          *)
(***************************************************************************)
EXTENDS SequenceRun, TLC

CONSTANTS b1, b2

Interchangeable == Permutations(Bytes)

Frames == [P |-> [duration |-> 0, resources |-> {}],
           D |-> [duration |-> 1, resources |-> {"r"}],
           L |-> [duration |-> 3, resources |-> {"r", "s"}],
           N |-> [duration |-> 0, resources |-> {}]]
Plain == [mode |-> "declared", frames |-> Frames, sets |-> <<>>, instructions |-> <<>>,
          interleavings |-> <<>>, without |-> 0, start |-> 5, eventGap |-> 1,
          sessionEvents |-> 6, sessionSpan |-> 8, sessionGap |-> 2, noise |-> 0,
          noiseFrame |-> Absence, duplicates |-> 0, bound |-> Absence, catalog |-> Absence]
V(kind, target, low, high) == [kind |-> kind, target |-> target, low |-> low, high |-> high]
Pos == V("positive", <<>>, 0, 0)
Miss(r) == V("missing", <<r>>, 0, 0)
Reord(r) == V("reordered", <<r, r + 1>>, 0, 0)
Exc(a, b, low, high) == V("interval_exceeded", <<a, b>>, low, high)
G(a, b, bounds) == [before |-> a, after |-> b, min |-> bounds[1], max |-> bounds[2]]
Unconstrained == [r \in 1..4 |-> Absence]
Set(p, label, count, vs) == [pattern |-> p, label |-> label, count |-> count, variants |-> vs]
VariantLists == {<<Pos>>, <<Pos, Miss(2)>>, <<Miss(1), Pos>>, <<Pos, Reord(1)>>, <<Reord(2), Reord(1)>>,
   <<Pos, Reord(2), Exc(1, 2, 1, 2)>>, <<Exc(2, 3, 1, 1), Miss(3)>>, <<Exc(1, 3, 1, 2)>>, <<Exc(1, 2, 2, 3), Exc(2, 3, 1, 2)>>}
Patterns == {[frames |-> f, windows |-> Unconstrained, gaps |-> {G(1, 2, a), G(2, 3, b)} \cup c, span |-> s, containments |-> k] :
   f \in [1..3 -> {"P", "D", "L"}], a \in {<<0, 1>>, <<1, 2>>, <<2, 4>>}, b \in {<<0, 1>>, <<1, 2>>, <<2, 4>>},
   c \in {{}, {G(1, 3, <<2, 4>>)}}, s \in {4, 6}, k \in {{}, {<<3, 1>>}, {<<1, 2>>}}}
Declarations == {[Plain EXCEPT !.sets = <<Set(p, Absence, 1, vs)>>] : p \in Patterns, vs \in VariantLists}
Two(f, bounds, w) == [frames |-> f, windows |-> w, gaps |-> {G(1, 2, bounds)}, span |-> 4, containments |-> {}]
Morning == [days |-> {0}, intervals |-> {<<1, 4>>}, offset |-> 0]
Evening == [days |-> {0, 1}, intervals |-> {<<0, 1>>, <<3, 6>>}, offset |-> 2]
Windows == {<<Absence, Absence>>, <<Morning, Absence>>, <<Evening, Morning>>}
Calendars == {[Plain EXCEPT !.sets = <<Set(Two(f, <<1, 3>>, w), Absence, 2, vs)>>,
                 !.noise = n, !.noiseFrame = IF n = 0 THEN Absence ELSE "N", !.duplicates = d,
                 !.sessionEvents = 2, !.sessionSpan = s, !.bound = r, !.catalog = c] :
   f \in {<<"D", "P">>, <<"P", "L">>, <<"P", "N">>}, w \in Windows, vs \in {<<Pos>>, <<Miss(2), Reord(1)>>, <<Miss(1), Pos>>},
   n \in {0, 3}, d \in {0, 2}, s \in {1, 4}, r \in {Absence, "r"}, c \in {Absence, 1, 2}}
Pairings == {[Plain EXCEPT !.sets = <<Set(Two(f, <<2, 3>>, w), "a", 2, <<Pos, Miss(1)>>),
                                      Set(Two(<<"D", "P">>, bb, w), b, 2, <<Pos>>),
                                      Set(Two(<<"P", "P">>, <<2, 2>>, <<Absence, Absence>>), Absence, 1, <<Pos>>)>>,
                 !.interleavings = i, !.without = n, !.sessionEvents = e, !.duplicates = d] :
   f \in {<<"D", "P">>, <<"L", "P">>}, w \in {<<Absence, Absence>>, <<Evening, Absence>>}, bb \in {<<1, 2>>, <<2, 3>>}, b \in {"a", "b", Absence},
   i \in {<<>>, <<[trigger |-> "a", partner |-> "b", weight |-> 1]>>, <<[trigger |-> "a", partner |-> "a", weight |-> 1]>>},
   n \in {0, 1}, e \in {3, 4}, d \in {0, 3}}
Instructions == {[Plain EXCEPT !.mode = "instruction_only", !.frames = f,
   !.instructions = <<[count |-> 2, low |-> l, high |-> 2]>>, !.duplicates = d, !.eventGap = g] :
   f \in {[P |-> Frames.P], Frames}, l \in 1..2, d \in 0..1, g \in {0, 2}}

Attempted == {
   [Plain EXCEPT !.sets = <<Set(Two(<<"D", "P">>, <<1, 2>>, <<Absence, Absence>>), Absence, 1,
                                <<Miss(2), Pos, Exc(1, 2, 1, 2)>>)>>,
                 !.noise = 1, !.noiseFrame = "N"],
   [Plain EXCEPT !.sets = <<Set(Two(<<"D", "P">>, <<1, 2>>, <<Absence, Absence>>), Absence, 1,
                                <<Reord(1)>>)>>,
                 !.catalog = 1],
   [Plain EXCEPT !.mode = "instruction_only", !.frames = [P |-> Frames.P],
                 !.instructions = <<[count |-> 1, low |-> 2, high |-> 2]>>]}
MCPrograms == {Declarations, Calendars, Pairings, Instructions, Attempted}

MCCallers == 0..VariantsCap
MCAnswers ==
  {[text |-> t, wrong |-> {}] : t \in {"clean", "damaged", "garbage"}}
  \cup {[text |-> "clean", wrong |-> {w}] :
          w \in {"schema", "reference", "violates", "postprocessor", "final", "callback"}}
MCMarks == 1..3
Fails(mark, how) == [m \in MCMarks |-> IF m = mark THEN how ELSE "ok"]
MCHook == [none |-> Fails(0, "ok"), positive |-> Fails(3, "objects"), missing |-> Fails(0, "ok"),
           reordered |-> Fails(2, "invalid"), interval_exceeded |-> Fails(3, "raises")]
MCOutcomes == [none |-> MCMarks, positive |-> {1, 2}, missing |-> {1}, reordered |-> {1},
               interval_exceeded |-> {2, 3}]

===============================================================================
