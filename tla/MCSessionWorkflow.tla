-------------------------- MODULE MCSessionWorkflow --------------------------
(***************************************************************************)
(* Sessions of three and four frames: threads of short and of single       *)
(* frames with one and with two open threads, requests of every unit that  *)
(* overflow, a frame that fits nowhere, fixed prompts that do not fit.     *)
(***************************************************************************)
EXTENDS SessionWorkflow

MCStages == <<"dedup", "quality", "annotate">>
NoUnits == [dedup |-> {}, quality |-> {}, annotate |-> {}]

Short ==
  [frames |-> 4, refine |-> TRUE, window |-> 3, budget |-> 4, noise_filter |-> TRUE,
   min_len |-> 2, segment_on_error |-> "keep", room |-> 3, heavy |-> {}, stitch |-> TRUE,
   rescue_short |-> TRUE, repass |-> TRUE, max_open |-> 1, stale_gap_steps |-> 0,
   bias |-> "conservative", votes |-> 1, stitch_on_error |-> "keep",
   units |-> [NoUnits EXCEPT !.quality = {"pairwise"}, !.dedup = {"sequence"}]]

Single ==
  [Short EXCEPT !.min_len = 1, !.window = 4, !.max_open = 2, !.stale_gap_steps = 1,
     !.stitch_on_error = "fail", !.units = [NoUnits EXCEPT !.annotate = {"sequence"}]]

Framed ==
  [Short EXCEPT !.frames = 3, !.min_len = 1, !.room = 2, !.heavy = {2}, !.rescue_short = FALSE,
     !.bias = "llm", !.votes = 2,
     !.units = [dedup |-> {"sequence"}, quality |-> {"fixed"}, annotate |-> {"frame"}]]

Unrefined ==
  [Short EXCEPT !.refine = FALSE, !.room = 2, !.heavy = {2}, !.stitch = FALSE,
     !.units = [NoUnits EXCEPT !.quality = {"sequence"}, !.annotate = {"transition"}]]

FixedPart ==
  [Short EXCEPT !.noise_filter = FALSE, !.segment_on_error = "fail", !.room = 0,
     !.repass = FALSE, !.units = [NoUnits EXCEPT !.quality = {"fixed"}]]

MCConfigs == {Short, Single, Framed, Unrefined, FixedPart}
==============================================================================
