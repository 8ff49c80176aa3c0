----------------------------- MODULE MCApplication -----------------------------
(***************************************************************************)
(* Runs of three records with reflow, of a generator alone, of sessions of *)
(* frames with keys and times, and of the sequence form; each with the     *)
(* project that asks for it, and projects with images.  MaxEdits keys of a *)
(* project may be written differently, which breaks it or not.             *)
(***************************************************************************)
EXTENDS Application

BlankLine == [kind |-> "blank", key |-> 1, time |-> 0]
BadLine == [kind |-> "bad", key |-> 1, time |-> 0]
Frame(k, t) == [kind |-> "frame", key |-> k, time |-> t]
Event(k, t) == [kind |-> "event", key |-> k, time |-> t]
BareEvent == [kind |-> "bare", key |-> 1, time |-> 9]

Records ==
  [form |-> "flat", mode |-> "process", stream |-> FALSE, batch_size |-> 2,
   chain |-> <<"classify", "generate", "verify">>, siblings |-> 1, products |-> 1,
   sidecar |-> TRUE, rejects |-> TRUE, strict |-> TRUE, mishaps |-> FALSE, signals |-> TRUE,
   breaker |-> FALSE, fatal |-> FALSE, on_bad |-> "skip", limit |-> 9,
   lines |-> <<BadLine, Frame(1, 1), BlankLine, Frame(1, 1), Frame(1, 1)>>,
   meta |-> FALSE, gap_s |-> 0, gap_steps |-> 0, max_span |-> 0, max_len |-> 0]

Mishaps ==
  [Records EXCEPT !.chain = <<"dedup", "annotate">>, !.mishaps = TRUE, !.signals = FALSE,
     !.limit = 2]

Rough ==
  [Records EXCEPT !.chain = <<"quality">>, !.breaker = TRUE, !.fatal = TRUE, !.strict = FALSE,
     !.sidecar = FALSE, !.rejects = FALSE, !.on_bad = "fail",
     !.lines = <<Frame(1, 1), Frame(1, 1), Frame(1, 1), BadLine>>]

Generator ==
  [Records EXCEPT !.mode = "generate_only", !.chain = <<"dedup">>, !.products = 3,
     !.breaker = TRUE, !.fatal = TRUE, !.lines = <<>>]

Sessions ==
  [Records EXCEPT !.stream = TRUE, !.chain = <<>>, !.siblings = 0, !.sidecar = FALSE,
     !.lines = <<Frame(1, 2), Frame(1, 3), Frame(1, 1), Frame(1, 4), Frame(2, 1), Frame(2, 5)>>,
     !.meta = TRUE, !.gap_s = 3, !.max_span = 1]

Full2 ==
  [Sessions EXCEPT !.max_len = 2, !.meta = FALSE, !.gap_steps = 1, !.siblings = 1, !.limit = 3,
     !.lines = <<Frame(1, 0), Frame(1, 0), Frame(1, 0), BlankLine, Frame(1, 0)>>, !.breaker = TRUE]

Strictly ==
  [Sessions EXCEPT !.on_bad = "fail", !.fatal = TRUE, !.max_span = 0,
     !.lines = <<Frame(1, 2), Frame(2, 3), Frame(2, 1)>>]

Replayed ==
  [Sessions EXCEPT !.limit = 4, !.breaker = TRUE,
     !.lines = <<Event(1, 2), BlankLine, Event(1, 1), Event(1, 3), Event(2, 1), Event(2, 2)>>]

Bare == [Rough EXCEPT !.limit = 2, !.lines = <<BlankLine, BareEvent, Event(1, 1), BareEvent>>]

Sequences == [Generator EXCEPT !.form = "sequence", !.sidecar = FALSE, !.rejects = FALSE]

MCConfigs == {Records, Mishaps, Rough, Generator, Sessions, Full2, Strictly, Replayed, Bare,
              Sequences}

-------------------------------------------------------------------------------
LLMs ==
  [default |-> [vision |-> TRUE, window |-> 2], judge |-> [vision |-> TRUE, window |-> 2],
   blind |-> [window |-> 2], open |-> [vision |-> TRUE], small |-> [vision |-> TRUE, window |-> 1]]

Base(sections) ==
  [section |-> sections, class |-> <<>>, frame_class |-> <<>>, llm |-> LLMs,
   embedding |-> [long |-> [window |-> 2], short |-> <<>>]]

Enabled == [enabled |-> TRUE]
Instructed == [enabled |-> TRUE, instruction |-> TRUE]
Files == [input |-> "in", output |-> "out", modality |-> "text", mode |-> "process"]
Rows == [schema |-> "plain", meta_mode |-> "sidecar"]
NoRejects == [schema |-> "plain", meta_mode |-> "inline", rejects |-> "none"]

RecordsProject ==
  [Base([run |-> Files, output |-> Rows, annotate |-> Instructed, verify |-> Enabled,
         classify |-> [enabled |-> TRUE, classes |-> {"x", "y"}, fallback_class |-> "x"],
         generate |-> Instructed])
   EXCEPT !.class = [x |-> [mode |-> "pairwise"]]]

MishapsProject == Base([run |-> Files, output |-> Rows, annotate |-> Instructed])

RoughProject == Base([run |-> Files, output |-> NoRejects, annotate |-> [enabled |-> FALSE]])

GeneratorProject ==
  Base([run |-> [output |-> "out", modality |-> "text", mode |-> "generate_only"],
        output |-> Rows, annotate |-> Instructed,
        generate |-> [enabled |-> TRUE, instruction |-> TRUE, standalone_count |-> 3]])

SessionsProject ==
  Base([run |-> Files, output |-> [schema |-> "plain"], annotate |-> Instructed,
        segment |-> [enabled |-> TRUE, mode |-> "sequence"],
        frame_annotate |-> [enabled |-> TRUE, instruction |-> TRUE, schema |-> "owned",
                            postprocessor |-> "hook"]])

ScreensProject ==
  [Base([run |-> [Files EXCEPT !.modality = "ui"], output |-> [schema |-> "plain"],
         annotate |-> Instructed, segment |-> [enabled |-> TRUE, mode |-> "sequence"],
         classify |-> [enabled |-> TRUE, classes |-> {"x", "y"}, fallback_class |-> "x"],
         extract |-> Enabled, quality |-> [mode |-> "pointwise"]])
   EXCEPT !.class = [x |-> [schema |-> "owned", postprocessor |-> "hook"]]]

ImagesProject ==
  Base([run |-> [Files EXCEPT !.modality = "ui"], output |-> [schema |-> "regions"],
        annotate |-> Instructed, quality |-> [rubric |-> "default:ui"],
        segment |-> [enabled |-> TRUE, mode |-> "image", instruction |-> TRUE]])

SequencesProject ==
  [Base([run |-> [output |-> "out", modality |-> "text", mode |-> "generate_only"],
         output |-> NoRejects, annotate |-> Instructed,
         quality |-> [mode |-> "pointwise", threshold |-> 3],
         generate |-> [enabled |-> TRUE, form |-> "sequence", mode |-> "declared",
                       semantic_llm |-> "default", evaluation_llm |-> "judge",
                       pattern |-> "x", counterfactual_sets |-> TRUE]])
   EXCEPT !.class = [x |-> [description |-> TRUE, state |-> TRUE]]]

\* Part, table, key, and what is written there.
MCEdits ==
  {<<"section", "run", "mode", None>>, <<"section", "run", "modality", "ui">>,
    <<"section", "run", "input", "in">>, <<"section", "cli", "dry_run", TRUE>>,
    <<"section", "cli", "limit", 2>>, <<"section", "cli", "output", "inside the input">>,
    <<"section", "dedup", "enabled", FALSE>>, <<"section", "dedup", "semantic", TRUE>>,
    <<"section", "dedup", "semantic_embedding", "long">>,
    <<"section", "dedup", "semantic_embedding", "short">>,
    <<"section", "segment", "enabled", FALSE>>, <<"section", "segment", "llm", "blind">>,
    <<"section", "segment", "llm", "open">>, <<"section", "segment", "strategy", "rules">>,
    <<"section", "segment", "instruction", FALSE>>,
    <<"section", "segment", "box_parser", "hook">>,
    <<"section", "segment", "companion_suffix", ".json">>, <<"section", "segment", "window", 1>>,
    <<"section", "stitch", "enabled", TRUE>>, <<"section", "stitch", "llm", "open">>,
    <<"section", "stitch", "votes", 2>>, <<"section", "stream", "order_by", "meta">>,
    <<"section", "extract", "enabled", TRUE>>, <<"section", "extract", "llm", "blind">>,
    <<"section", "classify", "enabled", FALSE>>,
    <<"section", "classify", "fallback_class", "z">>, <<"section", "classify", "llm", "small">>,
    <<"section", "classify", "max_labels", 3>>, <<"section", "frame_classify", "enabled", TRUE>>,
    <<"section", "frame_classify", "classes", {"f"}>>,
    <<"section", "frame_annotate", "enabled", TRUE>>,
    <<"section", "frame_annotate", "postprocessor", "broken">>,
    <<"section", "frame_annotate", "postprocessor", None>>,
    <<"section", "quality", "enabled", FALSE>>, <<"section", "quality", "mode", "pointwise">>,
    <<"section", "quality", "judges", <<"blind">>>>,
    <<"section", "quality", "judges", <<"default", "judge">>>>,
    <<"section", "quality", "judges", <<"open">>>>,
    <<"section", "quality", "judges", <<"small">>>>, <<"section", "quality", "llm", "small">>,
    <<"section", "quality", "llm", "nobody">>,
    <<"section", "quality", "selection", "top_ratio">>, <<"section", "quality", "top_ratio", 1>>,
    <<"section", "quality", "threshold", 3>>, <<"section", "quality", "rubric", "inline">>,
    <<"section", "rubric", "levels", TRUE>>, <<"section", "generate", "enabled", FALSE>>,
    <<"section", "generate", "llms", <<"open", "small">>>>,
    <<"section", "generate", "mixture", "weighted">>,
    <<"section", "generate", "weights", <<1>>>>,
    <<"section", "generate", "seed_examples", {"seed"}>>,
    <<"section", "generate", "evaluation_llm", "open">>,
    <<"section", "annotate", "enabled", FALSE>>, <<"section", "annotate", "llm", "blind">>,
    <<"section", "annotate", "self_consistency", 4>>,
    <<"section", "annotate", "postprocessor", "hook">>,
    <<"section", "verify", "enabled", FALSE>>, <<"section", "verify", "enabled", TRUE>>,
    <<"section", "verify", "judges", <<"blind">>>>, <<"section", "output", "schema", "owned">>,
    <<"section", "output", "schema", "regions">>, <<"section", "output", "repair_llm", "blind">>,
    <<"section", "output", "repair_llm", "open">>,
    <<"section", "output", "repair_llm", "nobody">>,
    <<"section", "output", "max_repair_attempts", 0>>,
    <<"section", "output", "meta_mode", "none">>, <<"section", "trace", "enabled", Bad>>,
    <<"class", "x", "mode", "pairwise">>, <<"class", "x", "selection", "top_ratio">>,
    <<"class", "x", "top_ratio", 1>>, <<"class", "x", "threshold", 2>>,
    <<"class", "x", "rubric", "inline">>, <<"class", "x", "levels", TRUE>>,
    <<"class", "x", "schema", "owned">>, <<"class", "x", "postprocessor", None>>,
    <<"frame_class", "f", "postprocessor", "hook">>, <<"frame_class", "f", "enabled", FALSE>>,
    <<"frame_class", "f", "description", TRUE>>}

Asks(p, c) == [project |-> p, cfg |-> c]

MCStarts ==
  {Asks(RecordsProject, Records), Asks(MishapsProject, Mishaps), Asks(RoughProject, Rough),
   Asks(GeneratorProject, Generator), Asks(SessionsProject, Sessions),
   Asks(SessionsProject, Full2), Asks(SessionsProject, Strictly),
   Asks(SessionsProject, Replayed), Asks(RoughProject, Bare),
   Asks(ScreensProject, Sessions), Asks(ImagesProject, Mishaps),
   Asks(SequencesProject, Sequences)}
================================================================================
