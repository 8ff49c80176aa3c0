----------------------------- MODULE Configuration -----------------------------
(***************************************************************************)
(* What a run is configured with (package labelkit/common/config): two     *)
(* files are parsed into sections whose keys have defaults, the sections   *)
(* are checked against each other, and every class gets a view, the        *)
(* sections of the project with what the class overrides.                  *)
(*                                                                         *)
(* Values are abstract.  A hook is "hook" or "broken" (it does not load,   *)
(* has the wrong arity or fails its probe); a schema is "plain", "owned"   *)
(* (it has fields a postprocessor fills in), "regions" (it refers to       *)
(* regions of an image) or "broken"; a text is TRUE when it is not empty.  *)
(* The window of a profile is 0 (not declared), 1 (the static parts of a   *)
(* prompt do not fit) or 2.  All tables of a class are one table here.     *)
(* Warnings are left out, and few-shot examples and styles.                *)
(***************************************************************************)
EXTENDS Integers, Sequences, FiniteSets, Functions

CONSTANTS
  None,   \* no value
  Bad     \* a value of the wrong type or out of range

ASSUME NoneIsNotBad == None # Bad

VARIABLES
  project,   \* what is written: part -> table -> key -> value
  options    \* the parsed sections of the project

Parts == {"section", "class", "frame_class", "llm", "embedding"}

-------------------------------------------------------------------------------
(* Parsing: a key that is missing or bad takes the default of its section. *)
Take(table, key, default) ==
  IF key \in DOMAIN table /\ table[key] # Bad THEN table[key] ELSE default

Parse(table, defaults) == [key \in DOMAIN defaults |-> Take(table, key, defaults[key])]

Table(part, name) == IF name \in DOMAIN project[part] THEN project[part][name] ELSE <<>>

Present(section) == section \in DOMAIN project["section"]
Written(section, key) == key \in DOMAIN Table("section", section)

\* The errors of the getters: one bad key is enough.
Misread ==
  \E part \in Parts : \E name \in DOMAIN project[part] :
    \E key \in DOMAIN project[part][name] : project[part][name][key] = Bad

ProfileDefaults == [vision |-> FALSE, window |-> 0]
EmbeddingDefaults == [window |-> 0]

RunDefaults == [input |-> None, output |-> None, modality |-> None, mode |-> "process"]

CliDefaults == [input |-> None, output |-> None, limit |-> None, dry_run |-> FALSE]

StreamDefaults == [order_by |-> "input_order", key |-> {}, session_max_span_s |-> 0]

DedupDefaults ==
  [enabled |-> TRUE, scope |-> "global", minhash |-> "compatible", semantic |-> FALSE,
   semantic_embedding |-> None]

SegmentDefaults ==
  [enabled |-> FALSE, mode |-> None, strategy |-> "hybrid", llm |-> "default", window |-> 20,
   instruction |-> FALSE, box_parser |-> None, companion_suffix |-> None]

StitchDefaults == [enabled |-> FALSE, llm |-> "default", votes |-> 1]

ExtractDefaults == [enabled |-> FALSE, llm |-> "default"]

ClassifyDefaults ==
  [enabled |-> FALSE, llm |-> "default", assignment |-> "single", max_labels |-> None,
   fallback_class |-> "", self_consistency |-> 0, classes |-> {}]

FrameClassifyDefaults ==
  [enabled |-> FALSE, llm |-> "default", fallback_class |-> "", classes |-> {}]

FrameAnnotateDefaults ==
  [enabled |-> FALSE, llm |-> "default", instruction |-> FALSE, schema |-> None,
   postprocessor |-> None]

QualityDefaults ==
  [enabled |-> TRUE, mode |-> "pairwise", llm |-> "default", threshold |-> None,
   selection |-> "threshold", top_ratio |-> None, judges |-> <<>>, rubric |-> ""]

GenerateDefaults ==
  [enabled |-> FALSE, form |-> "flat", llms |-> <<"default">>, mixture |-> "round_robin",
   weights |-> <<>>, instruction |-> FALSE, seed_examples |-> {}, standalone_count |-> None,
   sample_validator |-> None]

AnnotateDefaults ==
  [enabled |-> TRUE, llm |-> "default", instruction |-> FALSE, self_consistency |-> 0,
   postprocessor |-> None]

VerifyDefaults == [enabled |-> FALSE, llm |-> "judge", judges |-> <<>>]

OutputDefaults ==
  [schema |-> None, max_repair_attempts |-> 2, repair_llm |-> None, meta_mode |-> "inline",
   rejects |-> "refs", validator |-> None]

TraceDefaults == [enabled |-> FALSE, path |-> ""]

\* [generate] as the parser of the sequence form reads it.
SequenceDefaults ==
  [mode |-> None, semantic_llm |-> None, evaluation_llm |-> None, max_slot_attempts |-> 3,
   pattern |-> None, counterfactual_sets |-> FALSE, instruction_only |-> None]

\* _parse_stream_family, _parse_labeling_family and _parse_delivery_family.
Sections ==
  [run |-> RunDefaults, cli |-> CliDefaults, stream |-> StreamDefaults, dedup |-> DedupDefaults,
   segment |-> SegmentDefaults, stitch |-> StitchDefaults, extract |-> ExtractDefaults,
   classify |-> ClassifyDefaults, frame_classify |-> FrameClassifyDefaults,
   frame_annotate |-> FrameAnnotateDefaults, quality |-> QualityDefaults,
   generate |-> GenerateDefaults, annotate |-> AnnotateDefaults, verify |-> VerifyDefaults,
   output |-> OutputDefaults, trace |-> TraceDefaults, sequence |-> SequenceDefaults]

Parsed ==
  [s \in DOMAIN Sections |->
     Parse(Table("section", IF s = "sequence" THEN "generate" ELSE s), Sections[s])]

-------------------------------------------------------------------------------
Profiles == DOMAIN project["llm"]
Profile(name) == Parse(Table("llm", name), ProfileDefaults)
Embeddings == DOMAIN project["embedding"]

On(section) == options[section].enabled
Modality == IF options.run.modality = None THEN "text" ELSE options.run.modality
ProcessMode == options.run.mode = "process"
SequenceForm == options.generate.form = "sequence"
ImageMode == On("segment") /\ options.segment.mode = "image"
SequenceResolved == On("segment") /\ options.segment.mode = "sequence"

\* llm_referenced: does the segmentation call a model?
SegmentCalls ==
  \/ ImageMode /\ options.segment.instruction
  \/ SequenceResolved /\ options.segment.strategy \in {"llm", "hybrid"}

Odd(n) == n % 2 = 1
Votes(n) == n = 0 \/ (n >= 3 /\ Odd(n))
Loads(hook) == hook # "broken"

-------------------------------------------------------------------------------
(* The view of a class: what it inherits and what it overrides.  The keys  *)
(* that select records are overridden together or not at all.              *)
Own(c) == Table("class", c)

SelectionGroup == {"selection", "threshold", "top_ratio"}

\* What a class may write in any of its sections.
ClassKeys ==
  SelectionGroup \union {"mode", "rubric", "levels", "schema", "postprocessor", "state",
                         "description", "time_bindings"}

ClassNames ==
  options.classify.classes \union (IF SequenceForm THEN DOMAIN project["class"] ELSE {})

HasViews == On("classify") \/ SequenceForm

Selector ==
  CASE options.quality.rubric # "" -> options.quality.rubric
    [] options.quality.rubric = "" /\ (SequenceResolved \/ SequenceForm) -> "default:trajectory"
    [] OTHER -> IF Modality = "ui" THEN "default:ui" ELSE "default:text"

ClassQuality(c) ==
  LET base == [options.quality EXCEPT !.rubric = Selector]
      reset == IF DOMAIN Own(c) \intersect SelectionGroup = {} THEN base
               ELSE [base EXCEPT !.selection = "threshold", !.threshold = None, !.top_ratio = None]
  IN [key \in DOMAIN reset |->
        IF key \in SelectionGroup \union {"mode", "rubric"} THEN Take(Own(c), key, reset[key])
        ELSE reset[key]]

ClassPostprocessor(c) == Take(Own(c), "postprocessor", options.annotate.postprocessor)
ClassSchema(c) == Take(Own(c), "schema", options.output.schema)

\* A packaged rubric has six levels; an inline one is the class's own or the project's.
GlobalLevels == Selector = "inline" => Take(Table("section", "rubric"), "levels", FALSE)
ClassLevels(c) ==
  ClassQuality(c).rubric = "inline" => Take(Own(c), "levels", Selector = "inline" /\ GlobalLevels)

FrameNames ==
  options.frame_classify.classes
    \union (IF SequenceForm THEN DOMAIN project["frame_class"] ELSE {})

FrameViewOn(f) == Take(Table("frame_class", f), "enabled", TRUE)
FramePostprocessor(f) ==
  Take(Table("frame_class", f), "postprocessor", options.frame_annotate.postprocessor)

-------------------------------------------------------------------------------
(* Profiles.                                                               *)
PanelOf(quality) ==
  IF quality.mode = "pairwise" /\ quality.judges # <<>> THEN Range(quality.judges)
  ELSE {quality.llm}

\* Mutant of QualityProfiles: the panels of the classes are not looked at.
QualityProfilesGlobal == PanelOf(options.quality)

QualityProfiles ==
  UNION {PanelOf(quality) :
           quality \in IF On("classify") /\ ClassNames # {}
                       THEN {ClassQuality(c) : c \in ClassNames} ELSE {options.quality}}

VerifyPanel ==
  IF options.verify.judges # <<>> THEN Range(options.verify.judges) ELSE {options.verify.llm}

LlmOf(sections) == {options[s].llm : s \in {t \in sections : On(t)}}

RepairProfile == {options.output.repair_llm} \ {None}

\* _check_profile_refs and _check_judge_panels.
ProfileRefs ==
  /\ LlmOf({"stitch", "classify", "frame_classify", "frame_annotate", "extract"})
       \union (IF SegmentCalls THEN {options.segment.llm} ELSE {})
       \union {options.quality.llm, options.annotate.llm}
       \union (IF SequenceForm THEN {} ELSE Range(options.generate.llms))
       \union (IF On("verify") THEN VerifyPanel ELSE {})
       \union RepairProfile
       \union Range(options.quality.judges) \union Range(options.verify.judges)
     \subseteq Profiles
  /\ \A s \in {"quality", "verify"} : options[s].judges # <<>> => Odd(Len(options[s].judges))

\* _vision_users: every stage that sends images, and the repair of its answers.
VisionUsers ==
  LET users ==
        (IF SegmentCalls THEN {options.segment.llm} ELSE {})
          \union LlmOf({"frame_classify", "classify", "extract", "annotate", "frame_annotate"})
          \union (IF On("quality") THEN QualityProfiles ELSE {})
          \union (IF On("verify") THEN VerifyPanel ELSE {})
      replayed == (On("segment") /\ users # {}) \/ (ProcessMode /\ On("annotate"))
  IN users \union (IF replayed /\ options.output.max_repair_attempts > 0 THEN RepairProfile ELSE {})

VisionProfiles ==
  Modality = "ui" => \A name \in VisionUsers \intersect Profiles : Profile(name).vision

\* _collect_referenced: the profiles that need a window.
ReferencedAtLoad ==
  (IF SegmentCalls THEN {options.segment.llm} ELSE {})
    \union LlmOf({"stitch", "classify", "frame_classify", "frame_annotate", "extract", "annotate"})
    \union (IF On("quality") THEN QualityProfiles ELSE {})
    \union (IF ~On("generate") THEN {}
            ELSE IF SequenceForm
            THEN {options.sequence.semantic_llm, options.sequence.evaluation_llm} \ {None}
            ELSE Range(options.generate.llms))
    \union (IF On("verify") THEN VerifyPanel ELSE {})
    \union (IF ~On("segment") \/ options.output.max_repair_attempts > 0 THEN RepairProfile ELSE {})

\* Complete evidence cannot be fitted to a window nobody declared.
Windows ==
  /\ On("segment") => \A name \in ReferencedAtLoad \intersect Profiles : Profile(name).window # 0
  /\ On("dedup") /\ options.dedup.semantic /\ SequenceResolved =>
       \A name \in {options.dedup.semantic_embedding} \intersect Embeddings :
         Parse(Table("embedding", name), EmbeddingDefaults).window # 0

\* _check_static_budget, for the sections of the _static_checks_*.
StaticBudget ==
  LET callers ==
        (IF SegmentCalls THEN {options.segment.llm} ELSE {})
          \union LlmOf({"stitch", "classify", "extract", "annotate", "frame_classify",
                        "frame_annotate"})
          \union (IF On("quality") THEN QualityProfiles ELSE {})
          \union (IF On("generate") /\ ~SequenceForm THEN Range(options.generate.llms) ELSE {})
          \union (IF On("verify") THEN VerifyPanel ELSE {})
  IN \A name \in callers \intersect Profiles : Profile(name).window # 1

\* _check_dedup_semantic and _check_minhash_threshold.
Dedup ==
  /\ options.dedup.minhash = "compatible"
  /\ options.dedup.semantic /\ ~ImageMode => options.dedup.semantic_embedding \in Embeddings

-------------------------------------------------------------------------------
(* The sections against each other.                                        *)
CrossField ==
  LET generate == options.generate
  IN /\ options.quality.selection = "top_ratio" =>
          options.quality.top_ratio # None /\ options.quality.threshold = None
     /\ Votes(options.annotate.self_consistency)
     /\ generate.mixture = "weighted" =>
          /\ Len(generate.weights) = Len(generate.llms)
          /\ \A i \in DOMAIN generate.weights : generate.weights[i] > 0

FlatKeys == {"llms", "seed_examples", "standalone_count"}

GenerationForm ==
  IF ~SequenceForm THEN \A key \in DOMAIN SequenceDefaults : ~Written("generate", key)
  ELSE /\ \A key \in FlatKeys : ~Written("generate", key)
       /\ ~ProcessMode /\ Modality = "text"
       /\ On("generate") /\ ~On("classify") /\ ~On("frame_classify")
       /\ On("dedup") /\ options.dedup.scope = "global"
       /\ options.output.meta_mode = "inline" /\ options.output.rejects = "none"
       /\ options.cli.limit = None

RunMode ==
  IF ProcessMode THEN ~Written("generate", "seed_examples") /\ ~Written("generate", "standalone_count")
  ELSE /\ options.run.input = None /\ options.cli.input = None
       /\ Modality = "text" /\ On("generate")
       /\ ~SequenceForm =>
            /\ Written("generate", "seed_examples") # Written("generate", "standalone_count")
            /\ Written("generate", "seed_examples") =>
                 options.generate.seed_examples # {} /\ "" \notin options.generate.seed_examples

Regions(schema) == schema = "regions" => ImageMode

Owned(schema, hook) == schema = "owned" => hook # None

\* _load_schema_and_hooks.
SchemaAndHooks ==
  /\ options.output.schema \notin {None, "broken"} /\ Regions(options.output.schema)
  /\ On("annotate") /\ ~HasViews => Owned(options.output.schema, options.annotate.postprocessor)
  /\ Loads(options.output.validator) /\ Loads(options.annotate.postprocessor)
  /\ Loads(options.frame_annotate.postprocessor)
  /\ On("generate") /\ ~SequenceForm => Loads(options.generate.sample_validator)

GlobalRubric ==
  /\ Selector = "inline" => Present("rubric")
  /\ options.quality.mode = "pointwise" => GlobalLevels

\* _merge_class_sections and what _build_class_views checks of the result.
ClassView(c) ==
  LET quality == ClassQuality(c)
  IN /\ DOMAIN Own(c) \subseteq ClassKeys
     /\ quality.selection = "top_ratio" => quality.top_ratio # None /\ quality.threshold = None
     /\ quality.rubric = "inline" => "levels" \in DOMAIN Own(c) \/ Selector = "inline"
     /\ quality.mode = "pointwise" => ClassLevels(c)
     /\ ClassSchema(c) # "broken" /\ Regions(ClassSchema(c))
     /\ On("annotate") => Owned(ClassSchema(c), ClassPostprocessor(c))

ClassTable ==
  LET classify == options.classify
      n == Cardinality(classify.classes)
  IN /\ n >= 2 /\ classify.fallback_class \in classify.classes
     /\ classify.max_labels # None => classify.max_labels \in 2 .. n
     /\ DOMAIN project["class"] \subseteq classify.classes

ClassifyAndViews ==
  /\ Votes(options.classify.self_consistency)
  /\ Written("classify", "max_labels") => options.classify.assignment = "multi"
  /\ \A c \in DOMAIN project["class"] :
       /\ "time_bindings" \in DOMAIN Own(c) => SequenceForm /\ On("annotate")
       /\ Loads(ClassPostprocessor(c))
  /\ On("classify") => ClassTable
  /\ HasViews => \A c \in ClassNames : ClassView(c)

StageMatrix ==
  /\ On("annotate") \/ On("quality") \/ (ImageMode /\ SegmentCalls)
  /\ On("verify") => On("annotate")
  /\ On("generate") => Modality = "text" /\ (ProcessMode => On("quality"))

StageSwitches ==
  /\ On("segment") =>
       /\ ProcessMode /\ ~On("generate")
       /\ SequenceResolved => On("annotate")
       /\ ImageMode => On("annotate") \/ SegmentCalls
  /\ On("stitch") => On("segment")
  /\ Odd(options.stitch.votes)
  /\ On("extract") => On("segment") /\ Modality = "ui"

StreamKeys ==
  LET stream == options.stream
      timed == stream.order_by = "meta"
  IN /\ stream.order_by \in {"input_order", "meta"}
     /\ timed \/ "meta" \in stream.key => Modality = "text"
     /\ stream.session_max_span_s > 0 => timed
     /\ stream.key \subseteq {"meta", "source_dir"}
     /\ options.segment.window >= 2 \/ ImageMode

\* What one mode of the segmentation forbids of the other, in both directions.
ImageKeys == {"instruction", "box_parser", "companion_suffix"}
SequenceKeys == {"strategy", "window"}

SegmentImage ==
  LET segment == options.segment
      Wrote(key) == Written("segment", key)
  IN /\ On("segment") => segment.mode # None
     /\ SequenceResolved => \A key \in ImageKeys : ~Wrote(key)
     /\ ImageMode =>
          /\ \A key \in SequenceKeys : ~Wrote(key)
          /\ Wrote("instruction") => segment.instruction
          /\ Wrote("llm") => Wrote("instruction")
          /\ Wrote("instruction") \/ Wrote("box_parser")
          /\ Wrote("box_parser") = Wrote("companion_suffix") /\ segment.companion_suffix # ".png"
          /\ Loads(segment.box_parser)
          /\ Modality = "ui" /\ ~Present("stream") /\ ~options.dedup.semantic
          /\ \A s \in {"stitch", "extract", "frame_classify", "frame_annotate"} : ~On(s)
          /\ options.output.meta_mode # "none"
          /\ On("quality") => options.quality.rubric # ""
  /\ ~Written("segment", "use_vision")

\* _build_frame_class_views: what a frame class may write, and what its view needs.
FrameClassView(f) ==
  /\ DOMAIN Table("frame_class", f)
       \subseteq {"enabled", "postprocessor", "description"}
                   \union (IF SequenceForm THEN {"generate"} ELSE {})
  /\ On("frame_annotate") /\ FrameViewOn(f) =>
       Owned(options.frame_annotate.schema, FramePostprocessor(f))

FrameFamily ==
  LET classify == options.frame_classify
      annotate == options.frame_annotate
      live == On("frame_classify") \/ SequenceForm
  IN /\ On("frame_classify") => On("segment") /\ classify.fallback_class \in classify.classes
     /\ On("frame_annotate") => (On("segment") \/ SequenceForm) /\ annotate.instruction
     /\ ~Written("frame_classify", "assignment") /\ ~Written("frame_annotate", "self_consistency")
     /\ On("frame_classify") \/ On("frame_annotate") => options.output.meta_mode # "none"
     /\ On("frame_annotate") =>
          /\ annotate.schema \in {"plain", "owned"}
          /\ ~live => Owned(annotate.schema, annotate.postprocessor)
     /\ \A f \in DOMAIN project["frame_class"] :
          live /\ f \in FrameNames /\ Loads(FramePostprocessor(f))
     /\ live => \A f \in FrameNames : FrameClassView(f)

(* parse_generation_config up to the classes that its patterns name; the   *)
(* patterns themselves, their layout in time and the budget of the prompts *)
(* are left out.                                                           *)
SequenceGeneration ==
  LET s == options.sequence
      Served(name) == name \in Profiles /\ Profile(name).window > 0
  IN SequenceForm =>
       /\ s.mode \in {"declared", "instruction_only"}
       /\ Served(s.semantic_llm) /\ Served(s.evaluation_llm) /\ s.semantic_llm # s.evaluation_llm
       /\ s.max_slot_attempts \in 1 .. 20
       /\ IF s.mode = "declared" THEN s.pattern # None /\ s.counterfactual_sets
                                      /\ s.instruction_only = None
          ELSE s.instruction_only # None /\ s.pattern = None /\ ~s.counterfactual_sets
       /\ {s.pattern, s.instruction_only} \ {None} \subseteq ClassNames
       /\ s.pattern # None => "state" \in DOMAIN Own(s.pattern)
       /\ \A c \in ClassNames : c \in options.classify.classes \/ "description" \in DOMAIN Own(c)
       /\ On("quality") =>
            \A c \in ClassNames :
              LET quality == ClassQuality(c)
              IN quality.mode = "pointwise" /\ quality.selection = "threshold"
                   /\ quality.threshold # None

\* _check_required_instructions and _check_paths.
Effective(key) == IF options.cli[key] # None THEN options.cli[key] ELSE options.run[key]

RequiredAndPaths ==
  /\ options.run.modality # None
  /\ On("annotate") => options.annotate.instruction
  /\ On("generate") /\ ~SequenceForm => options.generate.instruction
  /\ Effective("output") \notin {None, "no such directory"}
  /\ ProcessMode => Effective("input") # None
                    /\ Effective("output") \notin {"inside the input", "the input"}
  /\ SequenceForm /\ On("trace") => options.trace.path # "the output"

\* validate: every check runs and adds its errors.
Valid ==
  /\ Dedup /\ ProfileRefs /\ CrossField /\ GenerationForm /\ RunMode
  /\ SchemaAndHooks /\ GlobalRubric /\ ClassifyAndViews /\ VisionProfiles
  /\ StageMatrix /\ StageSwitches /\ StreamKeys /\ SegmentImage
  /\ FrameFamily /\ SequenceGeneration /\ Windows /\ StaticBudget /\ RequiredAndPaths
================================================================================
