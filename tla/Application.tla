------------------------------ MODULE Application ------------------------------
(***************************************************************************)
(* The program from its command line to the exit code (application.py): a  *)
(* project is read, checked and composed (Configuration), and the run that *)
(* it asks for goes on as ProcessWorkflow has it.                          *)
(***************************************************************************)
EXTENDS ProcessWorkflow, Configuration

CONSTANTS
  Starts,    \* a project, with the input and the run that go with it
  Edits,     \* what the user may write: part, table, key and value
  MaxEdits   \* bound: how often

\* load is "read", "check", "accepted", "refused", "rehearsed" or "launched".
VARIABLES
  load,   \* how far the program came
  edits   \* how often the project was edited

applicationVars == <<project, options, load, edits>>
allVars == <<vars, applicationVars>>

NoProject == [part \in Parts |-> <<>>]

StartUp ==
  \E start \in Starts :
    /\ project = start.project /\ cfg = start.cfg
    /\ options = <<>> /\ load = "read" /\ edits = 0
    /\ Init

\* The user writes a key of the project before the program reads it.
EditProject ==
  /\ load = "read" /\ edits < MaxEdits /\ edits' = edits + 1
  /\ \E e \in Edits :
       LET tables == project[e[1]]
           table == IF e[2] \in DOMAIN tables THEN tables[e[2]] ELSE <<>>
       IN project' = [project EXCEPT ![e[1]] = (e[2] :> ((e[3] :> e[4]) @@ table)) @@ tables]
  /\ UNCHANGED <<vars, options, load>>

-------------------------------------------------------------------------------
(* Config.load: both files are parsed, then every check runs.              *)
Refused(c) == load' = "refused" /\ code' = c

IdleWorkflow ==
  UNCHANGED <<ingestVars, cfg, batch, emitterVars, phase, queue, chain, next, count, stop, timer,
              opened, broken, fatal, lost>>

ReadFiles ==
  /\ load = "read" /\ load' = "check"
  /\ options' = Parsed
  /\ UNCHANGED <<vars, project, edits>>

FilesUnreadable ==
  /\ load = "read" /\ Refused(2)
  /\ IdleWorkflow /\ UNCHANGED <<project, options, edits>>

Check ==
  /\ load = "check"
  /\ IF ~Misread /\ Valid THEN load' = "accepted" /\ UNCHANGED code ELSE Refused(2)
  /\ IdleWorkflow /\ UNCHANGED <<project, options, edits>>

(* _sequence_plan_for_run: the program of a scenario may be refused for    *)
(* its patterns (ConfigError), and its plan may not exist.                 *)
PlanFails ==
  /\ load = "accepted" /\ SequenceForm /\ \E c \in {2, 4} : Refused(c)
  /\ IdleWorkflow /\ UNCHANGED <<project, options, edits>>

-------------------------------------------------------------------------------
(* referenced_profiles: the profiles that get permits and credentials.     *)
ReferencedFlat ==
  (IF SegmentCalls THEN {options.segment.llm} ELSE {})
    \union LlmOf({"stitch", "classify", "frame_classify", "extract", "annotate", "frame_annotate"})
    \union (IF On("quality")
            THEN UNION {PanelOf(quality) : quality \in IF On("classify")
                                                       THEN {ClassQuality(c) : c \in ClassNames}
                                                       ELSE {options.quality}}
            ELSE {})
    \union (IF On("generate") THEN Range(options.generate.llms) ELSE {})
    \union (IF On("verify") THEN VerifyPanel ELSE {})
    \union (IF ~On("segment") \/ options.output.max_repair_attempts > 0 THEN RepairProfile ELSE {})

\* _sequence_profiles: the views have the models of the project.
ReferencedSequence ==
  {options.sequence.semantic_llm, options.sequence.evaluation_llm} \union RepairProfile
    \union LlmOf({"frame_annotate"})
    \union (IF ClassNames = {} THEN {}
            ELSE LlmOf({"quality", "annotate"}) \union (IF On("verify") THEN VerifyPanel ELSE {}))

Referenced == IF SequenceForm THEN ReferencedSequence ELSE ReferencedFlat

ReferencedEmbeddings ==
  IF options.dedup.semantic /\ (SequenceForm \/ On("dedup"))
  THEN {options.dedup.semantic_embedding} \ {None} ELSE {}

\* build_stages.
StagesBuilt ==
  LET Stage(built, stage) == IF built THEN <<stage>> ELSE <<>>
  IN Stage(On("segment"), "segment") \o Stage(On("stitch"), "stitch") \o Stage(On("dedup"), "dedup")
       \o Stage(~SequenceForm /\ (On("classify") \/ On("frame_classify")), "classify")
       \o Stage(On("extract"), "extract") \o Stage(On("quality"), "quality")
       \o Stage(On("generate") /\ ~SequenceForm, "generate")
       \o Stage(On("annotate") \/ On("frame_annotate"), "annotate") \o Stage(On("verify"), "verify")

\* A variable that holds a credential is not set.
CredentialsMissing ==
  /\ load = "accepted" /\ ~options.cli.dry_run /\ Referenced # {} /\ Refused(2)
  /\ IdleWorkflow /\ UNCHANGED <<project, options, edits>>

\* The run of a project: its chain has no stage that was not built, in the order built.
Agrees ==
  /\ (cfg.form = "sequence") = SequenceForm /\ cfg.mode = options.run.mode
  /\ cfg.stream = SequenceResolved /\ ~ImageMode
  /\ cfg.chain = SelectSeq(StagesBuilt, LAMBDA stage : stage \in ToSet(cfg.chain))
  /\ cfg.sidecar = (options.output.meta_mode = "sidecar")
  /\ cfg.rejects = (options.output.rejects # "none")

\* _build_resources: an undeclared profile is an InternalError.
Compose ==
  /\ load = "accepted" /\ Agrees
  /\ IF Referenced \subseteq Profiles /\ ReferencedEmbeddings \subseteq Embeddings
     THEN /\ load' = IF options.cli.dry_run THEN "rehearsed" ELSE "launched"
          /\ UNCHANGED code
     ELSE Refused(4)
  /\ project' = NoProject /\ options' = <<>> /\ edits' = 0
  /\ IdleWorkflow

Running(A) == load = "launched" /\ A /\ UNCHANGED applicationVars

Loading ==
  \/ EditProject \/ ReadFiles \/ FilesUnreadable \/ Check \/ PlanFails \/ CredentialsMissing \/ Compose

ApplicationSpec == StartUp /\ [][Loading \/ Running(Next)]_allVars

FairApplication ==
  ApplicationSpec /\ WF_allVars(Running(Work \/ ReadFails)) /\ WF_allVars(Running(TimerFires))

-------------------------------------------------------------------------------
(* What the stages of a run call, at the lines where they do.  The repair  *)
(* of an answer is sent what its call was sent.                            *)
RecordPanels ==
  IF ~On("quality") THEN {}
  ELSE IF SequenceForm THEN {options.quality.llm}
  ELSE IF On("classify") THEN UNION {PanelOf(ClassQuality(c)) : c \in ClassNames}
  ELSE PanelOf(options.quality)

ImageCallers ==
  (IF SegmentCalls THEN {options.segment.llm} ELSE {})
    \union LlmOf({"classify", "frame_classify", "extract", "annotate", "frame_annotate"})
    \union RecordPanels \union (IF On("verify") THEN VerifyPanel ELSE {})

Repairers(callers) ==
  IF callers # {} /\ options.output.max_repair_attempts > 0 THEN RepairProfile ELSE {}

TextCallers ==
  LlmOf({"stitch"})
    \union (IF ~On("generate") THEN {}
            ELSE IF SequenceForm THEN {options.sequence.semantic_llm, options.sequence.evaluation_llm}
            ELSE Range(options.generate.llms))

Callers == ImageCallers \union TextCallers \union Repairers(ImageCallers \union TextCallers)

(* What the checks accept, the stages can be run with: two lists of the    *)
(* callers, one for the checks and one for the permits, agree with what    *)
(* the stages call, in the project and in the view of every class.  Every  *)
(* caller has a declared profile and a permit; one that is sent images can *)
(* see; one that is sent complete evidence has a window it fits in; a      *)
(* class is selected by a rule of its own or by the project's, never by a  *)
(* mixture, and nothing asks for a field that no hook fills in.            *)
AcceptedServes ==
  load = "accepted" =>
    /\ Callers \subseteq Referenced \intersect Profiles
    /\ ReferencedEmbeddings \subseteq Embeddings
    /\ Modality = "ui" =>
         \A name \in ImageCallers
                       \union (IF On("segment") \/ (ProcessMode /\ On("annotate"))
                               THEN Repairers(ImageCallers) ELSE {}) :
           Profile(name).vision
    /\ On("segment") => \A name \in Callers : Profile(name).window # 0
    /\ SequenceForm => \A name \in TextCallers : Profile(name).window # 0
    /\ \A name \in ImageCallers \union LlmOf({"stitch"}) :
         ~SequenceForm => Profile(name).window # 1
    /\ HasViews =>
         \A c \in ClassNames :
           LET quality == ClassQuality(c)
           IN /\ quality.selection = "top_ratio" =>
                   quality.top_ratio # None /\ quality.threshold = None
              /\ ClassSchema(c) = "owned" /\ On("annotate") =>
                   ClassPostprocessor(c) \notin {None, "broken"}
              /\ ClassSchema(c) = "regions" => ImageMode
    /\ On("classify") => options.classify.fallback_class \in ClassNames
    /\ On("frame_annotate") /\ options.frame_annotate.schema = "owned" =>
         \A f \in FrameNames : FrameViewOn(f) => FramePostprocessor(f) \notin {None, "broken"}
================================================================================
