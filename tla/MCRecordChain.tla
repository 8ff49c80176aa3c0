---------------------------- MODULE MCRecordChain -----------------------------
(***************************************************************************)
(* Without a project: two rounds of up to two records, two attempts.  The  *)
(* contents form a chain of texts (0 and 1 are near, 1 and 2 are near, 0   *)
(* and 2 are not), with images and vectors that agree with the texts or    *)
(* cross them.  With a project, one batch; each project exercises one or   *)
(* two of the stages and leaves the others off.                            *)
(***************************************************************************)
EXTENDS RecordChain

C(exact, text, image, vector, kind) ==
  [exact |-> exact, text |-> text, image |-> image, vector |-> vector, kind |-> kind]

MCFeature ==
  (1 :> C("a", 0, 0, 0, "plain")) @@
  (2 :> C("b", 1, 9, 5, "plain")) @@
  (3 :> C("c", 2, 0, 1, "plain")) @@
  (4 :> C("d", 7, Undecodable, 6, "sequence")) @@
  (5 :> C("e", None, 9, None, "sample")) @@
  (6 :> C("f", 9, None, 9, "plain"))

Cfg(m, r, s, sc, st) ==
  [modality |-> m, requires |-> r, semantic |-> s, scope |-> sc, streaming |-> st]
MCConfigs ==
  {Cfg("text", "tree", TRUE, "global", TRUE), Cfg("ui", "both", TRUE, "global", TRUE),
   Cfg("ui", "image", TRUE, "batch", TRUE), Cfg("ui", "both", TRUE, "global", FALSE),
   Cfg("text", "image", FALSE, "batch", FALSE)}

Free == [lower |-> 0, upper |-> 9, before |-> FALSE, after |-> FALSE]

\* A project with every stage off.
Idle(contents, members) ==
  [dedup |-> Cfg("text", "image", FALSE, "batch", FALSE), deduplicate |-> TRUE, contents |-> contents,
   members |-> members, degraded |-> {}, oversized |-> {},
   classes |-> <<"a", "b", "other">>, fallback |-> "other", max_labels |-> 1, samples |-> 0,
   classify |-> FALSE, classify_on_error |-> "fallback", failures |-> {},
   frame_classify |-> FALSE, frame_room |-> 4,
   stitch |-> FALSE, extract |-> FALSE, extract_fails |-> FALSE,
   quality |-> "off", rounds |-> 1, judges |-> 1, both_orders |-> TRUE, weights |-> <<1>>,
   selection |-> "none", threshold |-> 0, top_ratio |-> <<1, 2>>, on_unscored |-> "keep",
   answers |-> {}, raw |-> {}, raw_failures |-> {},
   generate |-> "off", seed_min |-> None, num_per_record |-> 1, seeds_per_call |-> 1,
   num_per_call |-> 1, examples |-> <<>>, standalone |-> 0, limit |-> None, rooms |-> {9},
   samples_of |-> {}, generate_failures |-> {}, rejected |-> {},
   annotate |-> FALSE, annotate_sc |-> 0, combinations |-> {<<1>>}, voted |-> 1,
   annotate_failures |-> {}, frame_annotate |-> FALSE, frame_failures |-> {}, frame_off |-> {},
   verify |-> FALSE, policy |-> "repair", repairs |-> 1, panel |-> 0, votes |-> {},
   repair_fails |-> FALSE, stream |-> FALSE, reports |-> {}, fates |-> {"done"},
   session |-> 0, bounds |-> [r \in DOMAIN members |-> Free], capacity |-> FALSE, breaker |-> FALSE]

Plain(contents) == Idle(contents, [r \in DOMAIN contents |-> <<>>])

\* Four samples vote on the labels of a record; the second is a duplicate.
Voting == [Plain(<<1, 1>>) EXCEPT !.classify = TRUE, !.max_labels = 2, !.samples = 4,
             !.failures = {"violation", "retryable"}]
\* One answer for each of two records, the second too long for any prompt.
Single == [Plain(<<1, 3>>) EXCEPT !.classify = TRUE, !.classify_on_error = "fail",
             !.failures = {"violation", "truncated"}, !.oversized = {2}]
\* Frames of a sequence with several labels: windows, halving, siblings.
Framed == [Idle(<<4>>, <<<<0, 1, 2, 3, 4, 5>>>>) EXCEPT !.session = 6,
             !.classes = <<"a", "b">>, !.fallback = "b", !.classify = TRUE, !.max_labels = 2,
             !.frame_classify = TRUE, !.annotate = TRUE, !.annotate_failures = {"violation"},
             !.frame_annotate = TRUE, !.frame_failures = {"violation"}, !.frame_off = {1}]
Siblings3 == [Idle(<<4, 1>>, <<<<0, 1>>, <<>>>>) EXCEPT !.session = 2,
             !.classify = TRUE, !.max_labels = 2, !.frame_classify = TRUE, !.annotate = TRUE,
             !.annotate_failures = {"violation"}, !.frame_annotate = TRUE, !.degraded = {}]
\* Three in one pool; two before two judges; three by two criteria.
Pairs3 == [Plain(<<1, 3, 4>>) EXCEPT !.quality = "pairwise", !.selection = "top_ratio",
             !.on_unscored = "drop", !.answers = {"A", "B", "tie", "violation", "call"}]
Jury == [Plain(<<1, 3>>) EXCEPT !.quality = "pairwise", !.judges = 2, !.selection = "threshold",
             !.threshold = 30, !.answers = {"A", "B", "overflow", "pool"}]
Pointed == [Plain(<<1, 3, 4>>) EXCEPT !.quality = "pointwise", !.weights = <<1, 2>>,
             !.selection = "top_ratio", !.raw = {1, 4}, !.raw_failures = {"violation", "overflow"}]
\* Without deduplication, and a third of three is a whole number.
Equal == [Plain(<<3, 1, 3>>) EXCEPT !.deduplicate = FALSE, !.quality = "pointwise",
            !.selection = "top_ratio", !.top_ratio = <<1, 3>>, !.raw = {1, 4}, !.raw_failures = {"violation"}]
Broken == [Plain(<<1, 3>>) EXCEPT !.quality = "pointwise", !.raw = {2}, !.raw_failures = {"pool"}]
\* Three samples vote on two fields.
Fields == [Plain(<<1>>) EXCEPT !.annotate = TRUE, !.annotate_sc = 3, !.voted = 2,
             !.combinations = {<<1, 1>>, <<1, 2>>, <<2, 2>>},
             !.annotate_failures = {"violation", "retryable"}]
\* Two records before a panel of two, and before one judge.
Panel == [Plain(<<1, 3>>) EXCEPT !.annotate = TRUE, !.verify = TRUE, !.panel = 2, !.repairs = 2,
             !.votes = {"pass", "fail", "error"}, !.repair_fails = TRUE]
Alone == [Panel EXCEPT !.panel = 0, !.policy = "drop"]

D(kind, members) == [kind |-> kind, members |-> members]
Pass == [verdict |-> "pass", defects |-> {}]
FailFor(defects) == [verdict |-> "fail", defects |-> defects]

\* A session under review, with steps and stitching.
Session(members, n, reports) ==
  [Idle([r \in DOMAIN members |-> 3 * r - 2], members) EXCEPT
     !.stitch = TRUE, !.extract = TRUE, !.annotate = TRUE, !.verify = TRUE, !.stream = TRUE,
     !.session = n, !.reports = reports, !.fates = {"done", "reseam", "annotate"}]

\* Neighbours that want the same noise frame (2); frame 5 follows the last.
Rivals == [Session(<<<<0, 1>>, <<3, 4>>>>, 6,
             {Pass, FailFor({D("missing_tail", {})}), FailFor({D("missing_head", {})}),
              FailFor({D("off_task_members", {1, 3}), D("missing_tail", {})}),
              [verdict |-> "error", defects |-> {}]}) EXCEPT !.capacity = TRUE, !.breaker = TRUE]
\* Interleaved: each interrupts the other, and stops when it gives frames up.
Woven == Session(<<<<0, 3>>, <<1, 5>>>>, 6,
             {Pass, FailFor({D("off_task_members", {1, 3})}), FailFor({D("missing_members", {})}),
              FailFor({D("wrong_stitch", {})})})
\* Two labels: the sibling keeps its members; one sequence cut for capacity.
Cut == [Session(<<<<0, 1, 2>>, <<4, 5>>>>, 7,
             {Pass, FailFor({D("off_task_members", {1})}), FailFor({}),
              FailFor({D("missing_head", {3}), D("missing_tail", {})})}) EXCEPT
             !.classes = <<"a", "b">>, !.fallback = "b", !.classify = TRUE, !.max_labels = 2,
             !.frame_classify = TRUE, !.frame_annotate = TRUE, !.frame_off = {6},
             !.fates = {"done", "label", "notes"},
             !.bounds = [r \in 1 .. 2 |-> IF r = 1 THEN Free
                           ELSE [lower |-> 4, upper |-> 7, before |-> TRUE, after |-> FALSE]]]

\* Two records of one or two classes are rated and seed up to two calls.
Seeded == [Plain(<<1, 3>>) EXCEPT !.classify = TRUE, !.quality = "pointwise", !.raw = {1, 4},
             !.selection = "threshold", !.threshold = 12, !.seed_min = 30, !.generate = "inline",
             !.rooms = {0, 2}, !.samples_of = {<<2>>, <<6>>, <<4>>}, !.generate_failures = {"violation"},
             !.rejected = {4}, !.annotate = TRUE]
\* Without a bound for seeds, those no worse than the median.
Middling == [Seeded EXCEPT !.classify = FALSE, !.threshold = None, !.seed_min = None, !.selection = "none",
               !.weights = <<1, 2>>, !.seeds_per_call = 2, !.num_per_record = 2, !.num_per_call = 2,
               !.rooms = {1, 2}, !.samples_of = {<<4, 4>>, <<2, 6>>}, !.generate_failures = {},
               !.rejected = {}, !.annotate = FALSE]
\* Without input: two examples, or none; and a limit.
Examples == [Idle(<<>>, <<>>) EXCEPT !.generate = "alone", !.examples = <<1, 3>>, !.seeds_per_call = 2,
               !.num_per_call = 2, !.num_per_record = 2, !.limit = 3,
               !.samples_of = {<<6, 6>>, <<4, 2>>, <<6, 4>>}]

MCProjects == {Voting, Single, Framed, Siblings3, Pairs3, Jury, Pointed, Equal, Broken, Fields,
               Panel, Alone, Rivals, Woven, Cut, Seeded, Middling, Examples}
=============================================================================
