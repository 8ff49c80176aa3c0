# A TLA+ model of LabelKit

LabelKit is a single-process batch tool that turns raw records, streams of frames or nothing but
a configuration into labelled training data, with calls to model providers. Everything
concurrent in it runs on one asyncio event loop, so what can go wrong is not a torn write but an
await: state that is checked, waited over and then used; a cancellation that arrives where
nobody expected one; a permit, a reservation or a counter with two owners or none. The rest is
algorithms over many cases: votes, ratings, threads, windows, cuts, plans, and checks that must
agree with each other. The modules here model both, one action per stretch of code between two
awaits, or per wave of calls whose results are reduced in a fixed order.

Paths are relative to the repository's `labelkit/` unless they start with `docs/` or `spec/`.
The lines of every definition are in `PROJECT.json` under `map`.

## 1. Inventory

| Component | Code | State | Operations | Modelled in |
|---|---|---|---|---|
| Execution runtime | `runtime/scheduler.py` | life cycle of the domain, ids, admission, fatal entries, abort event, counters | `run`, `run_group`, lanes, leaves, settle, terminal | `ExecutionRuntime` |
| Resource permits | `runtime/resources.py` | semaphores per profile and origin | admission, limits | `ExecutionRuntime`, `LLMClient` |
| Provider client | `common/inference/llm_client.py` | key pools, retry contexts, usage | `complete`, `embed` | `LLMClient` |
| Metrics sink, breaker | `common/observability/obslog.py` | failure streak, breaker, counters, captured counters | feed, count, capture, merge | `LLMClient`, `ExecutionRuntime`, `SessionWorkflow` |
| Configuration | `common/config/*`, `common/inference/credentials.py` | sections, class views, generation program | parse, check, resolve | `Configuration`, `SequenceConfig` |
| Application, process workflow | `orchestration/application.py`, `process_workflow.py`, `cli/main.py` | batches, queue of generated records, stop flag, timer, totals | load, run, stop, finalise, close | `Application`, `ProcessWorkflow` |
| Ingest | `operators/ingest.py` | open sessions, cursors | read, assemble, rehearse | `Ingest` |
| Emitter | `operators/emitter.py` | part files, targets, manifest | write rows, flush, rename, commit, failed report | `Emitter`, `ProductCommit`, `Publication` |
| Segmentation, stitching | `operators/segment*.py`, `stitch.py` | windows, relations, open threads | judge, halve, cut; match, seal, evict, second pass | `Segmentation`, `Stitching` |
| Session workflow | `orchestration/session_workflow.py`, `session_capacity.py` | partition, minimum failures, reservation, captured counters | attempt, split, establish, recompute, commit, discard | `SessionWorkflow` |
| Deduplication | `operators/dedup.py`, `dedup_session.py` | index, clusters, overlay, group reservations | prepare, reduce, reserve, commit, discard | `Dedup`, `SequenceDelivery` |
| Stage operators | `operators/{classify,extract,quality,generate,annotate,verify,stream_verify}.py`, `generation/flat.py` | envelopes, votes, pairings, frame products, members, seams | one wave or round each | `Classify` … `StreamVerify` |
| Schema engine | `common/inference/schema_engine.py` | rounds of a call, buckets | inspect, repair, settle, give up | `SchemaEngine` |
| Sequence planner | `operators/generation/{program,planner}.py` | plan | compile, place, pair, noise, replays | `SequencePlan` |
| Scenario generation | `operators/generation/{scenario,state,evaluate,render}.py` | drafts of each branch | seed, plan, execute, render, review, join | `TraceGeneration` |
| Projection | `operators/generation/project.py` | rows, cross-view frontier | project, reconcile, commit | `Projection` |
| Sequence delivery | `orchestration/sequence_workflow.py` | window, coordinators, notices, ledger | deliver, launch, resolve head, cancel, report | `SequenceDelivery`, `OrderedDelivery` |

**Interaction.** The application loads a project, checks it and composes the run that it asks
for. A workflow runs inside one execution domain. A stage builds a `TaskGroupRequest` and awaits
`run_group`; the runtime admits the leaves lane by lane (one lane per resource), and each leaf
calls the provider client, mostly through the schema engine, which sends faulty answers back for
repair. The client takes the profile permit for the whole call and the origin permit per
attempt, feeds the breaker of the metrics sink and reads it before every attempt. A leaf that
fails fatally sets the abort event: the watcher raises, the root task group cancels the
workflow, and the domain waits for every `run_group` caller before it raises the least recorded
error (a cancellation of `run()` itself may cut that wait short).

A run of records or sessions reads batches, takes each through the chain of stages, emits it,
and takes what was generated through the chain again. A session is segmented and stitched once;
its other stages run in attempts on copies of the partition and on an overlay of the
deduplication index, until none of their requests overflows. In the sequence form the
configuration is compiled to a program, the program to a plan, and the delivery controller
prepares the slots of the plan a window ahead: each coordinator generates the traces of its
slot, reserves their contents, passes the gates, projects the rows and waits for its turn; at
the end all views are reconciled once more and the product is published with its manifest last.

**What is hard, and what makes each component correct.** `PROJECT.json` lists the hazards one by
one, each at its line, with the properties that would catch it. In short:

- *Runtime, client*: conserve permits and counters over every way a leaf or call can end, return
  only whole results, end with a stable error, open the breaker for a cause, retry and park
  within bounds, come to rest.
- *Delivery*: commit exactly what a program that prepares nothing ahead would commit, own every
  reservation once, charge attempts only at the head, name the right slot, end.
- *Product*: a consumer that checks digests sees one whole product or none.
- *Planner, traces, projection*: show what was declared and nothing else, announce the calls
  that are made, hand over only what was earned, and plan nothing that the checks after the
  calls would refuse.
- *Session*: judge each frame with its neighbour, claim each frame once, cut and fail only where
  there is no other way, count the last attempt only, end.
- *Stages*: decide by majorities and not by coins or losses, keep frame products of siblings the
  same, deliver what was reviewed, give every frame one owner, generate only new texts.
- *Process*: account for every record once, exit with a code that says what happened, stop when
  asked; accept no configuration that the stages cannot be run with.

## 2. Modules

| Module | Role |
|---|---|
| `ExecutionRuntime`, `ExecutionRuntimeProofs` | the execution domain and its leaves; theorems about it |
| `LLMClient`, `LLMClientProofs` | retry engine, key pools, permits, breaker; theorems |
| `OrderedDelivery` ⟵ `SequenceDelivery`, `SequenceDeliveryProofs` | abstract promise of a delivery; the controller with coordinators and group index, which implements it; theorems, that among them |
| `SequenceConfig` → `SequencePlan` → `Projection` | what is accepted; how it is planned; rows and their checks |
| `SchemaEngine`, `SequencePlan` → `TraceGeneration` | a structured call; one attempt at a slot |
| `Publication` ⟵ `ProductCommit` | abstract promise to a consumer; the file protocol, which implements it |
| `SequenceRun`, `SequenceRunProofs` | composes `ProductCommit`, `TraceGeneration` and `Projection` to a run of the sequence form; proofs that the file protocol publishes, and still does in such a run |
| `Segmentation` → `Stitching` → `SessionWorkflow`, `SessionWorkflowProofs` | one session from frames to output; theorems |
| `Dedup` → `Classify` → `Extract` → `Quality` → `Generate` → `Annotate` → `Verify` → `StreamVerify` → `RecordChain` | the stages of a batch, each extending the one before, and their chain |
| `Ingest`, `Emitter` → `ProcessWorkflow` | reading, outputs, the loop around the stages |
| `Configuration`, `ProcessWorkflow` → `Application`, `ApplicationProofs` | from a project to the exit code of its run; theorems |
| `RecordChainProofs` | theorems about the stages of a batch and their chain |
| `Ordering` | what `sorted()` returns of elements that are all different |
| `CollectionTheorems` | lemmas about sums and folds over sets, functions and sequences, and about what is put in order |
| `MC…` | instances for TLC |

(`A → B`: B extends A. `A ⟵ B`: B implements A under a refinement mapping.)

Operators marked *mutant* sit next to the definition they are a faulty variant of. No
specification uses them; each is a plausible bug (a forgotten release, a dropped guard, a check
at the wrong time) that is put in place of its original to see that a property notices it.

### Runtime, client and delivery

`ExecutionRuntime`: a task is its declaration key. `group[g]` is the life of one `run_group`
call, `task[t]` that of one leaf: `pending` (queued in a lane), `created` (admitted), `running`,
`ended` (over, its callbacks not run), `done`, `dropped`. `Submit` and `Refuse` are the entry of
`run_group`, `Admit` one turn of `_produce_lane`, `StartLeaf`, `LeafEnd` and `NeverStarted` the
body of `_run_leaf`, `LeafDone` the done callbacks, `GroupSettle` the exit of `run_group`. The
workflow is the environment: it may submit any group at any time, swallow an error, or end and
leave groups behind, which `_settle_unmanaged_groups` exists for. A cancellation of `run()` from
outside (`Interrupt`) goes to the workflow that it awaits and to nobody else: the workflow may
absorb it (finding 4 shows one that does), the watcher waits on, and a leaf that fails during the
cleanup still ends the run. While `run()` waits for groups left behind, a cancellation ends it at
once (`SettleInterrupted`); the domain is then never marked closed. `ended` and `done` are apart
because a `TaskGroup` starts to cancel siblings in the done callback of the failed child, an
iteration of the event loop after it failed.

`LLMClient`: `phase[c]` is where a call is; `turn` is the call that runs between two awaits, so
that rotation after a 401, 403 or 429, which does not await, is not interleaved. Time is what is
left of each cooldown and park; `Tick` passes one unit. An answer is a choice among the classes
the code tells apart. `Cancel` is a cancellation at any await; `posts`, `promised` and
`failedSince` are histories.

`SequenceDelivery`: slots are ordinals over both phases. A coordinator is `generating`,
`downstream` (owns a reservation), `aborting` (a task group inside the attempt cancels its
siblings), `deciding`, `done` or `retry`, `ended`; the controller is `waiting`, `launching`,
`settling`, `cancelling` or `ended`. A cancellation of the workflow is requested in one step and
delivered in another, because a coordinator can still run between the two. `Absorbs` is behaviour
of the library: when an `asyncio.TaskGroup` is already aborting and its parent is cancelled,
CPython 3.11 and 3.12 drop that cancellation if a child failed, CPython 3.13 issues it again. The
project supports Python from 3.11 on (`pyproject.toml`), so both are checked. Contents are
abstract identities; reconciliation may reject any candidate. What follows the last slot without
an await (final reconciliation, preparing and committing the files) is one step, `Deliver`, which
succeeds: how these can fail is in `Projection` and `ProductCommit`. `OrderedDelivery` prepares
slots one after the other; `DeliversInOrder` is its specification under the mapping `attempt <-
consumed[next]`, `result <- verdict`: that slots are prepared ahead must not show.

### The sequence form

`SequenceConfig` says which generation configurations the loader and the compiler accept. A role
is its place in the pattern, times are milliseconds, the quantum of the planner. A check on
single fields is left out where the shape of the record already says it; whole-millisecond
checks, the range of dates and leaf schemas are left out.

`SequencePlan` has an action per decision: `Load` (refuses or solves the branches), `Select`
(the pair of one candidate), `Place` (a branch or an interleaved pair), `AddNoise`, `AddReplay`,
`ClosePlan`. The solver's answers are defined by what is solved for: the lexicographically least
times of a branch, the least shift of an exceeded gap, the layouts of a pair ranked by their
witnesses. Pseudo-random draws (pattern, partner, rank) are choices. The time budget of the
solver and its `invalid` outcomes are left out. `Evaluated` is `evaluate_pattern`, the code's
own judge of a trace, which is written independently of the planner; `PlanRealises` compares the
two.

`SchemaEngine` has the three forms of call: validated, finalized (code of the caller completes
the object) and post-validated (the caller executes it as part of the check). A call asks, is
inspected layer by layer, and ends clean, repaired, given up, overflowed or raised.
`TraceGeneration` runs the baseline (caller 0) and one caller per variant on it, side by side:
seed, events with hook and outcome, texts, review, join. The state a transition leaves is a
mark; what the hook and the outcome schema say of a mark depends on the variant's name. Checks
of coupling that come after `execute_event` compare what the model makes equal by construction,
and are left out.

`Projection` makes rows of the plan and of nothing else: all payloads say the same and differ in
their times only, an identifier is the tuple that it is derived from, and annotations, scores,
byte counts and schemas of rows are left out. It then has the code's checks, each against the
plan and the other views: of a candidate, of the frontier of what was committed before, and of
all views at the end.

`ProductCommit` is the file protocol: three data files and the manifest as part files, synced
and renamed one by one, with failing writes and renames, a dying process, and a loss of power
that may undo renames (no directory is ever synced). In `SequenceRun` the first run, while power
was not lost, is planned and generated in detail; one attempt at the first slot (or at the first
noise slot) stands for the delivery, one annotation call for all sequences of the slot.

### Sessions

`Segmentation` has the windows of `pack_windows` that share a frame, halves them on overflow,
and turns relations into episodes; `Stitching` judges candidates against the pool of open
threads, with staleness, eviction, votes, capacity seals, rescue of short episodes, and a second
pass. `SessionWorkflow` runs the other stages in attempts: a wave may overflow in up to
`MaxWave` requests, each of which names a unit (sequence, pair, frame, transition, or the fixed
part of a prompt); the attempt is discarded, a sequence is cut at its midpoint or a minimum is
established, and failures established before are projected on the pieces. All requests of a
stage use one profile and all sequences one label. What verification does to memberships inside
an attempt is in `StreamVerify`.

### Stages of a batch

A batch has an envelope per record; `chain` is the stage it is in. Calls of a wave run
concurrently in the code but read frozen plans and are reduced in declaration order after the
last has ended, so one action takes all outcomes at once (`ExecutionRuntime` has the
concurrency). `Dedup` also runs alone over several batches or attempts of a session, with the
overlay. In `Quality` the fit of Bradley and Terry may yield any weak order of the pool, and
scores are counted in sixtieths. In `Generate` the room of a prompt is a choice, calls are made
class by class in the order of their names, and what survives is one batch. In `Verify` the
items of a wave are reviewed together, in the classic form; in `StreamVerify` a panel's fold is
given as the report it yields, there is one session in a batch, a call that meets a limit of
capacity restores the snapshot of the attempt (`StreamCapacity`), and a breaker or a cancellation
may stop any wave of the driver (`StreamTripped`): a review, which has changed nothing, the wave
of claims, which leaves its surgery as it stands, the steps, which undo it, or a later wave of the
repair, before which it was completed. The batch goes no further then. A breaker during generation
ends the run and is left to `ProcessWorkflow`. `FrameWindows` and `Judged` in `Classify` are the
windows of a sequence that is labelled outside an attempt; inside one (`_plan_frame_episode`) a
sequence has one window, which is the case of a room that holds it. The process starts stream
runs in attempts only.

### Process and configuration

`ProcessWorkflow` has the four forms: records, generation alone, sessions, sequences. A stage is
the fates it can give the records of a batch, a session one stage that turns frames into
sequences, the delivery of sequences one task. The signal handler and the timer run only while
the workflow awaits. `Emitter` appends rows to part files and renames them; a rejects row that
cannot be made is given up, which the history variable `swallowed` counts. `Ingest` assembles
sessions and rehearses them for the dry run; a line is a frame, a bad or a blank one, or an event
of an earlier generation, which is read by a path of its own (`Generated`). `Configuration`
parses two files into sections with defaults, checks them against each other and makes the view
of every class; values are abstract (a hook is `hook` or `broken`, a schema `plain`, `owned`,
`regions` or `broken`, a window 0, 1 or 2). `Application` starts from a project and rewrites up
to `MaxEdits` keys of it, so that refusals and acceptances are reached by the checks and not by
fiat. Projects in image mode are checked but not launched.

## 3. Runs

| Run | Instance | States | Question |
|---|---|---|---|
| `runtime` | 3 tasks, 3 requests (one reuses an id), 2 resources of capacity 1, fairness | 1.1 M | are permits, counters, results and the terminal error right however leaves end, and does the run come to rest |
| `client` | 3 calls, 2 permits, 2 keys, 1 retry, breaker at 2, fairness | 1.5 M | permits, retries, parks and breaker under every mix of answers and cancellations; do calls end |
| `client_retry_after` | 2 calls, 2 keys | – | violated: finding 1 |
| `delivery_safety` | 3 primary and 1 noise slot, window 2, 2 attempts, 4 contents, budget 5 | 0.21 M | duplicates, reservations, window, charges; refinement of `OrderedDelivery` |
| `delivery_ends` | 2 primary and 1 noise slot, `Absorbs = FALSE`, fairness | 24 k | does `deliver()` end |
| `delivery_hangs` | `Absorbs = TRUE`, fairness | – | violated: finding 2 |
| `delivery_fatal_slot`, `delivery_cancel` | 1 or 2 slots | – | violated: findings 3 and 4 |
| `product` | 28,000 programs, 3 of them generated, 1 repair round; 2 runs, 1 loss of power | 0.56 M | plans, traces, rows, and the published product |
| `session` | 5 sessions of 3 or 4 frames, waves of up to 2 overflows, fairness | 0.12 M | cuts, minima, seams, counters; does the recomputation end |
| `records` | dedup alone over 2 batches or attempts; 18 projects of 1–3 records or sequences | 0.71 M | votes, ratings, frames, steps, reviews, novelty |
| `process` | 12 starts of a project with up to 2 of 77 edits, 10 runs, fairness | 0.59 M | accounting, rows, exit code, rehearsal, accepted configurations; does a stopped run end |

**Bounds, and why they are enough.**
*Runtime*: two requests that compete for one permit, one that holds two lanes and one whose id
is taken are the smallest set in which every action fires and a failure in one group meets the
admission, the success and the failure of another. *Client*: two calls on one pool are needed
for two attempts in flight on one key and for a pool whose last key dies twice; the third waits
for a permit. One retry separates "left" from "used up". *Delivery*: three slots with a window
of two give a head, a slot in the window and one that is launched by the commit of the head; the
noise slot gives the second phase; four contents let all slots be delivered and any two collide.
*Planner*: `Programs` has every pattern of three roles over three frame classes (a point, an
interval, an interval with two resources), tight and loose gaps and spans, with and without
containment, times nine lists of variants; two roles with windows in two time zones, noise,
replays, small sessions and a catalog; sets that interleave; instructions. Three roles are the
fewest with a role before, at and after a divergence. A day has `DayLength` milliseconds and a
week two days, so that windows wrap; `RolesCap`, `VariantsCap`, `RowsCap`, `UnitsCap` and
`BlockCap` stand for the code's limits and are small enough to be met. *Traces*: marks, hook and
outcomes are chosen so that a state that a baseline may leave fails under the name of a variant
that takes it over. *Product*: two runs give a file of an older product that completes a newer
one; a third would add no new mixture. `PlannedRuns = 1` and no loss of power for the part in
detail: nothing of a plan or trace outlives its run.
*Session*: four frames give a cut piece that is cut again; waves of two overflows give two units
that fail in one wave. *Records*: three is the least pool with a cycle of preferences; two
sequences compete for a frame between them, and a third has nothing new to want. *Process*:
three records in batches of two give a full and a partial batch and a queue of generated ones;
two streams of an earlier generation have a limit inside them, one has bare events.
`MaxEdits = 2`: the constraints of the code relate two sections at a time. Contents, bytes and
attempts that are interchangeable are symmetry sets only where no liveness is checked.
`CHECK_DEADLOCK` is off because every run of the program ends; that it does not stop early is
stated by the liveness properties.

**Fairness.** Weak fairness of what the event loop runs when it is ready, and of the end of an
operation, which the total timeout of every attempt, the bounded retries and the bounded parks
guarantee. The workflow of the runtime is only assumed to end when none of its groups is active;
no caller is assumed to be cancelled. In the client a call is fair, being let in or cancelled is
not, and time passes. In the delivery coordinators and controller are fair, interruptions are
not. A session is one coroutine, whose steps are fair. Of a run, the workflow and the timer are
fair, but no stage is: a stage that never returns is what the timer is for.

## 4. Findings

1. **A Retry-After can be shortened** (`llm_client.py:1814`). Each 429 overwrites the cooldown
   of its key. With two attempts in flight on the key, a 429 without `Retry-After` that is
   answered second replaces the announced time by a short jitter. The docstring (line 1798) and
   `spec/309-m9-llm-client.md:104` promise the full time.
2. **A delivery can wait forever** (`sequence_workflow.py:942-955`). `_cancel_phase` cancels
   each coordinator once. If the coordinator is leaving a task group that aborts because a child
   failed, CPython 3.11/3.12 drops the cancellation, the failure becomes an outcome, and the
   coordinator awaits a decision from a controller that awaits the coordinator.
   `docs/dev/SPEC-execution-runtime.md:328` promises that siblings are cancelled and that the
   failed report is frozen after their cleanup. With `Absorbs = FALSE` the same property holds
   (`delivery_ends`). The schedule was also reproduced with the classes of the repository on
   Python 3.11.
3. **The failed report of a fatal leaf names no slot** (`sequence_workflow.py:552-555`). The
   leaf sets the abort event of the domain before its coordinator can hand over a notice; the
   cancelled controller clears the ledger. `docs/dev/SPEC-execution-runtime.md:489` says
   `failed_slot` is the slot of the selected fatal.
4. **A cancellation can be swallowed** (`sequence_workflow.py:954`). While the controller
   settles a phase it catches `CancelledError` of the awaited coordinator, and so its own; the
   run goes on to commit. `docs/dev/SPEC-execution-runtime.md:327` says an external cancellation
   is raised again.

**Observed while modelling.** The models follow the code in each of these; no run is spent on
them.

- `run()` does not wait for all of its work when it is cancelled while it settles groups that
  were left behind (`scheduler.py:381`; its docstring at 129 promises that it does): it raises at
  once, `_state` stays "stopping", and the callers, already cancelled, end on their own.
  (`ExecutionRuntime!SettleInterrupted`)
- `event_gap_s = [0, x]` is accepted (`_sequence_layout.py:127`; `docs/CONTRACTS.md:2765`,
  "closed and non-negative"), but then the planner gives the events of an instruction sequence
  one time (`planner.py:238`), and `project.py:1836` ends the run after the calls of the slot
  were paid. Starts are globally unique by `docs/dev/SPEC-sequence-temporal-integrity.md:325`.
  (`Projection!Simultaneous`; `RowsReconcile` says that nothing else is planned and not
  delivered.)
- `scenario.py:523` executes a protected event outside any handler. For a missing variant whose
  target is the last role, or a hook that objects under the new name, what it raises becomes
  fatal (`scenario.py:403`) and ends the run instead of rejecting the attempt
  (`spec/306-m6-generate.md:423`). (`TraceGeneration!BeginVariant`)
- The baseline's events are planned under no variant's name and reviewed under the positive's
  (`scenario.py:446`, `evaluate.py:281`): a hook that depends on it rejects every attempt.
- An `InternalError` inside a post-validator is caught as one of its exceptions
  (`schema_engine.py:909`) and rejects the attempt.
- The vote over several labels may keep more than `classify.max_labels` (`classify.py:552`;
  `spec/50-ch5-config-spec.md:173`).
- If the first sibling fails before its frames are annotated, `annotate.py:1663` skips them for
  the surviving siblings, whose rows say "skipped" though the class is enabled; `emitter.py:333`
  counts such frames as undelivered even where a sibling's row has them (`spec/60:195`).
- `top_ratio` rounds up a float product (`quality.py:257`: 0.07 of 100 is 8), and records are
  selected by id, which equal lines share, so without deduplication more than the quota is kept.
  (`Quality`: `Quotas`, `Kept`. `RatingFair` says what remains: at least the ratio is kept, no more
  than one line beyond it, and a dropped item beats nothing that made up the ratio.)
- The wave of claims comes after frames were given up (`stream_verify.py:748`) and before they
  leave the sequence. A breaker or a cancellation out of it (`stream_verify.py:576`, 119) is rolled
  back by nobody, unlike one in the steps (956): frames stay `dropped_noise` that the sequence still
  lists. The process gives that batch up, so nothing of it is written. (`StreamVerify`: turn
  `torn`; `FrameOwned` says that nothing else is out of place.)
- A rejects row that cannot be encoded (`rejects = "full"` with a lone surrogate) is logged and
  given up (`emitter.py:319`), its record stays counted as rejected, and its status becomes
  `failed` whatever it was (790). (`Emitter`: `RejectIsolated`, `Isolated`, `swallowed`)
- The stream of an earlier generation is read without regard to `input.text_field`
  (`ingest.py:1135`), but rehearsed with it (525), although the docstring of `scan` at 585 says
  that both skip the same lines: such an input rehearses to no sessions and runs with some.
  (`Ingest`: lines that are `bare`, which `RehearsalAgrees` leaves out.)
- Of such a stream all rows are counted as scanned before the first one is a record
  (`ingest.py:1245`), so that those beyond `limit` have no fate in a complete report, and an
  `unprocessed` that is reported includes them and those not read yet. (`ProcessWorkflow`:
  `Unread`)
- An interrupted run of records has no `unprocessed` in its report, because its residual is
  "provably zero" (`process_workflow.py:1278`; `docs/CONTRACTS.md:4495`); but a batch that was
  given up and generated records that still wait in the queue have no fate, so it need not balance.
- A row that cannot be encoded for the sidecar fails after its main row was written
  (`emitter.py:467`; the comment at 450 says they stay aligned). (`Emitter`: `halves`)
- A fatal leaf after a stop request, or a failing close, leaves a report that says exit code 0
  while the process exits with 4.
- In the sequence form `_constraints.py:208` looks at the global `[quality]` where the runtime
  calls the model of each class's view (`credentials.py:121`).

## 5. Proofs

Each theorem holds for every value of the constants that satisfies the assumptions named in the
module of the component: any number of tasks, calls, keys, slots, contents, runs, lines, records
and batches, where the runs of section 3 have a few. The theorems are listed in `PROJECT.json`.

**Assumptions.** `RuntimeAssumption`: finitely many tasks, which are natural numbers (a task is
its declaration key), and positive capacities. `ClientAssumption`: finite sets of calls, profiles
and keys, at least one key for each profile (the loader refuses a profile without), positive
capacities and threshold. `DeliveryAssumption`: a primary slot, a positive window and a positive
number of attempts; `Absorbs` is either. `CommitAssumption` and `NamesAssumption`: a file that is
not there has no contents, a run without a product has none. `ConfigsAssumption`: batches have a
positive size, flags are Boolean, lines are lines; `limit` is any number, and without a limit it
is at least that of the lines; the stream of an earlier generation has nothing but its events
(`scan` refuses any other). `DedupAssumption`: a feature of a record is a number or missing,
an entry of the index is not the mark of a missing one, the reach is a natural number.
`SegmentationAssumption` and `SessionAssumption`: what the loader accepts of segmentation and
stitching (a window of two frames or more, a positive minimum length and pool), a room that is a
number, at least one stage, and requests of the known units. `ProjectsAssumption`: of each
project what `ProjectOK` says, which is what the loader accepts (classes are different and the
fallback is one of them, a call asks for one record at least) and what the stages before hand
over (sequences are ascending places of one session and share none); that no project is the mark
of a missing one.

**Execution runtime** (`ExecutionRuntimeProofs`). `TypeOK`, `AccountsExact`, `GroupsWhole`,
`FatalDecides`, the action property `TasksKeepTheirFate`, and `BreakerStaysInGroup`, which no
run has. The inductive invariant is
`IInv == TypeOK /\ Structure /\ PermitsConserved /\ CountersExact`. `Structure` is what the code
relies on without saying: a registered id has an owner that was accepted (`OwnersMatch`), the
lists of the domain hold exactly the leaves that ended that way (`EntriesMatch`), a leaf that
waits or holds a permit is inside an active group, a returned group has all its results, and a
closed domain is final (`ClosedIsFinal`). It is needed because the counters are arithmetic on
sets of tasks: `GroupSettle` subtracts as many from `queued` as it drops, which is right only if
all dropped tasks are pending and owned by the group; `Close` leaves no permit out only because
every holder is inside an active group. `ClosedIsFinal` also says that a cancellation which
decides the end came out of the workflow. `FatalDecides` follows from `EntriesMatch`,
`ClosedIsFinal` and the existence of a least element of a non-empty set of keys.

**Provider client** (`LLMClientProofs`). `PermitsExact`, `BreakerOpensForCause`,
`CallsAccounted` and typing. Every step but `Tick` is a `Move` of one
call from one phase to another, and what it does to permits and to the counts of the keys is
decided by the two phases alone; this is shown once for each action (`StepMoves`) and then used
by all invariants:
- `PermitInv` adds to `PermitsExact` what an origin has free: the sum, over the profiles that
  share it, of their capacities less their attempts in flight. From the invariant, and the
  permits of the profiles, it follows that no attempt waits for an origin permit in vain.
- `BreakerInv`: the streak counts *different* calls, since one that fed the breaker has left;
  and a pool without a live key has opened the breaker, so that no call selects from it.
- `UsageInv`, `WireInv` and `ParkInv`: a call on the wire was paid for by a retry or by a key
  that rejected it for good; the keys that did are counted, and there are not more than its
  pool has.

**Delivery** (`SequenceDeliveryProofs`). `ReservationsOwned`, `WindowHolds`,
`NoDuplicateDelivered`, `AttemptsReconcile`, typing, and the refinement `DeliversInOrder`. The
invariant `SlotInv` has a part about the controller alone (`Steered`: where the window ends in
each state of the controller), one about a slot and its coordinator (`Tended`: who owns notice
and reservation), one that places each slot with respect to the head and the window (`Placed`)
and one about its charges (`Charged`). None of them is inductive alone: that the head may be
charged needs that its notice is one of the attempt the coordinator works on, which needs that
a slot behind the head has no coordinator left. `Decisions` then says what the head has
committed: as many contents as slots are behind it, all different, all in the index. The
refinement needs `Decisions` and `SlotInv`: a commit or rejection of the head is a step of
`OrderedDelivery`, the end of the delivery its end, and every other step, whatever the
coordinators ahead of the head do, changes nothing that the abstract specification sees. All of
it is proved for both values of `Absorbs`: finding 2 is about progress, not about safety.

**Publication** (`SequenceRunProofs`). `Publishes`, that the file
protocol implements `Publication`, for any number of runs and losses of power. `CommitInv` says
that a manifest, where it is visible or where it may come back after a loss of power, belongs to
a product of the past, whatever files lie beside it; and that a run has written or renamed
exactly the files before its place in the order. Each step is then shown to be an abstract
publication, the mixing of old and new files that a consumer must reject, or a stutter. For
`SequenceRun`, whose steps leave the files alone until a product exists, `RunPublishes` follows.

**Process** (`ApplicationProofs`). Of a run of the program from the project to its exit code:
`Balanced`, `VerdictTrue`, `DeliveredRows` and `RehearsalAgrees`. `WorkflowInv` has
- `Types`, of readers, batches, queue, totals and files;
- `Placed`: which of them may be filled in which phase, e.g. that a batch is emitted only when
  no record waits in the reader with it, and that its cursor is at 0 or at its end elsewhere;
- `Excused`: who may leave records behind, a stop, the breaker or a fatal error, and what flags
  a run that goes on cannot have;
- `Published`: what is on disk when, and that a report agrees with the flags it was made of;
- `Distinct`, `QueueDistinct`: a record has one identity, which is new, and it is in one place;
- `RowsUnique`, `RowsCounted`: the rows of the three files, and the totals that count them;
- `RowsFirst`: no more records than rows that were read, or counted up front;
- `Balanced` itself, which is inductive only relative to the others, as emission settles a batch
  by the totals of its rows.

`RehearsalAgrees` compares two readers that are written apart. The dry run folds a step over all
lines, the run reads a line at a time and holds one ahead. `Alike` says that after the same
lines both have seen the same frames and the same keys, that the session the one has open is
what the other has got and not yet closed, and that the sessions before it have the same
lengths; at the end of the lines both close alike.

*Accepted serves* is the same program before its run. The only thing to carry along is
`LoadInv`: the options are those of the files that were read, and an accepted project passed
every check. The rest is about the checks alone, for every project there can be: the callers of
the stages, one list at a time, are found in the list of the references, in the permits, in the
list of those that see images and in that of those that need a window. Three facts carry it:
the sequence form excludes segmentation, with every stage behind it, and has a class
(`SequenceFormIsPlain`); the view of a class changes how records are selected and never which
models rate them (`PanelOfView`); a class or frame class that is not written has the hook of
the project, which was loaded with the project (`HooksLoad`).

**Session** (`SessionWorkflowProofs`). `UpstreamSound`, `MinimaFail`, `SeamsMarkInterruptions`,
`CountsOnce` and the action property `CutSeals`, for sessions of any length, any judge, any
capacity and any stages. The four invariants and typing are `SessionInvariant`; its parts, in
the order a session passes them:
- `WindowsCover`: while windows are judged, every pair of adjacent frames was judged or lies in a
  window that waits. Windows overlap in one frame and so do the halves of one, which is all the
  code relies on; that `pack_windows` starts this way is shown by induction from the last frame.
- `Valid`: each absorbed frame is claimed by one sequence, within its bounds, and no other frame
  is. The bounds are needed by themselves: a cut for capacity moves them, and a merge must not
  take members from beyond.
- `Assembled`, `Fitting`: segmentation seals what it cut, and leaves nothing that can be cut and
  is known to be too large. `PartsFit` shows that of the greedy parts of a long sequence.
- `ThreadsTyped`, `QueueTyped`, `Owners`: a thread is alive over a sequence of its own; of two
  threads that are open one is more recent, so that cards, eviction and the choice of the older of
  two are functions and not choices; candidates that wait have no thread and share no frame.
- `CutsSealed`: what was cut apart is sealed or went into something that is. `CutSeals` follows,
  since every step that gives a sequence members asks first, on both sides, whether it is sealed.
- `NamesDiffer`, `Fresh`: a failure names a sequence by its root and what it was cut to. Roots
  are disjoint until stitching is over, and halves are named by their members, which are disjoint.
  Without it a failure of one piece could be projected on another.
- `Wave`, `Totals`: a wave that has no progress yet still has a failure that counts at its head,
  so that no wave ends without any, which is the internal error of the code.
A cut is the hard step. `Halved` says what the two halves are, `Replacing` where everything else
went, and each part of the invariant is shown from those two alone (`CutValid`, `CutSeams`,
`CutNamesDiffer`, `CutMinima`, `CutWave`). That a half inherits the right seams (`HalfSeams`)
needs that the frames between two neighbours of a half are the frames between them in the whole,
and that those of the other half are none of them.

**Record path** (`RecordChainProofs`). `KeptIsKept`, `FrameOwned`, `GeneratedNovel`, `VotesSound`
and the action property `OverlayAgrees` of the whole chain, for any projects, any contents,
features and answers, any reach, and any number of rounds, attempts and records. The theorems
assume of a project what `ProjectOK` does; TLC evaluates it on the projects of the run.

Deduplication:
- Verdicts are made of searches: `Closest` picks the least distance and, of equal ones, the entry
  that came first. `NearestInOverlay` shows that the search of the prefix, then of what the
  session adds, then of the two answers, finds what a search of the joined index finds; the
  prefix is in front, so it also wins where the joined index would pick its older entry.
  `ProbeOverlay` and `ReduceOverlay` carry this through the exact key, the composition of text and
  image and the semantic level, and `ReductionOverlay` through the loop over the records.
- `DedupInv` relates history and index: every verdict with a duplicate names an entry, and there
  are as many entries as unique verdicts. Neither is inductive alone, since a reservation is
  committed a step after it was judged: the invariant also says that a live reservation holds
  what its records are judged to *on the index as it is*. The code makes sure of that by the
  generation of the index; in the model nothing else changes the index in between.
- A batch starts on records of the project or on what generation made. That both are contents is
  part of `ChainInv` (`ProjectSound`, `FreshSound`), which carries `DedupInv` through the chain.

Ownership of frames (`ChainInv`), which is hard because verification works on copies: members are
released while a review is routed, granted to others in a second pass, and written to the
envelopes, or put back, in a third.
- `BatchSound`: labels are of the project and envelopes have frames of the session; of the
  siblings of a record one stands for it (`IsAnchor`), and only that one owns frames. That this
  holds when siblings join (`FanOutJoins`) needs that classification gives each record a label
  once, however the samples vote (`VoteSound`).
- `Owned` says of an assignment of frames to envelopes that no two that stand for records share a
  frame and exactly the absorbed frames are taken. Outside the stream driver, and between its
  rounds, the assignment is that of the envelopes; in a round it is `Holding`: what the working
  copies of those under repair hold, and what the envelopes of all others do.
- `Cutting` (while claims are outstanding): what a working copy has lost is remembered with the
  frame it was, and is noise of verification meanwhile; what it claims is noise of segmentation,
  claimed by nobody else in the round. That nobody can claim what another has just released is
  what keeps the way back open.
  A wave of claims that a breaker tears keeps exactly this, and `TornOwned` reads off it what the
  envelopes are worth then.
- `Undoing` (while sequences are mended): exactly the frames that differ between the envelope and
  its copy are remembered, and remembered as they were. `RestoredOwned` shows that any set of
  sequences may give up, in any order, and each frame still has one owner: each of them takes
  back what nobody else could have got.
- The snapshot that a stream falls back to, when it is out of capacity, is sound and owned by
  itself (`SnapshotStays`), as surgery may be far from finished when it is taken back.
The loops over defects and over the reviews of a round are recursive functions; `RoundSound` and
`DefectsSurgery` follow them by the invariants `Round` and `Surgery`.

Generation (`Novelty`, and `Heirs` in `EnvelopeSound`):
- A candidate is matched with the call that was answered with it by counting: answers are gathered
  from the calls that were sent and laid back beside all plans. `AlignedIs` shows that each plan
  gets its own answer, since its place among the calls is how many were sent up to it (`PlaceOf`).
  `OfferedSound` (what is offered is an answer of its call) and `OfferedAll` (every answer is
  offered) follow the flattening of the answers.
- `SurvivorsSound` goes through the candidates with the invariant that what is kept is near no seed
  and nothing kept before, and that each candidate up to here is kept, rejected or near something
  (`NearNothing`, `Accounted`); with a limit, a first part of the survivors remains.
- Seeds that are shown are of one segment, and two segments never have the same class
  (`SegmentsDiffer`), so the class of a candidate says whose seeds it may name (`FittedSound`).
- That a generated record has the class of its seeds when it passes the chain again is part of
  what every stage keeps of every envelope: one inherited label, so it never gets siblings.

Votes (`Votes`, which is `Polls` and `Counts`):
- `Polls`: in each field the value of a majority wins alone (`MajorityWins`), so a combination that
  more than half agree on is the one put together from the fields (`MajorityChosen`); and labels
  that have the fallback among them have nothing else, in a sample and after the vote, since two
  majorities share a sample. Verification works on copies: the annotation of a review becomes that
  of its envelope when it is settled, and a snapshot becomes the batch when a stream is out of
  capacity, so both are part of the invariant.
- `Counts`: the counters are those of labels voted for, taken at once for the whole wave, while
  the property reads them off envelopes, one for each label. `FanOutBears` shows that a label is
  borne by as many envelopes after siblings have joined as envelopes were given it before, which
  needs that an envelope has a label once and that inherited labels count nowhere. From then on
  nothing changes what an envelope is labelled (`Heeds`).

**Sums, folds and orders** (`CollectionTheorems`). Totals in the models are folds of the
community modules, whose recursion is over sets that are chosen from, or over sequences. No
induction theorem of the library can be used, as they take an operator as a parameter. Induction
over the natural numbers is replaced by the least counterexample: the set of numbers for which a
statement fails is a set, and a set of naturals that is not empty has a least element. With that
`MapThenFoldSet`, `FoldFunction` and `FoldLeft` over finite sets, functions and sequences are
shown to be what their recursion says, for addition and for the step of the dry run, and sums are
shown to change by what changed. The places of a finite set of numbers in their order
(`OrderedInts`), and what is picked from a sequence at some places, are shown to be what they
should be, so that the models can say `sorted()` and a filter without an operator as a parameter.

**Only model-checked.** Liveness (`DomainCloses`, `CallsEnd`, `DeliveryEnds`, `SessionEnds`,
`StopEnds`), which is beyond the prover together with `ENABLED`. What `SequencePlan`,
`TraceGeneration` and `Projection` say of all programs (`PlanRealises`, `TracesEarned`,
`RowsReconcile`), where the two sides are searches and evaluations over whole sequences. Of
the record path `FrameProductsAgree`, where the windows of a sequence are cut by a search, and
`RatingFair` and `DeliveredWasReviewed`, which relate an end of the chain to what was seen many
turns before.


## 6. Not modelled

Request texts and prompts, response parsing, token estimates and their calibration: whether a
prompt fits and what an answer is are choices. JSON repair and JSON-schema validation: an answer
is clean, damaged or garbage, and wrong in one layer or in none. Image decoding and geometry,
trees of screens, file discovery: no state between two calls. User hooks and the merge of what
they return: outcomes. Digests and random draws: identities and choices. The gates of a sequence
candidate (quality, annotation, verification) inside `SequenceDelivery`: outcomes of an attempt,
since the stages are those of the records. Report contents, event logs, command line and
console: output. The status and the reason for each part is under `components` in
`PROJECT.json`.

## 7. Plan

What is left is to prove. In this order:

1. `RecordChain`: `DeliveredWasReviewed`, which needs the invariant of every turn of the driver
   for what was seen; then `RatingFair`.
2. `Projection`: the frontier after a commit is that of the rows before and the new ones.
