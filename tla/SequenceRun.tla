------------------------------ MODULE SequenceRun ------------------------------
(***************************************************************************)
(* A run of the sequence form from its configuration to its product: the   *)
(* program is compiled and planned (orchestration/application.py), its     *)
(* slots are generated (orchestration/sequence_workflow.py), and what they *)
(* yield is committed; whatever goes wrong ends in the failed report.  One *)
(* attempt at one slot stands for the delivery, whose own order, retries   *)
(* and reservations are in SequenceDelivery.                               *)
(***************************************************************************)
EXTENDS ProductCommit, TraceGeneration, Projection

CONSTANT PlannedRuns  \* bound: the runs that are planned in detail, while power was not lost

ASSUME RunAssumption == PlannedRuns \in Nat

generated == <<plan, attempt, branch, call, stats>>
files == <<disk, settled, part, run, past, outages>>

RunInit ==
  /\ Init
  /\ plan = NoPlan /\ attempt = NoAttempt /\ branch = Untouched /\ call = Silent
  /\ stats = [b \in Buckets |-> 0]

Forget ==
  /\ plan' = NoPlan /\ attempt' = NoAttempt /\ branch' = Untouched /\ call' = Silent
  /\ stats' = [b \in Buckets |-> 0]

InDetail == pc = "delivering" /\ run <= PlannedRuns /\ outages = 0

Compile ==
  /\ InDetail /\ plan = NoPlan /\ \E family \in Programs : \E program \in family : Load(program)
  /\ UNCHANGED <<attempt, branch, call, stats, vars>>

Plan == InDetail /\ PlanStep /\ UNCHANGED <<attempt, branch, call, stats, vars>>
Trace == InDetail /\ TraceStep /\ UNCHANGED vars

\* A configuration error ends the run before anything is written.
Invalid ==
  /\ InDetail /\ plan.phase = "invalid"
  /\ pc' = "failed" /\ UNCHANGED <<files, product, at>> /\ Forget

\* _write_plan_failed_report and deliver_generation: the planner refused, or
\* the delivery was cut short.
FailsToDeliver ==
  /\ InDetail => plan.phase \in {"refused", "planned"}
  /\ DeliveryFails /\ Forget

Delivers ==
  /\ InDetail => attempt.phase = "accepted"
  /\ PrepareProduct /\ Forget

RunNext ==
  \/ Compile \/ Plan \/ Trace \/ Invalid \/ FailsToDeliver \/ Delivers
  \/ (Run \/ CommitPart \/ CommitReplace \/ CommitManifest \/ WriteFailedReport \/ Settle)
     /\ UNCHANGED generated
  \/ (Crash \/ PowerLoss) /\ Forget

(* What can be planned can be delivered.  Whatever the planner lays out,   *)
(* the rows made of it pass the checks of every slot, meet nothing that    *)
(* was committed before, and pass the final check of all views, which has  *)
(* therefore nothing left to find after the calls were paid; only the      *)
(* instruction sequences that have no gap are planned and never delivered. *)
(* A product with one wrong row, owner, session or time is not committed.  *)
RowsReconcile == plan.phase = "planned" /\ attempt = NoAttempt => PlanReconciles

RunSpec == RunInit /\ [][RunNext]_<<vars, generated>>

===============================================================================
