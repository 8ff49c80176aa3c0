---------------------------- MODULE ProcessWorkflow ----------------------------
(***************************************************************************)
(* One run of the program, from the opened outputs to the exit code (class *)
(* ProcessWorkflow of labelkit/orchestration/process_workflow.py, with     *)
(* application.py and cli/main.py around it): batches of records are read, *)
(* go through the chain of stages and are emitted; what a batch generates  *)
(* is queued and goes through the chain once more; a stop request, the     *)
(* circuit breaker or an error ends the run early; the outputs are         *)
(* published and the report accounts for every record.                     *)
(*                                                                         *)
(* A stage is abstracted to the fates it can give the records of a batch.  *)
(* A session (SessionWorkflow) is one stage that turns frames into         *)
(* sequences, and the delivery of generated sequences (SequenceDelivery)   *)
(* one task.  The signal handler and the timer run on the event loop: only *)
(* while the workflow waits for a task.                                    *)
(***************************************************************************)
EXTENDS Emitter, Ingest

CONSTANTS Configs   \* the configurations and inputs

\* What the checks of a configuration let through, and lines of any kind.
ASSUME ConfigsAssumption ==
  \A c \in Configs :
    /\ c.form \in {"flat", "sequence"} /\ c.mode \in {"process", "generate_only"}
    /\ c.batch_size \in Nat \ {0} /\ {c.siblings, c.products, c.limit} \subseteq Nat
    /\ {c.stream, c.sidecar, c.rejects, c.strict} \subseteq BOOLEAN
    /\ c.lines \in Seq(Line)
    /\ \A i, j \in DOMAIN c.lines :   \* scan refuses any other stream of a generation
         c.lines[i].kind \in {"event", "bare"} => c.lines[j].kind \in {"blank", "event", "bare"}

VARIABLES
  phase,
  queue,     \* _pending, in a run of generate_only the chunks to come
  chain,     \* the stages of the current batch that are still to run
  next,      \* the identity of the next record that is not a line
  count,     \* the counters of the report
  stop,      \* _stop and _interrupted
  timer,     \* a timer will cancel the current task
  opened,    \* metrics.circuit_broken
  broken,    \* _circuit_broken
  fatal,     \* the runtime holds a fatal error
  code,      \* the exit code so far
  lost       \* history: records of batches that were cancelled or abandoned

control == <<phase, queue, chain, next, count, stop, timer, opened, broken, fatal, code, lost>>
vars == <<ingestVars, cfg, batch, emitterVars, control>>

Deducted == {"dropped_dup", "dropped_lowq", "dropped_verify", "absorbed", "dropped_noise", "stitched"}
Counters == Deducted \union {"emitted", "failed", "generated", "fanout", "episodes"}

\* What a stage makes of a record it does not let pass.
Fate == [dedup |-> "dropped_dup", classify |-> "failed", quality |-> "dropped_lowq",
         annotate |-> "failed", verify |-> "dropped_verify"]

Active(b) == {i \in DOMAIN b : b[i].status = "active"}
Fresh(n, first) == [i \in 1 .. n |-> [id |-> first + i - 1, status |-> "active"]]

Init ==
  /\ cfg \in Configs /\ InitIngest /\ InitEmitter
  /\ phase = "open" /\ queue = <<>> /\ chain = <<>> /\ next = Len(cfg.lines) + 1
  /\ count = [k \in Counters |-> 0]
  /\ stop = FALSE /\ timer = FALSE /\ opened = FALSE /\ broken = FALSE
  /\ fatal = FALSE /\ code = 0 /\ lost = 0

-------------------------------------------------------------------------------
\* run: the sequence form has outputs of its own; Emitter.open may fail.
Open ==
  /\ phase = "open"
  /\ phase' = IF cfg.form = "sequence" THEN "deliver"
              ELSE IF cfg.mode = "generate_only" THEN "generate" ELSE "take"
  /\ UNCHANGED <<ingestVars, cfg, batch, emitterVars, queue, chain, next, count, stop, timer,
                 opened, broken, fatal, code, lost>>

EndsWith(c) == phase' = "close" /\ code' = c

OpenFails ==
  /\ phase = "open" /\ cfg.form = "flat" /\ EndsWith(4)
  /\ UNCHANGED <<ingestVars, cfg, batch, emitterVars, queue, chain, next, count, stop, timer,
                 opened, broken, fatal, lost>>

(* _compose_chain and _dispatch.                                           *)
Start(records, stages) ==
  /\ batch' = records /\ chain' = stages
  /\ phase' = "chain" /\ timer' = FALSE

\* Mutant of Stopped: a stop request waits for the queue to drain.
StoppedDrained == stop /\ queue = <<>>

Stopped == stop

\* The head of _run_process and of the loop of _run_generate_only.
TakeGenerated ==
  /\ phase = "take" /\ queue # <<>> /\ ~Stopped
  /\ Start(Head(queue), SelectSeq(cfg.chain, LAMBDA s : s # "generate"))
  /\ queue' = Tail(queue)
  /\ UNCHANGED <<ingestVars, cfg, emitterVars, next, count, stop, opened, broken, fatal, code, lost>>

\* A run of sessions asks the generator for the next session before it looks at _stop.
StartReading ==
  /\ phase = "take" /\ queue = <<>> /\ cfg.mode = "process"
  /\ cfg.stream \/ ~Stopped
  /\ phase' = "read"
  /\ UNCHANGED <<ingestVars, cfg, batch, emitterVars, queue, chain, next, count, stop, timer,
                 opened, broken, fatal, code, lost>>

LeaveLoop ==
  /\ phase = "take" /\ ~cfg.stream
  /\ Stopped \/ (cfg.mode = "generate_only" /\ queue = <<>>)
  /\ phase' = "finalize"
  /\ UNCHANGED <<ingestVars, cfg, batch, emitterVars, queue, chain, next, count, stop, timer,
                 opened, broken, fatal, code, lost>>

Enough == IF cfg.stream THEN SessionClosed
          ELSE got # <<>> /\ (Len(got) = cfg.batch_size \/ Exhausted)

\* islice over records(), or the next step of sessions().
Read ==
  /\ phase = "read" /\ ~Enough
  /\ \/ SkipBlank \/ SkipBad
     \/ ~cfg.stream /\ ReadRecord
     \/ cfg.stream /\ ahead = 0 /\ (SkipDisordered \/ JoinFrame \/ CloseBefore)
     \/ TakeAhead
  /\ UNCHANGED <<batch, emitterVars, control>>

ReadFails ==
  /\ phase = "read" /\ ~Enough /\ InputFails /\ EndsWith(3)
  /\ UNCHANGED <<batch, emitterVars, queue, chain, next, count, stop, timer, opened, broken,
                 fatal, lost>>

StartBatch ==
  /\ phase = "read" /\ Enough /\ ~(cfg.stream /\ stop)
  /\ Start([i \in DOMAIN got |-> [id |-> got[i], status |-> "active"]],
           IF cfg.stream THEN <<"session">> ELSE cfg.chain)
  /\ got' = <<>>
  /\ closed' = IF cfg.stream THEN Append(closed, Len(got)) ELSE closed
  /\ UNCHANGED <<cfg, pos, ahead, highest, scanned, ingested, bad, emitterVars, queue, next, count,
                 stop, opened, broken, fatal, code, lost>>

\* The input is exhausted, or the session read last comes after a stop request.
NoMoreBatches ==
  /\ phase = "read" /\ phase' = "finalize"
  /\ \/ Exhausted /\ ingested > 0 /\ got = <<>> /\ ahead = 0
     \/ Enough /\ cfg.stream /\ stop
  /\ UNCHANGED <<ingestVars, cfg, batch, emitterVars, queue, chain, next, count, stop, timer,
                 opened, broken, fatal, code, lost>>

-------------------------------------------------------------------------------
(* _run_chain: the stage at the head of the chain returns.                 *)
Returns(stage) == phase = "chain" /\ chain # <<>> /\ Head(chain) = stage /\ chain' = Tail(chain)

\* The records of S do not pass.
Dropped(S, status) ==
  [i \in DOMAIN batch |-> IF i \in S THEN [batch[i] EXCEPT !.status = status] ELSE batch[i]]

StageReturns ==
  \E stage \in {"dedup", "quality", "annotate", "verify"}, S \in SUBSET Active(batch) :
    /\ Returns(stage) /\ batch' = Dropped(S, Fate[stage])
    /\ UNCHANGED <<ingestVars, cfg, emitterVars, phase, queue, next, count, stop, timer, opened,
                   broken, fatal, code, lost>>

\* classify: records that fail, and records of a second class that go on as two.
ClassifyReturns ==
  \E S \in SUBSET Active(batch), n \in 0 .. cfg.siblings :
    /\ Returns("classify") /\ n <= Cardinality(Active(batch) \ S)
    /\ batch' = Dropped(S, "failed") \o Fresh(n, next)
    /\ next' = next + n /\ count' = [count EXCEPT !["fanout"] = @ + n]
    /\ UNCHANGED <<ingestVars, cfg, emitterVars, phase, queue, stop, timer, opened, broken, fatal,
                   code, lost>>

\* Mutant of Chunks: what does not fill a chunk is left out.
ChunksFilled(records) ==
  [k \in 1 .. Len(records) \div cfg.batch_size |->
     SubSeq(records, (k - 1) * cfg.batch_size + 1, k * cfg.batch_size)]

\* sub[i:i + batch_size], as many chunks as that takes.
Chunks(records) ==
  LET size == cfg.batch_size
      n == (Len(records) + size - 1) \div size
  IN [k \in 1 .. n |-> SubSeq(records, (k - 1) * size + 1, IF k = n THEN Len(records) ELSE k * size)]

\* _enqueue_generated, and the products of _run_generate_only.
Enqueued(n) ==
  /\ queue' = queue \o Chunks(Fresh(n, next))
  /\ next' = next + n /\ count' = [count EXCEPT !["generated"] = @ + n]

GenerateReturns ==
  \E n \in 0 .. cfg.products :
    /\ Returns("generate") /\ Enqueued(n)
    /\ UNCHANGED <<ingestVars, cfg, batch, emitterVars, phase, stop, timer, opened, broken, fatal,
                   code, lost>>

\* generate_all; a stop request that came in time is seen at the head of the loop.
AllGenerated ==
  /\ phase = "generate" /\ phase' = "settle"
  /\ \E n \in 0 .. cfg.products : Enqueued(n)
  /\ UNCHANGED <<ingestVars, cfg, batch, emitterVars, chain, stop, timer, opened, broken, fatal,
                 code, lost>>

(* SessionWorkflow.run up to _commit: frames are absorbed by sequences or  *)
(* are noise, sequences may be merged, have siblings, be dropped or fail.  *)
SequenceFates == {"active", "dropped_dup", "stitched", "failed"}

SessionReturns ==
  \E absorbed, n \in 0 .. Len(batch), s \in 0 .. cfg.siblings :
    \E fates \in [1 .. n + s -> SequenceFates] :
      /\ Returns("session") /\ n <= absorbed /\ (n = 0 => absorbed = 0) /\ (s > 0 => n > 0)
      /\ \A i, j \in 1 .. n + s : i < j /\ fates[j] = "stitched" => fates[i] = "stitched"
      /\ \E i \in 1 .. n : n > 0 => fates[i] # "stitched"
      /\ batch' = [i \in DOMAIN batch |->
                     [batch[i] EXCEPT !.status = IF i <= absorbed THEN "absorbed" ELSE "dropped_noise"]]
                  \o [i \in 1 .. n + s |-> [id |-> next + i - 1, status |-> fates[i]]]
      /\ next' = next + n + s
      /\ count' = [count EXCEPT !["episodes"] = @ + n, !["fanout"] = @ + s]
      /\ UNCHANGED <<ingestVars, cfg, emitterVars, phase, queue, stop, timer, opened, broken,
                     fatal, code, lost>>

\* The chain has ended: emit_batch follows without waiting.
StartEmission ==
  /\ phase = "chain" /\ chain = <<>> /\ phase' = "emit"
  /\ UNCHANGED <<ingestVars, cfg, batch, emitterVars, queue, chain, next, count, stop, timer,
                 opened, broken, fatal, code, lost>>

Route ==
  /\ phase = "emit"
  /\ \/ RouteSilently \/ RouteReject(cfg.rejects) \/ RouteMain(cfg.sidecar)
     \/ cfg.mishaps /\ (Divert(cfg.rejects) \/ DivertHalfWritten(cfg.sidecar, cfg.rejects))
  /\ UNCHANGED <<ingestVars, cfg, control>>

\* Any write of the batch may fail; the error leaves run without _finalize.
EmissionFails ==
  /\ phase = "emit" /\ WriteFails /\ EndsWith(4)
  /\ UNCHANGED <<ingestVars, cfg, queue, chain, next, count, stop, timer, opened, broken, fatal, lost>>

Tallied(s) == Cardinality({i \in DOMAIN batch : batch[i].status = s})

\* _tally_statuses: what is neither emitted nor deducted has failed.
Tally ==
  LET gain == [s \in Deducted |-> Tallied(s)]
      rest == Len(batch) - Cardinality(gone) - FoldFunctionOnSet(+, 0, gain, Deducted)
  IN count' = [k \in Counters |->
                 count[k] + (CASE k \in Deducted -> gain[k]
                               [] k = "emitted" -> Cardinality(gone)
                               [] k = "failed" -> IF rest > 0 THEN rest ELSE 0
                               [] OTHER -> 0)]

BatchEnds ==
  /\ phase = "emit" /\ Flush /\ Tally /\ phase' = "settle"
  /\ UNCHANGED <<ingestVars, cfg, queue, chain, next, stop, timer, opened, broken, fatal, code, lost>>

\* The task is done; the workflow goes on when the event loop resumes it.
Resume ==
  /\ phase = "settle" /\ phase' = "take"
  /\ UNCHANGED <<ingestVars, cfg, batch, emitterVars, queue, chain, next, count, stop, timer,
                 opened, broken, fatal, code, lost>>

-------------------------------------------------------------------------------
(* What ends a task early.                                                 *)
Waiting == phase \in {"chain", "generate", "deliver"} /\ ~(phase = "chain" /\ chain = <<>>)

\* _request_stop: the timer is for the current task, unless that is done.
RequestStop ==
  /\ cfg.signals /\ (Waiting \/ phase = "settle") /\ ~stop
  /\ stop' = TRUE /\ timer' = Waiting
  /\ UNCHANGED <<ingestVars, cfg, batch, emitterVars, phase, queue, chain, next, count, opened,
                 broken, fatal, code, lost>>

\* A call of the stage opens the breaker; the stage need not notice.
BreakerOpens ==
  /\ cfg.breaker /\ Waiting /\ ~opened
  /\ opened' = TRUE
  /\ UNCHANGED <<ingestVars, cfg, batch, emitterVars, phase, queue, chain, next, count, stop,
                 timer, broken, fatal, code, lost>>

Abandon ==
  /\ lost' = lost + Len(batch) /\ batch' = <<>> /\ chain' = <<>>
  /\ phase' = "settle"

\* CancelledError while _stop is set (_guarded_batch, _await_generate, _guarded_session).
TimerFires ==
  /\ Waiting /\ timer /\ phase # "deliver" /\ Abandon
  /\ UNCHANGED <<ingestVars, cfg, emitterVars, queue, next, count, stop, timer, opened, broken,
                 fatal, code>>

(* A fatal error of a leaf makes the runtime cancel the workflow.  Before  *)
(* a stop request the cancellation, or the error itself, goes through; the *)
(* cancellation is swallowed after one, but the runtime keeps the error.   *)
DomainAborts ==
  /\ cfg.fatal /\ phase \in {"chain", "generate"} /\ Waiting /\ stop /\ Abandon
  /\ fatal' = TRUE
  /\ UNCHANGED <<ingestVars, cfg, emitterVars, queue, next, count, stop, timer, opened, broken, code>>

StageFails ==
  /\ cfg.fatal /\ phase \in {"chain", "generate"} /\ Waiting /\ EndsWith(4)
  /\ fatal' = TRUE
  /\ UNCHANGED <<ingestVars, cfg, batch, emitterVars, queue, chain, next, count, stop, timer,
                 opened, broken, lost>>

\* CircuitBreakerTripped ends the run, and what was emitted is published.
StageTrips ==
  /\ opened /\ phase \in {"chain", "generate"} /\ Waiting
  /\ broken' = TRUE /\ phase' = "finalize"
  /\ lost' = lost + Len(batch) /\ batch' = <<>> /\ chain' = <<>>
  /\ UNCHANGED <<ingestVars, cfg, emitterVars, queue, next, count, stop, timer, opened, fatal, code>>

\* _run_sequence: delivered, given up (DeliveryError), broken, or interrupted.
DeliveryEnds ==
  /\ phase = "deliver"
  /\ \/ EndsWith(0) /\ UNCHANGED fatal
     \/ EndsWith(1) /\ UNCHANGED fatal
     \/ opened /\ EndsWith(4) /\ UNCHANGED fatal
     \/ cfg.fatal /\ EndsWith(4) /\ fatal' = TRUE
     \/ timer /\ EndsWith(4) /\ UNCHANGED fatal
  /\ UNCHANGED <<ingestVars, cfg, batch, emitterVars, queue, chain, next, count, stop, timer,
                 opened, broken, lost>>

-------------------------------------------------------------------------------
(* _report_counts and _unprocessed_residual.                               *)
Sinks == bad + FoldFunctionOnSet(+, 0, count, Deducted \union {"emitted", "failed"})
Residual == scanned + count["generated"] + count["fanout"] + count["episodes"] - Sinks

\* Mutant of Verdict: only what the workflow caught counts as broken.
VerdictCaught ==
  IF broken THEN 4 ELSE IF cfg.strict /\ rejected > 0 THEN 1 ELSE 0

Verdict ==
  IF broken \/ opened THEN 4 ELSE IF cfg.strict /\ rejected > 0 THEN 1 ELSE 0

Report ==
  [exit_code |-> Verdict, emitted |-> count["emitted"],
   unprocessed |-> IF broken \/ opened \/ (cfg.stream /\ stop)
                   THEN {IF Residual > 0 THEN Residual ELSE 0} ELSE {}]

(* _finalize: Emitter.finalize renames the main output, then the sidecar,  *)
(* then writes the report; the handlers and timers are gone.               *)
Finalize(from, f, content, to) == phase = from /\ Publish(f, content) /\ phase' = to

PublishOutput ==
  /\ ~undeliverable
  /\ Finalize("finalize", "output", main, IF cfg.sidecar THEN "sidecar" ELSE "report")
  /\ timer' = FALSE
  /\ UNCHANGED <<ingestVars, cfg, queue, chain, next, count, stop, opened, broken, fatal, code, lost>>

PublishSidecar ==
  /\ Finalize("sidecar", "sidecar", side, "report")
  /\ UNCHANGED <<ingestVars, cfg, queue, chain, next, count, stop, timer, opened, broken, fatal,
                 code, lost>>

PublishReport ==
  /\ Finalize("report", "report", Report, "close") /\ code' = Verdict
  /\ UNCHANGED <<ingestVars, cfg, queue, chain, next, count, stop, timer, opened, broken, fatal, lost>>

\* exit_code_for: a report that cannot be written is an exit of its own.
PublishFails ==
  /\ \/ phase \in {"finalize", "sidecar"} /\ EndsWith(4)
     \/ phase = "report" /\ EndsWith(1)
  /\ UNCHANGED <<ingestVars, cfg, batch, emitterVars, queue, chain, next, count, stop, timer,
                 opened, broken, fatal, lost>>

(* _run_and_close: the runtime raises the fatal error it holds, and the    *)
(* client is closed, which may fail too.                                   *)
Exit ==
  /\ phase = "close" /\ phase' = "exited"
  /\ \/ code' = IF fatal THEN 4 ELSE code
     \/ (code = 0 \/ files.report # {}) /\ code' = 4
  /\ UNCHANGED <<ingestVars, cfg, batch, emitterVars, queue, chain, next, count, stop, timer,
                 opened, broken, fatal, lost>>

-------------------------------------------------------------------------------
Work ==
  \/ Open \/ TakeGenerated \/ StartReading \/ LeaveLoop \/ Read \/ StartBatch \/ NoMoreBatches
  \/ StartEmission \/ Route \/ BatchEnds \/ Resume
  \/ PublishOutput \/ PublishSidecar \/ PublishReport \/ Exit

Stages ==
  \/ StageReturns \/ ClassifyReturns \/ GenerateReturns \/ AllGenerated \/ SessionReturns
  \/ DeliveryEnds

Faults ==
  \/ OpenFails \/ ReadFails \/ EmissionFails \/ BreakerOpens \/ DomainAborts \/ StageFails
  \/ StageTrips \/ PublishFails

Next == Work \/ Stages \/ Faults \/ RequestStop \/ TimerFires

Spec == Init /\ [][Next]_vars

(* The workflow and the event loop go on; no stage is assumed to return.   *)
FairSpec == Spec /\ WF_vars(Work \/ ReadFails) /\ WF_vars(TimerFires)

-------------------------------------------------------------------------------
\* Where the records are that have no fate yet.
Queued == FoldFunction(+, 0, [k \in DOMAIN queue |-> Len(queue[k])])
Limbo == lost + Len(batch) + Queued + Len(got) + (IF ahead = 0 THEN 0 ELSE 1)

\* Rows counted up front that are no records yet, or never will be, being beyond the limit.
Unread == IF Generated THEN scanned - ingested ELSE 0

(* No record is lost or counted twice, however the run is stopped, broken  *)
(* or cancelled: what was read, generated, fanned out or segmented and has *)
(* no fate yet is still in a batch, in the queue or in the reader, or was  *)
(* in a batch that was given up (_tally_statuses, _unprocessed_residual);  *)
(* only of the stream of a generation the rows that are still to be read   *)
(* count as well.                                                          *)
Balanced == Residual = Limbo + Unread

(* A report on disk means that the outputs are published and agree with    *)
(* it: the rows of main and sidecar are the emitted records, in one order, *)
(* apart from rows whose metadata could not be encoded, which are rejected *)
(* as well; every other record has a row in one place at most, and of the  *)
(* rejects that strict looks at only those are missing from the rejects    *)
(* file whose row was given up (_divert_on_failure).                       *)
DeliveredRows ==
  \A report \in files.report :
    /\ files.output = {main} /\ (cfg.sidecar => files.sidecar = {side})
    /\ report.emitted = emitted /\ emitted = Len(main) - Cardinality(halves)
    /\ cfg.sidecar =>
         /\ IsInjective(side) /\ ToSet(side) = ToSet(main) \ halves
         /\ \A i, j \in DOMAIN side, k, l \in DOMAIN main :
              main[k] = side[i] /\ main[l] = side[j] /\ i < j => k < l
    /\ cfg.rejects => Len(rejects) + swallowed = rejected
    /\ IsInjective(main) /\ IsInjective(rejects)
    /\ ToSet(main) \intersect ToSet(rejects) \subseteq halves
    /\ report.unprocessed \subseteq {Limbo + Unread}

(* The program exits with 0 only when everything is published, the breaker *)
(* is closed and no fatal error was met, even one that came in the last    *)
(* call or after a stop request; and only a stop request lets it leave     *)
(* records without a fate (_finalize, _run_and_close).                     *)
VerdictTrue ==
  phase = "exited" /\ code = 0 /\ cfg.form = "flat" =>
    /\ \E report \in files.report : report.exit_code = 0
    /\ ~opened /\ ~broken /\ ~fatal /\ ~undeliverable
    /\ cfg.strict => rejected = 0
    /\ Limbo > 0 => stop

(* The sessions of the dry run are those of the run: both close them at    *)
(* the same frames (sessions, _rehearse_text_line), unless an event is     *)
(* bare, which only the run reads.                                         *)
RehearsalAgrees ==
  cfg.stream /\ phase = "finalize" /\ ~stop /\ ~broken
    /\ (\A i \in DOMAIN cfg.lines : cfg.lines[i].kind # "bare")
    => closed = Rehearsed

(* After a stop request a run of records or sessions ends, though the      *)
(* stage it waits for may never return (_request_stop, the timer).         *)
StopEnds == stop /\ cfg.form = "flat" ~> phase = "exited"
================================================================================
