-------------------------------- MODULE Emitter --------------------------------
(***************************************************************************)
(* The outputs of a run of records or sessions (class Emitter of           *)
(* labelkit/operators/emitter.py): rows are appended to part files, one    *)
(* finished batch after the other, and the parts are renamed at the end of *)
(* the run; the report is written last.                                    *)
(*                                                                         *)
(* A row is the identity of its record.  A write either takes the whole    *)
(* row or fails; what a failing disk leaves of a row is not modelled,      *)
(* since a part with a failed write is never renamed.                      *)
(***************************************************************************)
EXTENDS Integers, SequencesExt

VARIABLES
  batch,         \* the records of the current batch: [id, status]
  cursor,        \* emit_batch: how many of them are routed
  main, side,    \* rows in the part files of the main output and the sidecar
  rejects,       \* rows in the rejects file, which has no part file
  swallowed,     \* history: how many rejects rows were given up
  gone,          \* records of the batch that emit_batch counts as emitted
  emitted,       \* _emitted_total
  rejected,      \* _rejected_total
  halves,        \* records whose main row has no row in the sidecar
  undeliverable, \* self._undeliverable: a write failed
  files          \* what this run has put at each final name: nothing or one content

rows == <<main, side, rejects, swallowed, gone, halves>>
totals == <<emitted, rejected, undeliverable, files>>
emitterVars == <<cursor, rows, totals>>

Silent == {"absorbed", "stitched"}

InitEmitter ==
  /\ batch = <<>> /\ cursor = 0 /\ gone = {}
  /\ main = <<>> /\ side = <<>> /\ rejects = <<>> /\ swallowed = 0 /\ halves = {}
  /\ emitted = 0 /\ rejected = 0 /\ undeliverable = FALSE
  /\ files = [f \in {"output", "sidecar", "report"} |-> {}]

Item == batch[cursor + 1]
Routed == cursor = Len(batch)
Next1 == cursor' = cursor + 1

-------------------------------------------------------------------------------
(* _route_item and _route_active, for one record.                          *)

\* Members and merged shells have no row anywhere.
RouteSilently ==
  /\ ~Routed /\ Item.status \in Silent /\ Next1
  /\ UNCHANGED <<batch, rows, totals>>

\* _write_reject, which returns at once when rejects are switched off.
Reject(on) ==
  /\ rejects' = IF on THEN Append(rejects, Item.id) ELSE rejects
  /\ UNCHANGED swallowed

(* _divert_on_failure: a row that cannot be assembled or encoded (a lone   *)
(* surrogate of a full record) is given up, the record stays rejected.     *)
RejectIsolated(on) ==
  \/ Reject(on)
  \/ on /\ swallowed' = swallowed + 1 /\ UNCHANGED rejects

RouteReject(rejectsOn) ==
  /\ ~Routed /\ Item.status \notin Silent \union {"active"} /\ Next1
  /\ Reject(rejectsOn)
  /\ UNCHANGED <<batch, main, side, gone, halves, totals>>

\* _write_main: the row and, with a sidecar, its metadata in the same position.
RouteMain(sidecarOn) ==
  /\ ~Routed /\ Item.status = "active" /\ Next1
  /\ main' = Append(main, Item.id)
  /\ side' = IF sidecarOn THEN Append(side, Item.id) ELSE side
  /\ gone' = gone \union {Item.id}
  /\ UNCHANGED <<batch, rejects, swallowed, halves, totals>>

Fail == batch' = [batch EXCEPT ![cursor + 1].status = "failed"]

\* What _divert_on_failure may find: without rejects, only an active record can fail.
Isolated(rejectsOn) ==
  ~Routed /\ Item.status \notin Silent /\ (Item.status = "active" \/ rejectsOn)

\* Mutant of Divert: the diverted record keeps its status.
DivertActive(rejectsOn) ==
  /\ Isolated(rejectsOn) /\ Next1
  /\ RejectIsolated(rejectsOn)
  /\ UNCHANGED <<batch, main, side, gone, halves, totals>>

(* An active record without annotation, one that the last validation       *)
(* refuses or whose row cannot be assembled, and a record rejected before  *)
(* whose rejects row failed: it is marked failed, whatever it was, and its *)
(* row is tried (again).                                                   *)
Divert(rejectsOn) ==
  /\ Isolated(rejectsOn) /\ Next1
  /\ Fail /\ RejectIsolated(rejectsOn)
  /\ UNCHANGED <<main, side, gone, halves, totals>>

(* The metadata cannot be encoded (a lone surrogate in a model's answer is *)
(* no OSError): the main row is out already when the record is diverted.   *)
DivertHalfWritten(sidecarOn, rejectsOn) ==
  /\ sidecarOn /\ ~Routed /\ Item.status = "active" /\ Next1
  /\ main' = Append(main, Item.id) /\ halves' = halves \union {Item.id}
  /\ Fail /\ RejectIsolated(rejectsOn)
  /\ UNCHANGED <<side, gone, totals>>

\* _channel_write and _flush: an OSError on any channel ends the emission.
WriteFails ==
  /\ undeliverable' = TRUE
  /\ UNCHANGED <<batch, cursor, rows, emitted, rejected, files>>

\* _flush, and the totals of the batch.
Flush ==
  /\ Routed
  /\ emitted' = emitted + Cardinality(gone)
  /\ rejected' = rejected +
       Cardinality({i \in DOMAIN batch : batch[i].status \notin Silent \union {"active"}})
  /\ gone' = {} /\ cursor' = 0 /\ batch' = <<>>
  /\ UNCHANGED <<main, side, rejects, swallowed, halves, undeliverable, files>>

\* _deliver: fsync, close and rename of a part file; the report is written in place.
Publish(f, content) ==
  /\ files' = [files EXCEPT ![f] = {content}]
  /\ UNCHANGED <<batch, cursor, rows, emitted, rejected, undeliverable>>
================================================================================
