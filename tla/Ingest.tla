-------------------------------- MODULE Ingest ---------------------------------
(***************************************************************************)
(* Reading the input of a run (class Ingestor and _Assembler of            *)
(* labelkit/operators/ingest.py): lines become records, and in a run of    *)
(* sessions a record closes the open session when it does not belong to    *)
(* it.  The dry run counts the sessions without building them.             *)
(*                                                                         *)
(* A line is blank, bad (not UTF-8, not JSON, no text) or a frame with a   *)
(* partition key and an order key (0: missing or not a time); the stream   *)
(* of an earlier generation has events in place of frames, which are bare  *)
(* when they have nothing at input.text_field.  The number of a line is    *)
(* also the step that gap_steps compares.                                  *)
(***************************************************************************)
EXTENDS Integers, SequencesExt

Line == [kind : {"blank", "bad", "frame", "event", "bare"}, key : Nat, time : Nat]

VARIABLES
  cfg,      \* the configuration and the input of the run
  pos,      \* lines read
  ahead,    \* the frame that closed a session and opens the next one, or 0
  got,      \* frames of the open session, records of the batch being read
  closed,   \* lengths of the sessions closed so far
  highest,  \* per partition, the highest order key so far
  scanned, ingested, bad   \* IngestReport

ingestVars == <<pos, ahead, got, closed, highest, scanned, ingested, bad>>

InitIngest ==
  /\ pos = 0 /\ ahead = 0 /\ got = <<>> /\ closed = <<>>
  /\ highest = [k \in {l.key : l \in ToSet(cfg.lines)} |-> 0]
  /\ scanned = 0 /\ ingested = 0 /\ bad = 0

\* islice(records, limit): the generator is not asked for more.
Exhausted == pos = Len(cfg.lines) \/ ingested = cfg.limit
Reading == cfg.lines[pos + 1]

\* _is_generation_stream: some line is an event.
Generated == \E i \in DOMAIN cfg.lines : cfg.lines[i].kind \in {"event", "bare"}

-------------------------------------------------------------------------------
(* _Assembler.pre_close: does line i close the session that runs from the  *)
(* frame first to the frame last?                                          *)
Closes(line, i, first, last, lines) ==
  \/ line.key # lines[first].key
  \/ cfg.meta /\ line.time - lines[last].time > cfg.gap_s
  \/ cfg.gap_steps > 0 /\ i - last > cfg.gap_steps
  \/ cfg.meta /\ cfg.max_span > 0 /\ line.time - lines[first].time > cfg.max_span

\* _Assembler.feed: the session is full.
Full(length) == 0 < cfg.max_len /\ cfg.max_len <= length

-------------------------------------------------------------------------------
(* One record; of the stream of a generation all rows are read, counted    *)
(* and validated before the first one is a record, and text_field is not   *)
(* looked at (_generation_stream_records, _read_generation_rows).          *)
ReadFrame ==
  /\ ~Exhausted /\ Reading.kind \in {"frame", "event", "bare"}
  /\ pos' = pos + 1 /\ ingested' = ingested + 1
  /\ scanned' = IF Generated
                THEN Cardinality({i \in DOMAIN cfg.lines : cfg.lines[i].kind # "blank"})
                ELSE scanned + 1

\* Mutant of Disordered: one cursor for all partitions.
DisorderedAnywhere(line) ==
  cfg.meta /\ (line.time = 0 \/ \E k \in DOMAIN highest : line.time < highest[k])

\* _order_key_for and _monotonic_ok: out of order within its partition.
Disordered(line) == cfg.meta /\ (line.time = 0 \/ line.time < highest[line.key])

\* _text_records: one line; blank ones are skipped, bad ones counted.
SkipBlank ==
  /\ ~Exhausted /\ Reading.kind = "blank"
  /\ pos' = pos + 1
  /\ UNCHANGED <<cfg, ahead, got, closed, highest, scanned, ingested, bad>>

SkipBad ==
  /\ ~Exhausted /\ ~Generated /\ Reading.kind = "bad" /\ cfg.on_bad = "skip"
  /\ pos' = pos + 1 /\ scanned' = scanned + 1 /\ bad' = bad + 1
  /\ UNCHANGED <<cfg, ahead, got, closed, highest, ingested>>

\* on_bad_line or on_disorder is "fail"; no valid record to the last line.
InputFails ==
  /\ \/ /\ ~Exhausted /\ ~Generated /\ Reading.kind = "bad" /\ cfg.on_bad = "fail"
        /\ pos' = pos + 1 /\ scanned' = scanned + 1 /\ bad' = bad + 1
        /\ UNCHANGED ingested
     \/ /\ pos = Len(cfg.lines) /\ ingested = 0
        /\ UNCHANGED <<pos, scanned, ingested, bad>>
     \/ /\ cfg.stream /\ ReadFrame /\ Disordered(Reading) /\ cfg.on_bad = "fail"
        /\ bad' = bad + 1
  /\ UNCHANGED <<cfg, ahead, got, closed, highest>>

\* A record of an ordinary run.
ReadRecord ==
  /\ ReadFrame /\ got' = Append(got, pos + 1)
  /\ UNCHANGED <<cfg, ahead, closed, highest, bad>>

SkipDisordered ==
  /\ ReadFrame /\ Disordered(Reading) /\ cfg.on_bad = "skip"
  /\ bad' = bad + 1
  /\ UNCHANGED <<cfg, ahead, got, closed, highest>>

Raise(line) ==
  highest' = IF cfg.meta THEN [highest EXCEPT ![line.key] = line.time] ELSE highest

(* sessions(): a frame joins the open session; the one that does not       *)
(* belong to it closes it and waits.                                       *)
JoinFrame ==
  /\ ReadFrame /\ ~Disordered(Reading)
  /\ got # <<>> => ~Closes(Reading, pos + 1, Head(got), Last(got), cfg.lines)
  /\ got' = Append(got, pos + 1) /\ Raise(Reading)
  /\ UNCHANGED <<cfg, ahead, closed, bad>>

CloseBefore ==
  /\ ReadFrame /\ ~Disordered(Reading) /\ got # <<>>
  /\ Closes(Reading, pos + 1, Head(got), Last(got), cfg.lines)
  /\ ahead' = pos + 1 /\ Raise(Reading)
  /\ UNCHANGED <<cfg, got, closed, bad>>

TakeAhead ==
  /\ ahead # 0 /\ got = <<>>
  /\ got' = <<ahead>> /\ ahead' = 0
  /\ UNCHANGED <<cfg, pos, closed, highest, scanned, ingested, bad>>

\* The open session is to be yielded: closed by the frame ahead, full, or the last.
SessionClosed == got # <<>> /\ (ahead # 0 \/ Full(Len(got)) \/ Exhausted)

-------------------------------------------------------------------------------
(* _rehearse_text_line: the dry run, which reads the same lines with the   *)
(* same assembler but keeps only the length of the open session; it wants  *)
(* a text of an event too (_rehearse_parse).                               *)
RehearseLine(st, i) ==
  LET line == cfg.lines[i]
      late == cfg.meta /\ (line.time = 0 \/ line.time < st.highest[line.key])
      closes == st.length > 0 /\ Closes(line, i, st.first, st.last, cfg.lines)
      length == IF closes THEN 1 ELSE st.length + 1
      before == IF closes THEN Append(st.lens, st.length) ELSE st.lens
  IN IF line.kind \notin {"frame", "event"} \/ st.frames >= cfg.limit THEN st
     ELSE IF late THEN [st EXCEPT !.frames = @ + 1]
     ELSE [frames |-> st.frames + 1,
           highest |-> IF cfg.meta THEN [st.highest EXCEPT ![line.key] = line.time] ELSE st.highest,
           first |-> IF length = 1 THEN i ELSE st.first,
           last |-> i,
           length |-> IF Full(length) THEN 0 ELSE length,
           lens |-> IF Full(length) THEN Append(before, length) ELSE before]

Rehearsed ==
  LET start == [frames |-> 0, highest |-> [k \in DOMAIN highest |-> 0], first |-> 0, last |-> 0,
                length |-> 0, lens |-> <<>>]
      end == FoldLeft(RehearseLine, start, [i \in DOMAIN cfg.lines |-> i])
  IN IF end.length > 0 THEN Append(end.lens, end.length) ELSE end.lens
================================================================================
