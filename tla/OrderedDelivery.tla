---------------------------- MODULE OrderedDelivery ----------------------------
(***************************************************************************)
(* What the whole-set delivery of a sequence run promises, as a program    *)
(* that prepares nothing ahead: slots are taken one after the other, each  *)
(* gets at most MaxAttempts attempts, an attempt is accepted only if its   *)
(* content is new among what was accepted before and fits in the budget,   *)
(* and the run ends with every slot delivered or with one reason.          *)
(***************************************************************************)
EXTENDS Integers, Sequences

CONSTANTS Slots,        \* number of slots, in declaration order
          MaxAttempts,  \* max_slot_attempts
          Contents,     \* identities of content, as deduplication sees them
          Sizes,        \* retained sizes of a candidate
          MemoryLimit   \* limits.retained_content_bytes

VARIABLES accepted,  \* contents accepted so far, in slot order
          retained,  \* their total size
          attempt,   \* attempts the current slot has used up
          result     \* "none", "delivered", "exhausted" or "aborted"

promise == <<accepted, retained, attempt, result>>

ContentsOf(s) == {s[i] : i \in DOMAIN s}

Init == accepted = <<>> /\ retained = 0 /\ attempt = 0 /\ result = "none"

\* The current slot is accepted; the next one starts afresh.
Accept(c, size) ==
  /\ result = "none" /\ Len(accepted) < Slots
  /\ c \notin ContentsOf(accepted) /\ retained + size <= MemoryLimit
  /\ accepted' = Append(accepted, c)
  /\ retained' = retained + size /\ attempt' = 0
  /\ UNCHANGED result

\* One attempt of the current slot is rejected; the last one ends the run.
Reject ==
  /\ result = "none" /\ Len(accepted) < Slots
  /\ attempt' = attempt + 1 /\ attempt' <= MaxAttempts
  /\ result' = IF attempt' = MaxAttempts THEN "exhausted" ELSE "none"
  /\ UNCHANGED <<accepted, retained>>

\* Everything is accepted.
Complete ==
  /\ result = "none" /\ Len(accepted) = Slots
  /\ result' = "delivered"
  /\ UNCHANGED <<accepted, retained, attempt>>

\* A fatal failure or a cancellation; no attempt is charged for it.
Abort ==
  /\ result = "none"
  /\ result' = "aborted"
  /\ UNCHANGED <<accepted, retained, attempt>>

Next ==
  \/ \E c \in Contents, size \in Sizes : Accept(c, size)
  \/ Reject \/ Complete \/ Abort

Spec == Init /\ [][Next]_promise
================================================================================
