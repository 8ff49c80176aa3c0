---------------------------- MODULE ProductCommit ----------------------------
(***************************************************************************)
(* The file protocol that publishes the product of a sequence run          *)
(* (SequenceDeliveryEmitter, labelkit/operators/emitter.py, and its        *)
(* callers in labelkit/orchestration/sequence_workflow.py).                *)
(*                                                                         *)
(* main, stream and report are written to part files and synced, then      *)
(* renamed in this order; the manifest, which holds their digests, is      *)
(* written and renamed last.  Any of these steps may fail, the process may *)
(* die between any two of them, the machine may lose power (the directory  *)
(* is never synced, so a rename may be lost), and the run may be repeated  *)
(* over what the last one left.                                            *)
(***************************************************************************)
EXTENDS Integers, Sequences, FiniteSets

CONSTANTS
  Bytes,    \* possible contents of a data file, as its digest tells them apart
  Absent,   \* the file does not exist
  Torn,     \* the file was being written when the process died
  None,     \* no product is accepted
  MaxRuns,  \* bound: how often the program is run
  Outages   \* bound: how often the machine loses power

ASSUME CommitAssumption ==
  /\ Absent \notin Bytes /\ Torn \notin Bytes \cup {Absent}
  /\ MaxRuns \in Nat \ {0} /\ Outages \in Nat

VARIABLES
  disk,     \* the files at their fixed paths
  settled,  \* what of them would survive a loss of power
  part,     \* the part files
  run,      \* number of runs started
  product,  \* the product of the current run, None before it has one
  past,     \* history: the products of the runs that succeeded
  pc,       \* where the run is
  at,       \* history: the file or rename it is at
  outages   \* history: number of losses of power

vars == <<disk, settled, part, run, product, past, pc, at, outages>>

Data == <<"main", "stream", "report">>
DataFiles == {Data[i] : i \in DOMAIN Data}
Files == DataFiles \cup {"manifest", "failed"}
Product == [DataFiles -> Bytes]

\* SequenceDeliveryEmitter._manifest: run_id and the digest of each payload.
Manifest(r, payloads) == [run |-> r, digests |-> payloads]
Diagnosis(r) == [run |-> r]
Contents == Bytes \cup {Diagnosis(r) : r \in 1..MaxRuns}
            \cup {Manifest(r, p) : r \in 1..MaxRuns, p \in Product}

\* A missing file is told from every content, a missing product from every product.
ASSUME NamesAssumption == None \notin Product /\ Absent \notin Contents

\* What a consumer accepts: files that match the digests of the manifest.
Found == [f \in DataFiles |-> disk[f]]
Accepted == IF disk["manifest"] # Absent /\ disk["manifest"].digests = Found
            THEN Found ELSE None

Init == /\ disk = [f \in Files |-> Absent]
        /\ settled = disk
        /\ part = disk
        /\ run = 0
        /\ product = None
        /\ past = {}
        /\ pc = "idle"
        /\ at = 0
        /\ outages = 0

Resting == pc \in {"idle", "succeeded", "failed", "down"}

Run == /\ Resting /\ run < MaxRuns
       /\ run' = run + 1
       /\ pc' = "delivering"
       /\ at' = 0
       /\ product' = None
       /\ UNCHANGED <<disk, settled, part, past, outages>>

\* A delivery that does not get as far as a product fails.
DeliveryFails == /\ pc = "delivering"
                 /\ pc' = "failing"
                 /\ UNCHANGED <<disk, settled, part, run, product, past, at, outages>>

\* prepare_product freezes rows and report; two runs may produce equal ones.
PrepareProduct == /\ pc = "delivering"
                  /\ product' \in Product
                  /\ pc' = "writing" /\ at' = 1
                  /\ UNCHANGED <<disk, settled, part, run, past, outages>>

\* _write_part(f, content); an OSError may leave the part file torn.
WritePart(f, content) == /\ part' = [part EXCEPT ![f] = content]
                         /\ UNCHANGED <<disk, settled, run, product, past, outages>>
WriteFails(f) == /\ part' \in {part, [part EXCEPT ![f] = Torn]}
                 /\ UNCHANGED <<disk, settled, run, product, past, outages>>

\* os.replace(part, f) and its failure.
Replace(f) == /\ disk' = [disk EXCEPT ![f] = part[f]]
              /\ part' = [part EXCEPT ![f] = Absent]
              /\ UNCHANGED <<settled, run, product, outages>>
ReplaceFails == UNCHANGED <<disk, settled, part, run, product, past, outages>>

Fail == pc' = "failing" /\ at' = 0

CommitPart ==
  /\ pc = "writing"
  /\ \/ /\ WritePart(Data[at], product[Data[at]])
        /\ IF at < Len(Data) THEN at' = at + 1 /\ pc' = pc
           ELSE at' = 1 /\ pc' = "replacing"
     \/ WriteFails(Data[at]) /\ Fail

\* Mutant of CommitReplace: the commit goes on after a rename that failed.
CommitReplaceRegardless ==
  /\ pc = "replacing"
  /\ (Replace(Data[at]) /\ UNCHANGED past) \/ ReplaceFails
  /\ IF at < Len(Data) THEN at' = at + 1 /\ pc' = pc
     ELSE at' = 0 /\ pc' = "manifesting"

CommitReplace ==
  /\ pc = "replacing"
  /\ \/ /\ Replace(Data[at]) /\ UNCHANGED past
        /\ IF at < Len(Data) THEN at' = at + 1 /\ pc' = pc
           ELSE at' = 0 /\ pc' = "manifesting"
     \/ ReplaceFails /\ Fail

\* The manifest is made of the payloads in memory, not of the files.
CommitManifest ==
  \/ /\ pc = "manifesting"
     /\ \/ WritePart("manifest", Manifest(run, product)) /\ pc' = "closing" /\ at' = 0
        \/ WriteFails("manifest") /\ Fail
  \/ /\ pc = "closing"
     /\ \/ /\ Replace("manifest") /\ past' = past \cup {product}
           /\ pc' = "succeeded" /\ at' = 0
        \/ ReplaceFails /\ Fail

(* write_failed_report after any failure of the delivery or the commit; an *)
(* OSError of its own is logged and does not replace the first error.      *)
WriteFailedReport ==
  \/ /\ pc = "failing"
     /\ \/ WritePart("failed", Diagnosis(run)) /\ pc' = "reporting" /\ at' = 0
        \/ WriteFails("failed") /\ pc' = "failed" /\ at' = 0
  \/ /\ pc = "reporting"
     /\ (Replace("failed") /\ UNCHANGED past) \/ ReplaceFails
     /\ pc' = "failed" /\ at' = 0

\* The part file that a dying process may leave half written.
Writing == CASE pc = "writing" -> {Data[at]}
             [] pc = "manifesting" -> {"manifest"}
             [] pc = "failing" -> {"failed"}
             [] OTHER -> {}

Crash == /\ ~Resting
         /\ \E torn \in SUBSET Writing :
              part' = [f \in Files |-> IF f \in torn THEN Torn ELSE part[f]]
         /\ pc' = "down" /\ at' = 0
         /\ UNCHANGED <<disk, settled, run, product, past, outages>>

\* The file system writes the directory back, whenever it likes.
Settle == /\ settled # disk
          /\ settled' = disk
          /\ UNCHANGED <<disk, part, run, product, past, pc, at, outages>>

\* Power fails: each rename since the directory was last written back may
\* be lost, and a part file that was not synced is torn.
PowerLoss == /\ outages < Outages
             /\ outages' = outages + 1
             /\ \E lost \in SUBSET {f \in Files : disk[f] # settled[f]} :
                  disk' = [f \in Files |-> IF f \in lost THEN settled[f] ELSE disk[f]]
             /\ settled' = disk'
             /\ part' = [f \in Files |-> IF f \in Writing THEN Torn ELSE part[f]]
             /\ pc' = "down" /\ at' = 0
             /\ UNCHANGED <<run, product, past>>

Next == \/ Run \/ DeliveryFails \/ PrepareProduct
        \/ CommitPart \/ CommitReplace \/ CommitManifest \/ WriteFailedReport
        \/ Crash \/ Settle \/ PowerLoss

Spec == Init /\ [][Next]_vars

-----------------------------------------------------------------------------
(* Types of the files and of the progress of a run.                        *)
TypeOK ==
  /\ disk \in [Files -> Contents \cup {Absent}]
  /\ settled \in [Files -> Contents \cup {Absent}]
  /\ part \in [Files -> Contents \cup {Absent, Torn}]
  /\ \A f \in DataFiles : disk[f] \in Bytes \cup {Absent}
  /\ product \in Product \cup {None} /\ past \subseteq Product
  /\ at \in 0..Len(Data)

(* However a run fails or dies and is repeated, a consumer that checks the *)
(* digests sees one whole product or none, and a product appears when its  *)
(* run succeeds and no earlier.                                            *)
Published == INSTANCE Publication WITH
  visible <- Accepted,
  offered <- product,
  stage <- CASE Resting -> "over"
             [] pc \in {"delivering", "failing", "reporting"} /\ product = None -> "working"
             [] OTHER -> "publishing"
Publishes == Published!Spec
=============================================================================
