--------------------------- MODULE SequenceRunProofs ---------------------------
(***************************************************************************)
(* The file protocol of a sequence run (ProductCommit) keeps the promise   *)
(* of Publication for every set of contents, any number of runs and any    *)
(* number of losses of power.  A run that is planned and generated in      *)
(* detail before it commits (SequenceRun) keeps it, too: its own steps     *)
(* leave the files alone, and the one that ends a run early, on a          *)
(* configuration the compiler refuses, ends it before a product exists.    *)
(***************************************************************************)
EXTENDS SequenceRun, TLAPS

-------------------------------------------------------------------------------
(* The file protocol                                                       *)

Phases == {"idle", "delivering", "writing", "replacing", "manifesting", "closing",
           "failing", "reporting", "succeeded", "failed", "down"}

\* The data files, by their place in the order of the commit.
LEMMA Places ==
  /\ Len(Data) = 3 /\ DOMAIN Data = 1..3
  /\ Data[1] = "main" /\ Data[2] = "stream" /\ Data[3] = "report"
  /\ DataFiles = {"main", "stream", "report"}
  /\ Files = {"main", "stream", "report", "manifest", "failed"}
<1>1. DOMAIN Data = 1..3 /\ Len(Data) = 3
  BY DEF Data
<1>2. Data[1] = "main" /\ Data[2] = "stream" /\ Data[3] = "report"
  BY DEF Data
<1>3. DataFiles = {"main", "stream", "report"}
  BY <1>1, <1>2 DEF DataFiles
<1>4. QED
  BY <1>1, <1>2, <1>3 DEF Files

(* What the files hold at each place of the commit:                        *)
(*   - a manifest, at its path or in what is settled, is one of a          *)
(*     published product, whatever data files lie beside it;               *)
(*   - a run that commits has a product, has written it to the part files  *)
(*     before `at`, has renamed those before `at`, and closes with a       *)
(*     manifest of that product over data files of that product.           *)
Named(store) == store["manifest"] # Absent => store["manifest"].digests \in past
DataTyped(store) == \A f \in DataFiles : store[f] \in Bytes \cup {Absent}

Progress ==
  /\ pc \in Phases
  /\ run \in 0..MaxRuns /\ (pc \notin {"idle", "down"} => run \in 1..MaxRuns)
  /\ pc \in {"writing", "replacing"} => at \in 1..3
  /\ pc = "idle" => product = None
  /\ pc = "delivering" => product = None
  /\ pc \in {"writing", "replacing", "manifesting", "closing"} => product \in Product

Written ==
  /\ pc = "writing" => \A i \in 1..3 : i < at => part[Data[i]] = product[Data[i]]
  /\ pc = "replacing" =>
       \A i \in 1..3 : IF i < at THEN disk[Data[i]] = product[Data[i]]
                       ELSE part[Data[i]] = product[Data[i]]
  /\ pc \in {"manifesting", "closing"} =>
       \A i \in 1..3 : disk[Data[i]] = product[Data[i]]
  /\ pc = "closing" => part["manifest"] = Manifest(run, product)
  /\ pc = "reporting" => part["failed"] = Diagnosis(run)

CommitInv ==
  /\ TypeOK /\ Progress /\ Written
  /\ Named(disk) /\ Named(settled) /\ DataTyped(settled)

\* The files before the first run satisfy the invariant.
LEMMA CommitInit == Init => CommitInv
<1> SUFFICES ASSUME Init PROVE CommitInv
  OBVIOUS
<1>1. disk \in [Files -> Contents \cup {Absent}] /\ (\A f \in Files : disk[f] = Absent)
  BY DEF Init
<1>2. settled = disk /\ part = disk
  BY DEF Init
<1>3. TypeOK
  BY <1>1, <1>2, Places DEF Init, TypeOK, Files
<1>4. Progress /\ Written
  BY CommitAssumption DEF Init, Progress, Written, Phases
<1>5. Named(disk) /\ Named(settled) /\ DataTyped(settled)
  BY <1>1, <1>2, Places DEF Named, DataTyped, Files
<1>6. QED
  BY <1>3, <1>4, <1>5 DEF CommitInv

\* What the steps write has the types of the files.
LEMMA ContentsPossible ==
  /\ \A p \in Product, f \in DataFiles : p[f] \in Bytes
  /\ Bytes \subseteq Contents
  /\ \A p \in Product, r \in 1..MaxRuns :
       /\ Manifest(r, p) \in Contents /\ Manifest(r, p) # Absent
       /\ Manifest(r, p).digests = p
  /\ \A r \in 1..MaxRuns : Diagnosis(r) \in Contents /\ Diagnosis(r) # Absent
<1>1. \A p \in Product, f \in DataFiles : p[f] \in Bytes
  BY DEF Product
<1>2. Bytes \subseteq Contents
  BY DEF Contents
<1>3. ASSUME NEW p \in Product, NEW r \in 1..MaxRuns
      PROVE  /\ Manifest(r, p) \in Contents /\ Manifest(r, p) # Absent
             /\ Manifest(r, p).digests = p
  <2>1. Manifest(r, p) \in Contents
    BY DEF Contents
  <2>2. QED
    BY <2>1, NamesAssumption DEF Manifest
<1>4. ASSUME NEW r \in 1..MaxRuns PROVE Diagnosis(r) \in Contents /\ Diagnosis(r) # Absent
  BY NamesAssumption DEF Contents
<1>5. QED
  BY <1>1, <1>2, <1>3, <1>4

\* A step that writes part files and leaves files, product and history alone
\* keeps what the invariant says of them.
LEMMA PartStep ==
  ASSUME CommitInv, UNCHANGED <<disk, settled, run, product, past>>,
         part' \in [Files -> Contents \cup {Absent, Torn}], at' \in 0..3
  PROVE  TypeOK' /\ Named(disk)' /\ Named(settled)' /\ DataTyped(settled)'
BY Places DEF CommitInv, TypeOK, Named, DataTyped

\* A rename puts a whole part file in place of a file.
LEMMA RenameStep ==
  ASSUME CommitInv, NEW f \in Files, Replace(f), part[f] \in Contents,
         f \in DataFiles => part[f] \in Bytes,
         f # "manifest", past' = past, at' \in 0..3
  PROVE  TypeOK' /\ Named(disk)' /\ Named(settled)' /\ DataTyped(settled)'
<1> USE DEF CommitInv, Replace
<1>1. disk' \in [Files -> Contents \cup {Absent}]
  BY DEF TypeOK
<1>2. part' \in [Files -> Contents \cup {Absent, Torn}]
  BY DEF TypeOK
<1>3. \A g \in DataFiles : disk'[g] \in Bytes \cup {Absent}
  BY Places DEF TypeOK
<1>4. TypeOK'
  BY <1>1, <1>2, <1>3, Places DEF TypeOK
<1>5. disk'["manifest"] = disk["manifest"]
  BY Places DEF TypeOK
<1>6. QED
  BY <1>4, <1>5 DEF Named, DataTyped

\* Every step keeps the invariant.
LEMMA CommitStep == CommitInv /\ [Next]_vars => CommitInv'
<1> SUFFICES ASSUME CommitInv, [Next]_vars PROVE CommitInv'
  OBVIOUS
<1> USE DEF CommitInv
<1>1. CASE Run
  <2>1. TypeOK' /\ Named(disk)' /\ Named(settled)' /\ DataTyped(settled)'
    BY <1>1 DEF Run, TypeOK, Named, DataTyped
  <2>2. Progress' /\ Written'
    BY <1>1, CommitAssumption DEF Run, Progress, Written, Phases
  <2>3. QED
    BY <2>1, <2>2
<1>2. CASE DeliveryFails
  <2>1. TypeOK' /\ Named(disk)' /\ Named(settled)' /\ DataTyped(settled)'
    BY <1>2 DEF DeliveryFails, TypeOK, Named, DataTyped
  <2>2. Progress' /\ Written'
    BY <1>2, CommitAssumption DEF DeliveryFails, Progress, Written, Phases
  <2>3. QED
    BY <2>1, <2>2
<1>3. CASE PrepareProduct
  <2>1. TypeOK' /\ Named(disk)' /\ Named(settled)' /\ DataTyped(settled)'
    BY <1>3, Places DEF PrepareProduct, TypeOK, Named, DataTyped
  <2>2. Progress' /\ Written'
    BY <1>3, CommitAssumption DEF PrepareProduct, Progress, Written, Phases
  <2>3. QED
    BY <2>1, <2>2
<1>4. CASE CommitPart
  <2> USE DEF CommitPart
  <2>1. at \in 1..3 /\ Data[at] \in DataFiles /\ Data[at] \in Files /\ product \in Product
    BY <1>4, Places DEF Progress
  <2>2. at' \in 0..3 /\ part' \in [Files -> Contents \cup {Absent, Torn}]
    <3>1. product[Data[at]] \in Contents
      BY <2>1, ContentsPossible
    <3>2. QED
      BY <1>4, <2>1, <3>1, Places DEF WritePart, WriteFails, Fail, TypeOK
  <2>3. UNCHANGED <<disk, settled, run, product, past>>
    BY <1>4 DEF WritePart, WriteFails
  <2>4. Progress'
    BY <1>4, <2>1, <2>3, Places DEF Progress, Phases, Fail
  <2>5. Written'
    BY <1>4, <2>1, <2>3, Places DEF Written, WritePart, WriteFails, Fail, TypeOK
  <2>6. QED
    BY <2>2, <2>3, <2>4, <2>5, PartStep
<1>5. CASE CommitReplace
  <2> USE DEF CommitReplace
  <2>1. at \in 1..3 /\ Data[at] \in DataFiles /\ Data[at] \in Files /\ product \in Product
        /\ Data[at] # "manifest"
    BY <1>5, Places DEF Progress
  <2>2. CASE ReplaceFails /\ Fail
    <3>1. Progress' /\ Written'
      BY <1>5, <2>2 DEF ReplaceFails, Fail, Progress, Written, Phases
    <3>2. QED
      BY <2>2, <3>1, PartStep DEF ReplaceFails, Fail, TypeOK
  <2>3. CASE /\ Replace(Data[at]) /\ UNCHANGED past
             /\ IF at < Len(Data) THEN at' = at + 1 /\ pc' = pc
                ELSE at' = 0 /\ pc' = "manifesting"
    <3>1. part[Data[at]] = product[Data[at]]
      BY <1>5, <2>1, Places DEF Written
    <3>2. part[Data[at]] \in Bytes /\ part[Data[at]] \in Contents
      BY <2>1, <3>1, ContentsPossible
    <3>3. TypeOK' /\ Named(disk)' /\ Named(settled)' /\ DataTyped(settled)'
      BY <2>1, <2>3, <3>2, RenameStep, Places
    <3>4. Progress'
      BY <1>5, <2>1, <2>3, Places DEF Progress, Phases, Replace
    <3>5. Written'
      BY <1>5, <2>1, <2>3, <3>1, Places DEF Written, Replace, TypeOK
    <3>6. QED
      BY <3>3, <3>4, <3>5
  <2>4. QED
    BY <1>5, <2>2, <2>3
<1>6. CASE CommitManifest
  <2> USE DEF CommitManifest
  <2>1. product \in Product /\ run \in 1..MaxRuns
    BY <1>6 DEF Progress
  <2>2. Manifest(run, product) \in Contents /\ Manifest(run, product).digests = product
    BY <2>1, ContentsPossible
  <2>3. CASE pc = "manifesting"
    <3>1. at' \in 0..3 /\ part' \in [Files -> Contents \cup {Absent, Torn}]
      BY <1>6, <2>2, <2>3, Places DEF WritePart, WriteFails, Fail, TypeOK
    <3>2. UNCHANGED <<disk, settled, run, product, past>>
      BY <1>6, <2>3 DEF WritePart, WriteFails
    <3>3. Progress' /\ Written'
      BY <1>6, <2>1, <2>3, <3>2, Places DEF Progress, Written, Phases, WritePart, Fail, TypeOK
    <3>4. QED
      BY <3>1, <3>2, <3>3, PartStep
  <2>4. CASE pc = "closing" /\ ReplaceFails /\ Fail
    <3>1. Progress' /\ Written'
      BY <2>4 DEF ReplaceFails, Fail, Progress, Written, Phases
    <3>2. QED
      BY <2>4, <3>1, PartStep DEF ReplaceFails, Fail, TypeOK
  <2>5. CASE /\ pc = "closing"
             /\ Replace("manifest") /\ past' = past \cup {product}
             /\ pc' = "succeeded" /\ at' = 0
    <3>1. part["manifest"] = Manifest(run, product)
      BY <2>5 DEF Written
    <3>2. Progress' /\ Written'
      BY <2>1, <2>5 DEF Progress, Written, Phases, Replace
    <3>3. /\ disk' \in [Files -> Contents \cup {Absent}]
          /\ part' \in [Files -> Contents \cup {Absent, Torn}]
          /\ disk'["manifest"] = Manifest(run, product)
          /\ \A f \in DataFiles : disk'[f] = disk[f]
      BY <2>2, <2>5, <3>1, Places DEF Replace, TypeOK
    <3>4. TypeOK'
      BY <2>1, <2>5, <3>3, Places DEF TypeOK, Replace
    <3>5. Named(disk)' /\ Named(settled)' /\ DataTyped(settled)'
      BY <2>2, <2>5, <3>3 DEF Named, DataTyped, Replace
    <3>6. QED
      BY <3>2, <3>4, <3>5
  <2>6. QED
    BY <1>6, <2>3, <2>4, <2>5
<1>7. CASE WriteFailedReport
  <2> USE DEF WriteFailedReport
  <2>1. run \in 1..MaxRuns /\ Diagnosis(run) \in Contents
    BY <1>7, ContentsPossible DEF Progress
  <2>2. CASE pc = "failing"
    <3>1. at' \in 0..3 /\ part' \in [Files -> Contents \cup {Absent, Torn}]
      BY <1>7, <2>1, <2>2, Places DEF WritePart, WriteFails, TypeOK
    <3>2. UNCHANGED <<disk, settled, run, product, past>>
      BY <1>7, <2>2 DEF WritePart, WriteFails
    <3>3. Progress' /\ Written'
      BY <1>7, <2>1, <2>2, <3>2, Places DEF Progress, Written, Phases, WritePart, TypeOK
    <3>4. QED
      BY <3>1, <3>2, <3>3, PartStep
  <2>3. CASE pc = "reporting"
    <3>1. Progress' /\ Written'
      BY <1>7, <2>1, <2>3 DEF Progress, Written, Phases, Replace, ReplaceFails
    <3>2. CASE Replace("failed") /\ UNCHANGED past
      <4>1. part["failed"] \in Contents
        BY <2>1, <2>3 DEF Written
      <4>2. at' \in 0..3 /\ past' = past /\ "failed" \in Files
            /\ "failed" \notin DataFiles /\ "failed" # "manifest"
        BY <1>7, <2>3, <3>2, Places
      <4>3. TypeOK' /\ Named(disk)' /\ Named(settled)' /\ DataTyped(settled)'
        BY <3>2, <4>1, <4>2, RenameStep
      <4>4. QED
        BY <3>1, <4>3
    <3>3. CASE ReplaceFails
      BY <1>7, <2>3, <3>1, <3>3, PartStep DEF ReplaceFails, TypeOK
    <3>4. QED
      BY <1>7, <2>3, <3>2, <3>3
  <2>4. QED
    BY <1>7, <2>2, <2>3
<1>8. CASE Crash
  <2>1. UNCHANGED <<disk, settled, run, product, past>> /\ pc' = "down" /\ at' = 0
    BY <1>8 DEF Crash
  <2>2. part' \in [Files -> Contents \cup {Absent, Torn}]
    BY <1>8 DEF Crash, TypeOK
  <2>3. Progress' /\ Written'
    BY <2>1 DEF Progress, Written, Phases
  <2>4. QED
    BY <2>1, <2>2, <2>3, PartStep
<1>9. CASE Settle
  <2>1. TypeOK' /\ Named(disk)' /\ Named(settled)' /\ DataTyped(settled)'
    BY <1>9 DEF Settle, TypeOK, Named, DataTyped
  <2>2. Progress' /\ Written'
    BY <1>9 DEF Settle, Progress, Written
  <2>3. QED
    BY <2>1, <2>2
<1>10. CASE PowerLoss
  <2>1. PICK lost \in SUBSET {f \in Files : disk[f] # settled[f]} :
          disk' = [f \in Files |-> IF f \in lost THEN settled[f] ELSE disk[f]]
    BY <1>10 DEF PowerLoss
  <2>2. /\ settled' = disk' /\ pc' = "down" /\ at' = 0 /\ UNCHANGED <<run, product, past>>
        /\ part' = [f \in Files |-> IF f \in Writing THEN Torn ELSE part[f]]
    BY <1>10 DEF PowerLoss
  <2>3. TypeOK' /\ DataTyped(settled)'
    BY <2>1, <2>2, Places DEF TypeOK, DataTyped
  <2>4. Named(disk)' /\ Named(settled)'
    BY <2>1, <2>2, Places DEF Named
  <2>5. Progress' /\ Written'
    BY <2>2 DEF Progress, Written, Phases
  <2>6. QED
    BY <2>3, <2>4, <2>5
<1>11. CASE UNCHANGED vars
  <2>1. TypeOK' /\ Named(disk)' /\ Named(settled)' /\ DataTyped(settled)'
    BY <1>11 DEF vars, TypeOK, Named, DataTyped
  <2>2. Progress' /\ Written'
    BY <1>11 DEF vars, Progress, Written
  <2>3. QED
    BY <2>1, <2>2
<1>12. QED
  BY <1>1, <1>2, <1>3, <1>4, <1>5, <1>6, <1>7, <1>8, <1>9, <1>10, <1>11 DEF Next

\* The types of files and progress hold in every reachable state.
THEOREM CommitTypeCorrect == Spec => []TypeOK
<1>1. CommitInv => TypeOK
  BY DEF CommitInv
<1>2. QED
  BY <1>1, CommitInit, CommitStep, PTL DEF Spec

--------------------------------------------------------------------------------
(* The promise of Publication *)

\* The stage of the current run, as a consumer of its product sees it.
Stage == CASE Resting -> "over"
           [] pc \in {"delivering", "failing", "reporting"} /\ product = None -> "working"
           [] OTHER -> "publishing"

\* The stage in the terms of the program counter.
LEMMA StageIs ==
  ASSUME CommitInv
  PROVE  /\ Resting => Stage = "over"
         /\ pc \in {"delivering", "failing", "reporting"} /\ product = None => Stage = "working"
         /\ pc \in {"failing", "reporting"} /\ product # None => Stage = "publishing"
         /\ pc \in {"writing", "replacing", "manifesting", "closing"} => Stage = "publishing"
BY DEF Stage, Resting

\* A consumer that accepts what it finds accepts a product that was published:
\* the manifest is of a published product, and the files match it.
LEMMA AcceptedWasPublished == CommitInv => Accepted \in past \cup {None}
BY DEF CommitInv, Named, Accepted

\* What a consumer accepts is decided by the data files and the manifest.
LEMMA AcceptedUnchanged ==
  ASSUME \A f \in DataFiles \cup {"manifest"} : disk'[f] = disk[f]
  PROVE  Accepted' = Accepted
<1>1. Found' = Found
  BY DEF Found
<1>2. disk'["manifest"] = disk["manifest"]
  OBVIOUS
<1>3. QED
  BY <1>1, <1>2 DEF Accepted

\* Before the first run nothing is visible, and no run is at work.
LEMMA PublishedInit == Init => Published!Init
<1> SUFFICES ASSUME Init PROVE Published!Init
  OBVIOUS
<1>1. disk["manifest"] = Absent
  BY Places DEF Init
<1>2. Accepted = None
  BY <1>1 DEF Accepted
<1>3. QED
  BY <1>2 DEF Init, Published!Init, Resting

\* Every step of the protocol is a step of the promise, or changes nothing that
\* a consumer sees:
\*   - a rename of a data file disturbs what is visible, and whatever the files
\*     then are, only a published product can be accepted;
\*   - the rename of the manifest publishes, because the data files are in place;
\*   - a loss of power leaves a published product or none.
LEMMA PublishedStep == CommitInv /\ [Next]_vars => [Published!Next]_(Published!vars)
<1> SUFFICES ASSUME CommitInv, [Next]_vars PROVE [Published!Next]_(Published!vars)
  OBVIOUS
<1> USE DEF CommitInv
<1>0. /\ UNCHANGED <<Accepted, product, past, Stage>> => UNCHANGED Published!vars
      /\ Published!Begin <=> /\ Stage = "over" /\ Stage' = "working" /\ product' = None
                             /\ UNCHANGED <<Accepted, past>>
      /\ Published!Stop <=> /\ Stage # "over" /\ Stage' = "over"
                            /\ UNCHANGED <<Accepted, product, past>>
      /\ Published!Offer <=> /\ Stage = "working" /\ Stage' = "publishing"
                             /\ product' \in Product /\ UNCHANGED <<Accepted, past>>
      /\ Published!Disturb <=> /\ Stage = "publishing" /\ Accepted' \in past \cup {None}
                               /\ UNCHANGED <<product, past, Stage>>
      /\ Published!Publish <=> /\ Stage = "publishing" /\ Stage' = "over"
                               /\ Accepted' = product /\ past' = past \cup {product}
                               /\ UNCHANGED product
      /\ Published!Outage <=> /\ Stage' = "over" /\ Accepted' \in past \cup {None}
                              /\ UNCHANGED <<product, past>>
  BY DEF Stage, Published!vars, Published!Begin, Published!Stop, Published!Offer,
         Published!Disturb, Published!Publish, Published!Outage
<1>1. Accepted' \in past' \cup {None}
  BY CommitStep, AcceptedWasPublished DEF Named, Accepted
<1>2. CASE Run
  BY <1>0, <1>2, AcceptedUnchanged DEF Run, Resting, Stage, Published!Next
<1>3. CASE DeliveryFails
  <2>1. UNCHANGED <<Accepted, product, past, Stage>>
    BY <1>3, AcceptedUnchanged DEF DeliveryFails, Progress, Resting, Stage
  <2>2. QED
    BY <1>0, <2>1
<1>4. CASE PrepareProduct
  BY <1>0, <1>4, NamesAssumption, AcceptedUnchanged
     DEF PrepareProduct, Progress, Resting, Stage, Published!Next
<1>5. CASE CommitPart
  <2>1. product # None /\ UNCHANGED <<disk, product, past>>
    BY <1>5, NamesAssumption DEF CommitPart, Progress, WritePart, WriteFails
  <2>2. UNCHANGED Stage
    BY <1>5, <2>1 DEF CommitPart, Fail, Resting, Stage
  <2>3. QED
    BY <1>0, <2>1, <2>2, AcceptedUnchanged
<1>6. CASE CommitReplace
  <2>1. product # None /\ UNCHANGED <<product, past>>
    BY <1>6, NamesAssumption DEF CommitReplace, Progress, Replace, ReplaceFails
  <2>2. Stage = "publishing" /\ UNCHANGED Stage
    BY <1>6, <2>1 DEF CommitReplace, Fail, Resting, Stage
  <2>3. QED
    BY <1>0, <1>1, <2>1, <2>2 DEF Published!Next
<1>7. CASE CommitManifest
  <2>1. product # None /\ product \in Product /\ run \in 1..MaxRuns /\ UNCHANGED product
    BY <1>7, NamesAssumption
       DEF CommitManifest, Progress, WritePart, WriteFails, Replace, ReplaceFails
  <2>2. CASE UNCHANGED <<disk, past>> /\ pc' \in {"closing", "failing"}
    <3>1. UNCHANGED Stage
      BY <1>7, <2>1, <2>2 DEF CommitManifest, Resting, Stage
    <3>2. QED
      BY <1>0, <2>1, <2>2, <3>1, AcceptedUnchanged
  <2>3. CASE /\ pc = "closing"
             /\ Replace("manifest") /\ past' = past \cup {product}
             /\ pc' = "succeeded" /\ at' = 0
    <3>1. disk' = [disk EXCEPT !["manifest"] = Manifest(run, product)]
      BY <2>3 DEF Written, Replace
    <3>2. disk'["manifest"] = Manifest(run, product) /\ \A f \in DataFiles : disk'[f] = product[f]
      BY <2>3, <3>1, Places DEF TypeOK, Written
    <3>3. Found' = product
      BY <2>1, <3>2 DEF Found, Product
    <3>4. Accepted' = product
      BY <2>1, <3>2, <3>3, ContentsPossible DEF Accepted
    <3>5. Stage = "publishing" /\ Stage' = "over"
      BY <2>3 DEF Resting, Stage
    <3>6. QED
      BY <1>0, <2>1, <2>3, <3>4, <3>5 DEF Published!Next
  <2>4. QED
    BY <1>7, <2>2, <2>3 DEF CommitManifest, WritePart, WriteFails, ReplaceFails, Fail
<1>8. CASE WriteFailedReport
  <2>1. UNCHANGED <<product, past>>
    BY <1>8 DEF WriteFailedReport, WritePart, WriteFails, Replace, ReplaceFails
  <2>2. UNCHANGED Accepted
    <3>1. \A f \in DataFiles \cup {"manifest"} : disk'[f] = disk[f]
      BY <1>8, Places DEF WriteFailedReport, WritePart, WriteFails, Replace, ReplaceFails, TypeOK
    <3>2. QED
      BY <3>1, AcceptedUnchanged
  <2>3. Stage # "over"
    BY <1>8 DEF WriteFailedReport, Resting, Stage
  <2>4. Stage' = "over" \/ UNCHANGED Stage
    BY <1>8, <2>1 DEF WriteFailedReport, Resting, Stage
  <2>5. QED
    BY <1>0, <2>1, <2>2, <2>3, <2>4 DEF Published!Next
<1>9. CASE Crash
  <2>1. UNCHANGED <<disk, product, past>> /\ ~Resting /\ pc' = "down"
    BY <1>9 DEF Crash
  <2>2. Stage # "over" /\ Stage' = "over"
    BY <2>1 DEF Resting, Stage
  <2>3. QED
    BY <1>0, <2>1, <2>2, AcceptedUnchanged DEF Published!Next
<1>10. CASE Settle
  <2>1. UNCHANGED <<disk, product, past, pc>>
    BY <1>10 DEF Settle
  <2>2. UNCHANGED Stage
    BY <2>1 DEF Resting, Stage
  <2>3. QED
    BY <1>0, <2>1, <2>2, AcceptedUnchanged
<1>11. CASE PowerLoss
  <2>1. UNCHANGED <<product, past>> /\ pc' = "down"
    BY <1>11 DEF PowerLoss
  <2>2. Stage' = "over"
    BY <2>1 DEF Resting, Stage
  <2>3. QED
    BY <1>0, <1>1, <2>1, <2>2 DEF Published!Next
<1>12. CASE UNCHANGED vars
  <2>1. UNCHANGED <<disk, product, past, pc>>
    BY <1>12 DEF vars
  <2>2. UNCHANGED Stage
    BY <2>1 DEF Resting, Stage
  <2>3. QED
    BY <1>0, <2>1, <2>2, AcceptedUnchanged
<1>13. QED
  BY <1>2, <1>3, <1>4, <1>5, <1>6, <1>7, <1>8, <1>9, <1>10, <1>11, <1>12 DEF Next

\* However a run fails or dies and is repeated, and whatever renames a loss of power
\* takes back, the files implement Publication.
THEOREM PublishesCorrect == Spec => Publishes
<1>1. QED
  BY CommitInit, CommitStep, PublishedInit, PublishedStep, PTL
     DEF Spec, Publishes, Published!Spec

-------------------------------------------------------------------------------
(* The run                                                                 *)

\* Every step of a run is a step of the file protocol or the early end of Invalid.
LEMMA RunStepIsCommitStep == [RunNext]_<<vars, generated>> => [Next]_vars \/ Invalid
<1> SUFFICES ASSUME [RunNext]_<<vars, generated>>, ~Invalid PROVE [Next]_vars
  OBVIOUS
<1>1. CASE Compile \/ Plan \/ Trace
  BY <1>1 DEF Compile, Plan, Trace
<1>2. CASE FailsToDeliver \/ Delivers
  BY <1>2 DEF FailsToDeliver, Delivers, Next
<1>3. CASE \/ Run \/ CommitPart \/ CommitReplace \/ CommitManifest \/ WriteFailedReport
           \/ Settle \/ Crash \/ PowerLoss
  BY <1>3 DEF Next
<1>4. CASE UNCHANGED <<vars, generated>>
  BY <1>4
<1>5. QED
  BY <1>1, <1>2, <1>3, <1>4 DEF RunNext

\* A configuration error leaves every file, and the run has no product.
LEMMA InvalidStep ==
  CommitInv /\ Invalid => CommitInv' /\ [Published!Next]_(Published!vars)
<1> SUFFICES ASSUME CommitInv, Invalid
             PROVE  CommitInv' /\ [Published!Next]_(Published!vars)
  OBVIOUS
<1>1. /\ UNCHANGED <<disk, settled, part, run, past, outages, product, at>>
      /\ pc = "delivering" /\ pc' = "failed" /\ product = None
  BY DEF Invalid, InDetail, files, CommitInv, Progress
<1>2. TypeOK' /\ Named(disk)' /\ Named(settled)' /\ DataTyped(settled)'
  BY <1>1 DEF CommitInv, TypeOK, Named, DataTyped
<1>3. Progress' /\ Written'
  BY <1>1 DEF CommitInv, Progress, Written, Phases
<1>4. CommitInv'
  BY <1>2, <1>3 DEF CommitInv
<1>5. Accepted' = Accepted
  BY <1>1, AcceptedUnchanged
<1>6. Published!Stop
  BY <1>1, <1>5 DEF Published!Stop, Resting
<1>7. QED
  BY <1>4, <1>6 DEF Published!Next

\* The invariant of the files holds throughout the runs.
LEMMA RunKeepsCommitInv == RunSpec => []CommitInv
<1>1. RunInit => CommitInv
  BY CommitInit DEF RunInit
<1>2. CommitInv /\ [RunNext]_<<vars, generated>> => CommitInv'
  BY RunStepIsCommitStep, CommitStep, InvalidStep
<1>3. QED
  BY <1>1, <1>2, PTL DEF RunSpec

\* Whatever is planned, generated, refused or repeated before the commit, the
\* files implement Publication.
THEOREM RunPublishes == RunSpec => Publishes
<1>1. RunInit => Published!Init
  BY PublishedInit DEF RunInit
<1>2. CommitInv /\ [RunNext]_<<vars, generated>> => [Published!Next]_(Published!vars)
  BY RunStepIsCommitStep, PublishedStep, InvalidStep
<1>3. QED
  BY <1>1, <1>2, RunKeepsCommitInv, PTL DEF RunSpec, Publishes, Published!Spec
================================================================================
