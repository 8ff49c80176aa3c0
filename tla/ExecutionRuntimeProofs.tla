------------------------ MODULE ExecutionRuntimeProofs ------------------------
(***************************************************************************)
(* Theorems about the execution domain for every set of tasks, every       *)
(* grouping of them and every admission capacity.                          *)
(***************************************************************************)
EXTENDS ExecutionRuntime, FiniteSetTheorems, WellFoundedInduction, TLAPS

\* A set of declaration keys that is not empty has a least key, and Least
\* names it.
LEMMA LeastKey ==
  ASSUME NEW S \in SUBSET Nat, S # {}
  PROVE  Least(S) \in S /\ \A y \in S : Least(S) <= y
<1> DEFINE R == {p \in Nat \X Nat : p[1] < p[2]}
<1>1. R = OpToRel(<, Nat)
  BY DEF OpToRel
<1>2. IsWellFoundedOn(R, Nat)
  BY <1>1, NatLessThanWellFounded
<1>3. PICK x \in S : \A y \in S : ~ (<<y, x>> \in R)
  BY <1>2, WFMin
<1>4. ASSUME NEW y \in S PROVE x <= y
  <2>1. ~ (y < x)
    BY <1>3
  <2>2. QED
    BY <2>1
<1>5. QED
  BY <1>4 DEF Least

\* The same for the declaration keys of tasks, as _unwrap_group and _raise_terminal
\* use it.
LEMMA LeastTask ==
  ASSUME NEW S \in SUBSET Tasks, S # {}
  PROVE  Least(S) \in S /\ (\A y \in S : Least(S) <= y) /\ {Least(S)} \in SUBSET Tasks
<1>1. S \in SUBSET Nat
  BY RuntimeAssumption
<1>2. Least(S) \in S /\ \A y \in S : Least(S) <= y
  BY <1>1, LeastKey
<1>3. QED
  BY <1>2

-------------------------------------------------------------------------------
(* Typing *)

\* The initial values have their types.
LEMMA TypeInit == Init => TypeOK
<1>1. Capacity \in [Resources -> Nat]
  BY RuntimeAssumption
<1> SUFFICES ASSUME Init PROVE TypeOK
  OBVIOUS
<1>2. /\ group \in [Groups -> {"idle"} \cup Active \cup Settled]
      /\ owner \in [Tasks -> Groups \cup {NoGroup}]
      /\ task \in [Tasks -> {"unknown", "pending", "done", "dropped"} \cup Holding]
      /\ outcome \in [Tasks -> Outcomes \cup {"none"}]
      /\ permits \in [Resources -> Nat]
  BY <1>1 DEF Init
<1>3. interrupted \in BOOLEAN /\ abort \in BOOLEAN
  BY Zenon DEF Init
<1>4. terminal \in [kind : {"none", "result", "error", "fatal", "cancelled"},
                   key : SUBSET Tasks]
  BY DEF Init
<1>5. QED
  BY <1>2, <1>3, <1>4 DEF Init, TypeOK, WorkflowEnds

\* Every set of tasks is finite and can be counted.
LEMMA OwnedFinite ==
  ASSUME NEW S \in SUBSET Tasks
  PROVE  IsFiniteSet(S) /\ Cardinality(S) \in Nat
BY RuntimeAssumption, FS_Subset, FS_CardinalityType

\* Every action keeps the types; permits stay natural because _produce_lane
\* acquires only a permit that is free.
LEMMA TypeStep == TypeOK /\ [Next]_vars => TypeOK'
<1> SUFFICES ASSUME TypeOK, [Next]_vars PROVE TypeOK'
  OBVIOUS
<1> USE DEF TypeOK, WorkflowEnds, Active, Settled, Holding, Outcomes, Failures,
            domainVars, counterVars, entryVars, leafVars
<1>1. CASE EnterDomain
  BY <1>1 DEF EnterDomain
<1>2. CASE WatchAbort
  BY <1>2 DEF WatchAbort
<1>3. CASE Interrupt
  BY <1>3 DEF Interrupt
<1>3a. CASE SettleInterrupted
  <2>1. terminal' \in [kind : {"none", "result", "error", "fatal", "cancelled"},
                      key : SUBSET Tasks]
    BY <1>3a DEF SettleInterrupted
  <2>2. QED
    BY <1>3a, <2>1 DEF SettleInterrupted
<1>4. CASE RootExit
  BY <1>4 DEF RootExit
<1>5. CASE Close
  <2>1. Terminal \in [kind : {"none", "result", "error", "fatal", "cancelled"},
                      key : SUBSET Tasks]
    <3>1. cancellationEntries # {} => {Least(cancellationEntries)} \in SUBSET Tasks
      BY LeastTask
    <3>2. fatalEntries # {} => {Least(fatalEntries)} \in SUBSET Tasks
      BY LeastTask
    <3>3. QED
      BY <3>1, <3>2 DEF Terminal
  <2>2. QED
    BY <1>5, <2>1 DEF Close
<1>6. ASSUME NEW e \in WorkflowEnds, WorkflowEnd(e) PROVE TypeOK'
  BY <1>6 DEF WorkflowEnd
<1>7. ASSUME NEW g \in Groups, Submit(g) PROVE TypeOK'
  <2>1. Cardinality(Members[g]) \in Nat
    BY OwnedFinite, RuntimeAssumption
  <2>2. QED
    BY <1>7, <2>1 DEF Submit
<1>8. ASSUME NEW g \in Groups, Refuse(g) PROVE TypeOK'
  BY <1>8 DEF Refuse
<1>9. ASSUME NEW g \in Groups, CancelCaller(g) PROVE TypeOK'
  BY <1>9 DEF CancelCaller, CancelChildren, OwnedIn, Owned
<1>10. ASSUME NEW g \in Groups, GroupSettle(g) PROVE TypeOK'
  <2>1. Cardinality(OwnedIn(g, {"pending"})) \in Nat
    BY OwnedFinite DEF OwnedIn, Owned
  <2>2. QED
    BY <1>10, <2>1 DEF GroupSettle
<1>11. ASSUME NEW g \in Groups, NEW t \in Tasks, Admit(g, t) PROVE TypeOK'
  <2>1. ResourceOf[t] \in Resources
    BY RuntimeAssumption
  <2>2. permits' \in [Resources -> Nat]
    BY <1>11, <2>1 DEF Admit
  <2>3. QED
    BY <1>11, <2>2 DEF Admit
<1>12. ASSUME NEW t \in Tasks, StartLeaf(t) PROVE TypeOK'
  BY <1>12 DEF StartLeaf
<1>13. ASSUME NEW t \in Tasks, NeverStarted(t) PROVE TypeOK'
  BY <1>13 DEF NeverStarted
<1>14. ASSUME NEW t \in Tasks, NEW o \in Outcomes, LeafEnd(t, o) PROVE TypeOK'
  BY <1>14 DEF LeafEnd, AbortsDomain
<1>15. ASSUME NEW t \in Tasks, LeafDone(t) PROVE TypeOK'
  <2>1. group' \in [Groups -> {"idle"} \cup Active \cup Settled]
    BY <1>15 DEF LeafDone
  <2>2. cancelling' \subseteq Tasks
    BY <1>15 DEF LeafDone, CancelChildren, OwnedIn, Owned
  <2>3. permits' \in [Resources -> Nat]
    <3>1. ResourceOf[t] \in Resources
      BY RuntimeAssumption
    <3>2. QED
      BY <1>15, <3>1 DEF LeafDone
  <2>4. QED
    BY <1>15, <2>1, <2>2, <2>3 DEF LeafDone
<1>16. CASE UNCHANGED vars
  BY <1>16 DEF vars
<1>17. QED
  BY <1>1, <1>2, <1>3, <1>3a, <1>4, <1>5, <1>6, <1>7, <1>8, <1>9, <1>10, <1>11, <1>12,
     <1>13, <1>14, <1>15, <1>16 DEF Next, DomainStep, GroupStep, LeafStep

\* The types hold in every reachable state.
THEOREM TypeCorrect == Spec => []TypeOK
<1>1. QED
  BY TypeInit, TypeStep, PTL DEF Spec

-------------------------------------------------------------------------------
(* Structure *)

\* The steps of the domain leave every group and every leaf alone.
LEMMA DomainFrame ==
  DomainStep \/ UNCHANGED vars =>
    UNCHANGED <<group, leafVars, counterVars, entryVars>>
BY DEF DomainStep, EnterDomain, WatchAbort, Interrupt, RootExit,
       SettleInterrupted, Close,
       WorkflowEnd, vars

\* A registered id stays with the accepted request that registered it.
LEMMA OwnersStep ==
  TypeOK /\ OwnersMatch /\ [Next]_vars => OwnersMatch'
<1> SUFFICES ASSUME TypeOK, OwnersMatch, [Next]_vars PROVE OwnersMatch'
  OBVIOUS
<1> USE DEF OwnersMatch, Owned
<1>1. CASE DomainStep \/ UNCHANGED vars
  BY <1>1, DomainFrame DEF leafVars
<1>2. ASSUME NEW g \in Groups, Submit(g) PROVE OwnersMatch'
  <2>1. Members[g] \subseteq Tasks /\ Members[g] # {} /\ NoGroup \notin Groups
    BY <1>2, RuntimeAssumption DEF Submit
  <2>2. \A t \in Tasks : owner'[t] = IF t \in Members[g] THEN g ELSE owner[t]
    BY <1>2 DEF Submit
  <2>3. \A t \in Tasks : task'[t] = IF t \in Members[g] THEN "pending" ELSE task[t]
    BY <1>2 DEF Submit
  <2>4. \A t \in Members[g] : owner[t] = NoGroup
    BY <1>2 DEF Submit, Duplicate
  <2>5. \A t \in Tasks : owner'[t] = NoGroup <=> task'[t] = "unknown"
    BY <2>1, <2>2, <2>3
  <2>6. group' = [group EXCEPT ![g] = "open"]
    BY <1>2 DEF Submit
  <2>7. ASSUME NEW h \in Groups
        PROVE  group'[h] \in {"idle", "refused"} <=> Owned(h)' = {}
    <3>1. CASE h = g
      BY <3>1, <2>1, <2>2, <2>6 DEF TypeOK
    <3>2. CASE h # g
      BY <3>2, <2>1, <2>2, <2>4, <2>6 DEF TypeOK
    <3>3. QED
      BY <3>1, <3>2
  <2>8. QED
    BY <2>5, <2>7
<1>3. ASSUME NEW g \in Groups, Refuse(g) PROVE OwnersMatch'
  BY <1>3 DEF Refuse, leafVars, TypeOK
<1>4. ASSUME NEW g \in Groups, CancelCaller(g) PROVE OwnersMatch'
  BY <1>4 DEF CancelCaller, TypeOK
<1>5. ASSUME NEW g \in Groups, GroupSettle(g) PROVE OwnersMatch'
  BY <1>5 DEF GroupSettle, OwnedIn, TypeOK
<1>6. ASSUME NEW g \in Groups, NEW t \in Tasks, Admit(g, t) PROVE OwnersMatch'
  BY <1>6 DEF Admit, NextOfLane, TypeOK
<1>7. ASSUME NEW t \in Tasks, StartLeaf(t) PROVE OwnersMatch'
  BY <1>7 DEF StartLeaf, TypeOK
<1>8. ASSUME NEW t \in Tasks, NeverStarted(t) PROVE OwnersMatch'
  BY <1>8 DEF NeverStarted, TypeOK
<1>9. ASSUME NEW t \in Tasks, NEW o \in Outcomes, LeafEnd(t, o) PROVE OwnersMatch'
  BY <1>9 DEF LeafEnd, TypeOK
<1>10. ASSUME NEW t \in Tasks, LeafDone(t) PROVE OwnersMatch'
  BY <1>10 DEF LeafDone, TypeOK
<1>11. QED
  BY <1>1, <1>2, <1>3, <1>4, <1>5, <1>6, <1>7, <1>8, <1>9, <1>10
     DEF Next, GroupStep, LeafStep

\* A leaf is only alive inside the run_group call that registered it.
LEMMA LeavesStep ==
  TypeOK /\ OwnersMatch /\ LeavesInsideGroups /\ [Next]_vars => LeavesInsideGroups'
<1> SUFFICES ASSUME TypeOK, OwnersMatch, LeavesInsideGroups, [Next]_vars
             PROVE  LeavesInsideGroups'
  OBVIOUS
<1> USE DEF LeavesInsideGroups, Holding, Active
<1>1. CASE DomainStep \/ UNCHANGED vars
  BY <1>1, DomainFrame DEF leafVars
<1>2. ASSUME NEW g \in Groups, Submit(g) PROVE LeavesInsideGroups'
  BY <1>2, RuntimeAssumption DEF Submit, TypeOK
<1>3. ASSUME NEW g \in Groups, Refuse(g) PROVE LeavesInsideGroups'
  BY <1>3 DEF Refuse, leafVars, TypeOK
<1>4. ASSUME NEW g \in Groups, CancelCaller(g) PROVE LeavesInsideGroups'
  BY <1>4 DEF CancelCaller, TypeOK
<1>5. ASSUME NEW g \in Groups, GroupSettle(g) PROVE LeavesInsideGroups'
  BY <1>5 DEF GroupSettle, OwnedIn, Owned, TypeOK
<1>6. ASSUME NEW g \in Groups, NEW t \in Tasks, Admit(g, t)
      PROVE  LeavesInsideGroups'
  BY <1>6 DEF Admit, NextOfLane, TypeOK
<1>7. ASSUME NEW t \in Tasks, StartLeaf(t) PROVE LeavesInsideGroups'
  BY <1>7 DEF StartLeaf, TypeOK
<1>8. ASSUME NEW t \in Tasks, NeverStarted(t) PROVE LeavesInsideGroups'
  BY <1>8 DEF NeverStarted, TypeOK
<1>9. ASSUME NEW t \in Tasks, NEW o \in Outcomes, LeafEnd(t, o)
      PROVE  LeavesInsideGroups'
  BY <1>9 DEF LeafEnd, TypeOK
<1>10. ASSUME NEW t \in Tasks, LeafDone(t) PROVE LeavesInsideGroups'
  BY <1>10 DEF LeafDone, TypeOK
<1>11. QED
  BY <1>1, <1>2, <1>3, <1>4, <1>5, <1>6, <1>7, <1>8, <1>9, <1>10
     DEF Next, GroupStep, LeafStep

\* The fatal and cancellation lists and the results record each leaf once, at
\* the step that ends it.
LEMMA EntriesStep ==
  TypeOK /\ OwnersMatch /\ EntriesMatch /\ [Next]_vars => EntriesMatch'
<1> SUFFICES ASSUME TypeOK, OwnersMatch, EntriesMatch, [Next]_vars
             PROVE  EntriesMatch'
  OBVIOUS
<1> USE DEF EntriesMatch
<1>1. CASE DomainStep \/ UNCHANGED vars
  <2>1. watcher' = "raised" => abort
    BY <1>1 DEF DomainStep, EnterDomain, WatchAbort, Interrupt, RootExit,
       SettleInterrupted, Close,
                WorkflowEnd, vars, domainVars
  <2>2. QED
    BY <1>1, <2>1, DomainFrame DEF leafVars, entryVars
<1>2. ASSUME NEW g \in Groups, Submit(g) PROVE EntriesMatch'
  <2>1. \A t \in Tasks : task'[t] \notin {"ended", "done"}
                           <=> task[t] \notin {"ended", "done"}
    BY <1>2 DEF Submit, Duplicate, OwnersMatch, TypeOK
  <2>2. QED
    BY <1>2, <2>1 DEF Submit, domainVars, entryVars
<1>3. ASSUME NEW g \in Groups, Refuse(g) PROVE EntriesMatch'
  BY <1>3 DEF Refuse, leafVars, domainVars, entryVars
<1>4. ASSUME NEW g \in Groups, CancelCaller(g) PROVE EntriesMatch'
  BY <1>4 DEF CancelCaller, domainVars, entryVars
<1>5. ASSUME NEW g \in Groups, GroupSettle(g) PROVE EntriesMatch'
  BY <1>5 DEF GroupSettle, OwnedIn, TypeOK, domainVars, entryVars
<1>6. ASSUME NEW g \in Groups, NEW t \in Tasks, Admit(g, t) PROVE EntriesMatch'
  BY <1>6 DEF Admit, NextOfLane, TypeOK, domainVars, entryVars
<1>7. ASSUME NEW t \in Tasks, StartLeaf(t) PROVE EntriesMatch'
  BY <1>7 DEF StartLeaf, TypeOK, domainVars, entryVars
<1>8. ASSUME NEW t \in Tasks, NeverStarted(t) PROVE EntriesMatch'
  BY <1>8 DEF NeverStarted, TypeOK, domainVars, entryVars
<1>9. ASSUME NEW t \in Tasks, NEW o \in Outcomes, LeafEnd(t, o) PROVE EntriesMatch'
  <2>1. outcome' = [outcome EXCEPT ![t] = o] /\ outcome[t] = "none" /\ o # "none"
    BY <1>9 DEF LeafEnd, Outcomes, Failures, TypeOK
  <2>2. fatalEntries' = {u \in Tasks : outcome'[u] = "fatal"}
    BY <1>9, <2>1 DEF LeafEnd, TypeOK
  <2>3. cancellationEntries' = {u \in Tasks : outcome'[u] = "self_cancelled"}
    BY <1>9, <2>1 DEF LeafEnd, TypeOK
  <2>4. results' = {u \in Tasks : outcome'[u] = "ok"}
    BY <1>9, <2>1 DEF LeafEnd, TypeOK
  <2>5. \A u \in Tasks : outcome'[u] = "none" <=> task'[u] \notin {"ended", "done"}
    BY <1>9, <2>1 DEF LeafEnd, TypeOK
  <2>6. abort' <=> fatalEntries' \cup cancellationEntries' # {}
    BY <1>9 DEF LeafEnd, AbortsDomain
  <2>7. watcher' = "raised" => abort'
    BY <1>9 DEF LeafEnd, domainVars
  <2>8. QED
    BY <2>2, <2>3, <2>4, <2>5, <2>6, <2>7
<1>10. ASSUME NEW t \in Tasks, LeafDone(t) PROVE EntriesMatch'
  BY <1>10 DEF LeafDone, TypeOK, domainVars, entryVars
<1>11. QED
  BY <1>1, <1>2, <1>3, <1>4, <1>5, <1>6, <1>7, <1>8, <1>9, <1>10
     DEF Next, GroupStep, LeafStep

\* Nothing moves in a closed domain: no caller is left in run_group, so no leaf
\* is left to end.
LEMMA ClosedStep ==
  TypeOK /\ LeavesInsideGroups /\ ClosedIsFinal /\ [Next]_vars => ClosedIsFinal'
<1> SUFFICES ASSUME TypeOK, LeavesInsideGroups, ClosedIsFinal, [Next]_vars
             PROVE  ClosedIsFinal'
  OBVIOUS
<1> USE DEF ClosedIsFinal, Active
<1>1. CASE Close
  BY <1>1 DEF Close, Terminal, entryVars
<1>2. CASE DomainStep /\ ~Close
  BY <1>2 DEF DomainStep, EnterDomain, WatchAbort, Interrupt, RootExit,
              SettleInterrupted, WorkflowEnd, Terminal, entryVars
<1>3. CASE UNCHANGED vars
  BY <1>3 DEF vars, domainVars, entryVars, Terminal
<1>4. ASSUME NEW g \in Groups, Submit(g) PROVE ClosedIsFinal'
  BY <1>4 DEF Submit, domainVars
<1>5. ASSUME NEW g \in Groups, Refuse(g) PROVE ClosedIsFinal'
  BY <1>5 DEF Refuse, domainVars, entryVars, Terminal, TypeOK
<1>6. ASSUME NEW g \in Groups, CancelCaller(g) PROVE ClosedIsFinal'
  BY <1>6 DEF CancelCaller, domainVars
<1>7. ASSUME NEW g \in Groups, GroupSettle(g) PROVE ClosedIsFinal'
  BY <1>7 DEF GroupSettle, domainVars
<1>8. ASSUME NEW g \in Groups, NEW t \in Tasks, Admit(g, t) PROVE ClosedIsFinal'
  BY <1>8 DEF Admit, domainVars
<1>9. ASSUME NEW t \in Tasks, LeafStep(t) PROVE ClosedIsFinal'
  <2>1. task[t] \in Holding /\ UNCHANGED domainVars
    BY <1>9 DEF LeafStep, StartLeaf, NeverStarted, LeafEnd, LeafDone, Holding
  <2>2. state # "closed"
    BY <2>1 DEF LeavesInsideGroups
  <2>3. QED
    BY <2>1, <2>2 DEF domainVars
<1>10. QED
  BY <1>1, <1>2, <1>3, <1>4, <1>5, <1>6, <1>7, <1>8, <1>9 DEF Next, GroupStep

\* A group that returned owns only leaves that ended with a result.
LEMMA CompleteStep ==
  TypeOK /\ OwnersMatch /\ EntriesMatch /\ LeavesInsideGroups /\ CompleteResults
    /\ [Next]_vars => CompleteResults'
<1> SUFFICES ASSUME TypeOK, OwnersMatch, EntriesMatch, LeavesInsideGroups,
                    CompleteResults, [Next]_vars
             PROVE  CompleteResults'
  OBVIOUS
<1> USE DEF CompleteResults, Owned
<1>1. CASE DomainStep \/ UNCHANGED vars
  BY <1>1, DomainFrame DEF leafVars
<1>2. ASSUME NEW g \in Groups, Submit(g) PROVE CompleteResults'
  <2>1. ASSUME NEW h \in Groups, group'[h] = "returned"
        PROVE  /\ group[h] = "returned"
               /\ Owned(h)' = Owned(h)
               /\ \A t \in Owned(h) : task'[t] = task[t]
    <3>1. h # g /\ group[h] = "returned"
      BY <1>2, <2>1 DEF Submit, TypeOK
    <3>2. \A t \in Tasks : owner'[t] = IF t \in Members[g] THEN g ELSE owner[t]
      BY <1>2 DEF Submit
    <3>3. \A t \in Tasks : task'[t] = IF t \in Members[g] THEN "pending" ELSE task[t]
      BY <1>2 DEF Submit
    <3>4. \A t \in Members[g] : owner[t] = NoGroup
      BY <1>2 DEF Submit, Duplicate
    <3>5. h # NoGroup
      BY RuntimeAssumption
    <3>6. QED
      BY <3>1, <3>2, <3>3, <3>4, <3>5
  <2>2. QED
    BY <1>2, <2>1, SMTT(30) DEF Submit
<1>3. ASSUME NEW g \in Groups, Refuse(g) PROVE CompleteResults'
  BY <1>3 DEF Refuse, leafVars, TypeOK
<1>4. ASSUME NEW g \in Groups, CancelCaller(g) PROVE CompleteResults'
  BY <1>4 DEF CancelCaller, TypeOK
<1>5. ASSUME NEW g \in Groups, GroupSettle(g) PROVE CompleteResults'
  <2>1. ASSUME NEW h \in Groups, group'[h] = "returned"
        PROVE  Owned(h) # {} /\ \A t \in Owned(h) : task'[t] = "done" /\ outcome[t] = "ok"
    <3>1. CASE h = g
      <4>1. group[g] = "open" /\ Owned(g) \subseteq results
        BY <1>5, <2>1, <3>1 DEF GroupSettle, TypeOK
      <4>2. OwnedIn(g, {"pending"}) = {} /\ OwnedIn(g, Holding) = {}
        BY <1>5, <4>1 DEF GroupSettle
      <4>3. task' = task
        BY <1>5, <4>2 DEF GroupSettle, TypeOK
      <4>4. Owned(g) # {}
        BY <4>1 DEF OwnersMatch
      <4>5. ASSUME NEW t \in Owned(g) PROVE task[t] = "done" /\ outcome[t] = "ok"
        BY <4>1, <4>2 DEF EntriesMatch, OwnedIn, Holding
      <4>6. QED
        BY <3>1, <4>3, <4>4, <4>5
    <3>2. CASE h # g
      <4>1. group[h] = "returned"
        BY <1>5, <2>1, <3>2 DEF GroupSettle, TypeOK
      <4>2. \A t \in Owned(h) : task'[t] = task[t]
        BY <1>5, <3>2 DEF GroupSettle, OwnedIn, TypeOK
      <4>3. QED
        BY <4>1, <4>2
    <3>3. QED
      BY <3>1, <3>2
  <2>2. QED
    BY <1>5, <2>1 DEF GroupSettle
<1>6. ASSUME NEW g \in Groups, NEW t \in Tasks, Admit(g, t) PROVE CompleteResults'
  BY <1>6 DEF Admit, NextOfLane, TypeOK
<1>7. ASSUME NEW t \in Tasks, StartLeaf(t) PROVE CompleteResults'
  BY <1>7 DEF StartLeaf, TypeOK
<1>8. ASSUME NEW t \in Tasks, NeverStarted(t) PROVE CompleteResults'
  BY <1>8 DEF NeverStarted, TypeOK
<1>9. ASSUME NEW t \in Tasks, NEW o \in Outcomes, LeafEnd(t, o)
      PROVE  CompleteResults'
  BY <1>9 DEF LeafEnd, TypeOK
<1>10. ASSUME NEW t \in Tasks, LeafDone(t) PROVE CompleteResults'
  BY <1>10 DEF LeafDone, TypeOK
<1>11. QED
  BY <1>1, <1>2, <1>3, <1>4, <1>5, <1>6, <1>7, <1>8, <1>9, <1>10
     DEF Next, GroupStep, LeafStep

\* A new domain has no tasks, no entries and no groups.
LEMMA StructureInit == Init => Structure
<1> SUFFICES ASSUME Init PROVE Structure
  OBVIOUS
<1>1. OwnersMatch
  BY RuntimeAssumption DEF Init, OwnersMatch, Owned
<1>2. EntriesMatch
  BY DEF Init, EntriesMatch
<1>3. LeavesInsideGroups /\ ClosedIsFinal /\ CompleteResults
  BY DEF Init, LeavesInsideGroups, ClosedIsFinal, CompleteResults, Holding
<1>4. QED
  BY <1>1, <1>2, <1>3 DEF Structure

\* The structure of the domain holds in every reachable state.
THEOREM StructureCorrect == Spec => []Structure
<1>1. TypeOK /\ Structure /\ [Next]_vars => Structure'
  BY OwnersStep, EntriesStep, LeavesStep, ClosedStep, CompleteStep DEF Structure
<1>2. QED
  BY <1>1, StructureInit, TypeCorrect, PTL DEF Spec

\* run_group returns only complete results.
THEOREM CompleteResultsCorrect == Spec => []CompleteResults
<1>1. Structure => CompleteResults
  BY DEF Structure
<1>2. QED
  BY <1>1, StructureCorrect, PTL

\* A leaf never outlives the run_group call that created it.
THEOREM LeavesInsideGroupsCorrect == Spec => []LeavesInsideGroups
<1>1. Structure => LeavesInsideGroups
  BY DEF Structure
<1>2. QED
  BY <1>1, StructureCorrect, PTL

\* A tripped circuit breaker alone never aborts the domain.
THEOREM BreakerStaysInGroupCorrect == Spec => []BreakerStaysInGroup
<1>1. Structure => BreakerStaysInGroup
  BY DEF Structure, EntriesMatch, BreakerStaysInGroup
<1>2. QED
  BY <1>1, StructureCorrect, PTL

\* The end of a closed domain is decided by the least leaf that failed, whatever the
\* workflow made of its error or of a cancellation it absorbed.
THEOREM FatalDecidesCorrect == Spec => []FatalDecides
<1>1. Structure => FatalDecides
  <2> SUFFICES ASSUME Structure, state = "closed" PROVE FatalDecides
    BY DEF FatalDecides
  <2>1. terminal = Terminal
    BY DEF Structure, ClosedIsFinal
  <2>2. /\ fatalEntries = {t \in Tasks : outcome[t] = "fatal"}
        /\ cancellationEntries = {t \in Tasks : outcome[t] = "self_cancelled"}
    BY DEF Structure, EntriesMatch
  <2>3. ASSUME fatalEntries # {}
        PROVE  /\ Least(fatalEntries) \in fatalEntries
               /\ \A u \in fatalEntries : Least(fatalEntries) <= u
    <3>1. fatalEntries \in SUBSET Tasks
      BY <2>2
    <3>2. QED
      BY <2>3, <3>1, LeastTask
  <2>4. ASSUME cancellationEntries # {}
        PROVE  /\ Least(cancellationEntries) \in cancellationEntries
               /\ \A u \in cancellationEntries : Least(cancellationEntries) <= u
    <3>1. cancellationEntries \in SUBSET Tasks
      BY <2>2
    <3>2. QED
      BY <2>4, <3>1, LeastTask
  <2>5. terminal.kind \in {"result", "error"} =>
          fatalEntries = {} /\ cancellationEntries = {}
    BY <2>1 DEF Terminal
  <2>6. terminal.kind = "fatal" =>
          /\ cancellationEntries = {}
          /\ fatalEntries # {} /\ terminal.key = {Least(fatalEntries)}
    BY <2>1 DEF Terminal
  <2>7. terminal.kind = "cancelled" =>
          \/ workflow = "cancelled"
          \/ cancellationEntries # {} /\ terminal.key = {Least(cancellationEntries)}
    BY <2>1 DEF Terminal, Structure, ClosedIsFinal
  <2>8. QED
    BY <2>2, <2>3, <2>4, <2>5, <2>6, <2>7 DEF FatalDecides, LeastOf
<1>2. QED
  BY <1>1, StructureCorrect, PTL

-------------------------------------------------------------------------------
(* Permits *)

Holders(r) == {t \in TasksIn(Holding) : ResourceOf[t] = r}

\* A step that admits and ends no leaf keeps the permit count.
LEMMA PermitsFrame ==
  ASSUME PermitsConserved, permits' = permits,
         \A t \in Tasks : task'[t] \in Holding <=> task[t] \in Holding
  PROVE  PermitsConserved'
<1>1. \A r \in Resources : Holders(r)' = Holders(r)
  BY DEF Holders, TasksIn
<1>2. QED
  BY <1>1 DEF PermitsConserved, Holders

\* Admit turns a free permit into a held one and LeafDone turns it back; no other
\* action moves a leaf in or out of the holders.
LEMMA PermitsStep ==
  TypeOK /\ OwnersMatch /\ PermitsConserved /\ [Next]_vars => PermitsConserved'
<1> SUFFICES ASSUME TypeOK, OwnersMatch, PermitsConserved, [Next]_vars
             PROVE  PermitsConserved'
  OBVIOUS
<1>1. ASSUME NEW r \in Resources
      PROVE  /\ IsFiniteSet(Holders(r)) /\ Cardinality(Holders(r)) \in Nat
             /\ permits[r] \in Nat
             /\ permits[r] + Cardinality(Holders(r)) = Capacity[r]
  <2>1. Holders(r) \in SUBSET Tasks
    BY DEF Holders, TasksIn
  <2>2. permits[r] + Cardinality(Holders(r)) = Capacity[r]
    BY DEF PermitsConserved, Holders
  <2>3. QED
    BY <2>1, <2>2, OwnedFinite DEF TypeOK
<1>2. CASE DomainStep \/ UNCHANGED vars
  BY <1>2, DomainFrame, PermitsFrame DEF leafVars
<1>3. ASSUME NEW g \in Groups, Submit(g) PROVE PermitsConserved'
  <2>1. \A t \in Tasks : task'[t] \in Holding <=> task[t] \in Holding
    BY <1>3 DEF Submit, Duplicate, OwnersMatch, TypeOK, Holding
  <2>2. permits' = permits
    BY <1>3 DEF Submit
  <2>3. QED
    BY <2>1, <2>2, PermitsFrame
<1>4. ASSUME NEW g \in Groups, Refuse(g) \/ CancelCaller(g) PROVE PermitsConserved'
  BY <1>4, PermitsFrame DEF Refuse, CancelCaller, leafVars
<1>5. ASSUME NEW g \in Groups, GroupSettle(g) PROVE PermitsConserved'
  <2>1. \A t \in Tasks : task'[t] \in Holding <=> task[t] \in Holding
    BY <1>5 DEF GroupSettle, OwnedIn, TypeOK, Holding
  <2>2. permits' = permits
    BY <1>5 DEF GroupSettle
  <2>3. QED
    BY <2>1, <2>2, PermitsFrame
<1>6. ASSUME NEW t \in Tasks, StartLeaf(t) \/ NeverStarted(t) PROVE PermitsConserved'
  <2>1. \A u \in Tasks : task'[u] \in Holding <=> task[u] \in Holding
    BY <1>6 DEF StartLeaf, NeverStarted, TypeOK, Holding
  <2>2. permits' = permits
    BY <1>6 DEF StartLeaf, NeverStarted
  <2>3. QED
    BY <2>1, <2>2, PermitsFrame
<1>7. ASSUME NEW t \in Tasks, NEW o \in Outcomes, LeafEnd(t, o)
      PROVE  PermitsConserved'
  <2>1. \A u \in Tasks : task'[u] \in Holding <=> task[u] \in Holding
    BY <1>7 DEF LeafEnd, TypeOK, Holding
  <2>2. permits' = permits
    BY <1>7 DEF LeafEnd
  <2>3. QED
    BY <2>1, <2>2, PermitsFrame
<1>8. ASSUME NEW g \in Groups, NEW t \in Tasks, Admit(g, t) PROVE PermitsConserved'
  <2> SUFFICES ASSUME NEW r \in Resources
               PROVE  permits'[r] + Cardinality(Holders(r)') = Capacity[r]
    BY DEF PermitsConserved, Holders
  <2>1. /\ task' = [task EXCEPT ![t] = "created"] /\ task[t] = "pending"
        /\ permits' = [permits EXCEPT ![ResourceOf[t]] = @ - 1]
    BY <1>8 DEF Admit, NextOfLane
  <2>2. CASE r = ResourceOf[t]
    <3>1. Holders(r)' = Holders(r) \cup {t} /\ t \notin Holders(r)
      BY <2>1, <2>2 DEF Holders, TasksIn, Holding, TypeOK
    <3>2. Cardinality(Holders(r)') = Cardinality(Holders(r)) + 1
      BY <1>1, <3>1, FS_AddElement
    <3>3. permits'[r] = permits[r] - 1
      BY <2>1, <2>2 DEF TypeOK
    <3>4. QED
      BY <1>1, <3>2, <3>3
  <2>3. CASE r # ResourceOf[t]
    <3>1. Holders(r)' = Holders(r)
      BY <2>1, <2>3 DEF Holders, TasksIn, TypeOK
    <3>2. permits'[r] = permits[r]
      BY <2>1, <2>3 DEF TypeOK
    <3>3. QED
      BY <1>1, <3>1, <3>2
  <2>4. QED
    BY <2>2, <2>3
<1>9. ASSUME NEW t \in Tasks, LeafDone(t) PROVE PermitsConserved'
  <2> SUFFICES ASSUME NEW r \in Resources
               PROVE  permits'[r] + Cardinality(Holders(r)') = Capacity[r]
    BY DEF PermitsConserved, Holders
  <2>1. /\ task' = [task EXCEPT ![t] = "done"] /\ task[t] = "ended"
        /\ permits' = [permits EXCEPT ![ResourceOf[t]] = @ + 1]
    BY <1>9 DEF LeafDone
  <2>2. CASE r = ResourceOf[t]
    <3>1. Holders(r)' = Holders(r) \ {t} /\ t \in Holders(r)
      BY <2>1, <2>2 DEF Holders, TasksIn, Holding, TypeOK
    <3>2. Cardinality(Holders(r)') = Cardinality(Holders(r)) - 1
      BY <1>1, <3>1, FS_RemoveElement
    <3>3. permits'[r] = permits[r] + 1
      BY <2>1, <2>2 DEF TypeOK
    <3>4. QED
      BY <1>1, <3>2, <3>3
  <2>3. CASE r # ResourceOf[t]
    <3>1. Holders(r)' = Holders(r)
      BY <2>1, <2>3 DEF Holders, TasksIn, TypeOK
    <3>2. permits'[r] = permits[r]
      BY <2>1, <2>3 DEF TypeOK
    <3>3. QED
      BY <1>1, <3>1, <3>2
  <2>4. QED
    BY <2>2, <2>3
<1>10. QED
  BY <1>2, <1>3, <1>4, <1>5, <1>6, <1>7, <1>8, <1>9 DEF Next, GroupStep, LeafStep

\* At first every permit is free.
LEMMA PermitsInit == Init => PermitsConserved
<1> SUFFICES ASSUME Init, NEW r \in Resources
             PROVE  permits[r] + Cardinality(Holders(r)) = Capacity[r]
  BY DEF PermitsConserved, Holders
<1>1. Holders(r) = {}
  BY DEF Init, Holders, TasksIn, Holding
<1>2. Capacity[r] \in Nat
  BY RuntimeAssumption
<1>3. QED
  BY <1>1, <1>2, FS_EmptySet DEF Init

\* Admission permits are neither lost nor duplicated, for every mix of groups,
\* cancellations and failures.
THEOREM PermitsCorrect == Spec => []PermitsConserved
<1>1. Structure => OwnersMatch
  BY DEF Structure
<1>2. QED
  BY <1>1, PermitsInit, PermitsStep, TypeCorrect, StructureCorrect, PTL DEF Spec

-------------------------------------------------------------------------------
(* Counters *)

Pending == TasksIn({"pending"})
Running == TasksIn({"running"})
Cancelled ==
  {t \in TasksIn({"done"}) : outcome[t] = "cancelled"} \cup
  {t \in TasksIn({"ended", "done"}) : outcome[t] = "self_cancelled"}

\* The three sets of tasks that the counters count are finite.
LEMMA CountedSets ==
  /\ IsFiniteSet(Pending) /\ Cardinality(Pending) \in Nat
  /\ IsFiniteSet(Running) /\ Cardinality(Running) \in Nat
  /\ IsFiniteSet(Cancelled) /\ Cardinality(Cancelled) \in Nat
<1>1. Pending \in SUBSET Tasks /\ Running \in SUBSET Tasks /\ Cancelled \in SUBSET Tasks
  BY DEF Pending, Running, Cancelled, TasksIn
<1>2. QED
  BY <1>1, OwnedFinite

\* Each action moves a counter exactly when it moves a task between the sets.
LEMMA CountersStep ==
  TypeOK /\ OwnersMatch /\ EntriesMatch /\ CountersExact /\ [Next]_vars
    => CountersExact'
<1> SUFFICES ASSUME TypeOK, OwnersMatch, EntriesMatch, CountersExact, [Next]_vars
             PROVE  /\ queued' = Cardinality(Pending')
                    /\ running' = Cardinality(Running')
                    /\ cancelled' = Cardinality(Cancelled')
  BY DEF CountersExact, Pending, Running, Cancelled
<1> DEFINE Exact == /\ queued' = Cardinality(Pending')
                    /\ running' = Cardinality(Running')
                    /\ cancelled' = Cardinality(Cancelled')
<1>1. /\ queued = Cardinality(Pending) /\ running = Cardinality(Running)
      /\ cancelled = Cardinality(Cancelled)
  BY DEF CountersExact, Pending, Running, Cancelled
<1>2. CASE DomainStep \/ UNCHANGED vars
  BY <1>1, <1>2, DomainFrame
     DEF leafVars, counterVars, Pending, Running, Cancelled, TasksIn
<1>3. ASSUME NEW g \in Groups, Submit(g) PROVE Exact
  <2>1. \A t \in Tasks : task'[t] = IF t \in Members[g] THEN "pending" ELSE task[t]
    BY <1>3 DEF Submit
  <2>2. \A t \in Members[g] : task[t] = "unknown" /\ outcome[t] = "none"
    BY <1>3, RuntimeAssumption
       DEF Submit, Duplicate, OwnersMatch, EntriesMatch, TypeOK
  <2>3. Members[g] \in SUBSET Tasks
    BY RuntimeAssumption
  <2>4. Pending' = Pending \cup Members[g] /\ Pending \cap Members[g] = {}
    BY <2>1, <2>2, <2>3 DEF Pending, TasksIn
  <2>5. Cardinality(Pending') = Cardinality(Pending) + Cardinality(Members[g])
    <3>1. IsFiniteSet(Members[g]) /\ Cardinality(Members[g]) \in Nat
      BY <2>3, OwnedFinite
    <3>2. QED
      BY <2>4, <3>1, CountedSets, FS_Union, FS_EmptySet
  <2>6. Running' = Running
    BY <2>1, <2>2 DEF Running, TasksIn
  <2>7. Cancelled' = Cancelled
    BY <1>3, <2>1, <2>2 DEF Cancelled, TasksIn, Submit
  <2>8. QED
    BY <1>1, <1>3, <2>5, <2>6, <2>7 DEF Submit
<1>4. ASSUME NEW g \in Groups, Refuse(g) \/ CancelCaller(g) PROVE Exact
  BY <1>1, <1>4 DEF Refuse, CancelCaller, leafVars, counterVars, Pending, Running,
                    Cancelled, TasksIn
<1>5. ASSUME NEW g \in Groups, GroupSettle(g) PROVE Exact
  <2> DEFINE dropped == OwnedIn(g, {"pending"})
  <2>1. \A t \in Tasks : task'[t] = IF t \in dropped THEN "dropped" ELSE task[t]
    BY <1>5 DEF GroupSettle
  <2>2. dropped \subseteq Pending
    BY DEF OwnedIn, Owned, Pending, TasksIn
  <2>3. Pending' = Pending \ dropped
    BY <2>1 DEF Pending, TasksIn
  <2>4. Cardinality(Pending') = Cardinality(Pending) - Cardinality(dropped)
    <3>1. Pending \cap dropped = dropped
      BY <2>2
    <3>2. Cardinality(Pending \ dropped)
            = Cardinality(Pending) - Cardinality(Pending \cap dropped)
      BY CountedSets, FS_Difference
    <3>3. QED
      BY <2>3, <3>1, <3>2, Zenon
  <2>5. Running' = Running /\ Cancelled' = Cancelled
    BY <1>5, <2>1, <2>2 DEF Running, Cancelled, Pending, TasksIn, GroupSettle
  <2>6. QED
    BY <1>1, <1>5, <2>4, <2>5 DEF GroupSettle
<1>6. ASSUME NEW g \in Groups, NEW t \in Tasks, Admit(g, t) PROVE Exact
  <2>1. task' = [task EXCEPT ![t] = "created"] /\ task[t] = "pending"
    BY <1>6 DEF Admit, NextOfLane
  <2>2. Pending' = Pending \ {t} /\ t \in Pending
    BY <2>1 DEF Pending, TasksIn, TypeOK
  <2>3. Running' = Running
    BY <2>1 DEF Running, TasksIn, TypeOK
  <2>4. Cancelled' = Cancelled
    BY <1>6, <2>1 DEF Cancelled, TasksIn, TypeOK, Admit
  <2>5. Cardinality(Pending') = Cardinality(Pending) - 1
    BY <2>2, CountedSets, FS_RemoveElement
  <2>6. QED
    BY <1>1, <1>6, <2>3, <2>4, <2>5 DEF Admit
<1>7. ASSUME NEW t \in Tasks, StartLeaf(t) PROVE Exact
  <2>1. task' = [task EXCEPT ![t] = "running"] /\ task[t] = "created"
    BY <1>7 DEF StartLeaf
  <2>2. Pending' = Pending
    BY <2>1 DEF Pending, TasksIn, TypeOK
  <2>3. Running' = Running \cup {t} /\ t \notin Running
    BY <2>1 DEF Running, TasksIn, TypeOK
  <2>4. Cancelled' = Cancelled
    BY <1>7, <2>1 DEF Cancelled, TasksIn, TypeOK, StartLeaf
  <2>5. Cardinality(Running') = Cardinality(Running) + 1
    BY <2>3, CountedSets, FS_AddElement
  <2>6. QED
    BY <1>1, <1>7, <2>2, <2>4, <2>5 DEF StartLeaf
<1>8. ASSUME NEW t \in Tasks, NeverStarted(t) PROVE Exact
  <2>1. /\ task' = [task EXCEPT ![t] = "ended"] /\ task[t] = "created"
        /\ outcome' = [outcome EXCEPT ![t] = "cancelled"]
    BY <1>8 DEF NeverStarted
  <2>2. Pending' = Pending /\ Running' = Running
    BY <2>1 DEF Pending, Running, TasksIn, TypeOK
  <2>3. Cancelled' = Cancelled
    BY <2>1 DEF Cancelled, TasksIn, TypeOK
  <2>4. QED
    BY <1>1, <1>8, <2>2, <2>3 DEF NeverStarted, counterVars
<1>9. ASSUME NEW t \in Tasks, NEW o \in Outcomes, LeafEnd(t, o) PROVE Exact
  <2>1. /\ task' = [task EXCEPT ![t] = "ended"] /\ task[t] = "running"
        /\ outcome' = [outcome EXCEPT ![t] = o]
    BY <1>9 DEF LeafEnd
  <2>2. Pending' = Pending
    BY <2>1 DEF Pending, TasksIn, TypeOK
  <2>3. Running' = Running \ {t} /\ t \in Running
    BY <2>1 DEF Running, TasksIn, TypeOK
  <2>4. Cardinality(Running') = Cardinality(Running) - 1
    BY <2>3, CountedSets, FS_RemoveElement
  <2>5. cancelled' = Cardinality(Cancelled')
    <3>1. CASE o = "self_cancelled"
      <4>1. Cancelled' = Cancelled \cup {t} /\ t \notin Cancelled
        BY <2>1, <3>1 DEF Cancelled, TasksIn, TypeOK
      <4>2. Cardinality(Cancelled') = Cardinality(Cancelled) + 1
        BY <4>1, CountedSets, FS_AddElement
      <4>3. QED
        BY <1>1, <1>9, <3>1, <4>2 DEF LeafEnd
    <3>2. CASE o # "self_cancelled"
      <4>1. Cancelled' = Cancelled
        BY <2>1, <3>2 DEF Cancelled, TasksIn, TypeOK
      <4>2. QED
        BY <1>1, <1>9, <3>2, <4>1 DEF LeafEnd
    <3>3. QED
      BY <3>1, <3>2
  <2>6. QED
    BY <1>1, <1>9, <2>2, <2>4, <2>5 DEF LeafEnd
<1>10. ASSUME NEW t \in Tasks, LeafDone(t) PROVE Exact
  <2>1. /\ task' = [task EXCEPT ![t] = "done"] /\ task[t] = "ended"
        /\ outcome' = outcome /\ queued' = queued /\ running' = running
        /\ cancelled' = IF outcome[t] = "cancelled" THEN cancelled + 1 ELSE cancelled
    BY <1>10 DEF LeafDone
  <2>2. Pending' = Pending /\ Running' = Running
    BY <2>1 DEF Pending, Running, TasksIn, TypeOK
  <2>3. CASE outcome[t] = "cancelled"
    <3>1. Cancelled' = Cancelled \cup {t} /\ t \notin Cancelled
      BY <2>1, <2>3 DEF Cancelled, TasksIn, TypeOK
    <3>2. Cardinality(Cancelled') = Cardinality(Cancelled) + 1
      BY <3>1, CountedSets, FS_AddElement
    <3>3. QED
      BY <1>1, <2>1, <2>2, <2>3, <3>2
  <2>4. CASE outcome[t] # "cancelled"
    <3>1. Cancelled' = Cancelled
      BY <2>1, <2>4 DEF Cancelled, TasksIn, TypeOK
    <3>2. QED
      BY <1>1, <2>1, <2>2, <2>4, <3>1
  <2>5. QED
    BY <2>3, <2>4
<1>11. QED
  BY <1>2, <1>3, <1>4, <1>5, <1>6, <1>7, <1>8, <1>9, <1>10
     DEF Next, GroupStep, LeafStep

\* The counters start at zero with nothing to count.
LEMMA CountersInit == Init => CountersExact
<1> SUFFICES ASSUME Init PROVE CountersExact
  OBVIOUS
<1>1. Pending = {} /\ Running = {} /\ Cancelled = {}
  BY DEF Init, Pending, Running, Cancelled, TasksIn
<1>2. QED
  BY <1>1, FS_EmptySet DEF Init, CountersExact, Pending, Running, Cancelled

\* The queue, running and cancelled counters are exact.
THEOREM CountersCorrect == Spec => []CountersExact
<1>1. Structure => OwnersMatch /\ EntriesMatch
  BY DEF Structure
<1>2. QED
  BY <1>1, CountersInit, CountersStep, TypeCorrect, StructureCorrect, PTL DEF Spec

\* A closed domain is quiet: nothing runs or waits and every permit is back.
THEOREM QuietWhenClosedCorrect == Spec => []QuietWhenClosed
<1>1. TypeOK /\ Structure /\ PermitsConserved /\ CountersExact => QuietWhenClosed
  <2> SUFFICES ASSUME TypeOK, Structure, PermitsConserved, CountersExact,
                      state = "closed"
               PROVE  /\ TasksIn(Holding \cup {"pending"}) = {}
                      /\ queued = 0 /\ running = 0 /\ permits = Capacity
    BY DEF QuietWhenClosed
  <2>1. TasksIn(Holding \cup {"pending"}) = {}
    BY DEF Structure, LeavesInsideGroups, ClosedIsFinal, TasksIn
  <2>2. TasksIn(Holding) = {} /\ TasksIn({"pending"}) = {} /\ TasksIn({"running"}) = {}
    BY <2>1 DEF TasksIn, Holding
  <2>3. queued = 0 /\ running = 0
    BY <2>2, FS_EmptySet DEF CountersExact
  <2>4. ASSUME NEW r \in Resources PROVE permits[r] = Capacity[r]
    <3>1. {t \in TasksIn(Holding) : ResourceOf[t] = r} = {}
      BY <2>2
    <3>2. permits[r] + 0 = Capacity[r]
      BY <3>1, FS_EmptySet DEF PermitsConserved
    <3>3. QED
      BY <3>2 DEF TypeOK
  <2>5. permits = Capacity
    <3>1. permits = [r \in Resources |-> permits[r]]
      BY DEF TypeOK
    <3>2. Capacity = [r \in Resources |-> Capacity[r]]
      BY RuntimeAssumption
    <3>3. QED
      BY <2>4, <3>1, <3>2
  <2>6. QED
    BY <2>1, <2>3, <2>5
<1>2. QED
  BY <1>1, TypeCorrect, StructureCorrect, PermitsCorrect, CountersCorrect, PTL

\* Permits and counters are exact whatever ends how.
THEOREM AccountsCorrect == Spec => []AccountsExact
<1>1. PermitsConserved /\ CountersExact => AccountsExact
  BY DEF AccountsExact
<1>2. QED
  BY <1>1, PermitsCorrect, CountersCorrect, PTL

\* Groups return whole results and leave nothing behind.
THEOREM GroupsWholeCorrect == Spec => []GroupsWhole
<1>1. CompleteResults /\ LeavesInsideGroups /\ QuietWhenClosed => GroupsWhole
  BY DEF GroupsWhole
<1>2. QED
  BY <1>1, CompleteResultsCorrect, LeavesInsideGroupsCorrect, QuietWhenClosedCorrect, PTL


-------------------------------------------------------------------------------
(* What a step may never do to a registered task *)

\* One step: a registered id stays with its request, an ended or dropped task stays as
\* it is, and a pending task of an aborting group is dropped or goes on waiting.
LEMMA FateStep ==
  ASSUME TypeOK, [Next]_vars, NEW t \in Tasks, owner[t] # NoGroup
  PROVE  /\ owner'[t] = owner[t]
         /\ task[t] \in {"done", "dropped"} => task'[t] = task[t]
         /\ task[t] = "pending" /\ group[owner[t]] = "aborting"
              => task'[t] \in {"pending", "dropped"}
<1> DEFINE Kept == /\ owner'[t] = owner[t]
                   /\ task[t] \in {"done", "dropped"} => task'[t] = task[t]
                   /\ task[t] = "pending" /\ group[owner[t]] = "aborting"
                        => task'[t] \in {"pending", "dropped"}
<1> USE DEF TypeOK
<1>1. CASE DomainStep \/ UNCHANGED vars
  BY <1>1, DomainFrame DEF leafVars
<1>2. ASSUME NEW g \in Groups, Submit(g) PROVE Kept
  <2>1. t \notin Members[g]
    BY <1>2 DEF Submit, Duplicate
  <2>2. QED
    BY <1>2, <2>1 DEF Submit
<1>3. ASSUME NEW g \in Groups, Refuse(g) PROVE Kept
  BY <1>3 DEF Refuse, leafVars
<1>4. ASSUME NEW g \in Groups, CancelCaller(g) PROVE Kept
  BY <1>4 DEF CancelCaller
<1>5. ASSUME NEW g \in Groups, GroupSettle(g) PROVE Kept
  BY <1>5 DEF GroupSettle, OwnedIn, Owned
<1>6. ASSUME NEW g \in Groups, NEW u \in Tasks, Admit(g, u) PROVE Kept
  <2>1. group[owner[u]] = "open" /\ task[u] = "pending"
    BY <1>6 DEF Admit, NextOfLane
  <2>2. task'[t] = IF t = u THEN "created" ELSE task[t]
    BY <1>6 DEF Admit
  <2>3. QED
    BY <1>6, <2>1, <2>2 DEF Admit
<1>7. ASSUME NEW u \in Tasks, StartLeaf(u) PROVE Kept
  BY <1>7 DEF StartLeaf
<1>8. ASSUME NEW u \in Tasks, NeverStarted(u) PROVE Kept
  BY <1>8 DEF NeverStarted
<1>9. ASSUME NEW u \in Tasks, NEW o \in Outcomes, LeafEnd(u, o) PROVE Kept
  BY <1>9 DEF LeafEnd
<1>10. ASSUME NEW u \in Tasks, LeafDone(u) PROVE Kept
  BY <1>10 DEF LeafDone
<1>11. QED
  BY <1>1, <1>2, <1>3, <1>4, <1>5, <1>6, <1>7, <1>8, <1>9, <1>10
     DEF Next, GroupStep, LeafStep

\* Once registered, a task keeps its request and its end, and an abort of its group
\* closes the admission.
THEOREM TasksKeepTheirFateCorrect == Spec => TasksKeepTheirFate
<1> DEFINE Kept ==
      \A t \in Tasks : owner[t] # NoGroup =>
        /\ owner'[t] = owner[t]
        /\ task[t] \in {"done", "dropped"} => task'[t] = task[t]
        /\ task[t] = "pending" /\ group[owner[t]] = "aborting"
             => task'[t] \in {"pending", "dropped"}
<1>1. TypeOK /\ [Next]_vars => [Kept]_vars
  BY FateStep
<1>2. Spec => [][Kept]_vars
  BY <1>1, TypeCorrect, PTL DEF Spec
<1>3. QED
  BY <1>2 DEF TasksKeepTheirFate
===============================================================================
