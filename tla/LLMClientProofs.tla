---------------------------- MODULE LLMClientProofs ----------------------------
(***************************************************************************)
(* Theorems about the retry engine of the provider client for every set of *)
(* calls, profiles and keys, every capacity and every budget.              *)
(*                                                                         *)
(* The proof follows one observation: a step other than Tick moves one     *)
(* call from one phase to another, and what it does to permits and to the  *)
(* counts of the keys is decided by the two phases (Move).                 *)
(***************************************************************************)
EXTENDS LLMClient, CollectionTheorems

\* Where a call finds its key pool and its limits.
LEMMA Places ==
  \A c \in Calls : /\ ProfileOf[c] \in Profiles /\ OriginFor(c) \in Origins
                   /\ PoolFor(c) \subseteq Keys /\ LiveFor(c) \subseteq PoolFor(c)
                   /\ c # Nobody
BY ClientAssumption DEF OriginFor, PoolFor, Pool, LiveFor, Live

\* The types, but for the sign of the counts of attempts in flight; the call that
\* runs is the one that is ready; an attempt holds a key of its own pool.
Phases == {"idle", "waiting"} \cup Holding \cup Ended
Shape ==
  /\ phase \in [Calls -> Phases]
  /\ turn \in Calls \cup {Nobody}
  /\ key \in [Calls -> Keys \cup {NoKey}]
  /\ retries \in [Calls -> 0..MaxRetries]
  /\ parkSpent \in [Calls -> Nat] /\ remaining \in [Calls -> Nat]
  /\ resourceFree \in [Profiles -> Nat] /\ originFree \in [Origins -> Int]
  /\ inFlight \in [Keys -> Int] /\ cooling \in [Keys -> Nat]
  /\ disabled \subseteq Keys /\ streak \in Nat /\ broken \in BOOLEAN
  /\ failedSince \subseteq Calls
  /\ usageRetries \in [Profiles -> Nat]
  /\ posts \in [Calls -> Nat] /\ promised \in [Keys -> Nat]
  /\ \A c \in Calls : phase[c] = "ready" <=> turn = c
  /\ \A c \in Calls : phase[c] = "posting" => key[c] \in PoolFor(c)

\* Permits held in a phase.
Holds(s) == IF s \in Holding THEN 1 ELSE 0

\* What dispatching an attempt of c on key k does to the counts.
TakeAttempt(c, k) ==
  /\ inFlight' = [inFlight EXCEPT ![k] = @ + 1]
  /\ key' = [key EXCEPT ![c] = k]
  /\ originFree' = [originFree EXCEPT ![OriginFor(c)] = @ - 1]

\* Call c goes from its phase to phase x.
Move(c, x) ==
  /\ x \in Phases /\ phase' = [phase EXCEPT ![c] = x]
  /\ turn \in {c, Nobody} /\ turn' = IF x = "ready" THEN c ELSE Nobody
  /\ resourceFree[ProfileOf[c]] + Holds(phase[c]) - Holds(x) >= 0
  /\ resourceFree' = [resourceFree EXCEPT ![ProfileOf[c]] = @ + Holds(phase[c]) - Holds(x)]
  /\ phase[c] = "posting" => x # "posting" /\ ReturnAttempt(c)
  /\ x = "posting" => \E k \in LiveFor(c) : TakeAttempt(c, k)
  /\ phase[c] # "posting" /\ x # "posting" => UNCHANGED <<key, inFlight, originFree>>

\* The earliest wake of a pool that has a live key is a time.
LEMMA WakeTyped ==
  ASSUME Shape, NEW c \in Calls, LiveFor(c) # {}
  PROVE  EarliestWake(c) \in Nat
<1> DEFINE N == {cooling[k] : k \in LiveFor(c)}
<1>1. N \in SUBSET Nat /\ N # {}
  BY Places DEF Shape
<1>2. PICK n \in N : \A m \in N : n <= m
  BY <1>1, LeastNatural
<1>3. \A k \in LiveFor(c) : n <= cooling[k]
  BY <1>2
<1>4. EarliestWake(c) \in N
  BY <1>2, <1>3, Zenon DEF EarliestWake
<1>5. QED
  BY <1>1, <1>4

\* A way out of _post_with_retries is a move to the phase it names.
LEMMA LeaveMoves ==
  ASSUME Shape, NEW c \in Calls, NEW x \in Ended, Leave(c, x),
         phase[c] \in Holding, turn \in {c, Nobody},
         phase[c] = "posting" => ReturnAttempt(c),
         phase[c] # "posting" => UNCHANGED <<key, inFlight, originFree>>
  PROVE  Move(c, x)
<1>1. Holds(phase[c]) = 1 /\ Holds(x) = 0 /\ x # "ready" /\ x # "posting" /\ x \in Phases
  BY DEF Holds, Holding, Ended, Settled, Unsettled, Phases
<1>2. ProfileOf[c] \in Profiles /\ resourceFree[ProfileOf[c]] \in Nat
  BY Places DEF Shape
<1>3. resourceFree' = [resourceFree EXCEPT ![ProfileOf[c]] = @ + Holds(phase[c]) - Holds(x)]
  BY <1>1, <1>2 DEF Leave
<1>4. phase' = [phase EXCEPT ![c] = x] /\ turn' = Nobody
  BY DEF Leave
<1>5. QED
  BY <1>1, <1>2, <1>3, <1>4 DEF Move

\* A move between phases that hold a permit, or between phases that hold none,
\* leaves the permits alone.
LEMMA StayMoves ==
  ASSUME Shape, NEW c \in Calls, NEW x \in Phases, phase' = [phase EXCEPT ![c] = x],
         x # "posting", phase[c] \in Holding <=> x \in Holding,
         turn \in {c, Nobody}, turn' = IF x = "ready" THEN c ELSE Nobody,
         UNCHANGED resourceFree,
         phase[c] = "posting" => ReturnAttempt(c),
         phase[c] # "posting" => UNCHANGED <<key, inFlight, originFree>>
  PROVE  Move(c, x)
<1>1. Holds(phase[c]) = Holds(x) /\ Holds(x) \in Nat
  BY DEF Holds
<1>2. ProfileOf[c] \in Profiles /\ resourceFree[ProfileOf[c]] \in Nat
  BY Places DEF Shape
<1>3. resourceFree' = [resourceFree EXCEPT ![ProfileOf[c]] = @ + Holds(phase[c]) - Holds(x)]
  BY <1>1, <1>2 DEF Shape
<1>4. resourceFree[ProfileOf[c]] + Holds(phase[c]) - Holds(x) >= 0
  BY <1>1, <1>2
<1>5. QED
  BY <1>3, <1>4 DEF Move

CallStep(c) == Start(c) \/ Proceed(c) \/ Cancel(c) \/ OwnerFeeds(c)

\* Every step of a call is a move.
LEMMA StepMoves ==
  ASSUME Shape, NEW c \in Calls, CallStep(c)
  PROVE  \E x \in Phases : Move(c, x)
<1> USE DEF Holding, Ended, Settled, Unsettled
<1>0. /\ phase[c] \in Phases /\ turn \in Calls \cup {Nobody} /\ c # Nobody
      /\ phase[c] = "ready" <=> turn = c
      /\ ProfileOf[c] \in Profiles /\ resourceFree[ProfileOf[c]] \in Nat
  BY Places DEF Shape
<1> DEFINE Enters == /\ phase' = [phase EXCEPT ![c] = "ready"] /\ turn' = c
                     /\ resourceFree' = [resourceFree EXCEPT ![ProfileOf[c]] = @ - 1]
                     /\ resourceFree[ProfileOf[c]] > 0
                     /\ UNCHANGED <<key, inFlight, originFree>>
<1>1. ASSUME phase[c] \in {"idle", "waiting"}, turn = Nobody, Enters PROVE Move(c, "ready")
  <2>1. Holds(phase[c]) = 0 /\ Holds("ready") = 1
    BY <1>1 DEF Holds
  <2>2. resourceFree' = [resourceFree EXCEPT ![ProfileOf[c]] = @ + Holds(phase[c]) - Holds("ready")]
    <3>1. \A n \in Nat : n - 1 = n + 0 - 1
      OBVIOUS
    <3>2. resourceFree' = [resourceFree EXCEPT ![ProfileOf[c]] = resourceFree[ProfileOf[c]] - 1]
      BY <1>1
    <3>3. QED
      BY <1>0, <2>1, <3>1, <3>2
  <2>3. resourceFree[ProfileOf[c]] + Holds(phase[c]) - Holds("ready") >= 0
    BY <1>0, <1>1, <2>1
  <2>4. QED
    BY <1>1, <2>2, <2>3 DEF Move, Phases
<1>2. CASE Start(c)
  <2>1. phase[c] = "idle" /\ turn = Nobody /\ UNCHANGED <<key, inFlight, originFree>>
    BY <1>2 DEF Start, poolVars
  <2>2. CASE phase' = [phase EXCEPT ![c] = "tripped"] /\ UNCHANGED <<turn, resourceFree>>
    <3>1. Move(c, "tripped")
      BY <1>0, <2>1, <2>2, StayMoves DEF Phases
    <3>2. QED
      BY <3>1 DEF Phases
  <2>3. CASE phase' = [phase EXCEPT ![c] = "waiting"] /\ UNCHANGED <<turn, resourceFree>>
    <3>1. Move(c, "waiting")
      BY <1>0, <2>1, <2>3, StayMoves DEF Phases
    <3>2. QED
      BY <3>1 DEF Phases
  <2>4. CASE Enters
    BY <1>1, <2>1, <2>4 DEF Phases
  <2>5. QED
    BY <1>2, <2>1, <2>2, <2>3, <2>4 DEF Start
<1>3. CASE AcquireResource(c)
  BY <1>1, <1>3 DEF AcquireResource, poolVars, Phases
<1>4. CASE GuardBreaker(c) \/ BodyFails(c) \/ SelectFails(c)
  <2>1. phase[c] = "ready" /\ turn = c /\ UNCHANGED <<key, inFlight, originFree>>
    BY <1>0, <1>4 DEF GuardBreaker, BodyFails, SelectFails, AtLoopTop, poolVars
  <2>2. \E x \in Ended : Leave(c, x)
    BY <1>4 DEF GuardBreaker, BodyFails, SelectFails, SettleFatal
  <2>3. QED
    BY <2>1, <2>2, LeaveMoves DEF Phases
<1>5. CASE Park(c)
  <2>1. /\ phase[c] = "ready" /\ turn = c /\ phase' = [phase EXCEPT ![c] = "parked"]
        /\ turn' = Nobody /\ UNCHANGED <<key, inFlight, originFree, resourceFree>>
    BY <1>0, <1>5 DEF Park, AtLoopTop, poolVars, permitVars
  <2>2. Move(c, "parked")
    BY <2>1, StayMoves DEF Phases
  <2>3. QED
    BY <2>2 DEF Phases
<1>6. ASSUME NEW k \in Keys, Dispatch(c, k) PROVE Move(c, "posting")
  <2>1. phase[c] = "ready" /\ turn = c /\ Holds(phase[c]) = 1 /\ Holds("posting") = 1
    BY <1>0, <1>6 DEF Dispatch, AtLoopTop, Holds
  <2>2. resourceFree' = [resourceFree EXCEPT ![ProfileOf[c]] = @ + Holds(phase[c]) - Holds("posting")]
    BY <1>0, <1>6, <2>1 DEF Dispatch, Shape
  <2>3. k \in LiveFor(c) /\ TakeAttempt(c, k)
    BY <1>6 DEF Dispatch, Selected, Eligible, TakeAttempt
  <2>4. resourceFree[ProfileOf[c]] + Holds(phase[c]) - Holds("posting") >= 0
    BY <1>0, <2>1
  <2>5. phase' = [phase EXCEPT ![c] = "posting"] /\ turn' = Nobody
    BY <1>6 DEF Dispatch
  <2>6. QED
    BY <2>1, <2>2, <2>3, <2>4, <2>5 DEF Move, Phases
<1>7. CASE Unpark(c) \/ BackoffEnds(c)
  <2>1. /\ phase[c] \in {"parked", "backoff"} /\ turn = Nobody
        /\ phase' = [phase EXCEPT ![c] = "ready"] /\ turn' = c
        /\ UNCHANGED <<key, inFlight, originFree, resourceFree>>
    BY <1>7 DEF Unpark, BackoffEnds, poolVars, permitVars
  <2>2. Move(c, "ready")
    BY <2>1, StayMoves DEF Phases
  <2>3. QED
    BY <2>2 DEF Phases
<1>8. CASE Answer(c)
  <2>1. phase[c] = "posting" /\ turn = Nobody /\ ReturnAttempt(c)
    BY <1>8 DEF Answer, Succeed, FailFatally, Overflow, Transient, AuthFails, RateLimited,
                Answered
  <2>2. \/ \E x \in Ended : Leave(c, x)
        \/ \E x \in {"backoff", "ready"} :
             /\ phase' = [phase EXCEPT ![c] = x]
             /\ turn' = (IF x = "ready" THEN c ELSE Nobody) /\ UNCHANGED resourceFree
    BY <1>8, <2>1 DEF Answer, Succeed, FailFatally, Overflow, Transient, AuthFails, RateLimited,
                      SettleFatal
  <2>3. QED
    BY <2>1, <2>2, LeaveMoves, StayMoves DEF Phases
<1>9. CASE Cancel(c)
  <2>1. CASE phase[c] = "waiting"
    <3>1. Move(c, "cancelled")
      BY <1>0, <1>9, <2>1, StayMoves DEF Cancel, Phases
    <3>2. QED
      BY <3>1 DEF Phases
  <2>2. CASE phase[c] # "waiting"
    <3>1. /\ Leave(c, "cancelled") /\ turn = Nobody
          /\ phase[c] \in {"parked", "backoff", "posting"}
          /\ phase[c] = "posting" => ReturnAttempt(c)
          /\ phase[c] # "posting" => UNCHANGED <<key, inFlight, originFree>>
      BY <1>9, <2>2 DEF Cancel
    <3>2. Move(c, "cancelled")
      BY <3>1, LeaveMoves
    <3>3. QED
      BY <3>2 DEF Phases
  <2>3. QED
    BY <2>1, <2>2
<1>10. CASE OwnerFeeds(c)
  <2>1. /\ phase[c] = "overflow" /\ turn = Nobody
        /\ phase' = [phase EXCEPT ![c] = "reported"]
        /\ UNCHANGED <<turn, key, inFlight, originFree, resourceFree>>
    BY <1>10 DEF OwnerFeeds, poolVars, permitVars
  <2>2. Move(c, "reported")
    BY <2>1, StayMoves DEF Phases
  <2>3. QED
    BY <2>2 DEF Phases
<1>11. QED
  BY <1>2, <1>3, <1>4, <1>5, <1>6, <1>7, <1>8, <1>9, <1>10
     DEF CallStep, Proceed, LoopTop, Phases

--------------------------------------------------------------------------------
(* Typing *)

\* The part of the shape that a move decides.
Moved ==
  /\ phase \in [Calls -> Phases]
  /\ turn \in Calls \cup {Nobody}
  /\ key \in [Calls -> Keys \cup {NoKey}]
  /\ resourceFree \in [Profiles -> Nat] /\ originFree \in [Origins -> Int]
  /\ inFlight \in [Keys -> Int]
  /\ \A c \in Calls : phase[c] = "ready" <=> turn = c
  /\ \A c \in Calls : phase[c] = "posting" => key[c] \in PoolFor(c)

\* The part that it leaves to the action.
Kept ==
  /\ retries \in [Calls -> 0..MaxRetries]
  /\ parkSpent \in [Calls -> Nat] /\ remaining \in [Calls -> Nat]
  /\ cooling \in [Keys -> Nat] /\ disabled \subseteq Keys
  /\ streak \in Nat /\ failedSince \subseteq Calls
  /\ usageRetries \in [Profiles -> Nat]
  /\ posts \in [Calls -> Nat] /\ promised \in [Keys -> Nat]

\* The shape has a part that a move of one call changes, and one that it keeps.
LEMMA ShapeParts == Shape <=> Moved /\ Kept /\ broken \in BOOLEAN
BY DEF Shape, Moved, Kept

\* A move keeps the counts in their types and every attempt on a key of its pool.
LEMMA MoveTypes ==
  ASSUME Shape, NEW c \in Calls, NEW x \in Phases, Move(c, x)
  PROVE  Moved'
<1> USE DEF Move
<1>0. /\ ProfileOf[c] \in Profiles /\ OriginFor(c) \in Origins /\ c # Nobody
      /\ LiveFor(c) \subseteq PoolFor(c) /\ PoolFor(c) \subseteq Keys
  BY Places
<1>1. phase' \in [Calls -> Phases] /\ turn' \in Calls \cup {Nobody}
  BY DEF Shape
<1>2. resourceFree' \in [Profiles -> Nat]
  <2>1. resourceFree[ProfileOf[c]] + Holds(phase[c]) - Holds(x) \in Nat
    BY <1>0 DEF Shape, Holds
  <2>2. QED
    BY <1>0, <2>1 DEF Shape
<1>3. \A d \in Calls : phase'[d] = "ready" <=> turn' = d
  <2>1. \A d \in Calls \ {c} : phase[d] # "ready"
    BY <1>0, ClientAssumption DEF Shape
  <2>2. \A d \in Calls \ {c} : phase'[d] # "ready" /\ turn' # d
    BY <1>0, <2>1, ClientAssumption DEF Shape
  <2>3. phase'[c] = "ready" <=> turn' = c
    BY <1>0 DEF Shape
  <2>4. QED
    BY <2>2, <2>3
<1>4. CASE phase[c] = "posting"
  <2>1. /\ inFlight' = [inFlight EXCEPT ![key[c]] = @ - 1]
        /\ key' = [key EXCEPT ![c] = NoKey]
        /\ originFree' = [originFree EXCEPT ![OriginFor(c)] = @ + 1]
        /\ x # "posting"
    BY <1>4 DEF ReturnAttempt
  <2>2. key[c] \in Keys /\ key[c] # 0
    BY <1>0, <1>4, ClientAssumption DEF Shape
  <2>3. key' \in [Calls -> Keys \cup {NoKey}] /\ inFlight' \in [Keys -> Int]
    BY <2>1, <2>2 DEF Shape
  <2>4. originFree' \in [Origins -> Int]
    BY <1>0, <2>1 DEF Shape
  <2>5. \A d \in Calls : phase'[d] = "posting" => key'[d] \in PoolFor(d)
    BY <2>1 DEF Shape
  <2>6. QED
    BY <1>1, <1>2, <1>3, <2>3, <2>4, <2>5 DEF Moved, PoolFor, Pool
<1>5. CASE x = "posting"
  <2>1. PICK k \in LiveFor(c) : TakeAttempt(c, k)
    BY <1>5
  <2>2. k \in Keys /\ k \in PoolFor(c)
    BY <1>0
  <2>3. key' \in [Calls -> Keys \cup {NoKey}] /\ inFlight' \in [Keys -> Int]
    BY <2>1, <2>2 DEF Shape, TakeAttempt
  <2>4. originFree' \in [Origins -> Int]
    BY <1>0, <2>1 DEF Shape, TakeAttempt
  <2>5. \A d \in Calls : phase'[d] = "posting" => key'[d] \in PoolFor(d)
    BY <1>5, <2>1, <2>2 DEF Shape, TakeAttempt
  <2>6. QED
    BY <1>1, <1>2, <1>3, <2>3, <2>4, <2>5 DEF Moved, PoolFor, Pool
<1>6. CASE phase[c] # "posting" /\ x # "posting"
  <2>1. UNCHANGED <<key, inFlight, originFree>>
    BY <1>6
  <2>2. \A d \in Calls : phase'[d] = "posting" => key'[d] \in PoolFor(d)
    BY <1>6, <2>1 DEF Shape
  <2>3. QED
    BY <1>1, <1>2, <1>3, <2>1, <2>2 DEF Moved, Shape, PoolFor, Pool
<1>7. QED
  BY <1>4, <1>5, <1>6

\* What every way out does to the accounting is typed, and so is the feed.
LEMMA LeaveTypes ==
  ASSUME Shape, NEW c \in Calls, NEW x \in Ended, Leave(c, x)
  PROVE  usageRetries' \in [Profiles -> Nat]
<1>1. retries[c] \in Nat /\ ProfileOf[c] \in Profiles
  BY Places, ClientAssumption DEF Shape
<1>2. QED
  BY <1>1 DEF Leave, Shape

\* Every step of a call keeps the types of what a move does not decide.
LEMMA StepTypes ==
  ASSUME Shape, NEW c \in Calls, CallStep(c)
  PROVE  Kept'
<1> USE DEF Ended, Settled, Unsettled, poolVars, permitVars, breakerVars, historyVars
<1>0. Kept /\ retries[c] \in 0..MaxRetries /\ MaxRetries \in Nat
  BY ClientAssumption, ShapeParts DEF Shape
<1>1. CASE Start(c) \/ AcquireResource(c) \/ Unpark(c) \/ BackoffEnds(c)
  BY <1>0, <1>1 DEF Start, AcquireResource, Unpark, BackoffEnds, Kept
<1>2. CASE GuardBreaker(c) \/ BodyFails(c)
  BY <1>0, <1>2, LeaveTypes DEF GuardBreaker, BodyFails, Kept
<1>3. CASE SelectFails(c)
  BY <1>0, <1>3, LeaveTypes DEF SelectFails, SettleFatal, FeedFatal, Kept
<1>4. CASE Park(c)
  <2>1. EarliestWake(c) \in Nat /\ remaining' = [remaining EXCEPT ![c] = EarliestWake(c)]
    BY <1>4, WakeTyped DEF Park
  <2>2. QED
    BY <1>0, <1>4, <2>1 DEF Park, Kept
<1>5. ASSUME NEW k \in Keys, Dispatch(c, k) PROVE Kept'
  BY <1>0, <1>5 DEF Dispatch, Kept
<1>6. CASE Succeed(c) \/ FailFatally(c) \/ Overflow(c)
  BY <1>0, <1>6, LeaveTypes
     DEF Succeed, FailFatally, Overflow, SettleFatal, FeedFatal, FeedSuccess, Kept
<1>7. CASE Transient(c)
  <2>1. CASE RetriesLeft(c)
    BY <1>0, <1>7, <2>1 DEF Transient, RetriesLeft, Kept
  <2>2. CASE ~RetriesLeft(c)
    BY <1>0, <1>7, <2>2, LeaveTypes DEF Transient, SettleFatal, FeedFatal, Kept
  <2>3. QED
    BY <2>1, <2>2
<1>8. ASSUME NEW d \in 0..MaxCooldown, NEW retryAfter \in Announces,
             RateLimited(c, d, retryAfter)
      PROVE  Kept'
  <2>0. d \in Nat
    BY ClientAssumption
  <2>1. cooling' \in [Keys -> Nat] /\ promised' \in [Keys -> Nat]
    BY <1>0, <1>8, <2>0 DEF RateLimited, Kept
  <2>2. CASE RetriesLeft(c)
    BY <1>0, <1>8, <2>1, <2>2 DEF RateLimited, RetriesLeft, Kept
  <2>3. CASE ~RetriesLeft(c)
    BY <1>0, <1>8, <2>1, <2>3, LeaveTypes DEF RateLimited, SettleFatal, FeedFatal, Kept
  <2>4. QED
    BY <2>2, <2>3
<1>9. CASE AuthFails(c)
  <2>1. disabled' \subseteq Keys
    <3>1. phase[c] = "posting"
      BY <1>9 DEF AuthFails, Answered
    <3>2. key[c] \in Keys
      BY <3>1, Places DEF Shape
    <3>3. QED
      BY <1>0, <1>9, <3>2 DEF AuthFails, Kept
  <2>2. QED
    BY <1>0, <1>9, <2>1, LeaveTypes DEF AuthFails, SettleFatal, FeedFatal, Kept
<1>10. CASE Cancel(c)
  BY <1>0, <1>10, LeaveTypes DEF Cancel, Kept
<1>11. CASE OwnerFeeds(c)
  BY <1>0, <1>11 DEF OwnerFeeds, FeedFatal, Kept
<1>12. QED
  BY <1>1, <1>2, <1>3, <1>4, <1>5, <1>6, <1>7, <1>8, <1>9, <1>10, <1>11
     DEF CallStep, Proceed, LoopTop, Answer

\* The breaker is open or it is not.
LEMMA BreakerTyped == Shape /\ [Next]_vars => broken' \in BOOLEAN
<1> SUFFICES ASSUME Shape, [Next]_vars PROVE broken' \in BOOLEAN
  OBVIOUS
<1>1. broken' = broken \/ \E c \in Calls, hard \in BOOLEAN : FeedFatal(c, hard)
  <2> USE DEF breakerVars, SettleFatal, FeedSuccess
  <2>1. CASE Tick \/ UNCHANGED vars
    BY <2>1 DEF Tick, vars
  <2>2. ASSUME NEW c \in Calls, CallStep(c) PROVE <1>1
    <3>1. CASE Start(c) \/ AcquireResource(c) \/ Unpark(c) \/ BackoffEnds(c) \/ Cancel(c)
      BY <3>1 DEF Start, AcquireResource, Unpark, BackoffEnds, Cancel
    <3>2. CASE GuardBreaker(c) \/ BodyFails(c) \/ Park(c) \/ \E k \in Keys : Dispatch(c, k)
      BY <3>2 DEF GuardBreaker, BodyFails, Park, Dispatch
    <3>3. CASE SelectFails(c)
      BY <3>3 DEF SelectFails
    <3>4. CASE Answer(c)
      BY <3>4 DEF Answer, Succeed, FailFatally, Overflow, Transient, AuthFails, RateLimited
    <3>5. CASE OwnerFeeds(c)
      BY <3>5 DEF OwnerFeeds
    <3>6. QED
      BY <2>2, <3>1, <3>2, <3>3, <3>4, <3>5 DEF CallStep, Proceed, LoopTop
  <2>3. QED
    BY <2>1, <2>2 DEF Next, CallStep
<1>2. \A c, hard : FeedFatal(c, hard) => broken' \in BOOLEAN
  BY Zenon DEF FeedFatal
<1>3. broken \in BOOLEAN
  BY DEF Shape
<1>4. QED
  BY <1>1, <1>2, <1>3

\* Time passes: a park that is not over gets shorter.
LEMMA TickShape == Shape /\ Tick => Moved' /\ Kept'
<1> SUFFICES ASSUME Shape, Tick PROVE Moved' /\ Kept'
  OBVIOUS
<1>1. UNCHANGED <<phase, turn, key, resourceFree, originFree, inFlight>>
  BY DEF Tick, permitVars
<1>2. Moved'
  BY <1>1 DEF Shape, Moved, PoolFor, Pool
<1>3. /\ cooling' \in [Keys -> Nat] /\ promised' \in [Keys -> Nat]
      /\ parkSpent' \in [Calls -> Nat]
  BY DEF Tick, Shape
<1>4. remaining' \in [Calls -> Nat]
  BY DEF Tick, Shape
<1>5. UNCHANGED <<retries, disabled, streak, failedSince, usageRetries, posts>>
  BY DEF Tick, breakerVars
<1>6. QED
  BY <1>2, <1>3, <1>4, <1>5 DEF Shape, Kept

\* Every step keeps the shape.
LEMMA ShapeStep == Shape /\ [Next]_vars => Shape'
<1> SUFFICES ASSUME Shape, [Next]_vars PROVE Shape'
  OBVIOUS
<1>1. ASSUME NEW c \in Calls, CallStep(c) PROVE Moved' /\ Kept'
  BY <1>1, StepMoves, MoveTypes, StepTypes
<1>2. ASSUME UNCHANGED vars PROVE Moved' /\ Kept'
  BY <1>2 DEF vars, callVars, permitVars, poolVars, breakerVars, historyVars, Shape, Moved,
              Kept, PoolFor, Pool
<1>3. Moved' /\ Kept'
  <2>1. Tick \/ (\E c \in Calls : CallStep(c)) \/ UNCHANGED vars
    BY DEF Next, CallStep
  <2>2. QED
    BY <1>1, <1>2, <2>1, TickShape
<1>4. broken' \in BOOLEAN
  BY BreakerTyped
<1>5. QED
  BY <1>3, <1>4 DEF Shape, Moved, Kept

\* The shape at the start.
LEMMA ShapeInit == Init => Shape
<1> SUFFICES ASSUME Init PROVE Shape
  OBVIOUS
<1>1. /\ phase \in [Calls -> Phases] /\ turn = Nobody
      /\ key \in [Calls -> Keys \cup {NoKey}] /\ retries \in [Calls -> 0..MaxRetries]
      /\ parkSpent \in [Calls -> Nat] /\ remaining \in [Calls -> Nat]
      /\ posts \in [Calls -> Nat]
  BY ClientAssumption DEF Init, Phases
<1>2. resourceFree \in [Profiles -> Nat] /\ usageRetries \in [Profiles -> Nat]
  BY ClientAssumption DEF Init
<1>3. originFree \in [Origins -> Int]
  <2>1. ASSUME NEW o \in Origins PROVE OriginCapacity(o) \in Int
    <3> DEFINE P == {p \in Profiles : OriginOf[p] = o}
    <3>1. IsFiniteSet(P) /\ \A p \in P : Capacity[p] \in Int
      BY ClientAssumption, FS_Subset
    <3>2. OriginCapacity(o) = SumOf(Capacity, P)
      BY DEF OriginCapacity, SumOf
    <3>3. QED
      BY <3>1, <3>2, SumType
  <2>2. QED
    BY <2>1 DEF Init
<1>4. /\ inFlight \in [Keys -> Int] /\ cooling \in [Keys -> Nat] /\ disabled \subseteq Keys
      /\ promised \in [Keys -> Nat] /\ streak \in Nat /\ failedSince \subseteq Calls
  BY DEF Init
<1>5. \A c \in Calls : phase[c] = "idle" /\ turn # c
  BY ClientAssumption DEF Init
<1>6. broken \in BOOLEAN
  BY DEF Init
<1>7. QED
  BY <1>1, <1>2, <1>3, <1>4, <1>5, <1>6 DEF Shape

\* The shape holds in every reachable state.
LEMMA ShapeCorrect == Spec => []Shape
BY ShapeInit, ShapeStep, PTL DEF Spec

--------------------------------------------------------------------------------
(* Permits *)

\* The calls with an attempt in flight on a key, and what is left of the capacity
\* of each profile when its attempts are taken off.
OnKey(k) == {c \in Calls : phase[c] = "posting" /\ key[c] = k}
Unposted == [p \in Profiles |-> Capacity[p] - Cardinality(InPhase(p, {"posting"}))]
Sharing(o) == {p \in Profiles : OriginOf[p] = o}

PermitInv ==
  /\ \A p \in Profiles : resourceFree[p] + Cardinality(InPhase(p, Holding)) = Capacity[p]
  /\ \A k \in Keys : inFlight[k] = Cardinality(OnKey(k))
  /\ \A o \in Origins : originFree[o] = SumOf(Unposted, Sharing(o))

\* Sets of calls can be counted.
LEMMA CallsCounted ==
  ASSUME NEW S \in SUBSET Calls
  PROVE  /\ IsFiniteSet(S) /\ Cardinality(S) \in Nat
         /\ \A c \in Calls \ S : Cardinality(S \cup {c}) = Cardinality(S) + 1
         /\ \A c \in S : Cardinality(S \ {c}) = Cardinality(S) - 1
BY ClientAssumption, FS_Subset, FS_CardinalityType, FS_AddElement, FS_RemoveElement

\* How many calls of a profile are in some phases, before and after a move.
LEMMA CountMove ==
  ASSUME NEW c \in Calls, \A d \in Calls \ {c} : phase'[d] = phase[d],
         NEW p \in Profiles, NEW S
  PROVE  /\ Cardinality(InPhase(p, S)) \in Nat
         /\ Cardinality(InPhase(p, S)') =
              IF p # ProfileOf[c] \/ (phase[c] \in S <=> phase'[c] \in S)
              THEN Cardinality(InPhase(p, S))
              ELSE IF phase'[c] \in S THEN Cardinality(InPhase(p, S)) + 1
              ELSE Cardinality(InPhase(p, S)) - 1
<1>0. InPhase(p, S) \in SUBSET Calls
  BY DEF InPhase
<1>1. CASE p # ProfileOf[c] \/ (phase[c] \in S <=> phase'[c] \in S)
  <2>1. InPhase(p, S)' = InPhase(p, S)
    BY <1>1 DEF InPhase
  <2>2. QED
    BY <1>0, <1>1, <2>1, CallsCounted
<1>2. CASE p = ProfileOf[c] /\ phase'[c] \in S /\ phase[c] \notin S
  <2>1. InPhase(p, S)' = InPhase(p, S) \cup {c} /\ c \notin InPhase(p, S)
    BY <1>2 DEF InPhase
  <2>2. QED
    BY <1>0, <1>2, <2>1, CallsCounted
<1>3. CASE p = ProfileOf[c] /\ phase'[c] \notin S /\ phase[c] \in S
  <2>1. InPhase(p, S)' = InPhase(p, S) \ {c} /\ c \in InPhase(p, S)
    BY <1>3 DEF InPhase
  <2>2. QED
    BY <1>0, <1>3, <2>1, CallsCounted
<1>4. QED
  BY <1>1, <1>2, <1>3

\* A move takes and returns the permits of the profile with the phases that hold
\* one.
LEMMA ResourceMove ==
  ASSUME Shape, PermitInv, NEW c \in Calls, NEW x \in Phases, Move(c, x),
         NEW p \in Profiles
  PROVE  resourceFree'[p] + Cardinality(InPhase(p, Holding)') = Capacity[p]
<1>1. /\ phase' = [phase EXCEPT ![c] = x] /\ ProfileOf[c] \in Profiles
      /\ resourceFree' = [resourceFree EXCEPT ![ProfileOf[c]] = @ + Holds(phase[c]) - Holds(x)]
  BY Places DEF Move
<1>2. /\ resourceFree[p] + Cardinality(InPhase(p, Holding)) = Capacity[p]
      /\ resourceFree[p] \in Nat /\ Capacity[p] \in Nat
  BY ClientAssumption DEF PermitInv, Shape
<1>3. resourceFree'[p] = IF p = ProfileOf[c] THEN resourceFree[p] + Holds(phase[c]) - Holds(x)
                         ELSE resourceFree[p]
  BY <1>1 DEF Shape
<1>4. /\ Cardinality(InPhase(p, Holding)) \in Nat
      /\ Cardinality(InPhase(p, Holding)') =
           IF p # ProfileOf[c] \/ (phase[c] \in Holding <=> x \in Holding)
           THEN Cardinality(InPhase(p, Holding))
           ELSE IF x \in Holding THEN Cardinality(InPhase(p, Holding)) + 1
           ELSE Cardinality(InPhase(p, Holding)) - 1
  <2>1. phase'[c] = x /\ \A d \in Calls \ {c} : phase'[d] = phase[d]
    BY <1>1 DEF Shape
  <2>2. QED
    BY <2>1, CountMove
<1>5. /\ Holds(phase[c]) = IF phase[c] \in Holding THEN 1 ELSE 0
      /\ Holds(x) = IF x \in Holding THEN 1 ELSE 0
  BY DEF Holds
<1>6. QED
  BY <1>2, <1>3, <1>4, <1>5

\* A move counts the attempts of the key it takes or returns.
LEMMA KeyMove ==
  ASSUME Shape, PermitInv, NEW c \in Calls, NEW x \in Phases, Move(c, x), NEW k \in Keys
  PROVE  inFlight'[k] = Cardinality(OnKey(k)')
<1>0. /\ OnKey(k) \in SUBSET Calls /\ inFlight[k] = Cardinality(OnKey(k))
      /\ phase' = [phase EXCEPT ![c] = x]
  BY DEF OnKey, PermitInv, Move
<1>1. CASE phase[c] = "posting"
  <2>1. /\ inFlight' = [inFlight EXCEPT ![key[c]] = @ - 1]
        /\ key' = [key EXCEPT ![c] = NoKey] /\ x # "posting"
    BY <1>1 DEF Move, ReturnAttempt
  <2>2. CASE k = key[c]
    <3>1. OnKey(k)' = OnKey(k) \ {c} /\ c \in OnKey(k)
      BY <1>0, <1>1, <2>1, <2>2 DEF OnKey, Shape
    <3>2. inFlight'[k] = inFlight[k] - 1
      BY <2>1, <2>2 DEF Shape
    <3>3. QED
      BY <1>0, <3>1, <3>2, CallsCounted
  <2>3. CASE k # key[c]
    <3>1. OnKey(k)' = OnKey(k)
      BY <1>0, <1>1, <2>1, <2>3 DEF OnKey, Shape
    <3>2. inFlight'[k] = inFlight[k]
      BY <2>1, <2>3 DEF Shape
    <3>3. QED
      BY <1>0, <3>1, <3>2
  <2>4. QED
    BY <2>2, <2>3
<1>2. CASE phase[c] # "posting" /\ x = "posting"
  <2>1. PICK j \in LiveFor(c) : TakeAttempt(c, j)
    BY <1>2 DEF Move
  <2>2. j \in Keys
    BY Places
  <2>3. CASE k = j
    <3>1. OnKey(k)' = OnKey(k) \cup {c} /\ c \in Calls \ OnKey(k)
      BY <1>0, <1>2, <2>1, <2>2, <2>3 DEF OnKey, Shape, TakeAttempt
    <3>2. inFlight'[k] = inFlight[k] + 1
      BY <2>1, <2>3 DEF Shape, TakeAttempt
    <3>3. QED
      BY <1>0, <3>1, <3>2, CallsCounted
  <2>4. CASE k # j
    <3>1. OnKey(k)' = OnKey(k)
      BY <1>0, <1>2, <2>1, <2>2, <2>4 DEF OnKey, Shape, TakeAttempt
    <3>2. inFlight'[k] = inFlight[k]
      BY <2>1, <2>4 DEF Shape, TakeAttempt
    <3>3. QED
      BY <1>0, <3>1, <3>2
  <2>5. QED
    BY <2>3, <2>4
<1>3. CASE phase[c] # "posting" /\ x # "posting"
  <2>1. OnKey(k)' = OnKey(k) /\ inFlight' = inFlight
    BY <1>0, <1>3 DEF OnKey, Shape, Move
  <2>2. QED
    BY <1>0, <2>1
<1>4. QED
  BY <1>1, <1>2, <1>3

\* A move takes an attempt off the capacity of its own origin, and no other.
LEMMA OriginMove ==
  ASSUME Shape, PermitInv, NEW c \in Calls, NEW x \in Phases, Move(c, x), NEW o \in Origins
  PROVE  originFree'[o] = SumOf(Unposted', Sharing(o))
<1> DEFINE P == ProfileOf[c]
<1>0. /\ IsFiniteSet(Sharing(o)) /\ Sharing(o) \subseteq Profiles
      /\ originFree[o] = SumOf(Unposted, Sharing(o)) /\ originFree[o] \in Int
      /\ phase' = [phase EXCEPT ![c] = x] /\ P \in Profiles
      /\ OriginFor(c) = OriginOf[P] /\ OriginFor(c) \in Origins
      /\ P \in Sharing(o) <=> OriginFor(c) = o
  BY ClientAssumption, Places, FS_Subset DEF Sharing, PermitInv, Shape, Move, OriginFor
<1>1. /\ \A p \in Profiles : Unposted[p] \in Int /\ Unposted'[p] \in Int
      /\ \A p \in Profiles : Unposted'[p] =
           IF p # P \/ (phase[c] = "posting" <=> x = "posting") THEN Unposted[p]
           ELSE IF x = "posting" THEN Unposted[p] - 1 ELSE Unposted[p] + 1
  <2>1. ASSUME NEW p \in Profiles
        PROVE  /\ Unposted[p] \in Int /\ Unposted'[p] \in Int
               /\ Unposted'[p] =
                    IF p # P \/ (phase[c] = "posting" <=> x = "posting") THEN Unposted[p]
                    ELSE IF x = "posting" THEN Unposted[p] - 1 ELSE Unposted[p] + 1
    <3> DEFINE n == Cardinality(InPhase(p, {"posting"}))
    <3>1. /\ n \in Nat
          /\ n' = IF p # P \/ (phase[c] = "posting" <=> x = "posting") THEN n
                  ELSE IF x = "posting" THEN n + 1 ELSE n - 1
      <4>1. phase'[c] = x /\ \A d \in Calls \ {c} : phase'[d] = phase[d]
        BY <1>0 DEF Shape
      <4>2. QED
        BY <4>1, CountMove
    <3>2. Unposted[p] = Capacity[p] - n /\ Unposted'[p] = Capacity[p] - n'
      BY DEF Unposted
    <3>3. Capacity[p] \in Int
      BY ClientAssumption
    <3> HIDE DEF n, P
    <3>4. QED
      BY <3>1, <3>2, <3>3
  <2>2. QED
    BY <2>1
<1>2. originFree'[o] = IF OriginFor(c) # o \/ (phase[c] = "posting" <=> x = "posting")
                       THEN originFree[o]
                       ELSE IF x = "posting" THEN originFree[o] - 1 ELSE originFree[o] + 1
  <2>1. CASE phase[c] = "posting"
    BY <1>0, <2>1 DEF Move, ReturnAttempt, Shape
  <2>2. CASE phase[c] # "posting" /\ x = "posting"
    BY <1>0, <2>2 DEF Move, TakeAttempt, Shape
  <2>3. CASE phase[c] # "posting" /\ x # "posting"
    BY <2>3 DEF Move
  <2>4. QED
    BY <2>1, <2>2, <2>3
<1> HIDE DEF P
<1>3. CASE OriginFor(c) # o \/ (phase[c] = "posting" <=> x = "posting")
  <2>1. \A p \in Sharing(o) : Unposted'[p] = Unposted[p]
    BY <1>0, <1>1, <1>3
  <2>2. SumOf(Unposted', Sharing(o)) = SumOf(Unposted, Sharing(o))
    BY <1>0, <2>1, SumAgree
  <2>3. QED
    BY <1>0, <1>2, <1>3, <2>2
<1>4. CASE OriginFor(c) = o /\ ~ (phase[c] = "posting" <=> x = "posting")
  <2>1. P \in Sharing(o)
    BY <1>0, <1>4
  <2>2. \A p \in Sharing(o) \ {P} : Unposted[p] = Unposted'[p]
    BY <1>0, <1>1
  <2>3. SumOf(Unposted', Sharing(o)) = SumOf(Unposted, Sharing(o)) - Unposted[P] + Unposted'[P]
    BY <1>0, <1>1, <2>1, <2>2, SumUpdate
  <2>4. Unposted[P] \in Int
        /\ Unposted'[P] = IF x = "posting" THEN Unposted[P] - 1 ELSE Unposted[P] + 1
    BY <1>0, <1>1, <1>4
  <2>5. QED
    BY <1>0, <1>2, <1>4, <2>3, <2>4
<1>5. QED
  BY <1>3, <1>4

\* At the start every permit is free.
LEMMA PermitInit == Init => PermitInv
<1> SUFFICES ASSUME Init PROVE PermitInv
  OBVIOUS
<1>1. \A p \in Profiles : InPhase(p, Holding) = {} /\ InPhase(p, {"posting"}) = {}
  BY DEF Init, InPhase, Holding
<1>2. (\A k \in Keys : OnKey(k) = {}) /\ Cardinality({}) = 0
      /\ \A p \in Profiles : Capacity[p] \in Nat
  BY ClientAssumption, FS_EmptySet DEF Init, OnKey
<1>3. ASSUME NEW o \in Origins PROVE originFree[o] = SumOf(Unposted, Sharing(o))
  <2>1. originFree[o] = SumOf(Capacity, Sharing(o))
    BY DEF Init, OriginCapacity, SumOf, Sharing
  <2>2. \A p \in Sharing(o) : Capacity[p] = Unposted[p]
    <3>1. ASSUME NEW p \in Profiles PROVE Capacity[p] = Unposted[p]
      <4>1. Unposted[p] = Capacity[p] - Cardinality(InPhase(p, {"posting"}))
        BY DEF Unposted
      <4>2. Cardinality(InPhase(p, {"posting"})) = 0
        BY <1>1, <1>2
      <4>3. QED
        BY <1>2, <4>1, <4>2
    <3>2. QED
      BY <3>1 DEF Sharing
  <2>3. IsFiniteSet(Sharing(o))
    BY ClientAssumption, FS_Subset DEF Sharing
  <2>4. QED
    BY <2>1, <2>2, <2>3, SumAgree
<1>4. \A p \in Profiles : resourceFree[p] + Cardinality(InPhase(p, Holding)) = Capacity[p]
  BY <1>1, <1>2 DEF Init
<1>5. \A k \in Keys : inFlight[k] = Cardinality(OnKey(k))
  BY <1>2 DEF Init
<1>6. QED
  BY <1>3, <1>4, <1>5 DEF PermitInv

\* Every step keeps permits and counts what the calls own.
LEMMA PermitStep == Shape /\ PermitInv /\ [Next]_vars => PermitInv'
<1> SUFFICES ASSUME Shape, PermitInv, [Next]_vars PROVE PermitInv'
  OBVIOUS
<1>1. CASE \E c \in Calls : CallStep(c)
  <2>1. PICK c \in Calls, x \in Phases : Move(c, x)
    BY <1>1, StepMoves
  <2>2. \A p \in Profiles : resourceFree'[p] + Cardinality(InPhase(p, Holding)') = Capacity[p]
    BY <2>1, ResourceMove
  <2>3. \A k \in Keys : inFlight'[k] = Cardinality(OnKey(k)')
    BY <2>1, KeyMove
  <2>4. \A o \in Origins : originFree'[o] = SumOf(Unposted', Sharing(o))
    BY <2>1, OriginMove
  <2>5. QED
    BY <2>2, <2>3, <2>4 DEF PermitInv, Sharing, InPhase, OnKey, Unposted
<1>2. CASE Tick \/ UNCHANGED vars
  <2>1. UNCHANGED <<phase, key, resourceFree, originFree, inFlight>>
    BY <1>2 DEF Tick, vars, callVars, permitVars, poolVars
  <2>2. QED
    BY <2>1 DEF PermitInv, Sharing, InPhase, OnKey, Unposted
<1>3. QED
  BY <1>1, <1>2 DEF Next, CallStep

\* However each call leaves - answered, rotated, exhausted, tripped, broken off or
\* cancelled at any await - permits and counts are what the calls own, and no
\* attempt ever waits for its origin, whose permits are those of the profiles that
\* share it.
THEOREM PermitsExactCorrect == Spec => []PermitsExact
<1>1. Shape /\ PermitInv => PermitsExact
  <2> SUFFICES ASSUME Shape, PermitInv PROVE PermitsExact
    OBVIOUS
  <2>1. \A k \in Keys :
          inFlight[k] = Cardinality({c \in Calls : phase[c] = "posting" /\ key[c] = k})
    BY DEF PermitInv, OnKey
  <2>2. ASSUME NEW o \in Origins PROVE originFree[o] >= 0
    <3>1. IsFiniteSet(Sharing(o)) /\ Sharing(o) \subseteq Profiles
      BY ClientAssumption, FS_Subset DEF Sharing
    <3>2. ASSUME NEW p \in Profiles PROVE Unposted[p] \in Nat
      <4> DEFINE held == InPhase(p, Holding)
                 posted == InPhase(p, {"posting"})
      <4>1. held \in SUBSET Calls /\ posted \in SUBSET held
        BY DEF InPhase, Holding
      <4>2. IsFiniteSet(held) /\ Cardinality(held) \in Nat /\ Cardinality(posted) \in Nat
        BY <4>1, CallsCounted
      <4>3. Cardinality(posted) <= Cardinality(held)
        BY <4>1, <4>2, FS_Subset
      <4>4. /\ resourceFree[p] + Cardinality(held) = Capacity[p]
            /\ resourceFree[p] \in Nat /\ Unposted[p] = Capacity[p] - Cardinality(posted)
        BY DEF PermitInv, Shape, Unposted
      <4> HIDE DEF held, posted
      <4>5. QED
        BY <4>2, <4>3, <4>4
    <3>3. originFree[o] \in Nat
      BY <3>1, <3>2, SumNatural DEF PermitInv
    <3>4. QED
      BY <3>3
  <2>3. QED
    BY <2>1, <2>2 DEF PermitsExact, PermitInv, Shape
<1>2. QED
  BY <1>1, ShapeCorrect, PermitInit, PermitStep, PTL DEF Spec

\* Every variable keeps its type.
THEOREM ClientTypeCorrect == Spec => []TypeOK
<1>1. Shape /\ PermitsExact => TypeOK
  <2> SUFFICES ASSUME Shape, PermitsExact PROVE TypeOK
    OBVIOUS
  <2>1. ASSUME NEW k \in Keys PROVE inFlight[k] \in Nat
    <3>1. {c \in Calls : phase[c] = "posting" /\ key[c] = k} \in SUBSET Calls
      OBVIOUS
    <3>2. QED
      BY <3>1, CallsCounted DEF PermitsExact
  <2>2. inFlight \in [Keys -> Nat]
    BY <2>1 DEF Shape
  <2>3. QED
    BY <2>2 DEF Shape, TypeOK, Phases
<1>2. QED
  BY <1>1, ShapeCorrect, PermitsExactCorrect, PTL

--------------------------------------------------------------------------------
(* The circuit breaker *)

\* The phases of a call that has fed the breaker a fatal result.
Fed == {"fatal", "exhausted", "reported"}

\* The streak counts the calls that failed since the last success, each of which
\* has fed it once; a pool without a live key has opened the breaker.
BreakerInv ==
  /\ \A p \in Profiles : Live(p) = {} => broken
  /\ streak = Cardinality(failedSince)
  /\ \A c \in failedSince : phase[c] \in Fed

\* What a step of a call does to the breaker: nothing, the feed of a success, the
\* feed of a call that had not fed it yet, or the failure of a key.
Quiet == UNCHANGED <<streak, broken, failedSince, disabled>>
FedBy(c) == FeedFatal(c, FALSE) /\ phase'[c] \in Fed /\ UNCHANGED disabled
\* A call feeds the breaker once at most, or takes a key out.
LEMMA StepFeeds ==
  ASSUME Shape, NEW c \in Calls, CallStep(c)
  PROVE  /\ phase[c] \notin Fed
         /\ Quiet \/ (FeedSuccess /\ UNCHANGED disabled) \/ FedBy(c) \/ AuthFails(c)
<1> USE DEF breakerVars, poolVars, Fed
<1>0. /\ phase[c] = "ready" <=> turn = c
      /\ \A x : phase' = [phase EXCEPT ![c] = x] => phase'[c] = x
  BY DEF Shape
<1>1. CASE Start(c) \/ AcquireResource(c) \/ Unpark(c) \/ BackoffEnds(c) \/ Cancel(c)
  BY <1>1 DEF Start, AcquireResource, Unpark, BackoffEnds, Cancel, Quiet
<1>2. CASE GuardBreaker(c) \/ BodyFails(c) \/ Park(c) \/ \E k \in Keys : Dispatch(c, k)
  BY <1>0, <1>2 DEF GuardBreaker, BodyFails, Park, Dispatch, AtLoopTop, Quiet
<1>3. CASE SelectFails(c)
  BY <1>0, <1>3 DEF SelectFails, SettleFatal, Leave, FedBy, AtLoopTop
<1>4. CASE Answer(c)
  <2>1. phase[c] = "posting"
    BY <1>4 DEF Answer, Succeed, FailFatally, Overflow, Transient, AuthFails, RateLimited,
                Answered
  <2>2. CASE Succeed(c) \/ FailFatally(c) \/ Overflow(c)
    BY <1>0, <2>1, <2>2 DEF Succeed, FailFatally, Overflow, SettleFatal, Leave, Quiet, FedBy
  <2>3. CASE Transient(c)
    BY <1>0, <2>1, <2>3 DEF Transient, SettleFatal, Leave, Quiet, FedBy
  <2>4. ASSUME NEW d \in 0..MaxCooldown, NEW retryAfter \in Announces,
               RateLimited(c, d, retryAfter)
        PROVE  Quiet \/ FedBy(c)
    BY <1>0, <2>1, <2>4 DEF RateLimited, SettleFatal, Leave, Quiet, FedBy
  <2>5. QED
    BY <1>4, <2>1, <2>2, <2>3, <2>4 DEF Answer
<1>5. CASE OwnerFeeds(c)
  BY <1>0, <1>5 DEF OwnerFeeds, FedBy
<1>6. QED
  BY <1>1, <1>2, <1>3, <1>4, <1>5 DEF CallStep, Proceed, LoopTop

\* The feed of a fatal result, as a decision of the breaker.
LEMMA FeedOpens ==
  ASSUME Shape, NEW c \in Calls, NEW hard \in BOOLEAN, FeedFatal(c, hard)
  PROVE  broken' <=> (broken \/ hard \/ streak + 1 >= Threshold)
BY Zenon DEF FeedFatal

\* A feed of a call that had not fed the breaker counts one more call.
LEMMA FeedCounts ==
  ASSUME Shape, BreakerInv, NEW c \in Calls, phase[c] \notin Fed,
         failedSince' = failedSince \cup {c}, streak' = streak + 1
  PROVE  streak' = Cardinality(failedSince')
<1>1. c \notin failedSince /\ failedSince \in SUBSET Calls
  BY DEF BreakerInv, Shape
<1>2. QED
  BY <1>1, CallsCounted DEF BreakerInv

\* What a rejected key leaves alive.
LEMMA AuthLeaves ==
  ASSUME Shape, NEW c \in Calls, AuthFails(c)
  PROVE  /\ Live(ProfileOf[c])' = LiveFor(c) \ {key[c]}
         /\ \A p \in Profiles \ {ProfileOf[c]} : Live(p)' = Live(p)
         /\ LiveFor(c) \ {key[c]} # {} => UNCHANGED <<streak, broken, failedSince>>
         /\ LiveFor(c) \ {key[c]} = {} => FeedFatal(c, TRUE) /\ phase'[c] \in Fed
<1>1. key[c] \in PoolFor(c) /\ disabled' = disabled \cup {key[c]}
  BY DEF AuthFails, Answered, Shape
<1>2. LiveFor(c) \ {key[c]} # {} => UNCHANGED <<streak, broken, failedSince>>
  BY DEF AuthFails, breakerVars
<1>3. LiveFor(c) \ {key[c]} = {} => FeedFatal(c, TRUE) /\ phase'[c] \in Fed
  BY DEF AuthFails, SettleFatal, Leave, Shape, Fed
<1>4. \A p \in Profiles \ {ProfileOf[c]} : Live(p)' = Live(p)
  BY <1>1 DEF Live, Pool, PoolFor
<1>5. Live(ProfileOf[c])' = LiveFor(c) \ {key[c]}
  BY <1>1 DEF Live, LiveFor, Pool
<1>6. QED
  BY <1>2, <1>3, <1>4, <1>5

\* Every step of a call keeps the invariant, and opens the breaker for cause.
LEMMA BreakerMove ==
  ASSUME Shape, BreakerInv, NEW c \in Calls, CallStep(c)
  PROVE  /\ BreakerInv'
         /\ ~broken /\ broken' =>
              Cardinality(failedSince') >= Threshold \/ \E p \in Profiles : Live(p)' = {}
<1>0. /\ phase[c] \notin Fed /\ (\A d \in Calls \ {c} : phase'[d] = phase[d])
      /\ failedSince \in SUBSET Calls /\ ProfileOf[c] \in Profiles
      /\ \A d \in failedSince : phase[d] \in Fed
      /\ \A d \in failedSince : phase'[d] \in Fed
  <2>1. phase[c] \notin Fed /\ \A d \in Calls \ {c} : phase'[d] = phase[d]
    BY StepFeeds, StepMoves DEF Move, Shape
  <2>2. QED
    BY <2>1, Places DEF BreakerInv, Shape
<1>1. UNCHANGED disabled => \A p \in Profiles : Live(p)' = Live(p)
  BY DEF Live, Pool
<1>2. CASE Quiet
  BY <1>0, <1>1, <1>2 DEF Quiet, BreakerInv
<1>3. CASE FeedSuccess /\ UNCHANGED disabled
  BY <1>1, <1>3, FS_EmptySet DEF FeedSuccess, BreakerInv
<1>4. CASE FedBy(c)
  <2>1. /\ failedSince' = failedSince \cup {c} /\ streak' = streak + 1
        /\ broken' <=> (broken \/ streak + 1 >= Threshold)
    BY <1>4, FeedOpens DEF FedBy, FeedFatal
  <2>2. streak' = Cardinality(failedSince')
    BY <1>0, <2>1, FeedCounts
  <2>3. \A d \in failedSince' : phase'[d] \in Fed
    BY <1>0, <1>4, <2>1 DEF FedBy
  <2>4. \A p \in Profiles : Live(p)' = {} => broken'
    BY <1>1, <1>4, <2>1 DEF FedBy, BreakerInv
  <2>5. ~broken /\ broken' => Cardinality(failedSince') >= Threshold
    BY <2>1, <2>2
  <2>6. QED
    BY <2>2, <2>3, <2>4, <2>5 DEF BreakerInv
<1>5. CASE AuthFails(c)
  <2>1. CASE LiveFor(c) \ {key[c]} # {}
    <3>1. UNCHANGED <<streak, broken, failedSince>>
      BY <1>5, <2>1, AuthLeaves
    <3>2. \A p \in Profiles : Live(p)' = {} => broken'
      BY <1>5, <2>1, <3>1, AuthLeaves DEF BreakerInv
    <3>3. QED
      BY <1>0, <3>1, <3>2 DEF BreakerInv
  <2>2. CASE LiveFor(c) \ {key[c]} = {}
    <3>1. FeedFatal(c, TRUE) /\ phase'[c] \in Fed /\ Live(ProfileOf[c])' = {}
      BY <1>5, <2>2, AuthLeaves
    <3>2. failedSince' = failedSince \cup {c} /\ streak' = streak + 1 /\ broken'
      BY <3>1, FeedOpens DEF FeedFatal
    <3>3. streak' = Cardinality(failedSince')
      BY <1>0, <3>2, FeedCounts
    <3>4. \A d \in failedSince' : phase'[d] \in Fed
      BY <1>0, <3>1, <3>2
    <3>5. QED
      BY <1>0, <3>1, <3>2, <3>3, <3>4 DEF BreakerInv
  <2>3. QED
    BY <2>1, <2>2
<1>6. QED
  BY <1>2, <1>3, <1>4, <1>5, StepFeeds

\* At the start no call has failed and every pool has its keys.
LEMMA BreakerInit == Init => BreakerInv
<1> SUFFICES ASSUME Init PROVE BreakerInv
  OBVIOUS
<1>1. \A p \in Profiles : Live(p) # {}
  BY ClientAssumption DEF Init, Live, Pool
<1>2. Cardinality({}) = 0
  BY FS_EmptySet
<1>3. QED
  BY <1>1, <1>2 DEF Init, BreakerInv

\* What a step may do to the breaker.
OpensForCause ==
  ~broken /\ broken' =>
    Cardinality(failedSince') >= Threshold \/ \E p \in Profiles : Live(p)' = {}

\* Every step keeps the invariant of the breaker, which opens for a cause only.
LEMMA BreakerStep == Shape /\ BreakerInv /\ [Next]_vars => BreakerInv' /\ OpensForCause
<1> SUFFICES ASSUME Shape, BreakerInv, [Next]_vars PROVE BreakerInv' /\ OpensForCause
  OBVIOUS
<1>1. CASE \E c \in Calls : CallStep(c)
  BY <1>1, BreakerMove DEF OpensForCause
<1>2. CASE Tick \/ UNCHANGED vars
  BY <1>2 DEF Tick, vars, callVars, poolVars, breakerVars, BreakerInv, OpensForCause, Live, Pool
<1>3. QED
  BY <1>1, <1>2 DEF Next, CallStep

\* The breaker opens only after Threshold different calls have failed since the last
\* success, or because a pool lost its last key; and in the second case it always
\* does.
THEOREM BreakerOpensForCauseCorrect == Spec => BreakerOpensForCause
<1>1. Spec => []BreakerInv
  BY ShapeCorrect, BreakerInit, BreakerStep, PTL DEF Spec
<1>2. BreakerInv => \A p \in Profiles : Live(p) = {} => broken
  BY DEF BreakerInv
<1>3. Shape /\ BreakerInv /\ [Next]_vars => [OpensForCause]_vars
  BY BreakerStep
<1>4. Spec => [](\A p \in Profiles : Live(p) = {} => broken)
  BY <1>1, <1>2, PTL
<1>5. Spec => [][OpensForCause]_vars
  BY <1>1, <1>3, ShapeCorrect, PTL DEF Spec
<1>6. QED
  BY <1>4, <1>5 DEF BreakerOpensForCause, OpensForCause

--------------------------------------------------------------------------------
(* The accounting of a call *)

\* A call that has not started has retried nothing, and the usage of a profile has
\* the retries of its settled calls.
UsageInv ==
  /\ \A c \in Calls : phase[c] \in {"idle", "waiting"} => retries[c] = 0
  /\ \A p \in Profiles : usageRetries[p] = SumOf(retries, InPhase(p, Settled))

\* Every way out accounts the retries of the call, or is unsettled and does not.
LEMMA LeaveAccounts ==
  ASSUME Shape, NEW c \in Calls, NEW x \in Ended, Leave(c, x), UNCHANGED retries
  PROVE  /\ phase'[c] = x
         /\ x \notin Settled => UNCHANGED usageRetries
         /\ x \in Settled =>
              \A p \in Profiles : usageRetries'[p] =
                IF p = ProfileOf[c] THEN usageRetries[p] + retries[c] ELSE usageRetries[p]
<1>1. phase'[c] = x
  BY DEF Leave, Shape
<1>2. x \notin Settled => UNCHANGED usageRetries
  BY DEF Leave, Ended
<1>3. x \in Settled => \A p \in Profiles : usageRetries'[p] =
        IF p = ProfileOf[c] THEN usageRetries[p] + retries[c] ELSE usageRetries[p]
  BY DEF Leave, Shape, Settled, Unsettled
<1>4. QED
  BY <1>1, <1>2, <1>3

\* What a step of a call does to its retries and to the usage: a retry, on the way
\* to another attempt; or nothing to the retries, and the usage takes them when
\* the call settles.
Retries(c) ==
  /\ phase[c] = "posting" /\ phase'[c] \notin {"idle", "waiting"} \cup Settled
  /\ retries' = [retries EXCEPT ![c] = @ + 1] /\ UNCHANGED usageRetries
Accounts(c) ==
  /\ UNCHANGED retries
  /\ phase'[c] \in {"idle", "waiting"} => phase[c] = "idle"
  /\ phase[c] \in Settled => phase'[c] \in Settled /\ UNCHANGED usageRetries
  /\ phase[c] \notin Settled =>
       IF phase'[c] \in Settled /\ phase[c] # "idle"
       THEN \A p \in Profiles : usageRetries'[p] =
              IF p = ProfileOf[c] THEN usageRetries[p] + retries[c] ELSE usageRetries[p]
       ELSE UNCHANGED usageRetries

\* A call counts a retry, or hands its retries to its profile when it settles.
LEMMA StepAccounts ==
  ASSUME Shape, NEW c \in Calls, CallStep(c)
  PROVE  Retries(c) \/ Accounts(c)
<1> USE DEF poolVars, permitVars, breakerVars, historyVars
<1>0. /\ phase[c] = "ready" <=> turn = c
      /\ \A x : phase' = [phase EXCEPT ![c] = x] => phase'[c] = x
  BY DEF Shape
<1>1. ASSUME NEW x \in Ended, Leave(c, x), UNCHANGED retries, phase[c] \in Holding
      PROVE  Accounts(c)
  BY <1>1, LeaveAccounts DEF Accounts, Ended, Settled, Unsettled, Holding
<1>2. CASE Start(c) \/ AcquireResource(c) \/ Unpark(c) \/ BackoffEnds(c) \/ OwnerFeeds(c)
  BY <1>0, <1>2 DEF Start, AcquireResource, Unpark, BackoffEnds, OwnerFeeds, Accounts, Settled
<1>3. CASE GuardBreaker(c) \/ BodyFails(c) \/ SelectFails(c)
  <2>1. UNCHANGED retries /\ phase[c] \in Holding /\ \E x \in Ended : Leave(c, x)
    BY <1>0, <1>3 DEF GuardBreaker, BodyFails, SelectFails, SettleFatal, AtLoopTop, Holding,
                      Ended, Settled, Unsettled
  <2>2. QED
    BY <1>1, <2>1
<1>4. CASE Park(c) \/ \E k \in Keys : Dispatch(c, k)
  BY <1>0, <1>4 DEF Park, Dispatch, AtLoopTop, Accounts, Settled
<1>5. CASE Answer(c)
  <2>0. phase[c] = "posting" /\ phase[c] \in Holding
    BY <1>5 DEF Answer, Succeed, FailFatally, Overflow, Transient, AuthFails, RateLimited,
                Answered, Holding
  <2>1. \/ UNCHANGED retries /\ \E x \in Ended : Leave(c, x)
        \/ /\ UNCHANGED usageRetries
           /\ \E x \in {"backoff", "ready"} : phase' = [phase EXCEPT ![c] = x]
           /\ UNCHANGED retries \/ retries' = [retries EXCEPT ![c] = @ + 1]
    BY <1>5 DEF Answer, Succeed, FailFatally, Overflow, Transient, AuthFails, RateLimited,
                SettleFatal, Ended, Settled, Unsettled
  <2>2. QED
    BY <1>0, <1>1, <2>0, <2>1 DEF Retries, Accounts, Settled
<1>6. CASE Cancel(c)
  <2>1. CASE phase[c] = "waiting"
    BY <1>0, <1>6, <2>1 DEF Cancel, Accounts, Settled
  <2>2. CASE phase[c] # "waiting"
    BY <1>1, <1>6, <2>2 DEF Cancel, Holding, Ended, Unsettled
  <2>3. QED
    BY <2>1, <2>2
<1>7. QED
  BY <1>2, <1>3, <1>4, <1>5, <1>6 DEF CallStep, Proceed, LoopTop

\* Every step of a call keeps the usage.
LEMMA UsageMove ==
  ASSUME Shape, UsageInv, NEW c \in Calls, CallStep(c)
  PROVE  UsageInv'
<1>0. /\ \A d \in Calls \ {c} : phase'[d] = phase[d]
      /\ ProfileOf[c] \in Profiles
      /\ \A d \in Calls : retries[d] \in Int
  BY StepMoves, Places, ClientAssumption DEF Move, Shape
<1>1. \A d \in Calls \ {c} : retries'[d] = retries[d]
  BY StepAccounts DEF Retries, Accounts, Shape
<1>2. \A d \in Calls : phase'[d] \in {"idle", "waiting"} => retries'[d] = 0
  BY <1>0, <1>1, StepAccounts DEF Retries, Accounts, UsageInv
<1>3. ASSUME NEW p \in Profiles
      PROVE  usageRetries'[p] = SumOf(retries', InPhase(p, Settled)')
  <2> DEFINE S == InPhase(p, Settled)
  <2>0. S \in SUBSET Calls /\ IsFiniteSet(S) /\ usageRetries[p] = SumOf(retries, S)
        /\ usageRetries[p] \in Int /\ \A d \in S : retries[d] \in Int
    BY <1>0, CallsCounted DEF InPhase, UsageInv, Shape
  <2>1. CASE S' = S /\ usageRetries'[p] = usageRetries[p] /\ \A d \in S : retries'[d] = retries[d]
    <3>1. SumOf(retries', S) = SumOf(retries, S)
      BY <2>0, <2>1, SumAgree
    <3>2. QED
      BY <2>0, <2>1, <3>1
  <2>2. CASE /\ S' = S \cup {c} /\ c \notin S /\ UNCHANGED retries
             /\ usageRetries'[p] = usageRetries[p] + retries[c]
    <3>1. SumOf(retries, S \cup {c}) = retries[c] + SumOf(retries, S)
      BY <1>0, <2>0, <2>2, SumAdd
    <3>2. SumOf(retries, S) \in Int /\ retries[c] \in Int
      BY <1>0, <2>0
    <3>3. usageRetries'[p] = SumOf(retries, S \cup {c})
      BY <2>0, <2>2, <3>1, <3>2
    <3>4. QED
      BY <2>2, <3>3
  <2>3. CASE Retries(c)
    <3>1. S' = S /\ c \notin S /\ usageRetries'[p] = usageRetries[p]
      BY <1>0, <2>3 DEF InPhase, Retries, Settled
    <3>2. QED
      BY <1>1, <2>0, <2>1, <3>1
  <2>4. CASE Accounts(c) /\ (p # ProfileOf[c] \/ (phase[c] \in Settled <=> phase'[c] \in Settled))
    <3>1. S' = S
      BY <1>0, <2>4 DEF InPhase
    <3>2. usageRetries'[p] = usageRetries[p] /\ UNCHANGED retries
      BY <2>4 DEF Accounts
    <3>3. QED
      BY <2>1, <3>1, <3>2
  <2>5. CASE Accounts(c) /\ p = ProfileOf[c] /\ phase[c] \notin Settled /\ phase'[c] \in Settled
    <3>1. S' = S \cup {c} /\ c \notin S
      BY <1>0, <2>5 DEF InPhase
    <3>2. UNCHANGED retries /\ usageRetries'[p] = usageRetries[p] + retries[c]
      <4>1. CASE phase[c] = "idle"
        <5>1. retries[c] = 0 /\ UNCHANGED <<retries, usageRetries>>
          BY <2>5, <4>1 DEF Accounts, UsageInv
        <5>2. QED
          BY <2>0, <5>1
      <4>2. CASE phase[c] # "idle"
        BY <2>5, <4>2 DEF Accounts
      <4>3. QED
        BY <4>1, <4>2
    <3>3. QED
      BY <2>2, <3>1, <3>2
  <2>6. QED
    BY <2>3, <2>4, <2>5, StepAccounts DEF Accounts
<1>4. QED
  BY <1>2, <1>3 DEF UsageInv

\* The keys of its pool that may have rejected an attempt of c already: the one in
\* flight has not.
Rejected(c) ==
  (disabled \cap PoolFor(c)) \ (IF phase[c] = "posting" THEN {key[c]} ELSE {})
Flying(c) == IF phase[c] = "posting" THEN 1 ELSE 0

\* What a call has put on the wire was a retry, met a key that rejected it, or is in
\* flight; what it has parked and what is left of its park fit in the budget.
WireInv ==
  /\ \A c \in Calls : posts[c] <= MaxRetries + Cardinality(PoolFor(c))
  /\ \A c \in Calls : phase[c] \notin Ended =>
       posts[c] <= retries[c] + Cardinality(Rejected(c)) + Flying(c)
ParkInv == \A c \in Calls : parkSpent[c] + remaining[c] <= ParkBudget

\* Sets of keys can be counted.
LEMMA KeysCounted ==
  ASSUME NEW S \in SUBSET Keys
  PROVE  /\ IsFiniteSet(S) /\ Cardinality(S) \in Nat
         /\ \A k \in Keys \ S : Cardinality(S \cup {k}) = Cardinality(S) + 1
         /\ \A T \in SUBSET S : Cardinality(T) <= Cardinality(S)
<1>1. IsFiniteSet(S)
  BY ClientAssumption, FS_Subset
<1>2. QED
  BY <1>1, FS_Subset, FS_CardinalityType, FS_AddElement

\* An attempt in flight and the rejections before it are at most the keys there are.
LEMMA RejectedFits ==
  ASSUME Shape, NEW c \in Calls
  PROVE  /\ Cardinality(Rejected(c)) \in Nat /\ Cardinality(PoolFor(c)) \in Nat
         /\ Cardinality(Rejected(c)) + Flying(c) <= Cardinality(PoolFor(c))
<1> DEFINE R == Rejected(c)
           F == PoolFor(c)
<1>0. F \in SUBSET Keys /\ R \in SUBSET F
  BY Places DEF Rejected
<1>1. Cardinality(R) \in Nat /\ Cardinality(F) \in Nat /\ Cardinality(R) <= Cardinality(F)
  BY <1>0, KeysCounted
<1>2. CASE phase[c] = "posting"
  <2>1. key[c] \in F /\ key[c] \notin R /\ key[c] \in Keys /\ Flying(c) = 1
    BY <1>0, <1>2 DEF Shape, Rejected, Flying
  <2>2. Cardinality(R \cup {key[c]}) = Cardinality(R) + 1
    BY <1>0, <2>1, KeysCounted
  <2>3. Cardinality(R \cup {key[c]}) <= Cardinality(F)
    BY <1>0, <2>1, KeysCounted
  <2> HIDE DEF R, F
  <2>4. QED
    BY <1>1, <2>1, <2>2, <2>3 DEF R, F
<1>3. CASE phase[c] # "posting"
  BY <1>1, <1>3 DEF Flying
<1>4. QED
  BY <1>2, <1>3

\* What a step of a call does to what it has put on the wire: nothing while no
\* attempt is in flight before or after; an attempt on a key of its pool that no
\* call had disabled; the end of an attempt by a retry, or by the failure of its key.
Unwired(c) ==
  /\ phase[c] # "posting" /\ phase'[c] # "posting"
  /\ phase'[c] \notin Ended => phase[c] \notin Ended
  /\ UNCHANGED <<posts, retries, disabled>>
Posts(c) ==
  /\ phase[c] \notin Ended \cup {"posting"} /\ phase'[c] = "posting"
  /\ key'[c] \in PoolFor(c) \ disabled
  /\ posts' = [posts EXCEPT ![c] = @ + 1] /\ UNCHANGED <<retries, disabled>>
Retried(c) ==
  /\ phase[c] = "posting" /\ phase'[c] # "posting" /\ UNCHANGED <<posts, disabled>>
  /\ \/ phase'[c] \in Ended /\ UNCHANGED retries
     \/ retries' = [retries EXCEPT ![c] = @ + 1]
Rejects(c) ==
  /\ phase[c] = "posting" /\ phase'[c] # "posting"
  /\ disabled' = disabled \cup {key[c]} /\ UNCHANGED <<posts, retries>>

\* A call stays off the wire, posts, or hears from its post.
LEMMA StepWires ==
  ASSUME Shape, NEW c \in Calls, CallStep(c)
  PROVE  Unwired(c) \/ Posts(c) \/ Retried(c) \/ Rejects(c)
<1> USE DEF poolVars, permitVars, breakerVars, historyVars, Ended, Settled, Unsettled
<1>0. /\ phase[c] = "ready" <=> turn = c
      /\ \A x : phase' = [phase EXCEPT ![c] = x] => phase'[c] = x
  BY DEF Shape
<1>1. CASE Start(c) \/ AcquireResource(c) \/ Unpark(c) \/ BackoffEnds(c) \/ OwnerFeeds(c)
  BY <1>0, <1>1 DEF Start, AcquireResource, Unpark, BackoffEnds, OwnerFeeds, Unwired
<1>2. CASE GuardBreaker(c) \/ BodyFails(c) \/ SelectFails(c) \/ Park(c)
  BY <1>0, <1>2 DEF GuardBreaker, BodyFails, SelectFails, SettleFatal, AtLoopTop, Park, Leave,
                    Unwired
<1>3. ASSUME NEW k \in Keys, Dispatch(c, k) PROVE Posts(c)
  <2>1. key'[c] = k /\ k \in PoolFor(c) \ disabled
    BY <1>3 DEF Dispatch, Selected, Eligible, LiveFor, Live, PoolFor, Shape
  <2>2. QED
    BY <1>0, <1>3, <2>1 DEF Dispatch, AtLoopTop, Posts
<1>4. CASE Succeed(c) \/ FailFatally(c) \/ Overflow(c)
  BY <1>0, <1>4 DEF Succeed, FailFatally, Overflow, Answered, SettleFatal, Leave, Retried
<1>5. CASE Transient(c)
  BY <1>0, <1>5 DEF Transient, Answered, SettleFatal, Leave, Retried
<1>6. ASSUME NEW d \in 0..MaxCooldown, NEW retryAfter \in Announces,
             RateLimited(c, d, retryAfter)
      PROVE  Retried(c)
  BY <1>0, <1>6 DEF RateLimited, Answered, SettleFatal, Leave, Retried
<1>7. CASE AuthFails(c)
  BY <1>0, <1>7 DEF AuthFails, Answered, SettleFatal, Leave, Rejects
<1>8. CASE Cancel(c)
  BY <1>0, <1>8 DEF Cancel, Leave, Unwired, Retried
<1>9. QED
  BY <1>1, <1>2, <1>3, <1>4, <1>5, <1>6, <1>7, <1>8
     DEF CallStep, Proceed, LoopTop, Answer

\* Every step of a call keeps the bound on what the calls put on the wire.
LEMMA WireMove ==
  ASSUME Shape, WireInv, NEW c \in Calls, CallStep(c)
  PROVE  WireInv'
<1>0. /\ c \in DOMAIN phase /\ phase[c] \in Phases
      /\ \A d \in Calls \ {c} : phase'[d] = phase[d] /\ key'[d] = key[d]
  BY StepMoves DEF Move, ReturnAttempt, TakeAttempt, Shape
<1>1. /\ \A d \in Calls \ {c} : posts'[d] = posts[d] /\ retries'[d] = retries[d]
      /\ disabled \subseteq disabled'
  BY StepWires DEF Unwired, Posts, Retried, Rejects, Shape
<1>2. \A d \in Calls : /\ Cardinality(Rejected(d)) \in Nat /\ Cardinality(PoolFor(d)) \in Nat
                       /\ posts[d] \in Nat /\ retries[d] \in Nat /\ retries[d] <= MaxRetries
                       /\ PoolFor(d) \in SUBSET Keys /\ Rejected(d) \in SUBSET PoolFor(d)
  <2>1. \A d \in Calls : Cardinality(Rejected(d)) \in Nat /\ Cardinality(PoolFor(d)) \in Nat
    BY RejectedFits
  <2>2. \A d \in Calls : posts[d] \in Nat /\ retries[d] \in Nat /\ retries[d] <= MaxRetries
    BY ClientAssumption DEF Shape
  <2>3. \A d \in Calls : PoolFor(d) \in SUBSET Keys /\ Rejected(d) \in SUBSET PoolFor(d)
    BY Places DEF Rejected
  <2>4. QED
    BY <2>1, <2>2, <2>3
<1>3. ASSUME NEW d \in Calls \ {c}
      PROVE  /\ posts'[d] <= MaxRetries + Cardinality(PoolFor(d))
             /\ phase'[d] \notin Ended =>
                  posts'[d] <= retries'[d] + Cardinality(Rejected(d)') + Flying(d)'
  <2>1. Rejected(d) \in SUBSET Rejected(d)' /\ Flying(d)' = Flying(d)
    BY <1>0, <1>1 DEF Rejected, PoolFor, Pool, Flying
  <2>2. Rejected(d)' \in SUBSET Keys
    BY <1>2 DEF Rejected, PoolFor, Pool
  <2>3. /\ Cardinality(Rejected(d)) <= Cardinality(Rejected(d)')
        /\ Cardinality(Rejected(d)') \in Nat
    BY <2>1, <2>2, KeysCounted
  <2>4. Flying(d) \in Nat
    BY DEF Flying
  <2>5. /\ posts[d] <= MaxRetries + Cardinality(PoolFor(d))
        /\ phase[d] \notin Ended =>
             posts[d] <= retries[d] + Cardinality(Rejected(d)) + Flying(d)
    BY DEF WireInv
  <2>6. posts'[d] = posts[d] /\ retries'[d] = retries[d] /\ phase'[d] = phase[d]
    BY <1>0, <1>1
  <2>7. QED
    BY <1>2, <2>1, <2>3, <2>4, <2>5, <2>6
<1>4. /\ posts'[c] <= MaxRetries + Cardinality(PoolFor(c))
      /\ phase'[c] \notin Ended =>
           posts'[c] <= retries'[c] + Cardinality(Rejected(c)') + Flying(c)'
  <2>0. /\ posts[c] <= MaxRetries + Cardinality(PoolFor(c))
        /\ phase[c] \notin Ended =>
             posts[c] <= retries[c] + Cardinality(Rejected(c)) + Flying(c)
    BY DEF WireInv
  <2>1. CASE Unwired(c)
    <3>1. Rejected(c)' = Rejected(c) /\ Flying(c)' = Flying(c)
      BY <2>1 DEF Unwired, Rejected, Flying, PoolFor, Pool
    <3>2. QED
      BY <2>0, <2>1, <3>1 DEF Unwired
  <2>2. CASE Posts(c)
    <3>1. /\ Rejected(c)' = Rejected(c) /\ Flying(c)' = 1 /\ Flying(c) = 0
          /\ key'[c] \in PoolFor(c) /\ key'[c] \notin Rejected(c)
      BY <2>2 DEF Posts, Rejected, Flying, PoolFor, Pool
    <3>2. posts'[c] = posts[c] + 1 /\ retries'[c] = retries[c] /\ phase[c] \notin Ended
      BY <2>2 DEF Posts, Shape
    <3>3. Cardinality(Rejected(c) \cup {key'[c]}) = Cardinality(Rejected(c)) + 1
      BY <1>2, <3>1, KeysCounted
    <3>4. Cardinality(Rejected(c) \cup {key'[c]}) <= Cardinality(PoolFor(c))
      BY <1>2, <3>1, KeysCounted
    <3>5. QED
      BY <1>2, <2>0, <3>1, <3>2, <3>3, <3>4, ClientAssumption
  <2>3. ASSUME phase[c] = "posting", phase'[c] # "posting"
        PROVE  Flying(c) = 1 /\ Flying(c)' = 0 /\ phase[c] \notin Ended
    BY <2>3 DEF Flying, Ended, Settled, Unsettled
  <2>4. CASE Retried(c)
    <3>1. Flying(c) = 1 /\ Flying(c)' = 0 /\ phase[c] \notin Ended
      BY <2>3, <2>4 DEF Retried
    <3>2. Rejected(c) \in SUBSET Rejected(c)' /\ Rejected(c)' \in SUBSET Keys
      BY <1>2, <2>4 DEF Retried, Rejected, PoolFor, Pool
    <3>3. /\ Cardinality(Rejected(c)) <= Cardinality(Rejected(c)')
          /\ Cardinality(Rejected(c)') \in Nat
      BY <3>2, KeysCounted
    <3>4. posts'[c] = posts[c] /\ (phase'[c] \in Ended \/ retries'[c] = retries[c] + 1)
      BY <2>4 DEF Retried, Shape
    <3>5. QED
      BY <1>2, <2>0, <3>1, <3>3, <3>4
  <2>5. CASE Rejects(c)
    <3>1. Flying(c) = 1 /\ Flying(c)' = 0 /\ phase[c] \notin Ended
      BY <2>3, <2>5 DEF Rejects
    <3>2. key[c] \in PoolFor(c) /\ key[c] \notin Rejected(c)
      BY <2>5 DEF Rejects, Rejected, Shape
    <3>3. Rejected(c)' = Rejected(c) \cup {key[c]}
      BY <2>5, <3>2 DEF Rejects, Rejected, PoolFor, Pool
    <3>4. Cardinality(Rejected(c)') = Cardinality(Rejected(c)) + 1
      BY <1>2, <3>2, <3>3, KeysCounted
    <3>5. posts'[c] = posts[c] /\ retries'[c] = retries[c]
      BY <2>5 DEF Rejects
    <3>6. QED
      BY <1>2, <2>0, <3>1, <3>4, <3>5
  <2>6. QED
    BY <2>1, <2>2, <2>4, <2>5, StepWires
<1>5. QED
  BY <1>3, <1>4 DEF WireInv, PoolFor, Pool

\* Every step keeps the parks of a call inside run.max_park_s.
LEMMA ParkStep == Shape /\ ParkInv /\ [Next]_vars => ParkInv'
<1> SUFFICES ASSUME Shape, ParkInv, [Next]_vars PROVE ParkInv'
  OBVIOUS
<1>0. \A d \in Calls : parkSpent[d] \in Nat /\ remaining[d] \in Nat
                       /\ parkSpent[d] + remaining[d] <= ParkBudget
  BY DEF Shape, ParkInv
<1>1. ASSUME NEW c \in Calls, CallStep(c) PROVE ParkInv'
  <2>1. CASE Park(c)
    <3>1. EarliestWake(c) \in Nat /\ parkSpent[c] + EarliestWake(c) <= ParkBudget
      BY <1>0, <2>1, WakeTyped, ClientAssumption DEF Park, ParkForbidden
    <3>2. /\ remaining'[c] = EarliestWake(c) /\ UNCHANGED parkSpent
          /\ \A d \in Calls \ {c} : remaining'[d] = remaining[d]
      BY <2>1 DEF Park, Shape
    <3>3. QED
      BY <1>0, <3>1, <3>2 DEF ParkInv
  <2>2. CASE Unpark(c)
    <3>1. /\ remaining'[c] = 0 /\ UNCHANGED parkSpent
          /\ \A d \in Calls \ {c} : remaining'[d] = remaining[d]
      BY <2>2 DEF Unpark, Shape
    <3>2. parkSpent[c] + 0 <= ParkBudget
      BY <1>0, ClientAssumption
    <3>3. QED
      BY <1>0, <3>1, <3>2 DEF ParkInv
  <2>3. CASE UNCHANGED <<parkSpent, remaining>>
    BY <1>0, <2>3 DEF ParkInv
  <2>4. Park(c) \/ Unpark(c) \/ UNCHANGED <<parkSpent, remaining>>
    BY <1>1 DEF CallStep, Start, Proceed, AcquireResource, LoopTop, GuardBreaker, BodyFails,
                SelectFails, Dispatch, BackoffEnds, Answer, Succeed, FailFatally, Overflow,
                Transient, AuthFails, RateLimited, Cancel, OwnerFeeds
  <2>5. QED
    BY <2>1, <2>2, <2>3, <2>4
<1>2. CASE Tick
  <2>1. ASSUME NEW d \in Calls
        PROVE  \/ parkSpent'[d] = parkSpent[d] /\ remaining'[d] = remaining[d]
               \/ /\ parkSpent'[d] = parkSpent[d] + 1 /\ remaining'[d] = remaining[d] - 1
    BY <1>2 DEF Tick
  <2>2. QED
    BY <1>0, <2>1 DEF ParkInv
<1>3. CASE UNCHANGED vars
  BY <1>0, <1>3 DEF vars, callVars, ParkInv
<1>4. QED
  BY <1>1, <1>2, <1>3 DEF Next, CallStep

\* At the start nothing has been spent.
LEMMA AccountInit == Init => UsageInv /\ WireInv /\ ParkInv
<1> SUFFICES ASSUME Init PROVE UsageInv /\ WireInv /\ ParkInv
  OBVIOUS
<1>1. UsageInv
  <2>1. \A p \in Profiles : InPhase(p, Settled) = {}
    BY DEF Init, InPhase, Settled
  <2>2. SumOf(retries, {}) = 0
    BY SumEmpty
  <2>3. QED
    BY <2>1, <2>2 DEF Init, UsageInv
<1>2. WireInv
  <2>1. Shape
    BY ShapeInit
  <2>2. \A c \in Calls : posts[c] = 0 /\ retries[c] = 0 /\ Flying(c) = 0
    BY DEF Init, Flying
  <2>3. \A c \in Calls : Cardinality(Rejected(c)) \in Nat /\ Cardinality(PoolFor(c)) \in Nat
    BY <2>1, RejectedFits
  <2>4. QED
    BY <2>2, <2>3, ClientAssumption DEF WireInv
<1>3. ParkInv
  BY ClientAssumption DEF Init, ParkInv
<1>4. QED
  BY <1>1, <1>2, <1>3

\* Every step keeps the accounts.
LEMMA AccountStep == Shape /\ UsageInv /\ WireInv /\ [Next]_vars => UsageInv' /\ WireInv'
<1> SUFFICES ASSUME Shape, UsageInv, WireInv, [Next]_vars PROVE UsageInv' /\ WireInv'
  OBVIOUS
<1>1. CASE \E c \in Calls : CallStep(c)
  BY <1>1, UsageMove, WireMove
<1>2. CASE Tick \/ UNCHANGED vars
  <2>1. UNCHANGED <<phase, key, retries, usageRetries, posts, disabled>>
    BY <1>2 DEF Tick, vars, callVars, poolVars, historyVars
  <2>2. QED
    BY <2>1 DEF UsageInv, WireInv, InPhase, Rejected, Flying, PoolFor, Pool
<1>3. QED
  BY <1>1, <1>2 DEF Next, CallStep

\* A call is bounded on the wire although a rotation after a 401/403 costs no retry;
\* its parks together stay inside run.max_park_s; and the usage of a profile has
\* the retries of each of its settled calls exactly once.
THEOREM CallsAccountedCorrect == Spec => []CallsAccounted
<1>1. WireInv /\ ParkInv /\ UsageInv => CallsAccounted
  BY DEF WireInv, ParkInv, UsageInv, CallsAccounted, SumOf
<1>2. QED
  BY <1>1, ShapeCorrect, AccountInit, AccountStep, ParkStep, PTL DEF Spec
================================================================================
