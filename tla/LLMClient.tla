------------------------------- MODULE LLMClient -------------------------------
(***************************************************************************)
(* The retry engine of the provider client                                 *)
(* (labelkit/common/inference/llm_client.py) with the permits it takes     *)
(* (labelkit/runtime/resources.py) and the circuit breaker of the metrics  *)
(* sink it feeds (labelkit/common/observability/obslog.py).                *)
(*                                                                         *)
(* Calls of several profiles run concurrently on one event loop.  A key is *)
(* a natural number: its declaration index over all pools.  Time is        *)
(* counted down: cooling[k] and remaining[c] are what is left of a         *)
(* cooldown and of a park, and Tick lets one unit pass.                    *)
(***************************************************************************)
EXTENDS Integers, FiniteSets, FiniteSetsExt

CONSTANTS
  Calls,       \* logical calls (complete() or embed())
  Profiles,    \* logical profiles, each one a resource
  Keys,        \* declaration indices of the API keys
  Origins,     \* HTTP origins
  ProfileOf,   \* ProfileOf[c]: the profile call c uses
  PoolOf,      \* PoolOf[k]: the profile whose pool holds key k
  OriginOf,    \* OriginOf[p]: the origin of profile p
  Capacity,    \* Capacity[p]: max concurrency of p
  MaxRetries,  \* retries of one call
  Threshold,   \* consecutive fatal results that open the breaker
  ParkBudget,  \* run.max_park_s
  MaxCooldown, \* longest cooldown that occurs, in time units
  Announces,   \* whether a 429 may carry a Retry-After: of BOOLEAN (no step
               \* depends on it, only what promised records)
  Nobody       \* no call runs on the event loop

ASSUME ClientAssumption ==
  /\ Keys \subseteq Nat \ {0} /\ IsFiniteSet(Keys)
  /\ IsFiniteSet(Calls) /\ IsFiniteSet(Profiles)
  /\ ProfileOf \in [Calls -> Profiles]
  /\ PoolOf \in [Keys -> Profiles]
  /\ \A p \in Profiles : \E k \in Keys : PoolOf[k] = p
  /\ OriginOf \in [Profiles -> Origins]
  /\ Capacity \in [Profiles -> Nat \ {0}]
  /\ MaxRetries \in Nat /\ Threshold \in Nat \ {0}
  /\ ParkBudget \in Nat /\ MaxCooldown \in Nat
  /\ Announces \subseteq BOOLEAN /\ Announces # {}
  /\ Nobody \notin Calls

VARIABLES
  phase,         \* where each call is, or how it ended
  turn,          \* the call that runs between two awaits, or Nobody
  key,           \* key[c]: the key of the attempt in flight
  retries,       \* retries_used (and attempt) of each call
  parkSpent,     \* park_spent of each call
  remaining,     \* what is left of the park of each call
  resourceFree,  \* free permits of each profile
  originFree,    \* free permits of each origin
  inFlight,      \* in_flight of each key
  cooling,       \* time until cooldown_until of each key
  disabled,      \* keys with disabled = True
  streak,        \* _fatal_streak
  broken,        \* _circuit_broken
  usageRetries,  \* retries of the usage accumulator of each profile
  posts,         \* history: attempts each call has put on the wire
  promised,      \* history: what is left of the last Retry-After of each key
  failedSince    \* history: calls that ended in a fatal result since a success

callVars    == <<phase, turn, key, retries, parkSpent, remaining>>
permitVars  == <<resourceFree, originFree>>
poolVars    == <<inFlight, cooling, disabled>>
breakerVars == <<streak, broken, failedSince>>
historyVars == <<posts, promised>>
vars == <<callVars, permitVars, poolVars, breakerVars, usageRetries, historyVars>>

-------------------------------------------------------------------------------
(* Vocabulary *)

Settled == {"ok", "fatal", "overflow", "reported", "exhausted", "tripped"}
Unsettled == {"cancelled", "broken_off"}   \* left without an accounting
Ended == Settled \cup Unsettled
Holding == {"ready", "parked", "backoff", "posting"} \* owns a resource permit
NoKey == 0   \* no attempt in flight

Pool(p) == {k \in Keys : PoolOf[k] = p}
Live(p) == Pool(p) \ disabled
PoolFor(c) == Pool(ProfileOf[c])
LiveFor(c) == Live(ProfileOf[c])
OriginFor(c) == OriginOf[ProfileOf[c]]
OriginCapacity(o) ==
  MapThenSumSet(LAMBDA p : Capacity[p], {p \in Profiles : OriginOf[p] = o})

\* _KeyPool.select: the key with the fewest attempts in flight, first declared.
Eligible(c) == {k \in LiveFor(c) : cooling[k] = 0}
Selected(c, k) ==
  /\ k \in Eligible(c)
  /\ \A j \in Eligible(c) : \/ inFlight[k] < inFlight[j]
                            \/ inFlight[k] = inFlight[j] /\ k <= j

\* _KeyPool.earliest_wake
EarliestWake(c) ==
  CHOOSE w \in {cooling[k] : k \in LiveFor(c)} : \A k \in LiveFor(c) : w <= cooling[k]

\* Mutant of ParkForbidden: each park has the whole budget.
ParkAloneForbidden(c) == ParkBudget = 0 \/ EarliestWake(c) > ParkBudget

\* The wait for the earliest key does not fit in what is left of run.max_park_s.
ParkForbidden(c) == ParkBudget = 0 \/ parkSpent[c] + EarliestWake(c) > ParkBudget

Waiters(p) == {c \in Calls : phase[c] = "waiting" /\ ProfileOf[c] = p}

-------------------------------------------------------------------------------
Init ==
  /\ phase = [c \in Calls |-> "idle"] /\ turn = Nobody
  /\ key = [c \in Calls |-> NoKey]
  /\ retries = [c \in Calls |-> 0] /\ parkSpent = [c \in Calls |-> 0]
  /\ remaining = [c \in Calls |-> 0]
  /\ resourceFree = Capacity
  /\ originFree = [o \in Origins |-> OriginCapacity(o)]
  /\ inFlight = [k \in Keys |-> 0] /\ cooling = [k \in Keys |-> 0]
  /\ disabled = {} /\ streak = 0 /\ broken = FALSE /\ failedSince = {}
  /\ usageRetries = [p \in Profiles |-> 0]
  /\ posts = [c \in Calls |-> 0] /\ promised = [k \in Keys |-> 0]

\* _guard_retry_budget
RetriesLeft(c) == retries[c] < MaxRetries

\* Mutant of Leave: a cancelled call keeps its permit.
LeaveKeeping(c, how) ==
  /\ phase' = [phase EXCEPT ![c] = how]
  /\ turn' = Nobody
  /\ IF how = "cancelled" THEN UNCHANGED <<resourceFree, usageRetries>>
     ELSE /\ resourceFree' = [resourceFree EXCEPT ![ProfileOf[c]] = @ + 1]
          /\ usageRetries' = [usageRetries EXCEPT ![ProfileOf[c]] = @ + retries[c]]

\* What every way out of _post_with_retries does: leave the resource limit and,
\* unless it is cancelled or breaks off, account its retries once.
Leave(c, how) ==
  /\ phase' = [phase EXCEPT ![c] = how]
  /\ turn' = Nobody
  /\ resourceFree' = [resourceFree EXCEPT ![ProfileOf[c]] = @ + 1]
  /\ usageRetries' = IF how \in Unsettled THEN usageRetries
                     ELSE [usageRetries EXCEPT ![ProfileOf[c]] = @ + retries[c]]

\* Mutant of FeedSuccess: the streak is left alone.
FeedNothing == failedSince' = {} /\ UNCHANGED <<streak, broken>>

\* record_provider_result
FeedFatal(c, hard) ==
  /\ failedSince' = failedSince \cup {c}
  /\ streak' = streak + 1
  /\ broken' = (broken \/ hard \/ streak + 1 >= Threshold)
FeedSuccess == streak' = 0 /\ failedSince' = {} /\ UNCHANGED broken

\* _settle_terminal with its feed of the breaker
SettleFatal(c, how, hard) == Leave(c, how) /\ FeedFatal(c, hard)

\* Mutant of ReturnAttempt: only answered attempts leave in_flight.
ReturnAttemptLeaks(c) ==
  /\ inFlight' = inFlight
  /\ key' = [key EXCEPT ![c] = NoKey]
  /\ originFree' = [originFree EXCEPT ![OriginFor(c)] = @ + 1]

\* The finally clauses around an attempt
ReturnAttempt(c) ==
  /\ inFlight' = [inFlight EXCEPT ![key[c]] = @ - 1]
  /\ key' = [key EXCEPT ![c] = NoKey]
  /\ originFree' = [originFree EXCEPT ![OriginFor(c)] = @ + 1]

-------------------------------------------------------------------------------
(* Entry: the breaker is checked, then the resource permit is taken *)

Start(c) ==
  /\ phase[c] = "idle" /\ turn = Nobody
  /\ IF broken
     THEN phase' = [phase EXCEPT ![c] = "tripped"] /\ UNCHANGED <<turn, resourceFree>>
     ELSE IF resourceFree[ProfileOf[c]] > 0 /\ Waiters(ProfileOf[c]) = {}
     THEN /\ phase' = [phase EXCEPT ![c] = "ready"] /\ turn' = c
          /\ resourceFree' = [resourceFree EXCEPT ![ProfileOf[c]] = @ - 1]
     ELSE phase' = [phase EXCEPT ![c] = "waiting"] /\ UNCHANGED <<turn, resourceFree>>
  /\ UNCHANGED <<key, retries, parkSpent, remaining, originFree, poolVars,
                 breakerVars, usageRetries, historyVars>>

AcquireResource(c) ==
  /\ phase[c] = "waiting" /\ turn = Nobody /\ resourceFree[ProfileOf[c]] > 0
  /\ phase' = [phase EXCEPT ![c] = "ready"] /\ turn' = c
  /\ resourceFree' = [resourceFree EXCEPT ![ProfileOf[c]] = @ - 1]
  /\ UNCHANGED <<key, retries, parkSpent, remaining, originFree, poolVars,
                 breakerVars, usageRetries, historyVars>>

-------------------------------------------------------------------------------
(* The top of the retry loop, up to the next await *)

\* A call at the top of the loop that _guard_breaker lets pass.
AtLoopTop(c) == turn = c /\ ~broken

\* _guard_breaker
GuardBreaker(c) ==
  /\ turn = c /\ broken
  /\ Leave(c, "tripped")
  /\ UNCHANGED <<key, retries, parkSpent, remaining, originFree, poolVars,
                 breakerVars, historyVars>>

\* _select_key finds a key and _dispatch_attempt enters the origin limit.  A count
\* below zero stands for attempts that would wait there: PermitsExact says
\* that there are none, so the wait has no action.
Dispatch(c, k) ==
  /\ AtLoopTop(c) /\ Selected(c, k)
  /\ phase' = [phase EXCEPT ![c] = "posting"] /\ turn' = Nobody
  /\ key' = [key EXCEPT ![c] = k]
  /\ inFlight' = [inFlight EXCEPT ![k] = @ + 1]
  /\ originFree' = [originFree EXCEPT ![OriginFor(c)] = @ - 1]
  /\ posts' = [posts EXCEPT ![c] = @ + 1]
  /\ UNCHANGED <<retries, parkSpent, remaining, resourceFree, cooling, disabled,
                 breakerVars, usageRetries, promised>>

\* The body of an attempt cannot be built (an image cannot be read any more): the
\* error leaves before the attempt counts as in flight.
BodyFails(c) ==
  /\ AtLoopTop(c) /\ Eligible(c) # {}
  /\ Leave(c, "broken_off")
  /\ UNCHANGED <<key, retries, parkSpent, remaining, originFree, poolVars,
                 breakerVars, historyVars>>

\* _select_key finds the whole pool auth-dead, or a park that the budget forbids.
SelectFails(c) ==
  /\ AtLoopTop(c) /\ Eligible(c) = {}
  /\ IF LiveFor(c) = {} THEN SettleFatal(c, "fatal", FALSE)
     ELSE /\ ParkForbidden(c)
          /\ SettleFatal(c, "exhausted", FALSE)
  /\ UNCHANGED <<key, retries, parkSpent, remaining, originFree, poolVars, historyVars>>

Park(c) ==
  /\ AtLoopTop(c) /\ Eligible(c) = {} /\ LiveFor(c) # {}
  /\ ~ParkForbidden(c)
  /\ phase' = [phase EXCEPT ![c] = "parked"] /\ turn' = Nobody
  /\ remaining' = [remaining EXCEPT ![c] = EarliestWake(c)]
  /\ UNCHANGED <<key, retries, parkSpent, permitVars, poolVars, breakerVars,
                 usageRetries, historyVars>>

\* A park ends when its time is over, or at a slice that sees the breaker open.
Unpark(c) ==
  /\ phase[c] = "parked" /\ turn = Nobody /\ (remaining[c] = 0 \/ broken)
  /\ phase' = [phase EXCEPT ![c] = "ready"] /\ turn' = c
  /\ remaining' = [remaining EXCEPT ![c] = 0]
  /\ UNCHANGED <<key, retries, parkSpent, permitVars, poolVars, breakerVars,
                 usageRetries, historyVars>>

BackoffEnds(c) ==
  /\ phase[c] = "backoff" /\ turn = Nobody
  /\ phase' = [phase EXCEPT ![c] = "ready"] /\ turn' = c
  /\ UNCHANGED <<key, retries, parkSpent, remaining, permitVars, poolVars,
                 breakerVars, usageRetries, historyVars>>

-------------------------------------------------------------------------------
(* The answer to an attempt *)

Answered(c) == phase[c] = "posting" /\ turn = Nobody /\ ReturnAttempt(c)

\* A 2xx that parses (_record_success).
Succeed(c) ==
  /\ Answered(c) /\ Leave(c, "ok") /\ FeedSuccess
  /\ UNCHANGED <<retries, parkSpent, remaining, cooling, disabled, historyVars>>

\* A response parse() rejects, or a 400/404.
FailFatally(c) ==
  /\ Answered(c) /\ SettleFatal(c, "fatal", FALSE)
  /\ UNCHANGED <<retries, parkSpent, remaining, cooling, disabled, historyVars>>

\* A 400 whose body says the context overflowed does not feed the breaker here.
Overflow(c) ==
  /\ Answered(c) /\ Leave(c, "overflow")
  /\ UNCHANGED <<retries, parkSpent, remaining, cooling, disabled, breakerVars,
                 historyVars>>

\* The operator that owns an overflowed call has no further way to shrink the
\* request: it feeds the breaker itself, once per error.
OwnerFeeds(c) ==
  /\ phase[c] = "overflow" /\ turn = Nobody
  /\ phase' = [phase EXCEPT ![c] = "reported"]
  /\ FeedFatal(c, FALSE)
  /\ UNCHANGED <<turn, key, retries, parkSpent, remaining, permitVars, poolVars,
                 usageRetries, historyVars>>

\* A transport failure, a 5xx, or a 2xx that does not parse: back off or give up.
Transient(c) ==
  /\ Answered(c)
  /\ IF RetriesLeft(c)
     THEN /\ phase' = [phase EXCEPT ![c] = "backoff"]
          /\ retries' = [retries EXCEPT ![c] = @ + 1]
          /\ UNCHANGED <<turn, resourceFree, usageRetries, breakerVars>>
     ELSE SettleFatal(c, "exhausted", FALSE) /\ UNCHANGED retries
  /\ UNCHANGED <<parkSpent, remaining, cooling, disabled, historyVars>>

\* A 429: the key cools down for d, which is the Retry-After or a jitter; the
\* next attempt rotates without waiting.
RateLimited(c, d, retryAfter) ==
  /\ Answered(c)
  /\ cooling' = [cooling EXCEPT ![key[c]] = d]
  /\ promised' = IF retryAfter THEN [promised EXCEPT ![key[c]] = d] ELSE promised
  /\ IF RetriesLeft(c)
     THEN /\ phase' = [phase EXCEPT ![c] = "ready"] /\ turn' = c
          /\ retries' = [retries EXCEPT ![c] = @ + 1]
          /\ UNCHANGED <<resourceFree, usageRetries, breakerVars>>
     ELSE SettleFatal(c, "exhausted", FALSE) /\ UNCHANGED retries
  /\ UNCHANGED <<parkSpent, remaining, disabled, posts>>

\* A 401/403: the key is disabled for the run; the same attempt goes to the next
\* live key, or the breaker opens at once.
AuthFails(c) ==
  /\ Answered(c)
  /\ disabled' = disabled \cup {key[c]}
  /\ IF LiveFor(c) \ {key[c]} # {}
     THEN /\ phase' = [phase EXCEPT ![c] = "ready"] /\ turn' = c
          /\ UNCHANGED <<resourceFree, usageRetries, breakerVars>>
     ELSE SettleFatal(c, "fatal", TRUE)
  /\ UNCHANGED <<retries, parkSpent, remaining, cooling, historyVars>>

-------------------------------------------------------------------------------
\* The task of a call is cancelled at one of its awaits.
Cancel(c) ==
  /\ turn = Nobody
  /\ \/ /\ phase[c] = "waiting"
        /\ phase' = [phase EXCEPT ![c] = "cancelled"]
        /\ UNCHANGED <<turn, key, resourceFree, originFree, inFlight, usageRetries>>
     \/ /\ phase[c] \in {"parked", "backoff"}
        /\ Leave(c, "cancelled")
        /\ UNCHANGED <<key, originFree, inFlight>>
     \/ /\ phase[c] = "posting"
        /\ Leave(c, "cancelled") /\ ReturnAttempt(c)
  /\ UNCHANGED <<retries, parkSpent, remaining, cooling, disabled, breakerVars,
                 historyVars>>

\* One unit of time passes; the event loop has served every timer that is due.
Tick ==
  /\ turn = Nobody
  /\ \/ \E k \in Keys : cooling[k] > 0 \/ promised[k] > 0
     \/ \E c \in Calls : phase[c] = "parked"
  /\ \A c \in Calls : phase[c] = "parked" => remaining[c] > 0
  /\ cooling' = [k \in Keys |-> IF cooling[k] > 0 THEN cooling[k] - 1 ELSE 0]
  /\ promised' = [k \in Keys |-> IF promised[k] > 0 THEN promised[k] - 1 ELSE 0]
  /\ remaining' = [c \in Calls |-> IF phase[c] = "parked" THEN remaining[c] - 1
                                   ELSE remaining[c]]
  /\ parkSpent' = [c \in Calls |-> IF phase[c] = "parked" THEN parkSpent[c] + 1
                                   ELSE parkSpent[c]]
  /\ UNCHANGED <<phase, turn, key, retries, permitVars, inFlight, disabled,
                 breakerVars, usageRetries, posts>>

-------------------------------------------------------------------------------
Answer(c) ==
  \/ Succeed(c) \/ FailFatally(c) \/ Overflow(c) \/ Transient(c) \/ AuthFails(c)
  \/ \E d \in 0..MaxCooldown, retryAfter \in Announces : RateLimited(c, d, retryAfter)

LoopTop(c) ==
  GuardBreaker(c) \/ BodyFails(c) \/ SelectFails(c) \/ Park(c) \/ \E k \in Keys : Dispatch(c, k)

Proceed(c) ==
  \/ AcquireResource(c) \/ LoopTop(c) \/ Unpark(c)
  \/ BackoffEnds(c) \/ Answer(c)

Next == Tick \/ \E c \in Calls : Start(c) \/ Proceed(c) \/ Cancel(c) \/ OwnerFeeds(c)

\* Ready callbacks run, timers fire, every attempt has a total deadline.
Fairness == WF_vars(Tick) /\ \A c \in Calls : WF_vars(Proceed(c))

Spec == Init /\ [][Next]_vars
FairSpec == Spec /\ Fairness

-------------------------------------------------------------------------------
(* Properties *)

\* The phases of a call and the ranges of the counters.
TypeOK ==
  /\ phase \in [Calls -> {"idle", "waiting"} \cup Holding \cup Ended]
  /\ turn \in Calls \cup {Nobody}
  /\ key \in [Calls -> Keys \cup {NoKey}]
  /\ retries \in [Calls -> 0..MaxRetries]
  /\ parkSpent \in [Calls -> Nat] /\ remaining \in [Calls -> Nat]
  /\ resourceFree \in [Profiles -> Nat] /\ originFree \in [Origins -> Int]
  /\ inFlight \in [Keys -> Nat] /\ cooling \in [Keys -> Nat]
  /\ disabled \subseteq Keys /\ streak \in Nat /\ broken \in BOOLEAN
  /\ failedSince \subseteq Calls
  /\ usageRetries \in [Profiles -> Nat]
  /\ posts \in [Calls -> Nat] /\ promised \in [Keys -> Nat]

InPhase(p, S) == {c \in Calls : ProfileOf[c] = p /\ phase[c] \in S}

\* Permits and in_flight counts are what the calls own, however each call left:
\* answered, rotated, exhausted, tripped or cancelled at any await.
PermitsExact ==
  /\ \A p \in Profiles :
       resourceFree[p] + Cardinality(InPhase(p, Holding)) = Capacity[p]
  /\ \A k \in Keys :
       inFlight[k] = Cardinality({c \in Calls : phase[c] = "posting" /\ key[c] = k})
  /\ \A c \in Calls : phase[c] = "posting" => key[c] \in PoolFor(c)
  /\ \A o \in Origins : originFree[o] >= 0

\* Rotations after a 401/403 cost no retry, yet a call is bounded on the wire,
\* since each key can reject it at most once (_absorb_auth_failure); however often
\* it parks, its parks together stay inside run.max_park_s; and the retries of
\* every call that settled (was not cancelled and did not break off over its own
\* request) are in the usage of its profile exactly once, also when the breaker
\* aborted it between attempts.
CallsAccounted ==
  /\ \A c \in Calls : /\ posts[c] <= MaxRetries + Cardinality(PoolFor(c))
                      /\ parkSpent[c] + remaining[c] <= ParkBudget
  /\ \A p \in Profiles :
       usageRetries[p] = MapThenSumSet(LAMBDA c : retries[c], InPhase(p, Settled))

\* The breaker opens only after Threshold different calls have failed with no
\* success of any call in between (an overflow counts when its owner reports it,
\* once), or because a pool has no live key left; and then it always does, so the
\* branch of _select_key for a dead pool is never taken.
BreakerOpensForCause ==
  /\ [](\A p \in Profiles : Live(p) = {} => broken)
  /\ [][~broken /\ broken' =>
          Cardinality(failedSince') >= Threshold \/ \E p \in Profiles : Live(p)' = {}]_vars

\* A key that announced a Retry-After is not used before that time is over: a
\* later 429 on the same key without one does not shorten it.
RetryAfterHonoured ==
  [][\A k \in Keys : promised[k] > 0 => inFlight'[k] <= inFlight[k]]_vars

\* Every call that was let in ends, whatever it waits for.
CallsEnd == <>[](\A c \in Calls : phase[c] \in {"idle"} \cup Ended)

===============================================================================
