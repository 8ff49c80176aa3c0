----------------------------- MODULE MCLLMClient -----------------------------
(* One profile with a pool of two keys and two permits, so that two attempts *)
(* can be in flight on one key, and a third call that waits for a permit.    *)
EXTENDS LLMClient

CONSTANTS c1, c2, c3, p1, o1

MCCalls == {c1, c2, c3}
MCPairCalls == {c1, c2}
MCProfiles == {p1}
MCKeys == 1..2
MCOrigins == {o1}
MCProfileOf == [c \in Calls |-> p1]
MCPoolOf == [k \in MCKeys |-> p1]
MCOriginOf == [p \in MCProfiles |-> o1]
MCCapacity == [p \in MCProfiles |-> 2]
==============================================================================
