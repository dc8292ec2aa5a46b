---------------------------- MODULE MCAsyncQueue ----------------------------
(* Instances of AsyncQueue for TLC: pushes s1 to s4 and pops r1, r2. *)
EXTENDS AsyncQueue, TLC

CONSTANTS p1, p2, c1, c2, k1, s1, s2, s3, s4, r1, r2, v1

(* Every push offers one value, every pop takes one. *)
Ones == [o \in PushOps |-> 1]
OneEach == [o \in PopOps |-> 1]
AllSuspend == [o \in PushOps |-> "Suspend"]
NoRetries == [o \in PushOps |-> 0]

(* One batch fills the ring of two, so that few calls make producers park. *)
Filling == [o \in PushOps |-> IF o = s1 THEN 2 ELSE 1]

(* s2 tries once more and is rejected then, s3 is too large for the ring    *)
(* and s4, an empty one, is dropped if it comes behind waiters.            *)
MixedSizes == [o \in PushOps |-> CASE o = s1 -> 2 [] o = s2 -> 1
                                   [] o = s3 -> 3 [] o = s4 -> 0]
MixedPolicies == [o \in PushOps |-> IF o = s2 THEN "Reject"
                                    ELSE IF o = s4 THEN "Drop" ELSE "Suspend"]
MixedRetries == [o \in PushOps |-> IF o = s2 THEN 1 ELSE 0]
UpToTwo == [o \in PopOps |-> 2]

Interchangeable ==
    Permutations(Producers) \cup Permutations(Consumers)
    \cup Permutations(PushOps) \cup Permutations(PopOps)
=============================================================================
