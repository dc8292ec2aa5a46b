----------------------------- MODULE MCEventPort -----------------------------
(* An instance of EventPort for TLC: two relations to two receivers.        *)
EXTENDS EventPort, TLC

CONSTANTS e1, e2, o1, o2, a, b, v1, v2

Reached == [r \in Relations |-> IF r = b THEN v2 ELSE v1]
(* The relations come in order of age, or the second before the first. *)
Ranks == {[r \in Relations |-> 0], [r \in Relations |-> IF r = b THEN 1 ELSE 0]}
(* The first relation wears out at once, the second is persistent. *)
Budgets == [r \in Relations |-> IF r = b THEN Forever ELSE 1]

Interchangeable == Permutations(Emitters) \cup Permutations(Owners)
=============================================================================
