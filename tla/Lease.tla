------------------------------- MODULE Lease -------------------------------
(***************************************************************************)
(* What the lock columns of table jobs promise: a lease per job, acquired  *)
(* only while it is free, and released (for any number of jobs at once)    *)
(* before somebody else may acquire it.  It never passes directly from one *)
(* worker to another.                                                      *)
(***************************************************************************)
CONSTANTS Jobs, Workers, None

VARIABLE holder

LeaseInit == holder = [j \in Jobs |-> None]

Acquire(j, w) ==
    /\ holder[j] = None
    /\ holder' = [holder EXCEPT ![j] = w]

Release(S) ==
    holder' = [j \in Jobs |-> IF j \in S THEN None ELSE holder[j]]

LeaseNext ==
    \/ \E j \in Jobs, w \in Workers : Acquire(j, w)
    \/ \E S \in SUBSET Jobs : Release(S)

LeaseSpec == LeaseInit /\ [][LeaseNext]_holder

=============================================================================
