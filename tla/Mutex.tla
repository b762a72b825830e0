-------------------------------- MODULE Mutex --------------------------------
(* What pkg/locking promises: "Lock is the interface for a mutex". *)
CONSTANT Proc
VARIABLE holders   \* the processes that have a guard

Init == holders = {}

Acquire(p) == holders = {} /\ holders' = {p}
Release(p) == p \in holders /\ holders' = holders \ {p}

Next == \E p \in Proc : Acquire(p) \/ Release(p)

Spec == Init /\ [][Next]_holders
=============================================================================
