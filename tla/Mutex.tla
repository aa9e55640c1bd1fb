-------------------------------- MODULE Mutex --------------------------------
(***************************************************************************)
(* What HAL_SPINLOCK_Lock, TryLock and Unlock promise: at any time one     *)
(* caller at most is between taking the lock and releasing it.             *)
(***************************************************************************)
CONSTANT Callers
VARIABLE holders

Init == holders = {}

Acquire(t) == holders = {} /\ holders' = {t}
Release(t) == holders = {t} /\ holders' = {}

Next == \E t \in Callers : Acquire(t) \/ Release(t)

Spec == Init /\ [][Next]_holders
=============================================================================
