------------------------------- MODULE Locking -------------------------------
(***************************************************************************)
(* The leader lock FSFlockLock of pkg/locking: an flock(2) on a shared     *)
(* file.  The steps of Acquire and Release are the system calls, since     *)
(* other processes can run between any two of them.                        *)
(***************************************************************************)
EXTENDS Integers, FiniteSets

CONSTANTS Proc, Nobody,
          MaxCrashes   \* bound: processes that stop and start again

ASSUME NobodyAssumption == Nobody \notin Proc
ASSUME MaxCrashesAssumption == MaxCrashes \in Nat

VARIABLES
  flock,    \* the process whose open file carries the flock, kept by the kernel
  pc,       \* pc[p]: the system call p is about to make
  guard,    \* guard[p]: p was given a LockGuard and has not given it back
  crashes

vars == <<flock, pc, guard, crashes>>

TypeOK ==
  /\ flock \in Proc \cup {Nobody}
  /\ pc \in [Proc -> {"idle", "flock", "close"}]
  /\ guard \in [Proc -> BOOLEAN]
  /\ crashes \in 0..MaxCrashes

Init ==
  /\ flock = Nobody
  /\ pc = [p \in Proc |-> "idle"]
  /\ guard = [p \in Proc |-> FALSE]
  /\ crashes = 0

\* p makes the call it is at, and is at the call next afterwards.
At(p, call, next) ==
  /\ pc[p] = call
  /\ pc' = [pc EXCEPT ![p] = next]
  /\ UNCHANGED crashes

Hold(p) == guard' = [guard EXCEPT ![p] = TRUE]
Unhold(p) == guard' = [guard EXCEPT ![p] = FALSE]

\* What an open file of p that is closed does to the flock.
Closed(p) == flock' = IF flock = p THEN Nobody ELSE flock

(***************************************************************************)
(* FSFlockLock                                                             *)
(***************************************************************************)
FlockOpen(p) == ~guard[p] /\ At(p, "idle", "flock") /\ UNCHANGED <<flock, guard>>

\* Mutant: LOCK_SH in the place of LOCK_EX.
FlockShared(p) == At(p, "flock", "idle") /\ flock' = p /\ Hold(p)

FlockAcquire(p) == At(p, "flock", "idle") /\ flock = Nobody /\ flock' = p /\ Hold(p)

\* EWOULDBLOCK: no guard, no error.
FlockHeld(p) == At(p, "flock", "idle") /\ flock # Nobody /\ UNCHANGED <<flock, guard>>


FlockRelease(p) == guard[p] /\ At(p, "idle", "close") /\ Closed(p) /\ Unhold(p)

FlockClose(p) == At(p, "close", "idle") /\ UNCHANGED <<flock, guard>>

FlockStep(p) == FlockOpen(p) \/ FlockAcquire(p) \/ FlockHeld(p) \/ FlockRelease(p) \/ FlockClose(p)

\* p stops: its files are closed.
Crash(p) ==
  /\ crashes < MaxCrashes
  /\ crashes' = crashes + 1
  /\ pc' = [pc EXCEPT ![p] = "idle"]
  /\ Unhold(p)
  /\ Closed(p)

FlockNext == \E p \in Proc : FlockStep(p) \/ Crash(p)

FlockSpec == Init /\ [][FlockNext]_vars

\* The controller calls Acquire again in its next cycle when it was refused,
\* and Release once another peer is lower.
FlockFairSpec == FlockSpec /\ \A p \in Proc : WF_vars(FlockStep(p))

(***************************************************************************)
(* Properties.                                                             *)
(***************************************************************************)
Holders == {p \in Proc : guard[p]}

M == INSTANCE Mutex WITH holders <- Holders

\* FSFlockLock is a mutex, also when its holder stops without releasing it.
ImplementsMutex == M!Spec


=============================================================================
