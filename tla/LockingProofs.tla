---------------------------- MODULE LockingProofs ----------------------------
(***************************************************************************)
(* FSFlockLock implements a mutex, for any set of processes and any number *)
(* of crashes.                                                             *)
(***************************************************************************)
EXTENDS Locking, TLAPS

\* A guard and the flock go together.
FlockInv == TypeOK /\ \A p \in Proc : guard[p] <=> flock = p

LEMMA InitFlockInv == Init => FlockInv
  BY NobodyAssumption, MaxCrashesAssumption DEF Init, FlockInv, TypeOK

LEMMA NextFlockInv == FlockInv /\ [FlockNext]_vars => FlockInv'
<1> SUFFICES ASSUME FlockInv, [FlockNext]_vars PROVE FlockInv'
  OBVIOUS
<1> USE NobodyAssumption, MaxCrashesAssumption DEF FlockInv, TypeOK, At, Hold, Unhold, Closed
<1>1. ASSUME NEW p \in Proc, FlockOpen(p) PROVE FlockInv'
  BY <1>1 DEF FlockOpen
<1>2. ASSUME NEW p \in Proc, FlockAcquire(p) PROVE FlockInv'
  BY <1>2 DEF FlockAcquire
<1>3. ASSUME NEW p \in Proc, FlockHeld(p) PROVE FlockInv'
  BY <1>3 DEF FlockHeld
<1>4. ASSUME NEW p \in Proc, FlockRelease(p) PROVE FlockInv'
  BY <1>4 DEF FlockRelease
<1>5. ASSUME NEW p \in Proc, FlockClose(p) PROVE FlockInv'
  BY <1>5 DEF FlockClose
<1>6. ASSUME NEW p \in Proc, Crash(p) PROVE FlockInv'
  BY <1>6 DEF Crash
<1>7. CASE UNCHANGED vars
  BY <1>7 DEF vars
<1> QED
  BY <1>1, <1>2, <1>3, <1>4, <1>5, <1>6, <1>7 DEF FlockNext, FlockStep

\* Every step on the lock file is a step of the mutex, or none.
LEMMA FlockStepSimulation == FlockInv /\ [FlockNext]_vars => [M!Next]_Holders
<1> SUFFICES ASSUME FlockInv, [FlockNext]_vars PROVE [M!Next]_Holders
  OBVIOUS
<1>1. ASSUME NEW p \in Proc, FlockAcquire(p) PROVE M!Acquire(p)
  BY <1>1, NobodyAssumption DEF FlockAcquire, FlockInv, TypeOK, Hold, Holders, M!Acquire
<1>2. ASSUME NEW p \in Proc, FlockRelease(p) PROVE M!Release(p)
  BY <1>2 DEF FlockRelease, FlockInv, TypeOK, Unhold, Holders, M!Release
<1>3. ASSUME NEW p \in Proc, Crash(p) PROVE M!Release(p) \/ UNCHANGED Holders
  BY <1>3 DEF Crash, FlockInv, TypeOK, Unhold, Holders, M!Release
<1>4. ASSUME UNCHANGED guard PROVE UNCHANGED Holders
  BY <1>4 DEF Holders
<1>5. ASSUME NEW p \in Proc, FlockOpen(p) \/ FlockHeld(p) \/ FlockClose(p) PROVE UNCHANGED Holders
  BY <1>4, <1>5 DEF FlockOpen, FlockHeld, FlockClose
<1>6. CASE UNCHANGED vars
  BY <1>4, <1>6 DEF vars
<1> QED
  BY <1>1, <1>2, <1>3, <1>5, <1>6 DEF FlockNext, FlockStep, M!Next

\* FSFlockLock is a mutex: flock(2) grants it to one open file at a time, and a
\* holder that stops without calling Release gives it up (ImplementsMutex).
THEOREM FlockImplementsMutex == FlockSpec => ImplementsMutex
<1>1. Init => M!Init
  BY DEF Init, M!Init, Holders
<1>2. FlockSpec => []FlockInv
  BY InitFlockInv, NextFlockInv, PTL DEF FlockSpec
<1> QED
  BY <1>1, <1>2, FlockStepSimulation, PTL DEF FlockSpec, M!Spec, ImplementsMutex

=============================================================================
