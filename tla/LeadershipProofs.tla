--------------------------- MODULE LeadershipProofs ---------------------------
(***************************************************************************)
(* Proofs about Leadership, for any set of nodes and any number of faults. *)
(***************************************************************************)
EXTENDS Leadership, TLAPS

\* What a claim has collected: everybody told so far has accepted the token,
\* so has everybody in ackedPeers, and who acts has compared the two.
ClaimInv ==
  \A n \in Node :
    /\ cycle[n].pc = "notify" => cycle[n].view \ cycle[n].todo \subseteq heard[n]
    /\ leads[n] => acked[n] \subseteq heard[n]
    /\ cycle[n].pc = "lead" => leads[n] /\ cycle[n].peers \subseteq acked[n]

\* Who is past the lock holds it.
LockInv ==
  lock # NoLock => \A n \in Node : cycle[n].pc # "idle" => lock = n

LInv == TypeOK /\ ClaimInv /\ LockInv

LEMMA InitLInv == Init => LInv
  BY MaxFaultsAssumption DEF Init, LInv, TypeOK, ClaimInv, LockInv, Cycle, Idle

\* Updates of an iteration give an iteration.
LEMMA CycleUpdates ==
  ASSUME NEW c \in Cycle, NEW s \in SUBSET Node
  PROVE  /\ [c EXCEPT !.pc = "notify", !.view = s, !.todo = s] \in Cycle
         /\ [c EXCEPT !.pc = "lead", !.view = {}] \in Cycle
         /\ [c EXCEPT !.todo = @ \ s] \in Cycle
  BY DEF Cycle

\* Type correctness (of every variable of the election) is inductive.
LEMMA NextTypeOK == TypeOK /\ [Next]_vars => TypeOK'
<1> SUFFICES ASSUME TypeOK, [Next]_vars PROVE TypeOK'
  OBVIOUS
<1> USE MaxFaultsAssumption DEF TypeOK, Fault, NoFault
<1>0. Idle \in Cycle /\ \A n \in Node : cycle[n].view \subseteq Node
  BY DEF Idle, Cycle
<1>1. ASSUME NEW n \in Node, NEW m \in Node, Ping(m, n) PROVE TypeOK'
  <2>1. healthy' \in [Node -> SUBSET Node]
    BY <1>1 DEF Ping
  <2>2. peers' \in [Node -> SUBSET Node]
    BY <1>1 DEF Ping
  <2> QED
    BY <1>1, <2>1, <2>2 DEF Ping
<1>2. ASSUME NEW n \in Node, NEW m \in Node, updateFromDiscovery(n, m) PROVE TypeOK'
  BY <1>2 DEF updateFromDiscovery
<1>3. ASSUME NEW n \in Node, Elect(n) PROVE TypeOK'
  BY <1>3 DEF Elect, Idle, Cycle
<1>4. ASSUME NEW n \in Node, NotElected(n) PROVE TypeOK'
  BY <1>4 DEF NotElected
<1>5. ASSUME NEW n \in Node, BecomeLeader(n) \/ AssertLeadership(n) PROVE TypeOK'
  <2>1. [cycle[n] EXCEPT !.pc = "notify", !.view = healthy[n], !.todo = healthy[n]] \in Cycle
    BY CycleUpdates
  <2> QED
    BY <1>5, <2>1 DEF BecomeLeader, AssertLeadership, Notify
<1>6. ASSUME NEW n \in Node, NEW p \in Node, NotifyAccepted(n, p) PROVE TypeOK'
  <2>1. peers' \in [Node -> SUBSET Node] /\ healthy' \in [Node -> SUBSET Node]
    BY <1>0, <1>6 DEF NotifyAccepted, LeaderNotification, HealthyWith
  <2>2. accepted' \in [Node -> Node \cup {NoToken}] /\ heard' \in [Node -> SUBSET Node]
    BY <1>6 DEF NotifyAccepted, Notified, Heard
  <2>3. cycle' \in [Node -> Cycle]
    <3>1. [cycle[n] EXCEPT !.todo = cycle[n].todo \ {p}] \in Cycle
      BY CycleUpdates
    <3>2. cycle' = [cycle EXCEPT ![n] = [cycle[n] EXCEPT !.todo = cycle[n].todo \ {p}]]
      BY <1>6 DEF NotifyAccepted
    <3> QED
      BY <3>1, <3>2
  <2> QED
    BY <1>6, <2>1, <2>2, <2>3 DEF NotifyAccepted
<1>7. ASSUME NEW n \in Node, NEW p \in Node, NotifyRejected(n, p) PROVE TypeOK'
  BY <1>0, <1>7 DEF NotifyRejected, HealthyWith, EndCycle, Dropped
<1>8. ASSUME NEW n \in Node, NEW p \in Node, NotifyLost(n, p) PROVE TypeOK'
  BY <1>0, <1>8 DEF NotifyLost, LeaderNotification, HealthyWith, Notified, Heard, EndCycle, Dropped
<1>9. ASSUME NEW n \in Node, NEW p \in Node, NotifyUnhealthy(n, p) PROVE TypeOK'
  BY <1>0, <1>9 DEF NotifyUnhealthy, EndCycle, Dropped
<1>10. ASSUME NEW n \in Node, CycleFails(n) PROVE TypeOK'
  BY <1>0, <1>10 DEF CycleFails, EndCycle, Dropped
<1>11. ASSUME NEW n \in Node, Elected(n) PROVE TypeOK'
  BY <1>0, <1>11 DEF Elected
<1>12. ASSUME NEW n \in Node, Resign(n) PROVE TypeOK'
  BY <1>0, <1>12 DEF Resign, Dropped
<1>13. ASSUME NEW n \in Node, Lead(n) PROVE TypeOK'
  <2>1. [cycle[n] EXCEPT !.pc = "lead", !.view = {}] \in Cycle
    BY CycleUpdates
  <2> QED
    BY <1>13, <2>1 DEF Lead
<1>14. ASSUME NEW n \in Node, EndLead(n) PROVE TypeOK'
  BY <1>0, <1>14 DEF EndLead
<1>15. ASSUME NEW n \in Node, NEW p \in Node, Expire(n, p) PROVE TypeOK'
  BY <1>15 DEF Expire
<1>16. ASSUME NEW n \in Node, Restart(n) PROVE TypeOK'
  BY <1>0, <1>16 DEF Restart, Dropped
<1>17. CASE UNCHANGED vars
  BY <1>17 DEF vars
<1> QED
  BY <1>1, <1>2, <1>3, <1>4, <1>5, <1>6, <1>7, <1>8, <1>9, <1>10, <1>11, <1>12, <1>13,
     <1>14, <1>15, <1>16, <1>17 DEF Next, Gossip, Claim, ClaimFaults

\* heard only grows, except when the token is dropped.
LEMMA HeardGrows ==
  ASSUME TypeOK, NEW n \in Node, NEW p \in Node
  PROVE  /\ Heard(p, n) \in [Node -> SUBSET Node]
         /\ \A q \in Node : heard[q] \subseteq Heard(p, n)[q]
         /\ Accepts(p, cycle[n].view) => p \in Heard(p, n)[n]
  BY DEF TypeOK, Heard

\* An iteration that ends early keeps what its controller's peers acknowledged.
LEMMA EndCycleClaimInv ==
  ASSUME TypeOK, ClaimInv, NEW n \in Node, NEW acc, NEW h \in [Node -> SUBSET Node],
         \A q \in Node : heard[q] \subseteq h[q],
         EndCycle(n, acc, h), UNCHANGED <<leads, acked>>
  PROVE  ClaimInv'
<1> SUFFICES ASSUME NEW m \in Node
             PROVE  /\ cycle'[m].pc = "notify" => cycle'[m].view \ cycle'[m].todo \subseteq heard'[m]
                    /\ leads'[m] => acked'[m] \subseteq heard'[m]
                    /\ cycle'[m].pc = "lead" => leads'[m] /\ cycle'[m].peers \subseteq acked'[m]
  BY DEF ClaimInv
<1>1. CASE m = n
  BY <1>1 DEF EndCycle, Idle, TypeOK, ClaimInv
<1>2. CASE m # n
  <2>1. cycle'[m] = cycle[m] /\ heard'[m] = h[m]
    BY <1>2 DEF EndCycle, TypeOK
  <2> QED
    BY <2>1 DEF TypeOK, ClaimInv
<1> QED
  BY <1>1, <1>2

LEMMA NextClaimInv == TypeOK /\ ClaimInv /\ [Next]_vars => ClaimInv'
<1> SUFFICES ASSUME TypeOK, ClaimInv, [Next]_vars PROVE ClaimInv'
  OBVIOUS
<1>1. ASSUME NEW n \in Node, NEW m \in Node, Ping(m, n) \/ updateFromDiscovery(n, m) \/ Expire(n, m)
      PROVE  ClaimInv'
  BY <1>1 DEF Ping, updateFromDiscovery, Expire, ClaimInv
<1>2. ASSUME NEW n \in Node, Elect(n) PROVE ClaimInv'
  BY <1>2 DEF Elect, Idle, TypeOK, ClaimInv
<1>3. ASSUME NEW n \in Node, NotElected(n) PROVE ClaimInv'
  BY <1>3 DEF NotElected, ClaimInv
<1>4. ASSUME NEW n \in Node, BecomeLeader(n) \/ AssertLeadership(n) PROVE ClaimInv'
  <2>0. Notify(n)
    BY <1>4 DEF BecomeLeader, AssertLeadership
  <2>1. \A m \in Node \ {n} : cycle'[m] = cycle[m]
    BY <2>0 DEF Notify, TypeOK
  <2>2. cycle'[n] = [cycle[n] EXCEPT !.pc = "notify", !.view = healthy[n], !.todo = healthy[n]]
    BY <2>0 DEF Notify, TypeOK
  <2>3. cycle'[n].pc = "notify" /\ cycle'[n].view \ cycle'[n].todo = {}
    BY <2>2 DEF TypeOK, Cycle
  <2> QED
    BY <2>0, <2>1, <2>3 DEF Notify, ClaimInv
<1>5. ASSUME NEW n \in Node, NEW p \in Node, NotifyAccepted(n, p) PROVE ClaimInv'
  <2>1. /\ cycle'[n].pc = "notify" /\ cycle'[n].view = cycle[n].view
        /\ cycle'[n].todo = cycle[n].todo \ {p}
        /\ \A m \in Node \ {n} : cycle'[m] = cycle[m]
    BY <1>5 DEF NotifyAccepted, TypeOK, Cycle
  <2>2. p \in heard'[n] /\ \A q \in Node : heard[q] \subseteq heard'[q]
    BY <1>5, HeardGrows DEF NotifyAccepted
  <2> QED
    BY <1>5, <2>1, <2>2 DEF NotifyAccepted, ClaimInv
<1>6. ASSUME NEW n \in Node, NEW p \in Node, NotifyLost(n, p) PROVE ClaimInv'
  BY <1>6, HeardGrows, EndCycleClaimInv DEF NotifyLost
<1>7. ASSUME NEW n \in Node, NEW p \in Node,
             NotifyRejected(n, p) \/ NotifyUnhealthy(n, p) \/ CycleFails(n)
      PROVE  ClaimInv'
  <2>1. EndCycle(n, accepted, heard) /\ UNCHANGED <<leads, acked>>
    BY <1>7 DEF NotifyRejected, NotifyUnhealthy, CycleFails
  <2> QED
    BY <2>1, EndCycleClaimInv DEF TypeOK
<1>8. ASSUME NEW n \in Node, Elected(n) PROVE ClaimInv'
  BY <1>8 DEF Elected, Idle, TypeOK, Cycle, ClaimInv
<1>9. ASSUME NEW n \in Node, Resign(n) PROVE ClaimInv'
  BY <1>9 DEF Resign, Idle, TypeOK, ClaimInv
<1>10. ASSUME NEW n \in Node, Lead(n) PROVE ClaimInv'
  <2>1. /\ cycle'[n].pc = "lead" /\ cycle'[n].peers = cycle[n].peers
        /\ \A m \in Node \ {n} : cycle'[m] = cycle[m]
    BY <1>10 DEF Lead, TypeOK, Cycle
  <2> QED
    BY <1>10, <2>1 DEF Lead, ClaimInv
<1>11. ASSUME NEW n \in Node, EndLead(n) PROVE ClaimInv'
  BY <1>11 DEF EndLead, Idle, TypeOK, ClaimInv
<1>12. ASSUME NEW n \in Node, Restart(n) PROVE ClaimInv'
  BY <1>12 DEF Restart, Idle, TypeOK, ClaimInv
<1>13. CASE UNCHANGED vars
  BY <1>13 DEF vars, ClaimInv
<1> QED
  BY <1>1, <1>2, <1>3, <1>4, <1>5, <1>6, <1>7, <1>8, <1>9, <1>10, <1>11, <1>12, <1>13
     DEF Next, Gossip, Claim, ClaimFaults

LEMMA NextLockInv == TypeOK /\ LockInv /\ [Next]_vars => LockInv'
<1> SUFFICES ASSUME TypeOK, LockInv, [Next]_vars, lock' # NoLock,
                    NEW m \in Node, cycle'[m].pc # "idle"
             PROVE  lock' = m
  BY DEF LockInv
<1>1. ASSUME NEW n \in Node, Elect(n) PROVE lock' = m
  BY <1>1, NoNodeAssumption, NoLockAssumption DEF Elect, TypeOK, LockInv
<1>2. ASSUME NEW n \in Node, NotElected(n) PROVE lock' = m
  BY <1>2, NoLockAssumption DEF NotElected, LockInv
<1>3. ASSUME NEW n \in Node, Restart(n) PROVE lock' = m
  BY <1>3, NoLockAssumption DEF Restart, Idle, TypeOK, LockInv
<1>4. ASSUME NEW n \in Node, cycle[n].pc # "idle", lock' = lock,
             \A q \in Node \ {n} : cycle'[q] = cycle[q]
      PROVE  lock' = m
  BY <1>4 DEF LockInv
<1>5. ASSUME UNCHANGED <<lock, cycle>> PROVE lock' = m
  BY <1>5 DEF LockInv
<1>6. ASSUME NEW n \in Node, NEW p \in Node, Ping(p, n) \/ updateFromDiscovery(n, p) \/ Expire(n, p)
      PROVE  lock' = m
  BY <1>5, <1>6 DEF Ping, updateFromDiscovery, Expire
<1>7. ASSUME NEW n \in Node, BecomeLeader(n) \/ AssertLeadership(n) PROVE lock' = m
  <2>1. Notify(n)
    BY <1>7 DEF BecomeLeader, AssertLeadership
  <2> QED
    BY <1>4, <2>1 DEF Notify, TypeOK
<1>8. ASSUME NEW n \in Node, NEW p \in Node, NotifyAccepted(n, p) PROVE lock' = m
  BY <1>4, <1>8 DEF NotifyAccepted, TypeOK
<1>9. ASSUME NEW n \in Node, NEW p \in Node, NotifyRejected(n, p) PROVE lock' = m
  BY <1>4, <1>9 DEF NotifyRejected, EndCycle, TypeOK
<1>10. ASSUME NEW n \in Node, NEW p \in Node, NotifyLost(n, p) PROVE lock' = m
  BY <1>4, <1>10 DEF NotifyLost, EndCycle, TypeOK
<1>11. ASSUME NEW n \in Node, NEW p \in Node, NotifyUnhealthy(n, p) PROVE lock' = m
  BY <1>4, <1>11 DEF NotifyUnhealthy, EndCycle, TypeOK
<1>12. ASSUME NEW n \in Node, CycleFails(n) PROVE lock' = m
  BY <1>4, <1>12 DEF CycleFails, EndCycle, TypeOK
<1>13. ASSUME NEW n \in Node, Elected(n) PROVE lock' = m
  BY <1>4, <1>13 DEF Elected, TypeOK
<1>14. ASSUME NEW n \in Node, Resign(n) PROVE lock' = m
  BY <1>4, <1>14 DEF Resign, TypeOK
<1>15. ASSUME NEW n \in Node, Lead(n) \/ EndLead(n) PROVE lock' = m
  BY <1>4, <1>15 DEF Lead, EndLead, TypeOK
<1>16. CASE UNCHANGED vars
  BY <1>5, <1>16 DEF vars
<1> QED
  BY <1>1, <1>2, <1>3, <1>6, <1>7, <1>8, <1>9, <1>10, <1>11, <1>12, <1>13, <1>14, <1>15, <1>16
     DEF Next, Gossip, Claim, ClaimFaults

\* The strengthened invariant holds in every reachable state.
THEOREM LeadershipInvariant == Spec => []LInv
<1>1. LInv /\ [Next]_vars => LInv'
  BY NextTypeOK, NextClaimInv, NextLockInv DEF LInv
<1> QED
  BY InitLInv, <1>1, PTL DEF Spec

\* Every variable of the election keeps its type.
THEOREM LeadershipTypeOK == Spec => []TypeOK
<1>1. LInv => TypeOK
  BY DEF LInv
<1> QED
  BY LeadershipInvariant, <1>1, PTL

\* However many nodes there are, and whatever calls are lost or nodes restart
\* in between, a controller that acts as the leader counts only peers that
\* accepted the very token it holds (ackedPeerCount in run).
THEOREM LeadersAreAcked == Spec => []CountedPeersAcked
<1>1. LInv => CountedPeersAcked
  BY DEF LInv, ClaimInv, CountedPeersAcked
<1> QED
  BY LeadershipInvariant, <1>1, PTL

\* With a leader lock, never are two controllers past the lock in run.
THEOREM LeadersExcluded == Spec => []LockExclusive
<1>1. LInv => LockExclusive
  BY DEF LInv, LockInv, LockExclusive
<1> QED
  BY LeadershipInvariant, <1>1, PTL

=============================================================================
