------------------------------ MODULE Leadership ------------------------------
(***************************************************************************)
(* Leader election between etcd-manager processes.                         *)
(*                                                                         *)
(* Every node runs a gossip server (pkg/privateapi) that knows a set of    *)
(* peers, some of them healthy because they were heard from recently, and  *)
(* remembers the token of the last leader it accepted.  Every node also    *)
(* runs a controller (pkg/controller) whose loop claims the leadership     *)
(* when the node has the lowest id among the peers it sees, tells every    *)
(* healthy peer in turn, and acts on the cluster while in the phase "lead".*)
(*                                                                         *)
(* A leadership token is drawn at random and only compared for equality,   *)
(* and a controller sends no token but its own current one.  So the token  *)
(* of n's current claim is written n, and a token that its controller has  *)
(* dropped, which no later call can match, is written NoToken.             *)
(***************************************************************************)
EXTENDS Integers, FiniteSets

CONSTANTS Node,        \* peer ids, ordered like the id strings of the code
          NoToken,     \* no token, or one that was dropped
          NoNode,      \* nobody holds the leader lock
          NoLock,      \* there is no leader lock at all
          MaxFaults    \* bound: lost calls, expired peers and restarts

ASSUME NodeAssumption == Node \subseteq Nat
ASSUME NoTokenAssumption == NoToken \notin Node
ASSUME NoNodeAssumption == NoNode \notin Node
ASSUME NoLockAssumption == NoLock \notin Node /\ NoLock # NoNode
ASSUME MaxFaultsAssumption == MaxFaults \in Nat

VARIABLES
  peers,       \* peers[n]: ids in the peer map of n's gossip server
  healthy,     \* healthy[n]: those heard from within HealthyTimeout
  accepted,    \* accepted[n]: token of the last leader notification n accepted
  leads,       \* leads[n]: n's controller holds a leadership token
  acked,       \* acked[n]: the peers that acknowledged it (ackedPeers)
  cycle,       \* cycle[n]: the iteration of n's controller loop in progress
  lock,        \* holder of the leader lock, or NoLock for ever
  faults,      \* faults so far
  heard        \* history: heard[n], who has accepted n's current token

vars == <<peers, healthy, accepted, leads, acked, cycle, lock, faults, heard>>

Idle == [pc |-> "idle", peers |-> {}, view |-> {}, todo |-> {}]

Cycle == [pc : {"idle", "elected", "notify", "lead"}, peers : SUBSET Node,
          view : SUBSET Node, todo : SUBSET Node]

TypeOK ==
  /\ peers \in [Node -> SUBSET Node]
  /\ healthy \in [Node -> SUBSET Node]
  /\ accepted \in [Node -> Node \cup {NoToken}]
  /\ leads \in [Node -> BOOLEAN]
  /\ acked \in [Node -> SUBSET Node]
  /\ cycle \in [Node -> Cycle]
  /\ lock \in Node \cup {NoNode, NoLock}
  /\ faults \in 0..MaxFaults
  /\ heard \in [Node -> SUBSET Node]

Init ==
  /\ peers = [n \in Node |-> {}]
  /\ healthy = [n \in Node |-> {}]
  /\ accepted = [n \in Node |-> NoToken]
  /\ leads = [n \in Node |-> FALSE]
  /\ acked = [n \in Node |-> {}]
  /\ cycle = [n \in Node |-> Idle]
  /\ lock \in {NoNode, NoLock}
  /\ faults = 0
  /\ heard = [n \in Node |-> {}]

Fault == faults < MaxFaults /\ faults' = faults + 1
NoFault == faults' = faults

(***************************************************************************)
(* Gossip.                                                                 *)
(***************************************************************************)

\* m pings n: n learns of m, or hears from it again, and m takes the answer
\* as news of n if n is still in its peer map (it pinged, so it is).
Ping(m, n) ==
  /\ n \in peers[m] \/ m = n
  /\ peers' = [peers EXCEPT ![n] = @ \cup {m}, ![m] = @ \cup {n}]
  /\ healthy' = [healthy EXCEPT ![n] = @ \cup {m}, ![m] = @ \cup {n}]
  /\ healthy' # healthy
  /\ NoFault
  /\ UNCHANGED <<accepted, leads, acked, cycle, lock, heard>>

\* Discovery puts m in n's peer map; it stays unhealthy until a ping.
updateFromDiscovery(n, m) ==
  /\ m \notin peers[n]
  /\ peers' = [peers EXCEPT ![n] = @ \cup {m}]
  /\ NoFault
  /\ UNCHANGED <<healthy, accepted, leads, acked, cycle, lock, heard>>

\* n has not heard from m for HealthyTimeout.
Expire(n, m) ==
  /\ m \in healthy[n] \ {n}
  /\ Fault
  /\ healthy' = [healthy EXCEPT ![n] = @ \ {m}]
  /\ UNCHANGED <<peers, accepted, leads, acked, cycle, lock, heard>>

(***************************************************************************)
(* The leader notification, sent by BecomeLeader and AssertLeadership.     *)
(***************************************************************************)

\* addPeersFromView: only ids that are new to the peer map are added, and
\* those count as healthy at once.
HealthyWith(n, view) == healthy[n] \cup (view \ peers[n])

\* p refuses a view that misses a peer p holds for healthy.
Accepts(p, view) == HealthyWith(p, view) \subseteq view

\* accepted once the handler at p has seen n's notification.
Notified(p, n) == [accepted EXCEPT ![p] = IF Accepts(p, cycle[n].view) THEN n ELSE @]

\* Mutant: the wrong nil.
DroppedToNode(n, acc) == [p \in Node |-> IF acc[p] = n THEN NoNode ELSE acc[p]]

\* accepted (acc) once n has dropped its token.
Dropped(n, acc) == [p \in Node |-> IF acc[p] = n THEN NoToken ELSE acc[p]]

\* heard (history) once p has accepted n's token.
Heard(p, n) == [heard EXCEPT ![n] = IF Accepts(p, cycle[n].view) THEN @ \cup {p} ELSE @]

\* addPeersFromView and the decision, at p.
LeaderNotification(p, n) ==
  /\ peers' = [peers EXCEPT ![p] = @ \cup cycle[n].view]
  /\ healthy' = [healthy EXCEPT ![p] = HealthyWith(p, cycle[n].view)]

\* The iteration ends; a token that was still being announced is dropped.
EndCycle(n, acc, h) ==
  /\ cycle' = [cycle EXCEPT ![n] = Idle]
  /\ accepted' = IF leads[n] THEN acc ELSE Dropped(n, acc)
  /\ heard' = IF leads[n] THEN h ELSE [h EXCEPT ![n] = {}]

(***************************************************************************)
(* The controller loop, up to the point where it may act as the leader.    *)
(***************************************************************************)

\* Mutant: the lock is not looked at.
ElectWithoutLock(n) ==
  /\ cycle[n].pc = "idle"
  /\ n \in healthy[n]
  /\ \A p \in healthy[n] : n <= p
  /\ lock' = IF lock = NoLock THEN NoLock ELSE n
  /\ cycle' = [cycle EXCEPT ![n] = [Idle EXCEPT !.pc = "elected", !.peers = healthy[n]]]
  /\ NoFault
  /\ UNCHANGED <<peers, healthy, accepted, leads, acked, heard>>

\* run: we see ourselves and nobody lower, and hold the lock if there is one.
Elect(n) ==
  /\ cycle[n].pc = "idle"
  /\ n \in healthy[n]
  /\ \A p \in healthy[n] : n <= p
  /\ lock \in {n, NoNode, NoLock}
  /\ lock' = IF lock = NoLock THEN NoLock ELSE n
  /\ cycle' = [cycle EXCEPT ![n] = [Idle EXCEPT !.pc = "elected", !.peers = healthy[n]]]
  /\ NoFault
  /\ UNCHANGED <<peers, healthy, accepted, leads, acked, heard>>

\* Mutant: the lock is not given back.
NotElectedKeepsLock(n) ==
  /\ cycle[n].pc = "idle"
  /\ n \in healthy[n]
  /\ \E p \in healthy[n] : p < n
  /\ lock = n
  /\ NoFault
  /\ UNCHANGED <<peers, healthy, accepted, leads, acked, cycle, lock, heard>>

\* run: somebody lower is healthy; the leader lock is given back.  What the
\* controller remembers of its leadership stays.
NotElected(n) ==
  /\ cycle[n].pc = "idle"
  /\ n \in healthy[n]
  /\ \E p \in healthy[n] : p < n
  /\ lock = n
  /\ lock' = NoNode
  /\ NoFault
  /\ UNCHANGED <<peers, healthy, accepted, leads, acked, cycle, heard>>

\* The view that BecomeLeader and AssertLeadership send is a new snapshot.
Notify(n) ==
  /\ cycle[n].pc = "elected"
  /\ cycle' = [cycle EXCEPT ![n] = [@ EXCEPT !.pc = "notify", !.view = healthy[n], !.todo = healthy[n]]]
  /\ NoFault
  /\ UNCHANGED <<peers, healthy, accepted, leads, acked, lock, heard>>

BecomeLeader(n) == ~leads[n] /\ Notify(n)

AssertLeadership(n) == leads[n] /\ Notify(n)

\* One peer of the snapshot, in any order, is told and accepts.
NotifyAccepted(n, p) ==
  /\ cycle[n].pc = "notify"
  /\ p \in cycle[n].todo \cap healthy[n]
  /\ Accepts(p, cycle[n].view)
  /\ LeaderNotification(p, n)
  /\ accepted' = Notified(p, n)
  /\ heard' = Heard(p, n)
  /\ cycle' = [cycle EXCEPT ![n].todo = @ \ {p}]
  /\ NoFault
  /\ UNCHANGED <<leads, acked, lock>>

\* Mutant: the rejection is not looked at.
NotifyRejectedIgnored(n, p) ==
  /\ cycle[n].pc = "notify"
  /\ p \in cycle[n].todo \cap healthy[n]
  /\ ~Accepts(p, cycle[n].view)
  /\ LeaderNotification(p, n)
  /\ cycle' = [cycle EXCEPT ![n].todo = @ \ {p}]
  /\ NoFault
  /\ UNCHANGED <<accepted, leads, acked, lock, heard>>

\* It rejects: its view comes back and is added to ours, the claim is over.
NotifyRejected(n, p) ==
  /\ cycle[n].pc = "notify"
  /\ p \in cycle[n].todo \cap healthy[n]
  /\ ~Accepts(p, cycle[n].view)
  /\ LET back == HealthyWith(p, cycle[n].view)
     IN  /\ peers' = [peers EXCEPT ![p] = @ \cup cycle[n].view, ![n] = @ \cup back]
         /\ healthy' = [healthy EXCEPT ![p] = back, ![n] = HealthyWith(n, back)]
  /\ EndCycle(n, accepted, heard)
  /\ NoFault
  /\ UNCHANGED <<leads, acked, lock>>

\* The call reaches p but its answer is lost.
NotifyLost(n, p) ==
  /\ cycle[n].pc = "notify"
  /\ p \in cycle[n].todo \cap healthy[n]
  /\ Fault
  /\ LeaderNotification(p, n)
  /\ EndCycle(n, Notified(p, n), Heard(p, n))
  /\ UNCHANGED <<leads, acked, lock>>

\* GetPeerClient finds the peer no longer healthy.
NotifyUnhealthy(n, p) ==
  /\ cycle[n].pc = "notify"
  /\ p \in cycle[n].todo \ healthy[n]
  /\ EndCycle(n, accepted, heard)
  /\ NoFault
  /\ UNCHANGED <<peers, healthy, leads, acked, lock>>

\* Any other error that ends the iteration with nothing changed: no
\* connection, or the control store cannot be read.
CycleFails(n) ==
  /\ cycle[n].pc # "idle"
  /\ Fault
  /\ EndCycle(n, accepted, heard)
  /\ UNCHANGED <<peers, healthy, leads, acked, lock>>

\* Everybody was told.  A new leader waits for its next cycle.
Elected(n) ==
  /\ cycle[n].pc = "notify"
  /\ cycle[n].todo = {}
  /\ ~leads[n]
  /\ leads' = [leads EXCEPT ![n] = TRUE]
  /\ acked' = [acked EXCEPT ![n] = cycle[n].view]
  /\ cycle' = [cycle EXCEPT ![n] = Idle]
  /\ NoFault
  /\ UNCHANGED <<peers, healthy, accepted, lock, heard>>

\* Mutant: the iteration ends but the leadership is kept.
ResignForgotten(n) ==
  /\ cycle[n].pc = "notify"
  /\ cycle[n].todo = {}
  /\ leads[n]
  /\ ~(cycle[n].peers \subseteq acked[n])
  /\ cycle' = [cycle EXCEPT ![n] = Idle]
  /\ NoFault
  /\ UNCHANGED <<peers, healthy, accepted, leads, acked, lock, heard>>

\* A peer seen at the start of the cycle never acknowledged us: resign.
Resign(n) ==
  /\ cycle[n].pc = "notify"
  /\ cycle[n].todo = {}
  /\ leads[n]
  /\ ~(cycle[n].peers \subseteq acked[n])
  /\ leads' = [leads EXCEPT ![n] = FALSE]
  /\ acked' = [acked EXCEPT ![n] = {}]
  /\ accepted' = Dropped(n, accepted)
  /\ cycle' = [cycle EXCEPT ![n] = Idle]
  /\ NoFault
  /\ heard' = [heard EXCEPT ![n] = {}]
  /\ UNCHANGED <<peers, healthy, lock>>

\* "I am leader": ackedPeerCount = Cardinality(cycle[n].peers).
Lead(n) ==
  /\ cycle[n].pc = "notify"
  /\ cycle[n].todo = {}
  /\ leads[n]
  /\ cycle[n].peers \subseteq acked[n]
  /\ cycle' = [cycle EXCEPT ![n] = [@ EXCEPT !.pc = "lead", !.view = {}]]
  /\ NoFault
  /\ UNCHANGED <<peers, healthy, accepted, leads, acked, lock, heard>>

\* The rest of the iteration, modelled by the modules that extend this one.
EndLead(n) ==
  /\ cycle[n].pc = "lead"
  /\ cycle' = [cycle EXCEPT ![n] = Idle]
  /\ NoFault
  /\ UNCHANGED <<peers, healthy, accepted, leads, acked, lock, heard>>

(***************************************************************************)
(* The environment.                                                        *)
(***************************************************************************)

\* etcd-manager on n stops and starts again: all of this state is in memory.
\* A flock goes with its holder.
Restart(n) ==
  /\ Fault
  /\ peers' = [peers EXCEPT ![n] = {}]
  /\ healthy' = [healthy EXCEPT ![n] = {}]
  /\ accepted' = Dropped(n, [accepted EXCEPT ![n] = NoToken])
  /\ leads' = [leads EXCEPT ![n] = FALSE]
  /\ acked' = [acked EXCEPT ![n] = {}]
  /\ cycle' = [cycle EXCEPT ![n] = Idle]
  /\ lock' = IF lock = n THEN NoNode ELSE lock
  /\ heard' = [heard EXCEPT ![n] = {}]

Gossip(n) == \E m \in Node : Ping(m, n) \/ updateFromDiscovery(n, m)

Claim(n) ==
  \/ Elect(n) \/ NotElected(n)
  \/ BecomeLeader(n) \/ AssertLeadership(n)
  \/ \E p \in Node : NotifyAccepted(n, p) \/ NotifyRejected(n, p) \/ NotifyUnhealthy(n, p)
  \/ Elected(n) \/ Resign(n) \/ Lead(n)

ClaimFaults(n) == CycleFails(n) \/ \E p \in Node : Expire(n, p) \/ NotifyLost(n, p)

Next == \E n \in Node : Gossip(n) \/ Claim(n) \/ EndLead(n) \/ ClaimFaults(n) \/ Restart(n)

\* Pings repeat every PingInterval, discovery every DiscoveryPollInterval and
\* the controller loop every CycleInterval, each in a goroutine of its own.
Fairness ==
  \A n \in Node :
    /\ WF_vars(Claim(n) \/ EndLead(n))
    /\ \A m \in Node : WF_vars(Ping(m, n)) /\ WF_vars(updateFromDiscovery(n, m))

Spec == Init /\ [][Next]_vars
FairSpec == Spec /\ Fairness

(***************************************************************************)
(* Properties.                                                             *)
(***************************************************************************)

\* Every peer that the controller counts before an unsafe operation
\* (ackedPeerCount) did accept the very token that its calls will carry.
CountedPeersAcked ==
  \A n \in Node : cycle[n].pc = "lead" =>
    leads[n] /\ cycle[n].peers \subseteq heard[n]

\* With a leader lock, two controllers never claim or use the leadership at
\* the same time ("this is how we don't form multiple clusters").
LockExclusive ==
  lock # NoLock => \A m, n \in Node :
    cycle[m].pc # "idle" /\ cycle[n].pc # "idle" => m = n

Lowest(n) == \A p \in Node : n <= p

\* Once faults stop (there are at most MaxFaults) every server ends up
\* accepting the token of the lowest node for good, whatever claims were under
\* way: no two controllers keep taking the leadership from each other.
EventualAgreement ==
  \A n \in Node : Lowest(n) =>
    <>[](leads[n] /\ \A p \in Node : accepted[p] = n)

\* and that node gets to act again and again, with every peer counted.
LeaderActs ==
  \A n \in Node : Lowest(n) => []<>(cycle[n].pc = "lead" /\ cycle[n].peers = Node)

=============================================================================
