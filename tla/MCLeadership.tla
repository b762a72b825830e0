---------------------------- MODULE MCLeadership ----------------------------
(* Small instances of Leadership for TLC. *)
EXTENDS Leadership

CONSTANT Late   \* nodes that may turn up when the others have found each other

\* Gossip has introduced all nodes to each other, as it does before their first
\* controller iterations; or all but the late ones, and then nothing fails.
MCInit ==
  /\ \E started \in {Node, Node \ Late} :
       /\ peers = [n \in Node |-> IF n \in started THEN started ELSE {}]
       /\ faults = IF started = Node THEN 0 ELSE MaxFaults
  /\ healthy = peers
  /\ accepted = [n \in Node |-> NoToken]
  /\ leads = [n \in Node |-> FALSE]
  /\ acked = [n \in Node |-> {}]
  /\ cycle = [n \in Node |-> Idle]
  /\ lock \in {NoNode, NoLock}
  /\ heard = [n \in Node |-> {}]

MCFairSpec == MCInit /\ [][Next]_vars /\ Fairness
=============================================================================
