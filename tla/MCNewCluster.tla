---------------------------- MODULE MCNewCluster ----------------------------
(* Small instances of NewCluster for TLC. *)
EXTENDS NewCluster

CONSTANT Late   \* the nodes that nobody has heard from yet, if there is no lock

\* Discovery has told every node of all others, and the nodes that did not
\* start late have pinged each other: a state that gossip reaches.  With a leader
\* lock nobody is late, but faults happen (and one attempt is spent, to bound the
\* run); without one the leaders are fault enough.
MCInit ==
  /\ lock \in {NoNode, NoLock}
  /\ faults = IF lock = NoNode THEN 0 ELSE MaxFaults
  /\ peers = [n \in Node |-> Node]
  /\ healthy = [n \in Node |-> IF lock = NoNode THEN Node ELSE IF n \in Late THEN {n} ELSE Node \ Late]
  /\ accepted = [n \in Node |-> NoToken]
  /\ leads = [n \in Node |-> FALSE]
  /\ acked = [n \in Node |-> {}]
  /\ cycle = [n \in Node |-> Idle]
  /\ heard = [n \in Node |-> {}]
  /\ P!Init
  /\ job = [n \in Node |-> NoJob]
  /\ used = IF lock = NoLock THEN {} ELSE {1}
  /\ marked = {}

MCSpec == MCInit /\ [][NCNext]_ncVars
MCSpecWithoutLock == lock = NoLock /\ MCSpec
=============================================================================
