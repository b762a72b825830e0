----------------------------- MODULE Participant -----------------------------
(***************************************************************************)
(* What an etcd-manager node promises to the leader: the abstract view of  *)
(* pkg/etcd/etcdserver.go, in which every request takes effect in one step.*)
(*                                                                         *)
(* A node is a member of at most one etcd cluster, it remembers which one  *)
(* across restarts, and it runs etcd for that cluster and no other.  It    *)
(* joins only a cluster it has prepared for.  EtcdServer refines this      *)
(* module; the modules about the controller are built on it.  Who may send *)
(* the requests (the leadership token) is left to them.                    *)
(***************************************************************************)
CONSTANTS Node, Cluster, Version, None

VARIABLES
  prepared,  \* prepared[n]: the cluster n has prepared to join, or None
  member,    \* member[n]: the durable EtcdState of n, or None
  run        \* run[n]: the cluster n runs etcd for, or None

partVars == <<prepared, member, run>>

EtcdState == [cluster : Cluster, nodes : SUBSET Node,
              quarantined : BOOLEAN, version : Version]

TypeOK ==
  /\ prepared \in [Node -> Cluster \cup {None}]
  /\ member \in [Node -> EtcdState \cup {None}]
  /\ run \in [Node -> Cluster \cup {None}]

Init ==
  /\ prepared = [n \in Node |-> None]
  /\ member = [n \in Node |-> None]
  /\ run = [n \in Node |-> None]

\* PHASE_PREPARE
CanPrepare(n) == run[n] = None /\ prepared[n] = None

Prepare(n, c) ==
  /\ CanPrepare(n)
  /\ prepared' = [prepared EXCEPT ![n] = c]
  /\ UNCHANGED <<member, run>>

\* PHASE_CANCEL_PREPARE, an expired preparation, or a completed one
Unprepare(n) ==
  /\ prepared[n] # None
  /\ prepared' = [prepared EXCEPT ![n] = None]
  /\ UNCHANGED <<member, run>>

\* PHASE_INITIAL_CLUSTER, PHASE_JOIN_EXISTING: n becomes a member as s says.
CanJoin(n, c) == run[n] = None /\ prepared[n] = c

\* A join that also started etcd is complete and drops its preparation.
Join(n, s, started) ==
  /\ CanJoin(n, s.cluster)
  /\ member' = [member EXCEPT ![n] = s]
  /\ run' = [run EXCEPT ![n] = IF started THEN s.cluster ELSE None]
  /\ prepared' = [prepared EXCEPT ![n] = IF started THEN None ELSE @]

\* Reconfigure: same cluster, perhaps another version or quarantine.
Reconfigure(n, s, started) ==
  /\ member[n] # None
  /\ s.cluster = member[n].cluster /\ s.nodes = member[n].nodes
  /\ member' = [member EXCEPT ![n] = s]
  /\ run' = [run EXCEPT ![n] = IF started THEN s.cluster ELSE None]
  /\ UNCHANGED prepared

\* StopEtcd
Stop(n) ==
  /\ member[n] # None
  /\ member' = [member EXCEPT ![n] = None]
  /\ run' = [run EXCEPT ![n] = None]
  /\ UNCHANGED prepared

\* etcd is started, by a handler or by the periodic check; a join is then
\* complete and its preparation may be dropped
Start(n) ==
  /\ run[n] = None
  /\ member[n] # None
  /\ run' = [run EXCEPT ![n] = member[n].cluster]
  /\ prepared' \in {prepared, [prepared EXCEPT ![n] = None]}
  /\ UNCHANGED member

\* etcd exits or is stopped
Exit(n) ==
  /\ run[n] # None
  /\ run' = [run EXCEPT ![n] = None]
  /\ UNCHANGED <<prepared, member>>

\* etcd-manager exits, and etcd and what is only in memory with it
Crash(n) ==
  /\ prepared' = [prepared EXCEPT ![n] = None]
  /\ run' = [run EXCEPT ![n] = None]
  /\ UNCHANGED member

Next ==
  \E n \in Node :
    \/ \E c \in Cluster : Prepare(n, c)
    \/ \E s \in EtcdState, started \in BOOLEAN : Join(n, s, started) \/ Reconfigure(n, s, started)
    \/ Unprepare(n) \/ Stop(n) \/ Start(n) \/ Exit(n) \/ Crash(n)

Spec == Init /\ [][Next]_partVars

=============================================================================
