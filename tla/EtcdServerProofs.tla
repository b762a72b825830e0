-------------------------- MODULE EtcdServerProofs --------------------------
(***************************************************************************)
(* Proofs about EtcdServer, for any nodes, clusters, versions and leaders, *)
(* and any number of failures.                                             *)
(***************************************************************************)
EXTENDS EtcdServer, TLAPS

\* What process p was started with is what state s says.
Matches(p, s) ==
  /\ HasCluster(s)
  /\ p.cluster = s.cluster /\ p.quarantined = s.quarantined /\ p.version = s.version

\* The control state of a handler and what it says about n.
NodeInv(n) ==
  /\ HasCluster(state[n]) => state[n].version \in Version
  /\ HasCluster(disk[n]) => disk[n].version \in Version
  /\ ~up[n] => handler[n] = NoHandler /\ process[n] = None /\ state[n] = None
  /\ process[n] # None => Matches(process[n], state[n])
  /\ handler[n].pc = "none" <=> handler[n].op = "none"
  /\ handler[n].pc \in {"write", "start"} => process[n] = None
  /\ handler[n].pc = "write2" => handler[n].op = "initial"
  /\ handler[n].op \in {"initial", "join", "reconfigure"} => HasCluster(state[n])
  /\ handler[n].op = "stop" => handler[n].pc = "write" /\ state[n] = Blank

EInv == TypeOK /\ \A n \in Node : NodeInv(n)

LEMMA StateTypes ==
  /\ Blank \in EtcdState /\ ~HasCluster(Blank) /\ ~HasCluster(None)
  /\ NoHandler \in Handler
  /\ \A s \in EtcdState : HasCluster(s) <=> s.cluster \in Cluster
  /\ \A s \in EtcdState : HasCluster(s) /\ s.version \in Version => Started(s) \in Process
  BY NoneAssumption, NilAssumption DEF Blank, EtcdState, HasCluster, NoHandler, Handler, Started, Process

\* What JoinCluster stores is a state with a cluster.
LEMMA JoinedState ==
  ASSUME NEW op, NEW c \in Cluster, NEW nodes \in SUBSET Node, NEW v \in Version
  PROVE  Joined(op, c, nodes, v) \in EtcdState
  BY DEF Joined, EtcdState

LEMMA InitEInv == Init => EInv
  BY MaxFaultsAssumption, StateTypes DEF Init, EInv, TypeOK, NodeInv, NoHandler

\* Type correctness: every step of every handler keeps it.
LEMMA NextTypeOK == EInv /\ [Next]_vars => TypeOK'
<1> SUFFICES ASSUME EInv, [Next]_vars PROVE TypeOK'
  OBVIOUS
<1> USE MaxFaultsAssumption, StateTypes DEF EInv, TypeOK, NoFault, Fault
<1>1. ASSUME NEW n \in Node, NEW t \in Leader, LeaderNotification(n, t) PROVE TypeOK'
  BY <1>1 DEF LeaderNotification
<1>2. ASSUME NEW n \in Node, PreparedExpires(n) PROVE TypeOK'
  BY <1>2 DEF PreparedExpires
<1>3. ASSUME NEW n \in Node, NEW t \in Leader, NEW c \in Cluster, JoinPrepare(n, t, c) PROVE TypeOK'
  BY <1>3 DEF JoinPrepare
<1>4. ASSUME NEW n \in Node, NEW t \in Leader, NEW c \in Cluster, JoinCancelPrepare(n, t, c) PROVE TypeOK'
  BY <1>4 DEF JoinCancelPrepare
<1>5. ASSUME NEW n \in Node, NEW t \in Leader, NEW op \in {"initial", "join"}, NEW c \in Cluster,
             NEW nodes \in SUBSET Node, NEW v \in Version, JoinBegin(n, t, op, c, nodes, v)
      PROVE  TypeOK'
  <2>1. [op |-> op, pc |-> "write"] \in Handler
    BY DEF Handler
  <2> QED
    BY <1>5, <2>1, JoinedState DEF JoinBegin
<1>6. ASSUME NEW n \in Node, NEW t \in Leader, NEW q \in BOOLEAN, NEW v \in Version,
             ReconfigureBegin(n, t, q, v)
      PROVE  TypeOK'
  <2>1. [op |-> "reconfigure", pc |-> "write"] \in Handler
    BY DEF Handler
  <2>2. state[n] \in EtcdState
    BY <1>6 DEF ReconfigureBegin, HasCluster
  <2>3. state' \in [Node -> EtcdState \cup {None}]
    BY <1>6, <2>2 DEF ReconfigureBegin, EtcdState
  <2> QED
    BY <1>6, <2>1, <2>3 DEF ReconfigureBegin
<1>7. ASSUME NEW n \in Node, NEW t \in Leader, StopBegin(n, t) PROVE TypeOK'
  <2>1. [op |-> "stop", pc |-> "write"] \in Handler
    BY DEF Handler
  <2> QED
    BY <1>7, <2>1 DEF StopBegin
<1>8. ASSUME NEW n \in Node, NEW t \in Leader, NilClusterPanic(n, t) PROVE TypeOK'
  BY <1>8 DEF NilClusterPanic
<1>9. ASSUME NEW n \in Node, WriteState(n) PROVE TypeOK'
  <2>1. handler' \in [Node -> Handler]
    BY <1>9 DEF WriteState, Handler, NoHandler
  <2> QED
    BY <1>9, <2>1 DEF WriteState
<1>10. ASSUME NEW n \in Node, WriteFails(n) PROVE TypeOK'
  BY <1>10 DEF WriteFails, Return
<1>11. ASSUME NEW n \in Node, StartEtcd(n) PROVE TypeOK'
  <2>1. NodeInv(n) /\ handler[n].op \in {"initial", "join", "reconfigure"}
    BY <1>11 DEF StartEtcd, NodeInv, Handler
  <2>2. HasCluster(state[n]) /\ state[n] \in EtcdState /\ state[n].version \in Version
    BY <2>1 DEF NodeInv, HasCluster
  <2>3. process' \in [Node -> Process \cup {None}]
    BY <1>11, <2>2 DEF StartEtcd
  <2>4. state' \in [Node -> EtcdState \cup {None}]
    BY <1>11, <2>2 DEF StartEtcd, EtcdState
  <2>5. handler' \in [Node -> Handler]
    BY <1>11 DEF StartEtcd, Handler, NoHandler
  <2> QED
    BY <1>11, <2>3, <2>4, <2>5 DEF StartEtcd
<1>12. ASSUME NEW n \in Node, StartFails(n) PROVE TypeOK'
  BY <1>12 DEF StartFails, Return
<1>13. ASSUME NEW n \in Node, WriteInitialised(n) PROVE TypeOK'
  BY <1>13 DEF WriteInitialised, Return
<1>14. ASSUME NEW n \in Node, runOnce(n) PROVE TypeOK'
  <2>1. HasCluster(state[n]) => Started(state[n]) \in Process
    BY DEF NodeInv, HasCluster
  <2> QED
    BY <1>14, <2>1 DEF runOnce
<1>15. ASSUME NEW n \in Node, runOnceFails(n) PROVE TypeOK'
  BY <1>15 DEF runOnceFails
<1>16. ASSUME NEW n \in Node, EtcdExits(n) PROVE TypeOK'
  <2>1. process[n] \in Process
    BY <1>16 DEF EtcdExits
  <2>2. [process[n] EXCEPT !.exited = TRUE] \in Process
    BY <2>1 DEF Process
  <2>3. process' \in [Node -> Process \cup {None}]
    BY <1>16, <2>2 DEF EtcdExits
  <2> QED
    BY <1>16, <2>3 DEF EtcdExits
<1>17. ASSUME NEW n \in Node, Crash(n) PROVE TypeOK'
  BY <1>17 DEF Crash, CrashedDisk, Return
<1>18. ASSUME NEW n \in Node, NewEtcdServer(n) PROVE TypeOK'
  BY <1>18 DEF NewEtcdServer
<1>19. CASE UNCHANGED vars
  BY <1>19 DEF vars
<1> QED
  BY <1>1, <1>2, <1>3, <1>4, <1>5, <1>6, <1>7, <1>8, <1>9, <1>10, <1>11, <1>12, <1>13, <1>14,
     <1>15, <1>16, <1>17, <1>18, <1>19 DEF Next, Writable, Request, Step

\* A node that a step does not touch keeps its invariant.
LEMMA NodeFrame ==
  ASSUME NEW m \in Node, NodeInv(m),
         up'[m] = up[m], state'[m] = state[m], disk'[m] = disk[m],
         process'[m] = process[m], handler'[m] = handler[m]
  PROVE  NodeInv(m)'
  BY DEF NodeInv

LEMMA NextNodeInv == EInv /\ [Next]_vars => \A m \in Node : NodeInv(m)'
<1> SUFFICES ASSUME EInv, [Next]_vars, NEW m \in Node PROVE NodeInv(m)'
  OBVIOUS
<1> USE StateTypes DEF EInv, TypeOK
<1>1. ASSUME NEW n \in Node, NEW t \in Leader, LeaderNotification(n, t) PROVE NodeInv(m)'
  BY <1>1, NodeFrame DEF LeaderNotification
<1>2. ASSUME NEW n \in Node, PreparedExpires(n) PROVE NodeInv(m)'
  BY <1>2, NodeFrame DEF PreparedExpires
<1>3. ASSUME NEW n \in Node, NEW t \in Leader, NEW c \in Cluster,
             JoinPrepare(n, t, c) \/ JoinCancelPrepare(n, t, c)
      PROVE  NodeInv(m)'
  BY <1>3, NodeFrame DEF JoinPrepare, JoinCancelPrepare
<1>5. ASSUME NEW n \in Node, NEW t \in Leader, NEW op \in {"initial", "join"}, NEW c \in Cluster,
             NEW nodes \in SUBSET Node, NEW v \in Version, JoinBegin(n, t, op, c, nodes, v)
      PROVE  NodeInv(m)'
  <2>1. CASE m = n
    <3>1. HasCluster(state'[n]) => state'[n].version \in Version
      BY <1>5 DEF JoinBegin, Joined
    <3>2. HasCluster(state'[n])
      BY <1>5, JoinedState DEF JoinBegin, Joined
    <3> QED
      BY <1>5, <2>1, <3>1, <3>2 DEF JoinBegin, Admitted, Free, NodeInv
  <2>2. CASE m # n
    BY <1>5, <2>2, NodeFrame DEF JoinBegin
  <2> QED
    BY <2>1, <2>2
<1>6. ASSUME NEW n \in Node, NEW t \in Leader, NEW q \in BOOLEAN, NEW v \in Version,
             ReconfigureBegin(n, t, q, v)
      PROVE  NodeInv(m)'
  <2>1. CASE m = n
    <3>1. state[n] \in EtcdState
      BY <1>6 DEF ReconfigureBegin, HasCluster
    <3>2. state'[n] \in EtcdState /\ state'[n].cluster = state[n].cluster /\ state'[n].version = v
      BY <1>6, <3>1 DEF ReconfigureBegin, EtcdState
    <3>3. HasCluster(state'[n])
      BY <1>6, <3>1, <3>2 DEF ReconfigureBegin
    <3> QED
      BY <1>6, <2>1, <3>2, <3>3 DEF ReconfigureBegin, Admitted, Free, NodeInv
  <2>2. CASE m # n
    BY <1>6, <2>2, NodeFrame DEF ReconfigureBegin
  <2> QED
    BY <2>1, <2>2
<1>7. ASSUME NEW n \in Node, NEW t \in Leader, StopBegin(n, t) PROVE NodeInv(m)'
  <2>1. CASE m = n
    BY <1>7, <2>1 DEF StopBegin, Admitted, Free, NodeInv
  <2>2. CASE m # n
    BY <1>7, <2>2, NodeFrame DEF StopBegin
  <2> QED
    BY <2>1, <2>2
<1>8. ASSUME NEW n \in Node, NEW t \in Leader, NilClusterPanic(n, t) PROVE NodeInv(m)'
  <2>1. CASE m = n
    BY <1>8, <2>1 DEF NilClusterPanic, Admitted, Free, NodeInv, NoHandler
  <2>2. CASE m # n
    BY <1>8, <2>2, NodeFrame DEF NilClusterPanic
  <2> QED
    BY <2>1, <2>2
<1>9. ASSUME NEW n \in Node, WriteState(n) PROVE NodeInv(m)'
  <2>1. CASE m = n
    BY <1>9, <2>1 DEF WriteState, NodeInv, NoHandler, Handler
  <2>2. CASE m # n
    BY <1>9, <2>2, NodeFrame DEF WriteState
  <2> QED
    BY <2>1, <2>2
<1>10. ASSUME NEW n \in Node, WriteFails(n) \/ StartFails(n) PROVE NodeInv(m)'
  <2>1. CASE m = n
    BY <1>10, <2>1 DEF WriteFails, StartFails, Return, NodeInv, NoHandler
  <2>2. CASE m # n
    BY <1>10, <2>2, NodeFrame DEF WriteFails, StartFails, Return
  <2> QED
    BY <2>1, <2>2
<1>11. ASSUME NEW n \in Node, StartEtcd(n) PROVE NodeInv(m)'
  <2>1. CASE m = n
    <3>1. NodeInv(n) /\ handler[n].op \in {"initial", "join", "reconfigure"}
      BY <1>11 DEF StartEtcd, NodeInv, Handler
    <3>2. HasCluster(state[n]) /\ state[n] \in EtcdState
      BY <3>1 DEF NodeInv, HasCluster
    <3>3. /\ state'[n] \in EtcdState
          /\ state'[n].cluster = state[n].cluster /\ state'[n].version = state[n].version
          /\ state'[n].quarantined = state[n].quarantined
      BY <1>11, <3>2 DEF StartEtcd, EtcdState
    <3>4. HasCluster(state'[n])
      BY <3>2, <3>3
    <3>5. Matches(process'[n], state'[n])
      BY <1>11, <3>3, <3>4 DEF StartEtcd, Started, Matches
    <3>6. \/ handler'[n].pc = "none" /\ handler'[n].op = "none"
          \/ handler'[n].pc = "write2" /\ handler'[n].op = "initial"
      BY <1>11, <3>1 DEF StartEtcd, NoHandler, Handler
    <3>7. up[n] /\ up'[n] = up[n] /\ disk'[n] = disk[n]
      BY <1>11, <3>1 DEF StartEtcd, NodeInv, NoHandler
    <3> QED
      BY <2>1, <3>1, <3>2, <3>3, <3>4, <3>5, <3>6, <3>7 DEF NodeInv
  <2>2. CASE m # n
    BY <1>11, <2>2, NodeFrame DEF StartEtcd
  <2> QED
    BY <2>1, <2>2
<1>13. ASSUME NEW n \in Node, WriteInitialised(n) PROVE NodeInv(m)'
  <2>1. CASE m = n
    BY <1>13, <2>1 DEF WriteInitialised, Return, NodeInv, NoHandler
  <2>2. CASE m # n
    BY <1>13, <2>2, NodeFrame DEF WriteInitialised, Return
  <2> QED
    BY <2>1, <2>2
<1>14. ASSUME NEW n \in Node, runOnce(n) \/ runOnceFails(n) PROVE NodeInv(m)'
  <2>1. CASE m = n
    BY <1>14, <2>1 DEF runOnce, runOnceFails, Free, NodeInv, NoHandler, Started, Matches
  <2>2. CASE m # n
    BY <1>14, <2>2, NodeFrame DEF runOnce, runOnceFails
  <2> QED
    BY <2>1, <2>2
<1>16. ASSUME NEW n \in Node, EtcdExits(n) PROVE NodeInv(m)'
  <2>1. CASE m = n
    <3>1. process[n] \in Process
      BY <1>16 DEF EtcdExits
    <3>2. /\ process'[n].cluster = process[n].cluster /\ process'[n].version = process[n].version
          /\ process'[n].quarantined = process[n].quarantined
      BY <1>16, <3>1 DEF EtcdExits, Process
    <3> QED
      BY <1>16, <2>1, <3>2 DEF EtcdExits, NodeInv, Matches
  <2>2. CASE m # n
    BY <1>16, <2>2, NodeFrame DEF EtcdExits
  <2> QED
    BY <2>1, <2>2
<1>17. ASSUME NEW n \in Node, Crash(n) PROVE NodeInv(m)'
  <2>1. CASE m = n
    <3>1. HasCluster(disk'[n]) => disk'[n] = disk[n]
      BY <1>17 DEF Crash, CrashedDisk, HasCluster
    <3> QED
      BY <1>17, <2>1, <3>1 DEF Crash, Return, NodeInv, NoHandler
  <2>2. CASE m # n
    BY <1>17, <2>2, NodeFrame DEF Crash, Return
  <2> QED
    BY <2>1, <2>2
<1>18. ASSUME NEW n \in Node, NewEtcdServer(n) PROVE NodeInv(m)'
  <2>1. CASE m = n
    BY <1>18, <2>1 DEF NewEtcdServer, NodeInv, NoHandler
  <2>2. CASE m # n
    BY <1>18, <2>2, NodeFrame DEF NewEtcdServer
  <2> QED
    BY <2>1, <2>2
<1>19. CASE UNCHANGED vars
  BY <1>19, NodeFrame DEF vars
<1> QED
  BY <1>1, <1>2, <1>3, <1>5, <1>6, <1>7, <1>8, <1>9, <1>10, <1>11, <1>13, <1>14, <1>16, <1>17,
     <1>18, <1>19 DEF Next, Writable, Request, Step

\* The invariant of the handlers holds whatever fails.
THEOREM EtcdServerInvariant == Spec => []EInv
<1>1. EInv /\ [Next]_vars => EInv'
  BY NextTypeOK, NextNodeInv DEF EInv
<1> QED
  BY InitEInv, <1>1, PTL DEF Spec

\* Every variable of the server keeps its type, whatever fails.
THEOREM EtcdServerTypeOK == Spec => []TypeOK
<1>1. EInv => TypeOK
  BY DEF EInv
<1> QED
  BY EtcdServerInvariant, <1>1, PTL

\* Whatever fails, and wherever in a handler, etcd runs only for the cluster
\* of the state in memory (JoinCluster, Reconfigure, StopEtcd, runOnce).
THEOREM NoStrayProcess == Spec => []RunsWhatItKnows
<1>1. EInv => RunsWhatItKnows
  BY DEF EInv, NodeInv, Matches, RunsWhatItKnows
<1> QED
  BY EtcdServerInvariant, <1>1, PTL

=============================================================================
