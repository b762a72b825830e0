------------------------ MODULE EtcdServerRefinement ------------------------
(***************************************************************************)
(* EtcdServer implements Participant as long as the state file can be      *)
(* written, and what etcd runs with is then always what the file says.     *)
(***************************************************************************)
EXTENDS EtcdServerProofs

\* Two states tell the same about the cluster.
Agree(s, d) ==
  /\ HasCluster(s) <=> HasCluster(d)
  /\ HasCluster(s) => /\ s.cluster = d.cluster /\ s.nodes = d.nodes
                      /\ s.quarantined = d.quarantined /\ s.version = d.version

\* The file is behind the memory only while a handler is about to write it,
\* and then what the handler checked at its start still holds.
DiskInv(n) ==
  /\ up[n] /\ handler[n].pc # "write" => Agree(state[n], disk[n])
  /\ handler[n].pc = "write" /\ handler[n].op \in {"initial", "join"} =>
       prepared[n] = state[n].cluster
  /\ handler[n].pc = "write" /\ handler[n].op = "reconfigure" =>
       /\ HasCluster(disk[n])
       /\ disk[n].cluster = state[n].cluster /\ disk[n].nodes = state[n].nodes
  /\ handler[n].pc = "write" /\ handler[n].op = "stop" => HasCluster(disk[n])

DInv == EInv /\ \A n \in Node : DiskInv(n)

LEMMA InitDInv == Init => DInv
  BY InitEInv, StateTypes DEF Init, DInv, DiskInv, NoHandler, Agree

LEMMA DiskFrame ==
  ASSUME NEW m \in Node, DiskInv(m),
         up'[m] = up[m], state'[m] = state[m], disk'[m] = disk[m],
         prepared'[m] = prepared[m], handler'[m] = handler[m]
  PROVE  DiskInv(m)'
  BY DEF DiskInv

\* Outside of handlers the preparation does not matter.
LEMMA DiskFrameFree ==
  ASSUME NEW m \in Node, DiskInv(m), handler[m] = NoHandler,
         up'[m] = up[m], state'[m] = state[m], disk'[m] = disk[m], handler'[m] = handler[m]
  PROVE  DiskInv(m)'
  BY DEF DiskInv, NoHandler

LEMMA NextDiskInv ==
  ASSUME "write" \notin Failures, DInv, [Next]_vars, NEW m \in Node
  PROVE  DiskInv(m)'
<1> USE StateTypes DEF DInv, EInv, TypeOK
<1>1. ASSUME NEW n \in Node, NEW t \in Leader, LeaderNotification(n, t) PROVE DiskInv(m)'
  BY <1>1, DiskFrame DEF LeaderNotification
<1>2. ASSUME NEW n \in Node, PreparedExpires(n) PROVE DiskInv(m)'
  BY <1>2, DiskFrame, DiskFrameFree DEF PreparedExpires, Free
<1>3. ASSUME NEW n \in Node, NEW t \in Leader, NEW c \in Cluster,
             JoinPrepare(n, t, c) \/ JoinCancelPrepare(n, t, c)
      PROVE  DiskInv(m)'
  BY <1>3, DiskFrame, DiskFrameFree DEF JoinPrepare, JoinCancelPrepare, Admitted, Free
<1>4. ASSUME NEW n \in Node, NEW t \in Leader, NEW op \in {"initial", "join"}, NEW c \in Cluster,
             NEW nodes \in SUBSET Node, NEW v \in Version, JoinBegin(n, t, op, c, nodes, v)
      PROVE  DiskInv(m)'
  <2>1. CASE m = n
    BY <1>4, <2>1 DEF JoinBegin, Joined, DiskInv
  <2>2. CASE m # n
    BY <1>4, <2>2, DiskFrame DEF JoinBegin
  <2> QED
    BY <2>1, <2>2
<1>5. ASSUME NEW n \in Node, NEW t \in Leader, NEW q \in BOOLEAN, NEW v \in Version,
             ReconfigureBegin(n, t, q, v)
      PROVE  DiskInv(m)'
  <2>1. CASE m = n
    <3>1. Agree(state[n], disk[n]) /\ HasCluster(state[n])
      BY <1>5 DEF ReconfigureBegin, Admitted, Free, NoHandler, DiskInv
    <3>2. state[n] \in EtcdState
      BY <1>5 DEF ReconfigureBegin, HasCluster
    <3>3. state'[n].cluster = state[n].cluster /\ state'[n].nodes = state[n].nodes
      BY <1>5, <3>2 DEF ReconfigureBegin, EtcdState
    <3>4. /\ handler'[n].pc = "write" /\ handler'[n].op = "reconfigure"
          /\ disk'[n] = disk[n]
      BY <1>5 DEF ReconfigureBegin
    <3> QED
      BY <2>1, <3>1, <3>3, <3>4 DEF Agree, DiskInv
  <2>2. CASE m # n
    BY <1>5, <2>2, DiskFrame DEF ReconfigureBegin
  <2> QED
    BY <2>1, <2>2
<1>6. ASSUME NEW n \in Node, NEW t \in Leader, StopBegin(n, t) PROVE DiskInv(m)'
  <2>1. CASE m = n
    BY <1>6, <2>1 DEF StopBegin, Admitted, Free, NoHandler, Agree, DiskInv
  <2>2. CASE m # n
    BY <1>6, <2>2, DiskFrame DEF StopBegin
  <2> QED
    BY <2>1, <2>2
<1>7. ASSUME NEW n \in Node, NEW t \in Leader, NilClusterPanic(n, t) PROVE DiskInv(m)'
  <2>1. CASE m = n
    BY <1>7, <2>1 DEF NilClusterPanic, Admitted, Free, NoHandler, DiskInv
  <2>2. CASE m # n
    BY <1>7, <2>2, DiskFrame DEF NilClusterPanic
  <2> QED
    BY <2>1, <2>2
<1>8. ASSUME NEW n \in Node, WriteState(n) PROVE DiskInv(m)'
  <2>1. CASE m = n
    <3>1. handler'[n].pc # "write" /\ disk'[n] = state'[n]
      BY <1>8 DEF WriteState, NoHandler, Handler
    <3> QED
      BY <2>1, <3>1 DEF DiskInv, Agree
  <2>2. CASE m # n
    BY <1>8, <2>2, DiskFrame DEF WriteState
  <2> QED
    BY <2>1, <2>2
<1>9. ASSUME NEW n \in Node, WriteFails(n) PROVE DiskInv(m)'
  BY <1>9 DEF WriteFails, Fault
<1>10. ASSUME NEW n \in Node, StartFails(n) PROVE DiskInv(m)'
  <2>1. CASE m = n
    BY <1>10, <2>1 DEF StartFails, Return, NoHandler, DiskInv
  <2>2. CASE m # n
    BY <1>10, <2>2, DiskFrame DEF StartFails, Return
  <2> QED
    BY <2>1, <2>2
<1>11. ASSUME NEW n \in Node, StartEtcd(n) PROVE DiskInv(m)'
  <2>1. CASE m = n
    <3>1. HasCluster(state[n]) /\ state[n] \in EtcdState /\ up[n]
      BY <1>11 DEF StartEtcd, NodeInv, Handler, NoHandler, HasCluster
    <3>2. Agree(state[n], disk[n])
      BY <1>11, <3>1 DEF StartEtcd, DiskInv
    <3>3. /\ state'[n] \in EtcdState
          /\ state'[n].cluster = state[n].cluster /\ state'[n].nodes = state[n].nodes
          /\ state'[n].quarantined = state[n].quarantined /\ state'[n].version = state[n].version
      BY <1>11, <3>1 DEF StartEtcd, EtcdState
    <3>4. handler'[n].pc # "write" /\ disk'[n] = disk[n]
      BY <1>11 DEF StartEtcd, NoHandler, Handler
    <3>5. Agree(state'[n], disk'[n])
      BY <3>1, <3>2, <3>3, <3>4 DEF Agree
    <3> QED
      BY <2>1, <3>4, <3>5 DEF DiskInv
  <2>2. CASE m # n
    BY <1>11, <2>2, DiskFrame DEF StartEtcd
  <2> QED
    BY <2>1, <2>2
<1>12. ASSUME NEW n \in Node, WriteInitialised(n) PROVE DiskInv(m)'
  <2>1. CASE m = n
    BY <1>12, <2>1 DEF WriteInitialised, Return, NoHandler, DiskInv, Agree
  <2>2. CASE m # n
    BY <1>12, <2>2, DiskFrame DEF WriteInitialised, Return
  <2> QED
    BY <2>1, <2>2
<1>13. ASSUME NEW n \in Node, runOnce(n) \/ runOnceFails(n) \/ EtcdExits(n) PROVE DiskInv(m)'
  BY <1>13, DiskFrame DEF runOnce, runOnceFails, EtcdExits
<1>14. ASSUME NEW n \in Node, Crash(n) PROVE DiskInv(m)'
  <2>1. CASE m = n
    BY <1>14, <2>1 DEF Crash, Return, NoHandler, DiskInv
  <2>2. CASE m # n
    BY <1>14, <2>2, DiskFrame DEF Crash, Return
  <2> QED
    BY <2>1, <2>2
<1>15. ASSUME NEW n \in Node, NewEtcdServer(n) PROVE DiskInv(m)'
  <2>1. CASE m = n
    BY <1>15, <2>1 DEF NewEtcdServer, NodeInv, NoHandler, DiskInv, Agree
  <2>2. CASE m # n
    BY <1>15, <2>2, DiskFrame DEF NewEtcdServer
  <2> QED
    BY <2>1, <2>2
<1>16. CASE UNCHANGED vars
  BY <1>16, DiskFrame DEF vars
<1> QED
  BY <1>1, <1>2, <1>3, <1>4, <1>5, <1>6, <1>7, <1>8, <1>9, <1>10, <1>11, <1>12, <1>13, <1>14,
     <1>15, <1>16 DEF Next, Writable, Request, Step

\* The state file and the memory never drift apart for good.
LEMMA DiskInvariant == ASSUME "write" \notin Failures PROVE Spec => []DInv
<1>1. DInv /\ [Next]_vars => DInv'
  BY NextTypeOK, NextNodeInv, NextDiskInv DEF DInv, EInv
<1> QED
  BY InitDInv, <1>1, PTL DEF Spec

\* If the state file can be written, etcd always runs for the cluster, with
\* the version and the quarantine, that a restart would read from the file.
THEOREM RunIsDurable == ASSUME "write" \notin Failures PROVE Spec => []DurableRun
<1>1. DInv => DurableRun
  <2> SUFFICES ASSUME DInv, NEW n \in Node, process[n] # None
               PROVE  /\ HasCluster(disk[n])
                      /\ <<process[n].cluster, process[n].quarantined, process[n].version>>
                           = <<disk[n].cluster, disk[n].quarantined, disk[n].version>>
    BY DEF DurableRun
  <2>1. up[n] /\ handler[n].pc # "write" /\ Matches(process[n], state[n])
    BY DEF DInv, EInv, NodeInv
  <2>2. Agree(state[n], disk[n])
    BY <2>1 DEF DInv, DiskInv
  <2> QED
    BY <2>1, <2>2 DEF Matches, Agree
<1> QED
  BY DiskInvariant, <1>1, PTL

(***************************************************************************)
(* The refinement.  member and run are the mapped variables of Participant.*)
(***************************************************************************)
MappedMember == [n \in Node |-> Member(disk[n])]
RunOf(p) == IF p = None THEN None ELSE p.cluster
MappedRun == [n \in Node |-> RunOf(process[n])]

\* The mapped variables change for n as given, and for nobody else.
Becomes(n, prep, mem, run) ==
  /\ prepared' = [prepared EXCEPT ![n] = prep]
  /\ MappedMember' = [MappedMember EXCEPT ![n] = mem]
  /\ MappedRun' = [MappedRun EXCEPT ![n] = run]

LEMMA MappedChange ==
  ASSUME TypeOK, NEW n \in Node,
         \A m \in Node \ {n} : /\ prepared'[m] = prepared[m]
                               /\ disk'[m] = disk[m] /\ process'[m] = process[m],
         prepared' \in [Node -> Cluster \cup {None}]
  PROVE  Becomes(n, prepared'[n], Member(disk'[n]), RunOf(process'[n]))
<1>1. prepared' = [prepared EXCEPT ![n] = prepared'[n]]
  BY DEF TypeOK
<1>2. MappedMember' = [MappedMember EXCEPT ![n] = Member(disk'[n])]
  BY DEF MappedMember
<1>3. MappedRun' = [MappedRun EXCEPT ![n] = RunOf(process'[n])]
  BY DEF MappedRun
<1> QED
  BY <1>1, <1>2, <1>3 DEF Becomes

LEMMA MappedStutter ==
  ASSUME UNCHANGED <<prepared, disk, process>> PROVE UNCHANGED P!partVars
  BY DEF P!partVars

LEMMA StartedRun == \A s : Started(s) \in Process => RunOf(Started(s)) = s.cluster
<1>1. \A s : Started(s).cluster = s.cluster
  BY DEF Started
<1> QED
  BY <1>1, NilAssumption DEF RunOf

LEMMA MemberTypes ==
  /\ \A s \in EtcdState : HasCluster(s) /\ s.version \in Version =>
       Member(s) \in P!EtcdState /\ Member(s) # None
  /\ \A s : ~HasCluster(s) => Member(s) = None
  /\ \A s \in EtcdState : HasCluster(s) => /\ Member(s).cluster = s.cluster
                                          /\ Member(s).nodes = s.nodes
  /\ \A s, d : Agree(s, d) => Member(s) = Member(d)
  BY StateTypes, MemberAssumption DEF Member, P!EtcdState, EtcdState, Agree

\* The steps of Participant, in terms of the mapped variables.
LEMMA AbstractSteps ==
  ASSUME TypeOK, NEW n \in Node, NEW prep, NEW mem, NEW run, Becomes(n, prep, mem, run)
  PROVE  /\ /\ prep = prepared[n] /\ mem = Member(disk[n]) /\ run = RunOf(process[n])
            => UNCHANGED P!partVars
         /\ /\ RunOf(process[n]) = None /\ prepared[n] = None
            /\ mem = Member(disk[n]) /\ run = None
            => P!Prepare(n, prep)
         /\ /\ prepared[n] # None /\ prep = None
            /\ mem = Member(disk[n]) /\ run = RunOf(process[n])
            => P!Unprepare(n)
         /\ /\ RunOf(process[n]) = None /\ prepared[n] = mem.cluster
            /\ prep = prepared[n] /\ run = None
            => P!Join(n, mem, FALSE)
         /\ /\ Member(disk[n]) # None /\ mem.cluster = Member(disk[n]).cluster
            /\ mem.nodes = Member(disk[n]).nodes /\ prep = prepared[n] /\ run = None
            => P!Reconfigure(n, mem, FALSE)
         /\ /\ Member(disk[n]) # None /\ mem = None /\ run = None /\ prep = prepared[n]
            => P!Stop(n)
         /\ /\ RunOf(process[n]) = None /\ Member(disk[n]) # None
            /\ mem = Member(disk[n]) /\ run = mem.cluster /\ prep \in {prepared[n], None}
            => P!Start(n)
         /\ /\ RunOf(process[n]) # None /\ run = None
            /\ mem = Member(disk[n]) /\ prep = prepared[n]
            => P!Exit(n)
         /\ /\ run = None /\ prep = None /\ mem = Member(disk[n])
            => P!Crash(n)
<1> USE DEF Becomes, MappedMember, MappedRun, TypeOK
<1>1. prep = prepared[n] => prepared' = prepared
  OBVIOUS
<1>2. mem = Member(disk[n]) => MappedMember' = MappedMember
  OBVIOUS
<1>3. run = RunOf(process[n]) => MappedRun' = MappedRun
  OBVIOUS
<1>4. MappedMember[n] = Member(disk[n]) /\ MappedRun[n] = RunOf(process[n])
  OBVIOUS
<1> QED
  BY <1>1, <1>2, <1>3, <1>4 DEF RunOf, P!partVars, P!Prepare, P!CanPrepare, P!Unprepare, P!Join, P!CanJoin,
     P!Reconfigure, P!Stop, P!Start, P!Exit, P!Crash

\* Every step of the server is a step of Participant, or none.
LEMMA StepSimulation ==
  ASSUME "write" \notin Failures, "torn" \notin Failures, DInv, [Next]_vars
  PROVE  [P!Next]_(P!partVars)
<1> USE StateTypes DEF DInv, EInv, TypeOK
<1>0. prepared' \in [Node -> Cluster \cup {None}]
  BY NextTypeOK
<1>1. ASSUME NEW n \in Node, NEW t \in Leader, LeaderNotification(n, t) PROVE UNCHANGED P!partVars
  BY <1>1, MappedStutter DEF LeaderNotification
<1>2. ASSUME NEW n \in Node, PreparedExpires(n) PROVE P!Unprepare(n)
  <2>1. Becomes(n, None, Member(disk[n]), RunOf(process[n]))
    BY <1>0, <1>2, MappedChange DEF PreparedExpires
  <2> QED
    BY <1>2, <2>1, AbstractSteps DEF PreparedExpires
<1>3. ASSUME NEW n \in Node, NEW t \in Leader, NEW c \in Cluster, JoinPrepare(n, t, c)
      PROVE  P!Prepare(n, c)
  <2>1. Becomes(n, c, Member(disk[n]), None)
    BY <1>0, <1>3, MappedChange DEF JoinPrepare, RunOf
  <2> QED
    BY <1>3, <2>1, AbstractSteps DEF JoinPrepare, RunOf
<1>4. ASSUME NEW n \in Node, NEW t \in Leader, NEW c \in Cluster, JoinCancelPrepare(n, t, c)
      PROVE  P!Unprepare(n)
  <2>1. Becomes(n, None, Member(disk[n]), RunOf(process[n]))
    BY <1>0, <1>4, MappedChange DEF JoinCancelPrepare
  <2> QED
    BY <1>4, <2>1, AbstractSteps, NoneAssumption DEF JoinCancelPrepare
<1>5. ASSUME NEW n \in Node, NEW t \in Leader, NEW op \in {"initial", "join"}, NEW c \in Cluster,
             NEW nodes \in SUBSET Node, NEW v \in Version, JoinBegin(n, t, op, c, nodes, v)
      PROVE  UNCHANGED P!partVars
  BY <1>5, MappedStutter DEF JoinBegin
<1>6. ASSUME NEW n \in Node, Becomes(n, prepared[n], Member(disk[n]), None)
      PROVE  P!Exit(n) \/ UNCHANGED P!partVars
  BY <1>6, AbstractSteps
<1>7. ASSUME NEW n \in Node, NEW t \in Leader, NEW q \in BOOLEAN, NEW v \in Version,
             ReconfigureBegin(n, t, q, v)
      PROVE  P!Exit(n) \/ UNCHANGED P!partVars
  BY <1>0, <1>6, <1>7, MappedChange DEF ReconfigureBegin, RunOf
<1>8. ASSUME NEW n \in Node, NEW t \in Leader, StopBegin(n, t) PROVE P!Exit(n) \/ UNCHANGED P!partVars
  BY <1>0, <1>6, <1>8, MappedChange DEF StopBegin, RunOf
<1>9. ASSUME NEW n \in Node, NEW t \in Leader, NilClusterPanic(n, t) PROVE P!Crash(n)
  <2>1. Becomes(n, None, Member(disk[n]), None)
    BY <1>0, <1>9, MappedChange DEF NilClusterPanic, RunOf
  <2> QED
    BY <2>1, AbstractSteps
<1>10. ASSUME NEW n \in Node, WriteState(n) PROVE P!Next
  <2>1. process[n] = None /\ Becomes(n, prepared[n], Member(state[n]), None)
    BY <1>0, <1>10, MappedChange DEF WriteState, RunOf, NodeInv
  <2>2. CASE handler[n].op \in {"initial", "join"}
    <3>1. state[n] \in EtcdState /\ HasCluster(state[n]) /\ state[n].version \in Version
      BY <2>2 DEF NodeInv, HasCluster
    <3>2. Member(state[n]) \in P!EtcdState /\ prepared[n] = Member(state[n]).cluster
      BY <1>10, <2>2, <3>1, MemberTypes DEF WriteState, DiskInv
    <3>3. P!Join(n, Member(state[n]), FALSE)
      BY <2>1, <3>2, AbstractSteps DEF RunOf
    <3> QED
      BY <3>2, <3>3 DEF P!Next
  <2>3. CASE handler[n].op = "reconfigure"
    <3>1. state[n] \in EtcdState /\ HasCluster(state[n]) /\ state[n].version \in Version
      BY <2>3 DEF NodeInv, HasCluster
    <3>2. /\ disk[n] \in EtcdState /\ HasCluster(disk[n]) /\ disk[n].version \in Version
          /\ disk[n].cluster = state[n].cluster /\ disk[n].nodes = state[n].nodes
      BY <1>10, <2>3 DEF WriteState, DiskInv, NodeInv, HasCluster
    <3>3. Member(state[n]) \in P!EtcdState /\ P!Reconfigure(n, Member(state[n]), FALSE)
      BY <2>1, <3>1, <3>2, MemberTypes, AbstractSteps
    <3> QED
      BY <3>3 DEF P!Next
  <2>4. CASE handler[n].op = "stop"
    <3>1. disk[n] \in EtcdState /\ HasCluster(disk[n]) /\ disk[n].version \in Version
      BY <1>10, <2>4 DEF WriteState, DiskInv, NodeInv, HasCluster
    <3>2. Member(state[n]) = None
      BY <2>4, MemberTypes DEF NodeInv
    <3>3. P!Stop(n)
      BY <2>1, <3>1, <3>2, MemberTypes, AbstractSteps
    <3> QED
      BY <3>3 DEF P!Next
  <2> QED
    BY <1>10, <2>2, <2>3, <2>4 DEF WriteState, NodeInv, Handler
<1>11. ASSUME NEW n \in Node, WriteFails(n) PROVE FALSE
  BY <1>11 DEF WriteFails, Fault
<1>12. ASSUME NEW n \in Node, up[n], handler[n].pc # "write", HasCluster(state[n])
       PROVE  /\ Member(disk[n]) # None
              /\ Member(disk[n]).cluster = state[n].cluster
  <2>1. HasCluster(disk[n]) /\ disk[n].cluster = state[n].cluster
    BY <1>12 DEF DiskInv, Agree
  <2>2. disk[n] \in EtcdState /\ disk[n].version \in Version
    BY <2>1 DEF NodeInv, HasCluster
  <2> QED
    BY <2>1, <2>2, MemberTypes
<1>13. ASSUME NEW n \in Node, StartEtcd(n) PROVE P!Start(n)
  <2>1. up[n] /\ HasCluster(state[n]) /\ process[n] = None
    BY <1>13 DEF StartEtcd, NodeInv, Handler, NoHandler
  <2>2. process'[n] = Started(state[n]) /\ Started(state[n]) \in Process
    BY <1>13, <2>1 DEF StartEtcd, NodeInv, HasCluster
  <2>3. RunOf(process'[n]) = state[n].cluster
    BY <2>2, StartedRun
  <2>4. Becomes(n, prepared'[n], Member(disk[n]), state[n].cluster)
    BY <1>0, <1>13, <2>3, MappedChange DEF StartEtcd
  <2>5. prepared'[n] \in {prepared[n], None}
    BY <1>13 DEF StartEtcd
  <2> QED
    BY <1>12, <1>13, <2>1, <2>4, <2>5, AbstractSteps DEF StartEtcd, RunOf
<1>14. ASSUME NEW n \in Node, StartFails(n) PROVE UNCHANGED P!partVars
  BY <1>14, MappedStutter DEF StartFails
<1>15. ASSUME NEW n \in Node, WriteInitialised(n) PROVE P!Unprepare(n) \/ UNCHANGED P!partVars
  <2>1. Agree(state[n], disk[n])
    BY <1>15 DEF WriteInitialised, NodeInv, NoHandler, DiskInv
  <2>2. Member(state[n]) = Member(disk[n])
    BY <2>1, MemberTypes
  <2>3. Becomes(n, None, Member(disk[n]), RunOf(process[n]))
    BY <1>0, <1>15, <2>2, MappedChange DEF WriteInitialised
  <2> QED
    BY <2>3, AbstractSteps
<1>16. ASSUME NEW n \in Node, runOnce(n) PROVE P!Start(n) \/ P!Exit(n) \/ UNCHANGED P!partVars
  <2>1. CASE HasCluster(state[n]) /\ n \in state[n].nodes
    <3>1. process'[n] = Started(state[n]) /\ Started(state[n]) \in Process
      BY <1>16, <2>1 DEF runOnce, NodeInv, HasCluster
    <3>2. RunOf(process'[n]) = state[n].cluster
      BY <3>1, StartedRun
    <3>3. Becomes(n, prepared[n], Member(disk[n]), state[n].cluster)
      BY <1>0, <1>16, <3>2, MappedChange DEF runOnce
    <3>4. up[n] /\ handler[n].pc # "write"
      BY <1>16 DEF runOnce, Free, NoHandler
    <3>5. CASE process[n] = None
      BY <1>12, <2>1, <3>3, <3>4, <3>5, AbstractSteps DEF RunOf
    <3>6. CASE process[n] # None
      <4>1. RunOf(process[n]) = state[n].cluster
        BY <3>6 DEF RunOf, NodeInv, Matches
      <4> QED
        BY <3>3, <4>1, AbstractSteps
    <3> QED
      BY <3>5, <3>6
  <2>2. CASE ~(HasCluster(state[n]) /\ n \in state[n].nodes)
    BY <1>0, <1>6, <1>16, <2>2, MappedChange DEF runOnce, RunOf
  <2> QED
    BY <2>1, <2>2
<1>17. ASSUME NEW n \in Node, runOnceFails(n) PROVE P!Exit(n) \/ UNCHANGED P!partVars
  BY <1>0, <1>6, <1>17, MappedChange DEF runOnceFails, RunOf
<1>18. ASSUME NEW n \in Node, EtcdExits(n) PROVE UNCHANGED P!partVars
  <2>1. process[n] \in Process /\ process'[n] = [process[n] EXCEPT !.exited = TRUE]
    BY <1>18 DEF EtcdExits
  <2>2. process'[n] \in Process /\ process'[n].cluster = process[n].cluster
    BY <2>1 DEF Process
  <2>3. RunOf(process'[n]) = RunOf(process[n])
    BY <2>1, <2>2, NilAssumption DEF RunOf
  <2>4. Becomes(n, prepared[n], Member(disk[n]), RunOf(process[n]))
    BY <1>0, <1>18, <2>3, MappedChange DEF EtcdExits
  <2> QED
    BY <2>4, AbstractSteps
<1>19. ASSUME NEW n \in Node, Crash(n) PROVE P!Crash(n)
  <2>1. Becomes(n, None, Member(disk[n]), None)
    BY <1>0, <1>19, MappedChange DEF Crash, CrashedDisk, RunOf
  <2> QED
    BY <2>1, AbstractSteps
<1>20. ASSUME NEW n \in Node, NewEtcdServer(n) PROVE UNCHANGED P!partVars
  BY <1>20, MappedStutter DEF NewEtcdServer
<1>21. CASE UNCHANGED vars
  BY <1>21, MappedStutter DEF vars
<1> QED
  BY <1>1, <1>2, <1>3, <1>4, <1>5, <1>7, <1>8, <1>9, <1>10, <1>11, <1>13, <1>14, <1>15, <1>16,
     <1>17, <1>18, <1>19, <1>20, <1>21 DEF Next, Writable, Request, Step, P!Next

\* If the state file is written whole or not at all, the handlers of the server,
\* step by step and with crashes between any two steps, do what Participant says.
THEOREM ServerImplementsParticipant ==
  ASSUME "write" \notin Failures, "torn" \notin Failures
  PROVE  Spec => ImplementsParticipant
<1>1. Init => P!Init
  BY StateTypes, MemberTypes DEF Init, P!Init
<1>2. DInv /\ [Next]_vars => [P!Next]_(P!partVars)
  BY StepSimulation
<1> QED
  BY <1>1, <1>2, DiskInvariant, PTL DEF Spec, P!Spec, ImplementsParticipant

=============================================================================
