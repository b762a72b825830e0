------------------------------ MODULE EtcdServer ------------------------------
(***************************************************************************)
(* The node side of the cluster protocol: pkg/etcd/etcdserver.go.          *)
(*                                                                         *)
(* A request (JoinCluster in its phases, Reconfigure, StopEtcd) is handled *)
(* under the server's mutex.  The handlers that write the state file or    *)
(* start and stop etcd are modelled step by step, in the order of the code,*)
(* so that etcd-manager can stop, and a write or a start can fail, between *)
(* any two steps.  Requests carry the token of the leader that sent them;  *)
(* any leader may send anything at any time.                               *)
(***************************************************************************)
EXTENDS Integers

CONSTANTS Node, Cluster, Version, None,
          Leader,     \* leadership tokens
          Torn,       \* content of a state file that cannot be parsed
          Failures,   \* subset of {"crash", "exit", "start", "write", "torn"}
          MaxFaults   \* bound: failures in a behaviour

ASSUME NoneAssumption == None \notin Cluster /\ None \notin Version /\ None \notin Leader
ASSUME FailuresAssumption == Failures \subseteq {"crash", "exit", "start", "write", "torn"}
ASSUME MaxFaultsAssumption == MaxFaults \in Nat

VARIABLES
  accepted,  \* accepted[n]: token of the leader n accepted last
  up,        \* up[n]: etcd-manager runs on n
  state,     \* state[n]: s.state, None for nil
  disk,      \* disk[n]: the state file, None when there is no file
  prepared,  \* prepared[n]: cluster token of s.prepared, None for nil
  process,   \* process[n]: s.process, None for nil
  handler,   \* handler[n]: the handler that holds the mutex
  faults

vars == <<accepted, up, state, disk, prepared, process, handler, faults>>

EtcdState == [cluster : Cluster \cup {None}, nodes : SUBSET Node, newCluster : BOOLEAN,
              quarantined : BOOLEAN, version : Version \cup {None}]

\* &protoetcd.EtcdState{}: what StopEtcd stores, and what an empty file parses to.
Blank == [cluster |-> None, nodes |-> {}, newCluster |-> FALSE,
          quarantined |-> FALSE, version |-> None]

Process == [cluster : Cluster, createNew : BOOLEAN, quarantined : BOOLEAN,
            version : Version, exited : BOOLEAN]

ASSUME NilAssumption == None \notin EtcdState \cup Process /\ Torn \notin EtcdState

NoHandler == [op |-> "none", pc |-> "none"]

Handler == [op : {"none", "initial", "join", "reconfigure", "stop"},
            pc : {"none", "write", "start", "write2"}]

TypeOK ==
  /\ accepted \in [Node -> Leader \cup {None}]
  /\ up \in [Node -> BOOLEAN]
  /\ state \in [Node -> EtcdState \cup {None}]
  /\ disk \in [Node -> EtcdState \cup {None, Torn}]
  /\ prepared \in [Node -> Cluster \cup {None}]
  /\ process \in [Node -> Process \cup {None}]
  /\ handler \in [Node -> Handler]
  /\ faults \in 0..MaxFaults

Init ==
  /\ accepted = [n \in Node |-> None]
  /\ up = [n \in Node |-> TRUE]
  /\ state = [n \in Node |-> None]
  /\ disk = [n \in Node |-> None]
  /\ prepared = [n \in Node |-> None]
  /\ process = [n \in Node |-> None]
  /\ handler = [n \in Node |-> NoHandler]
  /\ faults = 0

Fault(kind) == kind \in Failures /\ faults < MaxFaults /\ faults' = faults + 1
NoFault == faults' = faults

\* The mutex is free, and validateHeader finds the token of the current leader.
Free(n) == up[n] /\ handler[n] = NoHandler
Admitted(n, t) == Free(n) /\ t = accepted[n]

HasCluster(s) == s # None /\ s # Torn /\ s.cluster # None

\* A new leader is accepted (see Leadership); it takes no part in the mutex.
LeaderNotification(n, t) ==
  /\ up[n]
  /\ accepted[n] # t
  /\ accepted' = [accepted EXCEPT ![n] = t]
  /\ NoFault
  /\ UNCHANGED <<up, state, disk, prepared, process, handler>>

(***************************************************************************)
(* JoinCluster.                                                            *)
(***************************************************************************)

\* validUntil has passed.  The code drops an expired preparation when the
\* next request looks at it; nothing else does.
PreparedExpires(n) ==
  /\ Free(n)
  /\ prepared[n] # None
  /\ prepared' = [prepared EXCEPT ![n] = None]
  /\ NoFault
  /\ UNCHANGED <<accepted, up, state, disk, process, handler>>

JoinPrepare(n, t, c) ==
  /\ Admitted(n, t)
  /\ process[n] = None
  /\ prepared[n] = None
  /\ prepared' = [prepared EXCEPT ![n] = c]
  /\ NoFault
  /\ UNCHANGED <<accepted, up, state, disk, process, handler>>

JoinCancelPrepare(n, t, c) ==
  /\ Admitted(n, t)
  /\ prepared[n] = c
  /\ prepared' = [prepared EXCEPT ![n] = None]
  /\ NoFault
  /\ UNCHANGED <<accepted, up, state, disk, process, handler>>

\* The two phases that join differ in the state they store.
Joined(op, c, nodes, v) ==
  [cluster |-> c, nodes |-> nodes, newCluster |-> op = "initial",
   quarantined |-> op = "initial", version |-> v]

\* Mutant: PHASE_INITIAL_CLUSTER and PHASE_JOIN_EXISTING need no preparation.
JoinUnprepared(n, t, op, c, nodes, v) ==
  /\ Admitted(n, t)
  /\ process[n] = None
  /\ op \in {"initial", "join"}
  /\ state' = [state EXCEPT ![n] = Joined(op, c, nodes, v)]
  /\ handler' = [handler EXCEPT ![n] = [op |-> op, pc |-> "write"]]
  /\ NoFault
  /\ UNCHANGED <<accepted, up, disk, prepared, process>>

JoinBegin(n, t, op, c, nodes, v) ==
  /\ Admitted(n, t)
  /\ process[n] = None
  /\ prepared[n] = c
  /\ op \in {"initial", "join"}
  /\ state' = [state EXCEPT ![n] = Joined(op, c, nodes, v)]
  /\ handler' = [handler EXCEPT ![n] = [op |-> op, pc |-> "write"]]
  /\ NoFault
  /\ UNCHANGED <<accepted, up, disk, prepared, process>>

(***************************************************************************)
(* Reconfigure and StopEtcd stop the process before they touch the state.  *)
(***************************************************************************)

\* Mutant: the process is left to startEtcdProcess, which replaces it.
ReconfigureRunning(n, t, quarantined, v) ==
  /\ Admitted(n, t)
  /\ HasCluster(state[n])
  /\ n \in state[n].nodes
  /\ state' = [state EXCEPT ![n].quarantined = quarantined, ![n].version = v]
  /\ handler' = [handler EXCEPT ![n] = [op |-> "reconfigure", pc |-> "write"]]
  /\ NoFault
  /\ UNCHANGED <<accepted, up, disk, prepared, process>>

ReconfigureBegin(n, t, quarantined, v) ==
  /\ Admitted(n, t)
  /\ HasCluster(state[n])
  /\ n \in state[n].nodes
  /\ state' = [state EXCEPT ![n].quarantined = quarantined, ![n].version = v]
  /\ process' = [process EXCEPT ![n] = None]
  /\ handler' = [handler EXCEPT ![n] = [op |-> "reconfigure", pc |-> "write"]]
  /\ NoFault
  /\ UNCHANGED <<accepted, up, disk, prepared>>

\* Mutant: the state is cleared and the process keeps running.
StopStateOnly(n, t) ==
  /\ Admitted(n, t)
  /\ HasCluster(state[n])
  /\ state' = [state EXCEPT ![n] = Blank]
  /\ handler' = [handler EXCEPT ![n] = [op |-> "stop", pc |-> "write"]]
  /\ NoFault
  /\ UNCHANGED <<accepted, up, disk, prepared, process>>

StopBegin(n, t) ==
  /\ Admitted(n, t)
  /\ HasCluster(state[n])
  /\ state' = [state EXCEPT ![n] = Blank]
  /\ process' = [process EXCEPT ![n] = None]
  /\ handler' = [handler EXCEPT ![n] = [op |-> "stop", pc |-> "write"]]
  /\ NoFault
  /\ UNCHANGED <<accepted, up, disk, prepared>>

\* Both dereference state.Cluster: a state without one ends etcd-manager.
NilClusterPanic(n, t) ==
  /\ Admitted(n, t)
  /\ state[n] = Blank
  /\ Fault("crash")
  /\ up' = [up EXCEPT ![n] = FALSE]
  /\ accepted' = [accepted EXCEPT ![n] = None]
  /\ state' = [state EXCEPT ![n] = None]
  /\ prepared' = [prepared EXCEPT ![n] = None]
  /\ process' = [process EXCEPT ![n] = None]
  /\ UNCHANGED <<disk, handler>>

(***************************************************************************)
(* The steps that the handlers share.                                      *)
(***************************************************************************)

Return(n) == handler' = [handler EXCEPT ![n] = NoHandler]

\* writeState, then on to starting etcd; StopEtcd only archives the data.
WriteState(n) ==
  /\ handler[n].pc = "write"
  /\ disk' = [disk EXCEPT ![n] = state[n]]
  /\ handler' = [handler EXCEPT ![n] = IF @.op = "stop" THEN NoHandler ELSE [@ EXCEPT !.pc = "start"]]
  /\ NoFault
  /\ UNCHANGED <<accepted, up, state, prepared, process>>

\* The file cannot be written: the error is returned and s.state stays new.
WriteFails(n) ==
  /\ handler[n].pc \in {"write", "write2"}
  /\ Fault("write")
  /\ Return(n)
  /\ UNCHANGED <<accepted, up, state, disk, prepared, process>>

Started(s) == [cluster |-> s.cluster, createNew |-> s.newCluster,
               quarantined |-> s.quarantined, version |-> s.version, exited |-> FALSE]

\* startEtcdProcess; only INITIAL_CLUSTER goes on to clear NewCluster.
StartEtcd(n) ==
  /\ handler[n].pc = "start"
  /\ n \in state[n].nodes
  /\ process' = [process EXCEPT ![n] = Started(state[n])]
  /\ state' = [state EXCEPT ![n].newCluster = IF handler[n].op = "initial" THEN FALSE ELSE @]
  /\ handler' = [handler EXCEPT ![n] = IF @.op = "initial" THEN [@ EXCEPT !.pc = "write2"] ELSE NoHandler]
  /\ prepared' = [prepared EXCEPT ![n] = IF handler[n].op = "join" THEN None ELSE @]
  /\ NoFault
  /\ UNCHANGED <<accepted, up, disk>>

\* startEtcdProcess returns an error: n is not among the nodes of the state
\* it was told to store, or the key pairs or the command fail.
StartFails(n) ==
  /\ handler[n].pc = "start"
  /\ IF n \in state[n].nodes THEN Fault("start") ELSE NoFault
  /\ Return(n)
  /\ UNCHANGED <<accepted, up, state, disk, prepared, process>>

WriteInitialised(n) ==
  /\ handler[n].pc = "write2"
  /\ disk' = [disk EXCEPT ![n] = state[n]]
  /\ prepared' = [prepared EXCEPT ![n] = None]
  /\ Return(n)
  /\ NoFault
  /\ UNCHANGED <<accepted, up, state, process>>

(***************************************************************************)
(* The periodic check, restarts and failures.                              *)
(***************************************************************************)

\* Mutant: the state is checked for nil, its Cluster is not.
runOnceAnyState(n) ==
  /\ Free(n)
  /\ process[n] # None => process[n].exited
  /\ IF state[n] # None
       THEN process' = [process EXCEPT ![n] = Started(state[n])]
       ELSE process' = [process EXCEPT ![n] = None]
  /\ NoFault
  /\ UNCHANGED <<accepted, up, state, disk, prepared, handler>>

\* Mutant: the exit of a process goes unnoticed.
runOnceNoExit(n) ==
  /\ Free(n)
  /\ process[n] = None
  /\ HasCluster(state[n]) /\ n \in state[n].nodes
  /\ process' = [process EXCEPT ![n] = Started(state[n])]
  /\ NoFault
  /\ UNCHANGED <<accepted, up, state, disk, prepared, handler>>

\* runOnce: forget a process that has exited, start one that should run.
runOnce(n) ==
  /\ Free(n)
  /\ process[n] # None => process[n].exited
  /\ IF HasCluster(state[n]) /\ n \in state[n].nodes
       THEN process' = [process EXCEPT ![n] = Started(state[n])]
       ELSE process' = [process EXCEPT ![n] = None]
  /\ NoFault
  /\ UNCHANGED <<accepted, up, state, disk, prepared, handler>>

runOnceFails(n) ==
  /\ Free(n)
  /\ process[n] # None => process[n].exited
  /\ HasCluster(state[n]) /\ n \in state[n].nodes
  /\ Fault("start")
  /\ process' = [process EXCEPT ![n] = None]
  /\ UNCHANGED <<accepted, up, state, disk, prepared, handler>>

EtcdExits(n) ==
  /\ process[n] # None /\ ~process[n].exited
  /\ Fault("exit")
  /\ process' = [process EXCEPT ![n].exited = TRUE]
  /\ UNCHANGED <<accepted, up, state, disk, prepared, handler>>

\* etcd-manager stops, and with it etcd.  os.WriteFile truncates the file
\* before it writes: a stop in between leaves it empty or cut short.
CrashedDisk(n) ==
  IF "torn" \in Failures /\ handler[n].pc \in {"write", "write2"}
    THEN {disk[n], Blank, Torn} ELSE {disk[n]}

Crash(n) ==
  /\ up[n]
  /\ Fault("crash")
  /\ up' = [up EXCEPT ![n] = FALSE]
  /\ accepted' = [accepted EXCEPT ![n] = None]
  /\ state' = [state EXCEPT ![n] = None]
  /\ \E d \in CrashedDisk(n) : disk' = [disk EXCEPT ![n] = d]
  /\ prepared' = [prepared EXCEPT ![n] = None]
  /\ process' = [process EXCEPT ![n] = None]
  /\ Return(n)

\* NewEtcdServer reads the state file; one that does not parse is an error.
NewEtcdServer(n) ==
  /\ ~up[n]
  /\ disk[n] # Torn
  /\ up' = [up EXCEPT ![n] = TRUE]
  /\ state' = [state EXCEPT ![n] = disk[n]]
  /\ NoFault
  /\ UNCHANGED <<accepted, disk, prepared, process, handler>>

Request(n) ==
  \E t \in Leader :
    \/ \E c \in Cluster : JoinPrepare(n, t, c) \/ JoinCancelPrepare(n, t, c)
    \/ \E op \in {"initial", "join"}, c \in Cluster, nodes \in SUBSET Node, v \in Version :
         JoinBegin(n, t, op, c, nodes, v)
    \/ \E q \in BOOLEAN, v \in Version : ReconfigureBegin(n, t, q, v)
    \/ StopBegin(n, t)
    \/ NilClusterPanic(n, t)

Step(n) == WriteState(n) \/ StartEtcd(n) \/ StartFails(n) \/ WriteInitialised(n)

\* As long as the state file can be written.
Writable ==
  \E n \in Node :
    \/ \E t \in Leader : LeaderNotification(n, t)
    \/ Request(n) \/ Step(n)
    \/ PreparedExpires(n) \/ runOnce(n) \/ NewEtcdServer(n)
    \/ runOnceFails(n) \/ EtcdExits(n) \/ Crash(n)

Next == Writable \/ \E n \in Node : WriteFails(n)

Spec == Init /\ [][Next]_vars

\* A handler runs to its end; Run calls runOnce every ten seconds; the
\* container is restarted.
Fairness == \A n \in Node : WF_vars(Step(n)) /\ WF_vars(runOnce(n)) /\ WF_vars(NewEtcdServer(n))

FairSpec == Init /\ [][Writable]_vars /\ Fairness

(***************************************************************************)
(* Properties.                                                             *)
(***************************************************************************)

\* As long as the state file can be written, etcd runs only for the cluster
\* that the file names, with the version and the quarantine the file says, at
\* every point of every handler: a restart brings back the same etcd.
DurableRun ==
  \A n \in Node : process[n] # None =>
    /\ HasCluster(disk[n])
    /\ <<process[n].cluster, process[n].quarantined, process[n].version>>
         = <<disk[n].cluster, disk[n].quarantined, disk[n].version>>

\* Whatever fails, the running etcd is the one the server has in memory: after
\* StopEtcd or a failed join no process of an earlier cluster is left behind.
RunsWhatItKnows ==
  \A n \in Node : process[n] # None =>
    HasCluster(state[n]) /\ process[n].cluster = state[n].cluster

Member(s) == IF HasCluster(s)
               THEN [cluster |-> s.cluster, nodes |-> s.nodes,
                     quarantined |-> s.quarantined, version |-> s.version]
               ELSE None

\* The handlers, step by step and with failures, do what Participant says.
P == INSTANCE Participant WITH
       member <- [n \in Node |-> Member(disk[n])],
       run <- [n \in Node |-> IF process[n] = None THEN None ELSE process[n].cluster]

ImplementsParticipant == P!Spec

ASSUME MemberAssumption == None \notin P!EtcdState

\* A member gets its etcd back once failures stop, whatever happened in between.
MemberRuns ==
  \A n \in Node :
    [](HasCluster(disk[n]) /\ n \in disk[n].nodes =>
        <>(\/ process[n] # None /\ ~process[n].exited
           \/ ~HasCluster(disk[n]) \/ n \notin disk[n].nodes))

=============================================================================
