------------------------------ MODULE NewCluster ------------------------------
(***************************************************************************)
(* How the first etcd cluster comes into being: the controller iteration of*)
(* a leader that finds no cluster-created marker in the control store      *)
(* (pkg/controller/controller.go, newcluster.go), composed with the        *)
(* election (Leadership) and with the nodes it gives orders to             *)
(* (Participant).  Several controllers may be in this code at the same     *)
(* time, each with its own view of the peers.                              *)
(*                                                                         *)
(* A node obeys a call only if it carries the token the node accepted last.*)
(* A call that the leader sees fail took effect before, or not at all.     *)
(***************************************************************************)
EXTENDS Leadership

CONSTANTS Cluster,      \* cluster tokens, one per attempt: bounds the attempts
          Version, None,
          MemberCount   \* of the cluster spec in the control store

ASSUME MemberCountAssumption == MemberCount \in Nat \ {0}

VARIABLES prepared, member, run,   \* of the nodes: see Participant
          job,      \* job[n]: where n's controller is in the iteration it leads
          used,     \* cluster tokens drawn so far
          marked    \* the clusters whose creation was followed by the marker

P == INSTANCE Participant

electVars == <<peers, healthy, accepted, leads, acked, lock, heard>>
ncVars == <<vars, prepared, member, run, job, used, marked>>

NoJob == [step |-> "none", todo |-> {}, info |-> {}, proposal |-> {}, cluster |-> None]

Job == [step : {"none", "info", "stop", "prepare", "initial", "mark"}, todo : SUBSET Node,
        info : SUBSET Node, proposal : SUBSET Node, cluster : Cluster \cup {None}]

NCTypeOK ==
  /\ TypeOK
  /\ P!TypeOK
  /\ job \in [Node -> Job]
  /\ used \subseteq Cluster
  /\ marked \subseteq used

NCInit ==
  /\ Init
  /\ P!Init
  /\ job = [n \in Node |-> NoJob]
  /\ used = {}
  /\ marked = {}

quorumSize(k) == (k \div 2) + 1

(***************************************************************************)
(* Everything up to "I am leader".  The iteration then asks every peer it  *)
(* saw at its start for its state, one after the other.                    *)
(***************************************************************************)
JobStart(n) == [NoJob EXCEPT !.step = "info", !.todo = cycle[n].peers]

JobAfter(n) ==
  IF cycle'[n].pc # "lead" THEN NoJob
  ELSE IF cycle[n].pc = "lead" THEN job[n] ELSE JobStart(n)

Election(n) ==
  /\ Gossip(n) \/ Claim(n) \/ ClaimFaults(n)
  /\ job' = [job EXCEPT ![n] = JobAfter(n)]
  /\ UNCHANGED <<prepared, member, run, used, marked>>

\* The iteration of n goes on to job j, or is over (return from run).
Goto(n, j) == job' = [job EXCEPT ![n] = j] /\ UNCHANGED cycle
Over(n) == job' = [job EXCEPT ![n] = NoJob] /\ cycle' = [cycle EXCEPT ![n] = Idle]

\* A call to p whose answer arrives, or is lost.
Answered(n, p, lost) ==
  IF lost THEN Fault /\ Over(n)
          ELSE NoFault /\ Goto(n, [job[n] EXCEPT !.todo = @ \ {p}])

\* p can be called, and obeys.
Calls(n, step, p) ==
  job[n].step = step /\ p \in job[n].todo \cap healthy[n]

\* Mutant: the node does not compare tokens (validateHeader).
ObeysAnybody(p, n) == TRUE

Obeys(p, n) == accepted[p] = n

\* Mutant: the peers that have an EtcdState already are not remembered.
GetInfoForgets(n, p) ==
  /\ Calls(n, "info", p)
  /\ Goto(n, [job[n] EXCEPT !.todo = @ \ {p}])
  /\ NoFault
  /\ UNCHANGED <<electVars, prepared, member, run, used, marked>>

\* GetInfo (updateClusterState): info collects the peers that have an EtcdState.
GetInfo(n, p) ==
  /\ Calls(n, "info", p)
  /\ Goto(n, [job[n] EXCEPT !.todo = @ \ {p}, !.info = IF member[p] # None THEN @ \cup {p} ELSE @])
  /\ NoFault
  /\ UNCHANGED <<electVars, prepared, member, run, used, marked>>


\* The sizes for which createNewCluster proceeds with k peers.
EnoughPeers(k) ==
  /\ k >= quorumSize(MemberCount)
  /\ k < MemberCount => quorumSize(k) = quorumSize(MemberCount)

Proposals(ps) ==
  {s \in SUBSET ps : Cardinality(s) = IF Cardinality(ps) < MemberCount
                                        THEN Cardinality(ps) ELSE MemberCount}


\* IsNewCluster says yes: propose a cluster; first stop what is running.
Propose(n) ==
  /\ job[n].step = "info" /\ job[n].todo = {}
  /\ marked = {}
  /\ EnoughPeers(Cardinality(cycle[n].peers))
  /\ \E s \in Proposals(cycle[n].peers), c \in Cluster \ used :
       /\ \A d \in Cluster \ used : c <= d
       /\ used' = used \cup {c}
       /\ Goto(n, [job[n] EXCEPT !.step = "stop", !.todo = job[n].info,
                                 !.info = {}, !.proposal = s, !.cluster = c])
  /\ NoFault
  /\ UNCHANGED <<electVars, prepared, member, run, marked>>

\* There is a cluster already, or there are not enough peers (or the bound on
\* attempts is reached): the iteration ends, or goes on in ways that are not
\* part of this module.
NothingToCreate(n) ==
  /\ job[n].step = "info" /\ job[n].todo = {}
  /\ marked # {} \/ ~EnoughPeers(Cardinality(cycle[n].peers)) \/ used = Cluster
  /\ Over(n)
  /\ NoFault
  /\ UNCHANGED <<electVars, prepared, member, run, used, marked>>

StopEtcd(n, p, lost) ==
  /\ Calls(n, "stop", p) /\ Obeys(p, n)
  /\ P!Stop(p)
  /\ Answered(n, p, lost)
  /\ UNCHANGED <<electVars, used, marked>>

Prepare(n, p, lost) ==
  /\ Calls(n, "prepare", p) /\ Obeys(p, n)
  /\ P!Prepare(p, job[n].cluster)
  /\ Answered(n, p, lost)
  /\ UNCHANGED <<electVars, used, marked>>

InitialState(n, v) == [cluster |-> job[n].cluster, nodes |-> job[n].proposal,
                       quarantined |-> TRUE, version |-> v]

InitialCluster(n, p, lost) ==
  /\ Calls(n, "initial", p) /\ Obeys(p, n)
  /\ \E v \in Version, started \in BOOLEAN :
       /\ ~started => lost    \* an error from the handler: no success is reported
       /\ P!Join(p, InitialState(n, v), started)
  /\ Answered(n, p, lost)
  /\ UNCHANGED <<electVars, used, marked>>

\* The handler at p returns an error and does nothing, or p is not healthy.
CallRefused(n, p) ==
  /\ job[n].step \in {"info", "stop", "prepare", "initial"}
  /\ p \in job[n].todo
  /\ \/ p \notin healthy[n]
     \/ job[n].step # "info" /\ ~Obeys(p, n)
     \/ job[n].step = "stop" /\ member[p] = None
     \/ job[n].step = "prepare" /\ ~P!CanPrepare(p)
     \/ job[n].step = "initial" /\ ~P!CanJoin(p, job[n].cluster)
  /\ Over(n)
  /\ NoFault
  /\ UNCHANGED <<electVars, prepared, member, run, used, marked>>

\* The member map of the proposal, sent to every peer after the stops, does not
\* reach all of them.  (Here it changes nothing: it only names addresses.)
BroadcastFails(n) ==
  /\ job[n].step = "stop" /\ job[n].todo = {}
  /\ ~(cycle[n].peers \subseteq healthy[n])
  /\ Over(n)
  /\ NoFault
  /\ UNCHANGED <<electVars, prepared, member, run, used, marked>>

\* All peers of one loop were called: on to the next loop.
NextStep(n) ==
  /\ job[n].step \in {"stop", "prepare", "initial"} /\ job[n].todo = {}
  /\ job[n].step = "stop" => cycle[n].peers \subseteq healthy[n]
  /\ Goto(n, CASE job[n].step = "stop" -> [job[n] EXCEPT !.step = "prepare", !.todo = job[n].proposal]
               [] job[n].step = "prepare" -> [job[n] EXCEPT !.step = "initial", !.todo = job[n].proposal]
               [] job[n].step = "initial" -> [job[n] EXCEPT !.step = "mark"])
  /\ NoFault
  /\ UNCHANGED <<electVars, prepared, member, run, used, marked>>

MarkClusterCreated(n) ==
  /\ job[n].step = "mark"
  /\ marked' = marked \cup {job[n].cluster}
  /\ Over(n)
  /\ NoFault
  /\ UNCHANGED <<electVars, prepared, member, run, used>>

CreateStep(n) ==
  \/ \E p \in job[n].todo : GetInfo(n, p) \/ CallRefused(n, p)
  \/ \E p \in job[n].todo, lost \in BOOLEAN :
       StopEtcd(n, p, lost) \/ Prepare(n, p, lost) \/ InitialCluster(n, p, lost)
  \/ Propose(n) \/ NothingToCreate(n) \/ BroadcastFails(n) \/ NextStep(n) \/ MarkClusterCreated(n)

(***************************************************************************)
(* The nodes on their own.                                                 *)
(***************************************************************************)
NodeStep(n) ==
  /\ P!Unprepare(n) \/ P!Start(n)
  /\ NoFault
  /\ UNCHANGED <<electVars, cycle, job, used, marked>>

NodeFault(n) ==
  /\ P!Exit(n)
  /\ Fault
  /\ UNCHANGED <<electVars, cycle, job, used, marked>>

NodeRestart(n) ==
  /\ Restart(n)
  /\ P!Crash(n)
  /\ job' = [job EXCEPT ![n] = NoJob]
  /\ UNCHANGED <<used, marked>>

NCNext == \E n \in Node : Election(n) \/ CreateStep(n) \/ NodeStep(n) \/ NodeFault(n) \/ NodeRestart(n)

NCSpec == NCInit /\ [][NCNext]_ncVars

(***************************************************************************)
(* Properties.                                                             *)
(***************************************************************************)

InCluster(c) == {n \in Node : member[n] # None /\ member[n].cluster = c}
RunsFor(c) == {n \in Node : run[n] = c}

\* How many members the cluster c was started with.
Size(c) == Cardinality(UNION {member[n].nodes : n \in InCluster(c)})

KeepsQuorum(c) == Cardinality(InCluster(c)) >= quorumSize(Size(c))

\* A cluster whose creation was marked is never dismantled without a command:
\* it keeps enough members for its quorum ("Mark cluster created so we won't
\* create it again").
MarkedForGood == \A c \in marked : KeepsQuorum(c)


Quorate(c) == RunsFor(c) # {} /\ Cardinality(RunsFor(c)) >= quorumSize(Size(c))


\* The leader acts on information that is old by the time it acts; still, a
\* StopEtcd that a peer would obey always finds a member to stop (on any other
\* state the handler dereferences a nil Cluster).
StopFindsMember ==
  \A n \in Node : job[n].step = "stop" =>
    \A p \in job[n].todo : Obeys(p, n) => member[p] # None

\* A node is never moved from one cluster to another without StopEtcd in
\* between, so no data directory is left behind in use.
NoSilentSwitch ==
  [][\A n \in Node : member[n] # None /\ member'[n] # None =>
       member'[n].cluster = member[n].cluster]_ncVars

=============================================================================
