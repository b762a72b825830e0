------------------------------ MODULE Reconcile ------------------------------
(***************************************************************************)
(* What the leader does with a cluster that exists already: the rest of    *)
(* controller.run (pkg/controller/controller.go from line 291, restore.go, *)
(* upgrade.go), on the nodes of Participant.  etcd itself is a service with*)
(* a membership and contents, modelled from how the controller calls it.   *)
(*                                                                         *)
(* One controller leads at a time here (NewCluster and ControlStore are    *)
(* about several); it may stop at any point, and another one then starts   *)
(* from nothing.  An iteration takes a snapshot of everything it can see,  *)
(* decides on ONE thing to do, and does it call by call while nodes and    *)
(* clients go on.                                                          *)
(***************************************************************************)
EXTENDS Integers, FiniteSets, Sequences

CONSTANTS Node, Cluster, Version, None,
          InPlace,      \* UpgradeInPlaceSupported: pairs of versions
          Scenarios,    \* what there is at the beginning, what is wanted, what may fail
          MaxWrites, MaxCommands

VARIABLES spec,       \* the cluster spec: member count and etcd version; whether etcd is to use TLS
          prepared, member, run,   \* of the nodes: see Participant
          down,       \* nodes that are switched off
          mems,       \* mems[c]: members of etcd cluster c that have a name
          pending,    \* pending[c]: added to c, but not started yet
          content,    \* content[c]: the last client write c holds; 0 if it is empty
          tls,        \* TLS between the members: see Matches
          written,    \* the last write that was acknowledged to a client
          commands,   \* restore commands in the control store: what their backups hold
          cached,     \* the leader's copy of commands; None before the first read
          overdue,    \* members that were unhealthy for too long (peerState)
          job,        \* the leader's iteration
          faults      \* the kinds of faults to expect, and how many are left

P == INSTANCE Participant

nodeVars == <<prepared, member, run>>
etcdVars == <<mems, pending, content, tls>>
storeVars == <<commands, cached>>
rcVars == <<spec, nodeVars, down, etcdVars, written, storeVars, overdue, job, faults>>

Count == spec.count
Target == spec.version

NoJob == [step |-> "none", todo |-> {}, busy |-> None, view |-> {}, info |-> [n \in Node |-> None],
          etcd |-> None, members |-> {}, unnamed |-> {}, healthy |-> {},
          cluster |-> None, version |-> None, proposal |-> {}, target |-> None, data |-> 0]

Steps == {"none", "decide", "stop", "prepare", "initial", "restore", "clear", "lift", "fence",
          "joinPrepare", "addMember", "join", "removeMember", "reconf", "quarantine", "dump",
          "command", "halt", "urls", "enable"}

Contents == 0 .. (1 + MaxWrites)

RCTypeOK ==
  /\ P!TypeOK
  /\ down \subseteq Node /\ overdue \subseteq Node
  /\ mems \in [Cluster -> SUBSET Node] /\ pending \in [Cluster -> SUBSET Node]
  /\ content \in [Cluster -> Contents] /\ written \in Contents
  /\ tls.own \subseteq Node /\ tls.url \in [Cluster -> SUBSET Node] /\ tls.cut \subseteq SUBSET Node
  /\ commands \in Seq(Contents) /\ Len(commands) <= MaxCommands
  /\ cached = None \/ cached \in Seq(Contents)
  /\ DOMAIN job = DOMAIN NoJob /\ job.step \in Steps
  /\ job.members \subseteq Node /\ job.healthy \subseteq job.members
  /\ spec.count \in Nat \ {0} /\ spec.version \in Version
  /\ faults.left \in Nat

\* A cluster that has been running for a while, and has taken its first write.
Begins(s, c) ==
  /\ spec = [count |-> s.count, version |-> s.target, tls |-> s.tls]
  /\ member = [n \in Node |->
       IF n \in s.members THEN [cluster |-> c, nodes |-> s.members, quarantined |-> FALSE, version |-> s.version]
       ELSE None]
  /\ run = [n \in Node |-> IF n \in s.members \ s.down THEN c ELSE None]
  /\ mems = [d \in Cluster |-> IF d = c THEN s.members ELSE {}]
  /\ content = [d \in Cluster |-> IF d = c THEN 1 ELSE 0]
  /\ tls = LET safe == IF s.plain THEN {} ELSE s.members
           IN [own |-> safe, url |-> [d \in Cluster |-> IF d = c THEN safe ELSE {}], cut |-> {}]
  /\ down = s.down
  /\ commands = s.commands
  /\ faults = [kinds |-> s.kinds, left |-> s.faults, hit |-> FALSE]

RCInit ==
  /\ \E s \in Scenarios, c \in Cluster : (\A d \in Cluster : c <= d) /\ Begins(s, c)
  /\ pending = [c \in Cluster |-> {}]
  /\ prepared = [n \in Node |-> None]
  /\ written = 1
  /\ cached = None
  /\ overdue = {}
  /\ job = NoJob

Fault(k) ==
  /\ k \in faults.kinds /\ faults.left > 0
  /\ faults' = [faults EXCEPT !.left = @ - 1, !.hit = TRUE]
  /\ UNCHANGED spec
NoFault == UNCHANGED <<faults, spec>>

quorumSize(k) == (k \div 2) + 1

(***************************************************************************)
(* etcd (external).                                                        *)
(***************************************************************************)
AllMembers(c) == mems[c] \cup pending[c]
Running(c) == {n \in mems[c] : run[n] = c}

\* The peer address of n that etcd has (url) fits the one that n listens on (own):
\* both with TLS, or both without.  Otherwise nobody can dial n.
Matches(n, c) == n \in tls.url[c] <=> n \in tls.own

\* Two members talk if either can dial the other, and go on talking when an
\* address changes; a pair in cut was tried in vain when one of the two started.
Reached(l, c) == {m \in Running(c) : {l, m} \notin tls.cut}
Majority(c) ==
  {m \in Running(c) :
     \E l \in Running(c) : m \in Reached(l, c) /\ Cardinality(Reached(l, c)) >= quorumSize(Cardinality(AllMembers(c)))}
Quorate(c) == Majority(c) # {}

\* With a quorum, and with a member that is not fenced off from its clients.
Serving(c) == \E n \in Majority(c) : ~member[n].quarantined

\* MemberAdd and MemberRemove under strict-reconfig-check (etcdprocess.go:264):
\* all members must be up to add one, and the rest must keep a quorum to remove one.
CanAdd(c, p) == pending[c] = {} /\ Running(c) = mems[c] /\ mems[c] # {} /\ p \notin mems[c]

CanRemove(c, p) ==
  /\ Quorate(c) /\ p \in AllMembers(c)
  /\ Cardinality(mems[c] \ {p}) >= quorumSize(Cardinality(AllMembers(c) \ {p}))
  /\ p \in Running(c) => Cardinality(Running(c)) - 1 >= quorumSize(Cardinality(AllMembers(c)) - 1)

\* With TLS or without, as the leader wants it.
AsWanted(ps, p) == IF spec.tls THEN ps \cup {p} ELSE ps \ {p}

\* The pairs of p that cannot be connected when p starts with the addresses t.
Unreachable(p, c, t) ==
  {{p, m} : m \in {n \in mems[c] \ {p} : (p \in t.url[c]) # (p \in t.own) /\ ~Matches(n, c)}}
Tried(p, c, t) == [t EXCEPT !.cut = {e \in @ : p \notin e} \cup Unreachable(p, c, t)]

\* etcd of p comes up in cluster c; a member gets its name then.
EtcdUp(p, c, own) ==
  /\ mems' = [mems EXCEPT ![c] = @ \cup (pending[c] \cap {p})]
  /\ pending' = [pending EXCEPT ![c] = @ \ {p}]
  /\ tls' = Tried(p, c, [tls EXCEPT !.own = own])
  /\ UNCHANGED content

(***************************************************************************)
(* The snapshot (updateClusterState) and what is computed from it.         *)
(***************************************************************************)

\* Who answers ListMembers: a member that has a quorum to ask.
Answering == {p \in Node \ down : run[p] # None /\ p \in Majority(run[p])}

\* The members come from the first peer that answers; the health checks go to
\* the same names, whatever cluster they run now.
Snapshot(c) ==
  [NoJob EXCEPT !.step = "decide", !.view = Node \ down,
                !.info = [n \in Node |-> IF n \in down THEN None ELSE member[n]],
                !.etcd = c,
                !.members = IF c = None THEN {} ELSE mems[c],
                !.unnamed = IF c = None THEN {} ELSE pending[c],
                !.healthy = IF c = None THEN {} ELSE mems[c] \cap Answering]

\* updateClusterState, peerState and refreshControlStore (which reads the store
\* once in ten years, unless the copy was dropped).
Observe ==
  /\ job.step = "none"
  /\ \E c \in IF Answering = {} THEN {None} ELSE {run[p] : p \in Answering} :
       /\ job' = Snapshot(c)
       /\ overdue' = overdue \ Snapshot(c).healthy
  /\ cached' = IF cached = None THEN commands ELSE cached
  /\ NoFault
  /\ UNCHANGED <<nodeVars, down, etcdVars, written, commands>>

Configured == {p \in job.view : job.info[p] # None}
Idlers == job.view \ Configured
Quarantined == {p \in Configured : job.info[p].quarantined}
Mismatch == {p \in Configured : job.info[p].version # Target}
Registered == Cardinality(job.members \cup job.unnamed)

\* Peers that acknowledged the leader: all in view.
Acked(k) == Cardinality(job.view) >= k

\* The cluster is as it should be, so that it may be opened to clients.
Fits == Cardinality(job.healthy) >= quorumSize(Count) /\ Mismatch = {}

\* The branches of run, in the order of the code.
Restores == cached # <<>>
Lifts == ~Restores /\ Quarantined # {} /\ Fits
Fences == ~Restores /\ Quarantined # {} /\ ~Fits /\ Quarantined # Configured
Settled == ~Restores /\ ~Lifts /\ ~Fences
Grows == Settled /\ Registered < Count


Shrinks == Settled /\ Registered >= Count /\ Cardinality(Configured) > Count

Replaces ==
  /\ Settled /\ Registered >= Count /\ Cardinality(Configured) <= Count
  /\ Cardinality(job.healthy) < Registered /\ Idlers # {}
  /\ Registered > 2 /\ Registered > Count
  /\ Acked(quorumSize(Count))

\* reconcileTLS: members whose address in etcd or whose own state is without TLS.
Unsecured ==
  IF spec.tls /\ job.etcd # None
  THEN {p \in Configured \cap job.members : p \notin tls.url[job.etcd] \/ p \notin tls.own}
  ELSE {}
Secures ==
  /\ Settled /\ Registered >= Count /\ Cardinality(Configured) <= Count
  /\ ~Replaces /\ Unsecured # {}
Upgrades ==
  /\ Settled /\ Registered >= Count /\ Cardinality(Configured) <= Count
  /\ ~Replaces /\ Unsecured = {} /\ Mismatch # {}

\* doClusterBackup: some healthy member that is a peer still runs etcd.
BackedUp == \E m \in job.healthy \cap job.view : m \notin down /\ run[m] # None

\* prepareForUpgrade
ReadyForUpgrade ==
  /\ job.unnamed = {} /\ job.members \subseteq job.view
  /\ job.healthy = job.members
  /\ Cardinality(job.members) = Count

CanUpgradeInPlace == \A p \in Mismatch : <<job.info[p].version, Target>> \in InPlace

(***************************************************************************)
(* Calls.                                                                  *)
(***************************************************************************)
Goto(j) == job' = j
Over == job' = NoJob

\* The answer of p arrives, and p is done; or it is lost, and the iteration fails.
Answered(p, lost) ==
  IF lost THEN Fault("lost") /\ Over
          ELSE NoFault /\ Goto([job EXCEPT !.todo = @ \ {p}, !.busy = None])

Calls(step, p) == job.step = step /\ p \in job.todo \ down

\* A step of the leader that concerns neither nodes nor etcd.
Aside == NoFault /\ UNCHANGED <<nodeVars, down, etcdVars, written, overdue>>

(***************************************************************************)
(* Restore: a new cluster, then the contents, then the command goes.       *)
(***************************************************************************)
EnoughPeers(k) == k >= quorumSize(Count) /\ (k < Count => quorumSize(k) = quorumSize(Count))

Proposals(ps) ==
  {s \in SUBSET ps : Cardinality(s) = IF Cardinality(ps) < Count THEN Cardinality(ps) ELSE Count}

\* Cluster tokens are random; one that nobody remembers stands for a new one.
Unused == Cluster \ ({member[n].cluster : n \in {m \in Node : member[m] # None}}
                     \cup {prepared[n] : n \in Node})

\* createNewCluster begins.  If it finds too few peers it returns without an
\* error, and the restore goes on with the cluster there is.
BeginRestore ==
  /\ job.step = "decide" /\ Restores /\ Acked(quorumSize(Count))
  /\ IF EnoughPeers(Cardinality(job.view))
     THEN \E c \in Unused, s \in Proposals(job.view) :
            /\ \A d \in Unused : c <= d
            /\ Goto([job EXCEPT !.step = "stop", !.todo = Configured, !.cluster = c, !.proposal = s])
            /\ mems' = [mems EXCEPT ![c] = {}]
            /\ pending' = [pending EXCEPT ![c] = {}]
            /\ content' = [content EXCEPT ![c] = 0]
            /\ UNCHANGED tls
     ELSE Goto([job EXCEPT !.step = "restore"]) /\ UNCHANGED etcdVars
  /\ NoFault
  /\ UNCHANGED <<nodeVars, down, written, storeVars, overdue>>

\* In createNewCluster ("stop") and at the end of stopForUpgrade ("halt").
StopEtcd(p, lost) ==
  /\ Calls("stop", p) \/ Calls("halt", p)
  /\ P!Stop(p)
  /\ Answered(p, lost)
  /\ UNCHANGED <<down, etcdVars, written, storeVars, overdue>>

Prepare(p, lost) ==
  /\ Calls("prepare", p)
  /\ P!Prepare(p, job.cluster)
  /\ Answered(p, lost)
  /\ UNCHANGED <<down, etcdVars, written, storeVars, overdue>>

\* Mutant: a restored cluster is open to clients from the start.
NewStateOpen == [cluster |-> job.cluster, nodes |-> job.proposal, quarantined |-> FALSE, version |-> Target]

NewState == [cluster |-> job.cluster, nodes |-> job.proposal, quarantined |-> TRUE, version |-> Target]

\* The first member of a new cluster brings its whole membership with it.
InitialCluster(p, lost) ==
  /\ Calls("initial", p)
  /\ \E started \in BOOLEAN : (~started => lost) /\ P!Join(p, NewState, started)
  /\ mems' = [mems EXCEPT ![job.cluster] = job.proposal]
  /\ tls' = [tls EXCEPT !.own = AsWanted(@, p), !.url[job.cluster] = IF spec.tls THEN job.proposal ELSE {},
                        !.cut = {e \in @ : p \notin e}]
  /\ Answered(p, lost)
  /\ UNCHANGED <<down, pending, content, written, storeVars, overdue>>

\* DoRestore, on a peer that was healthy in the snapshot: before the new cluster.
DoRestore(p, lost) ==
  /\ job.step = "restore" /\ p \in job.healthy \cap job.view \cap Answering
  /\ content' = [content EXCEPT ![run[p]] = Head(cached)]
  /\ IF lost THEN Fault("lost") /\ Over ELSE NoFault /\ Goto([job EXCEPT !.step = "clear"])
  /\ UNCHANGED <<nodeVars, down, mems, pending, tls, written, storeVars, overdue>>


\* removeCommand removes that one command, the first in the store as it is in the
\* leader's copy, and drops the copy.
RemoveCommand ==
  /\ job.step = "clear"
  /\ commands' = Tail(commands)
  /\ cached' = None
  /\ Over
  /\ Aside

(***************************************************************************)
(* Quarantine and in-place upgrade: Reconfigure, in two steps, since the   *)
(* node stops etcd before it starts it again.                              *)
(***************************************************************************)
BeginLift ==
  /\ job.step = "decide" /\ Lifts /\ Acked(quorumSize(Count))
  /\ Goto([job EXCEPT !.step = "lift", !.todo = job.view \cap job.members])
  /\ Aside /\ UNCHANGED storeVars

BeginFence ==
  /\ job.step = "decide" /\ Fences
  /\ Goto([job EXCEPT !.step = "fence", !.todo = job.view \cap job.members])
  /\ Aside /\ UNCHANGED storeVars

\* Mutant: all members in one iteration, and without waiting for the answers.
BeginUpgradeInPlaceAll ==
  /\ job.step = "decide" /\ Upgrades /\ Acked(quorumSize(Count)) /\ CanUpgradeInPlace
  /\ ReadyForUpgrade /\ job.members \subseteq Configured /\ BackedUp
  /\ run' = [n \in Node |-> IF n \in job.members THEN None ELSE run[n]]
  /\ Over
  /\ NoFault /\ UNCHANGED <<prepared, member, down, etcdVars, written, overdue, storeVars>>

\* upgradeInPlace: one member per iteration.
BeginUpgradeInPlace ==
  /\ job.step = "decide" /\ Upgrades /\ Acked(quorumSize(Count)) /\ CanUpgradeInPlace
  /\ ReadyForUpgrade /\ job.members \subseteq Configured /\ BackedUp
  /\ \E p \in job.members \cap Mismatch : Goto([job EXCEPT !.step = "reconf", !.todo = {p}])
  /\ Aside /\ UNCHANGED storeVars

Reconfiguring == {"lift", "fence", "reconf", "quarantine", "enable"}

ReconfigureBegin(p) ==
  /\ job.step \in Reconfiguring /\ Calls(job.step, p) /\ job.busy = None
  /\ member[p] # None
  /\ IF run[p] # None THEN P!Exit(p) ELSE UNCHANGED nodeVars
  /\ Goto([job EXCEPT !.busy = p])
  /\ NoFault
  /\ UNCHANGED <<down, etcdVars, written, storeVars, overdue>>

\* What the request asks for.
Reconfigured(p) ==
  [member[p] EXCEPT !.quarantined = IF job.step \in {"reconf", "enable"} THEN job.info[p].quarantined ELSE job.step # "lift",
                    !.version = IF job.step = "reconf" THEN Target ELSE @]

ReconfigureEnd(p, lost) ==
  /\ job.step \in Reconfiguring /\ Calls(job.step, p) /\ job.busy = p
  /\ \E started \in BOOLEAN :
       /\ ~started => lost
       /\ P!Reconfigure(p, Reconfigured(p), started)
  /\ EtcdUp(p, member[p].cluster, IF job.step = "enable" THEN tls.own \cup {p} ELSE tls.own)
  /\ Answered(p, lost)
  /\ UNCHANGED <<down, written, storeVars, overdue>>

(***************************************************************************)
(* reconcileTLS: one change per iteration, on whatever peer the map yields *)
(* first; the address in etcd before the state of the node.                *)
(***************************************************************************)
BeginTLS ==
  /\ job.step = "decide" /\ Secures
  /\ \E p \in Unsecured :
       Goto(IF p \notin tls.url[job.etcd] THEN [job EXCEPT !.step = "urls", !.target = p]
                                          ELSE [job EXCEPT !.step = "enable", !.todo = {p}])
  /\ Aside /\ UNCHANGED storeVars

\* updatePeerURLs, through the etcd of the target itself.
SetPeerURLs(lost) ==
  /\ job.step = "urls" /\ job.target \in Answering
  /\ tls' = [tls EXCEPT !.url[run[job.target]] = @ \cup {job.target},
                        !.cut = IF job.target \in tls.own THEN {e \in @ : job.target \notin e} ELSE @]
  /\ IF lost THEN Fault("lost") ELSE NoFault
  /\ Over
  /\ UNCHANGED <<nodeVars, down, mems, pending, content, written, storeVars, overdue>>

(***************************************************************************)
(* stopForUpgrade                                                          *)
(***************************************************************************)

\* Mutant: the cluster is not quarantined before the backup.
BeginStopUnfenced ==
  /\ job.step = "decide" /\ Upgrades /\ Acked(quorumSize(Count)) /\ ~CanUpgradeInPlace
  /\ ReadyForUpgrade /\ BackedUp
  /\ Goto([job EXCEPT !.step = "dump"])
  /\ Aside /\ UNCHANGED storeVars

BeginStopForUpgrade ==
  /\ job.step = "decide" /\ Upgrades /\ Acked(quorumSize(Count)) /\ ~CanUpgradeInPlace
  /\ ReadyForUpgrade /\ BackedUp
  /\ Goto([job EXCEPT !.step = "quarantine", !.todo = job.view \cap job.members])
  /\ Aside /\ UNCHANGED storeVars

\* The second backup, that the restore will use.
Dump(p) ==
  /\ job.step = "dump" /\ p \in (job.healthy \cap job.view) \ down /\ run[p] # None
  /\ Goto([job EXCEPT !.step = "command", !.data = content[run[p]]])
  /\ Aside /\ UNCHANGED storeVars

\* AddCommand, and the loop that waits until the command can be read back.  When
\* the answer is lost the command may be there, and the copy knows nothing of it.
AddCommand(lost) ==
  /\ job.step = "command" /\ Len(commands) < MaxCommands
  /\ commands' = Append(commands, job.data)
  /\ IF lost THEN Fault("lost") /\ Over /\ UNCHANGED cached
             ELSE NoFault /\ Goto([job EXCEPT !.step = "halt", !.todo = job.members]) /\ cached' = commands'
  /\ UNCHANGED <<nodeVars, down, etcdVars, written, overdue>>

(***************************************************************************)
(* Adding and removing members.                                            *)
(***************************************************************************)

\* addNodeToCluster: a backup, an idle peer, and the cluster token of whatever
\* configured peer comes last.
BeginGrow ==
  /\ job.step = "decide" /\ Grows /\ Registered > 0 /\ Acked(quorumSize(Registered))
  /\ Cardinality(job.healthy) >= quorumSize(Registered) /\ BackedUp
  /\ \E p \in Idlers, q \in Configured :
       Goto([job EXCEPT !.step = "joinPrepare", !.target = p,
                        !.cluster = job.info[q].cluster, !.version = job.info[q].version])
  /\ Aside /\ UNCHANGED storeVars

JoinPrepare(lost) ==
  /\ job.step = "joinPrepare" /\ job.target \notin down
  /\ P!Prepare(job.target, job.cluster)
  /\ IF lost THEN Fault("lost") /\ Over ELSE NoFault /\ Goto([job EXCEPT !.step = "addMember"])
  /\ UNCHANGED <<down, etcdVars, written, storeVars, overdue>>

\* PHASE_CANCEL_PREPARE, best effort
CancelPrepare(p) ==
  IF p \notin down /\ prepared[p] # None THEN P!Unprepare(p) ELSE UNCHANGED nodeVars

\* etcdAddMember asks one member after the other until one says yes.  If the
\* answer of the first is lost, the others refuse: the member is there already.
AddMember(lost) ==
  /\ job.step = "addMember" /\ CanAdd(job.etcd, job.target)
  /\ pending' = [pending EXCEPT ![job.etcd] = @ \cup {job.target}]
  /\ tls' = [tls EXCEPT !.url[job.etcd] = AsWanted(@, job.target)]
  /\ IF lost THEN Fault("lost") /\ CancelPrepare(job.target) /\ Over
             ELSE NoFault /\ UNCHANGED nodeVars /\ Goto([job EXCEPT !.step = "join"])
  /\ UNCHANGED <<down, mems, content, written, storeVars, overdue>>

AddMemberRefused ==
  /\ job.step = "addMember" /\ ~CanAdd(job.etcd, job.target)
  /\ CancelPrepare(job.target)
  /\ Over
  /\ NoFault
  /\ UNCHANGED <<down, etcdVars, written, storeVars, overdue>>

\* PHASE_JOIN_EXISTING: not quarantined.
JoinExisting(lost) ==
  /\ job.step = "join" /\ job.target \notin down
  /\ \E started \in BOOLEAN :
       /\ ~started => lost
       /\ started => job.target \in AllMembers(job.cluster)
       /\ P!Join(job.target, [cluster |-> job.cluster, nodes |-> job.members \cup {job.target},
                              quarantined |-> FALSE, version |-> job.version], started)
       /\ LET own == AsWanted(tls.own, job.target)
          IN IF started THEN EtcdUp(job.target, job.cluster, own)
             ELSE tls' = [tls EXCEPT !.own = own] /\ UNCHANGED <<mems, pending, content>>
  /\ IF lost THEN Fault("lost") ELSE NoFault
  /\ Over
  /\ UNCHANGED <<down, written, storeVars, overdue>>

\* removeNodeFromCluster favours an unhealthy member.
Unhealthy == (job.members \cup job.unnamed) \ job.healthy

BeginShrink ==
  /\ job.step = "decide" /\ Shrinks /\ Acked(quorumSize(Cardinality(Configured))) /\ BackedUp
  /\ \E v \in IF Unhealthy # {} THEN Unhealthy ELSE job.members :
       Goto([job EXCEPT !.step = "removeMember", !.target = v])
  /\ Aside /\ UNCHANGED storeVars

BeginReplace ==
  /\ job.step = "decide" /\ Replaces /\ BackedUp
  /\ \E v \in Unhealthy \cap overdue : Goto([job EXCEPT !.step = "removeMember", !.target = v])
  /\ Aside /\ UNCHANGED storeVars

\* etcd of a removed member exits.
RemoveMember(lost) ==
  /\ job.step = "removeMember" /\ CanRemove(job.etcd, job.target)
  /\ mems' = [mems EXCEPT ![job.etcd] = @ \ {job.target}]
  /\ pending' = [pending EXCEPT ![job.etcd] = @ \ {job.target}]
  /\ run' = [run EXCEPT ![job.target] = IF @ = job.etcd THEN None ELSE @]
  /\ IF lost THEN Fault("lost") ELSE NoFault
  /\ Over
  /\ UNCHANGED <<prepared, member, down, content, tls, written, storeVars, overdue>>

(***************************************************************************)
(* Nothing to do, errors, and the passage from one loop to the next.       *)
(***************************************************************************)
CanBegin ==
  \/ Restores /\ Acked(quorumSize(Count)) /\ Unused # {}
  \/ Lifts /\ Acked(quorumSize(Count))
  \/ Fences
  \/ /\ Grows /\ Registered > 0 /\ Acked(quorumSize(Registered)) /\ Idlers # {} /\ BackedUp
     /\ Cardinality(job.healthy) >= quorumSize(Registered)
  \/ Shrinks /\ Acked(quorumSize(Cardinality(Configured))) /\ BackedUp
  \/ Replaces /\ BackedUp /\ Unhealthy \cap overdue # {}
  \/ Secures
  \/ /\ Upgrades /\ Acked(quorumSize(Count)) /\ ReadyForUpgrade /\ BackedUp
     /\ CanUpgradeInPlace => job.members \subseteq Configured /\ job.members \cap Mismatch # {}

\* "must issue restore-backup command to proceed": the store is read again.
Nothing ==
  /\ job.step = "decide" /\ ~CanBegin
  /\ Over
  /\ cached' = IF Grows /\ Registered = 0 THEN commands ELSE cached
  /\ Aside /\ UNCHANGED commands

\* A call cannot be made or is refused by the handler: the iteration fails.
CallFails ==
  /\ \/ job.step \in {"stop", "halt", "prepare", "initial"} \cup Reconfiguring
        /\ \E p \in job.todo :
             \/ p \in down
             \/ job.step \in {"stop", "halt"} \cup Reconfiguring /\ member[p] = None
             \/ job.step = "prepare" /\ ~P!CanPrepare(p)
             \/ job.step = "initial" /\ ~P!CanJoin(p, job.cluster)
     \/ job.step = "restore" /\ (job.healthy \cap job.view = {} \/ ~(job.healthy \cap job.view \subseteq Answering))
     \/ job.step = "dump" /\ ~\E p \in (job.healthy \cap job.view) \ down : run[p] # None
     \/ job.step = "command" /\ Len(commands) = MaxCommands
     \/ job.step = "joinPrepare" /\ (job.target \in down \/ ~P!CanPrepare(job.target))
     \/ job.step = "join" /\ (job.target \in down \/ ~P!CanJoin(job.target, job.cluster)
                                                  \/ job.target \notin AllMembers(job.cluster))
     \/ job.step = "urls" /\ job.target \notin Answering
     \/ job.step = "removeMember" /\ ~CanRemove(job.etcd, job.target)
  /\ Over
  /\ Aside /\ UNCHANGED storeVars

\* The member map is broadcast to all peers between the stops and the joins.
NextLoop ==
  /\ job.step \in {"stop", "halt", "prepare", "initial"} \cup Reconfiguring /\ job.todo = {}
  /\ Goto(CASE job.step = "stop" -> IF job.view \cap down = {}
                                    THEN [job EXCEPT !.step = "prepare", !.todo = job.proposal] ELSE NoJob
            [] job.step = "prepare" -> [job EXCEPT !.step = "initial", !.todo = job.proposal]
            [] job.step = "initial" -> [job EXCEPT !.step = "restore"]
            [] job.step = "quarantine" -> [job EXCEPT !.step = "dump"]
            [] OTHER -> NoJob)
  /\ Aside /\ UNCHANGED storeVars

LeaderStep ==
  \/ Observe \/ Nothing \/ CallFails \/ NextLoop
  \/ BeginRestore \/ BeginLift \/ BeginFence \/ BeginUpgradeInPlace \/ BeginStopForUpgrade
  \/ BeginGrow \/ BeginShrink \/ BeginReplace \/ BeginTLS
  \/ RemoveCommand \/ AddMemberRefused
  \/ \E p \in Node : ReconfigureBegin(p) \/ Dump(p)
  \/ \E p \in Node, lost \in BOOLEAN :
       StopEtcd(p, lost) \/ Prepare(p, lost) \/ InitialCluster(p, lost) \/ DoRestore(p, lost) \/ ReconfigureEnd(p, lost)
  \/ \E lost \in BOOLEAN :
       AddCommand(lost) \/ JoinPrepare(lost) \/ AddMember(lost) \/ JoinExisting(lost) \/ RemoveMember(lost) \/ SetPeerURLs(lost)

(***************************************************************************)
(* Everybody else.                                                         *)
(***************************************************************************)

\* The ten-second check starts etcd; one that is no member any more exits at once.
EtcdStarts(n) ==
  /\ n \notin down /\ job.busy # n
  /\ P!Start(n) /\ UNCHANGED prepared
  /\ n \in AllMembers(member[n].cluster)
  /\ EtcdUp(n, member[n].cluster, tls.own)
  /\ NoFault
  /\ UNCHANGED <<down, written, storeVars, overdue, job>>

\* A preparation expires after a minute; during an iteration that is a fault.
Expire(n) ==
  /\ P!Unprepare(n)
  /\ IF job.step = "none" THEN NoFault ELSE Fault("expire")
  /\ UNCHANGED <<down, etcdVars, written, storeVars, overdue, job>>

\* removeUnhealthyDeadline passes.
Overdue(n) ==
  /\ n \notin overdue /\ \E c \in Cluster : n \in AllMembers(c) /\ run[n] # c
  /\ overdue' = overdue \cup {n}
  /\ NoFault
  /\ UNCHANGED <<nodeVars, down, etcdVars, written, storeVars, job>>

EtcdExits(n) ==
  /\ P!Exit(n)
  /\ Fault("exit")
  /\ UNCHANGED <<down, etcdVars, written, storeVars, overdue, job>>

NodeDown(n) ==
  /\ n \notin down
  /\ P!Crash(n)
  /\ down' = down \cup {n}
  /\ Fault("down")
  /\ UNCHANGED <<etcdVars, written, storeVars, overdue, job>>

NodeUp(n) ==
  /\ n \in down /\ "down" \in faults.kinds
  /\ down' = down \ {n}
  /\ NoFault
  /\ UNCHANGED <<nodeVars, etcdVars, written, storeVars, overdue, job>>

\* The leader's process stops; the next leader has read nothing yet.
LeaderStops ==
  /\ Fault("leader") /\ job.busy = None
  /\ Over
  /\ cached' = None /\ overdue' = {}
  /\ UNCHANGED <<nodeVars, down, etcdVars, written, commands>>

ClientWrites(c) ==
  /\ Serving(c) /\ written <= MaxWrites
  /\ written' = written + 1
  /\ content' = [content EXCEPT ![c] = written + 1]
  /\ NoFault
  /\ UNCHANGED <<nodeVars, down, mems, pending, tls, storeVars, overdue, job>>

RCNext ==
  \/ LeaderStep \/ LeaderStops
  \/ \E n \in Node : EtcdStarts(n) \/ Expire(n) \/ Overdue(n) \/ EtcdExits(n) \/ NodeDown(n) \/ NodeUp(n)
  \/ \E c \in Cluster : ClientWrites(c)

RCSpec == RCInit /\ [][RCNext]_rcVars

\* The control loop repeats for ever, runOnce every ten seconds, and time passes;
\* a preparation expires by the clock, however often the leader comes back to it.
RCFairness ==
  /\ WF_rcVars(LeaderStep)
  /\ \A n \in Node :
       /\ WF_rcVars(EtcdStarts(n))
       /\ SF_rcVars(job.step = "none" /\ Expire(n))
       /\ WF_rcVars(Overdue(n))

RCFairSpec == RCSpec /\ RCFairness

(***************************************************************************)
(* Properties.                                                             *)
(***************************************************************************)

\* Enough members of c still have their data directories.
Kept(c) ==
  Cardinality({n \in mems[c] : member[n] # None /\ member[n].cluster = c}) >= quorumSize(Cardinality(mems[c]))

\* An upgrade through backup and restore (stopForUpgrade) dismantles the only
\* cluster there is.  Wherever it is interrupted, the last acknowledged write is
\* in a cluster that can come back, or in a backup that a restore command names.
DataKept ==
  \/ \E c \in Cluster : mems[c] # {} /\ Kept(c) /\ content[c] = written
  \/ \E i \in DOMAIN commands : commands[i] = written

\* Clients never reach a cluster that is empty or out of date: between the backup
\* and the end of the restore everything is quarantined.
ServesLatest == \A c \in Cluster : Serving(c) => content[c] = written

\* c is complete and open, and needs at most an in-place upgrade.
RunsInPlace(c) ==
  /\ Cardinality(mems[c]) >= Count
  /\ \A n \in mems[c] : /\ member[n] # None /\ member[n].cluster = c /\ ~member[n].quarantined
                         /\ <<member[n].version, Target>> \in InPlace \cup {<<Target, Target>>}

\* An in-place upgrade and the change to TLS (one member per iteration) keep the
\* cluster in service at every point, as long as nothing else fails.
ServesThroughout == ~faults.hit => \A c \in Cluster : RunsInPlace(c) => Serving(c)



\* All members run and none reaches enough others: reconcileTLS changed the address
\* of one member after the other before it changed the members, and they started
\* again before it came to that.  Nobody lists the members, and so nothing follows.
Severed == \E c \in Cluster : mems[c] # {} /\ Running(c) = mems[c] /\ ~Quorate(c)


=============================================================================
