------------------------------- MODULE Machine -------------------------------
(***************************************************************************)
(* The etcd-managers of one machine, from the start of the process to its  *)
(* end: RunEtcdManager (cmd/etcd-manager/main.go) makes the key pairs of   *)
(* the manager, looks for an etcd to import and brings up the EtcdServer,  *)
(* whose handlers and periodic check then work on the state file, the key  *)
(* pairs of etcd (Keypairs) and the data directories (DataDir).  All       *)
(* managers of the machine write /etc/hosts (Hosts).                       *)
(*                                                                         *)
(* EtcdServer shows what a node does to its state file; here the other     *)
(* files it works on are added, and what a stop between two of its steps   *)
(* leaves on the volume.                                                   *)
(***************************************************************************)
EXTENDS EtcdServer, Versions

CONSTANTS Plans,      \* what may happen in a behaviour: see plan
          Imported,   \* cluster token of the etcd that ran here before
          Elsewhere,  \* tokens of clusters with members on other machines
          CA, Names, NoCert, Cut, CertDuration, CertMinTimeLeft,   \* see Keypairs
          Address, Host, MaxAttempts, MaxOverlaps          \* see Hosts

VARIABLES
  plan,      \* on: the managers; running: those that are
             \* up; old: those with an etcd to import, of version;
             \* requests: what the leader asks for; kinds, faults: what fails; changes: of
             \* the CA, the addresses and the members of the cluster
  boot,      \* boot[n]: where RunEtcdManager is
  config,    \* config[n]: CA and names a manager that starts now would use
  created,   \* the cluster-created marker of the control store
  pairing,   \* pairing[n]: the key pair of etcd that is being made
  archiving, \* archiving[n]: clusterToken of the StopEtcd that is being handled
  changes,
  left,      \* left[n]: clusters with data that was not archived after StopEtcd
  key, cert,            \* see Keypairs
  data, trash, legacy,  \* see DataDir
  file, primary, fallbacks, writer, overlaps, spoiled   \* see Hosts

Slot == Node \X (Cluster \cup {"manager"}) \X {"server", "client", "peers", "clients"}

K == INSTANCE Keypairs
D == INSTANCE DataDir
H == INSTANCE Hosts WITH Manager <- Node

keypairVars == <<key, cert>>
dataVars == <<data, trash, legacy>>
hostsVars == <<file, primary, fallbacks, writer, overlaps, spoiled>>
ownVars == <<plan, boot, config, created, pairing, archiving, changes, left>>
machineVars == <<vars, ownVars, keypairVars, dataVars, hostsVars>>

FirstConfig == CHOOSE c \in K!Config : TRUE

\* The managers in plan.running have been started before.
MachineInit ==
  /\ plan \in Plans
  /\ accepted = [n \in Node |-> None]
  /\ up = [n \in Node |-> n \in plan.running]
  /\ state = [n \in Node |-> None]
  /\ disk = [n \in Node |-> None]
  /\ prepared = [n \in Node |-> None]
  /\ process = [n \in Node |-> None]
  /\ handler = [n \in Node |-> NoHandler]
  /\ faults = 0
  /\ boot = [n \in Node |-> IF n \in plan.running THEN "up" ELSE "off"]
  /\ config = [n \in Node |-> FirstConfig]
  /\ created = FALSE
  /\ pairing = [n \in Node |-> "none"]
  /\ archiving = [n \in Node |-> None]
  /\ changes = 0
  /\ left = [n \in Node |-> {}]
  /\ K!Init(plan.running \X {"manager"} \X {"server", "client"}, FirstConfig)
  /\ D!Init(plan.old)
  /\ H!Init

Fails(kind) == kind \in plan.kinds /\ faults < plan.faults

(***************************************************************************)
(* RunEtcdManager, up to ListenAndServe.                                   *)
(***************************************************************************)
KeepFiles == UNCHANGED <<keypairVars, dataVars, hostsVars>>

OnlyBoot == UNCHANGED <<vars, plan, config, created, pairing, archiving, changes, left>>

BootTo(n, pc) == boot' = [boot EXCEPT ![n] = pc]

\* The container is started.
Starts(n) ==
  /\ n \in plan.on /\ boot[n] = "off"
  /\ BootTo(n, "server")
  /\ OnlyBoot /\ KeepFiles

ManagerSlot(n) == <<n, "manager", boot[n]>>
MakesManagerPair(n) == boot[n] \in {"server", "client"}

\* GRPCServerConfig, then GRPCClientConfig.
ManagerKey(n) ==
  /\ MakesManagerPair(n)
  /\ K!WriteKey(ManagerSlot(n))
  /\ OnlyBoot /\ UNCHANGED <<boot, dataVars, hostsVars>>

ManagerCert(n) ==
  /\ MakesManagerPair(n)
  /\ K!WriteCert(ManagerSlot(n), config[n])
  /\ BootTo(n, IF boot[n] = "server" THEN "client" ELSE "scan")
  /\ OnlyBoot /\ UNCHANGED <<dataVars, hostsVars>>

\* RunEtcdManager returns an error, and the container starts again: a key pair
\* that does not load, a state file that does not parse, an old data directory
\* that is not where the manifest says.
BootFails(n) ==
  /\ \/ MakesManagerPair(n) /\ ~K!Loads(ManagerSlot(n))
     \/ boot[n] = "state" /\ disk[n] = Torn
     \/ boot[n] = "copy" /\ legacy[n] = "moved"
  /\ BootTo(n, "off")
  /\ OnlyBoot /\ KeepFiles

\* ScanForExisting.
ScanForExisting(n) ==
  /\ boot[n] = "scan"
  /\ created' = (created \/ D!Manifest(n))
  /\ BootTo(n, "state")
  /\ UNCHANGED <<vars, plan, config, pairing, archiving, changes, left>>
  /\ KeepFiles


Imports(n) == disk[n] = None /\ D!Manifest(n)

\* Mutant: data in data/<token> is taken for the data of an earlier import.
ImportBeginsOnce(n) ==
  /\ boot[n] = "state" /\ Imports(n)
  /\ BootTo(n, IF data[n][Imported] # "none" THEN "rename" ELSE "copy")
  /\ OnlyBoot /\ KeepFiles

\* ImportExistingEtcd is for a node without a state file.
ImportBegins(n) ==
  /\ boot[n] = "state" /\ Imports(n)
  /\ BootTo(n, "copy")
  /\ OnlyBoot /\ KeepFiles

CopyDir(n) ==
  /\ \/ boot[n] = "copy" /\ D!CopyBegins(n) /\ BootTo(n, "copying")
     \/ boot[n] = "copying" /\ D!CopyEnds(n) /\ BootTo(n, "rename")
  /\ OnlyBoot /\ UNCHANGED <<keypairVars, hostsVars>>

ArchiveLegacy(n) ==
  /\ boot[n] = "rename"
  /\ D!RenameLegacy(n)
  /\ BootTo(n, "write")
  /\ OnlyBoot /\ UNCHANGED <<keypairVars, hostsVars>>

\* The state that the manifest describes is stored, and the server is up with it.
WriteImported(n) ==
  /\ boot[n] = "write"
  /\ disk' = [disk EXCEPT ![n] = Joined("join", Imported, {n}, EtcdVersionForAdoption(plan.version))]
  /\ state' = [state EXCEPT ![n] = disk'[n]]
  /\ up' = [up EXCEPT ![n] = TRUE]
  /\ BootTo(n, "up")
  /\ NoFault
  /\ UNCHANGED <<accepted, prepared, process, handler>>
  /\ UNCHANGED <<plan, config, created, pairing, archiving, changes, left>>
  /\ KeepFiles

ServerUp(n) ==
  /\ boot[n] = "state" /\ ~Imports(n)
  /\ NewEtcdServer(n)
  /\ BootTo(n, "up")
  /\ UNCHANGED <<plan, config, created, pairing, archiving, changes, left>>
  /\ KeepFiles

(***************************************************************************)
(* The EtcdServer at work: its actions, and the steps of startEtcdProcess  *)
(* and StopEtcd on other files, which hold the mutex too.                  *)
(***************************************************************************)
Unlocked(n) == pairing[n] = "none" /\ archiving[n] = None

ServerOnly == UNCHANGED ownVars /\ KeepFiles

HearsLeader(n, t) == plan.requests # {} /\ LeaderNotification(n, t) /\ ServerOnly

\* The leader prepares nodes without a cluster (see NewCluster and Reconcile).
Prepare(n, t, c) ==
  Unlocked(n) /\ ~HasCluster(state[n]) /\ JoinPrepare(n, t, c) /\ ServerOnly

Expires(n) == Unlocked(n) /\ PreparedExpires(n) /\ ServerOnly

\* A new cluster has a new token; one to join has members elsewhere.
Join(n, t, op, c, v) ==
  /\ Unlocked(n) /\ op \in plan.requests
  /\ IF op = "join" THEN c \in Elsewhere ELSE c \notin Elsewhere \cup {Imported}
  /\ ~HasCluster(state[n])
  /\ JoinBegin(n, t, op, c, {n}, v) /\ ServerOnly

Reconfigured(n, t, q, v) ==
  /\ Unlocked(n) /\ "reconfigure" \in plan.requests
  /\ ReconfigureBegin(n, t, q, v) /\ ServerOnly

StopEtcd(n, t) ==
  /\ Unlocked(n) /\ "stop" \in plan.requests
  /\ StopBegin(n, t)
  /\ archiving' = [archiving EXCEPT ![n] = state[n].cluster]
  /\ UNCHANGED <<plan, boot, config, created, pairing, changes, left>>
  /\ KeepFiles

Writes(n) == (WriteState(n) \/ WriteInitialised(n)) /\ ServerOnly

\* The data of a cluster that the state s does not name.
Unnamed(n, s) == {c \in Cluster : data[n][c] # "none" /\ ~(HasCluster(s) /\ s.cluster = c)}

CannotWrite(n) ==
  /\ Fails("write") /\ WriteFails(n)
  /\ archiving' = [archiving EXCEPT ![n] = None]
  /\ left' = [left EXCEPT ![n] = @ \cup Unnamed(n, state[n])]
  /\ UNCHANGED <<plan, boot, config, created, pairing, changes>>
  /\ KeepFiles

\* StopEtcd, after it wrote the state.
Archive(n) ==
  /\ up[n] /\ handler[n] = NoHandler /\ archiving[n] # None
  /\ D!Archive(n, archiving[n])
  /\ left' = [left EXCEPT ![n] = @ \cup ({archiving[n]} \cap trash[n])]
  /\ archiving' = [archiving EXCEPT ![n] = None]
  /\ UNCHANGED <<vars, plan, boot, config, created, pairing, changes>>
  /\ UNCHANGED <<keypairVars, hostsVars>>

(***************************************************************************)
(* startEtcdProcess, called by a handler or by runOnce: createKeypairs for *)
(* the peers and for the clients, in pki/<token>, then the process.        *)
(***************************************************************************)
ByHandler(n) == handler[n].pc = "start"
ByRunOnce(n) == Free(n) /\ archiving[n] = None /\ (process[n] # None => process[n].exited)

StartsEtcd(n) ==
  /\ up[n] /\ HasCluster(state[n]) /\ n \in state[n].nodes
  /\ ByHandler(n) \/ ByRunOnce(n)

EtcdSlot(n) == <<n, state[n].cluster, pairing[n]>>
MakesEtcdPair(n) == pairing[n] \in {"peers", "clients"}

OnlyPairing == UNCHANGED <<vars, plan, boot, config, created, archiving, changes, left>>

PairsBegin(n) ==
  /\ StartsEtcd(n) /\ pairing[n] = "none"
  /\ pairing' = [pairing EXCEPT ![n] = "peers"]
  /\ OnlyPairing /\ KeepFiles

EtcdKey(n) ==
  /\ MakesEtcdPair(n)
  /\ K!WriteKey(EtcdSlot(n))
  /\ OnlyPairing /\ UNCHANGED <<pairing, dataVars, hostsVars>>

EtcdCert(n) ==
  /\ MakesEtcdPair(n)
  /\ K!WriteCert(EtcdSlot(n), config[n])
  /\ pairing' = [pairing EXCEPT ![n] = IF @ = "peers" THEN "clients" ELSE "made"]
  /\ OnlyPairing /\ UNCHANGED <<dataVars, hostsVars>>

\* createKeypairs returns an error; runOnce will try again.
PairsFail(n) ==
  /\ MakesEtcdPair(n) /\ ~K!Loads(EtcdSlot(n))
  /\ pairing' = [pairing EXCEPT ![n] = "none"]
  /\ Return(n) /\ NoFault
  /\ process' = [process EXCEPT ![n] = None]
  /\ UNCHANGED <<accepted, up, state, disk, prepared>>
  /\ UNCHANGED <<plan, boot, config, created, archiving, changes, left>>
  /\ KeepFiles

\* With the key pairs in place the process is started, or that fails.
EtcdUp(n) ==
  /\ pairing[n] = "made"
  /\ StartEtcd(n) \/ (ByRunOnce(n) /\ runOnce(n))
  /\ pairing' = [pairing EXCEPT ![n] = "none"]
  /\ UNCHANGED <<plan, boot, config, created, archiving, changes, left>>
  /\ KeepFiles

EtcdNotUp(n) ==
  /\ pairing[n] = "made" /\ Fails("start")
  /\ StartFails(n) \/ runOnceFails(n)
  /\ pairing' = [pairing EXCEPT ![n] = "none"]
  /\ UNCHANGED <<plan, boot, config, created, archiving, changes, left>>
  /\ KeepFiles

(***************************************************************************)
(* etcd, the machine and the operator.                                     *)
(***************************************************************************)
Runs(n) == process[n] # None /\ ~process[n].exited

\* etcd creates the cluster it is told to, or gets the data from its peers.
EtcdFills(n) ==
  /\ Runs(n)
  /\ process[n].createNew \/ process[n].cluster \in Elsewhere
  /\ D!EtcdWrites(n, process[n].cluster)
  /\ UNCHANGED <<vars, ownVars, keypairVars, hostsVars>>

Exits(n) ==
  /\ Fails("exit") /\ EtcdExits(n)
  /\ ServerOnly

\* What a file that was being written looks like when the manager stops.
CutsPair(n) ==
  /\ "torn" \in plan.kinds
  /\ \/ MakesManagerPair(n) /\ K!Loads(ManagerSlot(n)) /\ K!CutShort(ManagerSlot(n))
     \/ MakesEtcdPair(n) /\ K!Loads(EtcdSlot(n)) /\ K!CutShort(EtcdSlot(n))

BootDisk(n) == IF "torn" \in plan.kinds /\ boot[n] = "write" THEN {None, Blank, Torn} ELSE {disk[n]}

\* Before the server is up there is only the boot to end.
BootStops(n) ==
  /\ boot[n] \notin {"off", "up"}
  /\ Fault("crash")
  /\ \E d \in BootDisk(n) : disk' = [disk EXCEPT ![n] = d]
  /\ UNCHANGED <<accepted, up, state, prepared, process, handler>>

ManagerStops(n) ==
  /\ Fails("crash")
  /\ BootStops(n) \/ Crash(n)
  /\ CutsPair(n) \/ UNCHANGED keypairVars
  /\ BootTo(n, "off")
  /\ pairing' = [pairing EXCEPT ![n] = "none"]
  /\ archiving' = [archiving EXCEPT ![n] = None]
  /\ left' = [left EXCEPT ![n] = @ \cup Unnamed(n, disk'[n])]
  /\ H!Stops(n)
  /\ UNCHANGED <<plan, config, created, changes, dataVars>>

Change == changes < plan.changes /\ changes' = changes + 1

\* A new CA is put on the machine, or it gets another address.
Rotates(n) ==
  /\ n \in plan.on /\ boot[n] = "off"
  /\ "rotate" \in plan.kinds /\ Change
  /\ \E c \in K!Config : config' = [config EXCEPT ![n] = c]
  /\ UNCHANGED <<vars, plan, boot, created, pairing, archiving, left>>
  /\ KeepFiles

\* Years go by between the steps of a manager, not during them.
YearPasses ==
  /\ "rotate" \in plan.kinds /\ Change
  /\ \A n \in Node : boot[n] \in {"off", "up"} /\ pairing[n] = "none"
  /\ K!Ages
  /\ UNCHANGED <<vars, plan, boot, config, created, pairing, archiving, left>>
  /\ UNCHANGED <<dataVars, hostsVars>>

(***************************************************************************)
(* /etc/hosts: discovery and the leader's member map, again and again.     *)
(***************************************************************************)
OnlyHosts == UNCHANGED <<vars, plan, boot, config, created, pairing, archiving, left,
                         keypairVars, dataVars>>

Discovers(n) ==
  /\ up[n] /\ plan.discovered # {}
  /\ H!AddFallbacks(n, plan.discovered)
  /\ OnlyHosts /\ UNCHANGED changes

\* UpdateEndpoints waits for the mutex.
UpdateEndpoints(n, p) ==
  /\ up[n] /\ handler[n] = NoHandler /\ Unlocked(n)
  /\ IF p = primary[n] THEN UNCHANGED changes ELSE Change
  /\ H!UpdateHosts(n, p)
  /\ OnlyHosts

WritesHosts(n) == (H!Truncate(n) \/ H!Write(n) \/ H!Reread(n)) /\ OnlyHosts /\ UNCHANGED changes

(***************************************************************************)
(* The specification.                                                      *)
(***************************************************************************)
Boot(n) ==
  \/ Starts(n) \/ ManagerKey(n) \/ ManagerCert(n) \/ BootFails(n) \/ ScanForExisting(n)
  \/ ImportBegins(n) \/ CopyDir(n) \/ ArchiveLegacy(n) \/ WriteImported(n)
  \/ ServerUp(n)

Requested(n) ==
  \E t \in Leader :
    \/ HearsLeader(n, t) \/ StopEtcd(n, t)
    \/ \E c \in Cluster : Prepare(n, t, c)
    \/ \E op \in {"initial", "join"}, c \in Cluster, v \in Version : Join(n, t, op, c, v)
    \/ \E q \in BOOLEAN, v \in Version : Reconfigured(n, t, q, v)

Serving(n) ==
  \/ Writes(n) \/ Archive(n) \/ PairsBegin(n) \/ EtcdKey(n) \/ EtcdCert(n) \/ PairsFail(n)
  \/ EtcdUp(n)

MachineNext ==
  \/ YearPasses
  \/ \E n \in plan.on :
       \/ Boot(n) \/ Requested(n) \/ Expires(n) \/ Serving(n) \/ EtcdFills(n)
       \/ CannotWrite(n) \/ EtcdNotUp(n) \/ Exits(n) \/ ManagerStops(n) \/ Rotates(n)
       \/ Discovers(n) \/ WritesHosts(n) \/ \E p \in plan.members : UpdateEndpoints(n, p)

MachineSpec == MachineInit /\ [][MachineNext]_machineVars

\* The container is restarted; a handler and runOnce go on; discovery is polled.
MachineFairness ==
  \A n \in Node :
    /\ WF_machineVars(Boot(n)) /\ WF_machineVars(Serving(n)) /\ WF_machineVars(EtcdFills(n))
    /\ WF_machineVars(Discovers(n)) /\ WF_machineVars(WritesHosts(n))

MachineFairSpec == MachineSpec /\ MachineFairness

(***************************************************************************)
(* Properties.                                                             *)
(***************************************************************************)

\* An imported etcd is never run on part of its data, wherever the import was
\* interrupted: once the state file names it, all of the data was copied and the
\* control store says that the cluster exists ("This stops the cluster being
\* recreated when we're importing legacy data").
ImportedWhole ==
  \A n \in Node : HasCluster(disk[n]) /\ disk[n].cluster = Imported =>
    created /\ data[n][Imported] = "whole" /\ Imported \in trash[n]

\* etcd is started with certificates of the CA and for the names that its manager
\* was started with, and with all of their time left, although ensureKeypair does
\* not compare the CA: no certificate is ever reused.
CertificateFits ==
  [][\A n \in Node : ~Runs(n) /\ process'[n] # None /\ ~process'[n].exited =>
       \A s \in {"peers", "clients"} : K!Fresh(<<n, process'[n].cluster, s>>, config[n])]_machineVars

\* A node that joins a cluster again starts from an empty directory, not from the
\* data of the member it was before.  The exceptions: the archive holds a
\* directory of that cluster from an earlier time, which os.Rename does not
\* replace, and a stop, or a failed write, in the middle of StopEtcd.
JoinsFresh ==
  [][\A n \in Node : handler[n].op \in {"initial", "join"} /\ process[n] = None /\ process'[n] # None =>
       data[n][process'[n].cluster] = "none" \/ process'[n].cluster \in left[n]]_machineVars

\* A node with a member's state, or with an etcd to import.
Entitled(n) ==
  /\ n \in plan.on
  /\ \/ HasCluster(disk[n]) /\ n \in disk[n].nodes
     \/ disk[n] = None /\ D!Manifest(n)

Serves(n) == Runs(n) /\ data[n][process[n].cluster] = "whole"

\* What a stop, or a write that failed, can leave and the next start cannot use:
\* a key or a certificate cut short; an import that was interrupted between the
\* rename and the state file; a new cluster that is not new any more, but has no
\* data; a state that is in memory and not in the file.
Stuck(n) ==
  \/ \E s \in Slot : s[1] = n /\ ~K!Loads(s)
  \/ disk[n] = None /\ legacy[n] = "moved" /\ boot[n] # "write"
  \/ /\ HasCluster(disk[n]) /\ ~disk[n].newCluster
     /\ disk[n].cluster \notin Elsewhere /\ data[n][disk[n].cluster] = "none"
     /\ Runs(n) => ~process[n].createNew
  \/ Free(n) /\ state[n] # disk[n]


\* See Hosts.
HostsFileWhole == H!HostsWhole
HostsFileSettles == H!HostsSettle

=============================================================================
