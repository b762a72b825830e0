------------------------------- MODULE Etcdadm -------------------------------
(***************************************************************************)
(* The etcdadm command line (cmd, certs, binary, initsystem, etcd): on     *)
(* every machine an operator runs "init", "join" or "reset", which work on *)
(* the machine's disk, its init system and the members of the etcd cluster *)
(* in a fixed order of phases.  A command may be killed between any two    *)
(* steps, and is then run again.                                           *)
(*                                                                         *)
(* systemd and etcd are external.  systemctl start returns when etcd says  *)
(* that it is ready; until then, and while systemd waits to restart a      *)
(* failed etcd, the unit is "activating" and not "active".  etcd reports   *)
(* ready after its name was published to the other members.                *)
(*                                                                         *)
(* With the kubelet as init system etcd is a static pod: init and join     *)
(* write and remove its manifest and wait for nothing, and the kubelet     *)
(* follows when it gets to it.  reset knows no init system but systemd.    *)
(***************************************************************************)
EXTENDS Naturals, Sequences, FiniteSets

CONSTANTS
  Machine,
  First,        \* the machine "etcdadm init" is run on
  Pairs,        \* certificate and key pairs; the first one is the CA
  MaxId,        \* bound: member ids etcd hands out
  Plans         \* the machines that join, those that are reset and how often at
                \* most, the kinds of faults and how many of them at most, and
                \* whether etcd runs under the kubelet

ASSUME EtcdadmAssumption ==
  /\ First \in Machine
  /\ Pairs \in Nat \ {0} /\ MaxId \in Nat
  /\ \A p \in Plans :
       /\ p.reset \subseteq p.join /\ p.join \subseteq Machine \ {First}
       /\ p.kinds \subseteq {"kill", "reboot", "exit", "lost"}
       /\ p.resets \in Nat /\ p.faults \in Nat /\ p.kubelet \in BOOLEAN

VARIABLES
  disk,         \* disk[m]: what survives a reboot
  unit,         \* unit[m]: the systemd unit, or the pod, and the etcd process in it
  run,          \* run[m]: the command that runs on m, and its local state
  member,       \* etcd: the id under which m is a member, or 0
  published,    \* etcd: ids whose name and client URLs are known
  lastId,       \* etcd: ids handed out so far
  done,         \* done[m]: the last init or join of m ended without an error
  excused,      \* history: ids whose data went while etcd or the cluster had it
  plan,         \* what the operator wants, and what may go wrong
  resets, faults

vars == <<disk, unit, run, member, published, lastId, done, excused, plan, resets, faults>>

NoEnv == [state |-> "none", peers |-> {}, id |-> 0]
Idle == [cmd |-> "none", step |-> 1, mid |-> FALSE, missed |-> FALSE,
         peers |-> {}, added |-> FALSE, started |-> FALSE]

UnderSystemd ==
  [init |-> <<"disable", "stop", "erase", "install", "certificates", "configure",
              "enable", "start", "wait", "health">>,
   join |-> <<"disable", "stop", "certificates", "list", "discard", "add", "settle",
              "install", "configure", "enable", "start", "wait", "health">>,
   reset |-> <<"active", "remove", "disable", "stop", "erase", "clean">>,
   none |-> <<"idle">>]

UnderKubelet ==
  [UnderSystemd EXCEPT
     !.init = <<"withdraw", "erase", "certificates", "post", "health">>,
     !.join = <<"withdraw", "certificates", "list", "discard", "add", "settle", "post", "health">>]

Phases == IF plan.kubelet THEN UnderKubelet ELSE UnderSystemd

Environments == [state : {"none", "new", "existing"}, peers : SUBSET Machine, id : 0..MaxId]

TypeOK ==
  /\ disk \in [Machine ->
       [data : 0..MaxId, files : 0..2 * Pairs, archive : {"none", "partial", "complete"},
        bin : BOOLEAN, enabled : BOOLEAN, env : Environments, manifest : Environments]]
  /\ unit \in [Machine -> [state : {"stopped", "activating", "active"}, id : 0..MaxId]]
  /\ \A m \in Machine : unit[m].state = "active" => unit[m].id \in published
  /\ \A m \in Machine : unit[m].state = "stopped" => unit[m].id = 0
  /\ \A m \in Machine : run[m].step \in DOMAIN Phases[run[m].cmd]
  /\ member \in [Machine -> 0..lastId] /\ lastId \in 0..MaxId
  /\ published \subseteq 1..lastId /\ excused \subseteq 1..lastId
  /\ done \in [Machine -> BOOLEAN]
  /\ plan \in Plans /\ resets \in 0..plan.resets /\ faults \in 0..plan.faults

Init ==
  /\ disk = [m \in Machine |-> [data |-> 0, files |-> 0, archive |-> "none", bin |-> FALSE,
                                enabled |-> FALSE, env |-> NoEnv, manifest |-> NoEnv]]
  /\ unit = [m \in Machine |-> [state |-> "stopped", id |-> 0]]
  /\ run = [m \in Machine |-> Idle]
  /\ member = [m \in Machine |-> 0]
  /\ published = {} /\ lastId = 0 /\ excused = {}
  /\ done = [m \in Machine |-> FALSE]
  /\ plan \in Plans /\ resets = 0 /\ faults = 0

(***************************************************************************)
(* etcd and systemd, as etcdadm uses them.                                 *)
(***************************************************************************)
Members == {m \in Machine : member[m] # 0}
Live(m) == member[m] # 0 /\ unit[m].id = member[m]
Serves(m) == Live(m) /\ unit[m].state = "active"
LiveMembers == {m \in Machine : Live(m)}
Majority(S, n) == 2 * Cardinality(S) > n
Quorum == Majority(LiveMembers, Cardinality(Members))

\* A member is added under new peer URLs only, and (strict reconfiguration) if a
\* majority of the new cluster has started, except to a cluster of one.
MayAdd(m) ==
  /\ member[m] = 0 /\ Quorum /\ lastId < MaxId
  /\ Cardinality(Members) = 1 \/ Majority(LiveMembers, Cardinality(Members) + 1)

Files(m) == (disk[m].bin \/ plan.kubelet) /\ disk[m].files = 2 * Pairs /\ disk[m].env.state # "none"

\* The id etcd would run under on m; 0 if it would exit with an error.  With
\* data it is the id of the data.  Without, it creates the cluster of its
\* environment file, or looks itself up in the running cluster, whose members
\* have to be those of its environment file.
EtcdId(m) ==
  LET e == disk[m].env IN
  CASE ~Files(m) -> 0
    [] disk[m].data # 0 -> IF disk[m].data = member[m] THEN disk[m].data ELSE 0
    [] e.state = "new" -> IF Members \subseteq {m} THEN e.id ELSE 0
    [] OTHER -> IF e.peers = Members /\ LiveMembers \ {m} # {} THEN member[m] ELSE 0

EtcdStarts(m) ==
  /\ unit[m] = [state |-> "activating", id |-> 0] /\ EtcdId(m) # 0
  /\ unit' = [unit EXCEPT ![m].id = EtcdId(m)]
  /\ disk' = [disk EXCEPT ![m].data = EtcdId(m)]
  /\ member' = [member EXCEPT ![m] = EtcdId(m)]
  /\ UNCHANGED <<run, published, lastId, done, excused, plan, resets, faults>>

EtcdPublishes(m) ==
  /\ Live(m) /\ Quorum /\ member[m] \notin published
  /\ published' = published \cup {member[m]}
  /\ UNCHANGED <<disk, unit, run, member, lastId, done, excused, plan, resets, faults>>

EtcdReady(m) ==
  /\ unit[m].state = "activating" /\ Live(m) /\ Quorum /\ member[m] \in published
  /\ unit' = [unit EXCEPT ![m].state = "active"]
  /\ UNCHANGED <<disk, run, member, published, lastId, done, excused, plan, resets, faults>>

\* A member that was removed exits, without an error.
EtcdRemoved(m) ==
  /\ unit[m].id # 0 /\ unit[m].id # member[m]
  /\ unit' = [unit EXCEPT ![m] = [state |-> "stopped", id |-> 0]]
  /\ UNCHANGED <<disk, run, member, published, lastId, done, excused, plan, resets, faults>>

Fault(k) == k \in plan.kinds /\ faults < plan.faults /\ faults' = faults + 1

\* etcd fails; systemd starts it again (Restart=on-failure).
EtcdFails(m) ==
  /\ Fault("exit") /\ unit[m].id # 0
  /\ unit' = [unit EXCEPT ![m] = [state |-> "activating", id |-> 0]]
  /\ UNCHANGED <<disk, run, member, published, lastId, done, excused, plan, resets>>

\* What starts by itself: an enabled unit, a pod with a manifest.
AtBoot(m) ==
  IF disk[m].enabled \/ disk[m].manifest # NoEnv THEN "activating" ELSE "stopped"

Reboot(m) ==
  /\ Fault("reboot")
  /\ unit' = [unit EXCEPT ![m] = [state |-> AtBoot(m), id |-> 0]]
  /\ disk' = [disk EXCEPT ![m].env = IF plan.kubelet THEN disk[m].manifest ELSE @]
  /\ run' = [run EXCEPT ![m] = Idle]
  /\ UNCHANGED <<member, published, lastId, done, excused, plan, resets>>

\* The kubelet stops a pod without a manifest, and starts the pod of a new one.
\* The environment of the pod is the one in the manifest.
KubeletSync(m) ==
  /\ plan.kubelet /\ disk[m].env # disk[m].manifest
  /\ unit' = [unit EXCEPT ![m] = [state |-> AtBoot(m), id |-> 0]]
  /\ disk' = [disk EXCEPT ![m].env = disk[m].manifest]
  /\ UNCHANGED <<run, member, published, lastId, done, excused, plan, resets, faults>>

(***************************************************************************)
(* The runner: one phase after the other; an error or a signal ends it.    *)
(***************************************************************************)
Begins(m, c) == run[m].cmd = "none" /\ run' = [run EXCEPT ![m] = [Idle EXCEPT !.cmd = c]]
At(m, p) == Phases[run[m].cmd][run[m].step] = p
Then(m, r) == run' = [run EXCEPT ![m] = [r EXCEPT !.step = @ + 1]]
Advance(m) == Then(m, run[m])
Ends(m) == run' = [run EXCEPT ![m] = Idle]

OnlyRun == UNCHANGED <<disk, unit, member, published, lastId, done, excused, plan, resets, faults>>
OnlyDisk == UNCHANGED <<unit, member, published, lastId, done, excused, plan, resets, faults>>

RunInit(m) ==
  /\ m = First /\ ~done[m] /\ Members \subseteq {m}
  /\ Begins(m, "init")
  /\ OnlyRun

\* The operator copies the CA to the machine first.
RunJoin(m) ==
  /\ m \in plan.join /\ ~done[m] /\ done[First]
  /\ Begins(m, "join")
  /\ disk' = [disk EXCEPT ![m].files = IF @ = 0 THEN 2 ELSE @]
  /\ OnlyDisk

RunReset(m) ==
  /\ m \in plan.reset /\ done[First] /\ resets < plan.resets
  /\ Begins(m, "reset")
  /\ done' = [done EXCEPT ![m] = FALSE]
  /\ resets' = resets + 1
  /\ UNCHANGED <<disk, unit, member, published, lastId, excused, faults, plan>>

Killed(m) == Fault("kill") /\ run[m].cmd # "none" /\ Ends(m)
             /\ UNCHANGED <<disk, unit, member, published, lastId, done, excused, plan, resets>>

(***************************************************************************)
(* DisableAndStopService, EnableAndStartService.                           *)
(***************************************************************************)
\* systemctl is-active, which knows no pods.
IsActive(m) == ~plan.kubelet /\ unit[m].state = "active"

Disable(m) ==
  /\ At(m, "disable") /\ Advance(m)
  /\ disk' = [disk EXCEPT ![m].enabled = FALSE]
  /\ OnlyDisk

\* Unless it is active the unit is left alone.
Stop(m) ==
  /\ At(m, "stop") /\ Then(m, [run[m] EXCEPT !.missed = ~IsActive(m) /\ unit[m].state # "stopped"])
  /\ unit' = IF IsActive(m) THEN [unit EXCEPT ![m] = [state |-> "stopped", id |-> 0]] ELSE unit
  /\ UNCHANGED <<disk, member, published, lastId, done, excused, plan, resets, faults>>

Enable(m) ==
  /\ At(m, "enable") /\ Advance(m)
  /\ disk' = [disk EXCEPT ![m].enabled = TRUE]
  /\ OnlyDisk

Start(m) ==
  /\ At(m, "start") /\ Advance(m)
  /\ unit' = IF unit[m].state = "stopped" THEN [unit EXCEPT ![m].state = "activating"] ELSE unit
  /\ UNCHANGED <<disk, member, published, lastId, done, excused, plan, resets, faults>>

StartReturns(m) == At(m, "wait") /\ IsActive(m) /\ Advance(m) /\ OnlyRun

\* etcd exits before it is ready.
StartFails(m) ==
  /\ At(m, "wait") /\ ~IsActive(m) /\ unit[m].id = 0 /\ EtcdId(m) = 0
  /\ Ends(m) /\ OnlyRun

\* DisableAndStopService of the kubelet: "TODO: Wait for pod to stop?"
Withdraw(m) ==
  /\ At(m, "withdraw") /\ Then(m, [run[m] EXCEPT !.missed = unit[m].state # "stopped"])
  /\ disk' = [disk EXCEPT ![m].manifest = NoEnv]
  /\ OnlyDisk

(***************************************************************************)
(* The phases that work on the disk.                                       *)
(***************************************************************************)
\* The data directory is removed.  An etcd that runs in it runs on.
Erase(m) ==
  /\ disk' = [disk EXCEPT ![m].data = 0]
  /\ excused' = IF run[m].missed THEN excused \cup ({member[m]} \ {0}) ELSE excused

\* initInstall and reset: what was in the data directory is given up.
EraseData(m) ==
  /\ At(m, "erase") /\ Advance(m) /\ Erase(m)
  /\ member' = IF run[m].cmd = "init" /\ unit[m].id = 0 THEN [member EXCEPT ![m] = 0] ELSE member
  /\ UNCHANGED <<unit, published, lastId, done, plan, resets, faults>>

\* CreatePKIAssets: pair after pair, the key before the certificate.  A pair of
\* which one file exists has to load.
WriteKey(m) ==
  /\ At(m, "certificates") /\ ~run[m].mid /\ disk[m].files % 2 = 0 /\ disk[m].files < 2 * Pairs
  /\ disk' = [disk EXCEPT ![m].files = @ + 1]
  /\ run' = [run EXCEPT ![m].mid = TRUE]
  /\ OnlyDisk

WriteCert(m) ==
  /\ At(m, "certificates") /\ run[m].mid
  /\ disk' = [disk EXCEPT ![m].files = @ + 1]
  /\ run' = [run EXCEPT ![m].mid = FALSE]
  /\ OnlyDisk

CertificatesExist(m) ==
  At(m, "certificates") /\ disk[m].files = 2 * Pairs /\ Advance(m) /\ OnlyRun

LoadFails(m) ==
  At(m, "certificates") /\ ~run[m].mid /\ disk[m].files % 2 = 1 /\ Ends(m) /\ OnlyRun

\* Install: from the cache; if the archive is not there it is downloaded first.
InstallFromCache(m) ==
  /\ At(m, "install") /\ ~run[m].mid /\ disk[m].archive = "complete" /\ Advance(m)
  /\ disk' = [disk EXCEPT ![m].bin = TRUE]
  /\ OnlyDisk

ExtractFails(m) ==
  At(m, "install") /\ ~run[m].mid /\ disk[m].archive = "partial" /\ Ends(m) /\ OnlyRun

Download(m) ==
  /\ At(m, "install") /\ disk[m].archive = "none"
  /\ disk' = [disk EXCEPT ![m].archive = "partial"]
  /\ run' = [run EXCEPT ![m].mid = TRUE]
  /\ OnlyDisk

Downloaded(m) ==
  /\ At(m, "install") /\ run[m].mid
  /\ disk' = [disk EXCEPT ![m].archive = "complete"]
  /\ run' = [run EXCEPT ![m].mid = FALSE]
  /\ OnlyDisk

\* init makes up a token for a cluster of one.
Environment(m) ==
  IF run[m].cmd = "init" THEN [state |-> "new", peers |-> {m}, id |-> lastId + 1]
  ELSE [state |-> "existing", peers |-> run[m].peers, id |-> 0]

MakesToken(m) ==
  IF run[m].cmd = "init" THEN lastId < MaxId /\ lastId' = lastId + 1 ELSE UNCHANGED lastId

\* WriteEnvironmentFile.
Configure(m) ==
  /\ At(m, "configure") /\ Advance(m) /\ MakesToken(m)
  /\ disk' = [disk EXCEPT ![m].env = Environment(m)]
  /\ UNCHANGED <<unit, member, published, done, excused, plan, resets, faults>>

\* EnableAndStartService of the kubelet.
Post(m) ==
  /\ At(m, "post") /\ Advance(m) /\ MakesToken(m)
  /\ disk' = [disk EXCEPT ![m].manifest = Environment(m)]
  /\ UNCHANGED <<unit, member, published, done, excused, plan, resets, faults>>

Clean(m) ==
  /\ At(m, "clean") /\ Ends(m)
  /\ disk' = [disk EXCEPT ![m].files = 0, ![m].bin = FALSE,
                          ![m].env = IF plan.kubelet THEN @ ELSE NoEnv]
  /\ OnlyDisk

(***************************************************************************)
(* The phases that talk to etcd.                                           *)
(***************************************************************************)
\* Mutant: a member that was not started is taken for one that was not added.
MemberListStarted(m) ==
  /\ At(m, "list") /\ \E e \in Machine \ {m} : Serves(e)
  /\ Then(m, [run[m] EXCEPT !.peers = Members, !.added = member[m] \in published,
                            !.started = member[m] \in published])
  /\ OnlyRun

\* membership of join, up to the answer of MemberList.
MemberList(m) ==
  /\ At(m, "list") /\ \E e \in Machine \ {m} : Serves(e)
  /\ Then(m, [run[m] EXCEPT !.peers = Members, !.added = member[m] # 0,
                            !.started = member[m] \in published])
  /\ OnlyRun

MemberListFails(m) ==
  At(m, "list") /\ (\A e \in Machine \ {m} : ~Serves(e)) /\ Ends(m) /\ OnlyRun

\* A member that is not in the list starts from nothing.
Discard(m) ==
  /\ At(m, "discard") /\ Advance(m)
  /\ IF run[m].added THEN UNCHANGED <<disk, excused>> ELSE Erase(m)
  /\ UNCHANGED <<unit, member, published, lastId, done, plan, resets, faults>>

Added(m) ==
  /\ member' = [member EXCEPT ![m] = lastId + 1]
  /\ lastId' = lastId + 1

MemberAdd(m) ==
  /\ At(m, "add")
  /\ IF run[m].added THEN UNCHANGED <<member, lastId>> /\ Advance(m)
     ELSE MayAdd(m) /\ Added(m) /\ Then(m, [run[m] EXCEPT !.peers = Members \cup {m}])
  /\ UNCHANGED <<disk, unit, published, done, excused, plan, resets, faults>>

\* The member is added and the answer lost: it exists when the call is repeated.
MemberAddLost(m) ==
  /\ At(m, "add") /\ ~run[m].added /\ MayAdd(m) /\ Fault("lost")
  /\ Added(m) /\ Ends(m)
  /\ UNCHANGED <<disk, unit, published, done, excused, plan, resets>>

MemberAddFails(m) == At(m, "add") /\ ~run[m].added /\ ~MayAdd(m) /\ Ends(m) /\ OnlyRun

\* Mutant: the data directory is removed although the member was started.
SettleAlways(m) ==
  /\ At(m, "settle") /\ Advance(m)
  /\ Erase(m)
  /\ UNCHANGED <<unit, member, published, lastId, done, plan, resets, faults>>

\* A member that was not started has no data, one that was keeps it.
Settle(m) ==
  /\ At(m, "settle") /\ Advance(m)
  /\ IF run[m].started THEN UNCHANGED <<disk, excused>> ELSE Erase(m)
  /\ UNCHANGED <<unit, member, published, lastId, done, plan, resets, faults>>

\* Get through the local endpoint.
HealthCheck(m) ==
  /\ At(m, "health") /\ Serves(m) /\ Quorum /\ Ends(m)
  /\ done' = [done EXCEPT ![m] = TRUE]
  /\ UNCHANGED <<disk, unit, member, published, lastId, excused, plan, resets, faults>>

\* The pod is about to start, or its etcd to be ready.
Underway(m) ==
  \/ disk[m].env # disk[m].manifest
  \/ unit[m] = [state |-> "activating", id |-> 0] /\ EtcdId(m) # 0
  \/ Live(m) /\ Quorum

\* StartupTimeout of the kubelet is taken to be long enough for what is under way.
HealthCheckFails(m) ==
  /\ At(m, "health") /\ ~(Serves(m) /\ Quorum) /\ Ends(m)
  /\ plan.kubelet => ~Underway(m)
  /\ OnlyRun

\* reset: without an active service the member is assumed to be removed.
ResetInactive(m) ==
  /\ At(m, "active") /\ ~IsActive(m) /\ Advance(m)
  /\ excused' = excused \cup ({member[m]} \ {0})
  /\ UNCHANGED <<disk, unit, member, published, lastId, done, plan, resets, faults>>

ResetActive(m) ==
  /\ At(m, "active") /\ IsActive(m)
  /\ Then(m, [run[m] EXCEPT !.peers = Members, !.added = member[m] # 0])
  /\ OnlyRun

RemovesMember(m) == run[m].added /\ Cardinality(run[m].peers) > 1

MemberRemove(m) ==
  /\ At(m, "remove") /\ RemovesMember(m) /\ Serves(m) /\ Quorum
  /\ Advance(m)
  /\ member' = [member EXCEPT ![m] = 0]
  /\ UNCHANGED <<disk, unit, published, lastId, done, excused, plan, resets, faults>>

MemberRemoveLost(m) ==
  /\ At(m, "remove") /\ RemovesMember(m) /\ Serves(m) /\ Quorum /\ Fault("lost")
  /\ Ends(m)
  /\ member' = [member EXCEPT ![m] = 0]
  /\ UNCHANGED <<disk, unit, published, lastId, done, excused, plan, resets>>

MemberRemoveFails(m) ==
  At(m, "remove") /\ RemovesMember(m) /\ ~(Serves(m) /\ Quorum) /\ Ends(m) /\ OnlyRun

\* Removed before, or the last of the cluster.
MemberNotRemoved(m) == At(m, "remove") /\ ~RemovesMember(m) /\ Advance(m) /\ OnlyRun

-----------------------------------------------------------------------------
Phase(m) ==
  /\ run[m].cmd # "none"
  /\ \/ Disable(m) \/ Stop(m) \/ Enable(m) \/ Start(m) \/ StartReturns(m) \/ StartFails(m)
     \/ EraseData(m) \/ WriteKey(m) \/ WriteCert(m) \/ CertificatesExist(m) \/ LoadFails(m)
     \/ InstallFromCache(m) \/ ExtractFails(m) \/ Download(m) \/ Downloaded(m)
     \/ Configure(m) \/ Clean(m) \/ Withdraw(m) \/ Post(m)
     \/ MemberList(m) \/ MemberListFails(m) \/ Discard(m) \/ MemberAdd(m) \/ MemberAddLost(m)
     \/ MemberAddFails(m) \/ Settle(m) \/ HealthCheck(m) \/ HealthCheckFails(m)
     \/ ResetInactive(m) \/ ResetActive(m) \/ MemberRemove(m) \/ MemberRemoveLost(m)
     \/ MemberRemoveFails(m) \/ MemberNotRemoved(m)

Etcd(m) == EtcdStarts(m) \/ EtcdPublishes(m) \/ EtcdReady(m) \/ EtcdRemoved(m) \/ KubeletSync(m)
Operator(m) == RunInit(m) \/ RunJoin(m)

Next ==
  \E m \in Machine :
    \/ Phase(m) \/ Etcd(m) \/ Operator(m)
    \/ RunReset(m) \/ Killed(m) \/ EtcdFails(m) \/ Reboot(m)

Spec == Init /\ [][Next]_vars

\* A command goes on, etcd and systemd do their part, and the operator runs
\* init and join again until they succeed.
Fairness == \A m \in Machine : WF_vars(Phase(m)) /\ WF_vars(Etcd(m)) /\ WF_vars(Operator(m))
FairSpec == Spec /\ Fairness

(***************************************************************************)
(* Properties.                                                             *)
(***************************************************************************)
\* The data of a member that the cluster counts as started is on its machine,
\* whatever is interrupted and run again ("Keeping existing data dir" in join):
\* it goes only if reset finds the service inactive and assumes the member was
\* removed, or if it is removed under an etcd that stop has missed or that the
\* kubelet has not stopped yet.
PublishedDataKept ==
  \A m \in Machine :
    member[m] \in published \ excused => disk[m].data = member[m]

\* The data directory is never removed while etcd runs in it: every command
\* stops the service first ("DisableAndStopService disables and stops the etcd
\* service").
ErasedWhenStopped ==
  [][\A m \in Machine : disk[m].data # 0 /\ disk'[m].data = 0 => unit[m].id = 0]_vars

\* A command that was killed within a file leaves one that stops the next ones.
Broken(m) == disk[m].files % 2 = 1 \/ disk[m].archive = "partial"

\* A member does not start, and without it the others have no quorum: its join
\* waits for the list of members, which they cannot give.
Waiting ==
  ~Quorum /\ \E m \in Members : ~Live(m) /\ (unit[m].state = "stopped" \/ EtcdId(m) = 0)

\* Running init and join again until they succeed gives a cluster in which
\* every machine is a running member, whenever the commands are killed and
\* whatever answers are lost.  If etcd is started anew meanwhile (an exit, a
\* reboot, or a manifest that the kubelet follows late) the cluster may be left
\* without a quorum for good, and only in that way.
AllJoin ==
  \/ <>[](\A m \in plan.join \cup {First} : Serves(m))
  \/ <>[](\E m \in Machine : Broken(m))
  \/ <>[](member[First] \in excused)
  \/ (plan.kubelet \/ {"exit", "reboot"} \cap plan.kinds # {}) /\ <>[]Waiting
=============================================================================
