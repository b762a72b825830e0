---------------------------- MODULE ControlStore ----------------------------
(***************************************************************************)
(* The control store (etcd-manager/pkg/commands), the operator's tool      *)
(* (cmd/etcd-manager-ctl) and how the controllers carry out the restore    *)
(* commands they read from it (pkg/controller/commands.go, restore.go),    *)
(* beside the backup store of Backups. A command is a file whose name is   *)
(* the second in which it was written. A leader caches what it has read:   *)
(* the refresh interval is ten years, so it reads again only when it       *)
(* becomes the leader and after it has removed a command.                  *)
(* The cluster that is made for a restore, and its data, are in Reconcile. *)
(***************************************************************************)
EXTENDS Backups, Sequences, Functions, TLC

CONSTANTS
  Controller,  \* the etcd-manager processes
  SpecValue,       \* cluster specs
  FirstSpec,   \* the spec that the cluster was made with
  MaxCommands  \* how many commands are ever issued, at most

VARIABLES
  queue,     \* the command files: second -> number of the command
  spec,      \* etcd-cluster-spec
  tool,      \* the run of etcd-manager-ctl
  ctl,       \* the memory of every controller
  lowest,    \* the controller that has the lowest id (external)
  obeyed,    \* the controller whose leadership token the nodes accept
  moves,     \* how often the peers have changed
  issued,    \* history: the commands, as they were written
  restored,  \* history: commands that a node has restored
  completed, \* history: commands that were removed after their restore
  kept,      \* history: who else had read a command when it was removed
  deleted    \* history: commands that the operator has deleted

ASSUME ControllersBackUp == Controller \subseteq Agent

cvars == <<queue, spec, tool, ctl, lowest, obeyed, moves,
           issued, restored, completed, kept, deleted>>
vars == <<bvars, cvars>>

NoTool == [op |-> "none", spec |-> FirstSpec, backup |-> <<0, 0>>, files |-> {}]

\* leads: leadership is not nil; commands, fresh: controlCommands and whether
\* controlLastRead is set; file, command: the one that is being carried out.
NewController ==
  [leads |-> FALSE, commands |-> <<>>, fresh |-> FALSE, pc |-> "idle",
   file |-> 0, command |-> 0]

Set(m, r) == ctl' = [ctl EXCEPT ![m] = r]

\* What the store returns; the order of the commands is that of their numbers.
ListCommands == queue
GetExpectedClusterSpec == spec

(* etcd-manager-ctl *)

\* The tool starts and reads what it needs from the store. The operator
\* takes the name of a backup from list-backups.
ctlReads(op, s, n) ==
  /\ tool = NoTool
  /\ op \in plan.tools
  /\ tool' = [op |-> op, spec |-> s, backup |-> n,
              files |-> IF op = "delete"
                        THEN {f \in DOMAIN ListCommands : issued[queue[f]].backup = n} ELSE {}]
  /\ UNCHANGED <<bvars, queue, spec, ctl, lowest, obeyed, moves, issued, restored, completed, kept, deleted>>

runRestoreBackup(n) ==
  /\ n \in meta
  /\ Len(issued) < plan.commands /\ Len(issued) < MaxCommands
  /\ ctlReads("restore", GetExpectedClusterSpec, n)

runDeleteCommand(n) ==
  /\ \E f \in DOMAIN queue : issued[queue[f]].backup = n
  /\ ctlReads("delete", spec, n)

runInitCluster(s) ==
  /\ s # spec
  /\ ctlReads("configure", s, <<0, 0>>)

\* A second command of the same second replaces the first.
AddCommand ==
  /\ tool.op = "restore"
  /\ issued' = Append(issued, [file |-> clock, backup |-> tool.backup, spec |-> tool.spec])
  /\ queue' = (clock :> Len(issued')) @@ queue
  /\ tool' = NoTool
  /\ UNCHANGED <<bvars, spec, ctl, lowest, obeyed, moves, restored, completed, kept, deleted>>

\* delete-command removes the files that it has listed.
ctlRemoves ==
  /\ tool.op = "delete"
  /\ queue' = Restrict(queue, DOMAIN queue \ tool.files)
  /\ deleted' = deleted \cup {queue[f] : f \in tool.files \cap DOMAIN queue}
  /\ tool' = NoTool
  /\ UNCHANGED <<bvars, spec, ctl, lowest, obeyed, moves, issued, restored, completed, kept>>

SetExpectedClusterSpec ==
  /\ tool.op = "configure"
  /\ spec' = tool.spec
  /\ tool' = NoTool
  /\ UNCHANGED <<bvars, queue, ctl, lowest, obeyed, moves, issued, restored, completed, kept, deleted>>

(* The controllers *)

refreshControlStore(r) == [r EXCEPT !.commands = ListCommands, !.fresh = TRUE]

\* An iteration of a leader that is new, or has resigned. Where only the
\* agents of cmd/etcd-backup run there is no controller at all.
BecomeLeader(m) ==
  /\ m \in plan.managers
  /\ lowest = m /\ ctl[m].pc = "idle" /\ ~ctl[m].leads
  /\ obeyed' = m
  /\ Set(m, [refreshControlStore(ctl[m]) EXCEPT !.leads = TRUE])
  /\ UNCHANGED <<bvars, queue, spec, tool, lowest, moves, issued, restored, completed, kept, deleted>>

\* An iteration of a leader begins; a leader that was displaced and is the
\* lowest again goes on with the token and the commands that it had.
AssertLeadership(m) ==
  /\ lowest = m /\ ctl[m].pc = "idle" /\ ctl[m].leads
  /\ obeyed' = m
  /\ Set(m, [ctl[m] EXCEPT !.pc = "iterate"])
  /\ UNCHANGED <<bvars, queue, spec, tool, lowest, moves, issued, restored, completed, kept, deleted>>

\* A peer that has not acknowledged the leader: it resigns.
Resign(m) ==
  /\ lowest = m /\ ctl[m].pc = "iterate"
  /\ moves < plan.moves
  /\ moves' = moves + 1
  /\ Set(m, [ctl[m] EXCEPT !.pc = "idle", !.leads = FALSE])
  /\ UNCHANGED <<bvars, queue, spec, tool, lowest, obeyed, issued, restored, completed, kept, deleted>>

\* getRestoreBackupCommand: the first by timestamp, which is the order of
\* the numbers; without one the iteration goes on to maybeBackup, and then
\* does what Reconcile describes.
getRestoreBackupCommand(m) ==
  LET r == IF ctl[m].fresh THEN ctl[m] ELSE refreshControlStore(ctl[m])
      c == r.commands
  IN /\ ctl[m].pc = "iterate"
     /\ \/ /\ c = <<>>
           /\ Set(m, [r EXCEPT !.pc = "backup"])
        \/ \E f \in DOMAIN c :
             /\ \A g \in DOMAIN c : c[f] <= c[g]
             /\ Set(m, [r EXCEPT !.pc = "load", !.file = f, !.command = c[f]])
     /\ UNCHANGED <<bvars, queue, spec, tool, lowest, obeyed, moves,
                    issued, restored, completed, kept, deleted>>

\* maybeBackup of the controller; the iteration waits for the backup and for
\* the clean-up after it.
maybeBackup(m) ==
  /\ ctl[m].pc = "backup"
  /\ agent[m].pc = "idle"
  /\ Due(m)
  /\ agent' = Begun(m)
  /\ Set(m, [ctl[m] EXCEPT !.pc = "backingUp"])
  /\ UNCHANGED <<plan, clock, data, meta, etcdLeader, faults, made, shared>>
  /\ UNCHANGED <<queue, spec, tool, lowest, obeyed, moves, issued, restored, completed, kept, deleted>>

backupReturns(m) ==
  /\ \/ ctl[m].pc = "backup" /\ ~Due(m)
     \/ ctl[m].pc = "backingUp" /\ agent[m].pc = "idle"
  /\ Set(m, [ctl[m] EXCEPT !.pc = "idle"])
  /\ UNCHANGED <<bvars, queue, spec, tool, lowest, obeyed, moves, issued, restored, completed, kept, deleted>>

Backup(m) == issued[ctl[m].command].backup

\* The end of an iteration; the cache is kept.
Ended(r) == [r EXCEPT !.pc = "idle", !.file = 0, !.command = 0]

\* restoreBackupAndLiftQuarantine reads the meta file first.
LoadInfo(m) ==
  /\ ctl[m].pc = "load"
  /\ Set(m, IF Backup(m) \in meta THEN [ctl[m] EXCEPT !.pc = "rpc"] ELSE Ended(ctl[m]))
  /\ UNCHANGED <<bvars, queue, spec, tool, lowest, obeyed, moves, issued, restored, completed, kept, deleted>>

\* What DoRestore on a node asks for: the current leader, and the two files.
DownloadBackup(n) == n \in data
RestoreAccepted(m) == obeyed = m /\ Backup(m) \in meta /\ DownloadBackup(Backup(m))

DoRestore(m) ==
  /\ ctl[m].pc = "rpc"
  /\ \/ /\ RestoreAccepted(m)
        /\ restored' = restored \cup {ctl[m].command}
        /\ Set(m, [ctl[m] EXCEPT !.pc = "spec"])
     \/ /\ ~RestoreAccepted(m)
        /\ Set(m, Ended(ctl[m]))
        /\ UNCHANGED restored
  /\ UNCHANGED <<bvars, queue, spec, tool, lowest, obeyed, moves, issued, completed, kept, deleted>>

\* The spec of the command becomes the expected one again.
writeClusterSpec(m) ==
  /\ ctl[m].pc = "spec"
  /\ spec' = issued[ctl[m].command].spec
  /\ Set(m, [ctl[m] EXCEPT !.pc = "remove"])
  /\ UNCHANGED <<bvars, queue, tool, lowest, obeyed, moves, issued, restored, completed, kept, deleted>>

\* What removeCommand leaves in memory; and if it forgot nothing, or not that
\* it has to read again.
ForgetsNothing(r) == Ended(r)
ForgetsCommands(r) == [Ended(r) EXCEPT !.commands = <<>>]
Forgets(r) == [Ended(r) EXCEPT !.commands = <<>>, !.fresh = FALSE]

\* removeCommand: the file is removed by its name.
removeCommand(m) ==
  /\ ctl[m].pc = "remove"
  /\ queue' = Restrict(queue, DOMAIN queue \ {ctl[m].file})
  /\ completed' = completed \cup {ctl[m].command}
  /\ kept' = kept \cup {<<o, ctl[m].command>> :
                o \in {p \in Controller \ {m} : ctl[m].command \in Range(ctl[p].commands)}}
  /\ Set(m, Forgets(ctl[m]))
  /\ UNCHANGED <<bvars, spec, tool, lowest, obeyed, moves, issued, restored, deleted>>

(* Faults: an error or a lost answer ends the iteration, a process stops. *)

FaultOnly == Fault /\ UNCHANGED <<plan, clock, data, meta, agent, etcdLeader, made, shared>>

\* The command is removed also when the iteration fails.
IterationFailsRemoves(m) ==
  /\ ctl[m].pc \in {"load", "rpc", "spec"}
  /\ queue' = Restrict(queue, DOMAIN queue \ {ctl[m].file})
  /\ Set(m, Ended(ctl[m]))
  /\ FaultOnly
  /\ UNCHANGED <<spec, tool, lowest, obeyed, moves, issued, restored, completed, kept, deleted>>

IterationFails(m) ==
  /\ ctl[m].pc \in {"load", "rpc", "spec"}
  /\ Set(m, Ended(ctl[m]))
  /\ FaultOnly
  /\ UNCHANGED <<queue, spec, tool, lowest, obeyed, moves, issued, restored, completed, kept, deleted>>

\* The answer to the restore is lost.
RestoreLost(m) ==
  /\ ctl[m].pc = "rpc"
  /\ RestoreAccepted(m)
  /\ restored' = restored \cup {ctl[m].command}
  /\ Set(m, Ended(ctl[m]))
  /\ FaultOnly
  /\ UNCHANGED <<queue, spec, tool, lowest, obeyed, moves, issued, completed, kept, deleted>>

\* The command file cannot be removed, but the cache is dropped.
RemoveCommandFails(m) ==
  /\ ctl[m].pc = "remove"
  /\ Set(m, Forgets(ctl[m]))
  /\ FaultOnly
  /\ UNCHANGED <<queue, spec, tool, lowest, obeyed, moves, issued, restored, completed, kept, deleted>>

ControllerRestarts(m) ==
  /\ ctl[m] # NewController
  /\ Set(m, NewController)
  /\ agent' = [agent EXCEPT ![m] = Started]
  /\ Fault
  /\ UNCHANGED <<plan, clock, data, meta, etcdLeader, made, shared>>
  /\ UNCHANGED <<queue, spec, tool, lowest, obeyed, moves, issued, restored, completed, kept, deleted>>

\* External: another controller has the lowest id of those that are seen.
LowestChanges(m) ==
  /\ lowest # m
  /\ moves < plan.moves
  /\ moves' = moves + 1
  /\ lowest' = m
  /\ UNCHANGED <<bvars, queue, spec, tool, ctl, obeyed, issued, restored, completed, kept, deleted>>

Init ==
  /\ BInit
  /\ queue = <<>> /\ issued = <<>>
  /\ spec = FirstSpec
  /\ tool = NoTool
  /\ ctl = [m \in Controller |-> NewController]
  /\ lowest = (CHOOSE m \in Controller : TRUE) /\ obeyed = lowest
  /\ moves = 0
  /\ restored = {} /\ completed = {} /\ kept = {} /\ deleted = {}

\* What a controller does unless something fails.
Works(m) ==
  \/ BecomeLeader(m) \/ AssertLeadership(m) \/ getRestoreBackupCommand(m)
  \/ maybeBackup(m) \/ backupReturns(m)
  \/ LoadInfo(m) \/ DoRestore(m) \/ writeClusterSpec(m) \/ removeCommand(m)

Next ==
  \/ Tick /\ UNCHANGED cvars
  \/ \E a \in Agent :
       \/ BackupAgentRuns(a) /\ UNCHANGED cvars
       \/ AddBackupData(a) /\ UNCHANGED cvars
       \/ AddBackupMeta(a) /\ UNCHANGED cvars
       \/ BackupFails(a) /\ UNCHANGED cvars
       \/ MaybeDoBackupMaintenance(a) /\ UNCHANGED cvars
       \/ RemoveMeta(a) /\ UNCHANGED cvars
       \/ RemoveData(a) /\ UNCHANGED cvars
       \/ RemoveFails(a) /\ UNCHANGED cvars
       \/ AgentRestarts(a) /\ UNCHANGED cvars
       \/ EtcdElects(a) /\ UNCHANGED cvars
  \/ \E n \in made : runRestoreBackup(n) \/ runDeleteCommand(n)
  \/ \E s \in SpecValue : runInitCluster(s)
  \/ AddCommand \/ ctlRemoves \/ SetExpectedClusterSpec
  \/ \E m \in Controller :
       \/ Works(m) \/ Resign(m) \/ LowestChanges(m)
       \/ IterationFails(m) \/ RestoreLost(m) \/ RemoveCommandFails(m)
       \/ ControllerRestarts(m)

\* A controller's loop goes on as long as its process runs, and so does the
\* backup that it waits for.
Uploads(m) ==
  \/ AddBackupData(m) /\ UNCHANGED cvars
  \/ AddBackupMeta(m) /\ UNCHANGED cvars
  \/ MaybeDoBackupMaintenance(m) /\ UNCHANGED cvars
  \/ RemoveMeta(m) /\ UNCHANGED cvars
  \/ RemoveData(m) /\ UNCHANGED cvars

Spec ==
  /\ Init /\ [][Next]_vars
  /\ \A m \in Controller : WF_vars(Works(m)) /\ WF_vars(Uploads(m))

(* Properties *)

TypeOK ==
  /\ BTypeOK
  /\ issued \in Seq([file : Nat, backup : Name, spec : SpecValue])
  /\ DOMAIN queue \subseteq Epoch..clock /\ Range(queue) \subseteq DOMAIN issued
  /\ spec \in SpecValue /\ lowest \in Controller /\ obeyed \in Controller
  /\ \A m \in Controller : Range(ctl[m].commands) \subseteq DOMAIN issued
  /\ restored \subseteq DOMAIN issued
  /\ completed \subseteq restored
  /\ deleted \subseteq DOMAIN issued

\* A restore command that is done is not done again ("Remove command so we
\* won't restore again"), neither by a leader that has removed it nor by one
\* that reads the store later. Only another controller that had read the
\* command before may do it again: it does not read the store once more when
\* it carries it out, or when it is the lowest again after it was displaced.
NotRepeated ==
  [][\A m \in Controller :
       ctl[m].pc = "rpc" /\ ctl'[m].pc = "spec" /\ ctl[m].command \in completed
         => <<m, ctl[m].command>> \in kept]_vars

\* Two commands were written in the same second.
SameSecond(c) == \E d \in DOMAIN issued \ {c} : issued[d].file = issued[c].file

\* A command that restore-backup has written stays in the store until some
\* node has restored its backup or the operator has deleted it, whatever
\* stops between the restore and the removal. The exception is a command
\* that shares its second, and so its file, with another one.
NotLost ==
  \A c \in DOMAIN issued :
    c \in Range(queue) \cup restored \cup deleted \/ SameSecond(c)

\* A command whose backup is not complete any more; every iteration fails on
\* it, and those behind it wait.
Blocked ==
  \E c \in Range(queue) \cup UNION {Range(ctl[m].commands) : m \in Controller} :
    issued[c].backup \notin meta \cap data

\* Every command that the leader has read is carried out and removed, also
\* the second of two: the leader reads again after it has removed the first.
\* It needs a leader that stays and backups that are still there.
QueueDrains ==
  \A m \in Controller, c \in 1..MaxCommands :
    c \in Range(queue) \cap Range(ctl[m].commands) /\ lowest = m /\ ctl[m].leads
      ~> c \notin Range(queue) \/ lowest # m \/ ~ctl[m].leads \/ Blocked
=============================================================================
