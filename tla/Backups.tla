------------------------------ MODULE Backups ------------------------------
(***************************************************************************)
(* The backup store and the controllers that fill and clean it             *)
(* (etcd-manager/pkg/backup, pkg/backupcontroller, pkg/etcd/backup.go).    *)
(* A backup is a directory of two files, the data and the meta file; its   *)
(* name is the second in which it was uploaded and a sequence number.      *)
(* An agent backs up while its etcd leads, and after a backup removes those *)
(* that the retention rules do not keep; the leader of etcd-manager does   *)
(* the same in its own loop (ControlStore).                                *)
(* Time is counted in ticks; the zero time of Go is 0.                     *)
(***************************************************************************)
EXTENDS Integers, FiniteSets

CONSTANTS
  Agent,             \* the processes that make backups
  Hour,              \* ticks of an hour
  HoursPerDay,
  HourlyRetention,   \* HourlyBackupsRetention, DailyBackupsRetention
  DailyRetention,
  BackupInterval,
  CleanupInterval,
  MaxSequence,       \* the largest sequence number (999999 in the code)
  Epoch,             \* when the first process starts
  Plans              \* scenarios: how much of everything may happen

ASSUME TimeAssumption ==
  /\ Hour \in Nat \ {0} /\ HoursPerDay \in Nat \ {0}
  /\ HourlyRetention \in Nat /\ DailyRetention \in Nat
  /\ BackupInterval \in Nat /\ CleanupInterval \in Nat
  /\ MaxSequence \in Nat /\ Epoch \in Nat

VARIABLES
  plan,       \* the scenario
  clock,
  data,       \* names whose data file is in the store
  meta,       \* names whose meta file is in the store
  agent,      \* the memory of every process
  etcdLeader, \* the process whose etcd leads (external)
  faults,     \* how many faults have happened
  made,       \* history: the backups that were completed
  shared      \* history: names that two uploads have used

bvars == <<plan, clock, data, meta, agent, etcdLeader, faults, made, shared>>

Name == Nat \X Nat
Time(n) == n[1]

\* The order of sort.Strings on names.
Before(n, o) == n[1] < o[1] \/ (n[1] = o[1] /\ n[2] < o[2])

Started == [pc |-> "idle", sequence |-> 0, lastBackup |-> 0, lastCleanup |-> 0,
            now |-> 0, name |-> <<0, 0>>, doomed |-> {}]

Agents ==
  [pc : {"idle", "snapshot", "meta", "clean", "remove", "removeData"},
   sequence : 0..MaxSequence, lastBackup : Nat, lastCleanup : Nat, now : Nat,
   name : Name, doomed : SUBSET Name]

(* Names and retention *)

HourOf(t) == t \div Hour
DayOf(t) == HourOf(t) \div HoursPerDay

Age(n, now) == now - Time(n)

\* The key of the map "buckets": hours and days share it, and the first hour
\* of a day has the key of the day.
Bucket(n, now) ==
  IF Age(n, now) < HourlyRetention
  THEN HourOf(Time(n))
  ELSE DayOf(Time(n)) * HoursPerDay

Bucketed(n, now) ==
  /\ Age(n, now) >= Hour
  /\ Age(n, now) < HourlyRetention \/ Age(n, now) < DailyRetention

\* The earliest time of a bucket wins, and its last name.
Beats(n, o) == Time(n) < Time(o) \/ (Time(n) = Time(o) /\ Before(o, n))

\* The latest of a bucket wins.
RetainLatest(names, now) ==
  {n \in names :
     \/ Age(n, now) < Hour
     \/ /\ Bucketed(n, now)
        /\ \A o \in names :
             o # n /\ Bucketed(o, now) /\ Bucket(o, now) = Bucket(n, now) => Beats(o, n)}

Retain(names, now) ==
  {n \in names :
     \/ Age(n, now) < Hour
     \/ /\ Bucketed(n, now)
        /\ \A o \in names :
             o # n /\ Bucketed(o, now) /\ Bucket(o, now) = Bucket(n, now) => Beats(n, o)}

(* What a process does *)

\* The end of an iteration; what was local to it is forgotten.
Returns(r) == [r EXCEPT !.pc = "idle", !.now = 0, !.name = <<0, 0>>, !.doomed = {}]

Fault ==
  /\ faults < plan.faults
  /\ faults' = faults + 1

\* maybeBackup: not too often.
Due(a) ==
  /\ clock - agent[a].lastBackup > BackupInterval
  /\ Cardinality(made) < plan.backups

Begun(a) == [agent EXCEPT ![a].pc = "snapshot", ![a].now = clock]

\* An iteration of cmd/etcd-backup: only beside the leading etcd.
BackupAgentRuns(a) ==
  /\ a \in plan.agents
  /\ agent[a].pc = "idle"
  /\ etcdLeader = a
  /\ Due(a)
  /\ agent' = Begun(a)
  /\ UNCHANGED <<plan, clock, data, meta, etcdLeader, faults, made, shared>>

NextSequence(s) == IF s + 1 > MaxSequence THEN 0 ELSE s + 1

\* uploadBackup, and AddBackup up to the data file.
AddBackupData(a) ==
  LET s == NextSequence(agent[a].sequence)
      n == <<clock, s>>
  IN /\ agent[a].pc = "snapshot"
     /\ data' = data \cup {n}
     /\ shared' = shared \cup ({n} \cap data)
     /\ agent' = [agent EXCEPT ![a].pc = "meta", ![a].sequence = s, ![a].name = n]
     /\ UNCHANGED <<plan, clock, meta, etcdLeader, faults, made>>

\* AddBackup's meta file makes the backup one that is listed.
AddBackupMeta(a) ==
  /\ agent[a].pc = "meta"
  /\ meta' = meta \cup {agent[a].name}
  /\ made' = made \cup {agent[a].name}
  /\ agent' = [agent EXCEPT ![a].pc = "clean", ![a].lastBackup = agent[a].now]
  /\ UNCHANGED <<plan, clock, data, etcdLeader, faults, shared>>

\* An error of the data file is ignored.
BackupFailsUnseen(a) ==
  LET s == NextSequence(agent[a].sequence)
  IN /\ agent[a].pc = "snapshot"
     /\ Fault
     /\ agent' = [agent EXCEPT ![a].pc = "meta", ![a].sequence = s, ![a].name = <<clock, s>>]
     /\ UNCHANGED <<plan, clock, data, meta, etcdLeader, made, shared>>

\* The snapshot or one of the two writes fails; lastBackup stays as it is.
BackupFails(a) ==
  /\ agent[a].pc \in {"snapshot", "meta"}
  /\ Fault
  /\ agent' = [agent EXCEPT ![a] = Returns(@)]
  /\ UNCHANGED <<plan, clock, data, meta, etcdLeader, made, shared>>

\* What is left to remove; lastCleanup is set at the end.
Cleaning(r, names) ==
  IF names = {}
  THEN Returns([r EXCEPT !.lastCleanup = r.now])
  ELSE [r EXCEPT !.pc = "remove", !.doomed = names]

MaybeDoBackupMaintenance(a) ==
  /\ agent[a].pc = "clean"
  /\ agent' = [agent EXCEPT ![a] =
       IF clock - @.lastCleanup < CleanupInterval
       THEN Returns(@)
       ELSE Cleaning([@ EXCEPT !.now = clock], meta \ Retain(meta, clock))]
  /\ UNCHANGED <<plan, clock, data, meta, etcdLeader, faults, made, shared>>

\* The next of the backups to remove, in the order of their names.
Doomed(a) == CHOOSE n \in agent[a].doomed : \A o \in agent[a].doomed \ {n} : Before(n, o)

\* RemoveBackup removes the files in the order of ReadTree: meta, then data.
RemoveMeta(a) ==
  /\ agent[a].pc = "remove"
  /\ meta' = meta \ {Doomed(a)}
  /\ agent' = [agent EXCEPT ![a].pc = "removeData"]
  /\ UNCHANGED <<plan, clock, data, etcdLeader, faults, made, shared>>

RemoveData(a) ==
  /\ agent[a].pc = "removeData"
  /\ data' = data \ {Doomed(a)}
  /\ agent' = [agent EXCEPT ![a] = Cleaning(@, @.doomed \ {Doomed(a)})]
  /\ UNCHANGED <<plan, clock, meta, etcdLeader, faults, made, shared>>

\* One file cannot be removed: the next backup is tried.
RemoveFails(a) ==
  /\ agent[a].pc \in {"remove", "removeData"}
  /\ Fault
  /\ agent' = [agent EXCEPT ![a] = Cleaning(@, @.doomed \ {Doomed(a)})]
  /\ UNCHANGED <<plan, clock, data, meta, etcdLeader, made, shared>>

AgentRestarts(a) ==
  /\ a \in plan.agents
  /\ agent[a] # Started
  /\ Fault
  /\ agent' = [agent EXCEPT ![a] = Started]
  /\ UNCHANGED <<plan, clock, data, meta, etcdLeader, made, shared>>

(* External: time passes, and etcd elects another leader. *)

Tick ==
  /\ clock < Epoch + plan.ticks
  /\ plan.slow \/ \A a \in Agent : agent[a].pc = "idle"
  /\ clock' = clock + 1
  /\ UNCHANGED <<plan, data, meta, agent, etcdLeader, faults, made, shared>>

EtcdElects(a) ==
  /\ etcdLeader # a
  /\ a \in plan.agents
  /\ Cardinality(made) < plan.backups
  /\ etcdLeader' = a
  /\ UNCHANGED <<plan, clock, data, meta, agent, faults, made, shared>>

BInit ==
  /\ plan \in Plans
  /\ clock = Epoch
  /\ data = {} /\ meta = {} /\ made = {} /\ shared = {}
  /\ agent = [a \in Agent |-> Started]
  /\ etcdLeader = CHOOSE a \in Agent : TRUE
  /\ faults = 0

BStep(a) ==
  \/ BackupAgentRuns(a) \/ AddBackupData(a) \/ AddBackupMeta(a) \/ BackupFails(a)
  \/ MaybeDoBackupMaintenance(a)
  \/ RemoveMeta(a) \/ RemoveData(a) \/ RemoveFails(a)
  \/ AgentRestarts(a) \/ EtcdElects(a)

BNext == Tick \/ \E a \in Agent : BStep(a)

BSpec == BInit /\ [][BNext]_bvars

(* Properties *)

BTypeOK ==
  /\ clock \in Nat
  /\ data \subseteq Name /\ meta \subseteq Name /\ made \subseteq Name
  /\ shared \subseteq Name
  /\ agent \in [Agent -> Agents]
  /\ etcdLeader \in Agent
  /\ faults \in Nat

\* Every backup that ListBackups returns has its data file: AddBackup writes
\* the meta file last and RemoveBackup removes it first, whatever fails or
\* stops in between and although several processes clean the same store.
\* Only a name that two uploads have used in the same second may lose its
\* data: one of them is removed while the other is still being written.
ListedHasData == meta \subseteq data \cup shared

\* n is the backup that an hour, or a day, is remembered by.
Leads(n, PeriodOf(_)) ==
  \A o \in made : o # n /\ PeriodOf(Time(o)) = PeriodOf(Time(n)) => Beats(n, o)

\* The clean-up never removes the last trace of an hour or of a day: the
\* earliest backup of an hour is listed until HourlyRetention is over, the
\* earliest one of a day until DailyRetention is over. Several clean-ups work
\* from listings of different times, and a backup that is kept for its hour
\* is later the one that is kept for its day.
EarliestKept ==
  \A n \in made :
    /\ Leads(n, HourOf) /\ Age(n, clock) < HourlyRetention => n \in meta
    /\ Leads(n, DayOf) /\ Age(n, clock) < DailyRetention => n \in meta
=============================================================================
