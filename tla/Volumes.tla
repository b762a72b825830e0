------------------------------- MODULE Volumes -------------------------------
(***************************************************************************)
(* The boot phase of etcd-manager (pkg/volumes): the processes on several  *)
(* machines compete for the volumes that hold the etcd data.  Each process *)
(* lists the volumes of its cloud, attaches a free one unless it has one,  *)
(* waits for its device, mounts it and goes on to run etcd in it.          *)
(*                                                                         *)
(* The cloud is external: a volume is attached to one machine at a time,   *)
(* and the device of an attached volume appears some time afterwards.  The *)
(* seven cloud providers differ in which volumes they report as local, in  *)
(* what a successful or a refused attachment leaves behind, and in what    *)
(* they answer while the device is missing.                                *)
(***************************************************************************)
EXTENDS Naturals, Sequences, FiniteSets, SequencesExt

CONSTANTS
  Machine,     \* the machines of the cluster
  Volume,      \* the volumes with the tags of the cluster
  Matches,     \* pairs <<m, v>>: v is in the zone of m and has its tags
  Provider,    \* the clouds to consider, a subset of AllProviders
  Devices,     \* the number of device names of the AWS provider
  MaxFaults,   \* how many crashes, terminations, lost answers, mount errors
  None         \* no machine, no volume

AllProviders == {"aws", "gce", "openstack", "azure", "do", "hetzner", "scaleway"}

ASSUME VolumesAssumption ==
  /\ Matches \subseteq Machine \X Volume
  /\ Provider \subseteq AllProviders
  /\ Devices \in Nat /\ MaxFaults \in Nat
  /\ None \notin Machine \cup Volume

VARIABLES
  provider,    \* the cloud of this cluster
  attached,    \* cloud: the machine a volume is attached to, or None
  device,      \* cloud: the volumes whose device is present on a machine
  pc,          \* what the process on a machine does
  tryAttach,   \* local variable of attachMasterVolumes: volumes to try
  have,        \* local variable attached: volumes to mount
  mounted,     \* k.mounted: at most one volume
  used,        \* deviceMap of the AWS provider: names that are taken
  last,        \* history: the volume a machine used last
  lost,        \* history: the answer to some attachment was lost
  faults

cloud == <<attached, device>>
process == <<pc, tryAttach, have, mounted, used>>
vars == <<provider, cloud, process, last, lost, faults>>

Alive(m) == pc[m] # "terminated"

TypeOK ==
  /\ provider \in Provider
  /\ attached \in [Volume -> Machine \cup {None}]
  /\ device \in [Machine -> SUBSET Volume]
  /\ pc \in [Machine -> {"find", "attach", "mount", "done", "exited", "terminated"}]
  /\ \A m \in Machine : /\ tryAttach[m] \in Seq(Volume) /\ have[m] \in Seq(Volume)
                        /\ pc[m] # "attach" \/ (tryAttach[m] # <<>> /\ have[m] = <<>>)
  /\ mounted \in [Machine -> Volume \cup {None}]
  /\ \A m \in Machine : pc[m] = "done" <=> mounted[m] # None
  /\ used \in [Machine -> 0 .. Devices]
  /\ last \in [Machine -> Volume \cup {None}]
  /\ lost \in BOOLEAN /\ faults \in 0 .. MaxFaults

Init ==
  /\ provider \in Provider
  /\ attached = [v \in Volume |-> None]
  /\ device = [m \in Machine |-> {}]
  /\ pc = [m \in Machine |-> "find"]
  /\ tryAttach = [m \in Machine |-> <<>>]
  /\ have = [m \in Machine |-> <<>>]
  /\ mounted = [m \in Machine |-> None]
  /\ used = [m \in Machine |-> 0]
  /\ last = [m \in Machine |-> None]
  /\ lost = FALSE /\ faults = 0

\* A new process begins with empty memory.
Fresh(m, phase) ==
  /\ pc' = [pc EXCEPT ![m] = phase]
  /\ tryAttach' = [tryAttach EXCEPT ![m] = <<>>]
  /\ have' = [have EXCEPT ![m] = <<>>]
  /\ mounted' = [mounted EXCEPT ![m] = None]
  /\ used' = [used EXCEPT ![m] = 0]

-----------------------------------------------------------------------------
(* FindVolumes: the volumes a provider lists, and which of them it reports  *)
(* with a LocalDevice.  The filters on zones, tags and name prefixes are    *)
(* Matches.                                                                 *)
AwsLocal(m, v) == attached[v] = m

GceLocal(m, v) == attached[v] = m

OpenstackLocal(m, v) == attached[v] = m

HetznerLocal(m, v) == attached[v] = m

ScalewayLocal(m, v) == attached[v] = m

\* Azure finds the device in the metadata of the instance.
AzureLocal(m, v) == attached[v] = m

\* DigitalOcean sets LocalDevice whatever droplet the volume is attached to.
DoLocal(m, v) == attached[v] # None

\* Volumes that are attached already are not listed.
LocalDeviceUnknown(m, v) == FALSE

\* Volumes that are attached to any machine are taken for local.
LocalDeviceAnywhere(m, v) == attached[v] # None

LocalDevice(m, v) ==
  CASE provider = "aws"       -> AwsLocal(m, v)
    [] provider = "gce"       -> GceLocal(m, v)
    [] provider = "openstack" -> OpenstackLocal(m, v)
    [] provider = "azure"     -> AzureLocal(m, v)
    [] provider = "do"        -> DoLocal(m, v)
    [] provider = "hetzner"   -> HetznerLocal(m, v)
    [] provider = "scaleway"  -> ScalewayLocal(m, v)

(* FindMountedVolume: whether a provider names a device for the volume; the *)
(* caller asks again otherwise.  AWS and OpenStack look for several names,  *)
(* the others for one; Azure returns the name whether or not it is there.   *)
AwsDevice(m, v) == v \in device[m]

GceDevice(m, v) == v \in device[m]

OpenstackDevice(m, v) == v \in device[m]

DoDevice(m, v) == v \in device[m]

HetznerDevice(m, v) == v \in device[m]

ScalewayDevice(m, v) == v \in device[m]

AzureDevice(m, v) == TRUE

FindMountedVolume(m, v) ==
  CASE provider = "aws"       -> AwsDevice(m, v)
    [] provider = "gce"       -> GceDevice(m, v)
    [] provider = "openstack" -> OpenstackDevice(m, v)
    [] provider = "azure"     -> AzureDevice(m, v)
    [] provider = "do"        -> DoDevice(m, v)
    [] provider = "hetzner"   -> HetznerDevice(m, v)
    [] provider = "scaleway"  -> ScalewayDevice(m, v)

-----------------------------------------------------------------------------
(* attachMasterVolumes                                                      *)

\* A loop that attaches every free volume.
LoopToEnd(m, try, got) ==
  LET more == try # <<>>
  IN /\ pc' = [pc EXCEPT ![m] = IF more THEN "attach" ELSE "mount"]
     /\ tryAttach' = [tryAttach EXCEPT ![m] = IF more THEN try ELSE <<>>]
     /\ have' = [have EXCEPT ![m] = got]

\* The loop over tryAttach ends as soon as a volume is attached.
Loop(m, try, got) ==
  LET more == try # <<>> /\ got = <<>>
  IN /\ pc' = [pc EXCEPT ![m] = IF more THEN "attach" ELSE "mount"]
     /\ tryAttach' = [tryAttach EXCEPT ![m] = IF more THEN try ELSE <<>>]
     /\ have' = [have EXCEPT ![m] = got]

FindVolumes(m) ==
  /\ pc[m] = "find"
  /\ \E found \in SetToSeqs({v \in Volume : <<m, v>> \in Matches}) :
       LET try == SelectSeq(found, LAMBDA v : attached[v] = None)
           got == SelectSeq(found, LAMBDA v : LocalDevice(m, v))
       IN Loop(m, try, got)
  /\ UNCHANGED <<provider, cloud, mounted, used, last, lost, faults>>

(* AttachVolume of each provider.  Its answer: "local" when the volume is   *)
(* attached and LocalDevice set, "bare" when it is attached and LocalDevice *)
(* is not set, "error" when the cloud or the provider refuses.              *)

\* One of the device names has to be free.
AwsAttach(m, v) ==
  IF used[m] < Devices /\ attached[v] = None THEN "local" ELSE "error"

GceAttach(m, v) == IF attached[v] = None THEN "local" ELSE "error"

OpenstackAttach(m, v) == IF attached[v] = None THEN "local" ELSE "error"

AzureAttach(m, v) == IF attached[v] = None THEN "local" ELSE "error"

DoAttach(m, v) == IF attached[v] = None THEN "local" ELSE "error"

\* The loop looks again after attaching and finds the volume on this server.
ScalewayAttach(m, v) == IF attached[v] \in {None, m} THEN "local" ELSE "error"

\* LocalDevice is set only if the volume was on this server before the call.
HetznerAttach(m, v) ==
  CASE attached[v] = None -> "bare"
    [] attached[v] = m    -> "local"
    [] OTHER              -> "error"

Attach(m, v) ==
  CASE provider = "aws"       -> AwsAttach(m, v)
    [] provider = "gce"       -> GceAttach(m, v)
    [] provider = "openstack" -> OpenstackAttach(m, v)
    [] provider = "azure"     -> AzureAttach(m, v)
    [] provider = "do"        -> DoAttach(m, v)
    [] provider = "hetzner"   -> HetznerAttach(m, v)
    [] provider = "scaleway"  -> ScalewayAttach(m, v)

\* assignDevice: a name is reserved for every attempt.  EC2 refuses to attach
\* a volume that is attached, and the name is not released after an error.
Reserved(m) ==
  IF provider = "aws" /\ used[m] < Devices THEN [used EXCEPT ![m] = @ + 1] ELSE used

\* One round of the loop.
AttachVolume(m) ==
  /\ pc[m] = "attach"
  /\ LET v == Head(tryAttach[m])
         answer == Attach(m, v)
         got == IF answer = "local" THEN Append(have[m], v) ELSE have[m]
     IN /\ answer # "bare"
        /\ attached' = IF answer = "error" THEN attached ELSE [attached EXCEPT ![v] = m]
        /\ Loop(m, Tail(tryAttach[m]), got)
  /\ used' = Reserved(m)
  /\ UNCHANGED <<provider, device, mounted, last, lost, faults>>

\* klog.Fatalf: "AttachVolume did not set LocalDevice or Mountpoint".
AttachVolumeFatal(m) ==
  /\ pc[m] = "attach"
  /\ LET v == Head(tryAttach[m])
     IN /\ Attach(m, v) = "bare"
        /\ attached' = [attached EXCEPT ![v] = m]
  /\ Fresh(m, "exited")
  /\ UNCHANGED <<provider, device, last, lost, faults>>

\* The cloud attaches the volume and the provider returns an error: the answer
\* is lost, or one of the calls that wait for the attachment fails.
AttachAnswerLost(m) ==
  /\ pc[m] = "attach" /\ faults < MaxFaults
  /\ LET v == Head(tryAttach[m])
     IN /\ Attach(m, v) # "error"
        /\ attached' = [attached EXCEPT ![v] = m]
  /\ Loop(m, Tail(tryAttach[m]), have[m])
  /\ used' = Reserved(m)
  /\ lost' = TRUE /\ faults' = faults + 1
  /\ UNCHANGED <<provider, device, mounted, last>>

-----------------------------------------------------------------------------
(* mountMasterVolumes: the first volume that can be mounted is used.        *)

\* No volume was mounted: WaitForVolumes sleeps and begins again.
NothingMounted(m) ==
  /\ pc[m] = "mount" /\ have[m] = <<>>
  /\ pc' = [pc EXCEPT ![m] = "find"]
  /\ UNCHANGED <<provider, cloud, tryAttach, have, mounted, used, last, lost, faults>>

\* safeFormatAndMount waits until the provider names a device.
Mount(m) ==
  /\ pc[m] = "mount" /\ have[m] # <<>>
  /\ LET v == Head(have[m])
     IN /\ FindMountedVolume(m, v) /\ v \in device[m]
        /\ mounted' = [mounted EXCEPT ![m] = v]
        /\ last' = [last EXCEPT ![m] = v]
  /\ pc' = [pc EXCEPT ![m] = "done"]
  /\ have' = [have EXCEPT ![m] = <<>>]
  /\ UNCHANGED <<provider, cloud, tryAttach, used, lost, faults>>

MountSkipped(m) ==
  /\ have' = [have EXCEPT ![m] = Tail(@)]
  /\ UNCHANGED <<provider, cloud, pc, tryAttach, mounted, used, last, lost>>

\* The provider named a device that is not there: the next volume is tried.
MountNoDevice(m) ==
  /\ pc[m] = "mount" /\ have[m] # <<>>
  /\ LET v == Head(have[m]) IN FindMountedVolume(m, v) /\ v \notin device[m]
  /\ MountSkipped(m)
  /\ UNCHANGED faults

\* Formatting, mounting or resizing fails.
MountFails(m) ==
  /\ pc[m] = "mount" /\ have[m] # <<>> /\ faults < MaxFaults
  /\ FindMountedVolume(m, Head(have[m]))
  /\ MountSkipped(m)
  /\ faults' = faults + 1

-----------------------------------------------------------------------------
(* The environment.                                                         *)

\* The device of an attached volume appears.
DeviceAppears(m) ==
  /\ \E v \in Volume : /\ attached[v] = m /\ v \notin device[m]
                       /\ device' = [device EXCEPT ![m] = @ \cup {v}]
  /\ UNCHANGED <<provider, attached, process, last, lost, faults>>

\* The supervisor of the process starts it again after klog.Fatalf.
Restart(m) ==
  /\ pc[m] = "exited"
  /\ Fresh(m, "find")
  /\ UNCHANGED <<provider, cloud, last, lost, faults>>

\* The process is stopped at any point and started again.
Crash(m) ==
  /\ pc[m] \in {"attach", "mount", "done"} /\ faults < MaxFaults
  /\ Fresh(m, "find")
  /\ faults' = faults + 1
  /\ UNCHANGED <<provider, cloud, last, lost>>

\* The machine is removed for good; its volumes become free.
Terminate(m) ==
  /\ Alive(m) /\ faults < MaxFaults
  /\ Fresh(m, "terminated")
  /\ attached' = [v \in Volume |-> IF attached[v] = m THEN None ELSE attached[v]]
  /\ device' = [device EXCEPT ![m] = {}]
  /\ faults' = faults + 1
  /\ UNCHANGED <<provider, last, lost>>

\* The steps of the process itself.
Boot(m) ==
  \/ FindVolumes(m) \/ AttachVolume(m) \/ AttachVolumeFatal(m) \/ NothingMounted(m)
  \/ Mount(m) \/ MountNoDevice(m) \/ Restart(m)

Next == \E m \in Machine :
  \/ FindVolumes(m) \/ AttachVolume(m) \/ AttachVolumeFatal(m) \/ AttachAnswerLost(m)
  \/ NothingMounted(m) \/ Mount(m) \/ MountNoDevice(m) \/ MountFails(m)
  \/ DeviceAppears(m) \/ Restart(m) \/ Crash(m) \/ Terminate(m)

Spec == Init /\ [][Next]_vars

(* The loop of WaitForVolumes never ends without a volume, the supervisor   *)
(* restarts the process, and the cloud shows the device of what it attached.*)
Fairness == \A m \in Machine : WF_vars(Boot(m)) /\ WF_vars(DeviceAppears(m))

FairSpec == Spec /\ Fairness

-----------------------------------------------------------------------------
(* attachMasterVolumes: "We only attempt to mount a single volume".  Unless *)
(* the answer to an attachment is lost, no machine ever has two volumes, so *)
(* none keeps a volume that it does not use from the others; crashes,       *)
(* refusals and exits between the attachment and the mount included.        *)
AtMostOneVolume ==
  ~lost => \A m \in Machine : Cardinality({v \in Volume : attached[v] = m}) <= 1

(* The name of the etcd node is the name of its volume (main.go).  A process *)
(* that is started again on its machine mounts the volume it had before.    *)
SameVolumeAgain ==
  [][\A m \in Machine :
       mounted'[m] # None /\ last[m] # None /\ ~lost' => mounted'[m] = last[m]]_vars


\* The AWS provider has used all its device names.
OutOfNames(m) == provider = "aws" /\ used[m] = Devices

\* A process without a volume, while one is attached to its machine, or is free
\* and the provider can attach it.
CouldMount(m) ==
  /\ Alive(m) /\ mounted[m] = None
  /\ \E v \in Volume :
       /\ <<m, v>> \in Matches
       /\ attached[v] = m \/ (attached[v] = None /\ ~OutOfNames(m))

(* WaitForVolumes retries until it has mounted a volume: no machine waits   *)
(* for ever while a volume is free for it or attached to it, whatever       *)
(* crashed, was terminated, refused or lost before.  It may wait for ever   *)
(* in two cases.  On AWS refused attachments use up the device names, and   *)
(* then no free volume can be attached until the process is restarted.  On  *)
(* DigitalOcean a droplet that took the volume of another one for its own   *)
(* waits for the device without end, also when that volume is free again.   *)
VolumeGetsMounted == \A m \in Machine : ~<>[](CouldMount(m) /\ provider # "do")
=============================================================================
