------------------------------- MODULE DataDir -------------------------------
(***************************************************************************)
(* The directories of the etcd data on one volume: data/<token>, the       *)
(* archive data-trashcan/<token> (pkg/etcd/etcdserver.go, StopEtcd), and   *)
(* the directory of an etcd that ran before etcd-manager took over, which  *)
(* is imported (pkg/legacy/adopt.go).                                      *)
(***************************************************************************)
CONSTANTS Node, Cluster,
          Imported   \* the token in the manifest of the old etcd

VARIABLES
  data,    \* data[n][c]: "none", "part" or "whole" of the data of cluster c
  trash,   \* trash[n]: the clusters with a directory in data-trashcan
  legacy   \* legacy[n]: "none" without a manifest; else where the old data is

TypeOK ==
  /\ data \in [Node -> [Cluster -> {"none", "part", "whole"}]]
  /\ trash \in [Node -> SUBSET Cluster]
  /\ legacy \in [Node -> {"none", "there", "moved"}]

Init(old) ==
  /\ data = [n \in Node |-> [c \in Cluster |-> "none"]]
  /\ trash = [n \in Node |-> {}]
  /\ legacy = [n \in Node |-> IF n \in old THEN "there" ELSE "none"]

\* The manifest stays where it is, also after the import.
Manifest(n) == legacy[n] # "none"

\* copyDir creates the destination, then copies file after file over what an
\* earlier attempt left there.
CopyBegins(n) ==
  /\ legacy[n] = "there"
  /\ data' = [data EXCEPT ![n][Imported] = "part"]
  /\ UNCHANGED <<trash, legacy>>

CopyEnds(n) ==
  /\ data[n][Imported] = "part"
  /\ data' = [data EXCEPT ![n][Imported] = "whole"]
  /\ UNCHANGED <<trash, legacy>>

\* os.Rename of the old directory; over a directory that is not empty it fails.
RenameLegacy(n) ==
  /\ legacy[n] = "there" /\ Imported \notin trash[n]
  /\ trash' = [trash EXCEPT ![n] = @ \cup {Imported}]
  /\ legacy' = [legacy EXCEPT ![n] = "moved"]
  /\ UNCHANGED data

Archivable(n, c) == data[n][c] # "none" /\ c \notin trash[n]

\* Mutant: the data directory is copied to the archive.
ArchiveCopy(n, c) ==
  /\ trash' = IF Archivable(n, c) THEN [trash EXCEPT ![n] = @ \cup {c}] ELSE trash
  /\ UNCHANGED <<data, legacy>>

\* StopEtcd only warns when it cannot rename the directory.
Archive(n, c) ==
  /\ IF Archivable(n, c)
     THEN /\ data' = [data EXCEPT ![n][c] = "none"]
          /\ trash' = [trash EXCEPT ![n] = @ \cup {c}]
     ELSE UNCHANGED <<data, trash>>
  /\ UNCHANGED legacy

\* etcd fills the directory it was started on.
EtcdWrites(n, c) ==
  /\ data[n][c] = "none"
  /\ data' = [data EXCEPT ![n][c] = "whole"]
  /\ UNCHANGED <<trash, legacy>>

=============================================================================
