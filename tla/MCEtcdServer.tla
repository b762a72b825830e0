---------------------------- MODULE MCEtcdServer ----------------------------
(* Small instances of EtcdServer for TLC. *)
EXTENDS EtcdServer
=============================================================================
