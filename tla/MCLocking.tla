----------------------------- MODULE MCLocking -----------------------------
(* Small instances of Locking for TLC. *)
EXTENDS Locking
=============================================================================
