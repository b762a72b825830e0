------------------------------ MODULE MCVolumes ------------------------------
(* Instances of Volumes for TLC.                                            *)
EXTENDS Volumes

CONSTANTS m1, m2, m3, v1, v2

\* A zone with two volumes and three machines: one of them replaces another.
Zone == {m1, m2, m3} \X {v1, v2}
==============================================================================
