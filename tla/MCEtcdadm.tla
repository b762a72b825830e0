----------------------------- MODULE MCEtcdadm -----------------------------
(* Small instances of Etcdadm for TLC. *)
EXTENDS Etcdadm

CONSTANTS A, B, C

Signals == {"kill", "lost"}
Outages == {"reboot", "exit"}

\* One machine that joins, may be reset and joins again, and two at a time (one
\* of which may be reset while an answer is lost).
Again == [join |-> {B}, reset |-> {B}, resets |-> 1, kinds |-> Signals, faults |-> 2,
          kubelet |-> FALSE]
Both == [join |-> {B, C}, reset |-> {}, resets |-> 0, kinds |-> Signals, faults |-> 1,
         kubelet |-> FALSE]
Pods == [Again EXCEPT !.kubelet = TRUE]

Commands ==
  {Again, [Again EXCEPT !.kinds = Signals \cup Outages], Both,
   [Both EXCEPT !.kinds = Outages], [Both EXCEPT !.kinds = {"lost"}, !.reset = {B}, !.resets = 1],
   Pods, [Pods EXCEPT !.kinds = Outages]}

Interrupted == {[Again EXCEPT !.reset = {}, !.resets = 0, !.kinds = {"kill"}, !.faults = 1]}
=============================================================================
