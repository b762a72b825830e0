---------------------------- MODULE MCReconcile ----------------------------
(* Small instances of Reconcile for TLC. *)
EXTENDS Reconcile, TLC

CONSTANTS A, B, C, D,   \* nodes
          Old, New, Far    \* etcd versions: from Old, New can be reached in place and Far cannot

V == INSTANCE Versions
Number(v) == V!Semver(3, CASE v = Old -> 3 [] v = New -> 4 [] v = Far -> 5, 13)
Rolling == {<<v, w>> \in Version \X Version : V!UpgradeInPlaceSupported(Number(v), Number(w))}

\* A cluster of three as it should be, with D, if it is a node, switched off.
Healthy == [members |-> {A, B, C}, down |-> Node \ {A, B, C}, commands |-> <<>>, count |-> 3,
            version |-> Old, target |-> Old, kinds |-> {}, faults |-> 0,
            tls |-> TRUE, plain |-> FALSE]

Upgrade == [Healthy EXCEPT !.target = Far]

Interrupted ==
  {[Upgrade EXCEPT !.kinds = {"leader", "lost", "exit"}, !.faults = 2],
   [Upgrade EXCEPT !.kinds = {"down", "expire", "lost"}, !.faults = 2]}

Grow == [Healthy EXCEPT !.members = {A}]
\* TLS is switched on for a cluster that has to be upgraded as well.
Secure == [Healthy EXCEPT !.plain = TRUE, !.target = New]

Replace == [Healthy EXCEPT !.count = 2, !.down = {C}]

Wanted ==
  {[Upgrade EXCEPT !.kinds = {"exit"}, !.faults = 2],
   [Healthy EXCEPT !.target = New, !.kinds = {"leader", "lost", "exit"}, !.faults = 1],
   [Grow EXCEPT !.kinds = {"exit"}, !.faults = 2],
   [Grow EXCEPT !.count = 2, !.tls = FALSE, !.plain = TRUE],
   [Secure EXCEPT !.kinds = {"leader", "lost", "exit"}, !.faults = 2],
   [Healthy EXCEPT !.count = 1, !.kinds = {"leader", "lost", "exit"}, !.faults = 2],
   [Replace EXCEPT !.kinds = {"leader", "lost"}, !.faults = 3]}

\* Nothing in Reconcile compares nodes.
Alike == Permutations(Node)
=============================================================================
