------------------------------ MODULE MCMachine ------------------------------
(* A machine with two etcd-managers, for TLC. *)
EXTENDS Machine

CONSTANTS Main, Events,          \* the etcd-managers
          Created, Other,        \* cluster tokens: a new cluster, and one elsewhere
          a1, a2, h1, h2         \* addresses and names of cluster members

Adopted == EtcdVersionForAdoption(Semver(3, 3, 14))
Installed == {Adopted}

Quiet == [on |-> {Main}, running |-> {}, old |-> {}, version |-> Semver(3, 3, 14),
          requests |-> {}, kinds |-> {}, faults |-> 0,
          changes |-> 0, discovered |-> {}, members |-> {}]

Failing == [Quiet EXCEPT !.kinds = {"crash", "torn", "exit", "start", "write", "rotate"},
                         !.faults = 2, !.changes = 1]

Import == [Failing EXCEPT !.old = {Main}, !.requests = {"stop", "reconfigure"}]
Create == [Failing EXCEPT !.requests = {"initial", "stop"}]
Rejoin == [Failing EXCEPT !.requests = {"join", "stop"}]

\* Two managers that write /etc/hosts.
Shared == [Quiet EXCEPT !.on = {Main, Events}, !.running = {Main, Events},
                        !.kinds = {"crash"}, !.faults = 1, !.changes = 1,
                        !.discovered = {<<a1, h1>>, <<a1, h2>>},
                        !.members = {{<<a2, h1>>}}]

Days == {Import, Create, Rejoin, Shared}
=============================================================================
