--------------------------- MODULE MCControlStore ---------------------------
(* Small instances of ControlStore for TLC. *)
EXTENDS ControlStore

CONSTANTS A, B, S, T

\* Backups only: one agent over eight ticks with a fault, two agents over
\* eight ticks, and two that are slow.
Quiet == [ticks |-> 8, backups |-> 3, faults |-> 1, slow |-> FALSE, agents |-> {A},
          managers |-> {}, tools |-> {}, commands |-> 0, moves |-> 0]
Elections == [Quiet EXCEPT !.faults = 0, !.agents = {A, B}]
Slow == [Elections EXCEPT !.ticks = 3, !.backups = 2, !.slow = TRUE]

\* Commands: two of them while the lowest id changes; with a tool that also
\* deletes and configures; with faults; with a backup that is cleaned up.
Queue == [ticks |-> 1, backups |-> 1, faults |-> 0, slow |-> FALSE, agents |-> {},
          managers |-> {A, B}, tools |-> {"restore"}, commands |-> 2, moves |-> 2]
Tools == [Queue EXCEPT !.ticks = 0, !.tools = {"restore", "delete", "configure"},
                       !.moves = 1]
Faults == [Queue EXCEPT !.faults = 2, !.moves = 1]
Cleaned == [Queue EXCEPT !.ticks = 3, !.backups = 3, !.commands = 1, !.moves = 1]

Stores == {Quiet, Elections, Slow, Queue, Tools, Faults, Cleaned}
=============================================================================
