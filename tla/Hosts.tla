-------------------------------- MODULE Hosts --------------------------------
(***************************************************************************)
(* pkg/hosts/hosts.go: the names of the cluster members in /etc/hosts.     *)
(*                                                                         *)
(* The etcd-managers of one machine (one for the main cluster, one for the *)
(* events) share the file; each keeps a block of its own in it, between    *)
(* guards that carry its key, and leaves the rest of the file as it found  *)
(* it.  Nothing locks the file: it is read, truncated, written and read    *)
(* again, and each of these is a step.                                     *)
(***************************************************************************)
EXTENDS Integers, SequencesExt

CONSTANTS Manager,
          Address, Host,
          MaxAttempts,  \* of pseudoAtomicWrite: 10 in the code
          MaxOverlaps   \* bound: updates begun while another manager writes

VARIABLES
  file,       \* /etc/hosts: the lines of others, the managers' blocks in their
              \* order, and whether the tail of a longer text was left behind
              \* the last write
  primary,    \* primary[m]: h.primary, as pairs of an address and a host
  fallbacks,  \* fallbacks[m]: h.fallbacks
  writer,     \* writer[m]: the update that m carries out
  overlaps,
  spoiled     \* the text that some manager set out to write was not whole

Record == Address \X Host

Block == [by : Manager, records : SUBSET Record]
Text == [foreign : BOOLEAN, blocks : UNION {[1..k -> Block] : k \in 0..Cardinality(Manager)},
         tail : BOOLEAN]

Nothing == [foreign |-> FALSE, blocks |-> << >>, tail |-> FALSE]
Original == [Nothing EXCEPT !.foreign = TRUE]

NoWriter == [pc |-> "idle", text |-> Nothing, attempt |-> 0]

Writer == [pc : {"idle", "truncate", "write", "reread"}, text : Text, attempt : 0..MaxAttempts]

TypeOK ==
  /\ file \in Text
  /\ primary \in [Manager -> SUBSET Record]
  /\ fallbacks \in [Manager -> SUBSET Record]
  /\ writer \in [Manager -> Writer]
  /\ overlaps \in 0..MaxOverlaps
  /\ spoiled \in BOOLEAN

Init ==
  /\ file = Original
  /\ primary = [m \in Manager |-> {}]
  /\ fallbacks = [m \in Manager |-> {}]
  /\ writer = [m \in Manager |-> NoWriter]
  /\ overlaps = 0
  /\ spoiled = FALSE

Idle(m) == writer[m].pc = "idle"

(***************************************************************************)
(* AddFallbacks and UpdateHosts note what they are told and call update.   *)
(***************************************************************************)

\* Mutant: the fallbacks of a host are written beside its addresses.
FinalBoth(p, f) == p \cup f

\* A fallback counts only for a host of which no address is known.
Final(p, f) == p \cup {r \in f : \A q \in p : q[2] # r[2]}

\* The block of m is dropped wherever it is and a new one put at the end; what
\* lies behind a guard of m without its counterpart is dropped with it.
Updated(m, text, records, tail) ==
  LET others == SelectSeq(text.blocks, LAMBDA b : b.by # m) IN
  [text EXCEPT !.blocks = Append(others, [by |-> m, records |-> records]), !.tail = tail]

\* updateHostsFileWithRecords, up to the comparison with what it read: a block
\* that is not the last one is moved, so that two managers never leave the file
\* alone.  They are not serialised.
Update(m) ==
  /\ Idle(m)
  /\ IF \A o \in Manager : Idle(o) THEN UNCHANGED overlaps
     ELSE overlaps < MaxOverlaps /\ overlaps' = overlaps + 1
  /\ \E tail \in {FALSE, file.tail} :
       LET text == Updated(m, file, Final(primary'[m], fallbacks'[m]), tail) IN
       writer' = [writer EXCEPT ![m] =
                    IF text = file THEN NoWriter
                    ELSE [pc |-> "truncate", text |-> text, attempt |-> 0]]
  /\ spoiled' = (spoiled \/ ~file.foreign \/ file.tail)
  /\ UNCHANGED file

AddFallbacks(m, f) ==
  /\ fallbacks' = [fallbacks EXCEPT ![m] = f]
  /\ UNCHANGED primary
  /\ Update(m)

UpdateHosts(m, p) ==
  /\ p # {}
  /\ primary' = [primary EXCEPT ![m] = p]
  /\ UNCHANGED fallbacks
  /\ Update(m)

(***************************************************************************)
(* pseudoAtomicWrite: os.WriteFile opens the file with O_TRUNC, then writes*)
(* from its start.                                                         *)
(***************************************************************************)
Truncate(m) ==
  /\ writer[m].pc = "truncate"
  /\ file' = Nothing
  /\ writer' = [writer EXCEPT ![m].pc = "write", ![m].attempt = @ + 1]
  /\ UNCHANGED <<primary, fallbacks, overlaps, spoiled>>

\* Over the longer text of another manager the end of that text stays.
Write(m) ==
  /\ writer[m].pc = "write"
  /\ \E tail \in IF file = Nothing THEN {FALSE} ELSE BOOLEAN :
       file' = [writer[m].text EXCEPT !.tail = @ \/ tail]
  /\ writer' = [writer EXCEPT ![m].pc = "reread"]
  /\ UNCHANGED <<primary, fallbacks, overlaps, spoiled>>

\* Mutant: what is in the file after the pause is not looked at.
RereadNot(m) ==
  /\ writer[m].pc = "reread"
  /\ writer' = [writer EXCEPT ![m] = NoWriter]
  /\ UNCHANGED <<file, primary, fallbacks, overlaps, spoiled>>

\* After a pause the file is compared; another text in it is written over with
\* the same text as before.  After MaxAttempts the update fails.
Reread(m) ==
  /\ writer[m].pc = "reread"
  /\ IF file = writer[m].text
     THEN writer' = [writer EXCEPT ![m] = NoWriter] /\ UNCHANGED spoiled
     ELSE IF writer[m].attempt < MaxAttempts
     THEN writer' = [writer EXCEPT ![m].pc = "truncate"] /\ UNCHANGED spoiled
     ELSE writer' = [writer EXCEPT ![m] = NoWriter] /\ spoiled' = TRUE
  /\ UNCHANGED <<file, primary, fallbacks, overlaps>>

\* The manager stops; what it knew is gone, what it did to the file is not.
Stops(m) ==
  /\ primary' = [primary EXCEPT ![m] = {}]
  /\ fallbacks' = [fallbacks EXCEPT ![m] = {}]
  /\ writer' = [writer EXCEPT ![m] = NoWriter]
  /\ spoiled' = (spoiled \/ writer[m].attempt > 0)
  /\ UNCHANGED <<file, overlaps>>

(***************************************************************************)
(* Properties.                                                             *)
(***************************************************************************)

\* Between updates /etc/hosts is whole: the lines of others are in it and
\* nothing is left behind the last write ("the end-result is not malformed
\* (i.e. partial writes)").  The exceptions: a manager stopped, or gave up, while
\* it wrote, or read the file while another one had it truncated.
HostsWhole == (\A m \in Manager : Idle(m)) /\ ~spoiled => file.foreign /\ ~file.tail

\* Every manager's block ends up in the file, although one manager's write may
\* have undone the other's: between updates there is one block of it, with the
\* addresses of the member map for the hosts that are in the map, and with what
\* discovery says for the others.
HostsSettle ==
  \A m \in Manager :
    <>[]((\A o \in Manager : Idle(o)) /\ fallbacks[m] # {} =>
           LET mine == SelectSeq(file.blocks, LAMBDA b : b.by = m) IN
           /\ Len(mine) = 1
           /\ \A h \in Host :
                LET known == {r \in primary[m] : r[2] = h} IN
                {r \in mine[1].records : r[2] = h}
                  = IF known # {} THEN known ELSE {r \in fallbacks[m] : r[2] = h})

=============================================================================
