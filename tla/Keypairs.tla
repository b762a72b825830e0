------------------------------ MODULE Keypairs ------------------------------
(***************************************************************************)
(* pkg/pki: key pairs in files (certs.go, fs.go, store.go).                *)
(*                                                                         *)
(* EnsureKeypair loads the key and the certificate of a slot, makes the    *)
(* key if there is none, issues a certificate unless the old one will do,  *)
(* and writes what is new: the key first, then the certificate, each over  *)
(* the old file.                                                           *)
(***************************************************************************)
EXTENDS Integers

CONSTANTS Slot,             \* the pairs of files <name>.key and <name>.crt
          CA, Names,        \* signers, and sets of names and addresses
          NoCert, Cut,      \* no file, and one that does not parse
          CertDuration, CertMinTimeLeft   \* in years

VARIABLES key,    \* key[s]: "none", "whole" or Cut
          cert    \* cert[s]: for whom it was issued, and the years it has left

Config == [ca : CA, names : Names]
Certificate == [config : Config, left : 0..CertDuration]

TypeOK ==
  /\ key \in [Slot -> {"none", "whole", Cut}]
  /\ cert \in [Slot -> Certificate \cup {NoCert, Cut}]

Init(made, config) ==
  /\ key = [s \in Slot |-> IF s \in made THEN "whole" ELSE "none"]
  /\ cert = [s \in Slot |-> IF s \in made THEN [config |-> config, left |-> CertDuration] ELSE NoCert]

\* A file that exists and does not parse is an error, now and ever after.
Loads(s) == key[s] # Cut /\ cert[s] # Cut

\* The mutator writes the key it has to make before it comes to the certificate.
WriteKey(s) ==
  /\ Loads(s)
  /\ key[s] = "none"
  /\ key' = [key EXCEPT ![s] = "whole"]
  /\ UNCHANGED cert

\* Mutant: a certificate for the right names is good while it is valid.
ReusableValid(c, config) == c.left > 0 /\ c.config.names = config.names

\* Who signed the certificate is not compared.
Reusable(c, config) == c.left > CertMinTimeLeft /\ c.config.names = config.names

\* newSignedCert for CertDuration, and writeCertificates.
WriteCert(s, config) ==
  /\ Loads(s)
  /\ key[s] = "whole"
  /\ cert' = [cert EXCEPT ![s] =
                IF @ # NoCert /\ Reusable(@, config) THEN @
                ELSE [config |-> config, left |-> CertDuration]]
  /\ UNCHANGED key

\* The process ends while it writes into s: the file was truncated when it was
\* opened, so it is empty or not complete.
CutShort(s) ==
  IF key[s] = "none"
  THEN key' = [key EXCEPT ![s] = Cut] /\ UNCHANGED cert
  ELSE cert' = [cert EXCEPT ![s] = Cut] /\ UNCHANGED key

\* A year goes by.
Ages ==
  /\ cert' = [s \in Slot |-> IF cert[s] \in {NoCert, Cut} THEN cert[s]
                             ELSE [cert[s] EXCEPT !.left = IF @ = 0 THEN 0 ELSE @ - 1]]
  /\ UNCHANGED key

\* What EnsureKeypair is there for: a certificate of the signer and the names in
\* use, with all of its time before it.
Fresh(s, config) == key[s] = "whole" /\ cert[s] = [config |-> config, left |-> CertDuration]

=============================================================================
