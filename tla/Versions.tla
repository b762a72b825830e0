------------------------------ MODULE Versions ------------------------------
(***************************************************************************)
(* pkg/etcdversions/mappings.go: which etcd takes over the data of which.  *)
(* The version strings are parsed by semver; here they are numbers.        *)
(***************************************************************************)
EXTENDS Integers, TLAPS

Semver(major, minor, patch) == [major |-> major, minor |-> minor, patch |-> patch]

AnyVersion == [major : Nat, minor : Nat, patch : Nat]

\* The minor numbers are unsigned: the difference counts only if it is not
\* negative.
UpgradeInPlaceSupported(from, to) ==
  /\ from.major = 3 /\ to.major = 3
  /\ to.minor - from.minor <= 1 /\ to.minor >= from.minor

\* The release that stands in for a version of which there is no binary; the
\* version itself ("") if its family is not known.
EtcdVersionForAdoption(from) ==
  LET minor == from.minor
      patch == from.patch IN
  IF from.major # 3 \/ minor > 5 THEN from
  ELSE IF minor <= 1 THEN Semver(3, 1, 12)
  ELSE IF minor = 2 THEN Semver(3, 2, IF patch <= 18 THEN 18 ELSE 24)
  ELSE IF minor = 3 THEN Semver(3, 3, IF patch <= 10 THEN 10 ELSE IF patch <= 13 THEN 13 ELSE 17)
  ELSE IF minor = 4 THEN Semver(3, 4, IF patch <= 3 THEN 3 ELSE 13)
  ELSE Semver(3, 5, 7)

\* An imported etcd is always run with a version that may take over in place
\* (EtcdVersionForAdoption against UpgradeInPlaceSupported), and adopting what was
\* adopted changes nothing: a manager that starts again does not move it on.
THEOREM AdoptionInPlace ==
  ASSUME NEW v \in AnyVersion, v.major = 3
  PROVE  /\ UpgradeInPlaceSupported(v, EtcdVersionForAdoption(v))
         /\ EtcdVersionForAdoption(EtcdVersionForAdoption(v)) = EtcdVersionForAdoption(v)
<1>1. v.minor \in Nat /\ v.patch \in Nat
  BY DEF AnyVersion
<1>2. CASE v.minor > 5
  BY <1>1, <1>2 DEF EtcdVersionForAdoption, UpgradeInPlaceSupported
<1>3. CASE v.minor <= 5
  BY <1>1, <1>3 DEF EtcdVersionForAdoption, UpgradeInPlaceSupported, Semver
<1> QED
  BY <1>1, <1>2, <1>3

=============================================================================
