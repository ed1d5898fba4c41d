------------------------------- MODULE SemVer -------------------------------
(***************************************************************************)
(* The order of versions by which the catalog admits updates:              *)
(* semver_greater of tools/verify_submission.py, after its parse().  A     *)
(* version is its three numbers and its pre-release identifiers, none for  *)
(* a release; build metadata is matched and ignored there.                 *)
(***************************************************************************)
EXTENDS Naturals, Sequences

CONSTANTS
  Identifiers,   (* texts between the dots of a pre-release                 *)
  Numerals,      (* those that are digits only, "01" as well as "1"         *)
  Value,         (* int() of a numeral                                      *)
  TextOrder      (* pairs of texts of which str's > holds                   *)

ASSUME SemVerAssumption ==
  /\ Numerals \subseteq Identifiers /\ Value \in [Numerals -> Nat]
  /\ \A x \in Identifiers : <<x, x>> \notin TextOrder
  /\ \A x, y, z \in Identifiers :
       <<x, y>> \in TextOrder /\ <<y, z>> \in TextOrder => <<x, z>> \in TextOrder

SemVers == [core : [1..3 -> Nat], pre : Seq(Identifiers)]
Stable(v) == v.pre = << >>

\* Mutant: a numeral and another text are compared as texts are.
CompareAsText(x, y) ==
  IF x \in Numerals /\ y \in Numerals THEN Value[x] > Value[y] ELSE <<x, y>> \in TextOrder

IdentifierGreater(x, y) ==
  \/ x \in Numerals /\ y \in Numerals /\ Value[x] > Value[y]
  \/ x \notin Numerals /\ y \in Numerals
  \/ x \notin Numerals /\ y \notin Numerals /\ <<x, y>> \in TextOrder

\* Tuples compare at their first difference.
CoreGreater(c, d) == \E k \in 1..3 : c[k] > d[k] /\ \A j \in 1..(k - 1) : c[j] = d[j]

\* So do the identifiers, as far as both versions have them; then the longer wins.
PreGreater(p, q) ==
  \/ \E k \in DOMAIN p \cap DOMAIN q :
       /\ p[k] # q[k] /\ IdentifierGreater(p[k], q[k])
       /\ \A j \in 1..(k - 1) : p[j] = q[j]
  \/ Len(p) > Len(q) /\ \A j \in DOMAIN q : p[j] = q[j]

SemverGreater(a, b) ==
  \/ CoreGreater(a.core, b.core)
  \/ a.core = b.core /\ Stable(a) /\ ~Stable(b)
  \/ a.core = b.core /\ ~Stable(a) /\ ~Stable(b) /\ PreGreater(a.pre, b.pre)
=============================================================================
