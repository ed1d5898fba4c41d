--------------------------- MODULE CatalogProofs ---------------------------
(***************************************************************************)
(* Theorems of what the catalog says of versions, for any number of         *)
(* versions, add-ons and repositories: of SemVer and Admission, that those  *)
(* it offers only increase, and of Revocations, that those it has withdrawn *)
(* are not loaded.  The two are specifications of their own: Admission's    *)
(* carries its name in front.                                               *)
(***************************************************************************)
EXTENDS Admission, Revocations, TLAPS

-----------------------------------------------------------------------------
(* The order of versions                                                    *)

\* No identifier of a pre-release is greater than itself.
LEMMA IdentifierIrreflexive ==
  ASSUME NEW x \in Identifiers PROVE ~IdentifierGreater(x, x)
BY SemVerAssumption DEF IdentifierGreater

\* Identifiers are ordered: numerals below other texts, each kind by an order of its own.
LEMMA IdentifierTransitive ==
  ASSUME NEW x \in Identifiers, NEW y \in Identifiers, NEW z \in Identifiers,
         IdentifierGreater(x, y), IdentifierGreater(y, z)
  PROVE  IdentifierGreater(x, z)
<1>1. CASE x \in Numerals
  <2>1. y \in Numerals /\ z \in Numerals /\ Value[x] > Value[y] /\ Value[y] > Value[z]
    BY <1>1 DEF IdentifierGreater
  <2>2. Value[x] \in Nat /\ Value[y] \in Nat /\ Value[z] \in Nat
    BY <1>1, <2>1, SemVerAssumption
  <2>3. Value[x] > Value[z]
    BY <2>1, <2>2
  <2> QED
    BY <1>1, <2>1, <2>3 DEF IdentifierGreater
<1>2. CASE x \notin Numerals /\ z \notin Numerals
  <2>1. <<x, y>> \in TextOrder /\ <<y, z>> \in TextOrder
    BY <1>2 DEF IdentifierGreater
  <2> QED
    BY <1>2, <2>1, SemVerAssumption DEF IdentifierGreater
<1>3. CASE x \notin Numerals /\ z \in Numerals
  BY <1>3 DEF IdentifierGreater
<1> QED
  BY <1>1, <1>2, <1>3

\* The three numbers are ordered by their first difference.
LEMMA CoreTransitive ==
  ASSUME NEW c \in [1..3 -> Nat], NEW d \in [1..3 -> Nat], NEW e \in [1..3 -> Nat],
         CoreGreater(c, d), CoreGreater(d, e)
  PROVE  CoreGreater(c, e)
<1>1. PICK k \in 1..3 : c[k] > d[k] /\ \A j \in 1..(k - 1) : c[j] = d[j]
  BY DEF CoreGreater
<1>2. PICK l \in 1..3 : d[l] > e[l] /\ \A j \in 1..(l - 1) : d[j] = e[j]
  BY DEF CoreGreater
<1>3. CASE k < l
  <2>1. k \in 1..(l - 1) /\ \A j \in 1..(k - 1) : j \in 1..(l - 1)
    BY <1>3
  <2>2. c[k] > e[k] /\ \A j \in 1..(k - 1) : c[j] = e[j]
    BY <1>1, <1>2, <2>1
  <2> QED
    BY <2>2 DEF CoreGreater
<1>4. CASE ~(k < l)
  <2>1. l = k \/ l \in 1..(k - 1)
    BY <1>4
  <2>2. \A j \in 1..(l - 1) : j \in 1..(k - 1)
    BY <1>4
  <2>3. c[l] \in Nat /\ d[l] \in Nat /\ e[l] \in Nat
    OBVIOUS
  <2>4. c[l] > e[l]
    BY <1>1, <1>2, <2>1, <2>3
  <2>5. \A j \in 1..(l - 1) : c[j] = e[j]
    BY <1>1, <1>2, <2>2
  <2> QED
    BY <2>4, <2>5 DEF CoreGreater
<1> QED
  BY <1>3, <1>4

\* Where the first difference of two lists of identifiers decides, it decides.
LEMMA PreGreaterAt ==
  ASSUME NEW p \in Seq(Identifiers), NEW q \in Seq(Identifiers),
         NEW k \in DOMAIN p \cap DOMAIN q, p[k] # q[k], IdentifierGreater(p[k], q[k]),
         \A j \in 1..(k - 1) : p[j] = q[j]
  PROVE  PreGreater(p, q)
BY DEF PreGreater

\* Lists of identifiers are ordered by their first difference, a list above every list
\* it begins with.
LEMMA PreTransitive ==
  ASSUME NEW p \in Seq(Identifiers), NEW q \in Seq(Identifiers), NEW r \in Seq(Identifiers),
         PreGreater(p, q), PreGreater(q, r)
  PROVE  PreGreater(p, r)
<1> DEFINE Differ(s, t, k) == /\ k \in DOMAIN s \cap DOMAIN t
                              /\ s[k] # t[k] /\ IdentifierGreater(s[k], t[k])
                              /\ \A j \in 1..(k - 1) : s[j] = t[j]
           Longer(s, t) == Len(s) > Len(t) /\ \A j \in DOMAIN t : s[j] = t[j]
<1>0. /\ DOMAIN p = 1..Len(p) /\ DOMAIN q = 1..Len(q) /\ DOMAIN r = 1..Len(r)
      /\ Len(p) \in Nat /\ Len(q) \in Nat /\ Len(r) \in Nat
  OBVIOUS
<1>1. (\E k : Differ(p, q, k)) \/ Longer(p, q)
  BY DEF PreGreater
<1>2. (\E l : Differ(q, r, l)) \/ Longer(q, r)
  BY DEF PreGreater
<1>3. ASSUME NEW k, Differ(p, q, k), NEW l, Differ(q, r, l) PROVE PreGreater(p, r)
  <2>0. k \in 1..Len(p) /\ k \in 1..Len(q) /\ l \in 1..Len(q) /\ l \in 1..Len(r)
    BY <1>0, <1>3
  <2>1. CASE k < l
    <3>1. k \in DOMAIN p \cap DOMAIN r /\ k \in 1..(l - 1)
      BY <1>0, <2>0, <2>1
    <3>2. q[k] = r[k]
      BY <1>3, <3>1
    <3>3. \A j \in 1..(k - 1) : p[j] = r[j]
      <4>1. \A j \in 1..(k - 1) : j \in 1..(l - 1)
        BY <2>0, <2>1
      <4> QED
        BY <1>3, <4>1
    <3> QED
      BY <1>3, <3>1, <3>2, <3>3, PreGreaterAt
  <2>2. CASE l < k
    <3>1. l \in DOMAIN p \cap DOMAIN r /\ l \in 1..(k - 1)
      BY <1>0, <2>0, <2>2
    <3>2. p[l] = q[l]
      BY <1>3, <3>1
    <3>3. \A j \in 1..(l - 1) : p[j] = r[j]
      <4>1. \A j \in 1..(l - 1) : j \in 1..(k - 1)
        BY <2>0, <2>2
      <4> QED
        BY <1>3, <4>1
    <3> QED
      BY <1>3, <3>1, <3>2, <3>3, PreGreaterAt
  <2>3. CASE k = l
    <3>1. l \in DOMAIN p \cap DOMAIN r
      BY <1>0, <2>0, <2>3
    <3>2. p[l] \in Identifiers /\ q[l] \in Identifiers /\ r[l] \in Identifiers
      BY <1>0, <2>0, <2>3
    <3>3. IdentifierGreater(p[l], r[l])
      BY <1>3, <2>3, <3>2, IdentifierTransitive
    <3>4. p[l] # r[l]
      BY <3>2, <3>3, IdentifierIrreflexive
    <3>5. \A j \in 1..(l - 1) : p[j] = r[j]
      BY <1>3, <2>3
    <3> QED
      BY <3>1, <3>3, <3>4, <3>5, PreGreaterAt
  <2> QED
    BY <2>0, <2>1, <2>2, <2>3
<1>4. ASSUME NEW k, Differ(p, q, k), Longer(q, r) PROVE PreGreater(p, r)
  <2>0. k \in 1..Len(p) /\ k \in 1..Len(q)
    BY <1>0, <1>4
  <2>1. CASE k \in DOMAIN r
    <3>1. k \in DOMAIN p \cap DOMAIN r /\ q[k] = r[k]
      BY <1>0, <1>4, <2>0, <2>1
    <3>2. \A j \in 1..(k - 1) : p[j] = r[j]
      <4>1. \A j \in 1..(k - 1) : j \in DOMAIN r
        BY <1>0, <2>1
      <4> QED
        BY <1>4, <4>1
    <3> QED
      BY <1>4, <3>1, <3>2, PreGreaterAt
  <2>2. CASE k \notin DOMAIN r
    <3>1. Len(p) > Len(r)
      BY <1>0, <2>0, <2>2
    <3>2. \A j \in DOMAIN r : p[j] = r[j]
      <4>1. \A j \in DOMAIN r : j \in 1..(k - 1)
        BY <1>0, <2>0, <2>2
      <4> QED
        BY <1>4, <4>1
    <3> QED
      BY <3>1, <3>2 DEF PreGreater
  <2> QED
    BY <2>1, <2>2
<1>5. ASSUME Longer(p, q), NEW l, Differ(q, r, l) PROVE PreGreater(p, r)
  <2>1. l \in DOMAIN p \cap DOMAIN r /\ p[l] = q[l]
    BY <1>0, <1>5
  <2>2. \A j \in 1..(l - 1) : p[j] = r[j]
    <3>1. \A j \in 1..(l - 1) : j \in DOMAIN q
      BY <1>0, <1>5
    <3> QED
      BY <1>5, <3>1
  <2> QED
    BY <1>5, <2>1, <2>2, PreGreaterAt
<1>6. ASSUME Longer(p, q), Longer(q, r) PROVE PreGreater(p, r)
  <2>1. Len(p) > Len(r) /\ \A j \in DOMAIN r : j \in DOMAIN q
    BY <1>0, <1>6
  <2> QED
    BY <1>6, <2>1 DEF PreGreater
<1> QED
  BY <1>1, <1>2, <1>3, <1>4, <1>5, <1>6

\* No version is an update of itself.
THEOREM GreaterIrreflexive == \A a \in SemVers : ~SemverGreater(a, a)
<1> SUFFICES ASSUME NEW a \in SemVers, SemverGreater(a, a) PROVE FALSE
  OBVIOUS
<1>1. a.core \in [1..3 -> Nat] /\ a.pre \in Seq(Identifiers)
  BY DEF SemVers
<1>2. ~CoreGreater(a.core, a.core)
  BY <1>1 DEF CoreGreater
<1>3. ~PreGreater(a.pre, a.pre)
  BY <1>1 DEF PreGreater
<1> QED
  BY <1>2, <1>3 DEF SemverGreater

\* An update of an update is an update (verify_submission.py:20).
THEOREM GreaterTransitive ==
  \A a, b, c \in SemVers :
    SemverGreater(a, b) /\ SemverGreater(b, c) => SemverGreater(a, c)
<1> SUFFICES ASSUME NEW a \in SemVers, NEW b \in SemVers, NEW c \in SemVers,
                    SemverGreater(a, b), SemverGreater(b, c)
             PROVE  SemverGreater(a, c)
  OBVIOUS
<1>1. /\ a.core \in [1..3 -> Nat] /\ b.core \in [1..3 -> Nat] /\ c.core \in [1..3 -> Nat]
      /\ a.pre \in Seq(Identifiers) /\ b.pre \in Seq(Identifiers) /\ c.pre \in Seq(Identifiers)
  BY DEF SemVers
<1>2. CASE CoreGreater(a.core, b.core)
  BY <1>1, <1>2, CoreTransitive DEF SemverGreater
<1>3. CASE ~CoreGreater(a.core, b.core) /\ CoreGreater(b.core, c.core)
  BY <1>3 DEF SemverGreater
<1>4. CASE ~CoreGreater(a.core, b.core) /\ ~CoreGreater(b.core, c.core)
  <2>1. a.core = b.core /\ b.core = c.core
    BY <1>4 DEF SemverGreater
  <2>2. CASE Stable(a)
    BY <1>4, <2>1, <2>2 DEF SemverGreater
  <2>3. CASE ~Stable(a)
    <3>1. ~Stable(b) /\ PreGreater(a.pre, b.pre)
      BY <1>4, <2>3 DEF SemverGreater
    <3>2. ~Stable(c) /\ PreGreater(b.pre, c.pre)
      BY <1>4, <3>1 DEF SemverGreater
    <3>3. PreGreater(a.pre, c.pre)
      BY <1>1, <3>1, <3>2, PreTransitive
    <3> QED
      BY <2>1, <2>3, <3>2, <3>3 DEF SemverGreater
  <2> QED
    BY <2>2, <2>3
<1> QED
  BY <1>2, <1>3, <1>4
-----------------------------------------------------------------------------
(* The history of a package                                                 *)

\* A request was checked against a place of the history that its branch starts at or
\* before, and what was accepted is greater than what was there.
RequestInv ==
  \A p \in Requests : request[p].step \in {"open", "accepted"} =>
    /\ request[p].base \in 0..Len(merged) /\ request[p].from \in 0..request[p].base
    /\ request[p].step = "accepted" /\ request[p].base # 0 =>
         SemverGreater(request[p].version, merged[request[p].base])

AdmissionInv == AdmissionTypeOK /\ RequestInv /\ VersionsIncrease

\* A request that is not pending has no version and no places.
LEMMA PendingRequest ==
  ASSUME AdmissionTypeOK, NEW p \in Requests, request[p].step \in {"open", "accepted"}
  PROVE  request[p] \in Pending
BY DEF AdmissionTypeOK, Idle

\* A request that gets further keeps the history, and the invariant if its own part holds.
LEMMA RequestStep ==
  ASSUME AdmissionInv, NEW p \in Requests, NEW r \in Idle \cup Pending,
         merged' = merged, request' = [request EXCEPT ![p] = r],
         r.step \in {"open", "accepted"} =>
           /\ r.base \in 0..Len(merged) /\ r.from \in 0..r.base
           /\ r.step = "accepted" /\ r.base # 0 => SemverGreater(r.version, merged[r.base])
  PROVE  AdmissionInv'
<1>1. AdmissionTypeOK'
  BY DEF AdmissionInv, AdmissionTypeOK
<1>2. VersionsIncrease'
  BY DEF AdmissionInv, VersionsIncrease
<1>3. RequestInv'
  <2> SUFFICES ASSUME NEW q \in Requests, request'[q].step \in {"open", "accepted"}
               PROVE  /\ request'[q].base \in 0..Len(merged)
                      /\ request'[q].from \in 0..request'[q].base
                      /\ request'[q].step = "accepted" /\ request'[q].base # 0 =>
                           SemverGreater(request'[q].version, merged[request'[q].base])
    BY DEF RequestInv
  <2>1. CASE q = p
    <3>1. request'[q] = r
      BY <2>1 DEF AdmissionInv, AdmissionTypeOK
    <3> QED
      BY <3>1
  <2>2. CASE q # p
    <3>1. request'[q] = request[q]
      BY <2>2 DEF AdmissionInv, AdmissionTypeOK
    <3> QED
      BY <3>1 DEF AdmissionInv, RequestInv
  <2> QED
    BY <2>1, <2>2
<1> QED
  BY <1>1, <1>2, <1>3 DEF AdmissionInv

LEMMA PushInv ==
  ASSUME AdmissionInv, NEW p \in Requests, NEW v \in Versions, Push(p, v) PROVE AdmissionInv'
<1>1. PICK from \in 0..Len(merged) :
        request' = [request EXCEPT ![p] =
          [step |-> "open", version |-> v, from |-> from, base |-> Len(merged)]]
  BY DEF Push
<1> DEFINE r == [step |-> "open", version |-> v, from |-> from, base |-> Len(merged)]
<1>2. Len(merged) \in Nat /\ merged' = merged
  BY DEF AdmissionInv, AdmissionTypeOK, Push
<1>3. r \in Pending
  BY <1>2 DEF Pending
<1>4. r.base \in 0..Len(merged) /\ r.from \in 0..r.base /\ r.step = "open"
  BY <1>2
<1> HIDE DEF r
<1> QED
  BY <1>1, <1>2, <1>3, <1>4, RequestStep DEF r

LEMMA RefuseInv ==
  ASSUME AdmissionInv, NEW p \in Requests, Refuse(p) PROVE AdmissionInv'
<1> DEFINE r == [step |-> "refused"]
<1>1. r \in Idle /\ r.step = "refused"
  BY DEF Idle
<1>2. merged' = merged /\ request' = [request EXCEPT ![p] = r]
  BY DEF Refuse
<1> HIDE DEF r
<1> QED
  BY <1>1, <1>2, RequestStep

LEMMA AcceptInv ==
  ASSUME AdmissionInv, NEW p \in Requests, Accept(p) PROVE AdmissionInv'
<1> DEFINE r == [request[p] EXCEPT !.step = "accepted"]
<1>1. request[p] \in Pending /\ request[p].step = "open"
  BY PendingRequest DEF AdmissionInv, Accept
<1>2. /\ r \in Pending /\ r.step = "accepted" /\ r.base = request[p].base
      /\ r.from = request[p].from /\ r.version = request[p].version
  BY <1>1 DEF Pending
<1>3. merged' = merged /\ request' = [request EXCEPT ![p] = r]
  BY DEF Accept, AdmissionInv, AdmissionTypeOK
<1>4. r.base \in 0..Len(merged) /\ r.from \in 0..r.base
  BY <1>1, <1>2 DEF AdmissionInv, RequestInv
<1>5. r.base # 0 => SemverGreater(r.version, merged[r.base])
  BY <1>2 DEF Accept, Manifest
<1> HIDE DEF r
<1> QED
  BY <1>2, <1>3, <1>4, <1>5, RequestStep

\* In a history that increases, a version is at one place only: a request that merges
\* without a conflict was checked against the end of the history.
LEMMA MergesFromTheEnd ==
  ASSUME AdmissionInv, NEW p \in Requests, Merge(p)
  PROVE  request[p].base = Len(merged)
<1>1. /\ Len(merged) \in Nat /\ request[p].base \in 0..Len(merged)
      /\ request[p].from \in 0..request[p].base /\ merged \in Seq(Versions)
  BY DEF Merge, AdmissionInv, AdmissionTypeOK, RequestInv
<1>2. Manifest(request[p].from) = Manifest(Len(merged))
  BY DEF Merge
<1>3. SUFFICES ASSUME request[p].from # Len(merged) PROVE FALSE
  BY <1>1, <1>3
<1>4. Len(merged) \in DOMAIN merged /\ merged[Len(merged)] \in Versions
  BY <1>1, <1>3
<1>5. request[p].from # 0
  BY <1>1, <1>2, <1>3, <1>4, AdmissionAssumption DEF Manifest
<1>6. request[p].from \in DOMAIN merged /\ request[p].from < Len(merged)
  BY <1>1, <1>3, <1>5
<1>7. SemverGreater(merged[Len(merged)], merged[request[p].from])
  BY <1>4, <1>6 DEF AdmissionInv, VersionsIncrease
<1>8. merged[request[p].from] = merged[Len(merged)]
  BY <1>1, <1>2, <1>3, <1>5 DEF Manifest
<1> QED
  BY <1>4, <1>7, <1>8, AdmissionAssumption, GreaterIrreflexive

LEMMA MergeInv ==
  ASSUME AdmissionInv, NEW p \in Requests, Merge(p) PROVE AdmissionInv'
<1> DEFINE v == request[p].version
           n == Len(merged)
<1>1. request[p] \in Pending /\ request[p].step = "accepted"
  BY PendingRequest DEF AdmissionInv, Merge
<1>2. v \in Versions /\ n \in Nat /\ merged \in Seq(Versions)
  BY <1>1 DEF AdmissionInv, AdmissionTypeOK, Pending
<1>3. merged' = Append(merged, v) /\ request' = [request EXCEPT ![p] = [step |-> "none"]]
  BY DEF Merge
<1> HIDE DEF v
<1>4. /\ merged' \in Seq(Versions) /\ Len(merged') = n + 1 /\ DOMAIN merged' = 1..(n + 1)
      /\ DOMAIN merged = 1..n /\ merged'[n + 1] = v
      /\ \A i \in 1..n : merged'[i] = merged[i]
  BY <1>2, <1>3
<1>5. \A i \in 1..n : SemverGreater(v, merged[i])
  <2> SUFFICES ASSUME NEW i \in 1..n PROVE SemverGreater(v, merged[i])
    OBVIOUS
  <2>1. SemverGreater(v, merged[n])
    BY <1>1, <1>2, MergesFromTheEnd DEF AdmissionInv, RequestInv, v
  <2>2. i # n => SemverGreater(merged[n], merged[i])
    <3>1. n \in 1..n /\ (i # n => i < n)
      BY <1>2
    <3>2. DOMAIN merged = 1..n
      BY <1>4
    <3>3. i \in DOMAIN merged /\ n \in DOMAIN merged
      BY <3>1, <3>2
    <3> QED
      BY <3>1, <3>3 DEF AdmissionInv, VersionsIncrease
  <2>3. v \in SemVers /\ merged[n] \in SemVers /\ merged[i] \in SemVers
    BY <1>2, AdmissionAssumption
  <2> QED
    BY <2>1, <2>2, <2>3, GreaterTransitive
<1>6. VersionsIncrease'
  <2> SUFFICES ASSUME NEW i \in 1..(n + 1), NEW j \in 1..(n + 1), i < j
               PROVE  SemverGreater(merged'[j], merged'[i])
    BY <1>4 DEF VersionsIncrease
  <2>1. CASE j = n + 1
    <3>1. i \in 1..n
      BY <1>2, <2>1
    <3> QED
      BY <1>4, <1>5, <2>1, <3>1
  <2>2. CASE j # n + 1
    <3>1. i \in 1..n /\ j \in 1..n
      BY <1>2, <2>2
    <3> QED
      BY <1>4, <3>1 DEF AdmissionInv, VersionsIncrease
  <2> QED
    BY <2>1, <2>2
<1>7. AdmissionTypeOK'
  <2>1. [step |-> "none"] \in Idle
    BY DEF Idle
  <2> QED
    BY <1>3, <1>4, <2>1 DEF AdmissionInv, AdmissionTypeOK
<1>8. RequestInv'
  <2> SUFFICES ASSUME NEW q \in Requests, request'[q].step \in {"open", "accepted"}
               PROVE  /\ request'[q].base \in 0..Len(merged')
                      /\ request'[q].from \in 0..request'[q].base
                      /\ request'[q].step = "accepted" /\ request'[q].base # 0 =>
                           SemverGreater(request'[q].version, merged'[request'[q].base])
    BY DEF RequestInv
  <2>1. q # p /\ request'[q] = request[q]
    BY <1>3 DEF AdmissionInv, AdmissionTypeOK
  <2>2. /\ request[q].base \in 0..n /\ request[q].from \in 0..request[q].base
        /\ request[q].step = "accepted" /\ request[q].base # 0 =>
             SemverGreater(request[q].version, merged[request[q].base])
    BY <2>1 DEF AdmissionInv, RequestInv
  <2>3. request[q].base \in 0..(n + 1) /\ (request[q].base # 0 => request[q].base \in 1..n)
    BY <1>2, <2>2
  <2> QED
    BY <1>4, <2>1, <2>2, <2>3
<1> QED
  BY <1>6, <1>7, <1>8 DEF AdmissionInv

\* The inductive invariant of the admission.
LEMMA AdmissionInvariance == AdmissionSpec => []AdmissionInv
<1>1. AdmissionInit => AdmissionInv
  <2> SUFFICES ASSUME AdmissionInit PROVE AdmissionInv
    OBVIOUS
  <2>1. [step |-> "none"] \in Idle /\ \A p \in Requests : request[p] = [step |-> "none"]
    BY DEF AdmissionInit, Idle
  <2>2. AdmissionTypeOK
    BY <2>1 DEF AdmissionInit, AdmissionTypeOK
  <2>3. RequestInv /\ VersionsIncrease
    BY <2>1 DEF AdmissionInit, RequestInv, VersionsIncrease
  <2> QED
    BY <2>2, <2>3 DEF AdmissionInv
<1>2. AdmissionInv /\ [AdmissionNext]_admissionVars => AdmissionInv'
  <2> SUFFICES ASSUME AdmissionInv, [AdmissionNext]_admissionVars PROVE AdmissionInv'
    OBVIOUS
  <2>1. CASE UNCHANGED admissionVars
    BY <2>1 DEF admissionVars, AdmissionInv, AdmissionTypeOK, RequestInv, VersionsIncrease
  <2>2. CASE AdmissionNext
    BY <2>2, PushInv, RefuseInv, AcceptInv, MergeInv DEF AdmissionNext
  <2> QED
    BY <2>1, <2>2
<1> QED
  BY <1>1, <1>2, PTL DEF AdmissionSpec

\* Every variable of Admission keeps its type.
THEOREM AdmissionTypeCorrect == AdmissionSpec => []AdmissionTypeOK
<1>1. AdmissionInv => AdmissionTypeOK
  BY DEF AdmissionInv
<1> QED
  BY <1>1, AdmissionInvariance, PTL

\* The versions of a package only ever increase.
THEOREM HistoryIncreases == AdmissionSpec => []VersionsIncrease
<1>1. AdmissionInv => VersionsIncrease
  BY DEF AdmissionInv
<1> QED
  BY <1>1, AdmissionInvariance, PTL
-----------------------------------------------------------------------------
(* The revocations of the catalog                                           *)

\* Nothing installs before the start-up has built its queue, and nothing runs between
\* sessions.
PhaseInv ==
  /\ on /\ op = None => startup.started
  /\ Mutates => on /\ startup.started
  /\ ~on => op = None /\ waiting = None /\ startup = NotStarted

\* What is still to be loaded is as it was when the queue was built, and no job that
\* runs is about it.
QueueInv ==
  \A a \in startup.queue :
    /\ record[a] # None /\ record[a] \notin queued /\ Present(a)
    /\ ~(Mutates /\ op.addon = a)

IInv == TypeOK /\ PhaseInv /\ QueueInv /\ RecordTellsTheDisk
-----------------------------------------------------------------------------
\* The kinds of jobs, and what is known of each.
LEMMA JobFacts ==
  ASSUME NEW job \in Jobs
  PROVE  /\ job.kind \in {"cache", "refresh", "install", "uninstall"}
         /\ job.kind \in {"cache", "refresh"} => job.repository \in Repositories
         /\ job.kind \in {"install", "uninstall"} => job.addon \in Addons
         /\ job.kind = "install" => job.digest \in Digests
BY DEF Jobs

LEMMA NewJobs ==
  /\ \A r \in Repositories : /\ [kind |-> "cache", repository |-> r] \in Jobs
                             /\ [kind |-> "refresh", repository |-> r] \in Jobs
  /\ \A a \in Addons, d \in Digests : [kind |-> "install", addon |-> a, digest |-> d] \in Jobs
  /\ \A a \in Addons : [kind |-> "uninstall", addon |-> a] \in Jobs
BY DEF Jobs

\* What a job that mutates leaves in the directory of its add-on.
LEMMA ResultType ==
  ASSUME TypeOK, Mutates PROVE op.addon \in Addons /\ Result \in Digest
<1>1. op \in Jobs /\ op.kind \in {"install", "uninstall"}
  BY DEF TypeOK, Mutates
<1> QED
  BY <1>1, JobFacts DEF Result, Digest

\* An adoption changes no record there is.
LEMMA AdoptedKeeps ==
  ASSUME NEW cats, record' \in Adopted(cats)
  PROVE  /\ record' \in [Addons -> Digest]
         /\ \A a \in Addons : record[a] # None => record'[a] = record[a]
BY DEF Adopted

\* Loading a catalog keeps the types, and changes records only of what it adopts.
LEMMA LoadRepositoryFacts ==
  ASSUME TypeOK, NEW r \in Repositories, NEW document \in Catalog,
         LoadRepository(r, document)
  PROVE  /\ catalog' \in [Repositories -> Catalog \cup {None}]
         /\ record' \in [Addons -> Digest]
         /\ adopted' \subseteq Addons /\ unrecorded' \subseteq Addons
         /\ \A a \in Addons : record[a] # None => record'[a] = record[a]
         /\ \A a \in Addons : a \in adopted \cup unrecorded => a \in adopted' \cup unrecorded'
         /\ \A a \in Addons : record'[a] # record[a] => a \in adopted'
<1>1. record' \in [Addons -> Digest] /\ \A a \in Addons : record[a] # None => record'[a] = record[a]
  BY AdoptedKeeps DEF LoadRepository
<1>2. catalog' \in [Repositories -> Catalog \cup {None}]
  BY DEF LoadRepository, TypeOK
<1>3. adopted' \subseteq Addons /\ unrecorded' \subseteq Addons
  BY DEF LoadRepository, TypeOK
<1>4. \A a \in Addons : record'[a] # record[a] => record[a] = None /\ record'[a] # None
  BY <1>1
<1>5. \A a \in Addons : record'[a] # record[a] => a \in adopted'
  BY <1>4 DEF LoadRepository
<1>6. \A a \in Addons : a \in adopted \cup unrecorded => a \in adopted' \cup unrecorded'
  BY <1>5 DEF LoadRepository
<1> QED
  BY <1>1, <1>2, <1>3, <1>5, <1>6

\* A step that leaves the disk and the queue alone and changes records only by adoption.
LEMMA RecordsStep ==
  ASSUME IInv, UNCHANGED <<addons, queued>>,
         startup'.queue \subseteq startup.queue,
         \A a \in Addons : record[a] # None => record'[a] = record[a],
         \A a \in Addons : record'[a] # record[a] => a \in adopted',
         \A a \in Addons : a \in adopted \cup unrecorded => a \in adopted' \cup unrecorded',
         \A a \in startup'.queue : ~(Mutates' /\ op'.addon = a)
  PROVE  QueueInv' /\ RecordTellsTheDisk'
<1>1. startup.queue \subseteq Addons
  BY DEF IInv, TypeOK
<1>2. QueueInv'
  BY <1>1 DEF IInv, QueueInv, addons, Present
<1>3. RecordTellsTheDisk'
  BY DEF IInv, RecordTellsTheDisk, addons, Present
<1> QED
  BY <1>2, <1>3
-----------------------------------------------------------------------------
LEMMA InitInv == Init => IInv
<1> SUFFICES ASSUME Init PROVE IInv
  OBVIOUS
<1>1. 0 \in 0..MaxPublish /\ 0 \in 0..MaxSessions
  BY ConstantsAssumption
<1>2. TypeOK
  BY <1>1 DEF Init, TypeOK, NotStarted, Digest
<1>3. PhaseInv /\ QueueInv /\ RecordTellsTheDisk
  BY DEF Init, PhaseInv, QueueInv, RecordTellsTheDisk, NotStarted, Mutates
<1> QED
  BY <1>2, <1>3 DEF IInv

LEMMA PublishInv == ASSUME IInv, Publish PROVE IInv'
<1>1. server' \in [Repositories -> Catalog]
  <2>1. server \in [Repositories -> Catalog] /\ Builtin \in Repositories
    BY ConstantsAssumption DEF IInv, TypeOK
  <2>2. ASSUME NEW a \in Addons, NEW d \in Digests,
               server' = [server EXCEPT ![Builtin].offers[a] = d]
        PROVE  server' \in [Repositories -> Catalog]
    BY <2>1, <2>2 DEF Catalog, Digest
  <2>3. ASSUME NEW d \in Digests, server' = [server EXCEPT ![Builtin].revoked = @ \cup {d}]
        PROVE  server' \in [Repositories -> Catalog]
    BY <2>1, <2>3 DEF Catalog
  <2> QED
    BY <2>2, <2>3 DEF Publish
<1>2. published' \in 0..MaxPublish
  BY ConstantsAssumption DEF IInv, TypeOK, Publish
<1>3. TypeOK'
  BY <1>1, <1>2 DEF IInv, TypeOK, Publish, addons, start, history
<1>4. PhaseInv' /\ QueueInv' /\ RecordTellsTheDisk'
  BY DEF IInv, PhaseInv, QueueInv, RecordTellsTheDisk, Publish, addons, start, history,
         Mutates, Present
<1> QED
  BY <1>3, <1>4 DEF IInv

LEMMA StartInv == ASSUME IInv, Start PROVE IInv'
<1>1. op' \in Jobs /\ op'.kind = "cache" /\ op' # None
  BY NewJobs, ConstantsAssumption, NoJobAssumption DEF Start
<1>2. TypeOK'
  <2>1. record' \in [Addons -> Digest]
    BY DEF IInv, TypeOK, Start, Digest
  <2>2. UNION {aside', adopted', unrecorded'} \subseteq Addons
    BY DEF IInv, TypeOK, Start
  <2> QED
    BY <1>1, <2>1, <2>2 DEF IInv, TypeOK, Start, catalogs, start
<1>3. PhaseInv'
  BY <1>1 DEF Start, PhaseInv, Mutates
<1>4. startup' = NotStarted
  BY DEF IInv, PhaseInv, Start, start
<1>5. QueueInv'
  BY <1>4 DEF QueueInv, NotStarted
<1>6. RecordTellsTheDisk'
  BY DEF IInv, TypeOK, RecordTellsTheDisk, Start, Present
<1> QED
  BY <1>2, <1>3, <1>5, <1>6 DEF IInv

LEMMA CacheCheckedInv == ASSUME IInv, CacheChecked PROVE IInv'
<1>1. op' \in Jobs /\ op'.kind = "refresh" /\ op' # None
  BY NewJobs, ConstantsAssumption, NoJobAssumption DEF CacheChecked
<1>2. /\ startup' \in [ready : BOOLEAN, started : BOOLEAN, queue : SUBSET Addons]
      /\ startup'.queue = startup.queue /\ startup'.started = startup.started
  BY DEF IInv, TypeOK, CacheChecked
<1>3. on
  BY DEF IInv, PhaseInv, CacheChecked
<1>4. /\ catalog' \in [Repositories -> Catalog \cup {None}] /\ record' \in [Addons -> Digest]
      /\ adopted' \subseteq Addons /\ unrecorded' \subseteq Addons
      /\ \A a \in Addons : record[a] # None => record'[a] = record[a]
      /\ \A a \in Addons : a \in adopted \cup unrecorded => a \in adopted' \cup unrecorded'
      /\ \A a \in Addons : record'[a] # record[a] => a \in adopted'
  <2>1. CASE cache # None /\ LoadRepository(Builtin, cache)
    <3>1. cache \in Catalog /\ Builtin \in Repositories
      BY <2>1, ConstantsAssumption DEF IInv, TypeOK
    <3> QED
      BY <2>1, <3>1, LoadRepositoryFacts DEF IInv
  <2>2. CASE Keep
    BY <2>2 DEF IInv, TypeOK, Keep, history
  <2> QED
    BY <2>1, <2>2 DEF CacheChecked
<1>5. TypeOK'
  BY <1>1, <1>2, <1>4 DEF IInv, TypeOK, CacheChecked, addons
<1>6. PhaseInv'
  BY <1>1, <1>3 DEF PhaseInv, CacheChecked, Mutates
<1>7. UNCHANGED <<addons, queued>> /\ ~Mutates'
  BY <1>1 DEF CacheChecked, Mutates
<1>8. QueueInv' /\ RecordTellsTheDisk'
  BY <1>2, <1>4, <1>7, RecordsStep
<1> QED
  BY <1>5, <1>6, <1>8 DEF IInv

LEMMA RefreshesInv == ASSUME IInv, Refreshes PROVE IInv'
<1>0. op \in Jobs /\ op.repository \in Repositories
  BY JobFacts DEF IInv, TypeOK, Refreshes
<1>1. op' = None /\ startup.started /\ on
  BY DEF IInv, PhaseInv, Refreshes
<1>2. server[op.repository] \in Catalog /\ server[Builtin] \in Catalog
  BY <1>0, ConstantsAssumption DEF IInv, TypeOK
<1>3. cache' \in Catalog \cup {None}
  BY <1>2 DEF IInv, TypeOK, Refreshes
<1>4. /\ catalog' \in [Repositories -> Catalog \cup {None}] /\ record' \in [Addons -> Digest]
      /\ adopted' \subseteq Addons /\ unrecorded' \subseteq Addons
      /\ \A a \in Addons : record[a] # None => record'[a] = record[a]
      /\ \A a \in Addons : a \in adopted \cup unrecorded => a \in adopted' \cup unrecorded'
      /\ \A a \in Addons : record'[a] # record[a] => a \in adopted'
  <2>1. CASE LoadRepository(op.repository, server[op.repository])
    BY <1>0, <1>2, <2>1, LoadRepositoryFacts DEF IInv
  <2>2. CASE Keep
    BY <2>2 DEF IInv, TypeOK, Keep, history
  <2> QED
    BY <2>1, <2>2 DEF Refreshes
<1>5. TypeOK'
  BY <1>1, <1>3, <1>4 DEF IInv, TypeOK, Refreshes, addons, start
<1>6. PhaseInv'
  BY <1>1 DEF PhaseInv, Refreshes, start, Mutates
<1>7. UNCHANGED <<addons, queued, startup>> /\ ~Mutates'
  BY <1>1 DEF Refreshes, Mutates, start
<1>8. QueueInv' /\ RecordTellsTheDisk'
  BY <1>4, <1>7, RecordsStep
<1> QED
  BY <1>5, <1>6, <1>8 DEF IInv

\* A job that starts is about no add-on that is still to be loaded.
LEMMA StartJobInv ==
  ASSUME IInv, NEW job \in Jobs, StartJob(job),
         job.kind \in {"install", "uninstall"} => job.addon \notin startup.queue
  PROVE  IInv'
<1>1. TypeOK'
  BY DEF IInv, TypeOK, StartJob, catalogs, addons, start, history
<1>2. PhaseInv'
  BY DEF IInv, PhaseInv, StartJob, start, Mutates
<1>3. UNCHANGED <<addons, queued, startup, record, history>>
      /\ \A a \in startup.queue : ~(Mutates' /\ op'.addon = a)
  BY DEF StartJob, start, Mutates
<1>4. QueueInv' /\ RecordTellsTheDisk'
  BY <1>3, RecordsStep DEF history
<1> QED
  BY <1>1, <1>2, <1>4 DEF IInv

LEMMA InstallInv ==
  ASSUME IInv, NEW r \in Repositories, NEW a \in Addons, Install(a, r) PROVE IInv'
<1> DEFINE job == [kind |-> "install", addon |-> a, digest |-> catalog[r].offers[a]]
<1>1. catalog[r] \in Catalog /\ catalog[r].offers[a] # None
  BY DEF IInv, TypeOK, Install
<1>2. catalog[r].offers[a] \in Digests
  BY <1>1 DEF Catalog, Digest
<1>3. job \in Jobs /\ job.addon = a
  BY <1>2, NewJobs
<1>4. a \notin startup.queue
  BY DEF Install, Busy, IInv, QueueInv
<1>5. StartJob(job)
  BY DEF Install
<1> HIDE DEF job
<1> QED
  BY <1>3, <1>4, <1>5, StartJobInv

LEMMA UninstallInv == ASSUME IInv, NEW a \in Addons, Uninstall(a) PROVE IInv'
<1> DEFINE job == [kind |-> "uninstall", addon |-> a]
<1>1. job \in Jobs /\ job.addon = a /\ StartJob(job) /\ a \notin startup.queue
  BY NewJobs DEF Uninstall, Busy
<1> HIDE DEF job
<1> QED
  BY <1>1, StartJobInv

LEMMA RefreshInv == ASSUME IInv, NEW r \in Repositories, Refresh(r) PROVE IInv'
<1> DEFINE job == [kind |-> "refresh", repository |-> r]
<1>1. job \in Jobs /\ job.kind = "refresh" /\ StartJob(job)
  BY NewJobs DEF Refresh
<1> HIDE DEF job
<1> QED
  BY <1>1, StartJobInv

\* A job that ends, recorded or not, changes an add-on that is not to be loaded.
LEMMA JobEndsInv == ASSUME IInv, Completes \/ Forgotten PROVE IInv'
<1>0. Mutates /\ op' = None
  BY DEF Completes, Forgotten
<1>1. op.addon \in Addons /\ Result \in Digest /\ on /\ startup.started
  BY <1>0, ResultType DEF IInv, PhaseInv
<1>2. UNCHANGED <<catalogs, aside, start, on, sessions>>
  BY DEF Completes, Forgotten
<1>3. /\ disk' \in [Addons -> Digest] /\ record' \in [Addons -> Digest]
      /\ adopted' \subseteq Addons /\ unrecorded' \subseteq Addons
      /\ \A a \in Addons : a # op.addon =>
           /\ disk'[a] = disk[a] /\ record'[a] = record[a]
           /\ a \in adopted \cup unrecorded => a \in adopted' \cup unrecorded'
      /\ \/ record'[op.addon] = disk'[op.addon] \/ op.addon \in unrecorded'
         \/ /\ record'[op.addon] = record[op.addon] /\ disk'[op.addon] = disk[op.addon]
            /\ adopted' = adopted /\ unrecorded' = unrecorded
  <2>1. /\ disk \in [Addons -> Digest] /\ record \in [Addons -> Digest]
        /\ adopted \subseteq Addons /\ unrecorded \subseteq Addons
    BY DEF IInv, TypeOK
  <2>2. CASE UNCHANGED <<disk, record, adopted, unrecorded>>
    BY <2>1, <2>2
  <2>3. CASE /\ disk' = [disk EXCEPT ![op.addon] = Result]
             /\ record' = [record EXCEPT ![op.addon] = Result]
             /\ adopted' = adopted \ {op.addon} /\ unrecorded' = unrecorded \ {op.addon}
    <3>1. record'[op.addon] = Result /\ disk'[op.addon] = Result
      BY <1>1, <2>1, <2>3
    <3> QED
      BY <1>1, <2>1, <2>3, <3>1
  <2>4. CASE /\ disk' = [disk EXCEPT ![op.addon] = Result]
             /\ unrecorded' = unrecorded \cup {op.addon}
             /\ UNCHANGED <<record, adopted>>
    BY <1>1, <2>1, <2>4
  <2> QED
    BY <2>2, <2>3, <2>4 DEF Completes, Forgotten, history
<1>4. TypeOK'
  BY <1>0, <1>2, <1>3 DEF IInv, TypeOK, catalogs, start
<1>5. PhaseInv' /\ ~Mutates'
  BY <1>0, <1>1, <1>2 DEF PhaseInv, Mutates, start
<1>6. QueueInv'
  <2> SUFFICES ASSUME NEW a \in startup'.queue
               PROVE  record'[a] # None /\ record'[a] \notin queued' /\ Present(a)'
    BY <1>5 DEF QueueInv
  <2>1. a \in startup.queue /\ a \in Addons
    BY <1>2 DEF start, IInv, TypeOK
  <2>2. a # op.addon
    BY <1>0, <2>1 DEF IInv, QueueInv
  <2> QED
    BY <1>2, <1>3, <2>1, <2>2 DEF IInv, QueueInv, Present, start
<1>7. RecordTellsTheDisk'
  <2> SUFFICES ASSUME NEW a \in Addons, record'[a] # None, Present(a)'
               PROVE  record'[a] = disk'[a] \/ a \in adopted' \cup unrecorded'
    BY DEF RecordTellsTheDisk
  <2>1. CASE a = op.addon
    BY <1>2, <1>3, <2>1 DEF IInv, RecordTellsTheDisk, Present
  <2>2. CASE a # op.addon
    BY <1>2, <1>3, <2>2 DEF IInv, RecordTellsTheDisk, Present
  <2> QED
    BY <2>1, <2>2
<1> QED
  BY <1>4, <1>5, <1>6, <1>7 DEF IInv

LEMMA BeginStartupInv == ASSUME IInv, BeginStartup PROVE IInv'
<1>1. PICK choice \in SUBSET Addons :
        startup' = [startup EXCEPT !.started = TRUE, !.queue = Queue(choice)]
  BY DEF BeginStartup
<1>2. /\ startup' \in [ready : BOOLEAN, started : BOOLEAN, queue : SUBSET Addons]
      /\ startup'.queue = Queue(choice) /\ startup'.started
  BY <1>1 DEF IInv, TypeOK, Queue
<1>3. Revoked \subseteq Digests
  BY ConstantsAssumption DEF IInv, TypeOK, Revoked, Catalog
<1>4. on /\ ~Mutates
  BY DEF IInv, PhaseInv, BeginStartup, NotStarted
<1>5. TypeOK'
  BY <1>2, <1>3 DEF IInv, TypeOK, BeginStartup, catalogs, addons, history
<1>6. PhaseInv'
  BY <1>2, <1>4 DEF IInv, PhaseInv, BeginStartup, Mutates
<1>7. QueueInv'
  BY <1>2, <1>4 DEF QueueInv, Queue, BeginStartup, addons, Present, Mutates
<1>8. RecordTellsTheDisk'
  BY DEF IInv, RecordTellsTheDisk, BeginStartup, addons, history, Present
<1> QED
  BY <1>5, <1>6, <1>7, <1>8 DEF IInv

LEMMA LoadNextInv == ASSUME IInv, LoadNext PROVE IInv'
<1>1. PICK a \in startup.queue :
        waiting' \in {a, None} /\ startup' = [startup EXCEPT !.queue = @ \ {a}]
  BY DEF LoadNext
<1>2. /\ startup' \in [ready : BOOLEAN, started : BOOLEAN, queue : SUBSET Addons]
      /\ startup'.queue \subseteq startup.queue /\ startup'.started /\ a \in Addons
  BY <1>1 DEF IInv, TypeOK, LoadNext
<1>3. on
  BY <1>1 DEF IInv, PhaseInv, LoadNext, NotStarted
<1>4. TypeOK'
  BY <1>1, <1>2 DEF IInv, TypeOK, LoadNext, catalogs, addons, history
<1>5. PhaseInv'
  BY <1>2, <1>3 DEF IInv, PhaseInv, LoadNext, Mutates
<1>6. UNCHANGED <<addons, queued, record, history, op>>
      /\ \A b \in startup'.queue : ~(Mutates' /\ op'.addon = b)
  BY <1>2 DEF LoadNext, IInv, QueueInv, Mutates
<1>7. QueueInv' /\ RecordTellsTheDisk'
  BY <1>2, <1>6, RecordsStep DEF history
<1> QED
  BY <1>4, <1>5, <1>7 DEF IInv

LEMMA LoadedInv == ASSUME IInv, Loaded PROVE IInv'
<1>1. TypeOK'
  BY DEF IInv, TypeOK, Loaded, catalogs, addons, history
<1>2. PhaseInv' /\ QueueInv' /\ RecordTellsTheDisk'
  BY DEF IInv, PhaseInv, QueueInv, RecordTellsTheDisk, Loaded, addons, history, Mutates, Present
<1> QED
  BY <1>1, <1>2 DEF IInv

LEMMA EndInv == ASSUME IInv, End PROVE IInv'
<1>1. Mutates => op.addon \in Addons /\ Result \in Digest
  BY ResultType DEF IInv
<1>2. /\ disk' \in [Addons -> Digest] /\ aside' \subseteq Addons /\ unrecorded' \subseteq Addons
      /\ aside \subseteq aside' /\ unrecorded \subseteq unrecorded'
      /\ \A a \in Addons : disk'[a] = disk[a] \/ a \in unrecorded'
  BY <1>1 DEF End, IInv, TypeOK
<1>3. sessions' \in 0..MaxSessions
  BY ConstantsAssumption DEF IInv, TypeOK, End
<1>4. TypeOK'
  BY <1>2, <1>3 DEF IInv, TypeOK, End, NotStarted
<1>5. PhaseInv' /\ QueueInv'
  BY DEF PhaseInv, QueueInv, End, NotStarted, Mutates
<1>6. RecordTellsTheDisk'
  <2> SUFFICES ASSUME NEW a \in Addons, record'[a] # None, Present(a)', a \notin unrecorded'
               PROVE  record'[a] = disk'[a] \/ a \in adopted'
    BY DEF RecordTellsTheDisk
  <2>1. disk'[a] = disk[a] /\ record' = record /\ adopted' = adopted
    BY <1>2 DEF End
  <2>2. Present(a) /\ a \notin unrecorded
    BY <1>2, <2>1 DEF Present
  <2> QED
    BY <2>1, <2>2 DEF IInv, RecordTellsTheDisk
<1> QED
  BY <1>4, <1>5, <1>6 DEF IInv
-----------------------------------------------------------------------------
LEMMA NextInv == ASSUME IInv, Next PROVE IInv'
BY PublishInv, StartInv, CacheCheckedInv, RefreshesInv, JobEndsInv, BeginStartupInv, LoadNextInv,
   LoadedInv, EndInv, RefreshInv, InstallInv, UninstallInv DEF Next

\* The inductive invariant of records, jobs and the start-up.
LEMMA Invariance == Spec => []IInv
<1>1. IInv /\ UNCHANGED vars => IInv'
  <2> SUFFICES ASSUME IInv, UNCHANGED vars PROVE IInv'
    OBVIOUS
  <2> USE DEF vars, catalogs, addons, start, history, IInv
  <2>1. TypeOK'
    BY DEF TypeOK
  <2>2. PhaseInv' /\ QueueInv' /\ RecordTellsTheDisk'
    BY DEF PhaseInv, QueueInv, RecordTellsTheDisk, Mutates, Present
  <2> QED
    BY <2>1, <2>2
<1>2. IInv /\ [Next]_vars => IInv'
  BY <1>1, NextInv
<1> QED
  BY <1>2, InitInv, PTL DEF Spec

\* Every variable of Revocations keeps its type.
THEOREM TypeCorrect == Spec => []TypeOK
<1>1. IInv => TypeOK
  BY DEF IInv
<1> QED
  BY <1>1, Invariance, PTL

\* A record that is not that of the artifact on the disk was adopted, or its add-on
\* changed by a job whose end was not recorded.
THEOREM RecordsAreTrue == Spec => []RecordTellsTheDisk
<1>1. IInv => RecordTellsTheDisk
  BY DEF IInv
<1> QED
  BY <1>1, Invariance, PTL

\* Of those alone, a start-up may load one that was known to be revoked.
THEOREM RevokedIsNotLoaded == Spec => LoadsRevokedOnlyUnrecognised
<1> DEFINE A == \A a \in Addons : waiting' = a /\ waiting # a =>
                  disk[a] \notin queued \/ a \in adopted \cup unrecorded
<1>1. IInv /\ [Next]_vars => [A]_vars
  <2> SUFFICES ASSUME IInv, Next, NEW a \in Addons, waiting' = a, waiting # a
               PROVE  disk[a] \notin queued \/ a \in adopted \cup unrecorded
    OBVIOUS
  <2>1. a # None
    BY ConstantsAssumption
  <2>2. LoadNext
    BY <2>1 DEF Next, Publish, Start, CacheChecked, Refreshes, Completes, Forgotten, BeginStartup,
                Loaded, End, Refresh, Install, Uninstall, StartJob, start
  <2>3. a \in startup.queue
    BY <2>1, <2>2 DEF LoadNext
  <2>4. record[a] # None /\ record[a] \notin queued /\ Present(a)
    BY <2>3 DEF IInv, QueueInv
  <2> QED
    BY <2>4 DEF IInv, RecordTellsTheDisk
<1>2. Spec => [][A]_vars
  BY <1>1, Invariance, PTL DEF Spec
<1> QED
  BY <1>2 DEF LoadsRevokedOnlyUnrecognised
=============================================================================
