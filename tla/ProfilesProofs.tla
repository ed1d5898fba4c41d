--------------------------- MODULE ProfilesProofs ---------------------------
(***************************************************************************)
(* Theorems of Profiles: the profile document is well formed after every   *)
(* edit, save, crash and restart, for any add-ons, names and bounds.       *)
(*                                                                         *)
(* The first part states what the operators on lists give for every list:  *)
(* a number that is free exists, the positions of a set are numbered       *)
(* without gaps, and normalizing a document that was saved changes nothing *)
(* but what is no longer installed.                                        *)
(***************************************************************************)
EXTENDS Profiles, TLAPS, FiniteSetTheorems, SequenceTheorems

\* A set of numbers that is not empty has a least one: what a loop that counts up
\* from the first candidate ends with.
LEMMA LeastExists ==
  ASSUME NEW S \in SUBSET Nat, S # {}
  PROVE  Least(S) \in S /\ \A m \in S : Least(S) <= m
<1> DEFINE R == OpToRel(<, Nat)
<1>1. IsWellFoundedOn(R, Nat)
  BY NatLessThanWellFounded
<1>2. \A x, y \in Nat : <<x, y>> \in R <=> x < y
  BY DEF OpToRel
<1> HIDE DEF R
<1>3. PICK n \in S : \A m \in S : ~(<<m, n>> \in R)
  BY <1>1, WFMin
<1>4. ASSUME NEW m \in S PROVE n <= m
  <2>1. n \in Nat /\ m \in Nat
    OBVIOUS
  <2>2. ~(m < n)
    BY <1>2, <1>3, <2>1
  <2> QED
    BY <2>1, <2>2
<1> QED
  BY <1>4 DEF Least

\* Any numbering of n things leaves a number free among n + 1.
LEMMA FreeNumber ==
  ASSUME NEW n \in Nat, NEW f, NEW a \in Nat
  PROVE  \E m \in a..(a + n) : \A i \in 1..n : f[i] # m
<1> SUFFICES ASSUME \A m \in a..(a + n) : \E i \in 1..n : f[i] = m PROVE FALSE
  OBVIOUS
<1> DEFINE g == [m \in a..(a + n) |-> CHOOSE i \in 1..n : f[i] = m]
<1>1. \A m \in a..(a + n) : g[m] \in 1..n /\ f[g[m]] = m
  OBVIOUS
<1>2. g \in [a..(a + n) -> 1..n]
  BY <1>1
<1>3. /\ IsFiniteSet(a..(a + n)) /\ Cardinality(a..(a + n)) = n + 1
      /\ IsFiniteSet(1..n) /\ Cardinality(1..n) = n
  BY FS_Interval
<1>4. Cardinality(1..n) < Cardinality(a..(a + n))
  BY <1>3
<1> HIDE DEF g
<1>5. PICK x, y \in a..(a + n) : x # y /\ g[x] = g[y]
  BY <1>2, <1>3, <1>4, FS_PigeonHole, SMTT(20)
<1> QED
  BY <1>1, <1>5
-----------------------------------------------------------------------------
(* Lists: the elements at some of the positions                             *)

Below(K, i) == {j \in K : j < i}

\* The positions in K are numbered from 1 on, in their order and without gaps.
LEMMA PositionsNumbered ==
  ASSUME NEW n \in Nat, NEW K \in SUBSET (1..n)
  PROVE  /\ Cardinality(K) \in Nat
         /\ \A k \in 1..Cardinality(K) :
              Position(K, k) \in K /\ Cardinality(Below(K, Position(K, k))) = k - 1
         /\ \A k, l \in 1..Cardinality(K) : Position(K, k) = Position(K, l) => k = l
         /\ \A i \in K : \E k \in 1..Cardinality(K) : Position(K, k) = i
<1> DEFINE c == Cardinality(K)
           f == [i \in K |-> Cardinality(Below(K, i)) + 1]
<1>1. IsFiniteSet(K) /\ c \in Nat
  <2>1. IsFiniteSet(1..n)
    BY FS_Interval
  <2>2. IsFiniteSet(K)
    BY <2>1, FS_Subset
  <2> QED
    BY <2>2, FS_CardinalityType
<1>2. ASSUME NEW i \in K
      PROVE  /\ Below(K, i) \in SUBSET K /\ i \notin Below(K, i)
             /\ IsFiniteSet(Below(K, i)) /\ Cardinality(Below(K, i)) \in Nat
             /\ Cardinality(Below(K, i)) < c
  <2>1. i \in Nat /\ Below(K, i) \in SUBSET K /\ i \notin Below(K, i)
    BY DEF Below
  <2>2. Below(K, i) # K
    BY <2>1
  <2>3. /\ IsFiniteSet(Below(K, i)) /\ Cardinality(Below(K, i)) <= c
        /\ Cardinality(Below(K, i)) # c
    BY <1>1, <2>1, <2>2, FS_Subset
  <2>4. Cardinality(Below(K, i)) \in Nat
    BY <2>3, FS_CardinalityType
  <2> QED
    BY <1>1, <2>1, <2>3, <2>4
<1>3. ASSUME NEW i \in K, NEW j \in K, i < j
      PROVE  Cardinality(Below(K, i)) < Cardinality(Below(K, j))
  <2>1. /\ Below(K, i) \in SUBSET Below(K, j) /\ i \in Below(K, j)
        /\ i \notin Below(K, i)
    <3>1. i \in Nat /\ j \in Nat
      OBVIOUS
    <3>2. ASSUME NEW x \in Below(K, i) PROVE x \in Below(K, j)
      <4>1. x \in K /\ x \in Nat /\ x < i
        BY DEF Below
      <4>2. x < j
        BY <1>3, <3>1, <4>1
      <4> QED
        BY <4>1, <4>2 DEF Below
    <3>3. i \in Below(K, j)
      BY <1>3 DEF Below
    <3> QED
      BY <1>2, <3>2, <3>3
  <2>2. /\ Cardinality(Below(K, i)) <= Cardinality(Below(K, j))
        /\ Cardinality(Below(K, i)) # Cardinality(Below(K, j))
    BY <1>2, <2>1, FS_Subset
  <2> QED
    BY <1>2, <2>2
<1>4. f \in [K -> 1..c]
  BY <1>1, <1>2
<1>5. \A i, j \in K : f[i] = f[j] => i = j
  <2> SUFFICES ASSUME NEW i \in K, NEW j \in K, f[i] = f[j], i # j PROVE FALSE
    OBVIOUS
  <2>1. Cardinality(Below(K, i)) = Cardinality(Below(K, j))
    BY <1>2
  <2>2. i < j \/ j < i
    OBVIOUS
  <2> QED
    BY <1>2, <1>3, <2>1, <2>2
<1> HIDE DEF f
<1>6. f \in Injection(K, 1..c)
  BY <1>4, <1>5 DEF Injection, IsInjective
<1>7. IsFiniteSet(1..c) /\ Cardinality(1..c) = c
  BY <1>1, FS_Interval
<1>8. f \in Surjection(K, 1..c)
  BY <1>6, <1>7, FS_Injection
<1>9. \A k \in 1..c : \E i \in K : f[i] = k
  BY <1>8 DEF Surjection
<1>10. ASSUME NEW k \in 1..c
       PROVE  Position(K, k) \in K /\ Cardinality(Below(K, Position(K, k))) = k - 1
  <2>1. PICK i \in K : f[i] = k
    BY <1>9
  <2>2. Cardinality(Below(K, i)) = k - 1
    BY <1>2, <2>1 DEF f
  <2> QED
    BY <2>2 DEF Position, Below
<1>11. ASSUME NEW i \in K PROVE \E k \in 1..c : Position(K, k) = i
  <2>1. f[i] \in 1..c /\ Cardinality(Below(K, i)) = f[i] - 1
    BY <1>2, <1>4 DEF f
  <2>2. /\ Position(K, f[i]) \in K
        /\ Cardinality(Below(K, Position(K, f[i]))) = f[i] - 1
    BY <1>10, <2>1
  <2>3. f[Position(K, f[i])] = f[i]
    BY <1>2, <2>1, <2>2 DEF f
  <2> QED
    BY <1>5, <2>1, <2>2, <2>3
<1>12. \A k, l \in 1..c : Position(K, k) = Position(K, l) => k = l
  <2> SUFFICES ASSUME NEW k \in 1..c, NEW l \in 1..c, Position(K, k) = Position(K, l)
               PROVE  k = l
    OBVIOUS
  <2>1. k - 1 = l - 1
    BY <1>10
  <2> QED
    BY <1>1, <2>1
<1> QED
  BY <1>1, <1>10, <1>11, <1>12

\* All the positions are numbered by themselves.
LEMMA PositionOfAll ==
  ASSUME NEW n \in Nat
  PROVE  Cardinality(1..n) = n /\ \A k \in 1..n : Position(1..n, k) = k
<1>1. \A m \in Nat : Cardinality(1..m) = m
  BY FS_Interval
<1>2. ASSUME NEW k \in 1..n PROVE Position(1..n, k) = k
  <2>1. /\ Position(1..n, k) \in 1..n
        /\ Cardinality(Below(1..n, Position(1..n, k))) = k - 1
    BY <1>1, PositionsNumbered
  <2>2. Below(1..n, Position(1..n, k)) = 1..(Position(1..n, k) - 1)
    BY <2>1 DEF Below
  <2>3. Cardinality(1..(Position(1..n, k) - 1)) = Position(1..n, k) - 1
    BY <1>1, <2>1
  <2> QED
    BY <2>1, <2>2, <2>3
<1> QED
  BY <1>1, <1>2

\* A function on the first n numbers is a list of length n.
LEMMA FunctionIsList ==
  ASSUME NEW E, NEW n \in Nat, NEW f \in [1..n -> E]
  PROVE  f \in Seq(E) /\ Len(f) = n
<1>1. f \in Seq(E)
  BY SeqDef
<1>2. Len(f) \in Nat /\ 1..Len(f) = 1..n
  BY <1>1, LenProperties
<1>3. \A m \in Nat : Cardinality(1..m) = m
  BY PositionOfAll
<1> QED
  BY <1>1, <1>2, <1>3

\* The elements at some positions: a list of as many, each from a position of its own.
LEMMA AtProperties ==
  ASSUME NEW E, NEW s \in Seq(E), NEW K \in SUBSET (DOMAIN s)
  PROVE  /\ At(s, K) \in Seq(E) /\ Cardinality(K) \in Nat
         /\ DOMAIN At(s, K) = 1..Cardinality(K) /\ Len(At(s, K)) = Cardinality(K)
         /\ \A k \in DOMAIN At(s, K) :
              Position(K, k) \in K /\ At(s, K)[k] = s[Position(K, k)]
         /\ \A k, l \in DOMAIN At(s, K) : Position(K, k) = Position(K, l) => k = l
         /\ \A i \in K : \E k \in DOMAIN At(s, K) : Position(K, k) = i
<1>1. Len(s) \in Nat /\ DOMAIN s = 1..Len(s) /\ \A i \in K : s[i] \in E
  BY LenProperties, ElementOfSeq
<1>2. /\ Cardinality(K) \in Nat
      /\ \A k \in 1..Cardinality(K) : Position(K, k) \in K
      /\ \A k, l \in 1..Cardinality(K) : Position(K, k) = Position(K, l) => k = l
      /\ \A i \in K : \E k \in 1..Cardinality(K) : Position(K, k) = i
  BY <1>1, PositionsNumbered
<1>3. /\ DOMAIN At(s, K) = 1..Cardinality(K)
      /\ \A k \in 1..Cardinality(K) : At(s, K)[k] = s[Position(K, k)]
  BY DEF At
<1>4. At(s, K) \in Seq(E) /\ Len(At(s, K)) = Cardinality(K)
  <2>1. At(s, K) \in [1..Cardinality(K) -> E]
    BY <1>1, <1>2 DEF At
  <2> QED
    BY <1>2, <2>1, FunctionIsList
<1> QED
  BY <1>2, <1>3, <1>4

\* Keeping every position keeps the list.
LEMMA AtAll ==
  ASSUME NEW E, NEW s \in Seq(E)
  PROVE  At(s, DOMAIN s) = s
<1>1. Len(s) \in Nat /\ DOMAIN s = 1..Len(s)
  BY LenProperties
<1>2. /\ At(s, DOMAIN s) \in Seq(E) /\ Len(At(s, DOMAIN s)) = Len(s)
      /\ \A k \in 1..Len(s) : At(s, DOMAIN s)[k] = s[k]
  BY <1>1, AtProperties, PositionOfAll
<1> QED
  BY <1>2, SeqEqual
-----------------------------------------------------------------------------
(* The add-ons of a profile                                                 *)

Ids(addons) == {addons[i].id : i \in DOMAIN addons}
Single(addons) == \A i, j \in DOMAIN addons : addons[i].id = addons[j].id => i = j
AutosIn(addons, S) == \A i \in DOMAIN addons : addons[i].auto => addons[i].id \in S

\* What the list of a profile is to be while inst are the add-ons installed.
ListSound(addons, inst) ==
  /\ addons \in Seq(Entries) /\ Single(addons)
  /\ inst \subseteq Ids(addons) /\ AutosIn(addons, inst \ {VanaHub})

\* An entry is determined by its id and its choice.
LEMMA EntryFields ==
  /\ \A a \in Addons, b \in BOOLEAN :
       Entry(a, b) \in Entries /\ Entry(a, b).id = a /\ Entry(a, b).auto = b
  /\ \A e \in Entries :
       e.id \in Addons /\ e.auto \in BOOLEAN /\ e = Entry(e.id, e.auto)
BY DEF Entry, Entries

\* The entries of a list are entries.
LEMMA ListEntries ==
  ASSUME NEW addons \in Seq(Entries)
  PROVE  /\ Len(addons) \in Nat /\ DOMAIN addons = 1..Len(addons)
         /\ \A i \in DOMAIN addons :
              /\ addons[i] \in Entries /\ addons[i].id \in Addons
              /\ addons[i].auto \in BOOLEAN
         /\ Ids(addons) \subseteq Addons
<1>1. Len(addons) \in Nat /\ DOMAIN addons = 1..Len(addons)
  BY LenProperties
<1>2. \A i \in DOMAIN addons : addons[i] \in Entries
  BY <1>1, ElementOfSeq
<1> QED
  BY <1>1, <1>2, EntryFields DEF Ids

\* No add-on is listed twice: there are as many listed as the list is long.
LEMMA SingleCounts ==
  ASSUME NEW p \in Profile, Single(p.addons)
  PROVE  Cardinality(Listed(p)) = Len(p.addons)
<1> DEFINE s == p.addons
           f == [i \in DOMAIN s |-> s[i].id]
<1>1. s \in Seq(Entries)
  BY DEF Profile
<1>2. Len(s) \in Nat /\ DOMAIN s = 1..Len(s)
  BY <1>1, ListEntries
<1>3. Listed(p) = {f[i] : i \in DOMAIN s}
  BY DEF Listed
<1>4. f \in Surjection(DOMAIN s, Listed(p)) /\ f \in Injection(DOMAIN s, Listed(p))
  BY <1>3 DEF Surjection, Injection, IsInjective, Single
<1>5. IsFiniteSet(DOMAIN s) /\ Cardinality(DOMAIN s) = Len(s)
  <2>1. IsFiniteSet(1..Len(s)) /\ Cardinality(1..Len(s)) = Len(s)
    BY <1>2, FS_Interval, PositionOfAll
  <2> QED
    BY <1>2, <2>1
<1> QED
  <2> HIDE DEF f, s
  <2>1. Cardinality(Listed(p)) = Cardinality(DOMAIN s)
    BY <1>4, <1>5, FS_Surjection
  <2> QED
    BY <1>5, <2>1 DEF s

\* Two lists with no add-on in common, one after the other.
LEMMA ConcatLists ==
  ASSUME NEW a \in Seq(Entries), NEW b \in Seq(Entries), Single(a), Single(b),
         Ids(a) \cap Ids(b) = {}
  PROVE  /\ a \o b \in Seq(Entries) /\ Single(a \o b)
         /\ Ids(a \o b) = Ids(a) \cup Ids(b)
         /\ \A S : AutosIn(a, S) /\ AutosIn(b, S) => AutosIn(a \o b, S)
<1> DEFINE c == a \o b
           m == Len(a)
           n == Len(b)
<1>1. /\ m \in Nat /\ DOMAIN a = 1..m /\ n \in Nat /\ DOMAIN b = 1..n
  BY ListEntries
<1>2. /\ c \in Seq(Entries) /\ Len(c) = m + n
      /\ \A i \in 1..(m + n) : c[i] = IF i <= m THEN a[i] ELSE b[i - m]
  BY ConcatProperties
<1>3. DOMAIN c = 1..(m + n)
  BY <1>2, ListEntries
<1>4. \A i \in DOMAIN c : \/ i \in DOMAIN a /\ c[i] = a[i]
                          \/ i - m \in DOMAIN b /\ c[i] = b[i - m]
  BY <1>1, <1>2, <1>3
<1>5. /\ \A i \in DOMAIN a : i \in DOMAIN c /\ c[i] = a[i]
      /\ \A i \in DOMAIN b : i + m \in DOMAIN c /\ c[i + m] = b[i]
  BY <1>1, <1>2, <1>3
<1>6. Single(c)
  <2> SUFFICES ASSUME NEW i \in DOMAIN c, NEW j \in DOMAIN c, c[i].id = c[j].id
               PROVE  i = j
    BY DEF Single
  <2>1. i \in Int /\ j \in Int
    BY <1>1, <1>3
  <2>2. CASE i \in DOMAIN a /\ c[i] = a[i] /\ j \in DOMAIN a /\ c[j] = a[j]
    BY <2>2 DEF Single
  <2>3. CASE i - m \in DOMAIN b /\ c[i] = b[i - m] /\ j - m \in DOMAIN b /\ c[j] = b[j - m]
    <3>1. i - m = j - m
      BY <2>3 DEF Single
    <3> QED
      BY <1>1, <2>1, <3>1
  <2>4. CASE i \in DOMAIN a /\ c[i] = a[i] /\ j - m \in DOMAIN b /\ c[j] = b[j - m]
    BY <2>4 DEF Ids
  <2>5. CASE i - m \in DOMAIN b /\ c[i] = b[i - m] /\ j \in DOMAIN a /\ c[j] = a[j]
    BY <2>5 DEF Ids
  <2> QED
    BY <1>4, <2>2, <2>3, <2>4, <2>5
<1> HIDE DEF c, m, n
<1>7. Ids(c) = Ids(a) \cup Ids(b)
  BY <1>4, <1>5 DEF Ids
<1>8. \A S : AutosIn(a, S) /\ AutosIn(b, S) => AutosIn(c, S)
  BY <1>4 DEF AutosIn
<1> QED
  BY <1>2, <1>6, <1>7, <1>8 DEF c

\* sorted_installed_ids lists every id of the set, and each once.
LEMMA SortedIdsProperties ==
  ASSUME NEW S \in SUBSET Addons
  PROVE  /\ SortedIds(S) \in Seq(Addons)
         /\ {SortedIds(S)[i] : i \in DOMAIN SortedIds(S)} = S
         /\ \A i, j \in DOMAIN SortedIds(S) : SortedIds(S)[i] = SortedIds(S)[j] => i = j
<1> DEFINE K == {i \in DOMAIN Order : Order[i] \in S}
           s == SortedIds(S)
<1>1. Order \in Seq(Addons) /\ K \in SUBSET DOMAIN Order
  BY ConstantsAssumption
<1>2. s = At(Order, K)
  BY DEF SortedIds
<1>3. /\ At(Order, K) \in Seq(Addons)
      /\ \A k \in DOMAIN At(Order, K) :
           Position(K, k) \in K /\ At(Order, K)[k] = Order[Position(K, k)]
      /\ \A k, l \in DOMAIN At(Order, K) : Position(K, k) = Position(K, l) => k = l
      /\ \A i \in K : \E k \in DOMAIN At(Order, K) : Position(K, k) = i
  <2> HIDE DEF K
  <2> QED
    BY <1>1, AtProperties
<1>4. \A a \in S : \E i \in K : Order[i] = a
  BY DEF Addons
<1>5. {s[i] : i \in DOMAIN s} = S
  <2>1. ASSUME NEW a \in S PROVE \E k \in DOMAIN s : s[k] = a
    <3>1. PICK i \in K : Order[i] = a
      BY <1>4
    <3>2. PICK k \in DOMAIN At(Order, K) : Position(K, k) = i
      BY <1>3
    <3> QED
      BY <1>2, <1>3, <3>1, <3>2
  <2>2. ASSUME NEW k \in DOMAIN s PROVE s[k] \in S
    BY <1>2, <1>3
  <2> QED
    BY <2>1, <2>2
<1>6. \A i, j \in DOMAIN s : s[i] = s[j] => i = j
  BY <1>2, <1>3, ConstantsAssumption
<1> QED
  BY <1>2, <1>3, <1>5, <1>6

Unloaded(S) == [i \in DOMAIN SortedIds(S) |-> Entry(SortedIds(S)[i], FALSE)]

\* What is appended to a list: every add-on of the set once, none to be loaded.
LEMMA UnloadedProperties ==
  ASSUME NEW S \in SUBSET Addons
  PROVE  /\ Unloaded(S) \in Seq(Entries) /\ Single(Unloaded(S)) /\ Ids(Unloaded(S)) = S
         /\ \A T : AutosIn(Unloaded(S), T)
         /\ S = {} => Unloaded(S) = << >>
<1> DEFINE s == SortedIds(S)
           u == Unloaded(S)
<1>1. /\ s \in Seq(Addons) /\ {s[i] : i \in DOMAIN s} = S
      /\ \A i, j \in DOMAIN s : s[i] = s[j] => i = j
  BY SortedIdsProperties
<1>2. Len(s) \in Nat /\ DOMAIN s = 1..Len(s) /\ \A i \in DOMAIN s : s[i] \in Addons
  BY <1>1, LenProperties, ElementOfSeq
<1>3. /\ DOMAIN u = 1..Len(s)
      /\ \A i \in 1..Len(s) : u[i] \in Entries /\ u[i].id = s[i] /\ u[i].auto = FALSE
  BY <1>2, EntryFields DEF Unloaded
<1>4. u \in [1..Len(s) -> Entries]
  BY <1>2, <1>3 DEF Unloaded
<1>5. u \in Seq(Entries) /\ Len(u) = Len(s)
  BY <1>2, <1>4, FunctionIsList
<1> HIDE DEF s, u
<1>6. Single(u) /\ Ids(u) = S /\ \A T : AutosIn(u, T)
  BY <1>1, <1>2, <1>3 DEF Single, Ids, AutosIn
<1>7. ASSUME S = {} PROVE u = << >>
  <2>1. DOMAIN s = {}
    BY <1>1, <1>7
  <2>2. Len(s) = 0
    BY <1>2, <2>1
  <2> QED
    BY <1>5, <2>2, EmptySeq
<1> QED
  BY <1>5, <1>6, <1>7 DEF u

\* Some entries of a list, in their order.
LEMMA AtLists ==
  ASSUME NEW addons \in Seq(Entries), NEW K \in SUBSET DOMAIN addons,
         \A i, j \in K : addons[i].id = addons[j].id => i = j
  PROVE  /\ At(addons, K) \in Seq(Entries) /\ Single(At(addons, K))
         /\ Ids(At(addons, K)) = {addons[i].id : i \in K}
         /\ \A S : AutosIn(addons, S) => AutosIn(At(addons, K), S)
<1> DEFINE s == At(addons, K)
<1>1. /\ s \in Seq(Entries)
      /\ \A k \in DOMAIN s : Position(K, k) \in K /\ s[k] = addons[Position(K, k)]
      /\ \A k, l \in DOMAIN s : Position(K, k) = Position(K, l) => k = l
      /\ \A i \in K : \E k \in DOMAIN s : Position(K, k) = i
  BY AtProperties
<1> HIDE DEF s
<1>2. Single(s) /\ \A S : AutosIn(addons, S) => AutosIn(s, S)
  BY <1>1 DEF Single, AutosIn
<1>3. Ids(s) = {addons[i].id : i \in K}
  <2>1. ASSUME NEW i \in K PROVE \E k \in DOMAIN s : s[k].id = addons[i].id
    <3>1. PICK k \in DOMAIN s : Position(K, k) = i
      BY <1>1
    <3> QED
      BY <1>1, <3>1
  <2>2. ASSUME NEW k \in DOMAIN s PROVE \E i \in K : s[k].id = addons[i].id
    BY <1>1
  <2> QED
    BY <2>1, <2>2 DEF Ids
<1> QED
  BY <1>1, <1>2, <1>3 DEF s

First(addons) ==
  {i \in DOMAIN addons : \A j \in 1..(i - 1) : addons[j].id # addons[i].id}
Missing(addons, inst) == inst \ Ids(addons)
Chosen(addons, inst) ==
  [i \in DOMAIN addons |->
     Entry(addons[i].id, addons[i].auto /\ addons[i].id \in inst \ {VanaHub})]

\* normalize_addons in its parts.
LEMMA NormalizeParts ==
  ASSUME NEW addons, NEW inst
  PROVE  NormalizeAddons(addons, inst) =
           Chosen(At(addons, First(addons)), inst) \o Unloaded(Missing(addons, inst))
BY DEF NormalizeAddons, First, Missing, Chosen, Unloaded, Ids

\* The first entries name every add-on of the list, each once.
LEMMA FirstEntries ==
  ASSUME NEW addons \in Seq(Entries)
  PROVE  /\ First(addons) \in SUBSET DOMAIN addons
         /\ \A i, j \in First(addons) : addons[i].id = addons[j].id => i = j
         /\ {addons[i].id : i \in First(addons)} = Ids(addons)
<1>1. Len(addons) \in Nat /\ DOMAIN addons = 1..Len(addons)
  BY ListEntries
<1>2. First(addons) \in SUBSET DOMAIN addons
  BY DEF First
<1>3. ASSUME NEW i \in First(addons), NEW j \in First(addons),
             addons[i].id = addons[j].id, i < j
      PROVE  FALSE
  <2>1. i \in 1..(j - 1)
    BY <1>1, <1>2, <1>3
  <2> QED
    BY <1>3, <2>1 DEF First
<1>4. \A i, j \in First(addons) : addons[i].id = addons[j].id => i = j
  <2> SUFFICES ASSUME NEW i \in First(addons), NEW j \in First(addons),
                      addons[i].id = addons[j].id, i # j
               PROVE  FALSE
    OBVIOUS
  <2>1. i < j \/ j < i
    BY <1>1, <1>2
  <2> QED
    BY <1>3, <2>1
<1>5. ASSUME NEW i \in DOMAIN addons
      PROVE  \E j \in First(addons) : addons[j].id = addons[i].id
  <2> DEFINE S == {j \in DOMAIN addons : addons[j].id = addons[i].id}
  <2>1. S \in SUBSET Nat /\ S # {}
    BY <1>1
  <2>2. Least(S) \in S /\ \A m \in S : Least(S) <= m
    BY <2>1, LeastExists
  <2>3. ASSUME NEW j \in 1..(Least(S) - 1) PROVE addons[j].id # addons[Least(S)].id
    <3>1. j \in DOMAIN addons /\ j < Least(S)
      BY <1>1, <2>2
    <3>2. ASSUME j \in S PROVE FALSE
      <4>1. Least(S) <= j
        BY <2>2, <3>2
      <4>2. Least(S) \in Nat /\ j \in Nat
        BY <1>1, <2>1, <2>2, <3>1
      <4> QED
        BY <3>1, <4>1, <4>2
    <3> QED
      BY <2>2, <3>1, <3>2
  <2>4. Least(S) \in First(addons)
    BY <2>2, <2>3 DEF First
  <2> QED
    BY <2>2, <2>4
<1> QED
  BY <1>2, <1>4, <1>5 DEF Ids

\* Normalizing the choices changes no id.
LEMMA ChosenProperties ==
  ASSUME NEW addons \in Seq(Entries), NEW inst \in SUBSET Addons
  PROVE  /\ Chosen(addons, inst) \in Seq(Entries)
         /\ Single(addons) => Single(Chosen(addons, inst))
         /\ Ids(Chosen(addons, inst)) = Ids(addons)
         /\ AutosIn(Chosen(addons, inst), inst \ {VanaHub})
         /\ AutosIn(addons, inst \ {VanaHub}) => Chosen(addons, inst) = addons
<1> DEFINE c == Chosen(addons, inst)
           n == Len(addons)
           auto(i) == addons[i].auto /\ addons[i].id \in inst \ {VanaHub}
<1>1. /\ n \in Nat /\ DOMAIN addons = 1..n
      /\ \A i \in 1..n : /\ addons[i] \in Entries /\ addons[i].id \in Addons
                         /\ addons[i].auto \in BOOLEAN
  BY ListEntries
<1>2. DOMAIN c = 1..n /\ \A i \in 1..n : c[i] = Entry(addons[i].id, auto(i))
  BY <1>1 DEF Chosen
<1>3. \A i \in 1..n : auto(i) \in BOOLEAN
  OBVIOUS
<1>4. \A i \in 1..n :
        c[i] \in Entries /\ c[i].id = addons[i].id /\ c[i].auto = auto(i)
  <2> HIDE DEF auto, c
  <2> QED
    BY <1>1, <1>2, <1>3, EntryFields
<1>5. c \in [1..n -> Entries]
  BY <1>1, <1>4 DEF Chosen
<1>6. c \in Seq(Entries) /\ Len(c) = n
  BY <1>1, <1>5, FunctionIsList
<1>7. AutosIn(c, inst \ {VanaHub})
  BY <1>2, <1>4 DEF AutosIn
<1>8. ASSUME AutosIn(addons, inst \ {VanaHub}) PROVE c = addons
  <2>1. ASSUME NEW i \in 1..n PROVE c[i] = addons[i]
    <3>1. auto(i) = addons[i].auto
      BY <1>1, <1>8 DEF AutosIn
    <3> QED
      BY <1>1, <1>2, <3>1, EntryFields
  <2> QED
    BY <1>6, <2>1, SeqEqual
<1> HIDE DEF c, n
<1>9. (Single(addons) => Single(c)) /\ Ids(c) = Ids(addons)
  BY <1>1, <1>2, <1>4 DEF Single, Ids
<1> QED
  BY <1>6, <1>7, <1>8, <1>9 DEF c

\* normalize_addons makes any list sound, and leaves a list that is sound as it is,
\* what is not installed included.
LEMMA NormalizedLists ==
  ASSUME NEW addons \in Seq(Entries), NEW inst \in SUBSET Addons
  PROVE  /\ ListSound(NormalizeAddons(addons, inst), inst)
         /\ ListSound(addons, inst) => NormalizeAddons(addons, inst) = addons
<1> DEFINE kept == At(addons, First(addons))
           rest == Unloaded(Missing(addons, inst))
<1>1. kept \in Seq(Entries) /\ Single(kept) /\ Ids(kept) = Ids(addons)
  BY FirstEntries, AtLists
<1>2. Missing(addons, inst) \in SUBSET Addons
  BY DEF Missing
<1>3. /\ rest \in Seq(Entries) /\ Single(rest) /\ Ids(rest) = Missing(addons, inst)
      /\ AutosIn(rest, inst \ {VanaHub})
      /\ Missing(addons, inst) = {} => rest = << >>
  BY <1>2, UnloadedProperties
<1> HIDE DEF kept, rest
<1>4. /\ Chosen(kept, inst) \in Seq(Entries) /\ Single(Chosen(kept, inst))
      /\ Ids(Chosen(kept, inst)) = Ids(addons)
      /\ AutosIn(Chosen(kept, inst), inst \ {VanaHub})
  BY <1>1, ChosenProperties
<1>5. Ids(Chosen(kept, inst)) \cap Ids(rest) = {}
  BY <1>3, <1>4 DEF Missing
<1>6. NormalizeAddons(addons, inst) = Chosen(kept, inst) \o rest
  BY NormalizeParts DEF kept, rest
<1>7. ListSound(NormalizeAddons(addons, inst), inst)
  <2>1. inst \subseteq Ids(Chosen(kept, inst)) \cup Ids(rest)
    BY <1>3, <1>4 DEF Missing
  <2> QED
    BY <1>3, <1>4, <1>5, <1>6, <2>1, ConcatLists DEF ListSound
<1>8. ASSUME ListSound(addons, inst) PROVE NormalizeAddons(addons, inst) = addons
  <2>1. First(addons) = DOMAIN addons
    <3> SUFFICES ASSUME NEW i \in DOMAIN addons, NEW j \in 1..(i - 1)
                 PROVE  addons[j].id # addons[i].id
      BY DEF First
    <3>1. j \in DOMAIN addons /\ j # i
      BY ListEntries
    <3> QED
      BY <1>8, <3>1 DEF ListSound, Single
  <2>2. kept = addons
    BY <2>1, AtAll DEF kept
  <2>3. Chosen(kept, inst) = addons
    BY <1>8, <2>2, ChosenProperties DEF ListSound
  <2>4. rest = << >>
    BY <1>3, <1>8 DEF ListSound, Missing
  <2> QED
    BY <1>6, <2>3, <2>4, ConcatEmptySeq
<1> QED
  BY <1>7, <1>8

\* add_installed: an add-on that was in no list comes last.
LEMMA AppendedLists ==
  ASSUME NEW addons, NEW inst \in SUBSET Addons, ListSound(addons, inst),
         NEW a \in Addons, NEW auto \in BOOLEAN, auto => a # VanaHub, a \notin Ids(addons)
  PROVE  ListSound(Append(addons, Entry(a, auto)), inst \cup {a})
<1> DEFINE e == Entry(a, auto)
           s == Append(addons, e)
           n == Len(addons)
<1>1. /\ addons \in Seq(Entries) /\ n \in Nat /\ DOMAIN addons = 1..n
      /\ e \in Entries /\ e.id = a /\ e.auto = auto
  BY ListEntries, EntryFields DEF ListSound
<1>2. s \in Seq(Entries) /\ Len(s) = n + 1
  BY <1>1, AppendProperties
<1>3. /\ DOMAIN s = 1..(n + 1) /\ s[n + 1] = e
      /\ \A i \in DOMAIN addons : s[i] = addons[i]
  BY <1>1, <1>2, ListEntries, AppendProperties
<1>4. DOMAIN s = DOMAIN addons \cup {n + 1} /\ n + 1 \notin DOMAIN addons
  BY <1>1, <1>3
<1> HIDE DEF s, e, n
<1>5. Single(s)
  BY <1>1, <1>3, <1>4 DEF Single, Ids, ListSound
<1>6. inst \cup {a} \subseteq Ids(s)
  BY <1>1, <1>3, <1>4 DEF Ids, ListSound
<1>7. AutosIn(s, (inst \cup {a}) \ {VanaHub})
  BY <1>1, <1>3, <1>4 DEF AutosIn, ListSound
<1> QED
  BY <1>2, <1>5, <1>6, <1>7 DEF ListSound, s, e

\* add_installed: a list that has the add-on stays as it is.
LEMMA KnownAddon ==
  ASSUME NEW addons, NEW inst, ListSound(addons, inst), NEW a \in Ids(addons)
  PROVE  ListSound(addons, inst \cup {a})
BY DEF ListSound, AutosIn

\* remove_installed takes the add-on out of the list, and nothing else.
LEMMA RemovedLists ==
  ASSUME NEW addons, NEW inst, ListSound(addons, inst), NEW a
  PROVE  ListSound(At(addons, {k \in DOMAIN addons : addons[k].id # a}), inst \ {a})
<1> DEFINE K == {k \in DOMAIN addons : addons[k].id # a}
           s == At(addons, K)
<1>1. /\ s \in Seq(Entries) /\ Single(s) /\ Ids(s) = {addons[i].id : i \in K}
      /\ AutosIn(s, inst \ {VanaHub})
  <2>1. addons \in Seq(Entries) /\ K \in SUBSET DOMAIN addons
    BY DEF ListSound
  <2>2. \A i, j \in K : addons[i].id = addons[j].id => i = j
    BY DEF ListSound, Single
  <2> HIDE DEF K
  <2> QED
    BY <2>1, <2>2, AtLists DEF ListSound
<1>2. inst \ {a} \subseteq Ids(s)
  BY <1>1 DEF ListSound, Ids
<1>3. a \notin Ids(s)
  BY <1>1
<1> HIDE DEF s
<1>4. AutosIn(s, (inst \ {a}) \ {VanaHub})
  BY <1>1, <1>3 DEF AutosIn, Ids
<1> QED
  BY <1>1, <1>2, <1>4 DEF ListSound, s

\* A list of the same add-ons at the same places, with choices that are allowed.
LEMMA SameAddons ==
  ASSUME NEW addons, NEW inst, ListSound(addons, inst), NEW s,
         s \in [DOMAIN addons -> Entries], \A i \in DOMAIN addons : s[i].id = addons[i].id,
         AutosIn(s, inst \ {VanaHub})
  PROVE  ListSound(s, inst)
<1>1. addons \in Seq(Entries) /\ Len(addons) \in Nat /\ DOMAIN addons = 1..Len(addons)
  BY ListEntries DEF ListSound
<1>2. s \in Seq(Entries) /\ DOMAIN s = DOMAIN addons
  BY <1>1, FunctionIsList
<1> QED
  BY <1>2 DEF ListSound, Single, Ids

\* copy_addons keeps the order, and the choices if the profile is duplicated.
LEMMA CopiedLists ==
  ASSUME NEW addons, NEW inst, ListSound(addons, inst), NEW preserve \in BOOLEAN
  PROVE  ListSound(CopyAddons(addons, preserve), inst)
<1> DEFINE s == CopyAddons(addons, preserve)
           auto(i) == preserve /\ addons[i].auto
<1>1. \A i \in DOMAIN addons : addons[i].id \in Addons /\ auto(i) \in BOOLEAN
  BY ListEntries DEF ListSound
<1>2. DOMAIN s = DOMAIN addons /\ \A i \in DOMAIN addons : s[i] = Entry(addons[i].id, auto(i))
  BY DEF CopyAddons
<1>3. \A i \in DOMAIN addons :
        s[i] \in Entries /\ s[i].id = addons[i].id /\ s[i].auto = auto(i)
  <2> HIDE DEF auto, s
  <2> QED
    BY <1>1, <1>2, EntryFields
<1>4. s \in [DOMAIN addons -> Entries]
  BY <1>3 DEF CopyAddons
<1>5. AutosIn(s, inst \ {VanaHub})
  BY <1>2, <1>3 DEF AutosIn, ListSound
<1> QED
  BY <1>3, <1>4, <1>5, SameAddons

\* profiles.move exchanges two entries.
LEMMA MovedLists ==
  ASSUME NEW addons, NEW inst, ListSound(addons, inst),
         NEW i \in DOMAIN addons, NEW j \in DOMAIN addons
  PROVE  ListSound([addons EXCEPT ![i] = addons[j], ![j] = addons[i]], inst)
<1> DEFINE s == [addons EXCEPT ![i] = addons[j], ![j] = addons[i]]
           other(k) == IF k = j THEN i ELSE IF k = i THEN j ELSE k
<1>1. /\ addons \in Seq(Entries) /\ Len(addons) \in Nat /\ DOMAIN addons = 1..Len(addons)
      /\ addons \in [1..Len(addons) -> Entries]
  BY ListEntries, LenProperties DEF ListSound
<1>2. DOMAIN s = DOMAIN addons /\ \A k \in DOMAIN addons : s[k] = addons[other(k)]
  BY <1>1
<1>3. s \in [1..Len(addons) -> Entries]
  BY <1>1
<1>4. s \in Seq(Entries)
  BY <1>1, <1>3, FunctionIsList
<1>5. \A k \in DOMAIN addons : other(k) \in DOMAIN addons /\ other(other(k)) = k
  OBVIOUS
<1> HIDE DEF s, other
<1>6. Single(s)
  BY <1>2, <1>5 DEF Single, ListSound
<1>7. Ids(s) = Ids(addons)
  <2>1. ASSUME NEW k \in DOMAIN addons PROVE s[other(k)] = addons[k]
    BY <1>2, <1>5
  <2> QED
    BY <1>2, <1>5, <2>1 DEF Ids
<1>8. AutosIn(s, inst \ {VanaHub})
  BY <1>2, <1>5 DEF AutosIn, ListSound
<1> QED
  BY <1>4, <1>6, <1>7, <1>8 DEF ListSound, s

\* The box of an add-on that is installed changes its choice.
LEMMA ToggledLists ==
  ASSUME NEW addons, NEW inst, ListSound(addons, inst),
         NEW i \in DOMAIN addons, addons[i].id \in inst \ {VanaHub}
  PROVE  ListSound([addons EXCEPT ![i].auto = ~@], inst)
<1> DEFINE s == [addons EXCEPT ![i].auto = ~@]
           e == [addons[i] EXCEPT !.auto = ~@]
<1>1. /\ addons \in Seq(Entries) /\ Len(addons) \in Nat /\ DOMAIN addons = 1..Len(addons)
      /\ addons \in [DOMAIN addons -> Entries] /\ addons[i] \in Entries
  BY ListEntries, LenProperties DEF ListSound
<1>2. e \in Entries /\ e.id = addons[i].id
  BY <1>1 DEF Entries
<1>3. s = [addons EXCEPT ![i] = e]
  OBVIOUS
<1> HIDE DEF s, e
<1>4. /\ s \in [DOMAIN addons -> Entries] /\ s[i] = e
      /\ \A k \in DOMAIN addons \ {i} : s[k] = addons[k]
  BY <1>1, <1>2, <1>3
<1>5. AutosIn(s, inst \ {VanaHub})
  BY <1>2, <1>4 DEF AutosIn, ListSound
<1> QED
  BY <1>2, <1>4, <1>5, SameAddons DEF s
-----------------------------------------------------------------------------
(* Documents                                                                *)

\* What a document is to be while inst are the add-ons installed.
DocSound(ps, act, inst) ==
  /\ ps \in Seq(Profile)
  /\ \E i \in DOMAIN ps : ps[i].id = act
  /\ \A i, j \in DOMAIN ps : i # j => ps[i].id # ps[j].id /\ ps[i].name # ps[j].name
  /\ \A i \in DOMAIN ps : ListSound(ps[i].addons, inst)

\* The profiles of a document are profiles.
LEMMA DocProfiles ==
  ASSUME NEW ps \in Seq(Profile)
  PROVE  /\ Len(ps) \in Nat /\ DOMAIN ps = 1..Len(ps) /\ ps \in [DOMAIN ps -> Profile]
         /\ \A i \in DOMAIN ps :
              /\ ps[i] \in Profile /\ ps[i].id \in 0..MaxProfiles
              /\ ps[i].name \in Seq(Words \cup Nat) /\ ps[i].addons \in Seq(Entries)
<1>1. Len(ps) \in Nat /\ DOMAIN ps = 1..Len(ps) /\ ps \in [DOMAIN ps -> Profile]
  BY LenProperties
<1> QED
  BY <1>1 DEF Profile

\* Every profile gets another list of add-ons, and keeps its id and its name.
LEMMA SameProfiles ==
  ASSUME NEW ps, NEW act, NEW inst, DocSound(ps, act, inst),
         NEW qs, DOMAIN qs = DOMAIN ps, qs \in [DOMAIN ps -> Profile], NEW inst2,
         \A i \in DOMAIN ps : qs[i].id = ps[i].id /\ qs[i].name = ps[i].name,
         \A i \in DOMAIN ps : ListSound(qs[i].addons, inst2)
  PROVE  DocSound(qs, act, inst2)
<1>1. Len(ps) \in Nat /\ DOMAIN ps = 1..Len(ps)
  BY DocProfiles DEF DocSound
<1>2. qs \in Seq(Profile)
  BY <1>1, FunctionIsList
<1> QED
  BY <1>2 DEF DocSound

\* A profile with another list is a profile.
LEMMA WithAddons ==
  ASSUME NEW p \in Profile, NEW s \in Seq(Entries)
  PROVE  /\ [p EXCEPT !.addons = s] \in Profile
         /\ [p EXCEPT !.addons = s].id = p.id /\ [p EXCEPT !.addons = s].name = p.name
         /\ [p EXCEPT !.addons = s].addons = s
BY DEF Profile

\* The list of one profile is edited.
LEMMA OneList ==
  ASSUME NEW ps, NEW act, NEW inst, DocSound(ps, act, inst),
         NEW i \in DOMAIN ps, NEW s, ListSound(s, inst)
  PROVE  DocSound([ps EXCEPT ![i].addons = s], act, inst)
<1> DEFINE p == [ps[i] EXCEPT !.addons = s]
           qs == [ps EXCEPT ![i] = p]
<1>1. /\ ps \in [DOMAIN ps -> Profile] /\ ps[i] \in Profile
      /\ s \in Seq(Entries)
  BY DocProfiles DEF DocSound, ListSound
<1>2. p \in Profile /\ p.id = ps[i].id /\ p.name = ps[i].name /\ p.addons = s
  BY <1>1, WithAddons
<1>3. [ps EXCEPT ![i].addons = s] = qs
  OBVIOUS
<1> HIDE DEF p
<1>4. /\ qs \in [DOMAIN ps -> Profile] /\ DOMAIN qs = DOMAIN ps /\ qs[i] = p
      /\ \A k \in DOMAIN ps \ {i} : qs[k] = ps[k]
  BY <1>1, <1>2
<1> HIDE DEF qs
<1>5. \A k \in DOMAIN ps : /\ qs[k].id = ps[k].id /\ qs[k].name = ps[k].name
                           /\ ListSound(qs[k].addons, inst)
  BY <1>2, <1>4 DEF DocSound
<1> QED
  BY <1>3, <1>4, <1>5, SameProfiles

\* A profile with a new id and a new name is added, and becomes the active one.
LEMMA InsertedProfile ==
  ASSUME NEW ps, NEW act, NEW inst, DocSound(ps, act, inst),
         NEW p \in Profile, ListSound(p.addons, inst),
         \A i \in DOMAIN ps : ps[i].id # p.id /\ ps[i].name # p.name
  PROVE  DocSound(Append(ps, p), p.id, inst)
<1> DEFINE qs == Append(ps, p)
           n == Len(ps)
<1>1. ps \in Seq(Profile) /\ n \in Nat /\ DOMAIN ps = 1..n
  BY DocProfiles DEF DocSound
<1>2. /\ qs \in Seq(Profile) /\ Len(qs) = n + 1 /\ qs[n + 1] = p
      /\ \A i \in DOMAIN ps : qs[i] = ps[i]
  BY <1>1, AppendProperties
<1>3. DOMAIN qs = DOMAIN ps \cup {n + 1} /\ n + 1 \notin DOMAIN ps
  BY <1>1, <1>2, DocProfiles
<1> HIDE DEF qs, n
<1>4. \A i, j \in DOMAIN qs : i # j => qs[i].id # qs[j].id /\ qs[i].name # qs[j].name
  BY <1>2, <1>3 DEF DocSound
<1>5. \A i \in DOMAIN qs : ListSound(qs[i].addons, inst)
  BY <1>2, <1>3 DEF DocSound
<1> QED
  BY <1>2, <1>3, <1>4, <1>5 DEF DocSound, qs

\* Some profiles of a document, the active one among them.
LEMMA FewerProfiles ==
  ASSUME NEW ps, NEW act, NEW inst, DocSound(ps, act, inst),
         NEW K \in SUBSET DOMAIN ps, NEW k \in DOMAIN At(ps, K)
  PROVE  DocSound(At(ps, K), At(ps, K)[k].id, inst)
<1> DEFINE qs == At(ps, K)
<1>1. /\ qs \in Seq(Profile)
      /\ \A i \in DOMAIN qs : Position(K, i) \in DOMAIN ps /\ qs[i] = ps[Position(K, i)]
      /\ \A i, j \in DOMAIN qs : Position(K, i) = Position(K, j) => i = j
  BY AtProperties DEF DocSound
<1> HIDE DEF qs
<1>2. /\ \A i, j \in DOMAIN qs : i # j => qs[i].id # qs[j].id /\ qs[i].name # qs[j].name
      /\ \A i \in DOMAIN qs : ListSound(qs[i].addons, inst)
  BY <1>1 DEF DocSound
<1> QED
  BY <1>1, <1>2 DEF DocSound, qs

\* next_id finds an id that no profile has, within one of their number.
LEMMA NextIdIsFree ==
  ASSUME NEW ps \in Seq(Profile)
  PROVE  NextId(ps) \in 1..(Len(ps) + 1) /\ \A i \in DOMAIN ps : ps[i].id # NextId(ps)
<1> DEFINE n == Len(ps)
           S == {m \in 1..(n + 1) : \A i \in DOMAIN ps : ps[i].id # m}
           f == [i \in 1..n |-> ps[i].id]
<1>1. n \in Nat /\ DOMAIN ps = 1..n
  BY DocProfiles
<1>2. PICK m \in 1..(1 + n) : \A i \in 1..n : f[i] # m
  <2> HIDE DEF f
  <2> QED
    BY <1>1, FreeNumber
<1>3. m \in S
  BY <1>1, <1>2
<1>4. S \in SUBSET Nat
  OBVIOUS
<1>5. Least(S) \in S
  <2> HIDE DEF S
  <2> QED
    BY <1>3, <1>4, LeastExists
<1> QED
  BY <1>5 DEF NextId

\* unique_name finds a name that no profile has.
LEMMA UniqueNameIsFree ==
  ASSUME NEW ps \in Seq(Profile), NEW name \in Seq(Words \cup Nat)
  PROVE  /\ UniqueName(ps, name) \in Seq(Words \cup Nat)
         /\ \A i \in DOMAIN ps : ps[i].name # UniqueName(ps, name)
<1> DEFINE n == Len(ps)
           used == {ps[i].name : i \in DOMAIN ps}
           S == {m \in 2..(n + 2) : Append(name, m) \notin used}
           last(i) == CHOOSE m \in Nat : ps[i].name = Append(name, m)
           f == [i \in 1..n |-> last(i)]
<1>1. n \in Nat /\ DOMAIN ps = 1..n
  BY DocProfiles
<1>2. CASE name \notin used
  BY <1>2 DEF UniqueName
<1>3. CASE name \in used
  <2>1. PICK m \in 2..(2 + n) : \A i \in 1..n : f[i] # m
    <3> HIDE DEF f
    <3> QED
      BY <1>1, FreeNumber
  <2>2. ASSUME NEW i \in DOMAIN ps, ps[i].name = Append(name, m) PROVE FALSE
    <3>1. m \in Nat
      BY <1>1
    <3>2. last(i) \in Nat /\ ps[i].name = Append(name, last(i))
      BY <2>2, <3>1
    <3>3. last(i) = m
      <4> HIDE DEF last
      <4>1. Append(name, last(i)) = Append(name, m)
        BY <2>2, <3>2
      <4>2. last(i) \in Words \cup Nat /\ m \in Words \cup Nat
        BY <3>1, <3>2
      <4> QED
        BY <4>1, <4>2, AppendInjective
    <3> QED
      BY <1>1, <2>1, <3>3
  <2>3. m \in S
    BY <1>1, <2>1, <2>2
  <2>4. S \in SUBSET Nat
    BY <1>1
  <2>5. Least(S) \in S /\ Least(S) \in Nat
    <3> HIDE DEF S
    <3> QED
      BY <2>3, <2>4, LeastExists
  <2>6. UniqueName(ps, name) = Append(name, Least(S))
    BY <1>3 DEF UniqueName
  <2>7. Append(name, Least(S)) \in Seq(Words \cup Nat)
    <3> HIDE DEF S
    <3> QED
      BY <2>5, AppendProperties
  <2> QED
    BY <2>5, <2>6, <2>7
<1> QED
  BY <1>2, <1>3

\* A document is kept as it is when no two profiles have an id or a name in common.
LEMMA AllKept ==
  ASSUME NEW ps \in Seq(Profile),
         \A i, j \in DOMAIN ps : i # j => ps[i].id # ps[j].id /\ ps[i].name # ps[j].name
  PROVE  Kept(ps) = DOMAIN ps
<1> DEFINE Right(K) == \A i \in DOMAIN ps :
             i \in K <=> \A j \in K : j < i => ps[i].id # ps[j].id /\ ps[i].name # ps[j].name
<1>1. DOMAIN ps \subseteq Nat
  BY DocProfiles
<1>2. \A i, j \in DOMAIN ps : j < i => ps[i].id # ps[j].id /\ ps[i].name # ps[j].name
  BY <1>1
<1>3. Right(DOMAIN ps)
  BY <1>2
<1>4. Kept(ps) \in SUBSET DOMAIN ps /\ Right(Kept(ps))
  BY <1>3 DEF Kept
<1>5. \A i \in DOMAIN ps : i \in Kept(ps)
  BY <1>2, <1>4
<1> QED
  BY <1>4, <1>5

\* The default profile is sound, whatever is installed.
LEMMA DefaultSound ==
  ASSUME NEW inst \in SUBSET Addons
  PROVE  /\ <<Default(inst)>> \in Seq(Profile) /\ <<Default(inst)>>[1].id = 0
         /\ DOMAIN <<Default(inst)>> = {1}
         /\ DocSound(<<Default(inst)>>, 0, inst)
<1> DEFINE d == Default(inst)
           ps == <<d>>
<1>1. ListSound(Unloaded(inst), inst)
  BY UnloadedProperties DEF ListSound
<1>2. d = [id |-> 0, name |-> DefaultName, addons |-> Unloaded(inst)]
  BY DEF Default, Unloaded
<1>3. d \in Profile /\ d.id = 0 /\ d.addons = Unloaded(inst)
  BY <1>1, <1>2, ConstantsAssumption DEF Profile, ListSound
<1> HIDE DEF d
<1>4. ps \in Seq(Profile) /\ DOMAIN ps = {1} /\ ps[1] = d
  BY <1>3
<1> HIDE DEF ps
<1>5. DocSound(ps, 0, inst)
  BY <1>1, <1>3, <1>4 DEF DocSound
<1> QED
  BY <1>3, <1>4, <1>5 DEF ps, d

\* Without a file the client starts with the default profile.
LEMMA NormalizeNothing ==
  ASSUME NEW inst \in SUBSET Addons
  PROVE  LET doc == Normalize([profiles |-> << >>, active |-> 0], inst)
         IN  DocSound(doc.profiles, doc.active, inst)
<1> DEFINE raw == [profiles |-> << >>, active |-> 0]
           none == << >>
<1>1. none \in Seq(Profile) /\ DOMAIN none = {}
  BY EmptySeq
<1>2. At(none, Kept(none)) = none
  BY <1>1, AllKept, AtAll
<1>3. raw.profiles = none /\ raw.active = 0
  OBVIOUS
<1>4. /\ DOMAIN <<Default(inst)>> = {1} /\ <<Default(inst)>>[1].id = 0
      /\ DocSound(<<Default(inst)>>, 0, inst)
  BY DefaultSound
<1> HIDE DEF raw, none
<1>5. Normalize(raw, inst) = [profiles |-> <<Default(inst)>>, active |-> 0]
  BY <1>2, <1>3, <1>4 DEF Normalize, none
<1> QED
  BY <1>4, <1>5 DEF raw, none

\* normalize of a document that was saved: sound for what is installed now, and the
\* very document if nothing it would load is gone.
LEMMA NormalizeSaved ==
  ASSUME NEW raw \in Documents, DocSound(raw.profiles, raw.active, raw.installed),
         NEW inst \in SUBSET raw.installed
  PROVE  LET doc == Normalize(raw, inst)
         IN  /\ DocSound(doc.profiles, doc.active, inst)
             /\ (\A i \in DOMAIN raw.profiles :
                   AutosIn(raw.profiles[i].addons, inst \ {VanaHub})) =>
                  doc.profiles = raw.profiles /\ doc.active = raw.active
<1> DEFINE ps == raw.profiles
           normal(p) == [p EXCEPT !.addons = NormalizeAddons(p.addons, inst)]
           qs == [i \in DOMAIN ps |-> normal(ps[i])]
<1>1. inst \in SUBSET Addons /\ ps \in Seq(Profile)
  BY DEF Documents, DocSound
<1>2. Kept(ps) = DOMAIN ps
  BY AllKept DEF DocSound
<1>3. At(ps, Kept(ps)) = ps
  BY <1>1, <1>2, AtAll
<1>4. ps # << >>
  BY DEF DocSound
<1>5. ASSUME NEW i \in DOMAIN ps
      PROVE  /\ normal(ps[i]) \in Profile /\ normal(ps[i]).id = ps[i].id
             /\ normal(ps[i]).name = ps[i].name
             /\ ListSound(normal(ps[i]).addons, inst)
             /\ AutosIn(ps[i].addons, inst \ {VanaHub}) => normal(ps[i]) = ps[i]
  <2>1. ps[i] \in Profile /\ ps[i].addons \in Seq(Entries)
    BY <1>1, DocProfiles
  <2>2. /\ ListSound(NormalizeAddons(ps[i].addons, inst), inst)
        /\ ListSound(ps[i].addons, inst) => NormalizeAddons(ps[i].addons, inst) = ps[i].addons
    BY <1>1, <2>1, NormalizedLists
  <2>3. NormalizeAddons(ps[i].addons, inst) \in Seq(Entries)
    BY <2>2 DEF ListSound
  <2>4. /\ normal(ps[i]) \in Profile /\ normal(ps[i]).id = ps[i].id
        /\ normal(ps[i]).name = ps[i].name
        /\ normal(ps[i]).addons = NormalizeAddons(ps[i].addons, inst)
    BY <2>1, <2>3, WithAddons
  <2>5. ASSUME AutosIn(ps[i].addons, inst \ {VanaHub}) PROVE normal(ps[i]) = ps[i]
    <3>1. ListSound(ps[i].addons, inst)
      BY <2>1, <2>5 DEF DocSound, ListSound
    <3> QED
      BY <2>1, <2>2, <3>1 DEF Profile
  <2> QED
    BY <2>2, <2>4, <2>5
<1> HIDE DEF normal
<1>6. DOMAIN qs = DOMAIN ps /\ \A i \in DOMAIN ps : qs[i] = normal(ps[i])
  OBVIOUS
<1>7. qs \in [DOMAIN ps -> Profile]
  BY <1>5
<1>8. DocSound(qs, raw.active, inst)
  <2> HIDE DEF qs
  <2> QED
    BY <1>5, <1>6, <1>7, SameProfiles
<1>9. \E i \in DOMAIN qs : qs[i].id = raw.active
  BY <1>8 DEF DocSound
<1>10. Normalize(raw, inst) = [profiles |-> qs, active |-> raw.active]
  BY <1>3, <1>4, <1>9 DEF Normalize, normal
<1>11. ASSUME \A i \in DOMAIN ps : AutosIn(ps[i].addons, inst \ {VanaHub}) PROVE qs = ps
  <2>1. ps \in [DOMAIN ps -> Profile]
    BY <1>1, DocProfiles
  <2> QED
    BY <1>5, <1>6, <1>7, <1>11, <2>1
<1> HIDE DEF qs
<1>12. Normalize(raw, inst).profiles = qs /\ Normalize(raw, inst).active = raw.active
  BY <1>10
<1> QED
  BY <1>8, <1>11, <1>12
-----------------------------------------------------------------------------
(* The program                                                              *)

\* The document in memory and the one in the file are sound, each for the add-ons it
\* has as installed.
IInv ==
  /\ TypeOK
  /\ DocSound(profiles, active, installed)
  /\ file # NoFile => DocSound(file.profiles, file.active, file.installed)

\* The active profile is one of the document.
LEMMA ActiveProfile ==
  ASSUME IInv
  PROVE  /\ ActiveIndex \in DOMAIN profiles /\ profiles[ActiveIndex].id = active
         /\ profiles[ActiveIndex] \in Profile
         /\ ListSound(profiles[ActiveIndex].addons, installed)
<1>1. ActiveIndex \in DOMAIN profiles /\ profiles[ActiveIndex].id = active
  BY DEF IInv, DocSound, ActiveIndex
<1>2. profiles[ActiveIndex] \in Profile
  BY <1>1, DocProfiles DEF IInv, DocSound
<1> QED
  BY <1>1, <1>2 DEF IInv, DocSound

\* A step that leaves the file alone, or removes it, has the document to answer for.
LEMMA DocumentInv ==
  ASSUME IInv, DocSound(profiles', active', installed'), installed' \subseteq Addons,
         marked' \subseteq Addons, file' \in {file, NoFile},
         pc' \in {"off", "idle", "remove", "rename"}, crashes' \in 0..MaxCrashes
  PROVE  IInv'
<1>1. profiles' \in Seq(Profile) /\ active' \in 0..MaxProfiles
  BY DocProfiles DEF DocSound
<1>2. TypeOK'
  BY <1>1 DEF IInv, TypeOK
<1>3. (file # NoFile => DocSound(file.profiles, file.active, file.installed))'
  BY DEF IInv
<1> QED
  BY <1>2, <1>3 DEF IInv

\* An edit leaves the installed add-ons and the file alone.
LEMMA EditInv ==
  ASSUME IInv, EditProfiles, DocSound(profiles', active', installed)
  PROVE  IInv'
<1>1. /\ UNCHANGED <<installed, marked, file, crashes>> /\ pc' = "remove"
      /\ installed \subseteq Addons /\ marked \subseteq Addons /\ crashes \in 0..MaxCrashes
  BY DEF EditProfiles, Change, IInv, TypeOK
<1> QED
  BY <1>1, DocumentInv

\* A profile with an id and a name of its own can be added.
LEMMA InsertInv ==
  ASSUME IInv, EditProfiles, Len(profiles) < MaxProfiles,
         NEW name \in Seq(Words \cup Nat), NEW addons, ListSound(addons, installed),
         Insert([id |-> NextId(profiles), name |-> UniqueName(profiles, name),
                 addons |-> addons])
  PROVE  IInv'
<1> DEFINE p == [id |-> NextId(profiles), name |-> UniqueName(profiles, name),
                 addons |-> addons]
<1>1. profiles \in Seq(Profile) /\ Len(profiles) \in Nat /\ MaxProfiles \in Nat
  BY DocProfiles, ConstantsAssumption DEF IInv, DocSound
<1>2. /\ NextId(profiles) \in 1..(Len(profiles) + 1)
      /\ \A i \in DOMAIN profiles : profiles[i].id # NextId(profiles)
  BY <1>1, NextIdIsFree
<1>3. /\ UniqueName(profiles, name) \in Seq(Words \cup Nat)
      /\ \A i \in DOMAIN profiles : profiles[i].name # UniqueName(profiles, name)
  BY <1>1, UniqueNameIsFree
<1>4. NextId(profiles) \in 0..MaxProfiles
  BY <1>1, <1>2
<1>5. p \in Profile
  BY <1>3, <1>4 DEF Profile, ListSound
<1>6. p.id = NextId(profiles) /\ p.name = UniqueName(profiles, name) /\ p.addons = addons
  OBVIOUS
<1>7. profiles' = Append(profiles, p) /\ active' = p.id
  BY DEF Insert
<1> HIDE DEF p
<1>8. DocSound(profiles', active', installed)
  BY <1>2, <1>3, <1>5, <1>6, <1>7, InsertedProfile DEF IInv
<1> QED
  BY <1>8, EditInv

\* New, Duplicate and Import add a profile.
LEMMA AddInv ==
  ASSUME IInv, \/ New \/ Duplicate
               \/ \E name \in Names, m \in Manifests : Import(name, m)
  PROVE  IInv'
<1>1. ASSUME NEW name \in Seq(Words \cup Nat), NEW duplicate \in BOOLEAN, Add(name, duplicate)
      PROVE  IInv'
  <2>1. ListSound(CopyAddons(profiles[ActiveIndex].addons, duplicate), installed)
    BY ActiveProfile, CopiedLists
  <2> QED
    BY <1>1, <2>1, InsertInv DEF Add
<1>2. CASE New
  BY <1>1, <1>2, ConstantsAssumption DEF New
<1>3. CASE Duplicate
  <2>1. profiles[ActiveIndex].name \in Seq(Words \cup Nat) /\ 0 \in Words \cup Nat
    BY ActiveProfile DEF Profile
  <2>2. Append(profiles[ActiveIndex].name, 0) \in Seq(Words \cup Nat)
    BY <2>1, AppendProperties
  <2> QED
    BY <1>1, <1>3, <2>2 DEF Duplicate
<1>4. ASSUME NEW name \in Names, NEW m \in Manifests, Import(name, m) PROVE IInv'
  <2>1. \A a \in Addons : Entry(a, TRUE) \in Entries /\ Entry(a, FALSE) \in Entries
    BY EntryFields
  <2>2. m \in Seq(Entries)
    <3>1. CASE m = << >>
      BY <3>1, EmptySeq
    <3>2. \A e, f \in Entries : <<e>> \in Seq(Entries) /\ <<e, f>> \in Seq(Entries)
      OBVIOUS
    <3>3. ASSUME NEW a \in Addons, m = <<Entry(a, TRUE)>> PROVE m \in Seq(Entries)
      BY <2>1, <3>2, <3>3
    <3>4. ASSUME NEW q \in Addons \X Addons, m = <<Entry(q[1], TRUE), Entry(q[2], FALSE)>>
          PROVE  m \in Seq(Entries)
      BY <2>1, <3>2, <3>4
    <3> QED
      BY <3>1, <3>3, <3>4 DEF Manifests
  <2>3. ListSound(NormalizeAddons(m, installed), installed)
    BY <2>2, NormalizedLists DEF IInv, TypeOK
  <2> QED
    BY <1>4, <2>3, InsertInv, ConstantsAssumption DEF Import
<1> QED
  BY <1>2, <1>3, <1>4

\* A profile is given a name that no other profile has.
LEMMA RenameInv == ASSUME IInv, NEW name \in Names, Rename(name) PROVE IInv'
<1> DEFINE k == ActiveIndex
           p == [profiles[k] EXCEPT !.name = name]
           ps == profiles
           qs == [ps EXCEPT ![k] = p]
<1>1. /\ k \in DOMAIN ps /\ ps[k] \in Profile /\ ListSound(ps[k].addons, installed)
      /\ ps \in [DOMAIN ps -> Profile] /\ Len(ps) \in Nat /\ DOMAIN ps = 1..Len(ps)
  BY ActiveProfile, DocProfiles DEF IInv, DocSound
<1>2. /\ p \in Profile /\ p.id = ps[k].id /\ p.name = name /\ p.addons = ps[k].addons
  BY <1>1, ConstantsAssumption DEF Profile
<1>3. profiles' = qs /\ active' = active /\ EditProfiles
      /\ \A i \in DOMAIN ps \ {k} : ps[i].name # name
  BY DEF Rename
<1> HIDE DEF k, p
<1>4. /\ qs \in [DOMAIN ps -> Profile] /\ DOMAIN qs = DOMAIN ps /\ qs[k] = p
      /\ \A i \in DOMAIN ps \ {k} : qs[i] = ps[i]
  BY <1>1, <1>2
<1> HIDE DEF qs
<1>5. qs \in Seq(Profile)
  BY <1>1, <1>4, FunctionIsList
<1>6. \A i \in DOMAIN ps : qs[i].id = ps[i].id /\ qs[i].addons = ps[i].addons
  BY <1>2, <1>4
<1>7. \A i, j \in DOMAIN ps : i # j => qs[i].name # qs[j].name
  <2> SUFFICES ASSUME NEW i \in DOMAIN ps, NEW j \in DOMAIN ps, i # j
               PROVE  qs[i].name # qs[j].name
    OBVIOUS
  <2>1. ps[i].name # ps[j].name
    BY DEF IInv, DocSound
  <2> QED
    BY <1>2, <1>3, <1>4, <2>1
<1>8. DocSound(qs, active, installed)
  BY <1>4, <1>5, <1>6, <1>7 DEF IInv, DocSound
<1> QED
  BY <1>3, <1>8, EditInv

\* Another profile becomes the active one, of all or of those that are left.
LEMMA SelectInv ==
  ASSUME IInv, RemoveProfile \/ \E id \in 0..MaxProfiles : Select(id)
  PROVE  IInv'
<1>1. CASE RemoveProfile
  <2> DEFINE K == DOMAIN profiles \ {ActiveIndex}
             i == ActiveIndex
             ps == At(profiles, K)
             n == Len(profiles)
             k == IF i <= Len(ps) THEN i ELSE Len(ps)
  <2>1. /\ n \in Nat /\ DOMAIN profiles = 1..n /\ i \in 1..n /\ n > 1
        /\ profiles \in Seq(Profile) /\ K \in SUBSET DOMAIN profiles
    BY <1>1, ActiveProfile, DocProfiles DEF RemoveProfile, IInv, DocSound
  <2>2. Len(ps) = Cardinality(K) /\ DOMAIN ps = 1..Len(ps)
    BY <2>1, AtProperties
  <2>3. Cardinality(K) = n - 1
    <3>1. IsFiniteSet(1..n) /\ Cardinality(1..n) = n
      BY <2>1, FS_Interval, PositionOfAll
    <3>2. Cardinality((1..n) \ {i}) = n - 1
      <4> DEFINE T == 1..n
      <4>1. IsFiniteSet(T) /\ Cardinality(T) = n /\ i \in T
        BY <2>1, <3>1
      <4> HIDE DEF T, i, n
      <4>2. Cardinality(T \ {i}) = Cardinality(T) - 1
        BY <4>1, FS_RemoveElement
      <4> QED
        BY <4>1, <4>2 DEF T
    <3> QED
      BY <2>1, <3>2
  <2>4. k \in DOMAIN ps
    <3> HIDE DEF ps
    <3> QED
      BY <2>1, <2>2, <2>3
  <2>5. profiles' = ps /\ active' = ps[k].id /\ EditProfiles
    BY <1>1 DEF RemoveProfile
  <2> HIDE DEF k, K
  <2>6. DocSound(ps, ps[k].id, installed)
    BY <2>1, <2>4, FewerProfiles DEF IInv
  <2> QED
    BY <2>5, <2>6, EditInv
<1>2. ASSUME NEW id \in 0..MaxProfiles, Select(id) PROVE IInv'
  <2>1. DocSound(profiles', active', installed)
    BY <1>2 DEF Select, IInv, DocSound
  <2> QED
    BY <1>2, <2>1, EditInv DEF Select
<1> QED
  BY <1>1, <1>2

\* The order and the choices of the active profile are edited.
LEMMA OrderInv ==
  ASSUME IInv, \/ \E i, j \in 1..Len(Order) : j \in {i - 1, i + 1} /\ Move(i, j)
               \/ \E i \in 1..Len(Order) : SetAutoLoad(i)
  PROVE  IInv'
<1> DEFINE k == ActiveIndex
           addons == profiles[k].addons
<1>1. k \in DOMAIN profiles /\ ListSound(addons, installed)
  BY ActiveProfile
<1>2. ASSUME NEW s, ListSound(s, installed), profiles' = [profiles EXCEPT ![k].addons = s],
             UNCHANGED active, EditProfiles
      PROVE  IInv'
  <2> HIDE DEF k
  <2>1. DocSound(profiles', active', installed)
    BY <1>1, <1>2, OneList DEF IInv
  <2> QED
    BY <1>2, <2>1, EditInv
<1>3. ASSUME NEW i, NEW j, Move(i, j) PROVE IInv'
  <2>1. i \in DOMAIN addons /\ j \in DOMAIN addons
    BY <1>3 DEF Move
  <2>2. ListSound([addons EXCEPT ![i] = addons[j], ![j] = addons[i]], installed)
    BY <1>1, <2>1, MovedLists
  <2> QED
    BY <1>2, <1>3, <2>2 DEF Move
<1>4. ASSUME NEW i, SetAutoLoad(i) PROVE IInv'
  <2>1. i \in DOMAIN addons /\ addons[i].id \in installed \ {VanaHub}
    BY <1>4 DEF SetAutoLoad
  <2>2. ListSound([addons EXCEPT ![i].auto = ~@], installed)
    BY <1>1, <2>1, ToggledLists
  <2>3. profiles' = [profiles EXCEPT ![k].addons = [addons EXCEPT ![i].auto = ~@]]
    BY <1>4 DEF SetAutoLoad
  <2> QED
    BY <1>2, <1>4, <2>2, <2>3 DEF SetAutoLoad
<1> QED
  BY <1>3, <1>4

\* What is installed is added to every profile, and what is uninstalled leaves them.
LEMMA InstallInv ==
  ASSUME IInv, NEW a \in Addons,
         \/ \E transfer \in BOOLEAN : Installed(a, transfer)
         \/ Adopt(a) \/ Uninstalled(a)
  PROVE  IInv'
<1> DEFINE ps == profiles
<1>1. /\ ps \in [DOMAIN ps -> Profile]
      /\ \A i \in DOMAIN ps : ps[i] \in Profile /\ ListSound(ps[i].addons, installed)
      /\ installed \subseteq Addons /\ marked \subseteq Addons /\ VanaHub \in Addons
  BY DocProfiles, ConstantsAssumption DEF IInv, DocSound, TypeOK
<1>2. ASSUME NEW enable \in BOOLEAN
      PROVE  DocSound(AddInstalled(ps, a, enable), active, installed \cup {a})
  <2> DEFINE qs == AddInstalled(ps, a, enable)
             auto(i) == enable /\ a # VanaHub /\ ps[i].id = active
             s(i) == Append(ps[i].addons, Entry(a, auto(i)))
  <2>1. /\ DOMAIN qs = DOMAIN ps
        /\ \A i \in DOMAIN ps :
             qs[i] = IF a \in Ids(ps[i].addons) THEN ps[i]
                     ELSE [ps[i] EXCEPT !.addons = s(i)]
    BY DEF AddInstalled, Listed, Ids
  <2>2. ASSUME NEW i \in DOMAIN ps
        PROVE  /\ qs[i] \in Profile /\ qs[i].id = ps[i].id /\ qs[i].name = ps[i].name
               /\ ListSound(qs[i].addons, installed \cup {a})
    <3>1. CASE a \in Ids(ps[i].addons)
      BY <1>1, <2>1, <3>1, KnownAddon
    <3>2. CASE a \notin Ids(ps[i].addons)
      <4>1. auto(i) \in BOOLEAN /\ (auto(i) => a # VanaHub)
        OBVIOUS
      <4> HIDE DEF auto
      <4>2. ListSound(s(i), installed \cup {a})
        BY <1>1, <3>2, <4>1, AppendedLists
      <4>3. s(i) \in Seq(Entries)
        BY <4>2 DEF ListSound
      <4>4. PICK t \in Seq(Entries) : t = s(i)
        BY <4>3
      <4>5. /\ qs[i] = [ps[i] EXCEPT !.addons = t] /\ ps[i] \in Profile
            /\ ListSound(t, installed \cup {a})
        BY <1>1, <2>1, <3>2, <4>2, <4>4
      <4> HIDE DEF s, qs
      <4> QED
        BY <4>5, WithAddons
    <3> QED
      BY <3>1, <3>2
  <2>3. qs \in [DOMAIN ps -> Profile]
    BY <2>2 DEF AddInstalled
  <2> HIDE DEF qs
  <2>4. DocSound(qs, active, installed \cup {a})
    BY <2>1, <2>2, <2>3, SameProfiles DEF IInv
  <2> QED
    BY <2>4 DEF qs
<1>3. DocSound(RemoveInstalled(ps, a), active, installed \ {a})
  <2> DEFINE qs == RemoveInstalled(ps, a)
             s(i) == At(ps[i].addons, {k \in DOMAIN ps[i].addons : ps[i].addons[k].id # a})
  <2>1. DOMAIN qs = DOMAIN ps /\ \A i \in DOMAIN ps : qs[i] = [ps[i] EXCEPT !.addons = s(i)]
    BY DEF RemoveInstalled
  <2>2. ASSUME NEW i \in DOMAIN ps
        PROVE  /\ qs[i] \in Profile /\ qs[i].id = ps[i].id /\ qs[i].name = ps[i].name
               /\ ListSound(qs[i].addons, installed \ {a})
    <3>1. ListSound(s(i), installed \ {a})
      BY <1>1, RemovedLists
    <3>2. s(i) \in Seq(Entries)
      BY <3>1 DEF ListSound
    <3>3. PICK t \in Seq(Entries) : t = s(i)
      BY <3>2
    <3>4. /\ qs[i] = [ps[i] EXCEPT !.addons = t] /\ ps[i] \in Profile
          /\ ListSound(t, installed \ {a})
      BY <1>1, <2>1, <3>1, <3>3
    <3> HIDE DEF s, qs
    <3> QED
      BY <3>4, WithAddons
  <2>3. qs \in [DOMAIN ps -> Profile]
    BY <2>2 DEF RemoveInstalled
  <2> HIDE DEF qs
  <2>4. DocSound(qs, active, installed \ {a})
    BY <2>1, <2>2, <2>3, SameProfiles DEF IInv
  <2> QED
    BY <2>4 DEF qs
<1>4. /\ DocSound(profiles', active', installed')
      /\ installed' \subseteq Addons /\ marked' \subseteq Addons
  <2>1. ASSUME NEW transfer \in BOOLEAN, Installed(a, transfer)
        PROVE  /\ DocSound(profiles', active', installed')
               /\ installed' \subseteq Addons /\ marked' \subseteq Addons
    <3>1. (~transfer) \in BOOLEAN
      OBVIOUS
    <3> QED
      BY <1>1, <1>2, <2>1, <3>1 DEF Installed
  <2>2. CASE Adopt(a)
    BY <1>1, <1>2, <2>2 DEF Adopt
  <2>3. CASE Uninstalled(a)
    BY <1>1, <1>3, <2>3 DEF Uninstalled
  <2> QED
    BY <2>1, <2>2, <2>3
<1>5. UNCHANGED <<file, crashes>> /\ pc' = "remove" /\ crashes \in 0..MaxCrashes
  BY DEF Installed, Adopt, Uninstalled, Change, IInv, TypeOK
<1> QED
  BY <1>4, <1>5, DocumentInv

\* A start reads the file, or begins with the default profile.
LEMMA StartInv == ASSUME IInv, Start PROVE IInv'
<1>1. /\ UNCHANGED <<marked, file, crashes>> /\ pc' = "remove"
      /\ marked \subseteq Addons /\ crashes \in 0..MaxCrashes
  BY DEF Start, IInv, TypeOK
<1>2. CASE file = NoFile
  <2>1. /\ installed' = {}
        /\ profiles' = Normalize([profiles |-> << >>, active |-> 0], {}).profiles
        /\ active' = Normalize([profiles |-> << >>, active |-> 0], {}).active
    BY <1>2 DEF Start
  <2>2. DocSound(profiles', active', installed')
    BY <2>1, NormalizeNothing
  <2> QED
    BY <1>1, <2>1, <2>2, DocumentInv
<1>3. CASE file # NoFile
  <2>1. /\ installed' = file.installed \cap marked
        /\ profiles' = Normalize(file, installed').profiles
        /\ active' = Normalize(file, installed').active
    BY <1>3 DEF Start
  <2>2. file \in Documents /\ DocSound(file.profiles, file.active, file.installed)
    BY <1>3 DEF IInv, TypeOK
  <2>3. installed' \in SUBSET file.installed
    BY <2>1
  <2>4. DocSound(profiles', active', installed')
    BY <2>1, <2>2, <2>3, NormalizeSaved
  <2>5. installed' \subseteq Addons
    BY <1>1, <2>1
  <2> QED
    BY <1>1, <2>4, <2>5, DocumentInv
<1> QED
  BY <1>2, <1>3

\* A save writes the document as it is in memory.
LEMMA SaveInv == ASSUME IInv, RemoveFile \/ RenameFile PROVE IInv'
<1>1. /\ UNCHANGED <<document, marked, crashes>> /\ pc' \in {"rename", "idle"}
      /\ installed \subseteq Addons /\ marked \subseteq Addons /\ crashes \in 0..MaxCrashes
      /\ profiles \in Seq(Profile) /\ active \in 0..MaxProfiles
  BY DEF RemoveFile, RenameFile, IInv, TypeOK
<1>2. DocSound(profiles', active', installed')
  BY <1>1 DEF document, IInv
<1>3. CASE RemoveFile
  <2>1. file' = NoFile
    BY <1>3 DEF RemoveFile
  <2> QED
    BY <1>1, <1>2, <2>1, DocumentInv DEF document
<1>4. CASE RenameFile
  <2>1. /\ file' = [profiles |-> profiles, active |-> active, installed |-> installed]
    BY <1>4 DEF RenameFile, Contents
  <2>2. file' \in Documents
    BY <1>1, <2>1 DEF Documents
  <2>3. DocSound(file'.profiles, file'.active, file'.installed)
    BY <2>1 DEF IInv
  <2>4. TypeOK'
    BY <1>1, <2>2 DEF TypeOK, document
  <2> QED
    BY <1>2, <2>3, <2>4 DEF IInv
<1> QED
  BY <1>3, <1>4

\* What happens to the markers between two sessions, or by recovery, leaves the
\* document alone.
LEMMA MarkerInv == ASSUME IInv, End \/ \E a \in Addons : Recover(a) PROVE IInv'
<1>1. /\ UNCHANGED <<document, file>> /\ marked' \subseteq Addons
      /\ pc' \in {"off", "idle"} /\ crashes' \in 0..MaxCrashes /\ installed \subseteq Addons
  BY ConstantsAssumption DEF End, Recover, IInv, TypeOK
<1>2. DocSound(profiles', active', installed')
  BY <1>1 DEF document, IInv
<1> QED
  BY <1>1, <1>2, DocumentInv DEF document

\* The initial document is the default one.
LEMMA InitInv == Init => IInv
<1> SUFFICES ASSUME Init PROVE IInv
  OBVIOUS
<1>1. DocSound(profiles, active, installed) /\ profiles \in Seq(Profile)
  BY DefaultSound DEF Init
<1>2. active \in 0..MaxProfiles /\ crashes \in 0..MaxCrashes
  BY ConstantsAssumption DEF Init
<1> QED
  BY <1>1, <1>2 DEF Init, IInv, TypeOK

\* Every step keeps the invariant.
LEMMA NextInv == IInv /\ [Next]_vars => IInv'
<1> SUFFICES ASSUME IInv, [Next]_vars PROVE IInv'
  OBVIOUS
<1>1. CASE Edit
  BY <1>1, AddInv, RenameInv, SelectInv, OrderInv, InstallInv DEF Edit
<1>2. CASE UNCHANGED vars
  BY <1>2 DEF vars, document, IInv, TypeOK
<1> QED
  BY <1>1, <1>2, StartInv, SaveInv, MarkerInv DEF Next

\* The document in memory and the one in the file stay sound through every edit, save,
\* crash and restart.
THEOREM Invariance == Spec => []IInv
BY InitInv, NextInv, PTL DEF Spec

\* Every variable keeps its type: the profiles are as many, and their ids as large, as
\* the bound allows.
THEOREM TypeCorrect == Spec => []TypeOK
<1>1. IInv => TypeOK
  BY DEF IInv
<1> QED
  BY <1>1, Invariance, PTL

\* The document always has its active profile, ids and names tell profiles apart, and
\* no profile lists an add-on twice.
THEOREM DocumentsAreSound == Spec => []DocumentSound
<1>1. IInv => DocumentSound
  <2> SUFFICES ASSUME IInv PROVE DocumentSound
    OBVIOUS
  <2>1. ASSUME NEW i \in DOMAIN profiles
        PROVE  Cardinality(Listed(profiles[i])) = Len(profiles[i].addons)
    <3>1. profiles[i] \in Profile
      BY DocProfiles DEF IInv, DocSound
    <3>2. Single(profiles[i].addons)
      BY DEF IInv, DocSound, ListSound
    <3> QED
      BY <3>1, <3>2, SingleCounts
  <2> QED
    BY <2>1 DEF DocumentSound, IInv, DocSound
<1> QED
  BY <1>1, Invariance, PTL

\* Every installed add-on is in every profile.
THEOREM ProfilesListInstalled == Spec => []InstalledEverywhere
<1>1. IInv => InstalledEverywhere
  BY DEF IInv, DocSound, ListSound, InstalledEverywhere, Listed, Ids
<1> QED
  BY <1>1, Invariance, PTL

\* Auto-load is on for installed add-ons only, and never for the package manager.
THEOREM OnlyInstalledAutoLoad == Spec => []AutoLoadsInstalled
<1>1. IInv => AutoLoadsInstalled
  <2> SUFFICES ASSUME IInv, NEW i \in DOMAIN profiles
               PROVE  AutoLoaded(profiles[i]) \subseteq installed \ {VanaHub}
    BY DEF AutoLoadsInstalled
  <2>1. AutosIn(profiles[i].addons, installed \ {VanaHub})
    BY DEF IInv, DocSound, ListSound
  <2> QED
    BY <2>1 DEF AutosIn, AutoLoaded
<1> QED
  BY <1>1, Invariance, PTL

\* A start reads the document back as it was saved, if the add-ons it would load are
\* there.
THEOREM StartReadsBack == Spec => StartKeepsDocument
<1>1. IInv /\ [Next]_vars =>
        [pc = "off" /\ pc' = "remove" /\ file # NoFile =>
           ((\A i \in DOMAIN file.profiles : AutoLoaded(file.profiles[i]) \subseteq marked) =>
              profiles' = file.profiles /\ active' = file.active)]_vars
  <2> SUFFICES ASSUME IInv, Next, pc = "off", pc' = "remove", file # NoFile,
                      \A i \in DOMAIN file.profiles :
                        AutoLoaded(file.profiles[i]) \subseteq marked
               PROVE  profiles' = file.profiles /\ active' = file.active
    OBVIOUS
  <2>1. CASE Start
    <3>1. /\ installed' = file.installed \cap marked
          /\ profiles' = Normalize(file, installed').profiles
          /\ active' = Normalize(file, installed').active
      BY <2>1 DEF Start
    <3>2. file \in Documents /\ DocSound(file.profiles, file.active, file.installed)
      BY DEF IInv, TypeOK
    <3>3. installed' \in SUBSET file.installed
      BY <3>1
    <3>4. ASSUME NEW i \in DOMAIN file.profiles
          PROVE  AutosIn(file.profiles[i].addons, installed' \ {VanaHub})
      <4>1. AutosIn(file.profiles[i].addons, file.installed \ {VanaHub})
        BY <3>2 DEF DocSound, ListSound
      <4>2. AutoLoaded(file.profiles[i]) \subseteq marked
        OBVIOUS
      <4> QED
        BY <3>1, <4>1, <4>2 DEF AutosIn, AutoLoaded
    <3> QED
      BY <3>1, <3>2, <3>3, <3>4, NormalizeSaved
  <2>2. ~(RemoveFile \/ RenameFile \/ End \/ \E a \in Addons : Recover(a))
    BY DEF RemoveFile, RenameFile, End, Recover
  <2>3. ~Edit
    BY DEF Edit, New, Duplicate, Add, RemoveProfile, Rename, Select, Move, SetAutoLoad,
           Installed, Adopt, Uninstalled, Import, EditProfiles, Change
  <2> QED
    BY <2>1, <2>2, <2>3 DEF Next
<1> QED
  BY <1>1, Invariance, PTL DEF Spec, StartKeepsDocument
=============================================================================
