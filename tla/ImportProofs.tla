---------------------------- MODULE ImportProofs ----------------------------
(***************************************************************************)
(* Theorems of ProfileArchives and of LuaScanner: what a profile archive   *)
(* holds, how it comes to hold it, and what is found of a settings file.   *)
(*                                                                         *)
(* The induction over the entries of an archive, and over the characters   *)
(* of a file, is that of the loops: the invariants say what a loop has     *)
(* done of what it is to do.  A sum is defined by recursion; what holds of *)
(* it for every archive is shown by the least prefix for which it fails.   *)
(***************************************************************************)
EXTENDS ProfileArchives, LuaScanner, FiniteSetTheorems, WellFoundedInduction, TLAPS

\* A set of numbers with a member has a least one.
LEMMA LeastExists ==
  ASSUME NEW S \in SUBSET Nat, S # {}
  PROVE  \E n \in S : \A m \in S : n <= m
<1> DEFINE R == OpToRel(<, Nat)
<1>1. IsWellFoundedOn(R, Nat)
  BY NatLessThanWellFounded
<1>2. \A x, y \in Nat : <<x, y>> \in R <=> x < y
  BY DEF OpToRel
<1> HIDE DEF R
<1>3. PICK n \in S : \A m \in S : ~(<<m, n>> \in R)
  BY <1>1, WFMin
<1>4. ASSUME NEW m \in S PROVE n <= m
  <2>1. n \in Nat /\ m \in Nat
    OBVIOUS
  <2>2. ~(m < n)
    BY <1>2, <1>3, <2>1
  <2> QED
    BY <2>1, <2>2
<1> QED
  BY <1>4

\* Induction over the numbers up to n, for a set of them.
LEMMA UpToInduction ==
  ASSUME NEW n \in Nat, NEW S, 0 \in S, \A i \in 0..(n - 1) : i \in S => i + 1 \in S
  PROVE  \A i \in 0..n : i \in S
<1> DEFINE Bad == {i \in 0..n : i \notin S}
<1>1. SUFFICES ASSUME Bad # {} PROVE FALSE
  OBVIOUS
<1>2. Bad \in SUBSET Nat
  OBVIOUS
<1> HIDE DEF Bad
<1>3. PICK m \in Bad : \A i \in Bad : m <= i
  BY <1>1, <1>2, LeastExists
<1>4. m \in 0..n /\ m \notin S
  BY <1>3 DEF Bad
<1>5. m # 0 /\ m - 1 \in 0..(n - 1)
  BY <1>4
<1>6. m - 1 \in S
  <2>1. m - 1 \notin Bad
    BY <1>3, <1>4, <1>5
  <2> QED
    BY <1>4, <1>5, <2>1 DEF Bad
<1>7. m \in S
  BY <1>4, <1>5, <1>6
<1> QED
  BY <1>4, <1>7
-----------------------------------------------------------------------------
(* Sums                                                                    *)

\* The partial sums of the weights of the first n contents of s.
Adds(f, weight, s, n) ==
  /\ f \in [0..n -> Nat] /\ f[0] = 0
  /\ \A i \in 1..n : f[i] = f[i - 1] + weight[s[i].content]

\* The weight of an entry is a number.
LEMMA WeightNatural ==
  ASSUME NEW weight \in [Contents -> Nat], NEW s \in Seq(Entries), NEW i \in 1..Len(s)
  PROVE  weight[s[i].content] \in Nat
<1>1. s[i] \in Entries
  OBVIOUS
<1> QED
  BY <1>1 DEF Entries

\* Every archive has partial sums: one longer prefix after the other.
LEMMA AddsExists ==
  ASSUME NEW weight \in [Contents -> Nat], NEW s \in Seq(Entries)
  PROVE  \E f : Adds(f, weight, s, Len(s))
<1> DEFINE Good == {n \in 0..Len(s) : \E f : Adds(f, weight, s, n)}
<1>1. 0 \in Good
  <2>1. Adds([i \in 0..0 |-> 0], weight, s, 0)
    BY DEF Adds
  <2> QED
    BY <2>1
<1>2. ASSUME NEW n \in 0..(Len(s) - 1), n \in Good PROVE n + 1 \in Good
  <2>1. PICK f : Adds(f, weight, s, n)
    BY <1>2
  <2> DEFINE g == [i \in 0..(n + 1) |-> IF i = n + 1 THEN f[n] + weight[s[n + 1].content] ELSE f[i]]
  <2>2. f[n] + weight[s[n + 1].content] \in Nat
    BY <2>1, WeightNatural DEF Adds
  <2>3. g \in [0..(n + 1) -> Nat] /\ g[0] = 0
    BY <2>1, <2>2 DEF Adds
  <2>4. ASSUME NEW i \in 1..(n + 1) PROVE g[i] = g[i - 1] + weight[s[i].content]
    <3>1. CASE i = n + 1
      BY <3>1
    <3>2. CASE i # n + 1
      BY <2>1, <3>2 DEF Adds
    <3> QED
      BY <3>1, <3>2
  <2>5. Adds(g, weight, s, n + 1)
    BY <2>3, <2>4 DEF Adds
  <2> HIDE DEF g
  <2> QED
    BY <2>5
<1> HIDE DEF Good
<1>3. Len(s) \in Good
  <2>1. Len(s) \in Nat
    OBVIOUS
  <2>2. \A n \in 0..(Len(s) - 1) : n \in Good => n + 1 \in Good
    BY <1>2
  <2>3. \A n \in 0..Len(s) : n \in Good
    BY <1>1, <2>1, <2>2, UpToInduction
  <2> QED
    BY <2>1, <2>3
<1> QED
  BY <1>3 DEF Good

\* Sum is the last of the partial sums.
LEMMA SumIs ==
  ASSUME NEW weight \in [Contents -> Nat], NEW s \in Seq(Entries), NEW f,
         Adds(f, weight, s, Len(s))
  PROVE  Sum(weight, s) = f[Len(s)]
<1> DEFINE Equation(h) ==
      h = [i \in 0..Len(s) |-> IF i = 0 THEN 0 ELSE h[i - 1] + weight[s[i].content]]
    F == CHOOSE h : Equation(h)
<1>1. Equation(f)
  BY DEF Adds
<1>2. Equation(F)
  BY <1>1
<1>3. Sum(weight, s) = F[Len(s)]
  BY DEF Sum
<1> HIDE DEF F
<1> DEFINE Same == {n \in 0..Len(s) : f[n] = F[n]}
<1>4. 0 \in Same
  BY <1>2 DEF Adds
<1>5. ASSUME NEW n \in 0..(Len(s) - 1), n \in Same PROVE n + 1 \in Same
  <2>1. n + 1 \in 1..Len(s) /\ (n + 1) - 1 = n
    OBVIOUS
  <2>2. F[n + 1] = F[n] + weight[s[n + 1].content]
    BY <1>2, <2>1
  <2>3. f[n + 1] = f[n] + weight[s[n + 1].content]
    BY <2>1 DEF Adds
  <2> QED
    BY <1>5, <2>1, <2>2, <2>3
<1> HIDE DEF Same
<1>6. Len(s) \in Same
  <2>1. \A i \in 0..(Len(s) - 1) : i \in Same => i + 1 \in Same
    BY <1>5
  <2>2. Len(s) \in Nat /\ Len(s) \in 0..Len(s)
    OBVIOUS
  <2>3. \A i \in 0..Len(s) : i \in Same
    BY <1>4, <2>1, <2>2, UpToInduction
  <2> QED
    BY <2>2, <2>3
<1> QED
  BY <1>3, <1>6 DEF Same

\* A sum over an archive with one entry more.
LEMMA SumAppend ==
  ASSUME NEW weight \in [Contents -> Nat], NEW s \in Seq(Entries), NEW e \in Entries
  PROVE  Sum(weight, Append(s, e)) = Sum(weight, s) + weight[e.content] /\ Sum(weight, s) \in Nat
<1> DEFINE t == Append(s, e)
<1>1. /\ t \in Seq(Entries) /\ Len(s) \in Nat /\ Len(t) = Len(s) + 1 /\ t[Len(t)] = e
      /\ \A i \in 1..Len(s) : t[i] = s[i]
  OBVIOUS
<1> HIDE DEF t
<1>2. PICK f : Adds(f, weight, t, Len(t))
  BY <1>1, AddsExists
<1>3. f \in [0..(Len(s) + 1) -> Nat] /\ f[Len(s) + 1] = f[Len(s)] + weight[e.content]
  BY <1>1, <1>2 DEF Adds
<1> DEFINE g == [i \in 0..Len(s) |-> f[i]]
<1>4. Adds(g, weight, s, Len(s))
  BY <1>1, <1>2, <1>3 DEF Adds
<1>5. Sum(weight, s) = f[Len(s)]
  BY <1>1, <1>4, SumIs
<1>6. Sum(weight, t) = f[Len(s) + 1]
  BY <1>1, <1>2, SumIs
<1> QED
  BY <1>1, <1>3, <1>5, <1>6 DEF t

\* A sum over an archive of one entry.
LEMMA SumOne ==
  ASSUME NEW weight \in [Contents -> Nat], NEW e \in Entries
  PROVE  Sum(weight, <<e>>) = weight[e.content]
<1> DEFINE f == [i \in 0..1 |-> IF i = 0 THEN 0 ELSE weight[e.content]]
<1>1. <<e>> \in Seq(Entries) /\ Len(<<e>>) = 1 /\ <<e>>[1] = e
  OBVIOUS
<1>2. Adds(f, weight, <<e>>, Len(<<e>>))
  BY <1>1 DEF Adds, Entries
<1>3. Sum(weight, <<e>>) = f[Len(<<e>>)]
  BY <1>1, <1>2, SumIs
<1> QED
  BY <1>1, <1>3
-----------------------------------------------------------------------------
(* The invariant of the archives                                           *)

Exporting == pc \in {"files", "add"}
Pending == IF pc = "add" THEN {current} ELSE {}
Listed(s) == {s[i].name : i \in DOMAIN s}

\* What is in the archive that is being written, and what is still to come.
ExportInv == Exporting =>
  /\ part \in Seq(Entries) /\ Len(part) >= 1 /\ part[1].name = Manifest
  /\ \A i \in DOMAIN part : part[i].name \in Names \ todo
  /\ \A i, j \in DOMAIN part : part[i].name = part[j].name => i = j
  /\ \A e \in Pending :
       /\ e \in [name : AllSettings, content : Contents] /\ e.name \notin todo \cup Listed(part)
       /\ Accepted(e) /\ Size[e.content] <= MaxEntry /\ Len(part) < MaxEntries
  /\ Len(part) <= MaxEntries
  /\ stable \subseteq omitted \cup todo \cup Listed(part) \cup {e.name : e \in Pending}

\* As long as no file was written between its scan and its archiving, what has been
\* scanned is what has been archived, and has been counted.
SizeInv == Exporting /\ raced = {} =>
  /\ \A i \in DOMAIN part : Accepted(part[i]) /\ Size[part[i].content] <= MaxEntry
  /\ expanded = Total(part) + (IF pc = "add" THEN Size[current.content] ELSE 0)
  /\ expanded <= MaxTotal

\* The entries that the second pass has come past, or is at.
Extracted == 1..(IF pc = "scan" THEN entry ELSE entry - 1)
Holds(dir, n) ==
  \/ dir[n] = None /\ (id \in short \/ \A i \in Extracted : archive[i].name # n)
  \/ dir[n] # None /\ \E i \in Extracted : archive[i] = Entry(n, dir[n])
Vetted(dir, n) ==
  \/ answer = "failed" \/ dir[n] = None \/ Accepted(Entry(n, dir[n]))
  \/ pc = "scan" /\ archive[entry].name = n

\* An inspection has in its directory entries that it has come past and nothing else, if
\* the directory could be emptied, and all of them unless it has skipped some; as long
\* as it has found no error, they are accepted but for the one that is being scanned.
InspectInv ==
  /\ pc \in {"clear", "extract", "scan", "reject"} => reported = None
  /\ pc \in {"clear", "extract", "scan"} =>
       /\ archive \in Seq(Entries) /\ entry <= Len(archive) + 1
       /\ pc = "clear" => entry = 1
       /\ pc = "scan" =>
            /\ entry <= Len(archive)
            /\ archive[entry].name # Other => staging[id][archive[entry].name] = archive[entry].content
       /\ pc # "clear" /\ id \notin uncleared =>
            \A n \in Names : Holds(staging[id], n) /\ Vetted(staging[id], n)

ArchiveInv == TypeOK /\ ExportInv /\ SizeInv /\ InspectInv /\ StagingIsTheArchive

\* Names of files, of add-ons' settings and of the manifest are different.
LEMMA NameFacts ==
  /\ AllSettings \subseteq Names /\ Manifest \in Names /\ Manifest \notin AllSettings
  /\ Other \notin Names
  /\ \A n \in AllSettings, c \in Contents :
       /\ Entry(n, c) \in [name : AllSettings, content : Contents] /\ Entry(n, c) \in Entries
       /\ Accepted(Entry(n, c)) <=> c \in Clean
  /\ \A c \in Contents : Entry(Manifest, c) \in Entries /\ (Accepted(Entry(Manifest, c)) <=> c \in Manifests)
  /\ [name : AllSettings, content : Contents] \subseteq Entries
<1>1. Manifest \notin AllSettings
  BY DEF Manifest, AllSettings, Settings, Setting
<1>2. AllSettings \subseteq Names /\ Manifest \in Names
  BY DEF Names
<1>3. Other \notin Names
  BY DEF Other, Names, Manifest, AllSettings, Settings, Setting
<1> QED
  BY <1>1, <1>2, <1>3 DEF Entry, Entries, Accepted

\* What can be read of an archive that was not closed, or is looked at before an error,
\* is an archive.
LEMMA PrefixIs ==
  ASSUME NEW s \in Seq(Entries), NEW k \in 0..Len(s)
  PROVE  SubSeq(s, 1, k) \in Seq(Entries)
OBVIOUS

\* The invariant holds before the first job.
LEMMA ArchiveInit == Init => ArchiveInv
<1> SUFFICES ASSUME Init PROVE ArchiveInv
  OBVIOUS
<1>1. TypeOK
  <2>1. staging \in [1..MaxJob -> [Names -> Contents \cup {None}]]
    BY DEF Init, Empty
  <2>2. cancelled \in BOOLEAN
    BY DEF Init
  <2>4. id \in 0..MaxJob
    BY ConstantsAssumption DEF Init
  <2>3. {output, part, archive} \subseteq Seq(Entries) \cup {None}
    BY DEF Init
  <2> QED
    BY <2>1, <2>2, <2>3, <2>4 DEF Init, TypeOK
<1>2. ExportInv /\ SizeInv /\ InspectInv
  BY DEF Init, ExportInv, SizeInv, InspectInv, Exporting
<1>3. StagingIsTheArchive
  BY DEF Init, StagingIsTheArchive
<1> QED
  BY <1>1, <1>2, <1>3 DEF ArchiveInv
-----------------------------------------------------------------------------
(* Types                                                                   *)

\* Removing a directory, or some of it, changes no other.
LEMMA RemoveAllType ==
  ASSUME TypeOK, NEW j \in 1..MaxJob, RemoveAll(j)
  PROVE  /\ staging' \in [1..MaxJob -> [Names -> Contents \cup {None}]] /\ faults' \in Nat
         /\ \A i \in 1..MaxJob : i # j => staging'[i] = staging[i]
<1>1. staging \in [1..MaxJob -> [Names -> Contents \cup {None}]] /\ faults \in Nat
  BY DEF TypeOK
<1>2. CASE Works /\ staging' = [staging EXCEPT ![j] = Empty]
  <2>1. Empty \in [Names -> Contents \cup {None}]
    BY DEF Empty
  <2> QED
    BY <1>1, <1>2, <2>1 DEF Works
<1>3. ASSUME NEW kept \in SUBSET {n \in Names : staging[j][n] # None}, Fails,
             staging' = [staging EXCEPT ![j] = [n \in Names |-> IF n \in kept THEN @[n] ELSE None]]
      PROVE  /\ staging' \in [1..MaxJob -> [Names -> Contents \cup {None}]] /\ faults' \in Nat
             /\ \A i \in 1..MaxJob : i # j => staging'[i] = staging[i]
  <2> DEFINE d == [n \in Names |-> IF n \in kept THEN staging[j][n] ELSE None]
  <2>1. d \in [Names -> Contents \cup {None}]
    BY <1>1
  <2>2. staging' = [staging EXCEPT ![j] = d]
    BY <1>3
  <2> HIDE DEF d
  <2> QED
    BY <1>1, <1>3, <2>1, <2>2 DEF Fails
<1> QED
  BY <1>2, <1>3 DEF RemoveAll

\* The steps of an export keep the types.
LEMMA ExportTypes == ASSUME ArchiveInv, Export PROVE TypeOK'
<1> USE DEF ArchiveInv
<1>1. ASSUME NEW ids \in SUBSET Addons, NEW m \in Contents, StartExport(ids, m) PROVE TypeOK'
  <2>1. UNION {Settings(a) : a \in ids} \cap Present \subseteq AllSettings
    BY DEF AllSettings, Present
  <2>2. <<Entry(Manifest, m)>> \in Seq(Entries)
    BY NameFacts
  <2>3. cancelled' \in BOOLEAN
    BY <1>1 DEF StartExport, Start
  <2>4. id' \in 1..MaxJob /\ Size[m] \in Nat
    BY <1>1, ConstantsAssumption DEF StartExport, Start, TypeOK
  <2>5. faults' \in Nat
    BY <1>1 DEF StartExport, TypeOK, Works, Fails
  <2>6. todo' \subseteq AllSettings /\ stable' \subseteq AllSettings /\ raced' = {} /\ omitted' = {}
        /\ expanded' \in Nat /\ current' = None
    BY <1>1, <2>1, <2>4 DEF StartExport, TypeOK, NoExport
  <2>7. part' \in Seq(Entries) \cup {None} /\ pc' \in {"files", "idle"} /\ answer' \in {"none", "failed"}
    BY <1>1, <2>2 DEF StartExport, TypeOK
  <2> QED
    BY <1>1, <2>3, <2>4, <2>5, <2>6, <2>7, ConstantsAssumption
       DEF StartExport, Start, TypeOK, inspecting, counters
<1>2. ASSUME NEW n \in AllSettings, ScanFile(n) PROVE TypeOK'
  <2>1. config[n] \in Clean => /\ config[n] \in Contents /\ expanded + Size[config[n]] \in Nat
                               /\ Entry(n, config[n]) \in [name : AllSettings, content : Contents]
    <3>1. expanded \in Nat
      BY DEF TypeOK
    <3> HIDE DEF ArchiveInv
    <3>2. config[n] \in Clean => config[n] \in Contents
      BY ConstantsAssumption
    <3>3. \A c \in Contents : Size[c] \in Nat
      BY ConstantsAssumption
    <3> QED
      BY <3>1, <3>2, <3>3, NameFacts
  <2>2. todo' \subseteq AllSettings /\ pc' \in {"add", "abort"} /\ id # 0
        /\ current' \in [name : AllSettings, content : Contents] \cup {None}
        /\ expanded' \in Nat /\ answer' \in {"none", "ok", "failed"}
    BY <1>2, <2>1 DEF ScanFile, TypeOK
  <2>3. UNCHANGED <<config, output, part, archive, staging, downloads, uncleared, short, id, reported>>
        /\ UNCHANGED <<kind, cancelled, entry, raced, omitted, stable, sessions, writes>>
    BY <1>2 DEF ScanFile, ExportStep, jobVars, inspecting, counters
  <2>4. faults' \in Nat
    BY <1>2 DEF ScanFile, TypeOK, Works, Fails
  <2> QED
    BY <2>2, <2>3, <2>4 DEF TypeOK
<1>3. CASE AddFile
  <2>1. current \in [name : AllSettings, content : Contents]
    BY <1>3 DEF AddFile, ExportInv, Exporting, Pending
  <2>2. /\ part \in Seq(Entries)
        /\ config[current.name] # None => Entry(current.name, config[current.name]) \in Entries
    BY <1>3, <2>1, NameFacts DEF AddFile, ExportInv, Exporting, TypeOK
  <2>3. faults' \in Nat
    BY <1>3 DEF AddFile, TypeOK, Works, Fails
  <2>4. part' \in Seq(Entries)
    BY <1>3, <2>2 DEF AddFile
  <2>5. raced' \subseteq AllSettings
    BY <1>3, <2>1 DEF AddFile, TypeOK
  <2> QED
    BY <1>3, <2>3, <2>4, <2>5 DEF AddFile, TypeOK, ExportStep, jobVars, inspecting, counters
<1>4. ASSUME NEW a \in Addons, StopListing(a) PROVE TypeOK'
  BY <1>4 DEF StopListing, TypeOK, ExportStep, Fails, jobVars, inspecting, counters
<1>5. CASE Commit
  <2>1. faults' \in Nat
    BY <1>5 DEF Commit, TypeOK, Works, Fails
  <2>2. part \in Seq(Entries) /\ \A k \in 0..Len(part) : SubSeq(part, 1, k) \in Seq(Entries)
    BY <1>5, PrefixIs DEF Commit, ExportInv, Exporting
  <2>3. output' \in Seq(Entries) \cup {None}
    BY <1>5, <2>2 DEF Commit, TypeOK
  <2> QED
    BY <1>5, <2>1, <2>3 DEF Commit, TypeOK, ExportStep, NoExport, exporting, jobVars, inspecting, counters
<1>6. CASE Abort
  <2>1. faults' \in Nat
    BY <1>6 DEF Abort, TypeOK, Works, Fails
  <2> QED
    BY <1>6, <2>1 DEF Abort, Goto, TypeOK, ExportStep, NoExport, jobVars, inspecting, counters
<1> QED
  BY <1>1, <1>2, <1>3, <1>4, <1>5, <1>6 DEF Export

\* So do those of an inspection.
LEMMA InspectionTypes == ASSUME ArchiveInv, Inspection PROVE TypeOK'
<1> USE DEF ArchiveInv
<1>1. ASSUME NEW k \in {"inspect", "catalog"}, NEW s \in Received \cup ({output} \ {None}),
             StartInspect(k, s)
      PROVE  TypeOK'
  <2>1. s \in Seq(Entries)
    BY ConstantsAssumption DEF TypeOK
  <2>2. id' \in 1..MaxJob
    BY <1>1, ConstantsAssumption DEF StartInspect, Start, TypeOK
  <2>4. cancelled' \in BOOLEAN
    BY <1>1 DEF StartInspect, Start
  <2>5. archive' \in Seq(Entries) \cup {None} /\ pc' \in {"idle", "clear", "reject"}
        /\ answer' \in {"none", "failed"}
    BY <1>1, <2>1 DEF StartInspect
  <2>3. downloads' \subseteq 1..MaxJob
    BY <1>1, <2>2 DEF StartInspect, Start, Downloaded, TypeOK
  <2>6. faults' \in Nat
    BY <1>1 DEF StartInspect, TypeOK, Works, Fails
  <2> QED
    BY <1>1, <2>2, <2>3, <2>4, <2>5, <2>6, ConstantsAssumption
       DEF StartInspect, Start, InspectStep, TypeOK, exporting, counters
<1>2. CASE Clear
  <2>1. id \in 1..MaxJob
    BY <1>2, ConstantsAssumption DEF Clear, Goto, TypeOK
  <2>2. staging' \in [1..MaxJob -> [Names -> Contents \cup {None}]] /\ faults' \in Nat
    BY <1>2, <2>1, RemoveAllType DEF Clear
  <2> QED
    BY <1>2, <2>1, <2>2 DEF Clear, Goto, InspectStep, TypeOK, exporting, counters, jobVars
<1>3. CASE Extract
  <2>1. id \in 1..MaxJob /\ archive[entry] \in Entries
    BY <1>3, ConstantsAssumption DEF Extract, More, InspectInv, TypeOK
  <2>2. archive[entry].content \in Contents /\ archive[entry].name \in Names \cup {Other}
    BY <2>1 DEF Entries
  <2>3. faults' \in Nat
    BY <1>3 DEF Extract, TypeOK, Works, Fails
  <2> DEFINE d == [staging[id] EXCEPT ![archive[entry].name] = archive[entry].content]
  <2>4. archive[entry].name # Other => d \in [Names -> Contents \cup {None}]
    BY <2>1, <2>2 DEF TypeOK
  <2>5. staging' = staging \/ (archive[entry].name # Other /\ staging' = [staging EXCEPT ![id] = d])
    BY <1>3 DEF Extract
  <2> HIDE DEF d
  <2>6. staging' \in [1..MaxJob -> [Names -> Contents \cup {None}]]
    BY <2>1, <2>4, <2>5 DEF TypeOK
  <2> QED
    BY <1>3, <2>3, <2>6 DEF Extract, InspectStep, TypeOK, exporting, counters, jobVars
<1>4. CASE Scan
  <2>1. faults' \in Nat
    BY <1>4 DEF Scan, TypeOK, Works, Fails
  <2> QED
    BY <1>4, <2>1 DEF Scan, InspectStep, TypeOK, exporting, counters, jobVars
<1>7. CASE SkipEntries
  <2>1. entry' \in Nat \ {0} /\ faults' \in Nat /\ short' \subseteq 1..MaxJob
    BY <1>7, ConstantsAssumption DEF SkipEntries, More, InspectInv, TypeOK, Fails
  <2> QED
    BY <1>7, <2>1 DEF SkipEntries, InspectStep, TypeOK, exporting, counters, jobVars
<1>5. CASE Inspected
  <2>1. id \in 1..MaxJob
    BY <1>5, ConstantsAssumption DEF Inspected, TypeOK
  <2>2. /\ pc' \in {"reject", "idle"} /\ answer' \in {"failed", "ok"}
        /\ reported' \in {reported, id} /\ downloads' \subseteq downloads
    BY <1>5 DEF Inspected
  <2> QED
    BY <1>5, <2>1, <2>2
       DEF Inspected, Works, InspectStep, TypeOK, exporting, counters, jobVars, inspecting
<1>6. CASE Reject
  <2>1. id \in 1..MaxJob
    BY <1>6, ConstantsAssumption DEF Reject, Goto, TypeOK
  <2>2. staging' \in [1..MaxJob -> [Names -> Contents \cup {None}]] /\ faults' \in Nat
    BY <1>6, <2>1, RemoveAllType DEF Reject
  <2>3. /\ UNCHANGED <<config, output, part, todo, current, expanded, raced, omitted, stable>>
        /\ UNCHANGED <<sessions, writes, id, kind, cancelled, uncleared, short, answer, reported>>
        /\ pc' = "idle" /\ archive' = None /\ entry' = 1 /\ downloads' = downloads \ {id}
    BY <1>6 DEF Reject, Goto, InspectStep, exporting, counters, jobVars, inspecting
  <2>4. downloads' \subseteq 1..MaxJob
    BY <2>3 DEF TypeOK
  <2>5. {output, part, archive}' \subseteq Seq(Entries) \cup {None}
    BY <2>3 DEF TypeOK
  <2>6. raced' \cup omitted' \cup stable' \subseteq AllSettings
    BY <2>3 DEF TypeOK
  <2> HIDE DEF ArchiveInv
  <2>7. UNCHANGED <<config, todo, current, expanded, sessions, writes, id, kind, cancelled>>
        /\ UNCHANGED <<uncleared, short, answer, reported>> /\ pc' = "idle" /\ entry' = 1
    BY <2>3
  <2>8. TypeOK
    BY DEF ArchiveInv
  <2> QED
    BY <2>2, <2>4, <2>5, <2>6, <2>7, <2>8 DEF TypeOK
<1> QED
  BY <1>1, <1>2, <1>3, <1>4, <1>5, <1>6, <1>7 DEF Inspection

\* So do those of the client, the add-ons and a restart.
LEMMA OtherTypes ==
  ASSUME ArchiveInv, Cancel \/ (\E a \in Addons : Restore(a)) \/ Discard \/ AddonWrites \/ Restart
  PROVE  TypeOK'
<1> USE DEF ArchiveInv
<1>1. CASE Cancel
  BY <1>1 DEF Cancel, TypeOK, exporting, inspecting, counters
<1>2. ASSUME NEW a \in Addons, Restore(a) PROVE TypeOK'
  <2>1. reported \in 1..MaxJob
    BY <1>2 DEF Restore, ClientStep, TypeOK
  <2>2. \A n \in AllSettings : staging[reported][n] \in Contents \cup {None}
    BY <2>1, NameFacts DEF TypeOK
  <2>3. config' \in [AllSettings -> Contents \cup {None}]
    BY <1>2, <2>2 DEF Restore, TypeOK
  <2> QED
    BY <1>2, <2>3 DEF Restore, ClientStep, Works, TypeOK, exporting, jobVars, counters
<1>3. CASE Discard
  <2>1. reported \in 1..MaxJob
    BY <1>3 DEF Discard, ClientStep, TypeOK
  <2>2. staging' \in [1..MaxJob -> [Names -> Contents \cup {None}]] /\ faults' \in Nat
    BY <1>3, <2>1, RemoveAllType DEF Discard, TypeOK
  <2> QED
    BY <1>3, <2>2 DEF Discard, ClientStep, TypeOK, exporting, jobVars, counters
<1>4. CASE AddonWrites
  BY <1>4 DEF AddonWrites, TypeOK, jobVars, inspecting
<1>5. CASE Restart
  <2>1. cancelled' \in BOOLEAN
    BY <1>5 DEF Restart
  <2>2. id' \in 0..MaxJob /\ sessions' \in Nat
    BY <1>5, ConstantsAssumption DEF Restart, TypeOK
  <2> QED
    BY <1>5, <2>1, <2>2 DEF Restart, NoExport, TypeOK
<1> QED
  BY <1>1, <1>2, <1>3, <1>4, <1>5
-----------------------------------------------------------------------------
(* Exports                                                                 *)

\* An export archives each file once, and forgets none that is there all the time.
LEMMA ExportKept == ASSUME ArchiveInv, Export PROVE ExportInv'
<1> USE DEF ArchiveInv
<1>1. ASSUME NEW ids \in SUBSET Addons, NEW m \in Contents, StartExport(ids, m) PROVE ExportInv'
  <2>1. UNION {Settings(a) : a \in ids} \cap Present \subseteq AllSettings
    BY DEF AllSettings, Present
  <2> SUFFICES ASSUME Exporting' PROVE ExportInv'
    BY DEF ExportInv
  <2>2. /\ pc' = "files" /\ part' = <<Entry(Manifest, m)>> /\ stable' = todo'
        /\ todo' = UNION {Settings(a) : a \in ids} \cap Present
    BY <1>1 DEF StartExport, Exporting
  <2>3. part'[1] = Entry(Manifest, m) /\ DOMAIN part' = {1} /\ Len(part') = 1
    BY <2>2
  <2>4. part' \in Seq(Entries) /\ part'[1].name = Manifest /\ Manifest \in Names \ todo'
    BY <2>1, <2>2, <2>3, NameFacts DEF Entry
  <2>5. Pending' = {}
    BY <2>2 DEF Pending
  <2> HIDE DEF ArchiveInv
  <2> QED
    BY <2>2, <2>3, <2>4, <2>5, ConstantsAssumption DEF ExportInv
<1>2. ASSUME NEW n \in AllSettings, ScanFile(n) PROVE ExportInv'
  <2> SUFFICES ASSUME Exporting' PROVE ExportInv'
    BY DEF ExportInv
  <2>1. /\ pc = "files" /\ n \in todo /\ todo' = todo \ {n} /\ part' = part /\ pc' = "add"
        /\ config[n] \in Clean /\ Size[config[n]] <= MaxEntry /\ Fits(config[n])
        /\ current' = Entry(n, config[n]) /\ omitted' = omitted /\ stable' = stable
    BY <1>2 DEF ScanFile, Exporting
  <2>2. Entry(n, config[n]) \in [name : AllSettings, content : Contents] /\ Accepted(Entry(n, config[n]))
    BY <2>1, NameFacts, ConstantsAssumption
  <2>3. Entry(n, config[n]).name = n /\ Entry(n, config[n]).content = config[n]
    BY DEF Entry
  <2>4. /\ part \in Seq(Entries) /\ Len(part) >= 1 /\ part[1].name = Manifest
        /\ \A i \in DOMAIN part : part[i].name \in Names \ todo
        /\ \A i, j \in DOMAIN part : part[i].name = part[j].name => i = j
        /\ stable \subseteq omitted \cup todo \cup Listed(part)
    BY <2>1 DEF ExportInv, Exporting, Pending
  <2>5. Pending' = {Entry(n, config[n])} /\ Listed(part)' = Listed(part)
    BY <2>1 DEF Pending, Listed
  <2>6. n \notin Listed(part)
    BY <2>1, <2>4 DEF Listed
  <2>7. Len(part) < MaxEntries
    BY <2>1, <2>4, ConstantsAssumption DEF Fits
  <2>8. stable' \subseteq omitted' \cup todo' \cup Listed(part') \cup {e.name : e \in Pending'}
    BY <2>1, <2>3, <2>4, <2>5
  <2> HIDE DEF ArchiveInv
  <2> QED
    BY <2>1, <2>2, <2>3, <2>4, <2>5, <2>6, <2>7, <2>8, ConstantsAssumption DEF ExportInv
<1>3. CASE AddFile
  <2> SUFFICES ASSUME Exporting' PROVE ExportInv'
    BY DEF ExportInv
  <2> DEFINE e == Entry(current.name, config[current.name])
  <2>1. /\ pc = "add" /\ pc' = "files" /\ part' = Append(part, e) /\ config[current.name] # None
        /\ todo' = todo /\ omitted' = omitted /\ stable' = stable
    BY <1>3 DEF AddFile, Exporting
  <2>2. /\ part \in Seq(Entries) /\ Len(part) >= 1 /\ part[1].name = Manifest
        /\ \A i \in DOMAIN part : part[i].name \in Names \ todo
        /\ \A i, j \in DOMAIN part : part[i].name = part[j].name => i = j
        /\ current \in [name : AllSettings, content : Contents]
        /\ current.name \notin todo \cup Listed(part)
        /\ Len(part) < MaxEntries
        /\ stable \subseteq omitted \cup todo \cup Listed(part) \cup {current.name}
    BY <2>1 DEF ExportInv, Exporting, Pending
  <2>3. e.name = current.name /\ e \in Entries /\ current.name \in Names
    BY <2>1, <2>2, NameFacts DEF TypeOK, Entry
  <2> HIDE DEF ArchiveInv, e
  <2>4. /\ Append(part, e) \in Seq(Entries) /\ Len(Append(part, e)) = Len(part) + 1
        /\ DOMAIN Append(part, e) = DOMAIN part \cup {Len(part) + 1}
        /\ Append(part, e)[Len(part) + 1] = e
        /\ \A i \in DOMAIN part : Append(part, e)[i] = part[i]
        /\ 1 \in DOMAIN part
    BY <2>2, <2>3
  <2>5. Pending' = {}
    BY <2>1 DEF Pending
  <2>6. Listed(part') = Listed(part) \cup {current.name}
    BY <2>1, <2>3, <2>4 DEF Listed
  <2>7. Len(part) \in Nat /\ Len(part) + 1 <= MaxEntries
    BY <2>2, ConstantsAssumption
  <2>8. \A i \in DOMAIN part' : part'[i].name \in Names \ todo'
    BY <2>1, <2>2, <2>3, <2>4
  <2>9. \A i, j \in DOMAIN part' : part'[i].name = part'[j].name => i = j
    BY <2>1, <2>2, <2>3, <2>4 DEF Listed
  <2> QED
    BY <2>1, <2>2, <2>4, <2>5, <2>6, <2>7, <2>8, <2>9 DEF ExportInv
<1>4. ASSUME NEW a \in Addons, StopListing(a) PROVE ExportInv'
  <2>1. /\ pc = "files" /\ pc' = "files" /\ part' = part /\ stable' = stable
        /\ todo' = todo \ Settings(a) /\ omitted' = omitted \cup (todo \cap Settings(a))
    BY <1>4 DEF StopListing
  <2> QED
    BY <2>1 DEF ExportInv, Exporting, Pending, Listed
<1>5. CASE Commit
  BY <1>5 DEF Commit, ExportInv, Exporting
<1>6. CASE Abort
  BY <1>6 DEF Abort, Goto, ExportInv, Exporting
<1> QED
  BY <1>1, <1>2, <1>3, <1>4, <1>5, <1>6 DEF Export

\* What an export has scanned is accepted and within the limits, and expanded is
\* its size.
LEMMA SizeKept == ASSUME ArchiveInv, Export PROVE SizeInv'
<1> USE DEF ArchiveInv
<1>w. Size \in [Contents -> Nat] /\ MaxTotal \in Nat
  BY ConstantsAssumption
<1>1. ASSUME NEW ids \in SUBSET Addons, NEW m \in Contents, StartExport(ids, m) PROVE SizeInv'
  <2> SUFFICES ASSUME Exporting' PROVE SizeInv'
    BY DEF SizeInv
  <2> DEFINE e == Entry(Manifest, m)
  <2>1. pc' = "files" /\ part' = <<e>> /\ expanded' = Size[m] /\ m \in Manifests
    BY <1>1 DEF StartExport, Exporting
  <2>2. e \in Entries /\ Accepted(e) /\ e.content = m
    BY <2>1, NameFacts DEF Entry
  <2> HIDE DEF e, ArchiveInv
  <2>3. Total(part') = Size[m] /\ Size[m] \in Nat
    BY <1>w, <2>1, <2>2, SumOne DEF Total
  <2>4. DOMAIN part' = {1} /\ part'[1] = e
    BY <2>1
  <2>5. Total(part)' = Total(part')
    BY DEF Total, Sum
  <2> QED
    BY <1>w, <2>1, <2>2, <2>3, <2>4, <2>5, ConstantsAssumption DEF SizeInv
<1>2. ASSUME NEW n \in AllSettings, ScanFile(n) PROVE SizeInv'
  <2> SUFFICES ASSUME Exporting', raced' = {} PROVE SizeInv'
    BY DEF SizeInv
  <2>1. /\ pc = "files" /\ part' = part /\ pc' = "add" /\ raced = {}
        /\ config[n] \in Clean /\ Fits(config[n])
        /\ current' = Entry(n, config[n]) /\ expanded' = expanded + Size[config[n]]
    BY <1>2 DEF ScanFile, Exporting
  <2>2. Total(part)' = Total(part) /\ current'.content = config[n]
    BY <2>1 DEF Total, Sum, Entry
  <2>3. part \in Seq(Entries) /\ expanded = Total(part)
    BY <2>1, <1>w, SumAppend DEF SizeInv, Exporting, ExportInv, Total, TypeOK
  <2> QED
    BY <2>1, <2>2, <2>3 DEF SizeInv, Exporting, Fits, TypeOK
<1>3. CASE AddFile
  <2> SUFFICES ASSUME Exporting', raced' = {} PROVE SizeInv'
    BY DEF SizeInv
  <2> DEFINE e == Entry(current.name, config[current.name])
  <2>1. /\ pc = "add" /\ pc' = "files" /\ part' = Append(part, e) /\ raced = {}
        /\ config[current.name] = current.content /\ expanded' = expanded
    BY <1>3 DEF AddFile, Exporting
  <2>2. /\ part \in Seq(Entries) /\ current \in [name : AllSettings, content : Contents]
        /\ Accepted(current) /\ Size[current.content] <= MaxEntry
    BY <2>1 DEF ExportInv, Exporting, Pending
  <2>3. e = current
    BY <2>1, <2>2 DEF Entry
  <2>4. current \in Entries
    BY <2>2, NameFacts
  <2>5. /\ \A i \in DOMAIN part : Accepted(part[i]) /\ Size[part[i].content] <= MaxEntry
        /\ expanded = Total(part) + Size[current.content] /\ expanded <= MaxTotal
    BY <2>1 DEF SizeInv, Exporting
  <2> HIDE DEF e, ArchiveInv
  <2>6. Total(part') = Total(part) + Size[current.content]
    BY <1>w, <2>1, <2>2, <2>3, <2>4, SumAppend DEF Total
  <2>7. Total(part)' = Total(part')
    BY DEF Total, Sum
  <2>8. \A i \in DOMAIN part' : part'[i] = current \/ (i \in DOMAIN part /\ part'[i] = part[i])
    BY <2>1, <2>2, <2>3, <2>4
  <2>9. \A i \in DOMAIN part' : Accepted(part'[i]) /\ Size[part'[i].content] <= MaxEntry
    BY <2>2, <2>5, <2>8
  <2>10. expanded' = Total(part') + 0
    <3>1. Total(part) \in Nat /\ Size[current.content] \in Nat
      BY <1>w, <2>2, <2>4, SumAppend DEF Total
    <3> QED
      BY <2>1, <2>5, <2>6, <3>1
  <2> QED
    BY <2>1, <2>5, <2>7, <2>9, <2>10 DEF SizeInv
<1>4. ASSUME NEW a \in Addons, StopListing(a) PROVE SizeInv'
  BY <1>4 DEF StopListing, SizeInv, Exporting, Total, Sum
<1>5. CASE Commit
  BY <1>5 DEF Commit, SizeInv, Exporting
<1>6. CASE Abort
  BY <1>6 DEF Abort, Goto, SizeInv, Exporting
<1> QED
  BY <1>1, <1>2, <1>3, <1>4, <1>5, <1>6 DEF Export

\* Nothing but an export changes the archive that is being written; an add-on that
\* writes leaves it alone.
LEMMA ExportsRest ==
  ASSUME ArchiveInv, Inspection \/ Cancel \/ (\E a \in Addons : Restore(a)) \/ Discard
                     \/ AddonWrites \/ Restart \/ UNCHANGED vars
  PROVE  ExportInv' /\ SizeInv'
<1> USE DEF ArchiveInv
<1>1. ASSUME pc' \notin {"files", "add"} PROVE ExportInv' /\ SizeInv'
  BY <1>1 DEF ExportInv, SizeInv, Exporting
<1>2. ASSUME UNCHANGED <<part, pc, todo, current, expanded, raced, omitted>>, stable' \subseteq stable
      PROVE  ExportInv' /\ SizeInv'
  <2>1. Exporting' = Exporting /\ Pending' = Pending /\ Listed(part)' = Listed(part)
        /\ Total(part)' = Total(part)
    BY <1>2 DEF Exporting, Pending, Listed, Total, Sum
  <2> QED
    BY <1>2, <2>1 DEF ExportInv, SizeInv
<1>3. CASE Inspection
  <2>1. pc' \notin {"files", "add"}
    BY <1>3 DEF Inspection, StartInspect, Clear, Extract, SkipEntries, Scan, Inspected, Reject, Goto
  <2> QED
    BY <1>1, <2>1
<1>4. CASE Cancel
  BY <1>2, <1>4 DEF Cancel, exporting
<1>5. CASE (\E a \in Addons : Restore(a)) \/ Discard \/ Restart
  BY <1>1, <1>5 DEF Restore, Discard, ClientStep, Restart
<1>6. CASE AddonWrites
  BY <1>2, <1>6 DEF AddonWrites
<1>7. CASE UNCHANGED vars
  BY <1>2, <1>7 DEF vars, exporting
<1> QED
  BY <1>3, <1>4, <1>5, <1>6, <1>7
-----------------------------------------------------------------------------
(* Inspections                                                             *)

\* What is there when the next entry has been extracted.
LEMMA ExtractKept == ASSUME ArchiveInv, Extract PROVE InspectInv'
<1> USE DEF ArchiveInv
<1>1. /\ pc = "extract" /\ reported' = reported /\ archive' = archive /\ entry' = entry /\ id' = id
      /\ uncleared' = uncleared /\ short' = short /\ entry <= Len(archive) /\ pc' \in {"scan", "reject"}
  BY DEF Extract, More, jobVars
<1>2. CASE pc' = "reject"
  BY <1>1, <1>2 DEF InspectInv
<1>3. CASE pc' = "scan"
  <2> DEFINE n0 == archive[entry].name
             c0 == archive[entry].content
             d == IF n0 = Other THEN staging[id] ELSE [staging[id] EXCEPT ![n0] = c0]
  <2>1. archive \in Seq(Entries) /\ reported = None
        /\ (id \notin uncleared => \A n \in Names : Holds(staging[id], n) /\ Vetted(staging[id], n))
    BY <1>1 DEF InspectInv
  <2>2. id \in 1..MaxJob /\ archive[entry] \in Entries /\ entry \in 1..Len(archive)
    BY <1>1, <2>1, ConstantsAssumption DEF TypeOK
  <2>3. c0 \in Contents /\ c0 # None /\ archive[entry] = Entry(n0, c0) /\ n0 \in Names \cup {Other}
    BY <2>2, ConstantsAssumption DEF Entries, Entry
  <2>4. staging[id] \in [Names -> Contents \cup {None}]
    BY <2>2 DEF TypeOK
  <2>5. (n0 # Other => d[n0] = c0) /\ \A n \in Names \ {n0} : d[n] = staging[id][n]
    BY <2>3, <2>4
  <2>6. staging' = [staging EXCEPT ![id] = d]
    <3>1. CASE n0 = Other
      BY <1>3, <2>2, <3>1 DEF Extract, TypeOK
    <3>2. CASE n0 # Other
      BY <1>3, <3>2 DEF Extract
    <3> QED
      BY <3>1, <3>2
  <2> HIDE DEF d
  <2>7. staging'[id] = d
    BY <2>2, <2>6 DEF TypeOK
  <2>8. answer' = answer
    BY <1>3 DEF Extract
  <2>9. Extracted = 1..(entry - 1) /\ Extracted' = 1..entry /\ entry \in Nat \ {0}
    BY <1>1, <1>3 DEF Extracted, TypeOK
  <2>10. ASSUME NEW n \in Names, Holds(staging[id], n), Vetted(staging[id], n)
         PROVE  Holds(staging[id], n)' /\ Vetted(staging[id], n)'
    <3>1. CASE n = n0
      <4>1. d[n] = c0
        BY <2>5, <3>1, NameFacts
      <4>2. Holds(staging[id], n)'
        BY <1>1, <2>2, <2>3, <2>7, <2>9, <3>1, <4>1 DEF Holds
      <4>3. Vetted(staging[id], n)'
        BY <1>1, <1>3, <3>1 DEF Vetted
      <4> QED
        BY <4>2, <4>3
    <3>2. CASE n # n0
      <4>1. d[n] = staging[id][n]
        BY <2>5, <3>2
      <4>2. Vetted(staging[id], n)'
        BY <1>1, <2>7, <2>8, <2>10, <4>1 DEF Vetted
      <4>3. CASE d[n] = None /\ (id \in short \/ \A i \in Extracted : archive[i].name # n)
        BY <1>1, <2>7, <2>9, <3>2, <4>2, <4>3 DEF Holds
      <4>4. CASE d[n] # None /\ \E i \in Extracted : archive[i] = Entry(n, d[n])
        BY <1>1, <2>7, <2>9, <4>2, <4>4 DEF Holds
      <4> QED
        BY <2>10, <4>1, <4>3, <4>4 DEF Holds
    <3> QED
      BY <3>1, <3>2
  <2>11. n0 # Other => staging'[id][n0] = c0
    BY <2>5, <2>7
  <2> QED
    BY <1>1, <1>3, <2>1, <2>10, <2>11 DEF InspectInv, TypeOK
<1> QED
  BY <1>1, <1>2, <1>3

\* The entries before a later one.
LEMMA IntervalGrows ==
  ASSUME NEW m \in Nat, NEW n \in Nat, m < n PROVE 1..(m - 1) \subseteq 1..(n - 1)
OBVIOUS

\* An inspection that passes entries over has not extracted them, and is known as short.
LEMMA SkipEntriesKept == ASSUME ArchiveInv, SkipEntries PROVE InspectInv'
<1> USE DEF ArchiveInv
<1>1. /\ pc = "extract" /\ pc' = pc /\ reported' = reported /\ archive' = archive /\ id' = id
      /\ uncleared' = uncleared /\ staging' = staging /\ answer' = answer /\ short' = short \cup {id}
      /\ entry <= Len(archive) /\ entry' \in {entry + 1, Len(archive) + 1}
  BY DEF SkipEntries, More, jobVars
<1>2. /\ archive \in Seq(Entries) /\ reported = None /\ entry \in Nat \ {0}
      /\ id \notin uncleared => \A n \in Names : Holds(staging[id], n) /\ Vetted(staging[id], n)
  BY <1>1 DEF InspectInv, TypeOK
<1>3. entry' <= Len(archive) + 1 /\ Extracted \subseteq Extracted'
  <2>1. /\ Len(archive) \in Nat /\ entry \in Nat /\ entry' \in Nat
        /\ entry < entry' /\ entry' <= Len(archive) + 1
    BY <1>1, <1>2
  <2>2. Extracted = 1..(entry - 1) /\ Extracted' = 1..(entry' - 1)
    BY <1>1 DEF Extracted
  <2> HIDE DEF ArchiveInv
  <2>3. 1..(entry - 1) \subseteq 1..(entry' - 1)
    BY <2>1, IntervalGrows
  <2> QED
    BY <2>1, <2>2, <2>3
<1>4. ASSUME NEW n \in Names, Holds(staging[id], n), Vetted(staging[id], n)
      PROVE  Holds(staging[id], n)' /\ Vetted(staging[id], n)'
  <2>1. Holds(staging[id], n)'
    BY <1>1, <1>3, <1>4 DEF Holds
  <2>2. Vetted(staging[id], n)'
    BY <1>1, <1>4 DEF Vetted
  <2> QED
    BY <2>1, <2>2
<1> QED
  BY <1>1, <1>2, <1>3, <1>4 DEF InspectInv

\* The entry that has been scanned is accepted, or an error has been found.
LEMMA ScanKept == ASSUME ArchiveInv, Scan PROVE InspectInv'
<1> USE DEF ArchiveInv
<1>1. /\ pc = "scan" /\ archive' = archive /\ entry' = entry + 1 /\ reported' = reported /\ id' = id
      /\ staging' = staging /\ uncleared' = uncleared /\ short' = short /\ pc' \in {"extract", "reject"}
      /\ answer' = "failed" \/ (answer' = answer /\ Accepted(archive[entry]))
  BY DEF Scan, jobVars
<1>2. /\ archive \in Seq(Entries) /\ entry <= Len(archive) /\ reported = None
      /\ archive[entry].name # Other => staging[id][archive[entry].name] = archive[entry].content
      /\ id \notin uncleared => \A n \in Names : Holds(staging[id], n) /\ Vetted(staging[id], n)
  BY <1>1 DEF InspectInv
<1>3. entry \in Nat \ {0} /\ Len(archive) \in Nat /\ archive[entry] \in Entries
  BY <1>2 DEF TypeOK
<1>4. CASE pc' = "reject"
  BY <1>1, <1>2, <1>4 DEF InspectInv
<1>5. CASE pc' = "extract"
  <2>1. Extracted' = Extracted /\ entry' <= Len(archive') + 1
    BY <1>1, <1>2, <1>3, <1>5 DEF Extracted
  <2>2. ASSUME NEW n \in Names, Holds(staging[id], n), Vetted(staging[id], n)
        PROVE  Holds(staging[id], n)' /\ Vetted(staging[id], n)'
    <3>1. Holds(staging[id], n)'
      BY <1>1, <2>1, <2>2 DEF Holds
    <3>2. CASE answer' = "failed" \/ archive[entry].name # n
      BY <1>1, <2>2, <3>1, <3>2 DEF Vetted
    <3>3. CASE answer' # "failed" /\ archive[entry].name = n
      <4>1. n # Other
        BY NameFacts
      <4>2. archive[entry] = Entry(n, staging[id][n])
        BY <1>2, <1>3, <3>3, <4>1 DEF Entries, Entry
      <4> QED
        BY <1>1, <3>1, <3>3, <4>2 DEF Vetted
    <3> QED
      BY <3>1, <3>2, <3>3
  <2> QED
    BY <1>1, <1>2, <1>5, <2>1, <2>2 DEF InspectInv
<1> QED
  BY <1>1, <1>4, <1>5

\* An inspection has in its directory entries it has come past, and no others.
LEMMA InspectKept == ASSUME ArchiveInv, Inspection PROVE InspectInv'
<1> USE DEF ArchiveInv
<1>1. ASSUME NEW k \in {"inspect", "catalog"}, NEW s \in Received \cup ({output} \ {None}),
             StartInspect(k, s)
      PROVE  InspectInv'
  <2>1. s \in Seq(Entries)
    BY ConstantsAssumption DEF TypeOK
  <2>2. /\ reported' = None /\ entry' = 1 /\ pc' \in {"idle", "clear", "reject"}
        /\ pc' = "clear" => archive' = s
    BY <1>1 DEF StartInspect
  <2>3. Len(s) \in Nat
    BY <2>1
  <2> QED
    BY <2>1, <2>2, <2>3 DEF InspectInv
<1>2. CASE Clear
  <2>1. /\ pc = "clear" /\ pc' = "extract" /\ archive' = archive /\ entry' = entry /\ answer' = answer
        /\ reported' = reported /\ id' = id
        /\ id \notin uncleared' => staging'[id] = Empty
    BY <1>2 DEF Clear, Goto, jobVars
  <2>2. entry = 1 /\ archive \in Seq(Entries) /\ reported = None /\ entry <= Len(archive) + 1
    BY <2>1 DEF InspectInv
  <2>3. ASSUME id \notin uncleared', NEW n \in Names
        PROVE  Holds(staging[id], n)' /\ Vetted(staging[id], n)'
    BY <2>1, <2>2, <2>3 DEF Holds, Extracted, Empty, Vetted
  <2> QED
    BY <2>1, <2>2, <2>3 DEF InspectInv
<1>3. CASE Extract
  BY <1>3, ExtractKept
<1>4. CASE SkipEntries
  BY <1>4, SkipEntriesKept
<1>5. CASE Scan
  BY <1>5, ScanKept
<1>6. CASE Inspected
  <2>1. pc = "extract" /\ (pc' = "idle" \/ (pc' = "reject" /\ reported' = reported))
    BY <1>6 DEF Inspected
  <2> QED
    BY <2>1 DEF InspectInv
<1>7. CASE Reject
  BY <1>7 DEF Reject, Goto, InspectInv
<1> QED
  BY <1>1, <1>2, <1>3, <1>4, <1>5, <1>6, <1>7 DEF Inspection

\* What is reported has been gone through to its last entry, and accepted.
LEMMA InspectionReports == ASSUME ArchiveInv, Inspection PROVE StagingIsTheArchive'
<1> USE DEF ArchiveInv
<1>1. ASSUME reported' = None PROVE StagingIsTheArchive'
  BY <1>1 DEF StagingIsTheArchive
<1>2. CASE \E k \in {"inspect", "catalog"}, s \in Received \cup ({output} \ {None}) : StartInspect(k, s)
  BY <1>1, <1>2 DEF StartInspect
<1>3. CASE Clear \/ Extract \/ SkipEntries \/ Scan \/ Reject
  <2>1. pc \in {"clear", "extract", "scan", "reject"} /\ reported' = reported
    BY <1>3 DEF Clear, Extract, SkipEntries, Scan, Reject, Goto
  <2> QED
    BY <1>1, <2>1 DEF InspectInv
<1>4. CASE Inspected
  <2>1. CASE cancelled \/ answer = "failed"
    <3>1. pc = "extract" /\ reported' = reported
      BY <1>4, <2>1 DEF Inspected
    <3> QED
      BY <1>1, <3>1 DEF InspectInv
  <2>2. CASE ~(cancelled \/ answer = "failed")
    <3>1. /\ pc = "extract" /\ ~(entry <= Len(archive)) /\ reported' = id
          /\ staging' = staging /\ archive' = archive /\ uncleared' = uncleared /\ short' = short
      BY <1>4, <2>2 DEF Inspected, More, inspecting
    <3>2. /\ archive \in Seq(Entries) /\ entry <= Len(archive) + 1
          /\ id \notin uncleared => \A n \in Names : Holds(staging[id], n) /\ Vetted(staging[id], n)
      BY <3>1 DEF InspectInv
    <3>3. entry \in Nat /\ Len(archive) \in Nat /\ DOMAIN archive = 1..Len(archive)
      BY <3>2 DEF TypeOK
    <3>4. Extracted = DOMAIN archive
      BY <3>1, <3>2, <3>3 DEF Extracted
    <3>5. ASSUME id \notin uncleared, NEW n \in Names
          PROVE  LET c == staging[id][n]
                 IN IF c = None THEN id \in short \/ \A i \in DOMAIN archive : archive[i].name # n
                    ELSE Accepted(Entry(n, c)) /\ \E i \in DOMAIN archive : archive[i] = Entry(n, c)
      <4>1. Holds(staging[id], n) /\ Vetted(staging[id], n)
        BY <3>2, <3>5
      <4> QED
        BY <2>2, <3>1, <3>4, <4>1 DEF Holds, Vetted
    <3> QED
      BY <3>1, <3>5 DEF StagingIsTheArchive
  <2> QED
    BY <2>1, <2>2
<1> QED
  BY <1>2, <1>3, <1>4 DEF Inspection

\* Exports, the client, add-ons and a restart leave what was inspected alone or forget it.
LEMMA InspectionsRest ==
  ASSUME ArchiveInv, Export \/ Cancel \/ (\E a \in Addons : Restore(a)) \/ Discard
                     \/ AddonWrites \/ Restart \/ UNCHANGED vars
  PROVE  InspectInv' /\ StagingIsTheArchive'
<1> USE DEF ArchiveInv
<1>1. ASSUME UNCHANGED <<staging, archive, reported, uncleared, short>> PROVE StagingIsTheArchive'
  BY <1>1 DEF StagingIsTheArchive
<1>2. ASSUME pc' \notin {"clear", "extract", "scan", "reject"} PROVE InspectInv'
  BY <1>2 DEF InspectInv
<1>3. CASE Export
  <2>1. UNCHANGED <<staging, archive, reported, uncleared, short>>
    BY <1>3 DEF Export, StartExport, ScanFile, AddFile, StopListing, Commit, Abort, ExportStep, inspecting
  <2>2. pc' \notin {"clear", "extract", "scan", "reject"}
    BY <1>3 DEF Export, StartExport, ScanFile, AddFile, StopListing, Commit, Abort, Goto
  <2> QED
    BY <1>1, <1>2, <2>1, <2>2
<1>4. CASE Cancel \/ UNCHANGED vars
  <2>1. UNCHANGED <<staging, archive, reported, uncleared, short, pc, id, entry, answer>>
    BY <1>4 DEF Cancel, vars, inspecting, jobVars
  <2>2. \A n \in Names : /\ Holds(staging[id], n)' = Holds(staging[id], n)
                         /\ Vetted(staging[id], n)' = Vetted(staging[id], n)
    BY <2>1 DEF Holds, Extracted, Vetted
  <2> QED
    BY <1>1, <2>1, <2>2 DEF InspectInv
<1>5. CASE \E a \in Addons : Restore(a)
  BY <1>1, <1>2, <1>5 DEF Restore, ClientStep
<1>6. CASE Discard \/ Restart
  BY <1>2, <1>6 DEF Discard, ClientStep, Restart, StagingIsTheArchive
<1>7. CASE AddonWrites
  BY <1>1, <1>2, <1>7 DEF AddonWrites, inspecting
<1> QED
  BY <1>3, <1>4, <1>5, <1>6, <1>7
-----------------------------------------------------------------------------
(* Theorems of ProfileArchives                                             *)

\* The invariant holds through exports, inspections, faults, cancels and restarts.
THEOREM ArchiveInvariance == Spec => []ArchiveInv
<1>1. ASSUME ArchiveInv, [Next]_vars PROVE ArchiveInv'
  <2>1. TypeOK'
    <3>1. CASE UNCHANGED vars
      BY <1>1, <3>1 DEF ArchiveInv, TypeOK, vars, exporting, inspecting, counters, jobVars
    <3> QED
      BY <1>1, <3>1, ExportTypes, InspectionTypes, OtherTypes DEF Next
  <2>2. ExportInv' /\ SizeInv'
    BY <1>1, ExportKept, SizeKept, ExportsRest DEF Next
  <2>3. InspectInv' /\ StagingIsTheArchive'
    BY <1>1, InspectKept, InspectionReports, InspectionsRest DEF Next
  <2> QED
    BY <2>1, <2>2, <2>3 DEF ArchiveInv
<1> QED
  BY ArchiveInit, <1>1, PTL DEF Spec

\* Every variable of the profile archives stays in its type.
THEOREM ArchiveTypeCorrect == Spec => []TypeOK
<1>1. ArchiveInv => TypeOK
  BY DEF ArchiveInv
<1> QED
  BY ArchiveInvariance, <1>1, PTL

\* For archives of any length and any limits, what the client restores settings from
\* is of the archive that inspectProfile examined, and all of it unless entries of the
\* archive were skipped.
THEOREM StagingFollowsTheArchive == Spec => []StagingIsTheArchive
<1>1. ArchiveInv => StagingIsTheArchive
  BY DEF ArchiveInv
<1> QED
  BY ArchiveInvariance, <1>1, PTL

\* Nothing but the last step of an export replaces the exported archive.
LEMMA OnlyCommitCommits == ASSUME ArchiveInv, [Next]_vars, output' # output PROVE Commit
<1>1. ASSUME Inspection PROVE output' = output
  BY <1>1 DEF Inspection, StartInspect, Clear, Extract, SkipEntries, Scan, Inspected, Reject, InspectStep
<1>2. ASSUME Cancel \/ (\E a \in Addons : Restore(a)) \/ Discard \/ AddonWrites \/ Restart PROVE output' = output
  BY <1>2 DEF Cancel, Restore, Discard, ClientStep, AddonWrites, Restart
<1>3. Commit
  BY <1>1, <1>2 DEF Next, vars, Export, StartExport, ScanFile, AddFile, StopListing, Abort
<1> QED
  BY <1>3

\* What exportProfile commits, inspectProfile accepts, but for the named exceptions.
THEOREM ExportsCanBeImported == Spec => ExportsAreImportable
<1>1. ASSUME ArchiveInv, [Next]_vars, output' # output, raced = {}, ~Dense(output'), output' = part,
             \A i \in DOMAIN output' : output'[i].name \notin ReservedSettings
      PROVE  Acceptable(output') /\ \A i \in DOMAIN output' : Accepted(output'[i])
  <2>1. pc = "files" /\ output' = part
    BY <1>1, OnlyCommitCommits DEF Commit
  <2>2. /\ part \in Seq(Entries) /\ Len(part) >= 1 /\ part[1].name = Manifest
        /\ \A i \in DOMAIN part : part[i].name \in Names
        /\ \A i, j \in DOMAIN part : part[i].name = part[j].name => i = j
        /\ Len(part) <= MaxEntries
    BY <1>1, <2>1 DEF ArchiveInv, ExportInv, Exporting
  <2>3. /\ \A i \in DOMAIN part : Accepted(part[i]) /\ Size[part[i].content] <= MaxEntry
        /\ expanded = Total(part) + 0 /\ expanded <= MaxTotal
    BY <1>1, <2>1 DEF ArchiveInv, SizeInv, Exporting
  <2>4. Total(part) \in Nat
    BY <2>2, SumAppend, ConstantsAssumption DEF Total
  <2>5. 1 \in DOMAIN part
    BY <2>2
  <2>6. NamesAccepted(part)
    BY <1>1, <2>2, <2>5 DEF NamesAccepted
  <2>7. WithinLimits(part)
    BY <2>2, <2>3, <2>4 DEF WithinLimits
  <2> QED
    BY <1>1, <2>1, <2>3, <2>6, <2>7 DEF Acceptable
<1>2. ArchiveInv /\ [Next]_vars =>
        [output' # output =>
           \/ Acceptable(output') /\ \A i \in DOMAIN output' : Accepted(output'[i])
           \/ TooLarge(output') \/ Dense(output') \/ raced # {} \/ output' # part
           \/ \E i \in DOMAIN output' : output'[i].name \in ReservedSettings]_vars
  BY <1>1
<1> QED
  BY ArchiveInvariance, <1>2, PTL DEF Spec, ExportsAreImportable

\* What exportProfile commits has every file that was there all the time.
THEOREM ExportsLoseNothing == Spec => ExportsAreComplete
<1>1. ASSUME ArchiveInv, [Next]_vars, output' # output, output' = part
      PROVE  stable \subseteq omitted \cup {output'[i].name : i \in DOMAIN output'}
  <2>1. pc = "files" /\ output' = part /\ todo = {}
    BY <1>1, OnlyCommitCommits DEF Commit
  <2> QED
    BY <1>1, <2>1 DEF ArchiveInv, ExportInv, Exporting, Pending, Listed
<1>2. ArchiveInv /\ [Next]_vars =>
        [output' # output =>
           \/ stable \subseteq omitted \cup {output'[i].name : i \in DOMAIN output'}
           \/ output' # part]_vars
  BY <1>1
<1> QED
  BY ArchiveInvariance, <1>2, PTL DEF Spec, ExportsAreComplete
-----------------------------------------------------------------------------
(* The least and the greatest of a set; texts                              *)

\* The least of some numbers is one of them.
LEMMA MinIs ==
  ASSUME NEW S \in SUBSET Nat, S # {}
  PROVE  Min(S) \in S /\ \A m \in S : Min(S) <= m
<1>1. \E n \in S : \A m \in S : n =< m
  BY LeastExists
<1> QED
  BY <1>1 DEF Min

\* A member that is at most all others is the least one.
LEMMA MinEquals ==
  ASSUME NEW S \in SUBSET Nat, NEW n \in S, \A m \in S : n <= m
  PROVE  Min(S) = n
<1>1. Min(S) \in S /\ Min(S) <= n
  BY MinIs
<1>2. Min(S) \in Nat /\ n \in Nat /\ n <= Min(S)
  BY <1>1
<1> QED
  BY <1>1, <1>2

\* The greatest of some bounded numbers is one of them.
LEMMA MaxIs ==
  ASSUME NEW n \in Nat, NEW S \in SUBSET (0..n), S # {}
  PROVE  Max(S) \in S /\ \A m \in S : m <= Max(S)
<1> DEFINE T == {n - x : x \in S}
<1>1. T \in SUBSET Nat /\ T # {}
  <2>1. \A x \in S : x \in 0..n
    OBVIOUS
  <2>2. \A x \in S : n - x \in Nat
    BY <2>1
  <2> QED
    BY <2>2
<1> HIDE DEF T
<1>2. PICK k \in T : \A m \in T : k <= m
  BY <1>1, LeastExists
<1>3. PICK x \in S : k = n - x
  BY <1>2 DEF T
<1>0. \A y \in S : y \in Nat
  <2>1. \A y \in S : y \in 0..n
    OBVIOUS
  <2> QED
    BY <2>1
<1>4. \A y \in S : x >= y
  <2> SUFFICES ASSUME NEW y \in S PROVE x >= y
    OBVIOUS
  <2>1. n - y \in T
    BY DEF T
  <2>2. n - x <= n - y
    BY <1>2, <1>3, <2>1
  <2>3. x \in Nat /\ y \in Nat
    BY <1>0
  <2> QED
    BY <2>2, <2>3
<1>5. \E z \in S : \A y \in S : z >= y
  BY <1>4
<1>6. Max(S) \in S /\ \A y \in S : Max(S) >= y
  BY <1>5 DEF Max
<1> QED
  BY <1>0, <1>6

\* A function on the positions of a text is a text.
LEMMA TextOf ==
  ASSUME NEW n \in Nat, NEW f \in [1..n -> Characters]
  PROVE  f \in Seq(Characters) /\ Len(f) = n
OBVIOUS

\* Texts that agree everywhere are one.
LEMMA SameText ==
  ASSUME NEW s \in Seq(Characters), NEW t \in Seq(Characters), Len(s) = Len(t),
         \A i \in 1..Len(s) : s[i] = t[i]
  PROVE  s = t
OBVIOUS

\* What the characters that are named are, and what they are not.
LEMMA CharacterFacts ==
  /\ Space \in Spaces /\ "\n" \in Spaces /\ Space # "\n" /\ Space \in Characters
  /\ "=" \notin Spaces /\ Spaces \cap Separators = {}
  /\ "-" \notin Quotes /\ "[" \notin Quotes
<1>1. Space \in Spaces /\ "\n" \in Spaces /\ Space # "\n"
  BY Zenon DEF Space, Spaces
<1>2. "=" \notin Spaces /\ Spaces \cap Separators = {}
  BY Zenon DEF Space, Spaces, Separators
<1>3. "-" \notin Quotes /\ "[" \notin Quotes
  BY Zenon DEF Quotes
<1> QED
  BY <1>1, <1>2, <1>3, ScannerAssumption
-----------------------------------------------------------------------------
(* The keys of tables                                                      *)

\* The first character after spaces.
LEMMA AfterIs ==
  ASSUME NEW t \in Seq(Characters), NEW i \in 1..(Len(t) + 1)
  PROVE  /\ After(t, i) \in i..(Len(t) + 1)
         /\ \A j \in i..(After(t, i) - 1) : t[j] \in Spaces
         /\ After(t, i) <= Len(t) => t[After(t, i)] \notin Spaces
<1> DEFINE S == {Len(t) + 1} \cup {j \in i..Len(t) : t[j] \notin Spaces}
<1>1. Len(t) \in Nat
  OBVIOUS
<1>2. S \in SUBSET Nat /\ S # {}
  OBVIOUS
<1>3. After(t, i) = Min(S)
  BY DEF After
<1> HIDE DEF S
<1>4. Min(S) \in S /\ \A m \in S : Min(S) <= m
  BY <1>2, MinIs
<1>5. Min(S) \in i..(Len(t) + 1) /\ (Min(S) <= Len(t) => t[Min(S)] \notin Spaces)
  BY <1>1, <1>4 DEF S
<1>6. ASSUME NEW j \in i..(Min(S) - 1) PROVE t[j] \in Spaces
  <2>1. j \in i..Len(t) /\ j < Min(S)
    BY <1>1, <1>5
  <2>2. j \notin S
    BY <1>1, <1>4, <1>5, <2>1
  <2> QED
    BY <2>1, <2>2 DEF S
<1> QED
  BY <1>3, <1>5, <1>6

\* The first character that is no space after a position, known by what is between.
LEMMA AfterEquals ==
  ASSUME NEW t \in Seq(Characters), NEW i \in 1..(Len(t) + 1), NEW k \in i..Len(t),
         \A j \in i..(k - 1) : t[j] \in Spaces, t[k] \notin Spaces
  PROVE  After(t, i) = k
<1>1. Len(t) \in Nat
  OBVIOUS
<1>2. /\ After(t, i) \in i..(Len(t) + 1)
      /\ \A j \in i..(After(t, i) - 1) : t[j] \in Spaces
      /\ After(t, i) <= Len(t) => t[After(t, i)] \notin Spaces
  BY AfterIs
<1>3. ~(After(t, i) < k)
  BY <1>1, <1>2
<1>4. ~(k < After(t, i))
  BY <1>1, <1>2
<1> QED
  BY <1>1, <1>2, <1>3, <1>4

\* The last character before spaces.
LEMMA BeforeIs ==
  ASSUME NEW t \in Seq(Characters), NEW i \in 0..Len(t)
  PROVE  /\ Before(t, i) \in 0..i
         /\ \A j \in (Before(t, i) + 1)..i : t[j] \in Spaces
         /\ Before(t, i) > 0 => t[Before(t, i)] \notin Spaces
<1> DEFINE S == {0} \cup {j \in 1..i : t[j] \notin Spaces}
<1>1. Len(t) \in Nat
  OBVIOUS
<1>2. S \in SUBSET (0..i) /\ S # {} /\ i \in Nat
  OBVIOUS
<1>3. Before(t, i) = Max(S)
  BY DEF Before
<1> HIDE DEF S
<1>4. Max(S) \in S /\ \A m \in S : m <= Max(S)
  BY <1>2, MaxIs
<1>5. Max(S) \in 0..i /\ (Max(S) > 0 => t[Max(S)] \notin Spaces)
  BY <1>1, <1>4 DEF S
<1>6. ASSUME NEW j \in (Max(S) + 1)..i PROVE t[j] \in Spaces
  <2>1. j \in 1..i /\ Max(S) < j
    BY <1>2, <1>5
  <2>2. j \notin S
    BY <1>2, <1>4, <1>5, <2>1
  <2> QED
    BY <2>1, <2>2 DEF S
<1> QED
  BY <1>3, <1>5, <1>6

\* The last character that is no space before a position, known by what is between.
LEMMA BeforeEquals ==
  ASSUME NEW t \in Seq(Characters), NEW i \in 0..Len(t), NEW k \in 1..i,
         \A j \in (k + 1)..i : t[j] \in Spaces, t[k] \notin Spaces
  PROVE  Before(t, i) = k
<1>1. Len(t) \in Nat
  OBVIOUS
<1>2. /\ Before(t, i) \in 0..i
      /\ \A j \in (Before(t, i) + 1)..i : t[j] \in Spaces
      /\ Before(t, i) > 0 => t[Before(t, i)] \notin Spaces
  BY BeforeIs
<1>3. ~(Before(t, i) < k)
  BY <1>1, <1>2
<1>4. ~(k < Before(t, i))
  BY <1>1, <1>2
<1> QED
  BY <1>1, <1>2, <1>3, <1>4

\* An identifier ends where its characters do.
LEMMA RunEndIs ==
  ASSUME NEW t \in Seq(Characters), NEW i \in 1..Len(t), Ident(t, i)
  PROVE  /\ RunEnd(t, i) \in (i + 1)..(Len(t) + 1)
         /\ \A j \in i..(RunEnd(t, i) - 1) : Ident(t, j)
         /\ ~Ident(t, RunEnd(t, i))
<1> DEFINE S == {Len(t) + 1} \cup {j \in i..Len(t) : ~Ident(t, j)}
<1>1. Len(t) \in Nat
  OBVIOUS
<1>2. S \in SUBSET Nat /\ S # {}
  OBVIOUS
<1>3. RunEnd(t, i) = Min(S)
  BY DEF RunEnd
<1>7. ~Ident(t, Len(t) + 1)
  BY DEF Ident
<1> HIDE DEF S
<1>4. Min(S) \in S /\ \A m \in S : Min(S) <= m
  BY <1>2, MinIs
<1>5. Min(S) \in i..(Len(t) + 1) /\ ~Ident(t, Min(S))
  BY <1>1, <1>4, <1>7 DEF S
<1>8. Min(S) # i
  BY <1>5
<1>6. ASSUME NEW j \in i..(Min(S) - 1) PROVE Ident(t, j)
  <2>1. j \in i..Len(t) /\ j < Min(S)
    BY <1>1, <1>5
  <2>2. j \notin S
    BY <1>1, <1>4, <1>5, <2>1
  <2> QED
    BY <2>1, <2>2 DEF S
<1> QED
  BY <1>1, <1>3, <1>5, <1>6, <1>8

\* The identifier from b to e is the key of a table.
KeyAt(t, b, e) == Letter(t, b) /\ (\A j \in b..(e - 1) : Ident(t, j)) /\ Key(t, b, e)

\* No key begins before n and goes on there.
Apart(t, n) == \A b, e \in 1..(Len(t) + 1) : b < e /\ KeyAt(t, b, e) => e <= n \/ n <= b

\* The text when the keys before n are masked.
KeySpots(t, n) == {i \in DOMAIN t : InKey(t, i) /\ i < n}
WithoutKeys(t, n) == [i \in DOMAIN t |-> IF i \in KeySpots(t, n) THEN Space ELSE t[i]]

\* A character of an identifier is neither a space, a separator nor an equals sign.
LEMMA IdentIs ==
  ASSUME NEW t, NEW i, Ident(t, i)
  PROVE  i \in DOMAIN t /\ t[i] \notin Spaces /\ t[i] \notin Separators /\ t[i] # "="
BY ScannerAssumption DEF Ident

\* What begins an identifier can go on with it.
LEMMA LetterIsIdent == \A t, i : Letter(t, i) => Ident(t, i)
BY DEF Letter, Ident

\* To be in a key is to be between the ends of one.
LEMMA InKeyIs ==
  ASSUME NEW t, NEW i
  PROVE  InKey(t, i) <=> \E b \in 1..i, e \in (i + 1)..(Len(t) + 1) : KeyAt(t, b, e)
BY DEF InKey, KeyAt

\* A key is a whole identifier; spaces and an equals sign come after it.
LEMMA KeyEdges ==
  ASSUME NEW t \in Seq(Characters), NEW b \in 1..(Len(t) + 1), NEW e \in 1..(Len(t) + 1), b < e,
         KeyAt(t, b, e)
  PROVE  /\ ~Ident(t, b - 1) /\ ~Ident(t, e)
         /\ After(t, e) \in e..Len(t) /\ t[After(t, e)] = "="
         /\ \A j \in e..(After(t, e) - 1) : t[j] \in Spaces
<1>1. Len(t) \in Nat /\ DOMAIN t = 1..Len(t)
  OBVIOUS
<1>2. /\ After(t, e) \in e..(Len(t) + 1)
      /\ \A j \in e..(After(t, e) - 1) : t[j] \in Spaces
  BY AfterIs
<1>3. After(t, e) \in DOMAIN t /\ t[After(t, e)] = "="
  BY DEF KeyAt, Key, At
<1>4. b - 1 \in 0..Len(t)
  BY <1>1
<1>5. /\ Before(t, b - 1) \in 0..(b - 1)
      /\ \A j \in (Before(t, b - 1) + 1)..(b - 1) : t[j] \in Spaces
  BY <1>4, BeforeIs
<1>6. Before(t, b - 1) \in DOMAIN t /\ t[Before(t, b - 1)] \in Separators
  BY DEF KeyAt, Key, At
<1>7. ~Ident(t, b - 1)
  <2>1. CASE Before(t, b - 1) = b - 1
    BY <1>6, <2>1, IdentIs
  <2>2. CASE Before(t, b - 1) # b - 1
    <3>1. b - 1 \in (Before(t, b - 1) + 1)..(b - 1)
      BY <1>1, <1>5, <2>2
    <3> QED
      BY <1>5, <3>1, IdentIs
  <2> QED
    BY <2>1, <2>2
<1>8. ~Ident(t, e)
  <2>1. CASE After(t, e) = e
    BY <1>3, <2>1, IdentIs
  <2>2. CASE After(t, e) # e
    <3>1. e \in e..(After(t, e) - 1)
      BY <1>1, <1>2, <2>2
    <3> QED
      BY <1>2, <3>1, IdentIs
  <2> QED
    BY <2>1, <2>2
<1> QED
  BY <1>1, <1>2, <1>3, <1>7, <1>8

\* Where no key goes on and no identifier begins there is no key.
LEMMA SkipApart ==
  ASSUME NEW t \in Seq(Characters), NEW n \in 1..Len(t), Apart(t, n), ~Letter(t, n)
  PROVE  Apart(t, n + 1) /\ ~InKey(t, n)
<1>1. Len(t) \in Nat
  OBVIOUS
<1>2. ASSUME NEW b \in 1..(Len(t) + 1), NEW e \in 1..(Len(t) + 1), KeyAt(t, b, e), b <= n, n < e
      PROVE  FALSE
  <2>1. e <= n \/ n <= b
    BY <1>1, <1>2 DEF Apart
  <2>2. b = n
    BY <1>1, <1>2, <2>1
  <2> QED
    BY <1>2, <2>2 DEF KeyAt
<1>3. ~InKey(t, n)
  <2> SUFFICES ASSUME NEW b \in 1..n, NEW e \in (n + 1)..(Len(t) + 1), KeyAt(t, b, e) PROVE FALSE
    BY InKeyIs
  <2>1. b \in 1..(Len(t) + 1) /\ e \in 1..(Len(t) + 1) /\ b <= n /\ n < e
    BY <1>1
  <2> QED
    BY <1>2, <2>1
<1>4. Apart(t, n + 1)
  <2> SUFFICES ASSUME NEW b \in 1..(Len(t) + 1), NEW e \in 1..(Len(t) + 1), b < e, KeyAt(t, b, e)
               PROVE  e <= n + 1 \/ n + 1 <= b
    BY DEF Apart
  <2> QED
    BY <1>1, <1>2
<1> QED
  BY <1>3, <1>4

\* An identifier that begins where no key goes on is a key as a whole or in no part.
LEMMA RunApart ==
  ASSUME NEW t \in Seq(Characters), NEW n \in 1..Len(t), Apart(t, n), Letter(t, n)
  PROVE  /\ Apart(t, RunEnd(t, n))
         /\ \A i \in n..(RunEnd(t, n) - 1) : InKey(t, i) <=> Key(t, n, RunEnd(t, n))
<1> DEFINE r == RunEnd(t, n)
<1>1. Len(t) \in Nat
  OBVIOUS
<1>2. r \in (n + 1)..(Len(t) + 1) /\ (\A j \in n..(r - 1) : Ident(t, j)) /\ ~Ident(t, r)
  BY RunEndIs, LetterIsIdent
<1> HIDE DEF r
<1>3. Apart(t, r)
  <2> SUFFICES ASSUME NEW b \in 1..(Len(t) + 1), NEW e \in 1..(Len(t) + 1), b < e, KeyAt(t, b, e),
                      ~(e <= r), ~(r <= b)
               PROVE  FALSE
    BY DEF Apart
  <2>1. r \in b..(e - 1)
    BY <1>1, <1>2
  <2> QED
    BY <1>2, <2>1 DEF KeyAt
<1>4. ASSUME NEW i \in n..(r - 1), Key(t, n, r) PROVE InKey(t, i)
  <2>1. n \in 1..i /\ r \in (i + 1)..(Len(t) + 1)
    BY <1>1, <1>2
  <2>2. KeyAt(t, n, r)
    BY <1>2, <1>4 DEF KeyAt
  <2> QED
    BY <2>1, <2>2, InKeyIs
<1>5. ASSUME NEW i \in n..(r - 1), InKey(t, i) PROVE Key(t, n, r)
  <2>1. PICK b \in 1..i, e \in (i + 1)..(Len(t) + 1) : KeyAt(t, b, e)
    BY <1>5, InKeyIs
  <2>2. b \in 1..(Len(t) + 1) /\ e \in 1..(Len(t) + 1) /\ b < e /\ n < e /\ b < r
    BY <1>1, <1>2
  <2>3. n <= b /\ e <= r
    BY <1>1, <1>2, <1>3, <2>1, <2>2 DEF Apart
  <2>4. ~Ident(t, b - 1) /\ ~Ident(t, e)
    BY <2>1, <2>2, KeyEdges
  <2>5. b = n
    <3>1. b # n => b - 1 \in n..(r - 1)
      BY <1>1, <1>2, <2>2, <2>3
    <3> QED
      BY <1>2, <2>4, <3>1
  <2>6. e = r
    <3>1. e # r => e \in n..(r - 1)
      BY <1>1, <1>2, <2>2, <2>3
    <3> QED
      BY <1>2, <2>4, <3>1
  <2> QED
    BY <2>1, <2>5, <2>6 DEF KeyAt
<1> QED
  BY <1>3, <1>4, <1>5 DEF r

\* A key is made of the characters of an identifier.
LEMMA InKeyIdent ==
  ASSUME NEW t \in Seq(Characters), NEW i \in Nat \ {0}, InKey(t, i)
  PROVE  Ident(t, i)
<1>1. PICK b \in 1..i, e \in (i + 1)..(Len(t) + 1) : KeyAt(t, b, e)
  BY InKeyIs
<1>2. i \in b..(e - 1)
  OBVIOUS
<1> QED
  BY <1>1, <1>2 DEF KeyAt

\* The text without keys, character by character.
LEMMA WithoutKeysIs ==
  ASSUME NEW t \in Seq(Characters), NEW n \in Nat
  PROVE  /\ WithoutKeys(t, n) \in Seq(Characters) /\ Len(WithoutKeys(t, n)) = Len(t)
         /\ DOMAIN WithoutKeys(t, n) = 1..Len(t) /\ DOMAIN t = 1..Len(t)
         /\ \A j \in 1..Len(t) : (InKey(t, j) /\ j < n => WithoutKeys(t, n)[j] = Space)
         /\ \A j \in 1..Len(t) : (~InKey(t, j) \/ ~(j < n) => WithoutKeys(t, n)[j] = t[j])
<1>1. DOMAIN t = 1..Len(t) /\ Len(t) \in Nat /\ \A j \in 1..Len(t) : t[j] \in Characters
  OBVIOUS
<1>2. WithoutKeys(t, n) \in [1..Len(t) -> Characters]
  BY <1>1, CharacterFacts DEF WithoutKeys
<1>3. \A j \in 1..Len(t) : j \in KeySpots(t, n) <=> InKey(t, j) /\ j < n
  BY <1>1 DEF KeySpots
<1>4. \A j \in 1..Len(t) : WithoutKeys(t, n)[j] = IF j \in KeySpots(t, n) THEN Space ELSE t[j]
  BY <1>1 DEF WithoutKeys
<1> QED
  BY <1>1, <1>2, <1>3, <1>4, TextOf

\* What comes before an identifier is the same when the keys before it are masked: an
\* equals sign stands between a key and the next identifier.
LEMMA MaskedBefore ==
  ASSUME NEW t \in Seq(Characters), NEW n \in 1..Len(t), Apart(t, n), Letter(t, n)
  PROVE  LET u == WithoutKeys(t, n) IN
         /\ Before(u, n - 1) = Before(t, n - 1)
         /\ Before(t, n - 1) > 0 => u[Before(t, n - 1)] = t[Before(t, n - 1)]
<1> DEFINE u == WithoutKeys(t, n)
           B == Before(u, n - 1)
<1>1. /\ u \in Seq(Characters) /\ Len(u) = Len(t) /\ DOMAIN t = 1..Len(t) /\ Len(t) \in Nat
      /\ \A j \in 1..Len(t) : (InKey(t, j) /\ j < n => u[j] = Space)
      /\ \A j \in 1..Len(t) : (~InKey(t, j) \/ ~(j < n) => u[j] = t[j])
  BY WithoutKeysIs
<1> HIDE DEF u
<1>2. n - 1 \in 0..Len(u) /\ n - 1 \in 0..Len(t)
  BY <1>1
<1>3. /\ B \in 0..(n - 1) /\ \A j \in (B + 1)..(n - 1) : u[j] \in Spaces
      /\ B > 0 => u[B] \notin Spaces
  BY <1>1, <1>2, BeforeIs
<1> HIDE DEF B
<1>4. ASSUME NEW j \in (B + 1)..(n - 1), t[j] \notin Spaces PROVE FALSE
  <2>1. j \in 1..Len(t) /\ j < n
    BY <1>1, <1>3
  <2>2. InKey(t, j)
    BY <1>1, <1>3, <1>4, <2>1
  <2>3. PICK b \in 1..j, e \in (j + 1)..(Len(t) + 1) : KeyAt(t, b, e)
    BY <2>2, InKeyIs
  <2>4. b \in 1..(Len(t) + 1) /\ e \in 1..(Len(t) + 1) /\ b < e /\ b < n
    BY <1>1, <2>1
  <2>5. e <= n
    BY <1>1, <2>3, <2>4 DEF Apart
  <2> DEFINE a == After(t, e)
  <2>6. a \in e..Len(t) /\ t[a] = "=" /\ \A k \in e..(a - 1) : t[k] \in Spaces
    BY <2>3, <2>4, KeyEdges
  <2> HIDE DEF a
  <2>7. Ident(t, n)
    BY LetterIsIdent
  <2>8. n # a /\ n \notin e..(a - 1)
    BY <2>6, <2>7, IdentIs
  <2>9. a \in (B + 1)..(n - 1) /\ a \in 1..Len(t)
    BY <1>1, <1>3, <2>1, <2>4, <2>5, <2>6, <2>8
  <2>10. ~InKey(t, a)
    BY <2>6, <2>9, InKeyIdent, IdentIs
  <2>11. u[a] = "="
    BY <1>1, <2>6, <2>9, <2>10
  <2> QED
    BY <1>3, <2>9, <2>11, CharacterFacts
<1>5. CASE B > 0
  <2>1. B \in 1..(n - 1) /\ B \in 1..Len(t)
    BY <1>1, <1>3, <1>5
  <2>2. u[B] = t[B]
    BY <1>1, <1>3, <1>5, <2>1, CharacterFacts
  <2>3. Before(t, n - 1) = B
    BY <1>2, <1>3, <1>4, <1>5, <2>1, <2>2, BeforeEquals
  <2> QED
    BY <2>2, <2>3 DEF B, u
<1>6. CASE ~(B > 0)
  <2>1. B = 0
    BY <1>1, <1>3, <1>6
  <2> DEFINE C == Before(t, n - 1)
  <2>2. C \in 0..(n - 1) /\ (C > 0 => t[C] \notin Spaces)
    BY <1>2, BeforeIs
  <2> HIDE DEF C
  <2>3. C = 0
    BY <1>1, <1>4, <2>1, <2>2
  <2> QED
    BY <2>1, <2>3 DEF B, C, u
<1> QED
  BY <1>5, <1>6

\* A turn of the loop that masks keys takes the identifier that its text shows it, and
\* finds of it what the text without masked keys says.
LEMMA MaskedKey ==
  ASSUME NEW t \in Seq(Characters), NEW n \in 1..Len(t), Apart(t, n), Letter(t, n)
  PROVE  LET u == WithoutKeys(t, n)
             r == RunEnd(u, n)
         IN  /\ r = RunEnd(t, n)
             /\ WithoutKeys(t, r) = IF Key(u, n, r) THEN Blank(u, n, r) ELSE u
<1> DEFINE u == WithoutKeys(t, n)
           r == RunEnd(t, n)
<1>1. /\ u \in Seq(Characters) /\ Len(u) = Len(t) /\ DOMAIN t = 1..Len(t) /\ Len(t) \in Nat
      /\ DOMAIN u = 1..Len(t)
      /\ \A j \in 1..Len(t) : (InKey(t, j) /\ j < n => u[j] = Space)
      /\ \A j \in 1..Len(t) : (~InKey(t, j) \/ ~(j < n) => u[j] = t[j])
  BY WithoutKeysIs
<1>2. r \in (n + 1)..(Len(t) + 1) /\ \A j \in n..(r - 1) : Ident(t, j)
  BY RunEndIs, LetterIsIdent
<1>3. /\ Before(u, n - 1) = Before(t, n - 1)
      /\ Before(t, n - 1) > 0 => u[Before(t, n - 1)] = t[Before(t, n - 1)]
  BY MaskedBefore
<1>4. \A i \in n..(r - 1) : InKey(t, i) <=> Key(t, n, r)
  BY RunApart
<1>5. Before(t, n - 1) \in 0..(n - 1)
  BY <1>1, BeforeIs
<1> HIDE DEF u
<1>6. \A j \in n..Len(t) : j \in 1..Len(t) /\ u[j] = t[j]
  BY <1>1
<1>7. RunEnd(u, n) = r
  <2>1. \A j \in n..Len(t) : Ident(u, j) <=> Ident(t, j)
    BY <1>1, <1>6 DEF Ident
  <2>2. {j \in n..Len(u) : ~Ident(u, j)} = {j \in n..Len(t) : ~Ident(t, j)}
    BY <1>1, <2>1
  <2> QED
    BY <1>1, <2>2 DEF RunEnd
<1> HIDE DEF r
<1>8. After(u, r) = After(t, r)
  <2>1. {j \in r..Len(u) : u[j] \notin Spaces} = {j \in r..Len(t) : t[j] \notin Spaces}
    BY <1>1, <1>2, <1>6
  <2> QED
    BY <1>1, <2>1 DEF After
<1>9. After(t, r) \in r..(Len(t) + 1)
  BY <1>1, <1>2, AfterIs
<1>10. Key(u, n, r) <=> Key(t, n, r)
  <2>1. At(u, After(u, r), "=") <=> At(t, After(t, r), "=")
    BY <1>1, <1>2, <1>6, <1>8, <1>9 DEF At
  <2>2. \A c : At(u, Before(u, n - 1), c) <=> At(t, Before(t, n - 1), c)
    BY <1>1, <1>3, <1>5 DEF At
  <2> QED
    BY <2>1, <2>2 DEF Key
<1>11. /\ WithoutKeys(t, r) \in Seq(Characters) /\ DOMAIN WithoutKeys(t, r) = 1..Len(t)
       /\ \A j \in 1..Len(t) : (InKey(t, j) /\ j < r => WithoutKeys(t, r)[j] = Space)
       /\ \A j \in 1..Len(t) : (~InKey(t, j) \/ ~(j < r) => WithoutKeys(t, r)[j] = t[j])
       /\ Len(WithoutKeys(t, r)) = Len(t)
  BY <1>1, <1>2, WithoutKeysIs
<1>12. \A j \in 1..Len(t) : j < r /\ ~(j < n) => j \in n..(r - 1) /\ t[j] # "\n"
  <2>1. \A j \in n..(r - 1) : t[j] # "\n"
    BY <1>2, IdentIs, CharacterFacts
  <2> QED
    BY <1>1, <1>2, <2>1
<1>13. CASE Key(u, n, r)
  <2>1. DOMAIN Blank(u, n, r) = 1..Len(t)
        /\ \A j \in 1..Len(t) : Blank(u, n, r)[j] = IF j \in n..(r - 1) /\ u[j] # "\n" THEN Space ELSE u[j]
    BY <1>1 DEF Blank
  <2>2. ASSUME NEW j \in 1..Len(t) PROVE Blank(u, n, r)[j] = WithoutKeys(t, r)[j]
    <3>1. CASE j < n
      <4>1. j \notin n..(r - 1) /\ j < r
        BY <1>1, <1>2, <3>1
      <4> QED
        BY <1>1, <1>11, <2>1, <3>1, <4>1
    <3>2. CASE ~(j < n) /\ j < r
      <4>1. j \in n..(r - 1) /\ t[j] # "\n" /\ u[j] = t[j] /\ InKey(t, j)
        BY <1>1, <1>4, <1>10, <1>12, <1>13, <3>2
      <4> QED
        BY <1>11, <2>1, <3>2, <4>1
    <3>3. CASE ~(j < n) /\ ~(j < r)
      <4>1. j \notin n..(r - 1) /\ u[j] = t[j]
        BY <1>1, <1>2, <3>3
      <4> QED
        BY <1>11, <2>1, <3>3, <4>1
    <3> QED
      BY <3>1, <3>2, <3>3
  <2>3. Blank(u, n, r) = [j \in 1..Len(t) |-> Blank(u, n, r)[j]]
    BY <1>1 DEF Blank
  <2>4. WithoutKeys(t, r) = [j \in 1..Len(t) |-> WithoutKeys(t, r)[j]]
    BY <1>1 DEF WithoutKeys
  <2>5. WithoutKeys(t, r) = Blank(u, n, r)
    BY <2>2, <2>3, <2>4
  <2> QED
    BY <1>7, <1>13, <2>5 DEF u, r
<1>14. CASE ~Key(u, n, r)
  <2>1. ASSUME NEW j \in 1..Len(t) PROVE WithoutKeys(t, r)[j] = u[j]
    <3>1. CASE j < n
      BY <1>1, <1>2, <1>11, <3>1
    <3>2. CASE ~(j < n) /\ j < r
      BY <1>1, <1>4, <1>10, <1>11, <1>12, <1>14, <3>2
    <3>3. CASE ~(j < n) /\ ~(j < r)
      BY <1>1, <1>11, <3>3
    <3> QED
      BY <3>1, <3>2, <3>3
  <2>2. WithoutKeys(t, r) = u
    BY <1>1, <1>11, <2>1, SameText
  <2> QED
    BY <1>7, <1>14, <2>2 DEF u, r
<1> QED
  BY <1>13, <1>14
-----------------------------------------------------------------------------
(* Words                                                                   *)

IsWord(w) ==
  /\ w \in Seq(Characters \ {Space}) /\ w # << >>
  /\ {w[1], w[Len(w)]} \subseteq Letters \cup Digits

\* The prohibited words are words.
LEMMA WordsAre == \A i \in DOMAIN Words : IsWord(Words[i])
BY ScannerAssumption DEF IsWord

\* Where a word stands alone in the text whose keys are masked is where it is used in the
\* text that has them.
LEMMA WholeIsUse ==
  ASSUME NEW t \in Seq(Characters), NEW w, IsWord(w), NEW i \in 1..Len(t)
  PROVE  Whole(WithoutKeys(t, Len(t) + 1), w, i) <=> i \in Uses(t, w)
<1> DEFINE u == WithoutKeys(t, Len(t) + 1)
           l == Len(w)
<1>1. /\ u \in Seq(Characters) /\ Len(u) = Len(t) /\ DOMAIN u = 1..Len(t) /\ DOMAIN t = 1..Len(t)
      /\ Len(t) \in Nat
      /\ \A j \in 1..Len(t) : (InKey(t, j) => u[j] = Space)
      /\ \A j \in 1..Len(t) : (~InKey(t, j) => u[j] = t[j])
  <2>1. Len(t) \in Nat /\ Len(t) + 1 \in Nat /\ \A j \in 1..Len(t) : j < Len(t) + 1
    OBVIOUS
  <2> QED
    BY <2>1, WithoutKeysIs
<1>2. l \in Nat \ {0} /\ DOMAIN w = 1..l /\ \A k \in 1..l : w[k] # Space
  BY DEF IsWord
<1>3. {w[1], w[l]} \subseteq Letters \cup Digits
  BY DEF IsWord
<1> HIDE DEF u, l
<1>4. Space \notin Letters \cup Digits
  BY ScannerAssumption, CharacterFacts
<1>5. ASSUME NEW s, DOMAIN s = 1..Len(t), Len(s) = Len(t)
      PROVE  /\ Occurs(s, w, i) <=> (i + l - 1 <= Len(t) /\ \A k \in 1..l : s[i + k - 1] = w[k])
             /\ Occurs(s, w, i) => Ident(s, i) /\ Ident(s, i + l - 1)
  <2>1. Occurs(s, w, i) <=> (i + l - 1 <= Len(t) /\ \A k \in 1..l : s[i + k - 1] = w[k])
    BY <1>2, <1>5 DEF Occurs, l
  <2>2. ASSUME Occurs(s, w, i) PROVE Ident(s, i) /\ Ident(s, i + l - 1)
    <3>1. i \in 1..Len(t) /\ i + l - 1 \in 1..Len(t) /\ 1 \in 1..l /\ l \in 1..l /\ i + 1 - 1 = i
      BY <1>1, <1>2, <2>1, <2>2
    <3>2. s[i] = w[1] /\ s[i + l - 1] = w[l]
      BY <2>1, <2>2, <3>1
    <3> QED
      BY <1>3, <1>5, <3>1, <3>2 DEF Ident
  <2> QED
    BY <2>1, <2>2
<1>6. i \in Uses(t, w) <=> Whole(t, w, i) /\ \A j \in i..(i + l - 1) : ~InKey(t, j)
  BY <1>1 DEF Uses, l
<1>7. \A s : Whole(s, w, i) <=> Occurs(s, w, i) /\ ~Ident(s, i - 1) /\ ~Ident(s, i + l)
  BY DEF Whole, l
<1>8. ASSUME i \in Uses(t, w) PROVE Whole(u, w, i)
  <2>1. i + l - 1 <= Len(t) /\ \A k \in 1..l : t[i + k - 1] = w[k]
    BY <1>1, <1>5, <1>6, <1>7, <1>8
  <2>2. ASSUME NEW k \in 1..l PROVE u[i + k - 1] = w[k]
    <3>1. i + k - 1 \in i..(i + l - 1) /\ i + k - 1 \in 1..Len(t)
      BY <1>1, <1>2, <2>1
    <3> QED
      BY <1>1, <1>6, <1>8, <2>1, <3>1
  <2>3. \A j : Ident(u, j) => Ident(t, j)
    BY <1>1, <1>4 DEF Ident
  <2> QED
    BY <1>1, <1>5, <1>6, <1>7, <1>8, <2>1, <2>2, <2>3
<1>9. ASSUME Whole(u, w, i) PROVE i \in Uses(t, w)
  <2>1. i + l - 1 <= Len(t) /\ \A k \in 1..l : u[i + k - 1] = w[k]
    BY <1>1, <1>5, <1>7, <1>9
  <2>2. ASSUME NEW k \in 1..l PROVE ~InKey(t, i + k - 1) /\ t[i + k - 1] = w[k]
    <3>1. i + k - 1 \in 1..Len(t)
      BY <1>1, <1>2, <2>1
    <3>2. u[i + k - 1] # Space
      BY <1>2, <2>1
    <3> QED
      BY <1>1, <2>1, <3>1, <3>2
  <2>3. \A j \in i..(i + l - 1) : ~InKey(t, j)
    <3> SUFFICES ASSUME NEW j \in i..(i + l - 1) PROVE ~InKey(t, j)
      OBVIOUS
    <3>1. j - i + 1 \in 1..l /\ i + (j - i + 1) - 1 = j
      BY <1>1, <1>2
    <3> QED
      BY <2>2, <3>1
  <2>4. Occurs(t, w, i)
    BY <1>1, <1>5, <2>1, <2>2
  <2>5. Ident(t, i) /\ Ident(t, i + l - 1)
    BY <1>1, <1>5, <2>4
  <2>6. i \in i..(i + l - 1) /\ i + l - 1 \in i..(i + l - 1) /\ i + l - 1 \in 1..Len(t)
    BY <1>1, <1>2, <2>1
  <2>7. ASSUME Ident(t, i - 1) PROVE FALSE
    <3>1. i - 1 \in 1..Len(t)
      BY <1>1, <2>7 DEF Ident
    <3>2. InKey(t, i - 1)
      BY <1>1, <1>7, <1>9, <2>7, <3>1 DEF Ident
    <3>3. PICK b \in 1..(i - 1), e \in ((i - 1) + 1)..(Len(t) + 1) : KeyAt(t, b, e)
      BY <3>2, InKeyIs
    <3>4. b \in 1..(Len(t) + 1) /\ e \in 1..(Len(t) + 1) /\ b < e /\ b \in 1..i /\ i <= e
      BY <1>1, <3>1
    <3>5. e # i
      BY <2>5, <3>3, <3>4, KeyEdges
    <3>6. e \in (i + 1)..(Len(t) + 1)
      BY <1>1, <3>4, <3>5
    <3>7. InKey(t, i)
      BY <3>3, <3>4, <3>6, InKeyIs
    <3> QED
      BY <2>3, <2>6, <3>7
  <2>8. ASSUME Ident(t, i + l) PROVE FALSE
    <3>1. i + l \in 1..Len(t)
      BY <1>1, <2>8 DEF Ident
    <3>2. InKey(t, i + l)
      BY <1>1, <1>7, <1>9, <2>8, <3>1 DEF Ident
    <3>3. PICK b \in 1..(i + l), e \in ((i + l) + 1)..(Len(t) + 1) : KeyAt(t, b, e)
      BY <3>2, InKeyIs
    <3>4. b \in 1..(Len(t) + 1) /\ e \in 1..(Len(t) + 1) /\ b < e /\ e \in ((i + l - 1) + 1)..(Len(t) + 1)
      BY <1>1, <1>2, <3>1
    <3>5. b # i + l
      <4>1. (i + l) - 1 = i + l - 1
        BY <1>1, <1>2
      <4> QED
        BY <2>5, <3>3, <3>4, <4>1, KeyEdges
    <3>6. b \in 1..(i + l - 1)
      BY <1>1, <1>2, <3>4, <3>5
    <3>7. InKey(t, i + l - 1)
      BY <3>3, <3>4, <3>6, InKeyIs
    <3> QED
      BY <2>3, <2>6, <3>7
  <2> QED
    BY <1>6, <1>7, <2>3, <2>4, <2>7, <2>8
<1> QED
  BY <1>8, <1>9 DEF u
-----------------------------------------------------------------------------
(* Delimiters                                                              *)

\* The openers before n that have their closer before n: those that p does not list.
Shut(t, n, p) == {i \in Ups(t) : i < n /\ \A k \in DOMAIN p : p[k] # i}

\* The stack st holds the openers at the positions p, from the outermost inwards; m pairs
\* all others before n; and any pairing of the whole text agrees with both.
Stacked(t, n, st, p, m) ==
  /\ p \in Seq(Nat) /\ Len(p) = Len(st)
  /\ \A k \in DOMAIN p : p[k] \in Ups(t) /\ p[k] < n /\ st[k] = t[p[k]]
  /\ \A k, l \in DOMAIN p : k < l => p[k] < p[l]
  /\ \A i \in Shut(t, n, p) : m[i] \in Downs(t) /\ i < m[i] /\ m[i] < n /\ t[m[i]] = Closer[t[i]]
  /\ \A j \in Downs(t) : j < n => \E i \in Shut(t, n, p) : m[i] = j
  /\ \A i, j \in Shut(t, n, p) : i < j => m[i] < j \/ m[j] < m[i]
  /\ \A i \in Shut(t, n, p), k \in DOMAIN p : i < p[k] => m[i] < p[k]
  /\ \A M \in [Ups(t) -> Downs(t)] : Pairing(t, M) =>
       (\A i \in Shut(t, n, p) : M[i] = m[i]) /\ \A k \in DOMAIN p : n <= M[p[k]]

\* Openers and closers are positions, and no position is both.
LEMMA DelimitersAre ==
  ASSUME NEW t \in Seq(Characters)
  PROVE  /\ Ups(t) \subseteq 1..Len(t) /\ Downs(t) \subseteq 1..Len(t) /\ Ups(t) \cap Downs(t) = {}
         /\ \A n \in 1..Len(t) : /\ n \in Ups(t) <=> Opener(t[n])
                                 /\ n \in Downs(t) <=> Delimiter(t[n]) /\ ~Opener(t[n])
         /\ \A i \in Ups(t) \cup Downs(t) : i \in Nat
<1>1. DOMAIN t = 1..Len(t) /\ Len(t) \in Nat
  OBVIOUS
<1>2. Ups(t) \subseteq 1..Len(t) /\ Downs(t) \subseteq 1..Len(t) /\ Ups(t) \cap Downs(t) = {}
  BY <1>1 DEF Ups, Downs
<1> QED
  BY <1>1, <1>2 DEF Ups, Downs

\* What a pairing says of each delimiter; no two openers share a closer.
LEMMA PairingIs ==
  ASSUME NEW t \in Seq(Characters), NEW M \in [Ups(t) -> Downs(t)], Pairing(t, M)
  PROVE  /\ \A i \in Ups(t) : M[i] \in Downs(t) /\ i < M[i] /\ t[M[i]] = Closer[t[i]]
         /\ \A j \in Downs(t) : \E i \in Ups(t) : M[i] = j
         /\ \A i, j \in Ups(t) : i < j => M[i] < j \/ M[j] < M[i]
         /\ \A i, j \in Ups(t) : M[i] = M[j] => i = j
<1>1. /\ \A i \in Ups(t) : M[i] \in Downs(t) /\ i < M[i] /\ t[M[i]] = Closer[t[i]]
      /\ \A i, j \in Ups(t) : i < j => M[i] < j \/ M[j] < M[i]
  BY DEF Pairing
<1>2. \A j \in Downs(t) : \E i \in Ups(t) : M[i] = j
  BY DEF Pairing
<1>3. ASSUME NEW i \in Ups(t), NEW j \in Ups(t), M[i] = M[j] PROVE i = j
  <2>1. i \in Nat /\ j \in Nat /\ M[i] \in Nat /\ M[j] \in Nat
    BY <1>1, DelimitersAre
  <2>2. ~(i < j)
    BY <1>1, <1>3, <2>1
  <2>3. ~(j < i)
    BY <1>1, <1>3, <2>1
  <2> QED
    BY <2>1, <2>2, <2>3
<1> QED
  BY <1>1, <1>2, <1>3

\* In any pairing a closer belongs to the opener on top of the stack.
LEMMA PartnerIsTop ==
  ASSUME NEW t \in Seq(Characters), NEW n \in Downs(t), NEW st, NEW p, NEW m, Stacked(t, n, st, p, m),
         NEW M \in [Ups(t) -> Downs(t)], Pairing(t, M)
  PROVE  Len(p) >= 1 /\ M[p[Len(p)]] = n
<1>1. PICK i \in Ups(t) : M[i] = n
  BY PairingIs
<1>2. i < n /\ i \in Nat /\ n \in Nat
  BY <1>1, PairingIs, DelimitersAre
<1>3. p \in Seq(Nat) /\ Len(p) \in Nat /\ DOMAIN p = 1..Len(p)
  BY DEF Stacked
<1>4. i \notin Shut(t, n, p)
  <2> SUFFICES ASSUME i \in Shut(t, n, p) PROVE FALSE
    OBVIOUS
  <2>1. M[i] = m[i] /\ m[i] < n
    BY DEF Stacked
  <2> QED
    BY <1>1, <1>2, <2>1
<1>5. PICK k \in DOMAIN p : p[k] = i
  BY <1>2, <1>4 DEF Shut
<1> DEFINE l == Len(p)
<1>6. k \in 1..l /\ l \in DOMAIN p /\ l >= 1 /\ k \in Nat
  BY <1>3, <1>5
<1>7. p[l] \in Ups(t) /\ p[l] < n /\ n <= M[p[l]] /\ (k < l => p[k] < p[l])
  BY <1>5, <1>6 DEF Stacked
<1>8. p[l] \in Nat /\ M[p[l]] \in Nat
  BY <1>7, PairingIs, DelimitersAre
<1>9. ~(k < l)
  <2> SUFFICES ASSUME k < l PROVE FALSE
    OBVIOUS
  <2>1. M[i] < p[l] \/ M[p[l]] < M[i]
    BY <1>5, <1>7, PairingIs
  <2> QED
    BY <1>1, <1>2, <1>7, <1>8, <2>1
<1>10. k = l
  BY <1>3, <1>6, <1>9
<1> QED
  BY <1>1, <1>5, <1>6, <1>10

\* Before anything is read the stack is empty.
LEMMA StackedFirst == ASSUME NEW t \in Seq(Characters) PROVE Stacked(t, 1, << >>, << >>, << >>)
<1>1. \A i \in Ups(t) \cup Downs(t) : i \in 1..Len(t)
  BY DelimitersAre
<1>2. \A i \in Ups(t) \cup Downs(t) : ~(i < 1)
  BY <1>1
<1>3. Shut(t, 1, << >>) = {}
  BY <1>2 DEF Shut
<1> QED
  BY <1>2, <1>3 DEF Stacked

\* Another character leaves the stack as it is.
LEMMA StackedSkip ==
  ASSUME NEW t \in Seq(Characters), NEW n \in 1..Len(t), ~Delimiter(t[n]),
         NEW st, NEW p, NEW m, Stacked(t, n, st, p, m)
  PROVE  Stacked(t, n + 1, st, p, m)
<1>1. n \notin Ups(t) /\ n \notin Downs(t) /\ n \in Nat
  BY DelimitersAre DEF Delimiter
<1>2. \A i \in Ups(t) \cup Downs(t) : i \in Nat /\ (i < n + 1 <=> i < n) /\ (n <= i <=> n + 1 <= i)
  BY <1>1, DelimitersAre
<1>3. Shut(t, n + 1, p) = Shut(t, n, p)
  BY <1>2 DEF Shut
<1>4. \A i \in Shut(t, n, p) : m[i] \in Downs(t) /\ i < m[i] /\ m[i] < n + 1 /\ t[m[i]] = Closer[t[i]]
  BY <1>2 DEF Stacked
<1>5. \A M \in [Ups(t) -> Downs(t)] : Pairing(t, M) =>
        (\A i \in Shut(t, n, p) : M[i] = m[i]) /\ \A k \in DOMAIN p : n + 1 <= M[p[k]]
  BY <1>2 DEF Stacked
<1>6. \A k \in DOMAIN p : p[k] \in Ups(t) /\ p[k] < n + 1 /\ st[k] = t[p[k]]
  BY <1>2 DEF Stacked
<1>7. \A j \in Downs(t) : j < n + 1 => \E i \in Shut(t, n, p) : m[i] = j
  BY <1>2 DEF Stacked
<1>8. /\ p \in Seq(Nat) /\ Len(p) = Len(st)
      /\ \A k, l \in DOMAIN p : k < l => p[k] < p[l]
      /\ \A i, j \in Shut(t, n, p) : i < j => m[i] < j \/ m[j] < m[i]
      /\ \A i \in Shut(t, n, p), k \in DOMAIN p : i < p[k] => m[i] < p[k]
  BY DEF Stacked
<1> QED
  BY <1>3, <1>4, <1>5, <1>6, <1>7, <1>8 DEF Stacked

\* An opener is pushed.
LEMMA StackedPush ==
  ASSUME NEW t \in Seq(Characters), NEW n \in 1..Len(t), Opener(t[n]),
         NEW st \in Seq(DOMAIN Closer), NEW p, NEW m, Stacked(t, n, st, p, m)
  PROVE  Stacked(t, n + 1, Append(st, t[n]), Append(p, n), m)
<1> DEFINE q == Append(p, n)
           s == Append(st, t[n])
<1>1. n \in Ups(t) /\ n \notin Downs(t) /\ n \in Nat
  BY DelimitersAre
<1>2. \A i \in Downs(t) : i \in Nat /\ (i < n + 1 <=> i < n) /\ (n <= i <=> n + 1 <= i)
  BY <1>1, DelimitersAre
<1>3. p \in Seq(Nat) /\ Len(p) \in Nat /\ DOMAIN p = 1..Len(p) /\ Len(p) = Len(st) /\ t[n] \in DOMAIN Closer
  BY DEF Stacked, Opener
<1>4. /\ q \in Seq(Nat) /\ Len(q) = Len(p) + 1 /\ DOMAIN q = 1..(Len(p) + 1)
      /\ q[Len(p) + 1] = n /\ \A k \in 1..Len(p) : q[k] = p[k]
  BY <1>1, <1>3
<1>5. Len(s) = Len(p) + 1 /\ s[Len(p) + 1] = t[n] /\ \A k \in 1..Len(p) : s[k] = st[k]
  BY <1>3
<1> HIDE DEF q, s
<1>6. Shut(t, n + 1, q) = Shut(t, n, p)
  <2>1. \A i \in Ups(t) : i \in Nat /\ (i < n + 1 /\ i # n <=> i < n)
    BY <1>1, DelimitersAre
  <2>2. ASSUME NEW i \in Ups(t)
        PROVE  (\A k \in DOMAIN q : q[k] # i) <=> (i # n /\ \A k \in DOMAIN p : p[k] # i)
    <3>1. DOMAIN q = DOMAIN p \cup {Len(p) + 1} /\ \A k \in DOMAIN p : q[k] = p[k]
      BY <1>3, <1>4
    <3> QED
      BY <1>4, <3>1
  <2> QED
    BY <2>1, <2>2 DEF Shut
<1>7. \A k \in DOMAIN q : k \in DOMAIN p \/ k = Len(p) + 1
  BY <1>3, <1>4
<1>8. /\ \A k \in DOMAIN p : p[k] \in Ups(t) /\ p[k] < n /\ st[k] = t[p[k]] /\ p[k] \in Nat
      /\ \A i \in Shut(t, n, p) : m[i] \in Downs(t) /\ i < m[i] /\ m[i] < n /\ t[m[i]] = Closer[t[i]]
  BY <1>3 DEF Stacked
<1>9. \A k \in DOMAIN q : q[k] \in Ups(t) /\ q[k] < n + 1 /\ s[k] = t[q[k]]
  BY <1>1, <1>3, <1>4, <1>5, <1>7, <1>8
<1>10. \A k, l \in DOMAIN q : k < l => q[k] < q[l]
  <2> SUFFICES ASSUME NEW k \in DOMAIN q, NEW l \in DOMAIN q, k < l PROVE q[k] < q[l]
    OBVIOUS
  <2>1. k \in DOMAIN p /\ q[k] = p[k]
    BY <1>3, <1>4
  <2>2. CASE l \in DOMAIN p
    BY <1>3, <1>4, <2>1, <2>2 DEF Stacked
  <2>3. CASE l = Len(p) + 1
    BY <1>4, <1>8, <2>1, <2>3
  <2> QED
    BY <1>7, <2>2, <2>3
<1>11. \A i \in Shut(t, n, p) : m[i] \in Downs(t) /\ i < m[i] /\ m[i] < n + 1 /\ t[m[i]] = Closer[t[i]]
  BY <1>2, <1>8
<1>12. \A j \in Downs(t) : j < n + 1 => \E i \in Shut(t, n, p) : m[i] = j
  BY <1>2 DEF Stacked
<1>13. \A i, j \in Shut(t, n, p) : i < j => m[i] < j \/ m[j] < m[i]
  BY DEF Stacked
<1>14. \A i \in Shut(t, n, p), k \in DOMAIN q : i < q[k] => m[i] < q[k]
  <2> SUFFICES ASSUME NEW i \in Shut(t, n, p), NEW k \in DOMAIN q, i < q[k] PROVE m[i] < q[k]
    OBVIOUS
  <2>1. CASE k \in DOMAIN p
    BY <1>3, <1>4, <2>1 DEF Stacked
  <2>2. CASE k = Len(p) + 1
    BY <1>4, <1>8, <2>2
  <2> QED
    BY <1>7, <2>1, <2>2
<1>15. ASSUME NEW M \in [Ups(t) -> Downs(t)], Pairing(t, M)
       PROVE  (\A i \in Shut(t, n, p) : M[i] = m[i]) /\ \A k \in DOMAIN q : n + 1 <= M[q[k]]
  <2>1. (\A i \in Shut(t, n, p) : M[i] = m[i]) /\ \A k \in DOMAIN p : n <= M[p[k]]
    BY <1>15 DEF Stacked
  <2>2. \A i \in Ups(t) : M[i] \in Downs(t) /\ i < M[i]
    BY <1>15, PairingIs
  <2>3. \A k \in DOMAIN p : n + 1 <= M[p[k]]
    BY <1>2, <1>8, <2>1, <2>2
  <2>4. n + 1 <= M[n]
    BY <1>1, <1>2, <2>2
  <2> QED
    BY <1>3, <1>4, <1>7, <2>1, <2>3, <2>4
<1> QED
  BY <1>4, <1>5, <1>6, <1>9, <1>10, <1>11, <1>12, <1>13, <1>14, <1>15 DEF Stacked, q, s

\* The closer of the opener on top pairs the two.
LEMMA StackedPop ==
  ASSUME NEW t \in Seq(Characters), NEW n \in Downs(t), NEW st \in Seq(DOMAIN Closer), st # << >>,
         Closer[st[Len(st)]] = t[n], NEW p, NEW m, Stacked(t, n, st, p, m)
  PROVE  \E q, w : Stacked(t, n + 1, SubSeq(st, 1, Len(st) - 1), q, w)
<1> DEFINE h == Len(p)
           x == p[h]
           q == SubSeq(p, 1, h - 1)
           s == SubSeq(st, 1, h - 1)
           w == [i \in Shut(t, n, p) \cup {x} |-> IF i = x THEN n ELSE m[i]]
<1>1. n \in Nat /\ n \in 1..Len(t) /\ n \notin Ups(t)
  BY DelimitersAre
<1>2. \A i \in Ups(t) \cup Downs(t) : i \in Nat /\ (i < n + 1 <=> i < n \/ i = n)
  BY <1>1, DelimitersAre
<1>3. /\ p \in Seq(Nat) /\ h \in Nat /\ DOMAIN p = 1..h /\ h = Len(st) /\ h >= 1 /\ h - 1 \in Nat
      /\ h \in DOMAIN p /\ st \in Seq(DOMAIN Closer)
  BY DEF Stacked
<1>4. q \in Seq(Nat) /\ Len(q) = h - 1 /\ DOMAIN q = 1..(h - 1) /\ \A k \in 1..(h - 1) : q[k] = p[k]
  BY <1>3
<1>5. Len(s) = h - 1 /\ \A k \in 1..(h - 1) : s[k] = st[k]
  BY <1>3
<1> HIDE DEF h, q, s
<1>6. \A k \in DOMAIN p : k \in DOMAIN q \/ k = h
  BY <1>3, <1>4
<1>7. /\ \A k \in DOMAIN p : p[k] \in Ups(t) /\ p[k] < n /\ st[k] = t[p[k]]
      /\ \A k, l \in DOMAIN p : k < l => p[k] < p[l]
      /\ \A i \in Shut(t, n, p) : m[i] \in Downs(t) /\ i < m[i] /\ m[i] < n /\ t[m[i]] = Closer[t[i]]
      /\ \A j \in Downs(t) : j < n => \E i \in Shut(t, n, p) : m[i] = j
      /\ \A i, j \in Shut(t, n, p) : i < j => m[i] < j \/ m[j] < m[i]
      /\ \A i \in Shut(t, n, p), k \in DOMAIN p : i < p[k] => m[i] < p[k]
  BY DEF Stacked
<1>8. x \in Ups(t) /\ x < n /\ Closer[t[x]] = t[n] /\ x \in Nat
  BY <1>2, <1>3, <1>7 DEF h
<1>9. \A k \in DOMAIN q : k \in DOMAIN p /\ q[k] = p[k] /\ p[k] < x
  <2> SUFFICES ASSUME NEW k \in DOMAIN q PROVE k \in DOMAIN p /\ q[k] = p[k] /\ p[k] < x
    OBVIOUS
  <2>1. k \in 1..(h - 1) /\ k \in DOMAIN p /\ k < h
    BY <1>3, <1>4
  <2> QED
    BY <1>3, <1>4, <1>7, <2>1
<1> HIDE DEF x
<1>10. Shut(t, n, p) \subseteq Ups(t) /\ x \notin Shut(t, n, p)
  BY <1>3 DEF Shut, x
<1>11. Shut(t, n + 1, q) = Shut(t, n, p) \cup {x}
  <2>1. ASSUME NEW i \in Shut(t, n + 1, q), i # x PROVE i \in Shut(t, n, p)
    <3>1. i \in Ups(t) /\ i < n /\ \A k \in DOMAIN q : q[k] # i
      BY <1>1, <1>2, <2>1 DEF Shut
    <3>2. \A k \in DOMAIN p : p[k] # i
      BY <1>6, <1>9, <2>1, <3>1 DEF x
    <3> QED
      BY <3>1, <3>2 DEF Shut
  <2>2. ASSUME NEW i \in Shut(t, n, p) PROVE i \in Shut(t, n + 1, q)
    <3>1. i \in Ups(t) /\ i < n /\ \A k \in DOMAIN p : p[k] # i
      BY DEF Shut
    <3> QED
      BY <1>2, <1>9, <3>1 DEF Shut
  <2>3. x \in Shut(t, n + 1, q)
    <3>1. \A k \in DOMAIN q : q[k] # x
      BY <1>2, <1>7, <1>8, <1>9
    <3> QED
      BY <1>2, <1>8, <3>1 DEF Shut
  <2> QED
    BY <2>1, <2>2, <2>3
<1>12. w[x] = n /\ \A i \in Shut(t, n, p) : w[i] = m[i]
  BY <1>10
<1> HIDE DEF w
<1> DEFINE S == Shut(t, n + 1, q)
<1>13. \A i \in S : i = x \/ i \in Shut(t, n, p)
  BY <1>11
<1>14. \A k \in DOMAIN q : q[k] \in Ups(t) /\ q[k] < n + 1 /\ s[k] = t[q[k]]
  BY <1>2, <1>4, <1>5, <1>7, <1>9
<1>15. \A k, l \in DOMAIN q : k < l => q[k] < q[l]
  BY <1>7, <1>9
<1>16. \A i \in S : w[i] \in Downs(t) /\ i < w[i] /\ w[i] < n + 1 /\ t[w[i]] = Closer[t[i]]
  <2>1. w[x] \in Downs(t) /\ x < w[x] /\ w[x] < n + 1 /\ t[w[x]] = Closer[t[x]]
    BY <1>1, <1>8, <1>12
  <2>2. ASSUME NEW i \in Shut(t, n, p)
        PROVE  w[i] \in Downs(t) /\ i < w[i] /\ w[i] < n + 1 /\ t[w[i]] = Closer[t[i]]
    BY <1>2, <1>7, <1>12
  <2> QED
    BY <1>13, <2>1, <2>2
<1>17. \A j \in Downs(t) : j < n + 1 => \E i \in S : w[i] = j
  BY <1>2, <1>7, <1>11, <1>12
<1>18. \A i, j \in S : i < j => w[i] < j \/ w[j] < w[i]
  <2> SUFFICES ASSUME NEW i \in S, NEW j \in S, i < j PROVE w[i] < j \/ w[j] < w[i]
    OBVIOUS
  <2>1. CASE i = x
    <3>1. j \in Shut(t, n, p)
      BY <1>8, <1>13, <2>1
    <3> QED
      BY <1>7, <1>12, <2>1, <3>1
  <2>2. CASE i # x /\ j = x
    <3>1. i \in Shut(t, n, p)
      BY <1>13, <2>2
    <3>2. m[i] < x
      BY <1>3, <1>7, <2>2, <3>1 DEF x
    <3> QED
      BY <1>12, <2>2, <3>1, <3>2
  <2>3. CASE i # x /\ j # x
    BY <1>7, <1>12, <1>13, <2>3
  <2> QED
    BY <2>1, <2>2, <2>3
<1>19. \A i \in S, k \in DOMAIN q : i < q[k] => w[i] < q[k]
  <2> SUFFICES ASSUME NEW i \in S, NEW k \in DOMAIN q, i < q[k] PROVE w[i] < q[k]
    OBVIOUS
  <2>1. k \in DOMAIN p /\ q[k] = p[k] /\ p[k] < x /\ p[k] \in Nat
    BY <1>2, <1>7, <1>9
  <2>2. i # x
    BY <1>8, <2>1
  <2> QED
    BY <1>7, <1>12, <1>13, <2>1, <2>2
<1>20. ASSUME NEW M \in [Ups(t) -> Downs(t)], Pairing(t, M)
       PROVE  (\A i \in S : M[i] = w[i]) /\ \A k \in DOMAIN q : n + 1 <= M[q[k]]
  <2>1. (\A i \in Shut(t, n, p) : M[i] = m[i]) /\ \A k \in DOMAIN p : n <= M[p[k]]
    BY <1>20 DEF Stacked
  <2>2. M[x] = n
    BY <1>20, PartnerIsTop DEF x, h
  <2>3. \A i \in S : M[i] = w[i]
    BY <1>12, <1>13, <2>1, <2>2
  <2>4. ASSUME NEW k \in DOMAIN q PROVE n + 1 <= M[q[k]]
    <3>1. q[k] = p[k] /\ p[k] < x /\ p[k] \in Ups(t) /\ n <= M[p[k]] /\ p[k] \in Nat
      BY <1>2, <1>7, <1>9, <2>1
    <3>2. M[p[k]] # n
      BY <1>8, <1>20, <2>2, <3>1, PairingIs
    <3>3. M[p[k]] \in Nat
      BY <1>2, <1>20, <3>1, PairingIs
    <3> QED
      BY <1>1, <3>1, <3>2, <3>3
  <2> QED
    BY <2>3, <2>4
<1>21. Stacked(t, n + 1, s, q, w)
  BY <1>4, <1>5, <1>14, <1>15, <1>16, <1>17, <1>18, <1>19, <1>20 DEF Stacked
<1> QED
  BY <1>3, <1>21 DEF s

\* A closer that is not for what is on top of the stack is for nothing.
LEMMA StackedStuck ==
  ASSUME NEW t \in Seq(Characters), NEW n \in Downs(t), NEW st, st = << >> \/ Closer[st[Len(st)]] # t[n],
         NEW p, NEW m, Stacked(t, n, st, p, m)
  PROVE  ~Nested(t)
<1> SUFFICES ASSUME NEW M \in [Ups(t) -> Downs(t)], Pairing(t, M) PROVE FALSE
  BY DEF Nested
<1>1. Len(p) >= 1 /\ M[p[Len(p)]] = n
  BY PartnerIsTop
<1>2. p \in Seq(Nat) /\ Len(p) = Len(st)
  BY DEF Stacked
<1>3. Len(p) \in DOMAIN p
  BY <1>1, <1>2
<1>4. p[Len(p)] \in Ups(t) /\ st[Len(p)] = t[p[Len(p)]]
  BY <1>3 DEF Stacked
<1>5. t[n] = Closer[t[p[Len(p)]]]
  BY <1>1, <1>4, PairingIs
<1>6. st # << >>
  <2>1. Len(<< >>) = 0 /\ ~(0 >= 1)
    OBVIOUS
  <2> QED
    BY <1>1, <1>2, <2>1
<1> QED
  BY <1>2, <1>4, <1>5, <1>6

\* When the text has been read the stack tells whether it is nested.
LEMMA StackedLast ==
  ASSUME NEW t \in Seq(Characters), NEW st \in Seq(DOMAIN Closer), NEW p, NEW m,
         Stacked(t, Len(t) + 1, st, p, m)
  PROVE  Nested(t) <=> st = << >>
<1>1. Len(t) \in Nat /\ \A i \in Ups(t) \cup Downs(t) : i \in Nat /\ i < Len(t) + 1 /\ ~(Len(t) + 1 <= i)
  <2>1. Len(t) \in Nat /\ \A i \in Ups(t) \cup Downs(t) : i \in 1..Len(t)
    BY DelimitersAre
  <2> QED
    BY <2>1
<1>2. p \in Seq(Nat) /\ Len(p) = Len(st) /\ Len(st) \in Nat /\ DOMAIN p = 1..Len(p)
  BY DEF Stacked
<1>3. ASSUME st = << >> PROVE Nested(t)
  <2>1. DOMAIN p = {}
    BY <1>2, <1>3
  <2>2. Shut(t, Len(t) + 1, p) = Ups(t)
    BY <1>1, <2>1 DEF Shut
  <2> DEFINE M == [i \in Ups(t) |-> m[i]]
  <2>3. \A i \in Ups(t) : m[i] \in Downs(t) /\ i < m[i] /\ t[m[i]] = Closer[t[i]]
    BY <2>2 DEF Stacked
  <2>4. M \in [Ups(t) -> Downs(t)]
    BY <2>3
  <2>5. \A j \in Downs(t) : \E i \in Ups(t) : m[i] = j
    BY <1>1, <2>2 DEF Stacked
  <2>6. {M[i] : i \in Ups(t)} = Downs(t)
    <3>1. \A i \in Ups(t) : M[i] = m[i]
      OBVIOUS
    <3> HIDE DEF M
    <3> QED
      BY <2>3, <2>5, <3>1
  <2>7. \A i, j \in Ups(t) : i < j => m[i] < j \/ m[j] < m[i]
    BY <2>2 DEF Stacked
  <2>8. Pairing(t, M)
    BY <2>3, <2>6, <2>7 DEF Pairing
  <2> QED
    BY <2>4, <2>8 DEF Nested
<1>4. ASSUME st # << >>, Nested(t) PROVE FALSE
  <2>1. PICK M \in [Ups(t) -> Downs(t)] : Pairing(t, M)
    BY <1>4 DEF Nested
  <2>2. 1 \in DOMAIN p
    BY <1>2, <1>4
  <2>3. p[1] \in Ups(t) /\ Len(t) + 1 <= M[p[1]]
    BY <2>1, <2>2 DEF Stacked
  <2> QED
    BY <1>1, <2>1, <2>3, PairingIs
<1> QED
  BY <1>3, <1>4
-----------------------------------------------------------------------------
(* Literals                                                                *)

\* Where the masking of literals has come to: everything before it is done with.
Reached == IF loop = "code" THEN index ELSE IF loop = "quote" THEN begin ELSE End
Unclosed == \E s \in spans : Closes(s[1]) = {}

SpanInv ==
  /\ Reached <= End
  /\ \A s \in spans : /\ s[1] \in DOMAIN source /\ Opens(s[1]) /\ s[2] = LiteralEnd(s[1])
                      /\ s[1] < s[2] /\ s[2] <= Reached
  /\ \A s, t \in spans : s # t => s[2] <= t[1] \/ t[2] <= s[1]
  /\ \A i \in DOMAIN source : i < Reached /\ Opens(i) => Inside(i)
  /\ loop \in {"code", "quote", "balance"} => text = WithoutLiterals

\* An even number of backslashes comes before k.
EvenRun(b, k) == \E m \in 0..(k - b - 1) :
  /\ m % 2 = 0 /\ \A j \in (k - m)..(k - 1) : source[j] = "\\"
  /\ k - m - 1 = b \/ source[k - m - 1] # "\\"

\* A string has not been closed yet, and the next character is not escaped.
QuoteInv == loop = "quote" =>
  /\ begin \in DOMAIN source /\ source[begin] \in Quotes /\ begin < index /\ index <= End
  /\ \A k \in (begin + 1)..(index - 1) : source[k] = source[begin] => Escaped(begin, k)
  /\ index < End => EvenRun(begin, index)

\* The positions of the source.
LEMMA SourceIs ==
  ASSUME ScanTypeOK
  PROVE  Len(source) \in Nat /\ DOMAIN source = 1..Len(source) /\ End = Len(source) + 1
         /\ DOMAIN text = 1..Len(source) /\ index \in Nat
BY DEF ScanTypeOK, End

\* What the source alone determines does not change with it.
LEMMA SourceStays ==
  ASSUME source' = source
  PROVE  /\ End' = End
         /\ \A i : Opens(i)' <=> Opens(i)
         /\ \A i : Closes(i)' = Closes(i)
         /\ \A i : LiteralEnd(i)' = LiteralEnd(i)
         /\ \A b, k : Escaped(b, k)' <=> Escaped(b, k)
         /\ \A b, k : EvenRun(b, k)' <=> EvenRun(b, k)
<1>1. End' = End
  BY DEF End
<1>2. \A i : Comment(i)' <=> Comment(i)
  BY DEF Comment, At
<1>3. \A i : Levels(i)' = Levels(i)
  BY DEF Levels, At
<1>4. \A i : Opens(i)' <=> Opens(i)
  BY <1>2, <1>3 DEF Opens
<1>5. \A b, k : Escaped(b, k)' <=> Escaped(b, k)
  BY DEF Escaped
<1>6. \A b, k : EvenRun(b, k)' <=> EvenRun(b, k)
  BY DEF EvenRun
<1>7. \A i : Closes(i)' = Closes(i)
  <2>1. \A i : StringCloses(i)' = StringCloses(i)
    BY <1>5 DEF StringCloses
  <2>2. \A i : LineCloses(i)' = LineCloses(i)
    BY <1>1 DEF LineCloses
  <2>3. \A i, n : Brackets(i, n)' = Brackets(i, n)
    BY DEF Brackets, Occurs
  <2>4. \A i : LongCloses(i)' = LongCloses(i)
    BY <1>3, <2>3 DEF LongCloses
  <2> QED
    BY <1>2, <1>3, <2>1, <2>2, <2>4 DEF Closes
<1>8. \A i : LiteralEnd(i)' = LiteralEnd(i)
  BY <1>1, <1>7 DEF LiteralEnd
<1> QED
  BY <1>1, <1>4, <1>5, <1>6, <1>7, <1>8

\* A long bracket has one level.
LEMMA OneLevel ==
  ASSUME ScanTypeOK, NEW i \in Nat, NEW n \in Levels(i), NEW m \in Levels(i)
  PROVE  n = m
<1>1. ASSUME NEW k \in Levels(i), NEW l \in Levels(i), k < l PROVE FALSE
  <2>1. k \in Nat /\ l \in Nat /\ k + 1 \in 1..l
    BY <1>1, SourceIs DEF Levels
  <2>2. source[i + (k + 1)] = "="
    BY <2>1 DEF Levels
  <2>3. source[i + k + 1] = "[" /\ i + k + 1 = i + (k + 1)
    BY <2>1 DEF Levels, At
  <2> QED
    BY <2>2, <2>3
<1>2. n \in Nat /\ m \in Nat
  BY SourceIs DEF Levels
<1> QED
  BY <1>1, <1>2

\* The length of a closing bracket.
LEMMA CloseLength == ASSUME NEW n \in Nat PROVE Len(Close(n)) = n + 2
<1> DEFINE S == {"=", "]"}
           middle == [k \in 1..n |-> "="]
<1>1. middle \in Seq(S) /\ Len(middle) = n
  OBVIOUS
<1>2. <<"]">> \in Seq(S) /\ Len(<<"]">>) = 1
  OBVIOUS
<1> HIDE DEF S, middle
<1>3. <<"]">> \o middle \in Seq(S) /\ Len(<<"]">> \o middle) = 1 + n
  BY <1>1, <1>2
<1> QED
  BY <1>1, <1>2, <1>3 DEF Close, middle

\* Where a comment of one line ends.
LEMMA LineEnds ==
  ASSUME ScanTypeOK, NEW i \in Nat, Comment(i), Levels(i + 2) = {}
  PROVE  LET e == Min({End} \cup {j \in (i + 2)..Len(source) : source[j] = "\n"})
         IN  e = LiteralEnd(i) /\ i < e /\ e <= End /\ Closes(i) # {} /\ Opens(i) /\ e \in Nat
<1> DEFINE S == {j \in (i + 2)..Len(source) : source[j] = "\n"} \cup {End}
<1>1. source[i] = "-" /\ i \in 1..Len(source) /\ i + 1 \in 1..Len(source)
  BY SourceIs DEF Comment, At
<1>2. Closes(i) = S
  BY <1>1, CharacterFacts DEF Closes, LineCloses
<1>3. S \in SUBSET Nat /\ S # {} /\ \A j \in S : i < j
  BY <1>1, SourceIs
<1>4. {End} \cup {j \in (i + 2)..Len(source) : source[j] = "\n"} = S
  OBVIOUS
<1>5. End \in S
  OBVIOUS
<1> HIDE DEF S
<1>6. Min(S) \in S /\ Min(S) <= End
  BY <1>3, <1>5, MinIs
<1>7. Opens(i)
  BY DEF Opens
<1> QED
  BY <1>2, <1>3, <1>4, <1>6, <1>7 DEF LiteralEnd

\* Where a long bracket, or a comment of several lines, ends.
LEMMA LongBracketEnds ==
  ASSUME ScanTypeOK, NEW i \in Nat \ {0}, Opens(i), source[i] \notin Quotes,
         NEW open, open = IF Comment(i) THEN i + 2 ELSE i, NEW n \in Levels(open)
  PROVE  /\ LongEnds(open, n) = {} <=> Closes(i) = {}
         /\ LiteralEnd(i) = IF LongEnds(open, n) = {} THEN End ELSE Min(LongEnds(open, n))
         /\ i < LiteralEnd(i) /\ LiteralEnd(i) <= End /\ LiteralEnd(i) \in Nat /\ i \in DOMAIN source
<1> DEFINE ends == Brackets(open, n)
<1>1. open \in Nat /\ n \in Nat /\ i <= open
  BY SourceIs DEF Levels
<1>2. open \in DOMAIN source /\ i \in DOMAIN source
  BY SourceIs, <1>1 DEF Levels, At, Comment
<1>3. \A m \in Levels(open) : m = n
  BY <1>1, OneLevel
<1>4. Closes(i) = {j + n + 2 : j \in ends}
  <2>1. ~(Comment(i) /\ Levels(i + 2) = {})
    OBVIOUS
  <2>2. Closes(i) = UNION {{j + m + 2 : j \in Brackets(open, m)} : m \in Levels(open)}
    BY <2>1 DEF Closes, LongCloses
  <2>3. Levels(open) = {n}
    BY <1>3
  <2> QED
    BY <2>2, <2>3
<1>5. ASSUME NEW j \in ends PROVE j \in Nat /\ i < j /\ j + n + 2 <= End
  <2>1. j + (n + 2) - 1 <= Len(source)
    BY <1>1, CloseLength DEF Brackets, Occurs
  <2> QED
    BY <1>1, <2>1, SourceIs DEF Brackets
<1>6. LongEnds(open, n) = IF ends = {} THEN {} ELSE {Min(ends) + n + 2}
  BY DEF LongEnds
<1> HIDE DEF ends
<1>7. CASE ends = {}
  <2>1. Closes(i) = {} /\ LongEnds(open, n) = {}
    BY <1>4, <1>6, <1>7
  <2>2. LiteralEnd(i) = End
    BY <2>1 DEF LiteralEnd
  <2> QED
    BY <1>2, <2>1, <2>2, SourceIs
<1>8. CASE ends # {}
  <2> DEFINE e == Min(ends) + n + 2
  <2>1. Min(ends) \in ends /\ \A j \in ends : Min(ends) <= j
    BY <1>5, <1>8, MinIs
  <2>2. e \in Nat /\ i < e /\ e <= End
    BY <1>1, <1>5, <2>1, SourceIs
  <2>3. e \in Closes(i) /\ \A k \in Closes(i) : k \in Nat /\ e <= k
    BY <1>1, <1>4, <1>5, <2>1
  <2> HIDE DEF e
  <2>4. LiteralEnd(i) = e
    <3>1. Closes(i) \in SUBSET Nat /\ Closes(i) # {}
      BY <2>3
    <3> QED
      BY <2>3, <3>1, MinEquals DEF LiteralEnd
  <2>5. LongEnds(open, n) = {e} /\ Min({e}) = e
    BY <1>6, <1>8, <2>2, MinEquals DEF e
  <2> QED
    BY <1>2, <2>2, <2>3, <2>4, <2>5
<1> QED
  BY <1>7, <1>8

\* An even run of backslashes is no odd one.
LEMMA EvenNotEscaped ==
  ASSUME NEW b \in Nat, NEW k \in Nat, EvenRun(b, k)
  PROVE  ~Escaped(b, k)
<1> SUFFICES ASSUME Escaped(b, k) PROVE FALSE
  OBVIOUS
<1>1. PICK m \in 0..(k - b - 1) :
        /\ m % 2 = 0 /\ \A j \in (k - m)..(k - 1) : source[j] = "\\"
        /\ k - m - 1 = b \/ source[k - m - 1] # "\\"
  BY DEF EvenRun
<1>2. PICK n \in 1..(k - b - 1) :
        /\ n % 2 = 1 /\ \A j \in (k - n)..(k - 1) : source[j] = "\\"
        /\ k - n - 1 = b \/ source[k - n - 1] # "\\"
  BY DEF Escaped
<1>3. CASE m < n
  <2>1. k - m - 1 \in (k - n)..(k - 1) /\ k - m - 1 # b
    BY <1>3
  <2> QED
    BY <1>1, <1>2, <2>1
<1>4. CASE n < m
  <2>1. k - n - 1 \in (k - m)..(k - 1) /\ k - n - 1 # b
    BY <1>4
  <2> QED
    BY <1>1, <1>2, <2>1
<1>5. m # n
  BY <1>1, <1>2
<1> QED
  BY <1>3, <1>4, <1>5

\* A backslash that is not escaped escapes the next character, and that one leaves an
\* even run behind it, whatever it is.
LEMMA BackslashTakes ==
  ASSUME NEW b \in Nat, NEW k \in Nat, b < k, EvenRun(b, k), source[k] = "\\"
  PROVE  Escaped(b, k + 1) /\ EvenRun(b, k + 2)
<1>1. PICK m \in 0..(k - b - 1) :
        /\ m % 2 = 0 /\ \A j \in (k - m)..(k - 1) : source[j] = "\\"
        /\ k - m - 1 = b \/ source[k - m - 1] # "\\"
  BY DEF EvenRun
<1>2. \A j \in (k - m)..k : source[j] = "\\"
  <2>1. \A j \in (k - m)..k : j = k \/ j \in (k - m)..(k - 1)
    OBVIOUS
  <2> QED
    BY <1>1, <2>1
<1>3. Escaped(b, k + 1)
  <2>1. m + 1 \in 1..((k + 1) - b - 1) /\ (m + 1) % 2 = 1
    BY <1>1
  <2>2. (k + 1) - (m + 1) = k - m /\ (k + 1) - 1 = k /\ (k + 1) - (m + 1) - 1 = k - m - 1
    OBVIOUS
  <2> QED
    BY <1>1, <1>2, <2>1, <2>2 DEF Escaped
<1>4. CASE source[k + 1] = "\\"
  <2>1. m + 2 \in 0..((k + 2) - b - 1) /\ (m + 2) % 2 = 0
    BY <1>1
  <2>2. (k + 2) - (m + 2) = k - m /\ (k + 2) - 1 = k + 1 /\ (k + 2) - (m + 2) - 1 = k - m - 1
    OBVIOUS
  <2>3. \A j \in (k - m)..(k + 1) : source[j] = "\\"
    <3>1. \A j \in (k - m)..(k + 1) : j = k + 1 \/ j \in (k - m)..k
      OBVIOUS
    <3> QED
      BY <1>2, <1>4, <3>1
  <2> QED
    BY <1>1, <1>3, <2>1, <2>2, <2>3 DEF EvenRun
<1>5. CASE source[k + 1] # "\\"
  <2>1. 0 \in 0..((k + 2) - b - 1) /\ 0 % 2 = 0 /\ (k + 2) - 0 - 1 = k + 1
        /\ \A j : j \notin ((k + 2) - 0)..((k + 2) - 1)
    OBVIOUS
  <2> QED
    BY <1>3, <1>5, <2>1 DEF EvenRun
<1> QED
  BY <1>4, <1>5

\* No run ends where another character has come, or the string begins.
LEMMA NoRun ==
  ASSUME NEW b \in Nat, NEW k \in Nat, b < k, k - 1 = b \/ source[k - 1] # "\\"
  PROVE  EvenRun(b, k)
<1>1. 0 \in 0..(k - b - 1) /\ 0 % 2 = 0 /\ k - 0 - 1 = k - 1 /\ \A j : j \notin (k - 0)..(k - 1)
  OBVIOUS
<1> QED
  BY <1>1 DEF EvenRun

\* Where a string ends, when the quote that closes it or the end has been reached.
LEMMA StringEnds ==
  ASSUME ScanTypeOK, QuoteInv, loop = "quote", index < End => source[index] = source[begin],
         NEW e \in Nat, e = IF index < End THEN index + 1 ELSE index
  PROVE  /\ LiteralEnd(begin) = e /\ begin < e /\ e <= End /\ Opens(begin) /\ begin \in DOMAIN source
         /\ Closes(begin) = {} <=> index >= End
<1>1. /\ begin \in DOMAIN source /\ source[begin] \in Quotes /\ begin < index /\ index <= End
      /\ \A k \in (begin + 1)..(index - 1) : source[k] = source[begin] => Escaped(begin, k)
      /\ index < End => EvenRun(begin, index)
  BY DEF QuoteInv
<1>2. begin \in Nat /\ index \in Nat /\ End \in Nat /\ End = Len(source) + 1 /\ Len(source) \in Nat
  BY SourceIs DEF ScanTypeOK
<1>3. Opens(begin)
  BY <1>1 DEF Opens
<1> DEFINE C == {j \in (begin + 1)..Len(source) : source[j] = source[begin] /\ ~Escaped(begin, j)}
<1>4. Closes(begin) = {k + 1 : k \in C}
  BY <1>1 DEF Closes, StringCloses
<1>5. \A j \in C : j \in Nat /\ j \in (begin + 1)..Len(source) /\ ~(j < index)
  <2> SUFFICES ASSUME NEW j \in C, j < index PROVE FALSE
    BY <1>2
  <2>1. j \in (begin + 1)..(index - 1)
    BY <1>2
  <2> QED
    BY <1>1, <2>1
<1>6. CASE index < End
  <2>1. index \in C
    BY <1>1, <1>2, <1>6, EvenNotEscaped
  <2> HIDE DEF C
  <2>2. e \in Closes(begin) /\ \A j \in Closes(begin) : j \in Nat /\ e <= j
    BY <1>2, <1>4, <1>5, <1>6, <2>1
  <2>3. LiteralEnd(begin) = e
    <3>1. Closes(begin) \in SUBSET Nat /\ Closes(begin) # {}
      BY <2>2
    <3> QED
      BY <2>2, <3>1, MinEquals DEF LiteralEnd
  <2> QED
    BY <1>1, <1>2, <1>3, <1>6, <2>2, <2>3
<1>7. CASE ~(index < End)
  <2>1. index = End /\ e = End
    BY <1>1, <1>2, <1>7
  <2>2. C = {}
    BY <1>2, <1>5, <2>1
  <2>3. Closes(begin) = {}
    BY <1>4, <2>2
  <2> QED
    BY <1>1, <1>2, <1>3, <2>1, <2>3 DEF LiteralEnd
<1> QED
  BY <1>6, <1>7

\* A text of which a span is masked, character by character.
LEMMA BlankIs ==
  ASSUME NEW s \in Seq(Characters), NEW b, NEW e
  PROVE  /\ Blank(s, b, e) \in Seq(Characters) /\ Len(Blank(s, b, e)) = Len(s)
         /\ DOMAIN Blank(s, b, e) = 1..Len(s)
         /\ \A i \in 1..Len(s) : Blank(s, b, e)[i] = IF i \in b..(e - 1) /\ s[i] # "\n" THEN Space ELSE s[i]
<1>1. DOMAIN s = 1..Len(s) /\ Len(s) \in Nat /\ \A j \in 1..Len(s) : s[j] \in Characters
  OBVIOUS
<1>2. Blank(s, b, e) \in [1..Len(s) -> Characters]
  BY <1>1, CharacterFacts DEF Blank
<1> QED
  BY <1>1, <1>2, TextOf DEF Blank

\* The text without literals, character by character.
LEMMA WithoutLiteralsIs ==
  ASSUME ScanTypeOK
  PROVE  /\ WithoutLiterals \in Seq(Characters) /\ Len(WithoutLiterals) = Len(source)
         /\ DOMAIN WithoutLiterals = 1..Len(source)
         /\ \A i \in 1..Len(source) : (Inside(i) /\ source[i] # "\n" => WithoutLiterals[i] = Space)
         /\ \A i \in 1..Len(source) : (~Inside(i) \/ source[i] = "\n" => WithoutLiterals[i] = source[i])
<1>1. DOMAIN source = 1..Len(source) /\ Len(source) \in Nat /\ \A j \in 1..Len(source) : source[j] \in Characters
  BY DEF ScanTypeOK
<1> DEFINE S == {i \in DOMAIN source : Inside(i) /\ source[i] # "\n"}
<1>2. WithoutLiterals = [i \in DOMAIN source |-> IF i \in S THEN Space ELSE source[i]]
  BY DEF WithoutLiterals
<1>4. \A i \in 1..Len(source) : i \in S <=> Inside(i) /\ source[i] # "\n"
  BY <1>1
<1> HIDE DEF S
<1>3. WithoutLiterals \in [1..Len(source) -> Characters]
  BY <1>1, <1>2, CharacterFacts
<1>5. \A i \in 1..Len(source) : WithoutLiterals[i] = IF i \in S THEN Space ELSE source[i]
  BY <1>1, <1>2
<1> QED
  BY <1>1, <1>3, <1>4, <1>5, TextOf

\* What the masked literals alone determine does not change with them.
LEMMA SpansStay ==
  ASSUME source' = source, spans' = spans
  PROVE  /\ WithoutLiterals' = WithoutLiterals /\ (Unclosed' <=> Unclosed)
         /\ \A i : Inside(i)' <=> Inside(i)
<1>1. \A i : Inside(i)' <=> Inside(i)
  BY DEF Inside
<1>2. WithoutLiterals' = WithoutLiterals
  BY <1>1 DEF WithoutLiterals
<1>3. Unclosed' <=> Unclosed
  BY SourceStays DEF Unclosed
<1> QED
  BY <1>1, <1>2, <1>3

\* A step that masks nothing, and goes over nothing that opens a literal.
LEMMA SpanStep ==
  ASSUME ScanTypeOK, SpanInv, source' = source, spans' = spans,
         Reached' \in Nat, Reached <= Reached', Reached' <= End,
         \A i \in DOMAIN source : Reached <= i /\ i < Reached' => ~Opens(i),
         loop' \in {"code", "quote", "balance"} =>
           loop \in {"code", "quote", "balance"} /\ text' = text
  PROVE  SpanInv'
<1>1. /\ WithoutLiterals' = WithoutLiterals
      /\ \A i : Inside(i)' <=> Inside(i)
      /\ End' = End /\ \A i : (Opens(i)' <=> Opens(i)) /\ LiteralEnd(i)' = LiteralEnd(i)
  BY SpansStay, SourceStays
<1>2. Reached \in Nat
  BY SourceIs DEF Reached, ScanTypeOK
<1>3. \A s \in spans : s[1] \in Nat /\ s[2] \in Nat
  BY DEF ScanTypeOK
<1>4. \A s \in spans' : /\ s[1] \in DOMAIN source' /\ Opens(s[1])' /\ s[2] = LiteralEnd(s[1])'
                        /\ s[1] < s[2] /\ s[2] <= Reached'
  BY <1>1, <1>2, <1>3 DEF SpanInv
<1>5. \A i \in DOMAIN source' : i < Reached' /\ Opens(i)' => Inside(i)'
  <2> SUFFICES ASSUME NEW i \in DOMAIN source, i < Reached', Opens(i) PROVE Inside(i)
    BY <1>1
  <2>1. i \in Nat /\ i < Reached
    BY <1>2, SourceIs
  <2> QED
    BY <2>1 DEF SpanInv
<1>6. loop' \in {"code", "quote", "balance"} => text' = WithoutLiterals'
  BY <1>1 DEF SpanInv
<1>7. \A s, t \in spans' : s # t => s[2] <= t[1] \/ t[2] <= s[1]
  BY DEF SpanInv
<1> QED
  BY <1>1, <1>4, <1>5, <1>6, <1>7 DEF SpanInv

\* A step that masks the literal where it is.
LEMMA MaskStep ==
  ASSUME ScanTypeOK, SpanInv, NEW b \in DOMAIN source, NEW e \in Nat, b = Reached, Opens(b),
         e = LiteralEnd(b), b < e, e <= End, loop \in {"code", "quote", "balance"},
         source' = source, Mask(b, e), loop' = "code", index' = e
  PROVE  SpanInv' /\ (Unclosed' <=> Unclosed \/ Closes(b) = {})
<1>1. End' = End /\ \A i : (Opens(i)' <=> Opens(i)) /\ LiteralEnd(i)' = LiteralEnd(i) /\ Closes(i)' = Closes(i)
  BY SourceStays
<1>2. spans' = spans \cup {<<b, e>>} /\ text' = Blank(text, b, e) /\ Reached' = e
  BY DEF Mask, Reached
<1>3. \A s \in spans : s[1] \in Nat /\ s[2] \in Nat /\ s[2] <= b
  BY DEF ScanTypeOK, SpanInv
<1>4. /\ Len(source) \in Nat /\ DOMAIN source = 1..Len(source) /\ b \in Nat
      /\ text \in Seq(Characters) /\ Len(text) = Len(source)
  BY SourceIs DEF ScanTypeOK
<1> DEFINE new == <<b, e>>
<1>12. new[1] = b /\ new[2] = e /\ spans' = spans \cup {new}
  BY <1>2
<1> HIDE DEF new
<1>5. \A i : Inside(i)' <=> Inside(i) \/ i \in b..(e - 1)
  BY <1>12, Zenon DEF Inside
<1>6. \A i \in b..(e - 1) : ~Inside(i)
  BY <1>3, <1>4 DEF Inside
<1>7. \A s \in spans' : /\ s[1] \in DOMAIN source' /\ Opens(s[1])' /\ s[2] = LiteralEnd(s[1])'
                        /\ s[1] < s[2] /\ s[2] <= Reached'
  <2>1. ASSUME NEW s \in spans
        PROVE  s[1] \in DOMAIN source /\ Opens(s[1]) /\ s[2] = LiteralEnd(s[1]) /\ s[1] < s[2] /\ s[2] <= e
    BY <1>3, <1>4 DEF SpanInv
  <2> QED
    BY <1>1, <1>2, <2>1
<1>8. \A s, t \in spans' : s # t => s[2] <= t[1] \/ t[2] <= s[1]
  <2>1. \A s, t \in spans : s # t => s[2] <= t[1] \/ t[2] <= s[1]
    BY DEF SpanInv
  <2> QED
    BY <1>2, <1>3, <2>1
<1>9. \A i \in DOMAIN source' : i < Reached' /\ Opens(i)' => Inside(i)'
  <2> SUFFICES ASSUME NEW i \in DOMAIN source, i < e, Opens(i) PROVE Inside(i) \/ i \in b..(e - 1)
    BY <1>1, <1>2, <1>5
  <2>1. i < b => Inside(i)
    BY DEF SpanInv
  <2> QED
    BY <1>4, <2>1
<1>10. text' = WithoutLiterals'
  <2>1. text = WithoutLiterals
    BY DEF SpanInv
  <2>2. /\ \A i \in 1..Len(source) : (Inside(i) /\ source[i] # "\n" => text[i] = Space)
        /\ \A i \in 1..Len(source) : (~Inside(i) \/ source[i] = "\n" => text[i] = source[i])
    BY <2>1, WithoutLiteralsIs
  <2> DEFINE T == {i \in DOMAIN source : (Inside(i) \/ i \in b..(e - 1)) /\ source[i] # "\n"}
  <2>3. WithoutLiterals' = [i \in 1..Len(source) |-> IF i \in T THEN Space ELSE source[i]]
    BY <1>4, <1>5 DEF WithoutLiterals
  <2>4. \A i \in 1..Len(source) : i \in T <=> (Inside(i) \/ i \in b..(e - 1)) /\ source[i] # "\n"
    BY <1>4
  <2> DEFINE S == {i \in DOMAIN text : i \in b..(e - 1) /\ text[i] # "\n"}
  <2>5. text' = [i \in 1..Len(source) |-> IF i \in S THEN Space ELSE text[i]]
    BY <1>2, <1>4 DEF Blank
  <2>6. \A i \in 1..Len(source) : i \in S <=> i \in b..(e - 1) /\ text[i] # "\n"
    BY <1>4
  <2> HIDE DEF T, S
  <2>7. ASSUME NEW i \in 1..Len(source)
        PROVE  (IF i \in T THEN Space ELSE source[i]) = (IF i \in S THEN Space ELSE text[i])
    <3>1. CASE i \in b..(e - 1)
      BY <1>6, <2>2, <2>4, <2>6, <3>1
    <3>2. CASE i \notin b..(e - 1)
      BY <2>2, <2>4, <2>6, <3>2
    <3> QED
      BY <3>1, <3>2
  <2> QED
    BY <2>3, <2>5, <2>7
<1>11. Unclosed' <=> Unclosed \/ Closes(b) = {}
  BY <1>1, <1>12, Zenon DEF Unclosed
<1> QED
  BY <1>1, <1>2, <1>7, <1>8, <1>9, <1>10, <1>11 DEF SpanInv
-----------------------------------------------------------------------------
(* The inductive invariant                                                 *)

\* A file is known to be malformed as soon as a literal in it is found not to close.
MalformedInv ==
  /\ loop \in {"code", "quote"} => (malformed <=> Unclosed)
  /\ loop \in {"balance", "keys", "words"} => ~malformed /\ ~Unclosed
  /\ loop \in {"keys", "words"} => Nested(WithoutLiterals)
  /\ loop = "done" => (malformed <=> Unclosed \/ ~Nested(WithoutLiterals))

\* The stack is what is open of the text read.
BalanceInv ==
  /\ loop \in {"code", "quote"} => stack = << >>
  /\ loop = "balance" => index <= End /\ \E p, m : Stacked(text, index, stack, p, m)

\* The keys before the position are masked, and it is in none.
KeysInv ==
  /\ loop = "keys" => /\ index <= End /\ text = WithoutKeys(WithoutLiterals, index)
                      /\ Apart(WithoutLiterals, index)
  /\ loop = "words" => text = WithoutKeys(WithoutLiterals, End)

\* What is to be reported of some of the words.
Reports(words) ==
  {[word |-> w, line |-> LineAt(source, Min(Uses(WithoutLiterals, w)))] :
     w \in {v \in words : Uses(WithoutLiterals, v) # {}}}
Searched == Len(Words) - Len(remaining)

\* The words before the one that is looked for are reported, and no use of that one
\* has been passed.
WordsInv ==
  /\ loop \notin {"words", "done"} => remaining = Words /\ findings = {}
  /\ loop = "words" =>
       /\ Len(remaining) <= Len(Words) /\ \A i \in DOMAIN remaining : remaining[i] = Words[Searched + i]
       /\ findings = Reports({Words[i] : i \in 1..Searched})
       /\ remaining # << >> => \A i \in Uses(WithoutLiterals, Head(remaining)) : index <= i
  /\ loop = "done" /\ ~malformed => findings = Reports({Words[i] : i \in DOMAIN Words})

ScanInv ==
  ScanTypeOK /\ SpanInv /\ QuoteInv /\ MalformedInv /\ BalanceInv /\ KeysInv /\ WordsInv

\* While literals are masked nothing else is begun.
LEMMA OnlyMasking ==
  ASSUME BalanceInv, WordsInv, Later, loop \in {"code", "quote"}, loop' \in {"code", "quote"},
         malformed' <=> Unclosed'
  PROVE  MalformedInv' /\ BalanceInv' /\ KeysInv' /\ WordsInv'
<1>1. loop' # "balance" /\ loop' # "keys" /\ loop' # "words" /\ loop' # "done"
  OBVIOUS
<1>2. loop # "balance" /\ loop # "keys" /\ loop # "words" /\ loop # "done"
  OBVIOUS
<1>3. MalformedInv'
  BY <1>1, Zenon DEF MalformedInv
<1>4. BalanceInv'
  BY <1>1, Zenon DEF BalanceInv, Later
<1>5. KeysInv'
  BY <1>1, Zenon DEF KeysInv
<1>6. WordsInv'
  BY <1>1, <1>2, Zenon DEF WordsInv, Later
<1> QED
  BY <1>3, <1>4, <1>5, <1>6

\* What a step has to show of the string it is in.
LEMMA QuoteNext ==
  ASSUME source' = source,
         loop' = "quote" =>
           /\ begin' \in DOMAIN source /\ source[begin'] \in Quotes /\ begin' < index' /\ index' <= End
           /\ \A k \in (begin' + 1)..(index' - 1) : source[k] = source[begin'] => Escaped(begin', k)
           /\ index' < End => EvenRun(begin', index')
  PROVE  QuoteInv'
BY DEF QuoteInv, Escaped, EvenRun, End

\* A quote begins a string in which nothing has been read.
LEMMA OpenQuoteKept == ScanInv /\ OpenQuote => ScanInv'
<1> SUFFICES ASSUME ScanInv, OpenQuote PROVE ScanInv'
  OBVIOUS
<1> USE DEF ScanInv
<1>1. /\ loop = "code" /\ index < End /\ source[index] \in Quotes
      /\ loop' = "quote" /\ begin' = index /\ index' = index + 1
      /\ Later /\ UNCHANGED <<text, malformed, spans>>
  BY DEF OpenQuote
<1>2. UNCHANGED <<source, stack, remaining, findings>>
  BY <1>1 DEF Later
<1>3. index \in Nat \ {0} /\ End = Len(source) + 1 /\ Len(source) \in Nat /\ DOMAIN source = 1..Len(source)
  BY SourceIs DEF ScanTypeOK
<1>4. ScanTypeOK'
  BY <1>1, <1>2 DEF ScanTypeOK
<1>5. Reached' = index /\ Reached = index
  BY <1>1 DEF Reached
<1>6. SpanInv'
  BY <1>1, <1>2, <1>3, <1>5, SpanStep
<1>7. QuoteInv'
  <2>1. index \in 1..Len(source) /\ index + 1 <= End
    BY <1>1, <1>3
  <2>2. EvenRun(index, index + 1)
    BY <1>3, NoRun
  <2>3. \A k : k \notin (index + 1)..(index + 1 - 1)
    BY <1>3
  <2> QED
    BY <1>1, <1>2, <1>3, <2>1, <2>2, <2>3, QuoteNext
<1>8. malformed' <=> Unclosed'
  BY <1>1, <1>2, SpansStay DEF MalformedInv
<1> QED
  BY <1>1, <1>4, <1>6, <1>7, <1>8, OnlyMasking

\* A character that is read in a string is not the quote that closes it.
LEMMA InQuoteKept == ScanInv /\ InQuote => ScanInv'
<1> SUFFICES ASSUME ScanInv, InQuote PROVE ScanInv'
  OBVIOUS
<1> USE DEF ScanInv
<1>1. /\ loop = "quote" /\ index < End /\ source[index] # source[begin]
      /\ index' = (IF source[index] = "\\" /\ index + 1 < End THEN index + 2 ELSE index + 1)
      /\ Later /\ UNCHANGED <<text, loop, begin, malformed, spans>>
  BY DEF InQuote
<1>2. UNCHANGED <<source, stack, remaining, findings>>
  BY <1>1 DEF Later
<1>3. /\ index \in Nat \ {0} /\ begin \in Nat /\ End = Len(source) + 1 /\ Len(source) \in Nat
      /\ DOMAIN source = 1..Len(source)
  BY SourceIs DEF ScanTypeOK
<1>4. ScanTypeOK'
  <2>1. index' \in Nat \ {0}
    BY <1>1, <1>3
  <2> QED
    BY <1>1, <1>2, <2>1 DEF ScanTypeOK
<1>9. /\ begin \in DOMAIN source /\ source[begin] \in Quotes /\ begin < index /\ index <= End
      /\ \A k \in (begin + 1)..(index - 1) : source[k] = source[begin] => Escaped(begin, k)
      /\ EvenRun(begin, index)
  BY <1>1 DEF QuoteInv
<1>5. Reached' = begin /\ Reached = begin
  BY <1>1 DEF Reached
<1>6. SpanInv'
  <2>1. begin <= End
    BY <1>3, <1>9
  <2> QED
    BY <1>1, <1>2, <1>3, <1>5, <2>1, SpanStep
<1>7. QuoteInv'
  <2>1. ASSUME NEW k \in (begin + 1)..index, source[k] = source[begin] PROVE Escaped(begin, k)
    <3>1. k # index
      BY <1>1, <2>1
    <3>2. k \in (begin + 1)..(index - 1)
      BY <1>3, <3>1
    <3> QED
      BY <1>9, <2>1, <3>2
  <2>2. CASE source[index] = "\\" /\ index + 1 < End
    <3>1. index' = index + 2
      BY <1>1, <2>2
    <3>2. Escaped(begin, index + 1) /\ EvenRun(begin, index + 2)
      BY <1>3, <1>9, <2>2, BackslashTakes
    <3>3. \A k \in (begin + 1)..(index' - 1) : k \in (begin + 1)..index \/ k = index + 1
      BY <1>3, <3>1
    <3>4. begin < index' /\ index' <= End
      BY <1>3, <1>9, <2>2, <3>1
    <3> QED
      BY <1>1, <1>2, <1>9, <2>1, <3>1, <3>2, <3>3, <3>4, QuoteNext
  <2>3. CASE ~(source[index] = "\\" /\ index + 1 < End)
    <3>1. index' = index + 1
      BY <1>1, <2>3
    <3>2. index' < End => EvenRun(begin, index')
      <4> SUFFICES ASSUME index' < End PROVE EvenRun(begin, index + 1)
        BY <3>1
      <4>1. source[index] # "\\"
        BY <2>3, <3>1
      <4>2. begin < index + 1 /\ (index + 1) - 1 = index /\ index + 1 \in Nat
        BY <1>3, <1>9
      <4> QED
        BY <1>3, <4>1, <4>2, NoRun
    <3>3. \A k \in (begin + 1)..(index' - 1) : k \in (begin + 1)..index
      BY <1>3, <3>1
    <3>4. begin < index' /\ index' <= End
      BY <1>1, <1>3, <1>9, <3>1
    <3> QED
      BY <1>1, <1>2, <1>9, <2>1, <3>2, <3>3, <3>4, QuoteNext
  <2> QED
    BY <2>2, <2>3
<1>8. malformed' <=> Unclosed'
  BY <1>1, <1>2, SpansStay DEF MalformedInv
<1> QED
  BY <1>1, <1>4, <1>6, <1>7, <1>8, OnlyMasking

\* What masking a literal leaves of the types.
LEMMA MaskTypes ==
  ASSUME ScanTypeOK, NEW b \in Nat, NEW e \in Nat \ {0}, Mask(b, e), Later, index' = e, loop' = "code",
         malformed' \in BOOLEAN, begin' = begin
  PROVE  ScanTypeOK'
<1>1. /\ text' \in Seq(Characters) /\ Len(text') = Len(text)
      /\ spans' \subseteq (Nat \X Nat)
  <2>1. text' = Blank(text, b, e) /\ text \in Seq(Characters)
    BY DEF Mask, ScanTypeOK
  <2>2. spans' \subseteq (Nat \X Nat)
    BY DEF Mask, ScanTypeOK
  <2> QED
    BY <2>1, <2>2, BlankIs
<1> QED
  BY <1>1 DEF ScanTypeOK, Later

\* The quote that closes a string is the first that is not escaped.
LEMMA CloseQuoteKept == ScanInv /\ CloseQuote => ScanInv'
<1> SUFFICES ASSUME ScanInv, CloseQuote PROVE ScanInv'
  OBVIOUS
<1> USE DEF ScanInv
<1>1. /\ loop = "quote" /\ (index < End => source[index] = source[begin])
      /\ malformed' = (malformed \/ index >= End)
      /\ index' = (IF index < End THEN index + 1 ELSE index) /\ Mask(begin, index')
      /\ loop' = "code" /\ Later /\ UNCHANGED begin
  BY DEF CloseQuote
<1>2. source' = source
  BY <1>1 DEF Later
<1>3. index \in Nat \ {0} /\ begin \in Nat /\ malformed \in BOOLEAN
  BY DEF ScanTypeOK
<1>4. index' \in Nat \ {0} /\ malformed' \in BOOLEAN
  BY <1>1, <1>3
<1>5. ScanTypeOK'
  BY <1>1, <1>3, <1>4, MaskTypes
<1>6. /\ LiteralEnd(begin) = index' /\ begin < index' /\ index' <= End /\ Opens(begin) /\ begin \in DOMAIN source
      /\ Closes(begin) = {} <=> index >= End
  BY <1>1, <1>4, StringEnds
<1>7. Reached = begin
  BY <1>1 DEF Reached
<1>8. SpanInv' /\ (Unclosed' <=> Unclosed \/ Closes(begin) = {})
  BY <1>1, <1>2, <1>4, <1>6, <1>7, MaskStep
<1>9. QuoteInv'
  BY <1>1 DEF QuoteInv
<1>10. malformed' <=> Unclosed'
  <2>1. malformed <=> Unclosed
    BY <1>1 DEF MalformedInv
  <2> QED
    BY <1>1, <1>6, <1>8, <2>1
<1> QED
  BY <1>1, <1>5, <1>8, <1>9, <1>10, OnlyMasking

\* A comment of one line is masked to the end of the line.
LEMMA LineCommentKept == ScanInv /\ LineComment => ScanInv'
<1> SUFFICES ASSUME ScanInv, LineComment PROVE ScanInv'
  OBVIOUS
<1> USE DEF ScanInv
<1>1. /\ loop = "code" /\ Comment(index) /\ Levels(index + 2) = {}
      /\ index' = Min({End} \cup {j \in (index + 2)..Len(source) : source[j] = "\n"})
      /\ Mask(index, index') /\ Later /\ UNCHANGED <<loop, begin, malformed>>
  BY DEF LineComment
<1>2. source' = source
  BY <1>1 DEF Later
<1>3. index \in Nat \ {0} /\ malformed \in BOOLEAN
  BY DEF ScanTypeOK
<1>4. /\ index' = LiteralEnd(index) /\ index < index' /\ index' <= End /\ Closes(index) # {}
      /\ Opens(index) /\ index' \in Nat
  BY <1>1, <1>3, LineEnds
<1>5. index \in DOMAIN source /\ index' \in Nat \ {0}
  BY <1>1, <1>3, <1>4 DEF Comment, At
<1>6. ScanTypeOK'
  BY <1>1, <1>3, <1>5, MaskTypes
<1>7. Reached = index
  BY <1>1 DEF Reached
<1>8. SpanInv' /\ (Unclosed' <=> Unclosed \/ Closes(index) = {})
  BY <1>1, <1>2, <1>4, <1>5, <1>7, MaskStep
<1>9. QuoteInv'
  BY <1>1 DEF QuoteInv
<1>10. malformed' <=> Unclosed'
  BY <1>1, <1>4, <1>8 DEF MalformedInv
<1> QED
  BY <1>1, <1>6, <1>8, <1>9, <1>10, OnlyMasking

\* A long bracket is masked to the closing one of its level.
LEMMA LongBracketKept == ScanInv /\ LongBracket => ScanInv'
<1> SUFFICES ASSUME ScanInv, LongBracket PROVE ScanInv'
  OBVIOUS
<1> USE DEF ScanInv
<1>1. /\ loop = "code" /\ Opens(index) /\ source[index] \notin Quotes
      /\ Mask(index, index') /\ Later /\ UNCHANGED <<loop, begin>>
  BY DEF LongBracket
<1>2. PICK open, n : /\ open = IF Comment(index) THEN index + 2 ELSE index
                     /\ n \in Levels(open)
                     /\ malformed' = (malformed \/ LongEnds(open, n) = {})
                     /\ index' = (IF LongEnds(open, n) = {} THEN End ELSE Min(LongEnds(open, n)))
  BY DEF LongBracket
<1>3. source' = source
  BY <1>1 DEF Later
<1>4. index \in Nat \ {0} /\ malformed \in BOOLEAN
  BY DEF ScanTypeOK
<1>5. /\ LongEnds(open, n) = {} <=> Closes(index) = {}
      /\ index' = LiteralEnd(index)
      /\ index < index' /\ index' <= End /\ index' \in Nat /\ index \in DOMAIN source
  BY <1>1, <1>2, <1>4, LongBracketEnds
<1>6. ScanTypeOK'
  <2>1. index' \in Nat \ {0} /\ malformed' \in BOOLEAN
    BY <1>2, <1>4, <1>5
  <2> QED
    BY <1>1, <1>4, <2>1, MaskTypes
<1>7. Reached = index
  BY <1>1 DEF Reached
<1>8. SpanInv' /\ (Unclosed' <=> Unclosed \/ Closes(index) = {})
  BY <1>1, <1>3, <1>5, <1>7, MaskStep
<1>9. QuoteInv'
  BY <1>1 DEF QuoteInv
<1>10. malformed' <=> Unclosed'
  <2>1. malformed <=> Unclosed
    BY <1>1 DEF MalformedInv
  <2> QED
    BY <1>2, <1>5, <1>8, <2>1
<1> QED
  BY <1>1, <1>6, <1>8, <1>9, <1>10, OnlyMasking

\* A character that opens nothing is passed.
LEMMA SkipKept == ScanInv /\ Skip => ScanInv'
<1> SUFFICES ASSUME ScanInv, Skip PROVE ScanInv'
  OBVIOUS
<1> USE DEF ScanInv
<1>1. /\ loop = "code" /\ index < End /\ ~Opens(index) /\ index' = index + 1
      /\ Later /\ UNCHANGED <<text, loop, begin, malformed, spans>>
  BY DEF Skip
<1>2. UNCHANGED <<source, stack, remaining, findings>>
  BY <1>1 DEF Later
<1>3. index \in Nat \ {0} /\ End = Len(source) + 1 /\ Len(source) \in Nat /\ DOMAIN source = 1..Len(source)
  BY SourceIs DEF ScanTypeOK
<1>4. ScanTypeOK'
  BY <1>1, <1>2 DEF ScanTypeOK
<1>5. Reached' = index + 1 /\ Reached = index
  BY <1>1 DEF Reached
<1>6. SpanInv'
  <2>1. \A i \in DOMAIN source : index <= i /\ i < index + 1 => i = index
    BY <1>3
  <2> QED
    BY <1>1, <1>2, <1>3, <1>5, <2>1, SpanStep
<1>7. QuoteInv'
  BY <1>1 DEF QuoteInv
<1>8. malformed' <=> Unclosed'
  BY <1>1, <1>2, SpansStay DEF MalformedInv
<1> QED
  BY <1>1, <1>4, <1>6, <1>7, <1>8, OnlyMasking

\* At the end of the file every literal has been masked.
LEMMA MaskedKept == ScanInv /\ Masked => ScanInv'
<1> SUFFICES ASSUME ScanInv, Masked PROVE ScanInv'
  OBVIOUS
<1> USE DEF ScanInv
<1>1. /\ loop = "code" /\ index >= End
      /\ loop' = (IF malformed THEN "done" ELSE "balance") /\ index' = 1
      /\ Later /\ UNCHANGED <<text, begin, malformed, spans>>
  BY DEF Masked
<1>2. UNCHANGED <<source, stack, remaining, findings>>
  BY <1>1 DEF Later
<1>3. index \in Nat \ {0} /\ End = Len(source) + 1 /\ Len(source) \in Nat /\ DOMAIN source = 1..Len(source)
  BY SourceIs DEF ScanTypeOK
<1>10. loop' \in {"done", "balance"} /\ malformed \in BOOLEAN
  BY <1>1 DEF ScanTypeOK
<1>4. ScanTypeOK'
  BY <1>1, <1>2, <1>10 DEF ScanTypeOK
<1>5. Reached' = End /\ Reached = End
  <2>1. End' = End
    BY <1>2 DEF End
  <2>2. Reached = index /\ index <= End
    BY <1>1 DEF Reached, SpanInv
  <2> QED
    BY <1>1, <1>3, <1>10, <2>1, <2>2 DEF Reached
<1>6. SpanInv'
  <2>1. \A i \in DOMAIN source : ~(End <= i)
    BY <1>3
  <2> QED
    BY <1>1, <1>2, <1>3, <1>5, <2>1, SpanStep
<1>7. QuoteInv'
  BY <1>10 DEF QuoteInv
<1>8. malformed <=> Unclosed
  BY <1>1 DEF MalformedInv
<1>9. MalformedInv'
  <2>1. Unclosed' <=> Unclosed
    BY <1>1, <1>2, SpansStay
  <2> QED
    BY <1>1, <1>8, <1>10, <2>1 DEF MalformedInv
<1>11. BalanceInv'
  <2>1. stack' = << >>
    BY <1>1, <1>2 DEF BalanceInv
  <2>2. text \in Seq(Characters) /\ 1 <= End /\ End' = End
    BY <1>2, <1>3 DEF ScanTypeOK, End
  <2>3. Stacked(text, 1, << >>, << >>, << >>)
    BY <2>2, StackedFirst
  <2>4. \E p, m : Stacked(text', index', stack', p, m)
    BY <1>1, <2>1, <2>3
  <2>5. loop' # "code" /\ loop' # "quote"
    BY <1>10
  <2> QED
    BY <1>1, <2>2, <2>4, <2>5 DEF BalanceInv, Stacked, Shut, Ups, Downs, Pairing
<1>12. KeysInv'
  BY <1>10 DEF KeysInv
<1>13. WordsInv'
  BY <1>1, <1>2, <1>10 DEF WordsInv
<1> QED
  BY <1>4, <1>6, <1>7, <1>9, <1>11, <1>12, <1>13
-----------------------------------------------------------------------------
\* After the literals, what they leave stays.
LEMMA SpanRest ==
  ASSUME ScanTypeOK, SpanInv, source' = source, spans' = spans,
         loop \in {"balance", "keys", "words", "done"}, loop' \in {"balance", "keys", "words", "done"},
         loop' = "balance" => loop = "balance" /\ text' = text
  PROVE  SpanInv' /\ QuoteInv' /\ WithoutLiterals' = WithoutLiterals /\ (Unclosed' <=> Unclosed)
<1>1. Len(source) \in Nat /\ End = Len(source) + 1 /\ DOMAIN source = 1..Len(source)
  BY SourceIs
<1>2. Reached = End /\ Reached' = End
  <2>1. End' = End
    BY DEF End
  <2> QED
    BY <2>1 DEF Reached
<1>3. \A i \in DOMAIN source : ~(End <= i)
  BY <1>1
<1>4. loop' \in {"code", "quote", "balance"} => loop \in {"code", "quote", "balance"} /\ text' = text
  OBVIOUS
<1>5. SpanInv'
  BY <1>1, <1>2, <1>3, <1>4, SpanStep
<1>6. QuoteInv'
  BY DEF QuoteInv
<1> QED
  BY <1>5, <1>6, SpansStay

\* What the literals leave is nested or not, whatever else changes.
LEMMA NestedStays ==
  ASSUME WithoutLiterals' = WithoutLiterals
  PROVE  Nested(WithoutLiterals)' <=> Nested(WithoutLiterals)
OBVIOUS

\* The stack follows the delimiters.
LEMMA MatchKept == ScanInv /\ Match => ScanInv'
<1> SUFFICES ASSUME ScanInv, Match PROVE ScanInv'
  OBVIOUS
<1> USE DEF ScanInv
<1> DEFINE c == text[index]
<1>1. loop = "balance" /\ index < End /\ UNCHANGED <<source, text, begin, remaining, findings, spans>>
  BY DEF Match, Pairs
<1>2. \/ Opener(c) /\ stack' = Append(stack, c) /\ index' = index + 1 /\ UNCHANGED <<loop, malformed>>
      \/ ~Delimiter(c) /\ index' = index + 1 /\ UNCHANGED <<loop, malformed, stack>>
      \/ /\ Delimiter(c) /\ ~Opener(c) /\ ClosesTop(c)
         /\ stack' = SubSeq(stack, 1, Len(stack) - 1) /\ index' = index + 1
         /\ UNCHANGED <<loop, malformed>>
      \/ /\ Delimiter(c) /\ ~Opener(c) /\ ~ClosesTop(c)
         /\ malformed' = TRUE /\ loop' = "done" /\ UNCHANGED <<index, stack>>
  BY DEF Match
<1>3. /\ index \in Nat \ {0} /\ End = Len(source) + 1 /\ Len(source) \in Nat /\ Len(text) = Len(source)
      /\ text \in Seq(Characters) /\ stack \in Seq(DOMAIN Closer) /\ malformed \in BOOLEAN
  BY SourceIs DEF ScanTypeOK
<1>4. index \in 1..Len(text) /\ index + 1 <= End
  BY <1>1, <1>3
<1>5. PICK p, m : Stacked(text, index, stack, p, m)
  BY <1>1 DEF BalanceInv
<1>6. text = WithoutLiterals /\ ~malformed /\ ~Unclosed /\ remaining = Words /\ findings = {}
  BY <1>1 DEF SpanInv, MalformedInv, WordsInv
<1>7. loop' \in {"balance", "done"} /\ (loop' = "balance" => loop = "balance" /\ text' = text)
  BY <1>1, <1>2
<1>8. SpanInv' /\ QuoteInv' /\ WithoutLiterals' = WithoutLiterals /\ (Unclosed' <=> Unclosed)
  BY <1>1, <1>7, SpanRest
<1>9. KeysInv'
  BY <1>7 DEF KeysInv
<1>10. ASSUME stack' \in Seq(DOMAIN Closer), index' = index + 1, UNCHANGED <<loop, malformed>>,
             NEW q, NEW w, Stacked(text, index + 1, stack', q, w)
      PROVE  ScanInv'
  <2>1. ScanTypeOK'
    BY <1>1, <1>3, <1>10 DEF ScanTypeOK
  <2>2. MalformedInv'
    BY <1>1, <1>6, <1>8, <1>10 DEF MalformedInv
  <2>3. BalanceInv'
    <3>1. End' = End /\ index' <= End
      BY <1>1, <1>4, <1>10 DEF End
    <3>2. \E q1, w1 : Stacked(text', index', stack', q1, w1)
      BY <1>1, <1>10
    <3>3. loop' # "code" /\ loop' # "quote"
      BY <1>7
    <3> QED
      BY <3>1, <3>2, <3>3 DEF BalanceInv, Stacked, Shut, Ups, Downs, Pairing
  <2>4. WordsInv'
    BY <1>1, <1>6, <1>10 DEF WordsInv
  <2> QED
    BY <1>8, <1>9, <2>1, <2>2, <2>3, <2>4
<1>11. CASE Opener(c) /\ stack' = Append(stack, c) /\ index' = index + 1 /\ UNCHANGED <<loop, malformed>>
  <2>1. Stacked(text, index + 1, stack', Append(p, index), m)
    BY <1>3, <1>4, <1>5, <1>11, StackedPush
  <2>2. stack' \in Seq(DOMAIN Closer)
    <3>1. c \in DOMAIN Closer
      BY <1>11 DEF Opener
    <3> QED
      BY <1>3, <1>11, <3>1
  <2> QED
    BY <1>10, <1>11, <2>1, <2>2
<1>12. CASE ~Delimiter(c) /\ index' = index + 1 /\ UNCHANGED <<loop, malformed, stack>>
  <2>1. Stacked(text, index + 1, stack', p, m)
    BY <1>3, <1>4, <1>5, <1>12, StackedSkip
  <2> QED
    BY <1>3, <1>10, <1>12, <2>1
<1>13. CASE /\ Delimiter(c) /\ ~Opener(c) /\ ClosesTop(c)
            /\ stack' = SubSeq(stack, 1, Len(stack) - 1) /\ index' = index + 1
            /\ UNCHANGED <<loop, malformed>>
  <2>1. stack # << >> /\ Closer[stack[Len(stack)]] = text[index]
    BY <1>13 DEF ClosesTop
  <2>2. index \in Downs(text)
    BY <1>3, <1>4, <1>13, DelimitersAre
  <2>3. PICK q, w : Stacked(text, index + 1, stack', q, w)
    BY <1>3, <1>5, <1>13, <2>1, <2>2, StackedPop
  <2>4. stack' \in Seq(DOMAIN Closer)
    <3>1. Len(stack) \in Nat /\ Len(stack) - 1 <= Len(stack)
      BY <1>3
    <3> QED
      BY <1>3, <1>13, <3>1
  <2> QED
    BY <1>10, <1>13, <2>3, <2>4
<1>14. CASE /\ Delimiter(c) /\ ~Opener(c) /\ ~ClosesTop(c)
            /\ malformed' = TRUE /\ loop' = "done" /\ UNCHANGED <<index, stack>>
  <2>1. index \in Downs(text)
    BY <1>3, <1>4, <1>14, DelimitersAre
  <2>2. stack = << >> \/ Closer[stack[Len(stack)]] # text[index]
    BY <1>14 DEF ClosesTop
  <2>3. ~Nested(text)
    BY <1>3, <1>5, <2>1, <2>2, StackedStuck
  <2>4. ScanTypeOK'
    BY <1>1, <1>3, <1>14 DEF ScanTypeOK
  <2>5. MalformedInv'
    <3>1. (~Nested(WithoutLiterals))'
      BY <1>6, <1>8, <2>3, NestedStays
    <3> QED
      BY <1>14, <3>1 DEF MalformedInv
  <2>6. BalanceInv'
    BY <1>14 DEF BalanceInv
  <2>7. WordsInv'
    BY <1>14 DEF WordsInv
  <2> QED
    BY <1>8, <1>9, <2>4, <2>5, <2>6, <2>7
<1> QED
  BY <1>2, <1>11, <1>12, <1>13, <1>14

\* At the end of the text an empty stack says that the text is nested.
LEMMA MatchedKept == ScanInv /\ Matched => ScanInv'
<1> SUFFICES ASSUME ScanInv, Matched PROVE ScanInv'
  OBVIOUS
<1> USE DEF ScanInv
<1>1. /\ loop = "balance" /\ index >= End /\ UNCHANGED stack
      /\ UNCHANGED <<source, text, begin, remaining, findings, spans>>
      /\ malformed' = (stack # << >>) /\ loop' = (IF stack = << >> THEN "keys" ELSE "done") /\ index' = 1
  BY DEF Matched, Pairs
<1>2. loop' \in {"keys", "done"} /\ (malformed' <=> loop' = "done") /\ malformed' \in BOOLEAN
  BY <1>1
<1>3. /\ index \in Nat \ {0} /\ End = Len(source) + 1 /\ Len(source) \in Nat /\ Len(text) = Len(source)
      /\ text \in Seq(Characters) /\ stack \in Seq(DOMAIN Closer)
  BY SourceIs DEF ScanTypeOK
<1>4. text = WithoutLiterals /\ ~malformed /\ ~Unclosed /\ remaining = Words /\ findings = {}
  BY <1>1 DEF SpanInv, MalformedInv, WordsInv
<1>5. Nested(text) <=> stack = << >>
  <2>1. PICK p, m : Stacked(text, index, stack, p, m)
    BY <1>1 DEF BalanceInv
  <2>2. index = Len(text) + 1
    BY <1>1, <1>3 DEF BalanceInv
  <2> QED
    BY <1>3, <2>1, <2>2, StackedLast
<1>6. SpanInv' /\ QuoteInv' /\ WithoutLiterals' = WithoutLiterals /\ (Unclosed' <=> Unclosed)
  BY <1>1, <1>2, SpanRest
<1>7. ScanTypeOK'
  BY <1>1, <1>2 DEF ScanTypeOK
<1>8. MalformedInv'
  <2>1. Nested(WithoutLiterals)' <=> stack = << >>
    BY <1>4, <1>5, <1>6, NestedStays
  <2> QED
    BY <1>1, <1>2, <1>4, <1>6, <2>1 DEF MalformedInv
<1>9. BalanceInv'
  BY <1>2 DEF BalanceInv
<1>10. KeysInv'
  <2>1. text = WithoutKeys(text, 1)
    <3>1. \A j \in 1..Len(text) : ~(j < 1)
      BY <1>3
    <3>2. /\ WithoutKeys(text, 1) \in Seq(Characters) /\ Len(WithoutKeys(text, 1)) = Len(text)
          /\ \A j \in 1..Len(text) : WithoutKeys(text, 1)[j] = text[j]
      BY <1>3, <3>1, WithoutKeysIs
    <3> QED
      BY <1>3, <3>2, SameText
  <2>2. Apart(text, 1)
    BY DEF Apart
  <2>3. End' = End /\ 1 <= End
    BY <1>1, <1>3 DEF End
  <2> DEFINE t == WithoutLiterals
  <2>4. text' = WithoutKeys(WithoutLiterals', index') /\ Apart(WithoutLiterals', index')
    BY <1>1, <1>4, <1>6, <2>1, <2>2
  <2>5. loop' # "words"
    BY <1>2
  <2> QED
    BY <1>1, <2>3, <2>4, <2>5 DEF KeysInv, WithoutKeys, KeySpots, InKey, Apart, KeyAt, Letter, Ident, Key, At,
       After, Before, Min, Max
<1>11. WordsInv'
  BY <1>1, <1>2, <1>4 DEF WordsInv
<1> QED
  BY <1>6, <1>7, <1>8, <1>9, <1>10, <1>11
-----------------------------------------------------------------------------

\* What a step has to show of the keys.
LEMMA KeysNext ==
  ASSUME source' = source, WithoutLiterals' = WithoutLiterals,
         loop' = "keys" => /\ index' <= End /\ text' = WithoutKeys(WithoutLiterals, index')
                           /\ Apart(WithoutLiterals, index'),
         loop' = "words" => text' = WithoutKeys(WithoutLiterals, End)
  PROVE  KeysInv'
<1>1. End' = End
  BY DEF End
<1> QED
  BY <1>1 DEF KeysInv

\* What is to be reported depends on the source and its literals only.
LEMMA ReportsStay ==
  ASSUME source' = source, WithoutLiterals' = WithoutLiterals
  PROVE  \A words : Reports(words)' = Reports(words)
BY DEF Reports

\* What a step has to show of the words.
LEMMA WordsNext ==
  ASSUME source' = source, WithoutLiterals' = WithoutLiterals,
         loop' \notin {"words", "done"} => remaining' = Words /\ findings' = {},
         loop' = "words" =>
           /\ Len(remaining') <= Len(Words)
           /\ \A i \in DOMAIN remaining' : remaining'[i] = Words[Len(Words) - Len(remaining') + i]
           /\ findings' = Reports({Words[i] : i \in 1..(Len(Words) - Len(remaining'))})
           /\ remaining' # << >> => \A i \in Uses(WithoutLiterals, Head(remaining')) : index' <= i,
         loop' = "done" /\ ~malformed' => findings' = Reports({Words[i] : i \in DOMAIN Words})
  PROVE  WordsInv'
<1>1. ASSUME NEW words PROVE {[word |-> w, line |-> LineAt(source', Min(Uses(WithoutLiterals', w)))] :
     w \in {v \in words : Uses(WithoutLiterals', v) # {}}} = Reports(words)
  BY DEF Reports
<1> QED
  BY <1>1 DEF WordsInv, Searched, Reports

\* Masking an identifier takes the key that the text without literals has there.
LEMMA MaskKeyKept == ScanInv /\ MaskKey => ScanInv'
<1> SUFFICES ASSUME ScanInv, MaskKey PROVE ScanInv'
  OBVIOUS
<1> USE DEF ScanInv
<1> DEFINE t == WithoutLiterals
           r == RunEnd(text, index)
<1>1. loop = "keys" /\ index < End /\ Later /\ UNCHANGED <<loop, begin, malformed, spans>>
  BY DEF MaskKey
<1>2. UNCHANGED <<source, stack, remaining, findings>>
  BY <1>1 DEF Later
<1>3. /\ Letter(text, index) =>
           index' = r /\ text' = IF Key(text, index, r) THEN Blank(text, index, r) ELSE text
      /\ ~Letter(text, index) => index' = index + 1 /\ text' = text
  BY DEF MaskKey
<1>4. /\ index \in Nat \ {0} /\ End = Len(source) + 1 /\ Len(source) \in Nat /\ Len(text) = Len(source)
      /\ text \in Seq(Characters) /\ DOMAIN text = 1..Len(source)
  BY SourceIs DEF ScanTypeOK
<1>5. t \in Seq(Characters) /\ Len(t) = Len(source) /\ DOMAIN t = 1..Len(source)
  BY WithoutLiteralsIs
<1>6. text = WithoutKeys(t, index) /\ Apart(t, index)
  BY <1>1 DEF KeysInv
<1>7. SpanInv' /\ QuoteInv' /\ WithoutLiterals' = t /\ (Unclosed' <=> Unclosed)
  BY <1>1, <1>2, SpanRest
<1> HIDE DEF t
<1>8. index \in 1..Len(t) /\ index + 1 <= End
  BY <1>1, <1>4, <1>5
<1>9. Letter(text, index) <=> Letter(t, index)
  <2>1. text[index] = t[index]
    BY <1>5, <1>6, <1>8, WithoutKeysIs
  <2> QED
    BY <1>4, <1>5, <2>1 DEF Letter
<1>10. /\ index' \in Nat \ {0} /\ index' <= End
       /\ text' = WithoutKeys(t, index') /\ Apart(t, index')
  <2>1. CASE Letter(text, index)
    <3>1. r = RunEnd(t, index) /\ WithoutKeys(t, r) = IF Key(text, index, r) THEN Blank(text, index, r) ELSE text
      BY <1>5, <1>6, <1>8, <1>9, <2>1, MaskedKey
    <3>2. Apart(t, r)
      BY <1>5, <1>6, <1>8, <1>9, <2>1, <3>1, RunApart
    <3>3. r \in (index + 1)..(Len(t) + 1)
      BY <1>5, <1>8, <1>9, <2>1, <3>1, RunEndIs, LetterIsIdent
    <3>4. r \in Nat \ {0} /\ r <= End
      BY <1>4, <1>5, <3>3
    <3> QED
      BY <1>3, <2>1, <3>1, <3>2, <3>4
  <2>2. CASE ~Letter(text, index)
    <3>1. Apart(t, index + 1) /\ ~InKey(t, index)
      BY <1>5, <1>6, <1>8, <1>9, <2>2, SkipApart
    <3>2. KeySpots(t, index + 1) = KeySpots(t, index)
      <4>1. \A i \in DOMAIN t : i < index + 1 <=> i < index \/ i = index
        BY <1>5, <1>8
      <4> QED
        BY <3>1, <4>1 DEF KeySpots
    <3>3. WithoutKeys(t, index + 1) = WithoutKeys(t, index)
      BY <3>2 DEF WithoutKeys
    <3> QED
      BY <1>3, <1>4, <1>6, <1>8, <2>2, <3>1, <3>3
  <2> QED
    BY <2>1, <2>2
<1>11. ScanTypeOK'
  <2>1. text' \in Seq(Characters) /\ Len(text') = Len(t)
    BY <1>5, <1>10, WithoutKeysIs
  <2> QED
    BY <1>1, <1>2, <1>5, <1>10, <2>1 DEF ScanTypeOK
<1>12. MalformedInv'
  <2>1. ~malformed /\ ~Unclosed /\ Nested(WithoutLiterals)
    BY <1>1 DEF MalformedInv
  <2>2. Nested(WithoutLiterals)'
    BY <1>7, <2>1, NestedStays DEF t
  <2> QED
    BY <1>1, <1>7, <2>1, <2>2 DEF MalformedInv
<1>13. BalanceInv'
  BY <1>1 DEF BalanceInv
<1>14. KeysInv'
  BY <1>1, <1>2, <1>7, <1>10, KeysNext DEF t
<1>15. WordsInv'
  BY <1>1, <1>2 DEF WordsInv
<1> QED
  BY <1>7, <1>11, <1>12, <1>13, <1>14, <1>15

\* At the end of the text every key has been masked.
LEMMA KeysMaskedKept == ScanInv /\ KeysMasked => ScanInv'
<1> SUFFICES ASSUME ScanInv, KeysMasked PROVE ScanInv'
  OBVIOUS
<1> USE DEF ScanInv
<1>1. /\ loop = "keys" /\ index >= End /\ loop' = "words" /\ index' = 1
      /\ Later /\ UNCHANGED <<text, begin, malformed, spans>>
  BY DEF KeysMasked
<1>2. UNCHANGED <<source, stack, remaining, findings>>
  BY <1>1 DEF Later
<1>3. index \in Nat \ {0} /\ End = Len(source) + 1 /\ Len(source) \in Nat
  BY SourceIs DEF ScanTypeOK
<1>4. ScanTypeOK'
  BY <1>1, <1>2 DEF ScanTypeOK
<1>5. SpanInv' /\ QuoteInv' /\ WithoutLiterals' = WithoutLiterals /\ (Unclosed' <=> Unclosed)
  BY <1>1, <1>2, SpanRest
<1>6. MalformedInv'
  <2>1. ~malformed /\ ~Unclosed /\ Nested(WithoutLiterals)
    BY <1>1 DEF MalformedInv
  <2>2. Nested(WithoutLiterals)'
    BY <1>5, <2>1, NestedStays
  <2> QED
    BY <1>1, <1>5, <2>1, <2>2 DEF MalformedInv
<1>7. BalanceInv'
  BY <1>1 DEF BalanceInv
<1>8. KeysInv'
  <2>1. index = End /\ text = WithoutKeys(WithoutLiterals, index)
    BY <1>1, <1>3 DEF KeysInv
  <2> QED
    BY <1>1, <1>2, <1>5, <2>1, KeysNext
<1>9. WordsInv'
  <2>1. remaining = Words /\ findings = {}
    BY <1>1 DEF WordsInv
  <2>2. Len(Words) \in Nat /\ Len(Words) - Len(Words) = 0
    BY ScannerAssumption
  <2>3. \A i \in DOMAIN Words : Words[i] = Words[0 + i]
    BY ScannerAssumption
  <2>4. Reports({Words[i] : i \in 1..0}) = {}
    BY DEF Reports
  <2>5. \A w : \A i \in Uses(WithoutLiterals, w) : 1 <= i
    BY WithoutLiteralsIs DEF Uses
  <2> QED
    BY <1>1, <1>2, <1>5, <2>1, <2>2, <2>3, <2>4, <2>5, WordsNext
<1> QED
  BY <1>4, <1>5, <1>6, <1>7, <1>8, <1>9
-----------------------------------------------------------------------------
\* Masking moves no line.
LEMMA LinesStay ==
  ASSUME ScanTypeOK, NEW n \in Nat, text = WithoutKeys(WithoutLiterals, n), NEW i \in 1..Len(source)
  PROVE  LineAt(text, i) = LineAt(source, i) /\ LineAt(source, i) \in Nat \ {0}
<1> DEFINE t == WithoutLiterals
<1>1. /\ t \in Seq(Characters) /\ Len(t) = Len(source) /\ Len(source) \in Nat
      /\ \A j \in 1..Len(source) : (Inside(j) /\ source[j] # "\n" => t[j] = Space)
      /\ \A j \in 1..Len(source) : (~Inside(j) \/ source[j] = "\n" => t[j] = source[j])
  BY WithoutLiteralsIs, SourceIs
<1> HIDE DEF t
<1>2. /\ \A j \in 1..Len(t) : (InKey(t, j) /\ j < n => text[j] = Space)
      /\ \A j \in 1..Len(t) : (~InKey(t, j) \/ ~(j < n) => text[j] = t[j])
  BY <1>1, WithoutKeysIs DEF t
<1>3. ASSUME NEW j \in 1..Len(source) PROVE text[j] = "\n" <=> source[j] = "\n"
  <2>1. t[j] = "\n" <=> source[j] = "\n"
    BY <1>1, CharacterFacts
  <2>2. InKey(t, j) => t[j] # "\n"
    <3>1. j \in Nat \ {0}
      OBVIOUS
    <3> QED
      BY <1>1, <3>1, InKeyIdent, IdentIs, CharacterFacts
  <2> QED
    BY <1>1, <1>2, <2>1, <2>2, CharacterFacts
<1>4. \A j \in 1..(i - 1) : j \in 1..Len(source)
  BY <1>1
<1>5. {j \in 1..(i - 1) : text[j] = "\n"} = {j \in 1..(i - 1) : source[j] = "\n"}
  BY <1>3, <1>4
<1>6. Cardinality({j \in 1..(i - 1) : source[j] = "\n"}) \in Nat
  <2>1. IsFiniteSet(1..(i - 1))
    BY <1>1, FS_Interval
  <2>2. IsFiniteSet({j \in 1..(i - 1) : source[j] = "\n"})
    BY <2>1, FS_Subset
  <2> QED
    BY <2>2, FS_CardinalityType
<1>7. LineAt(text, i) = LineAt(source, i)
  BY <1>5, Zenon DEF LineAt
<1>8. LineAt(source, i) = 1 + Cardinality({j \in 1..(i - 1) : source[j] = "\n"})
  BY Zenon DEF LineAt
<1> HIDE DEF LineAt
<1> QED
  BY <1>6, <1>7, <1>8

\* A word that is looked at adds its first use, if it has one.
LEMMA ReportsMore ==
  ASSUME NEW words, NEW w
  PROVE  /\ Uses(WithoutLiterals, w) = {} => Reports(words \cup {w}) = Reports(words)
         /\ Uses(WithoutLiterals, w) # {} =>
              Reports(words \cup {w}) = Reports(words) \cup
                {[word |-> w, line |-> LineAt(source, Min(Uses(WithoutLiterals, w)))]}
<1>1. ASSUME Uses(WithoutLiterals, w) = {} PROVE Reports(words \cup {w}) = Reports(words)
  <2>1. {v \in words \cup {w} : Uses(WithoutLiterals, v) # {}} = {v \in words : Uses(WithoutLiterals, v) # {}}
    BY <1>1
  <2> QED
    BY <2>1 DEF Reports
<1>2. ASSUME Uses(WithoutLiterals, w) # {}
      PROVE  Reports(words \cup {w}) = Reports(words) \cup
                {[word |-> w, line |-> LineAt(source, Min(Uses(WithoutLiterals, w)))]}
  <2>1. {v \in words \cup {w} : Uses(WithoutLiterals, v) # {}}
          = {v \in words : Uses(WithoutLiterals, v) # {}} \cup {w}
    BY <1>2
  <2> QED
    BY <2>1 DEF Reports
<1> QED
  BY <1>1, <1>2

\* The occurrence looked at is the first use, or no use; none is passed.
LEMMA LookKept == ScanInv /\ Look => ScanInv'
<1> SUFFICES ASSUME ScanInv, Look PROVE ScanInv'
  OBVIOUS
<1> USE DEF ScanInv
<1> DEFINE t == WithoutLiterals
           w == Head(remaining)
           found == {j \in index..Len(text) : Occurs(text, w, j)}
           s == Len(Words) - Len(remaining)
           first == Min(found)
<1>1. /\ loop = "words" /\ remaining # << >>
      /\ UNCHANGED <<source, text, loop, begin, stack, malformed, spans>>
  BY DEF Look, Search
<1>2. \/ found = {} /\ remaining' = Tail(remaining) /\ index' = 1 /\ UNCHANGED findings
      \/ /\ found # {} /\ Whole(text, w, first)
         /\ findings' = findings \cup {[word |-> w, line |-> LineAt(text, first)]}
         /\ remaining' = Tail(remaining) /\ index' = 1
      \/ /\ found # {} /\ ~Whole(text, w, first)
         /\ index' = first + 1 /\ UNCHANGED <<remaining, findings>>
  BY DEF Look, Search, Report
<1>3. /\ index \in Nat \ {0} /\ End = Len(source) + 1 /\ Len(source) \in Nat /\ Len(text) = Len(source)
      /\ remaining \in Seq(Seq(Characters)) /\ findings \subseteq [word : Seq(Characters), line : Nat \ {0}]
  BY SourceIs DEF ScanTypeOK
<1>4. t \in Seq(Characters) /\ Len(t) = Len(source) /\ DOMAIN t = 1..Len(source)
  BY WithoutLiteralsIs
<1>5. /\ text = WithoutKeys(t, End)
      /\ Len(remaining) <= Len(Words) /\ \A i \in DOMAIN remaining : remaining[i] = Words[s + i]
      /\ findings = Reports({Words[i] : i \in 1..s})
      /\ \A i \in Uses(t, w) : index <= i
  BY <1>1 DEF KeysInv, WordsInv, Searched
<1>6. SpanInv' /\ QuoteInv' /\ WithoutLiterals' = t /\ (Unclosed' <=> Unclosed)
  BY <1>1, SpanRest
<1>7. Words \in Seq(Seq(Characters \ {Space}) \ {<< >>}) /\ Len(Words) \in Nat /\ DOMAIN Words = 1..Len(Words)
  BY ScannerAssumption
<1>8. Len(remaining) \in 1..Len(Words) /\ s \in Nat /\ s + 1 \in 1..Len(Words)
  BY <1>1, <1>3, <1>5, <1>7
<1>9. w = Words[s + 1] /\ w \in Seq(Characters)
  <2>1. 1 \in DOMAIN remaining /\ w = remaining[1]
    BY <1>1, <1>3
  <2> QED
    BY <1>3, <1>5, <2>1
<1>10. IsWord(w)
  BY <1>7, <1>8, <1>9, WordsAre
<1> HIDE DEF t, w, s
<1>11. \A i \in 1..Len(source) : Whole(text, w, i) <=> i \in Uses(t, w)
  BY <1>3, <1>4, <1>5, <1>10, WholeIsUse
<1>12. \A i \in Uses(t, w) : i \in 1..Len(source) /\ i \in found
  <2> SUFFICES ASSUME NEW i \in Uses(t, w) PROVE i \in 1..Len(source) /\ i \in found
    OBVIOUS
  <2>1. i \in 1..Len(source)
    BY <1>4 DEF Uses
  <2>2. Occurs(text, w, i)
    BY <1>11, <2>1 DEF Whole
  <2> QED
    BY <1>3, <1>5, <2>1, <2>2
<1>13. found # {} => first \in found /\ first \in 1..Len(source) /\ \A i \in found : first <= i
  <2>1. found \in SUBSET Nat /\ \A i \in found : i \in 1..Len(source)
    BY <1>3
  <2> QED
    BY <2>1, MinIs
<1> HIDE DEF found, first
<1>14. MalformedInv'
  <2>1. ~malformed /\ ~Unclosed /\ Nested(WithoutLiterals)
    BY <1>1 DEF MalformedInv
  <2>2. Nested(WithoutLiterals)'
    BY <1>6, <2>1, NestedStays DEF t
  <2> QED
    BY <1>1, <1>6, <2>1, <2>2 DEF MalformedInv
<1>15. BalanceInv'
  BY <1>1 DEF BalanceInv
<1>16. KeysInv'
  BY <1>1, <1>5, <1>6, KeysNext DEF t
<1>17. ASSUME index' \in Nat \ {0}, remaining' \in Seq(Seq(Characters)),
              findings' \subseteq [word : Seq(Characters), line : Nat \ {0}]
       PROVE  ScanTypeOK'
  BY <1>1, <1>17 DEF ScanTypeOK
<1>18. ASSUME remaining' = Tail(remaining), index' = 1,
              findings' = Reports({Words[i] : i \in 1..s} \cup {w})
       PROVE  WordsInv'
  <2>1. Len(remaining') = Len(remaining) - 1 /\ \A i \in DOMAIN remaining' : i + 1 \in DOMAIN remaining
                                                        /\ i \in Nat /\ remaining'[i] = remaining[i + 1]
    BY <1>1, <1>3, <1>18
  <2>2. Len(Words) - Len(remaining') = s + 1
    BY <1>3, <1>7, <2>1 DEF s
  <2>3. \A i \in DOMAIN remaining' : remaining'[i] = Words[s + 1 + i]
    <3>1. \A i \in Nat : s + (i + 1) = s + 1 + i
      BY <1>8
    <3> QED
      BY <1>5, <2>1, <3>1
  <2>4. {Words[i] : i \in 1..s} \cup {w} = {Words[i] : i \in 1..(s + 1)}
    <3>1. \A i : i \in 1..(s + 1) <=> i \in 1..s \/ i = s + 1
      BY <1>8
    <3> QED
      BY <1>9, <3>1
  <2>5. \A v : \A i \in Uses(t, v) : 1 <= i
    BY <1>4 DEF Uses
  <2>6. Len(remaining') <= Len(Words)
    BY <1>3, <1>7, <1>8, <2>1
  <2>7. loop' # "done"
    BY <1>1
  <2> QED
    BY <1>1, <1>6, <1>18, <2>2, <2>3, <2>4, <2>5, <2>6, <2>7, WordsNext DEF t
<1>19. Tail(remaining) \in Seq(Seq(Characters))
  BY <1>1, <1>3
<1>20. CASE found = {} /\ remaining' = Tail(remaining) /\ index' = 1 /\ UNCHANGED findings
  <2>1. Uses(t, w) = {}
    BY <1>12, <1>20
  <2>2. findings' = Reports({Words[i] : i \in 1..s} \cup {w})
    BY <1>5, <1>20, <2>1, ReportsMore DEF t
  <2>3. WordsInv'
    BY <1>18, <1>20, <2>2
  <2>4. ScanTypeOK'
    BY <1>3, <1>17, <1>19, <1>20
  <2> QED
    BY <1>6, <1>14, <1>15, <1>16, <2>3, <2>4
<1>21. CASE /\ found # {} /\ Whole(text, w, first)
            /\ findings' = findings \cup {[word |-> w, line |-> LineAt(text, first)]}
            /\ remaining' = Tail(remaining) /\ index' = 1
  <2>1. first \in Uses(t, w)
    BY <1>11, <1>13, <1>21
  <2>2. Min(Uses(t, w)) = first
    <3>1. Uses(t, w) \in SUBSET Nat /\ \A i \in Uses(t, w) : first <= i
      BY <1>12, <1>13, <1>21
    <3> QED
      BY <2>1, <3>1, MinEquals
  <2>3. LineAt(text, first) = LineAt(source, first) /\ LineAt(source, first) \in Nat \ {0}
    <3>1. End \in Nat
      BY <1>3
    <3> QED
      BY <1>5, <1>13, <1>21, <3>1, LinesStay DEF t
  <2>4. findings' = Reports({Words[i] : i \in 1..s} \cup {w})
    BY <1>5, <1>21, <2>1, <2>2, <2>3, ReportsMore DEF t
  <2>5. WordsInv'
    BY <1>18, <1>21, <2>4
  <2>6. findings' \subseteq [word : Seq(Characters), line : Nat \ {0}]
    BY <1>3, <1>9, <1>21, <2>3
  <2>7. ScanTypeOK'
    BY <1>17, <1>19, <1>21, <2>6
  <2> QED
    BY <1>6, <1>14, <1>15, <1>16, <2>5, <2>7
<1>22. CASE /\ found # {} /\ ~Whole(text, w, first)
            /\ index' = first + 1 /\ UNCHANGED <<remaining, findings>>
  <2>1. ASSUME NEW i \in Uses(t, w) PROVE first + 1 <= i
    <3>1. first <= i /\ i \in 1..Len(source) /\ i # first
      BY <1>11, <1>12, <1>13, <1>22, <2>1
    <3> QED
      BY <1>13, <1>22, <3>1
  <2>2. WordsInv'
    <3>1. loop' # "done"
      BY <1>1
    <3>2. w = Head(remaining')
      BY <1>22 DEF w
    <3>3. Len(Words) - Len(remaining') = s
      BY <1>22 DEF s
    <3> QED
      BY <1>1, <1>5, <1>6, <1>22, <2>1, <3>1, <3>2, <3>3, WordsNext DEF t
  <2>3. ScanTypeOK'
    <3>1. first + 1 \in Nat \ {0}
      BY <1>13, <1>22
    <3> QED
      BY <1>3, <1>17, <1>22, <3>1
  <2> QED
    BY <1>6, <1>14, <1>15, <1>16, <2>2, <2>3
<1> QED
  BY <1>2, <1>20, <1>21, <1>22

\* When no word is left all have been looked for.
LEMMA LookedKept == ScanInv /\ Looked => ScanInv'
<1> SUFFICES ASSUME ScanInv, Looked PROVE ScanInv'
  OBVIOUS
<1> USE DEF ScanInv
<1>1. /\ loop = "words" /\ remaining = << >> /\ loop' = "done"
      /\ UNCHANGED <<source, text, index, begin, stack, malformed, remaining, findings, spans>>
  BY DEF Looked
<1>2. SpanInv' /\ QuoteInv' /\ WithoutLiterals' = WithoutLiterals /\ (Unclosed' <=> Unclosed)
  BY <1>1, SpanRest
<1>3. ScanTypeOK'
  BY <1>1 DEF ScanTypeOK
<1>4. MalformedInv'
  <2>1. ~malformed /\ ~Unclosed /\ Nested(WithoutLiterals)
    BY <1>1 DEF MalformedInv
  <2>2. Nested(WithoutLiterals)'
    BY <1>2, <2>1, NestedStays
  <2> QED
    BY <1>1, <1>2, <2>1, <2>2 DEF MalformedInv
<1>5. BalanceInv' /\ KeysInv'
  BY <1>1 DEF BalanceInv, KeysInv
<1>6. WordsInv'
  <2>1. Len(Words) \in Nat /\ DOMAIN Words = 1..Len(Words) /\ Len(remaining) = 0
    BY <1>1, ScannerAssumption
  <2>2. 1..Searched = DOMAIN Words
    BY <2>1 DEF Searched
  <2>3. findings = Reports({Words[i] : i \in DOMAIN Words})
    BY <1>1, <2>2 DEF WordsInv
  <2> QED
    BY <1>1, <1>2, <2>3, WordsNext
<1> QED
  BY <1>2, <1>3, <1>4, <1>5, <1>6
-----------------------------------------------------------------------------
(* Theorems of LuaScanner                                                  *)

\* The invariant holds before the first loop.
LEMMA ScanBegins == ScanInit => ScanInv
<1> SUFFICES ASSUME ScanInit PROVE ScanInv
  OBVIOUS
<1>1. /\ source \in Seq(Characters) /\ text = source /\ loop = "code" /\ index = 1 /\ begin = 0
      /\ stack = << >> /\ malformed = FALSE /\ remaining = Words /\ findings = {} /\ spans = {}
  BY ScannerAssumption DEF ScanInit
<1>2. ScanTypeOK
  <2>1. Words \in Seq(Seq(Characters))
    <3>1. Words \in Seq(Seq(Characters \ {Space}) \ {<< >>})
      BY ScannerAssumption
    <3>2. Seq(Characters \ {Space}) \ {<< >>} \subseteq Seq(Characters)
      OBVIOUS
    <3> QED
      BY <3>1, <3>2
  <2>5. \A S : << >> \in Seq(S)
    OBVIOUS
  <2>6. stack \in Seq(DOMAIN Closer)
    BY <1>1, <2>5, Zenon
  <2>2. begin \in Nat /\ index \in Nat \ {0}
    BY <1>1
  <2>7. malformed \in BOOLEAN
    BY <1>1, Zenon
  <2>3. spans \subseteq (Nat \X Nat) /\ findings \subseteq [word : Seq(Characters), line : Nat \ {0}]
    BY <1>1, Zenon
  <2>4. source \in Seq(Characters) /\ text \in Seq(Characters) /\ Len(text) = Len(source)
    BY <1>1
  <2> QED
    BY <1>1, <2>1, <2>2, <2>3, <2>4, <2>6, <2>7 DEF ScanTypeOK
<1>3. Len(source) \in Nat /\ End = Len(source) + 1 /\ DOMAIN source = 1..Len(source)
  BY <1>2, SourceIs
<1>4. SpanInv
  <2>1. Reached = 1
    BY <1>1 DEF Reached
  <2>2. \A i : ~Inside(i)
    BY <1>1 DEF Inside
  <2>3. text = WithoutLiterals
    <3>1. \A i \in 1..Len(source) : WithoutLiterals[i] = source[i]
      BY <1>2, <2>2, WithoutLiteralsIs
    <3> QED
      BY <1>1, <1>2, <3>1, WithoutLiteralsIs, SameText
  <2>4. \A i \in DOMAIN source : ~(i < 1)
    BY <1>3
  <2> QED
    BY <1>1, <1>3, <2>1, <2>3, <2>4 DEF SpanInv
<1>5. QuoteInv /\ BalanceInv /\ KeysInv /\ WordsInv
  BY <1>1 DEF QuoteInv, BalanceInv, KeysInv, WordsInv
<1>6. MalformedInv
  BY <1>1 DEF MalformedInv, Unclosed
<1> QED
  BY <1>2, <1>4, <1>5, <1>6 DEF ScanInv

\* The invariant holds as long as nothing changes.
LEMMA ScanStays == ScanInv /\ UNCHANGED scanVars => ScanInv'
<1> SUFFICES ASSUME ScanInv, UNCHANGED scanVars PROVE ScanInv'
  OBVIOUS
<1> USE DEF ScanInv
<1>1. UNCHANGED <<source, text, loop, index, begin, stack, malformed, remaining, findings, spans>>
  BY DEF scanVars
<1>2. ScanTypeOK'
  BY <1>1 DEF ScanTypeOK
<1>3. WithoutLiterals' = WithoutLiterals /\ (Unclosed' <=> Unclosed)
  BY <1>1, SpansStay
<1>4. SpanInv'
  <2>1. Reached' = Reached /\ Reached \in Nat /\ Reached <= End
    <3>1. Reached \in Nat
      BY <1>1, SourceIs DEF Reached, ScanTypeOK
    <3>2. Reached' = Reached
      BY <1>1 DEF Reached, End
    <3> QED
      BY <3>1, <3>2 DEF SpanInv
  <2>2. \A i \in DOMAIN source : ~(Reached <= i /\ i < Reached)
    BY <2>1, SourceIs
  <2> QED
    BY <1>1, <2>1, <2>2, SpanStep
<1>5. QuoteInv'
  BY <1>1, QuoteNext DEF QuoteInv
<1>6. MalformedInv'
  <2>1. Nested(WithoutLiterals)' <=> Nested(WithoutLiterals)
    BY <1>3, NestedStays
  <2> QED
    BY <1>1, <1>3, <2>1 DEF MalformedInv
<1>7. BalanceInv'
  <2>1. End' = End
    BY <1>1 DEF End
  <2> QED
    BY <1>1, <2>1 DEF BalanceInv
<1>8. KeysInv'
  BY <1>1, <1>3, KeysNext DEF KeysInv
<1>9. WordsInv'
  BY <1>1, <1>3, WordsNext DEF WordsInv, Searched
<1> QED
  BY <1>2, <1>4, <1>5, <1>6, <1>7, <1>8, <1>9

\* The invariant holds through every loop of the scanner.
THEOREM ScanInvariance == ScanSpec => []ScanInv
<1>1. ScanInit => ScanInv
  BY ScanBegins
<1>2. ScanInv /\ [ScanNext]_scanVars => ScanInv'
  <2> SUFFICES ASSUME ScanInv, [ScanNext]_scanVars PROVE ScanInv'
    OBVIOUS
  <2>1. CASE MaskLiterals
    BY <2>1, OpenQuoteKept, InQuoteKept, CloseQuoteKept, LineCommentKept, LongBracketKept, SkipKept, MaskedKept
       DEF MaskLiterals
  <2>2. CASE Match
    BY <2>2, MatchKept
  <2>3. CASE Matched
    BY <2>3, MatchedKept
  <2>4. CASE MaskKey
    BY <2>4, MaskKeyKept
  <2>5. CASE KeysMasked
    BY <2>5, KeysMaskedKept
  <2>6. CASE Look
    BY <2>6, LookKept
  <2>7. CASE Looked
    BY <2>7, LookedKept
  <2>8. CASE UNCHANGED scanVars
    BY <2>8, ScanStays
  <2> QED
    BY <2>1, <2>2, <2>3, <2>4, <2>5, <2>6, <2>7, <2>8 DEF ScanNext
<1> QED
  BY <1>1, <1>2, PTL DEF ScanSpec

\* Every variable of the scanner stays in its type.
THEOREM ScanTypeCorrect == ScanSpec => []ScanTypeOK
<1>1. ScanInv => ScanTypeOK
  BY DEF ScanInv
<1> QED
  BY <1>1, ScanInvariance, PTL

\* In any file, of any length, exactly the literals are masked.
THEOREM LiteralsAreMasked == ScanSpec => []MasksTheLiterals
<1>1. ScanInv => MasksTheLiterals
  <2> SUFFICES ASSUME ScanInv, loop \notin {"code", "quote"}
               PROVE  /\ \A s \in spans : Opens(s[1]) /\ s[2] = LiteralEnd(s[1])
                      /\ \A s, t \in spans : s # t => s[2] <= t[1] \/ t[2] <= s[1]
                      /\ \A i \in DOMAIN source : Opens(i) => Inside(i)
                      /\ loop = "balance" => text = WithoutLiterals
    BY DEF MasksTheLiterals
  <2>1. ScanTypeOK /\ SpanInv
    BY DEF ScanInv
  <2>2. Reached = End
    BY DEF Reached
  <2>3. \A i \in DOMAIN source : i < End
    BY <2>1, SourceIs
  <2> QED
    BY <2>1, <2>2, <2>3 DEF SpanInv
<1> QED
  BY <1>1, ScanInvariance, PTL

\* A file is called malformed when a literal of it is not closed or its delimiters are
\* not nested, and only then.
THEOREM MalformedFilesAreFound == ScanSpec => []MalformedIsTrue
<1>1. ScanInv => MalformedIsTrue
  <2> SUFFICES ASSUME ScanInv, loop \in {"keys", "words", "done"}
               PROVE  malformed <=> Unclosed \/ ~Nested(WithoutLiterals)
    BY DEF MalformedIsTrue, Unclosed
  <2>1. MalformedInv
    BY DEF ScanInv
  <2> QED
    BY <2>1 DEF MalformedInv
<1> QED
  BY <1>1, ScanInvariance, PTL

\* A word that stands alone outside of literals and keys is reported with its line, and
\* nothing else is.
THEOREM UsesAreReported == ScanSpec => []ReportsTheWords
<1>1. ScanInv => ReportsTheWords
  BY DEF ScanInv, WordsInv, Reports, ReportsTheWords
<1> QED
  BY <1>1, ScanInvariance, PTL
=============================================================================
