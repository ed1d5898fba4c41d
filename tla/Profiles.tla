------------------------------ MODULE Profiles ------------------------------
(***************************************************************************)
(* The profile document of the client: the functions of profiles.lua, the  *)
(* callers in main.lua that change the document and save it, load_state    *)
(* and save_state.  A profile is an ordered list of add-ons, each with its *)
(* auto-load choice; the document is kept in memory and in state.json,     *)
(* which write_text removes before it renames the new text into its place. *)
(*                                                                         *)
(* A name is a sequence: the word typed, followed by what the program has   *)
(* appended to it (a number, or 0 for " Copy"); upper and lower case, which *)
(* every comparison ignores, are not told apart.  Id 0 is "default" and n  *)
(* is "profile-n".                                                         *)
(***************************************************************************)
EXTENDS Naturals, Sequences, FiniteSets

CONSTANTS
  Order,        (* every add-on id, in the order sorted_installed_ids gives  *)
  VanaHub,      (* the id "vanahub"                                          *)
  Words,        (* what a user types as a name                               *)
  Names,        (* names a user types, or a manifest has                     *)
  DefaultName,  (* the name "Default"                                        *)
  NoFile,       (* state.json does not exist                                 *)
  MaxProfiles,  (* bound: profiles in the document                           *)
  MaxName,      (* bound: suffixes of a name                                 *)
  MaxCrashes    (* bound: sessions that end                                  *)

Addons == {Order[i] : i \in DOMAIN Order}

ASSUME ConstantsAssumption ==
  /\ Order \in Seq(Addons) /\ \A i, j \in DOMAIN Order : Order[i] = Order[j] => i = j
  /\ Names \subseteq Seq(Words \cup Nat) /\ DefaultName \in Seq(Words \cup Nat)
  /\ VanaHub \in Addons /\ MaxProfiles \in Nat \ {0} /\ MaxName \in Nat /\ MaxCrashes \in Nat

VARIABLES
  profiles,   \* state.profiles
  active,     \* state.activeProfileId
  installed,  \* the ids in state.installed
  marked,     \* the add-ons whose .vanahub-owned file exists
  file,       \* state.json
  pc,         \* "off", "idle", or the next step of save_state
  crashes

document == <<profiles, active, installed>>
vars == <<document, marked, file, pc, crashes>>

Listed(p) == {p.addons[i].id : i \in DOMAIN p.addons}
AutoLoaded(p) == {p.addons[i].id : i \in {k \in DOMAIN p.addons : p.addons[k].auto}}
Entry(a, auto) == [id |-> a, auto |-> auto]
Entries == [id : Addons, auto : BOOLEAN]
Profile == [id : 0..MaxProfiles, name : Seq(Words \cup Nat), addons : Seq(Entries)]
Documents == [profiles : Seq(Profile), active : 0..MaxProfiles, installed : SUBSET Addons]
ActiveIndex == CHOOSE i \in DOMAIN profiles : profiles[i].id = active
Contents == [profiles |-> profiles, active |-> active, installed |-> installed]

Least(S) == CHOOSE n \in S : \A m \in S : n <= m

\* The k-th of the positions in K, and the elements of s at the positions in K.
Position(K, k) == CHOOSE i \in K : Cardinality({j \in K : j < i}) = k - 1
At(s, K) == [k \in 1..Cardinality(K) |-> s[Position(K, k)]]

\* Mutant: an id that is one more than any id in use.
BeyondLargest(ps) == 1 + CHOOSE n \in {ps[i].id : i \in DOMAIN ps} : \A i \in DOMAIN ps : ps[i].id <= n

\* next_id: the first number that is free.
NextId(ps) == Least({n \in 1..(Len(ps) + 1) : \A i \in DOMAIN ps : ps[i].id # n})

\* unique_name: the name itself, or the first free number from 2 on after it.
UniqueName(ps, name) ==
  LET used == {ps[i].name : i \in DOMAIN ps}
  IN IF name \notin used THEN name
     ELSE Append(name, Least({n \in 2..(Len(ps) + 2) : Append(name, n) \notin used}))

SortedIds(S) == At(Order, {i \in DOMAIN Order : Order[i] \in S})

\* Mutant: the add-ons that are not installed are forgotten.
ForgetMissing(addons, inst) ==
  LET kept == SelectSeq(addons, LAMBDA e : e.id \in inst)
      rest == SortedIds(inst \ {kept[i].id : i \in DOMAIN kept})
  IN [i \in DOMAIN kept |-> Entry(kept[i].id, kept[i].auto /\ kept[i].id # VanaHub)]
       \o [i \in DOMAIN rest |-> Entry(rest[i], FALSE)]

\* Mutant: the choices of the document are kept, whatever is installed now.
KeepChoices(addons, inst) ==
  LET rest == SortedIds(inst \ {addons[i].id : i \in DOMAIN addons})
  IN addons \o [i \in DOMAIN rest |-> Entry(rest[i], FALSE)]

\* normalize_addons of a document of schema 3, or of an import: the first entry of
\* every id is kept, auto-load only if it is installed; the rest is appended.
NormalizeAddons(addons, inst) ==
  LET first == {i \in DOMAIN addons : \A j \in 1..(i - 1) : addons[j].id # addons[i].id}
      kept == At(addons, first)
      rest == SortedIds(inst \ {addons[i].id : i \in DOMAIN addons})
  IN [i \in DOMAIN kept |->
         Entry(kept[i].id, kept[i].auto /\ kept[i].id \in inst \ {VanaHub})]
       \o [i \in DOMAIN rest |-> Entry(rest[i], FALSE)]

Default(inst) ==
  [id |-> 0, name |-> DefaultName,
   addons |-> [i \in DOMAIN SortedIds(inst) |-> Entry(SortedIds(inst)[i], FALSE)]]

\* The profiles that are kept: those whose id and name none kept before them has.
Kept(ps) ==
  CHOOSE K \in SUBSET DOMAIN ps :
    \A i \in DOMAIN ps :
      i \in K <=> \A j \in K : j < i => ps[i].id # ps[j].id /\ ps[i].name # ps[j].name

\* profiles.normalize: what is kept of the profiles, or the default one; the active
\* profile if it is there still, or the first.
Normalize(raw, inst) ==
  LET kept == At(raw.profiles, Kept(raw.profiles))
      ps == IF kept = <<>> THEN <<Default(inst)>>
            ELSE [i \in DOMAIN kept |->
                    [kept[i] EXCEPT !.addons = NormalizeAddons(kept[i].addons, inst)]]
  IN [profiles |-> ps,
      active |-> IF \E i \in DOMAIN ps : ps[i].id = raw.active THEN raw.active ELSE ps[1].id]

\* Mutant: only the active profile learns of an installed add-on.
AddToActive(ps, a, enable) ==
  [i \in DOMAIN ps |->
     IF a \in Listed(ps[i]) \/ ps[i].id # active THEN ps[i]
     ELSE [ps[i] EXCEPT !.addons = Append(@, Entry(a, enable /\ a # VanaHub))]]

\* profiles.add_installed: an entry that is there already keeps its choice.
AddInstalled(ps, a, enable) ==
  [i \in DOMAIN ps |->
     IF a \in Listed(ps[i]) THEN ps[i]
     ELSE [ps[i] EXCEPT !.addons =
             Append(@, Entry(a, enable /\ a # VanaHub /\ ps[i].id = active))]]

RemoveInstalled(ps, a) ==
  [i \in DOMAIN ps |->
     [ps[i] EXCEPT !.addons = At(@, {k \in DOMAIN @ : @[k].id # a})]]
-----------------------------------------------------------------------------
Init ==
  /\ installed = {} /\ marked = {} /\ file = NoFile
  /\ profiles = <<Default({})>> /\ active = 0
  /\ pc = "off" /\ crashes = 0

\* load_state and save_state, when the client starts: what is recorded as
\* installed but has lost its marker is dropped before the document is read.
Start ==
  /\ pc = "off" /\ pc' = "remove"
  /\ installed' = (IF file = NoFile THEN {} ELSE file.installed \cap marked)
  /\ LET raw == IF file = NoFile THEN [profiles |-> <<>>, active |-> 0] ELSE file
         doc == Normalize(raw, installed')
     IN profiles' = doc.profiles /\ active' = doc.active
  /\ UNCHANGED <<marked, file, crashes>>

\* save_state: write_text removes the file ...
RemoveFile ==
  /\ pc = "remove" /\ pc' = "rename"
  /\ file' = NoFile
  /\ UNCHANGED <<document, marked, crashes>>

\* ... and renames the new one into its place.
RenameFile ==
  /\ pc = "rename" /\ pc' = "idle"
  /\ file' = Contents
  /\ UNCHANGED <<document, marked, crashes>>

\* Every caller below saves the document when it has changed it.
Change == pc = "idle" /\ pc' = "remove" /\ UNCHANGED <<file, crashes>>
EditProfiles == Change /\ UNCHANGED <<installed, marked>>

Insert(p) == profiles' = Append(profiles, p) /\ active' = p.id

CopyAddons(addons, preserve) ==
  [i \in DOMAIN addons |-> Entry(addons[i].id, preserve /\ addons[i].auto)]

\* profiles.add, for New and for Duplicate.
Add(name, duplicate) ==
  /\ EditProfiles /\ Len(profiles) < MaxProfiles /\ Len(name) <= MaxName
  /\ Insert([id |-> NextId(profiles), name |-> UniqueName(profiles, name),
             addons |-> CopyAddons(profiles[ActiveIndex].addons, duplicate)])

New == \E name \in Names : Add(name, FALSE)
Duplicate == Add(Append(profiles[ActiveIndex].name, 0), TRUE)

\* Mutant: a profile may be given a name that another profile has.
RenameToAny(name) ==
  /\ EditProfiles
  /\ profiles' = [profiles EXCEPT ![ActiveIndex].name = name]
  /\ UNCHANGED active

\* profiles.rename of the active profile.
Rename(name) ==
  /\ EditProfiles
  /\ \A i \in DOMAIN profiles \ {ActiveIndex} : profiles[i].name # name
  /\ profiles' = [profiles EXCEPT ![ActiveIndex].name = name]
  /\ UNCHANGED active

\* profiles.remove of the active profile, which is never the last one.
RemoveProfile ==
  /\ EditProfiles /\ Len(profiles) > 1
  /\ LET i == ActiveIndex
         ps == At(profiles, DOMAIN profiles \ {i})
     IN profiles' = ps /\ active' = ps[IF i <= Len(ps) THEN i ELSE Len(ps)].id

Select(id) ==
  /\ EditProfiles /\ id # active /\ \E i \in DOMAIN profiles : profiles[i].id = id
  /\ active' = id /\ UNCHANGED profiles

\* profiles.move, and the auto-load box, of an add-on the Installed tab shows.
Move(i, j) ==
  /\ EditProfiles
  /\ LET addons == profiles[ActiveIndex].addons IN
       /\ {i, j} \subseteq DOMAIN addons /\ addons[i].id \in installed
       /\ profiles' = [profiles EXCEPT ![ActiveIndex].addons =
                         [addons EXCEPT ![i] = addons[j], ![j] = addons[i]]]
  /\ UNCHANGED active

SetAutoLoad(i) ==
  /\ EditProfiles
  /\ LET addons == profiles[ActiveIndex].addons IN
       /\ i \in DOMAIN addons /\ addons[i].id \in installed \ {VanaHub}
       /\ profiles' = [profiles EXCEPT ![ActiveIndex].addons[i].auto = ~@]
  /\ UNCHANGED active

\* An install or update job has ended well; transfer: it was part of an import.
\* The marker of a staged version of VanaHub is in the directory of that version.
Installed(a, transfer) ==
  /\ Change
  /\ installed' = installed \cup {a} /\ marked' = marked \cup ({a} \ {VanaHub})
  /\ profiles' = AddInstalled(profiles, a, ~transfer)
  /\ UNCHANGED active

\* rebuild_packages adopts an add-on of the catalog that has a marker; every
\* repository that is loaded rebuilds, and saves the document.
Adopt(a) ==
  /\ Change /\ a \in marked \ installed
  /\ installed' = installed \cup {a} /\ profiles' = AddInstalled(profiles, a, TRUE)
  /\ UNCHANGED <<active, marked>>

Uninstalled(a) ==
  /\ Change /\ a \in installed
  /\ installed' = installed \ {a} /\ marked' = marked \ {a}
  /\ profiles' = RemoveInstalled(profiles, a)
  /\ UNCHANGED active

\* profiles.import_profile; a manifest names no add-on twice (validate_import).
Import(name, addons) ==
  /\ EditProfiles /\ Len(profiles) < MaxProfiles
  /\ Insert([id |-> NextId(profiles), name |-> UniqueName(profiles, name),
             addons |-> NormalizeAddons(addons, installed)])

Manifests == {<<>>} \cup {<<Entry(a, TRUE)>> : a \in Addons}
  \cup {<<Entry(p[1], TRUE), Entry(p[2], FALSE)>> : p \in {q \in Addons \X Addons : q[1] # q[2]}}

Edit ==
  \/ New \/ Duplicate \/ RemoveProfile
  \/ \E name \in Names : Rename(name)
  \/ \E id \in 0..MaxProfiles : Select(id)
  \/ \E i, j \in 1..Len(Order) : j \in {i - 1, i + 1} /\ Move(i, j)
  \/ \E i \in 1..Len(Order) : SetAutoLoad(i)
  \/ \E a \in Addons, transfer \in BOOLEAN : Installed(a, transfer)
  \/ \E a \in Addons : Adopt(a) \/ Uninstalled(a)
  \/ \E name \in Names, m \in Manifests : Import(name, m)

\* The session ends, perhaps in the middle of a save or of an update, which takes
\* the marker away; until the next one files may go, or come back by recovery.
End ==
  /\ pc # "off" /\ crashes < MaxCrashes
  /\ pc' = "off" /\ crashes' = crashes + 1
  /\ \E a \in Addons \ {VanaHub} : marked' \in {marked, marked \ {a}, marked \cup {a}}
  /\ UNCHANGED <<document, file>>

\* The recovery of the engine, which runs after load_state, restores a directory.
Recover(a) ==
  /\ pc = "idle" /\ a \notin marked \cup {VanaHub} /\ crashes > 0
  /\ marked' = marked \cup {a}
  /\ UNCHANGED <<document, file, pc, crashes>>

Next ==
  \/ Start \/ RemoveFile \/ RenameFile \/ Edit \/ End
  \/ \E a \in Addons : Recover(a)

Spec == Init /\ [][Next]_vars
-----------------------------------------------------------------------------
(* Properties                                                               *)

\* Every variable stays in its type; the one type invariant of this module.
TypeOK ==
  /\ profiles \in Seq(Profile) /\ active \in 0..MaxProfiles
  /\ installed \subseteq Addons /\ marked \subseteq Addons
  /\ file \in {NoFile} \cup Documents
  /\ pc \in {"off", "idle", "remove", "rename"} /\ crashes \in 0..MaxCrashes

\* The document always has a profile; ids and names tell profiles apart, the active
\* one exists, and no profile lists an add-on twice.
DocumentSound ==
  /\ \E i \in DOMAIN profiles : profiles[i].id = active
  /\ \A i, j \in DOMAIN profiles :
       i # j => profiles[i].id # profiles[j].id /\ profiles[i].name # profiles[j].name
  /\ \A i \in DOMAIN profiles :
       Cardinality(Listed(profiles[i])) = Len(profiles[i].addons)

\* Every installed add-on is in every profile, so whatever profile is selected the
\* user can order it and choose auto-load for it.
InstalledEverywhere ==
  pc # "off" => \A i \in DOMAIN profiles : installed \subseteq Listed(profiles[i])

\* Auto-load is on only for add-ons the client knows to be installed, in every
\* profile, and never for the package manager, which is what loads them.
AutoLoadsInstalled ==
  pc # "off" =>
    \A i \in DOMAIN profiles : AutoLoaded(profiles[i]) \subseteq installed \ {VanaHub}

\* A start that finds the add-ons it is to load on the disk reads the document back
\* as it was saved: the order, the choices, the active profile, and the add-ons
\* that are not installed, such as those of an imported profile.
StartKeepsDocument ==
  [][pc = "off" /\ pc' = "remove" /\ file # NoFile =>
       ((\A i \in DOMAIN file.profiles : AutoLoaded(file.profiles[i]) \subseteq marked) =>
          profiles' = file.profiles /\ active' = file.active)]_vars
=============================================================================
