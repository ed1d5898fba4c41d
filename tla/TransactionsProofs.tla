------------------------- MODULE TransactionsProofs -------------------------
(***************************************************************************)
(* Theorems of Transactions, for any number of addons, versions, files,    *)
(* sessions, crashes and failing file-system calls.                        *)
(***************************************************************************)
EXTENDS Transactions, FiniteSetTheorems, TLAPS

Installing == job # NoJob /\ job.op = "install"
Uninstalling == job # NoJob /\ job.op = "uninstall"

\* A backup is a whole version unless the addon moved aside was torn, an earlier
\* job of the id left it, or a removal has taken files of it.
BackupsWhole == \A i \in Ids : i \in tornBackup \/ Whole(backup[i])

\* Only a serving engine runs a job, and only a recovering one visits.
PhaseInv ==
  /\ job # NoJob => phase = "up"
  /\ phase # "up" => toRemove = {}
  /\ phase = "down" => pc = "idle"
  /\ phase = "recovering" /\ pc = "clear" => rec \in Ids

\* What an install has established at each of its steps, unless a failure that it
\* did not see left its files or its list incomplete.
InstallInv ==
  Installing =>
    /\ job.ver \in Versions
    /\ toRemove = {}
    /\ pc = "inspect" => fetched = job.ver
    /\ pc = "preserve" =>
         /\ staging[job.id] # NoDir
         /\ slip \/ /\ extracted = Contents[job.ver]
                    /\ \A f \in extracted : staging[job.id].file[f] = job.ver
    /\ pc \in {"backup", "commit"} =>
         staging[job.id] # NoDir /\ (slip \/ Whole(staging[job.id]))

\* An uninstall that still has files to remove has marked its addon torn.
UninstallInv ==
  toRemove # {} => Uninstalling /\ job.pkg \in torn /\ addon[job.pkg] # NoDir

IInv == TypeOK /\ AddonsWhole /\ BackupsWhole /\ PhaseInv /\ InstallInv /\ UninstallInv
-----------------------------------------------------------------------------
(* Directories                                                              *)

\* What is extracted from an archive, over what was there, is a directory.
LEMMA ExtractedType ==
  ASSUME NEW old \in Dirs \cup {NoDir}, NEW a \in Artifacts, NEW files \in SUBSET Files
  PROVE  /\ Extracted(old, a, files) \in Dirs /\ Extracted(old, a, files) # NoDir
         /\ \A f \in files : Extracted(old, a, files).file[f] = a
<1>1. \A f \in Files : old # NoDir => old.file[f] \in Content
  BY DEF Dirs
<1>2. Extracted(old, a, files) \in Dirs
  BY <1>1, ConstantsAssumption DEF Extracted, Dirs, Content
<1> QED
  BY <1>2, ConstantsAssumption DEF Extracted

\* Copying files into staging and writing the list yields a directory, and a whole
\* one when the list names all the files of a version and they were extracted.
LEMMA MergedWhole ==
  ASSUME NEW new \in Dirs, NEW old \in Dirs \cup {NoDir}, NEW copied \in SUBSET Files,
         copied # {} => old # NoDir, NEW list \in SUBSET Files, NEW v \in Versions
  PROVE  LET m == Merged(new, old, copied, list)
         IN /\ m \in Dirs /\ m # NoDir
            /\ list = Contents[v] /\ (\A f \in list : new.file[f] = v) => Whole(m)
<1> DEFINE m == Merged(new, old, copied, list)
<1>1. v # "absent"
  BY ConstantsAssumption DEF Artifacts
<1>2. \A f \in Files : m.file[f] = IF new.file[f] = "absent" /\ f \in copied
                                   THEN old.file[f] ELSE new.file[f]
  BY DEF Merged
<1>3. m.owned = list /\ m = [file |-> m.file, owned |-> m.owned]
  BY DEF Merged
<1>4. \A f \in copied : old.file[f] \in Content
  BY DEF Dirs
<1>5. m \in Dirs
  <2>1. \A f \in Files : new.file[f] \in Content
    BY DEF Dirs
  <2>2. m.file \in [Files -> Content]
    BY <1>4, <2>1 DEF Merged
  <2> QED
    BY <1>3, <2>2 DEF Dirs
<1>6. list = Contents[v] /\ (\A f \in list : new.file[f] = v) => Whole(m)
  BY <1>1, <1>2, <1>3 DEF Whole
<1> QED
  BY <1>5, <1>6, ConstantsAssumption

\* Changing a file the directory does not own keeps it whole.
LEMMA WriteUntracked ==
  ASSUME NEW dir \in Dirs, NEW f \in Files, NEW c \in Content
  PROVE  /\ [dir EXCEPT !.file[f] = c] \in Dirs
         /\ f \notin dir.owned /\ Whole(dir) => Whole([dir EXCEPT !.file[f] = c])
<1> DEFINE new == [dir EXCEPT !.file[f] = c]
<1>1. new \in Dirs
  BY DEF Dirs
<1>2. new.owned = dir.owned /\ \A g \in Files \ {f} : new.file[g] = dir.file[g]
  BY DEF Dirs
<1>3. ASSUME f \notin dir.owned, Whole(dir) PROVE Whole(new)
  <2> SUFFICES ASSUME new.owned # {}
               PROVE  \E v \in Versions : new.owned = Contents[v]
                                          /\ \A g \in new.owned : new.file[g] = v
    BY DEF Whole
  <2>1. PICK v \in Versions : dir.owned = Contents[v] /\ \A g \in dir.owned : dir.file[g] = v
    BY <1>2, <1>3, ConstantsAssumption DEF Whole
  <2> QED
    BY <1>2, <1>3, <2>1 DEF Dirs
<1> QED
  BY <1>1, <1>3

\* A directory without an ownership list is not managed, so it is whole.
LEMMA Unowned ==
  ASSUME NEW dir \in Dirs
  PROVE  [dir EXCEPT !.owned = {}] \in Dirs /\ Whole([dir EXCEPT !.owned = {}])
BY DEF Dirs, Whole
-----------------------------------------------------------------------------
\* Nothing is torn before the first job: the initial states are in the invariant.
LEMMA InitInv == Init => IInv
<1> SUFFICES ASSUME Init PROVE IInv
  OBVIOUS
<1>1. UserDir \in Dirs /\ UserDir.owned = {}
  BY ConstantsAssumption DEF UserDir, Dirs, Content
<1>2. DiskTypeOK
  <2>1. conf \in [Addons -> Nat]
    BY FS_CardinalityType, ConstantsAssumption DEF Init, FirstSettings
  <2> QED
    BY <1>1, <2>1 DEF Init, DiskTypeOK
<1>3. EngineTypeOK /\ HistoryTypeOK
  <2>1. Cardinality(Addons) + 1 \in Nat
    BY FS_CardinalityType, ConstantsAssumption
  <2> QED
    BY <2>1 DEF Init, EngineTypeOK, HistoryTypeOK, Steps, Artifacts
<1>4. AddonsWhole /\ BackupsWhole
  BY <1>1 DEF Init, AddonsWhole, BackupsWhole, Whole
<1>5. PhaseInv /\ InstallInv /\ UninstallInv
  BY DEF Init, PhaseInv, InstallInv, UninstallInv, Installing, Uninstalling
<1> QED
  BY <1>2, <1>3, <1>4, <1>5 DEF IInv, TypeOK
-----------------------------------------------------------------------------
(* What the steps share                                                     *)

\* A step that moves no addon, and empties backups or marks those it changes.
LEMMA QuietWhole ==
  ASSUME AddonsWhole, BackupsWhole, UNCHANGED <<addon, torn>>, tornBackup \subseteq tornBackup',
         \A i \in Ids : backup'[i] \in {backup[i], NoDir} \/ i \in tornBackup'
  PROVE  AddonsWhole' /\ BackupsWhole'
BY DEF AddonsWhole, BackupsWhole, Whole

\* What is left of a directory is a directory.
LEMMA RemainsType ==
  ASSUME NEW dir \in Dirs \cup {NoDir}
  PROVE  Remains(dir) \subseteq Dirs \cup {NoDir}
<1> SUFFICES ASSUME NEW r \in Remains(dir), r # NoDir PROVE r \in Dirs
  OBVIOUS
<1>1. dir \in Dirs
  BY DEF Remains
<1>2. PICK left \in SUBSET Files, list \in {dir.owned, {}} :
        r = [file  |-> [f \in Files |-> IF f \in left THEN dir.file[f] ELSE "absent"],
             owned |-> list]
  BY DEF Remains
<1> QED
  BY <1>1, <1>2 DEF Dirs, Content

\* The transactions after one of them is left with some parts of its own.
LEMMA LeaveType ==
  ASSUME DiskTypeOK, NEW i \in Ids, NEW parts \in SUBSET Parts, NEW dir \in Dirs \cup {NoDir},
         Leave(i, parts, dir)
  PROVE  /\ journal' \in [Ids -> Journals \cup {NoJournal}]
         /\ staging' \in [Ids -> Dirs \cup {NoDir}]
         /\ backup' \in [Ids -> Dirs \cup {NoDir}]
         /\ confBackup' \in [Ids -> Nat]
         /\ \A k \in Ids : backup'[k] = IF k = i THEN dir ELSE backup[k]
BY DEF DiskTypeOK, Leave

\* Removing all or part of a transaction.
LEMMA RemovalType ==
  ASSUME DiskTypeOK, tornBackup \in SUBSET Ids, NEW i \in Ids,
         CutShort(i) \/ (Leave(i, {}, NoDir) /\ UNCHANGED tornBackup)
  PROVE  /\ journal' \in [Ids -> Journals \cup {NoJournal}]
         /\ staging' \in [Ids -> Dirs \cup {NoDir}]
         /\ backup' \in [Ids -> Dirs \cup {NoDir}]
         /\ confBackup' \in [Ids -> Nat]
         /\ tornBackup' \in SUBSET Ids /\ tornBackup \subseteq tornBackup'
         /\ \A k \in Ids : backup'[k] \in {backup[k], NoDir} \/ k \in tornBackup'
<1>1. CASE CutShort(i)
  <2>1. PICK parts \in SUBSET Parts, dir \in Remains(backup[i]) :
          /\ Leave(i, parts, dir)
          /\ tornBackup' = IF dir \in {backup[i], NoDir} THEN tornBackup ELSE tornBackup \cup {i}
    BY <1>1 DEF CutShort
  <2>2. dir \in Dirs \cup {NoDir}
    BY RemainsType DEF DiskTypeOK
  <2> QED
    BY <2>1, <2>2, LeaveType
<1>2. CASE Leave(i, {}, NoDir) /\ UNCHANGED tornBackup
  BY <1>2, LeaveType
<1> QED
  BY <1>1, <1>2

\* What a job that ends leaves of its own notes.
LEMMA FinishType == Finish => late' \in SUBSET Files /\ slip' \in BOOLEAN
<1>1. Finish => slip' = FALSE /\ late' = {}
  BY DEF Finish
<1> QED
  BY <1>1

\* Redirecting one element of a function keeps its type.
LEMMA ExceptType ==
  ASSUME NEW S, NEW T, NEW f \in [S -> T], NEW x, NEW v \in T
  PROVE  [f EXCEPT ![x] = v] \in [S -> T]
OBVIOUS
-----------------------------------------------------------------------------
(* One lemma per group of actions: each preserves the invariant.            *)

\* A job that starts opens a transaction and touches no addon yet.
LEMMA StartJobInv == IInv /\ StartJob => IInv'
<1> SUFFICES ASSUME IInv, StartJob PROVE IInv'
  OBVIOUS
<1> USE DEF IInv, TypeOK
<1>1. PICK j \in Jobs :
         /\ job' = j /\ pc' = First[j.op] /\ used' = used \cup {j.id}
         /\ j.op = "install" => j.ver \in Versions
  BY DEF StartJob
<1>2. job = NoJob /\ phase = "up"
      /\ UNCHANGED <<disk, history, phase, fetched, extracted, toRemove, todo, rec>>
  BY DEF StartJob
<1>3. toRemove = {}
  BY <1>2 DEF UninstallInv, Uninstalling
<1>4. pc' \in {"open", "list", "stage"}
  BY <1>1 DEF First, Jobs
<1>5. DiskTypeOK'
  BY <1>2 DEF DiskTypeOK, disk
<1>6. EngineTypeOK'
  BY <1>1, <1>2, <1>4 DEF EngineTypeOK, Jobs, Steps
<1>7. HistoryTypeOK'
  BY <1>2 DEF HistoryTypeOK, history
<1>8. AddonsWhole' /\ BackupsWhole'
  BY <1>2, QuietWhole DEF disk, history
<1>9. PhaseInv' /\ InstallInv' /\ UninstallInv'
  BY <1>1, <1>2, <1>3, <1>4, ConstantsAssumption
     DEF PhaseInv, InstallInv, UninstallInv, Installing, Uninstalling
<1> QED
  BY <1>5, <1>6, <1>7, <1>8, <1>9

\* Opening the transaction of an install or a restore, and its journal.
LEMMA OpenInv == IInv /\ (OpenTransaction \/ WriteJournal) => IInv'
<1> USE DEF IInv, TypeOK
<1> SUFFICES ASSUME IInv, OpenTransaction \/ WriteJournal PROVE IInv'
  OBVIOUS
<1>1. /\ phase = "up" /\ job # NoJob /\ (Installing \/ job.op = "restore")
      /\ UNCHANGED <<addon, conf, temp, kept, recovered, phase, used, job, fetched, extracted,
                     toRemove, todo, rec, boots, nextTree, recoverFailed, torn, late, slip,
                     displaced, refused>>
      /\ pc' \in {"journal", "copy", "download", "backup"}
      /\ Installing => pc' \in {"journal", "download"}
      /\ faults' \in {faults, faults + 1}
  BY DEF OpenTransaction, WriteJournal, At, Goto, Works, Fails, confVars, Installing
<1>2. job \in Jobs /\ job.id \in Ids /\ job.pkg \in Addons /\ toRemove = {}
  BY <1>1 DEF EngineTypeOK, UninstallInv, Uninstalling, Installing, Jobs
<1>3. EngineTypeOK' /\ PhaseInv' /\ UninstallInv' /\ InstallInv'
  BY <1>1, <1>2 DEF EngineTypeOK, Steps, PhaseInv, UninstallInv, InstallInv, Installing
<1>4. SUFFICES /\ journal' \in [Ids -> Journals \cup {NoJournal}]
               /\ staging' \in [Ids -> Dirs \cup {NoDir}]
               /\ backup' \in [Ids -> Dirs \cup {NoDir}]
               /\ confBackup' \in [Ids -> Nat]
               /\ tornBackup' \in SUBSET Ids /\ tornBackup \subseteq tornBackup'
               /\ \A k \in Ids : backup'[k] \in {backup[k], NoDir} \/ k \in tornBackup'
  BY <1>1, <1>3, <1>4, QuietWhole DEF DiskTypeOK, HistoryTypeOK
<1>5. CASE OpenTransaction
  <2>1. CASE Leave(job.id, {}, NoDir) /\ UNCHANGED tornBackup
    BY <1>2, <2>1, LeaveType DEF HistoryTypeOK
  <2>2. CASE /\ \E parts \in SUBSET Parts : \E dir \in Remains(backup[job.id]) :
                  Leave(job.id, parts, dir)
             /\ tornBackup' = tornBackup \cup {job.id}
    <3>1. PICK parts \in SUBSET Parts, dir \in Remains(backup[job.id]) :
            Leave(job.id, parts, dir)
      BY <2>2
    <3>2. dir \in Dirs \cup {NoDir}
      BY <1>2, RemainsType DEF DiskTypeOK
    <3> QED
      BY <1>2, <2>2, <3>1, <3>2, LeaveType DEF HistoryTypeOK
  <2> QED
    BY <1>5, <2>1, <2>2 DEF OpenTransaction
<1>6. CASE WriteJournal
  <2>1. JournalOf(job) \in Journals
    BY <1>2 DEF JournalOf, Journals
  <2>2. UNCHANGED <<staging, backup, confBackup, tornBackup>>
    BY <1>6 DEF WriteJournal
  <2>3. journal' \in [Ids -> Journals \cup {NoJournal}]
    BY <1>6, <2>1 DEF WriteJournal, DiskTypeOK
  <2> QED
    BY <2>2, <2>3 DEF DiskTypeOK, HistoryTypeOK
<1> QED
  BY <1>5, <1>6

\* The steps of an install up to the point where it touches the addon.
LEMMA FetchInv ==
  IInv /\ (Download \/ VerifyHash \/ Inspect \/ PreserveUntracked) => IInv'
<1> USE DEF IInv, TypeOK
<1> SUFFICES ASSUME IInv, Download \/ VerifyHash \/ Inspect \/ PreserveUntracked
             PROVE  IInv'
  OBVIOUS
<1>1. /\ phase = "up" /\ Installing
      /\ UNCHANGED <<addon, conf, temp, kept, recovered, phase, used, job, toRemove, todo, rec,
                     journal, backup, confBackup,
                     boots, nextTree, recoverFailed, torn, tornBackup, late, displaced, refused>>
      /\ faults' \in {faults, faults + 1}
  BY DEF Download, VerifyHash, Inspect, PreserveUntracked, At, Goto,
         confVars, disk, history, Installing, Works, Fails
<1>2. /\ job \in Jobs /\ job.ver \in Versions /\ job.id \in Ids /\ job.pkg \in Addons
      /\ toRemove = {} /\ staging[job.id] \in Dirs \cup {NoDir}
      /\ addon[job.pkg] \in Dirs \cup {NoDir}
  BY <1>1 DEF EngineTypeOK, InstallInv, Installing, Jobs, DiskTypeOK
<1>3. AddonsWhole' /\ BackupsWhole' /\ PhaseInv' /\ UninstallInv'
  BY <1>1, <1>2, QuietWhole DEF PhaseInv, UninstallInv, Installing
<1>4. SUFFICES /\ staging' \in [Ids -> Dirs \cup {NoDir}]
               /\ fetched' \in Artifacts /\ extracted' \in SUBSET Files /\ slip' \in BOOLEAN
               /\ pc' \in Steps
               /\ InstallInv'
  BY <1>1, <1>3, <1>4 DEF DiskTypeOK, EngineTypeOK, HistoryTypeOK
<1>5. CASE Download \/ VerifyHash
  <2>1. /\ UNCHANGED <<disk, history, extracted>> /\ fetched' \in Artifacts
        /\ pc' \in {"hash", "inspect", "abort"}
        /\ pc' = "inspect" => fetched' = job.ver
    BY <1>5 DEF Download, VerifyHash, Goto, EngineTypeOK
  <2>2. InstallInv'
    BY <1>1, <1>2, <2>1 DEF InstallInv, Installing
  <2> QED
    BY <2>1, <2>2 DEF disk, history, DiskTypeOK, EngineTypeOK, HistoryTypeOK, Steps
<1>6. CASE Inspect
  <2>1. /\ UNCHANGED fetched /\ pc = "inspect" /\ pc' \in {"abort", "preserve"}
        /\ fetched = job.ver /\ fetched \in Artifacts /\ Contents[fetched] \in SUBSET Files
    BY <1>1, <1>2, <1>6, ConstantsAssumption
       DEF Inspect, At, Goto, InstallInv, EngineTypeOK, Artifacts
  <2>2. CASE UNCHANGED <<staging, extracted, slip>> /\ pc' = "abort"
    BY <1>1, <1>2, <2>1, <2>2
       DEF InstallInv, Installing, DiskTypeOK, EngineTypeOK, HistoryTypeOK, Steps
  <2>3. CASE \E files \in SUBSET Contents[fetched] :
               /\ staging' = [staging EXCEPT ![job.id] = Extracted(@, fetched, files)]
               /\ extracted' = files
               /\ slip' \in {slip, TRUE}
               /\ pc' = "preserve" => files = Contents[fetched] \/ slip'
    <3>1. PICK files \in SUBSET Contents[fetched] :
               /\ staging' = [staging EXCEPT ![job.id] = Extracted(@, fetched, files)]
               /\ extracted' = files
               /\ slip' \in {slip, TRUE}
               /\ pc' = "preserve" => files = Contents[fetched] \/ slip'
      BY <2>3
    <3> DEFINE new == Extracted(staging[job.id], fetched, files)
    <3>2. files \in SUBSET Files
      BY <2>1
    <3>3. new \in Dirs /\ new # NoDir /\ \A f \in files : new.file[f] = fetched
      BY <1>2, <2>1, <3>2, ExtractedType
    <3>4. staging' = [staging EXCEPT ![job.id] = new]
      BY <3>1
    <3> HIDE DEF new
    <3>5. staging' \in [Ids -> Dirs \cup {NoDir}] /\ staging'[job.id] = new
      BY <1>2, <3>3, <3>4 DEF DiskTypeOK
    <3>6. InstallInv'
      BY <1>1, <1>2, <2>1, <3>1, <3>3, <3>5 DEF InstallInv, Installing
    <3> QED
      BY <2>1, <3>1, <3>2, <3>5, <3>6 DEF HistoryTypeOK, EngineTypeOK, Steps
  <2> QED
    BY <1>6, <2>2, <2>3 DEF Inspect, Goto
<1>7. CASE PreserveUntracked
  <2> DEFINE old == addon[job.pkg]
  <2>1. /\ UNCHANGED fetched /\ pc = "preserve" /\ pc' = "backup" /\ extracted' = {}
    BY <1>7 DEF PreserveUntracked, At, Goto
  <2>2. /\ staging[job.id] \in Dirs /\ staging[job.id].owned \in SUBSET Files
        /\ extracted \in SUBSET Files
        /\ slip \/ /\ extracted = Contents[job.ver]
                   /\ \A f \in extracted : staging[job.id].file[f] = job.ver
    BY <1>1, <1>2, <2>1 DEF InstallInv, EngineTypeOK, Dirs
  <2>3. PICK copied \in SUBSET Files, list \in SUBSET Files :
          /\ copied # {} => old # NoDir
          /\ staging' = [staging EXCEPT ![job.id] = Merged(@, old, copied, list)]
          /\ slip' = TRUE \/ (slip' = slip /\ list = extracted)
    <3>1. \A c \in SUBSET {f \in Files : old # NoDir /\ old.file[f] # "absent"} :
             c \in SUBSET Files /\ (c # {} => old # NoDir)
      OBVIOUS
    <3>2. Untracked(old) \in SUBSET {f \in Files : old # NoDir /\ old.file[f] # "absent"}
      BY DEF Untracked
    <3>3. CASE \E list \in (SUBSET extracted) \cup {staging[job.id].owned} :
                 /\ slip' = TRUE
                 /\ staging' = [staging EXCEPT ![job.id] = Merged(@, old, Untracked(old), list)]
      <4>1. PICK list \in (SUBSET extracted) \cup {staging[job.id].owned} :
                 staging' = [staging EXCEPT ![job.id] = Merged(@, old, Untracked(old), list)]
        BY <3>3
      <4>2. list \in SUBSET Files
        BY <2>2, <4>1
      <4>3. Untracked(old) \in SUBSET Files /\ (Untracked(old) # {} => old # NoDir)
        BY <3>1, <3>2
      <4> QED
        BY <3>3, <4>1, <4>2, <4>3
    <3>4. CASE \E c \in SUBSET {f \in Files : old # NoDir /\ old.file[f] # "absent"} :
                 /\ UNCHANGED slip
                 /\ staging' = [staging EXCEPT ![job.id] = Merged(@, old, c, extracted)]
      BY <2>2, <3>1, <3>4 DEF HistoryTypeOK
    <3> QED
      BY <1>7, <3>2, <3>3, <3>4 DEF PreserveUntracked
  <2> DEFINE m == Merged(staging[job.id], old, copied, list)
  <2>4. m \in Dirs /\ m # NoDir
        /\ (list = Contents[job.ver] /\ (\A f \in list : staging[job.id].file[f] = job.ver)
              => Whole(m))
    BY <1>2, <2>2, <2>3, MergedWhole
  <2>5. staging' = [staging EXCEPT ![job.id] = m]
    BY <2>3
  <2> HIDE DEF m
  <2>6. staging' \in [Ids -> Dirs \cup {NoDir}] /\ staging'[job.id] = m
    BY <1>2, <2>4, <2>5 DEF DiskTypeOK
  <2>7. slip' \/ Whole(m)
    <3>1. CASE slip' = TRUE
      BY <3>1
    <3>2. CASE slip' = slip /\ list = extracted
      BY <2>2, <2>4, <3>2
    <3> QED
      BY <2>3, <3>1, <3>2
  <2>8. InstallInv'
    BY <1>1, <1>2, <2>1, <2>4, <2>6, <2>7 DEF InstallInv, Installing, Whole
  <2> QED
    BY <2>1, <2>3, <2>6, <2>8 DEF EngineTypeOK, HistoryTypeOK, Steps
<1> QED
  BY <1>5, <1>6, <1>7

\* The steps that move addon directories: into the transaction, from staging to
\* the addon's place, and back.
LEMMA BackUpAddonInv == IInv /\ BackUpAddon => IInv'
<1> USE DEF IInv, TypeOK
<1> SUFFICES ASSUME IInv, BackUpAddon PROVE IInv'
  OBVIOUS
<1> DEFINE p == job.pkg
           i == job.id
<1>1. /\ phase = "up" /\ Installing /\ pc = "backup"
      /\ UNCHANGED <<conf, temp, kept, recovered, journal, staging, confBackup,
                     boots, nextTree, recoverFailed, torn, displaced, refused,
                     phase, used, todo, rec>>
  BY DEF BackUpAddon, At, Goto, Finish, confVars, Installing
<1>2. job \in Jobs /\ job.ver \in Versions /\ i \in Ids /\ p \in Addons /\ toRemove = {}
  BY <1>1 DEF EngineTypeOK, InstallInv, Installing, Jobs
<1>3. addon[p] \in Dirs \cup {NoDir} /\ backup[i] \in Dirs \cup {NoDir}
  BY <1>2 DEF DiskTypeOK
<1>4. CASE /\ UNCHANGED <<faults, fetched, extracted, toRemove, late, slip, job>>
           /\ pc' = "commit"
           /\ addon' = [addon EXCEPT ![p] = NoDir]
           /\ backup' = [backup EXCEPT ![i] = addon[p]]
           /\ tornBackup' = IF p \in torn THEN tornBackup \cup {i} ELSE tornBackup \ {i}
  <2>1. DiskTypeOK' /\ EngineTypeOK' /\ HistoryTypeOK'
    BY <1>1, <1>2, <1>3, <1>4 DEF DiskTypeOK, EngineTypeOK, HistoryTypeOK, Steps
  <2>2. AddonsWhole'
    BY <1>1, <1>4 DEF AddonsWhole, Whole, DiskTypeOK
  <2>3. BackupsWhole'
    BY <1>1, <1>2, <1>4 DEF AddonsWhole, BackupsWhole, DiskTypeOK
  <2>4. PhaseInv' /\ UninstallInv'
    BY <1>1, <1>2, <1>4 DEF PhaseInv, UninstallInv
  <2>5. InstallInv'
    BY <1>1, <1>2, <1>4 DEF InstallInv, Installing, Whole
  <2> QED
    BY <2>1, <2>2, <2>3, <2>4, <2>5
<1>5. CASE /\ UNCHANGED <<faults, fetched, extracted, toRemove, late, slip, job>>
           /\ pc' = "commit"
           /\ UNCHANGED <<addon, backup, tornBackup>>
  <2>1. DiskTypeOK' /\ EngineTypeOK' /\ HistoryTypeOK'
    BY <1>1, <1>5 DEF DiskTypeOK, EngineTypeOK, HistoryTypeOK, Steps
  <2>2. AddonsWhole' /\ BackupsWhole'
    BY <1>1, <1>5, QuietWhole
  <2>3. PhaseInv' /\ UninstallInv'
    BY <1>1, <1>2, <1>5 DEF PhaseInv, UninstallInv
  <2>4. InstallInv'
    BY <1>1, <1>2, <1>5 DEF InstallInv, Installing, Whole
  <2> QED
    BY <2>1, <2>2, <2>3, <2>4
<1>6. CASE /\ faults' = faults + 1 /\ Finish /\ UNCHANGED addon
           /\ \E dir \in Remains(backup[i]) :
                /\ backup' = [backup EXCEPT ![i] = dir]
                /\ tornBackup' = IF dir \in {backup[i], NoDir} THEN tornBackup
                                 ELSE tornBackup \cup {i}
  <2>1. PICK dir \in Dirs \cup {NoDir} :
          /\ backup' = [backup EXCEPT ![i] = dir]
          /\ tornBackup' = IF dir \in {backup[i], NoDir} THEN tornBackup
                           ELSE tornBackup \cup {i}
    BY <1>3, <1>6, RemainsType
  <2>2. DiskTypeOK' /\ HistoryTypeOK'
    <3>1. DiskTypeOK'
      BY <1>1, <1>2, <1>6, <2>1 DEF DiskTypeOK
    <3>2. tornBackup' \in SUBSET Ids
      BY <1>2, <2>1 DEF HistoryTypeOK
    <3> QED
      BY <1>1, <1>6, <3>1, <3>2, FinishType DEF HistoryTypeOK
  <2>3. AddonsWhole' /\ BackupsWhole'
    BY <1>1, <1>2, <1>6, <2>1, QuietWhole DEF DiskTypeOK
  <2>4. EngineTypeOK' /\ PhaseInv' /\ UninstallInv' /\ InstallInv'
    BY <1>1, <1>6 DEF Finish, EngineTypeOK, Steps, Artifacts, PhaseInv, UninstallInv, InstallInv,
                      Installing
  <2> QED
    BY <2>2, <2>3, <2>4
<1> QED
  BY <1>4, <1>5, <1>6 DEF BackUpAddon, Goto, Works, Fails

\* Commit puts what was verified and staged in the place of the addon.
LEMMA CommitAddonInv == IInv /\ CommitAddon => IInv'
<1> USE DEF IInv, TypeOK
<1> SUFFICES ASSUME IInv, CommitAddon PROVE IInv'
  OBVIOUS
<1> DEFINE p == job.pkg
           i == job.id
<1>1. /\ phase = "up" /\ Installing /\ pc = "commit"
      /\ UNCHANGED <<conf, temp, kept, recovered, journal, backup, confBackup,
                     boots, nextTree, recoverFailed, tornBackup, late, slip, displaced, refused,
                     phase, used, job, todo, rec, fetched, extracted, toRemove>>
      /\ faults' \in {faults, faults + 1} /\ pc' \in {"cleanup", "rollback"}
  BY DEF CommitAddon, At, Goto, confVars, Installing, Works, Fails
<1>2. job \in Jobs /\ job.ver \in Versions /\ i \in Ids /\ p \in Addons /\ toRemove = {}
  BY <1>1 DEF EngineTypeOK, InstallInv, Installing, Jobs
<1>3. EngineTypeOK' /\ PhaseInv' /\ UninstallInv' /\ InstallInv'
  BY <1>1, <1>2 DEF EngineTypeOK, Steps, PhaseInv, UninstallInv, InstallInv, Installing
<1>4. staging[i] # NoDir /\ (slip \/ Whole(staging[i])) /\ staging[i] \in Dirs
  BY <1>1, <1>2 DEF InstallInv, DiskTypeOK
<1>5. CASE /\ addon' = [addon EXCEPT ![p] = staging[i]]
           /\ staging' = [staging EXCEPT ![i] = NoDir]
           /\ torn' = IF slip THEN torn \cup {p} ELSE torn \ {p}
  <2>1. DiskTypeOK' /\ HistoryTypeOK'
    BY <1>1, <1>2, <1>4, <1>5 DEF DiskTypeOK, HistoryTypeOK
  <2>2. AddonsWhole'
    <3>1. \A q \in Addons : addon'[q] = IF q = p THEN staging[i] ELSE addon[q]
      BY <1>5 DEF DiskTypeOK
    <3>2. p \in torn' \/ Whole(staging[i])
      BY <1>4, <1>5
    <3>3. \A q \in Addons \ {p} : q \in torn => q \in torn'
      BY <1>5
    <3> QED
      BY <3>1, <3>2, <3>3 DEF AddonsWhole
  <2>3. BackupsWhole'
    BY <1>1 DEF BackupsWhole
  <2> QED
    BY <1>3, <2>1, <2>2, <2>3
<1>6. CASE UNCHANGED <<addon, staging, torn>>
  <2>1. DiskTypeOK' /\ HistoryTypeOK'
    BY <1>1, <1>6 DEF DiskTypeOK, HistoryTypeOK
  <2>2. AddonsWhole' /\ BackupsWhole'
    BY <1>1, <1>6, QuietWhole
  <2> QED
    BY <1>3, <2>1, <2>2
<1> QED
  BY <1>5, <1>6 DEF CommitAddon

\* A backup that is put back makes the addon as whole as the backup was.
LEMMA PutBackWhole ==
  ASSUME DiskTypeOK, HistoryTypeOK, AddonsWhole, BackupsWhole, NEW i \in Ids, NEW p \in Addons,
         PutBack(i, p), UNCHANGED tornBackup
  PROVE  /\ addon' \in [Addons -> Dirs \cup {NoDir}] /\ backup' \in [Ids -> Dirs \cup {NoDir}]
         /\ torn' \in SUBSET Addons
         /\ AddonsWhole' /\ BackupsWhole'
<1>1. \A q \in Addons : addon'[q] = IF q = p THEN backup[i] ELSE addon[q]
  BY DEF PutBack, DiskTypeOK
<1>2. \A k \in Ids : backup'[k] \in {backup[k], NoDir}
  BY DEF PutBack, DiskTypeOK
<1>3. torn' \in SUBSET Addons /\ (\A q \in Addons \ {p} : q \in torn => q \in torn')
      /\ (i \in tornBackup => p \in torn')
  BY DEF PutBack, HistoryTypeOK
<1>4. addon' \in [Addons -> Dirs \cup {NoDir}] /\ backup' \in [Ids -> Dirs \cup {NoDir}]
  BY DEF PutBack, DiskTypeOK
<1>5. AddonsWhole'
  BY <1>1, <1>3 DEF AddonsWhole, BackupsWhole
<1>6. Whole(NoDir)
  BY DEF Whole
<1>7. BackupsWhole'
  BY <1>2, <1>6 DEF BackupsWhole
<1> QED
  BY <1>3, <1>4, <1>5, <1>7

\* Roll-back puts the backup of the addon in its place again.
LEMMA RollBackAddonInv == IInv /\ RollBackAddon => IInv'
<1> USE DEF IInv, TypeOK
<1> SUFFICES ASSUME IInv, RollBackAddon PROVE IInv'
  OBVIOUS
<1>1. /\ phase = "up" /\ Installing /\ pc = "rollback" /\ Finish
      /\ UNCHANGED <<conf, temp, kept, recovered, journal, staging, confBackup,
                     boots, nextTree, recoverFailed, tornBackup, displaced, refused>>
      /\ faults' \in {faults, faults + 1}
      /\ \/ UNCHANGED <<addon, backup, torn>>
         \/ PutBack(job.id, job.pkg)
  BY DEF RollBackAddon, At, confVars, Installing, Works, Fails
<1>2. job.id \in Ids /\ job.pkg \in Addons
  BY <1>1 DEF EngineTypeOK, Installing, Jobs
<1>3. /\ addon' \in [Addons -> Dirs \cup {NoDir}] /\ backup' \in [Ids -> Dirs \cup {NoDir}]
      /\ torn' \in SUBSET Addons
      /\ AddonsWhole' /\ BackupsWhole'
  <2>1. CASE UNCHANGED <<addon, backup, torn>>
    BY <1>1, <2>1, QuietWhole DEF DiskTypeOK, HistoryTypeOK
  <2>2. CASE PutBack(job.id, job.pkg)
    BY <1>1, <1>2, <2>2, PutBackWhole
  <2> QED
    BY <1>1, <2>1, <2>2
<1>4. DiskTypeOK' /\ HistoryTypeOK'
  <2>1. DiskTypeOK'
    BY <1>1, <1>3 DEF DiskTypeOK
  <2> QED
    BY <1>1, <1>3, <2>1, FinishType DEF HistoryTypeOK
<1>5. EngineTypeOK' /\ PhaseInv' /\ UninstallInv' /\ InstallInv'
  BY <1>1 DEF Finish, EngineTypeOK, Steps, Artifacts, PhaseInv, UninstallInv, InstallInv,
              Installing
<1> QED
  BY <1>3, <1>4, <1>5

\* Removing the transaction of a job that is done takes away no addon.
LEMMA CleanUpInv == IInv /\ CleanUp => IInv'
<1> USE DEF IInv, TypeOK
<1> SUFFICES ASSUME IInv, CleanUp PROVE IInv'
  OBVIOUS
<1>1. /\ phase = "up" /\ Finish
      /\ UNCHANGED <<addon, conf, temp, kept, recovered, boots, nextTree, recoverFailed,
                     torn, displaced, refused>>
      /\ faults' \in {faults, faults + 1}
      /\ CutShort(job.id) \/ (Leave(job.id, {}, NoDir) /\ UNCHANGED tornBackup)
  BY DEF CleanUp, RemoveTransaction, confVars, Works, Fails
<1>2. job.id \in Ids /\ tornBackup \in SUBSET Ids
  BY DEF CleanUp, EngineTypeOK, HistoryTypeOK, Jobs
<1>3. /\ journal' \in [Ids -> Journals \cup {NoJournal}]
      /\ staging' \in [Ids -> Dirs \cup {NoDir}]
      /\ backup' \in [Ids -> Dirs \cup {NoDir}]
      /\ confBackup' \in [Ids -> Nat]
      /\ tornBackup' \in SUBSET Ids /\ tornBackup \subseteq tornBackup'
      /\ \A k \in Ids : backup'[k] \in {backup[k], NoDir} \/ k \in tornBackup'
  BY <1>1, <1>2, RemovalType
<1>4. DiskTypeOK' /\ HistoryTypeOK' /\ AddonsWhole' /\ BackupsWhole'
  <2>1. DiskTypeOK'
    BY <1>1, <1>3 DEF DiskTypeOK
  <2>2. HistoryTypeOK'
    BY <1>1, <1>3, FinishType DEF HistoryTypeOK
  <2> QED
    BY <1>1, <1>3, <2>1, <2>2, QuietWhole
<1>5. EngineTypeOK' /\ PhaseInv' /\ UninstallInv' /\ InstallInv'
  BY <1>1 DEF Finish, EngineTypeOK, Steps, Artifacts, PhaseInv, UninstallInv,
              InstallInv, Installing
<1> QED
  BY <1>4, <1>5
-----------------------------------------------------------------------------
\* Removing owned files one by one makes an addon torn before it makes it
\* incomplete, and forgets that only with the ownership list.
LEMMA UninstallStepInv == IInv /\ UninstallStep => IInv'
<1> USE DEF IInv, TypeOK
<1> SUFFICES ASSUME IInv, UninstallStep PROVE IInv'
  OBVIOUS
<1> DEFINE p == job.pkg
<1>1. /\ phase = "up" /\ Uninstalling
      /\ UNCHANGED <<conf, temp, kept, recovered, journal, staging, backup, confBackup,
                     phase, used, todo, rec, boots, nextTree, recoverFailed, tornBackup,
                     displaced, refused>>
      /\ faults' \in {faults, faults + 1}
  BY DEF UninstallStep, ListOwned, RemoveOwned, RemoveMarker, RemoveDirectory, At, Goto,
         Finish, disk, confVars, txnVars, Uninstalling, Works, Fails
<1>2. p \in Addons /\ addon[p] \in Dirs \cup {NoDir}
  BY <1>1 DEF DiskTypeOK, EngineTypeOK, Uninstalling, Jobs
<1>3. BackupsWhole'
  BY <1>1 DEF BackupsWhole
<1>4. CASE ListOwned
  <2>1. /\ UNCHANGED <<addon, fetched, extracted, late, slip, job>> /\ pc' = "remove"
        /\ \/ toRemove' = {} /\ torn' = torn
           \/ /\ addon[p] # NoDir
              /\ toRemove' \in SUBSET addon[p].owned
              /\ torn' = IF toRemove' = {} THEN torn ELSE torn \cup {p}
    BY <1>4 DEF ListOwned, Goto, disk
  <2>2. DiskTypeOK' /\ HistoryTypeOK'
    BY <1>1, <1>2, <2>1 DEF DiskTypeOK, HistoryTypeOK
  <2>3. EngineTypeOK'
    BY <1>1, <1>2, <2>1 DEF EngineTypeOK, Steps, Dirs
  <2>4. AddonsWhole'
    BY <2>1 DEF AddonsWhole
  <2>5. PhaseInv' /\ InstallInv' /\ UninstallInv'
    BY <1>1, <2>1 DEF PhaseInv, InstallInv, Installing, UninstallInv, Uninstalling
  <2> QED
    BY <1>3, <2>2, <2>3, <2>4, <2>5
<1>5. CASE RemoveOwned
  <2>1. PICK f \in toRemove :
           /\ toRemove' = toRemove \ {f}
           /\ addon' \in {addon, [addon EXCEPT ![p].file[f] = "absent"]}
    BY <1>5 DEF RemoveOwned
  <2>2. UNCHANGED <<pc, fetched, extracted, torn, late, slip, job>>
    BY <1>5 DEF RemoveOwned
  <2>3. f \in Files /\ p \in torn /\ addon[p] \in Dirs
    BY <1>2 DEF EngineTypeOK, UninstallInv
  <2>4. [addon[p] EXCEPT !.file[f] = "absent"] \in Dirs
    BY <2>3, WriteUntracked DEF Content
  <2>5. /\ addon' \in [Addons -> Dirs \cup {NoDir}]
        /\ addon'[p] \in Dirs
        /\ \A q \in Addons \ {p} : addon'[q] = addon[q]
    BY <1>2, <2>1, <2>3, <2>4 DEF DiskTypeOK
  <2>6. DiskTypeOK' /\ EngineTypeOK' /\ HistoryTypeOK'
    BY <1>1, <2>1, <2>2, <2>5 DEF DiskTypeOK, EngineTypeOK, HistoryTypeOK
  <2>7. AddonsWhole'
    BY <2>2, <2>3, <2>5 DEF AddonsWhole
  <2>8. PhaseInv' /\ InstallInv' /\ UninstallInv'
    BY <1>1, <2>1, <2>2, <2>3, <2>5, ConstantsAssumption
       DEF PhaseInv, InstallInv, Installing, UninstallInv, Uninstalling
  <2> QED
    BY <1>3, <2>6, <2>7, <2>8
<1>6. CASE RemoveMarker
  <2>1. /\ UNCHANGED <<fetched, extracted, toRemove, late, slip, job>> /\ toRemove = {}
        /\ pc' = "rmdir"
        /\ \/ UNCHANGED <<addon, torn>>
           \/ /\ addon[p] # NoDir /\ torn' = torn \ {p}
              /\ addon' = [addon EXCEPT ![p].owned = {}]
    BY <1>6 DEF RemoveMarker, Goto
  <2>2. addon[p] # NoDir => /\ [addon[p] EXCEPT !.owned = {}] \in Dirs
                            /\ Whole([addon[p] EXCEPT !.owned = {}])
    BY <1>2, Unowned
  <2>3. /\ addon' \in [Addons -> Dirs \cup {NoDir}] /\ torn' \in SUBSET Addons
        /\ \A q \in Addons : /\ q # p => addon'[q] = addon[q] /\ (q \in torn => q \in torn')
                            /\ q = p => (addon'[q] = addon[q] /\ torn' = torn) \/ Whole(addon'[q])
    BY <1>2, <2>1, <2>2 DEF DiskTypeOK, HistoryTypeOK
  <2>4. DiskTypeOK' /\ EngineTypeOK' /\ HistoryTypeOK' /\ AddonsWhole'
    BY <1>1, <2>1, <2>3 DEF DiskTypeOK, EngineTypeOK, HistoryTypeOK, Steps, AddonsWhole
  <2>5. PhaseInv' /\ InstallInv' /\ UninstallInv'
    BY <1>1, <2>1 DEF PhaseInv, InstallInv, Installing, UninstallInv, Uninstalling
  <2> QED
    BY <1>3, <2>4, <2>5
<1>7. CASE RemoveDirectory
  <2>1. /\ Finish /\ UNCHANGED <<faults, torn>>
        /\ addon' \in {addon, [addon EXCEPT ![p] = NoDir]}
    BY <1>7 DEF RemoveDirectory
  <2>2. DiskTypeOK' /\ AddonsWhole'
    <3>1. addon' \in [Addons -> Dirs \cup {NoDir}]
          /\ \A q \in Addons : addon'[q] \in {addon[q], NoDir}
      BY <2>1 DEF DiskTypeOK
    <3>2. Whole(NoDir)
      BY DEF Whole
    <3> QED
      BY <1>1, <2>1, <3>1, <3>2 DEF DiskTypeOK, AddonsWhole
  <2>4. HistoryTypeOK'
    BY <1>1, <2>1 DEF HistoryTypeOK, Finish
  <2>3. EngineTypeOK' /\ PhaseInv' /\ UninstallInv' /\ InstallInv'
    BY <1>1, <2>1 DEF Finish, EngineTypeOK, Steps, Artifacts, PhaseInv, UninstallInv,
                      InstallInv, Installing
  <2> QED
    BY <1>3, <2>2, <2>3, <2>4
<1> QED
  BY <1>4, <1>5, <1>6, <1>7 DEF UninstallStep
-----------------------------------------------------------------------------
\* A settings restore does not touch addons.
LEMMA RestoreStepInv == IInv /\ RestoreStep => IInv'
<1> USE DEF IInv, TypeOK
<1> SUFFICES ASSUME IInv, RestoreStep PROVE IInv'
  OBVIOUS
<1> DEFINE p == job.pkg
           i == job.id
<1>1. /\ phase = "up" /\ job # NoJob /\ job.op = "restore"
      /\ UNCHANGED <<addon, journal, staging, backup, recovered, phase, used, todo, rec, boots,
                     recoverFailed, torn, tornBackup>>
      /\ faults' \in {faults, faults + 1} /\ nextTree' \in {nextTree, nextTree + 1}
  BY DEF RestoreStep, StageSettings, CopySettings, BackUpSettings, CommitSettings,
         DropCopy, PutBackSettings, RetainSettings, RemoveCopy, At, Goto, Finish, FreshTree,
         Works, Fails, txnVars
<1>2. /\ job \in Jobs /\ i \in Ids /\ p \in Addons /\ toRemove = {}
      /\ conf[p] \in Nat /\ temp[p] \in Nat /\ confBackup[i] \in Nat /\ nextTree \in Nat
  BY <1>1 DEF EngineTypeOK, DiskTypeOK, HistoryTypeOK, UninstallInv, Uninstalling, Jobs
<1>3. \/ /\ UNCHANGED <<job, fetched, extracted, toRemove, late, slip>>
         /\ pc' \in {"open", "journal", "commit", "retain", "cleanup", "discard", "drop",
                     "rollback", "putback", "abort"}
      \/ Finish
  BY <1>1 DEF RestoreStep, StageSettings, CopySettings, BackUpSettings, CommitSettings,
         DropCopy, PutBackSettings, RetainSettings, Goto
<1>4. EngineTypeOK' /\ PhaseInv' /\ UninstallInv' /\ InstallInv'
  <2>1. EngineTypeOK'
    BY <1>1, <1>3 DEF EngineTypeOK, Steps, Artifacts, Finish
  <2>2. PhaseInv' /\ UninstallInv' /\ InstallInv'
    BY <1>1, <1>2, <1>3 DEF Finish, PhaseInv, UninstallInv, InstallInv, Installing
  <2> QED
    BY <2>1, <2>2
<1>5. SUFFICES /\ displaced' \in SUBSET Nat /\ refused' \in SUBSET Nat
               /\ conf' \in [Addons -> Nat] /\ temp' \in [Addons -> Nat]
               /\ kept' \in [Ids -> [Addons -> Nat]]
               /\ confBackup' \in [Ids -> Nat]
  <2>1. AddonsWhole' /\ BackupsWhole'
    BY <1>1, <1>5, QuietWhole
  <2>2. DiskTypeOK'
    BY <1>1, <1>5 DEF DiskTypeOK
  <2>3. HistoryTypeOK'
    <3>1. UNCHANGED <<late, slip>> \/ (late' \in SUBSET Files /\ slip' \in BOOLEAN)
      BY <1>3, FinishType
    <3>2. late' \in SUBSET Files /\ slip' \in BOOLEAN
      BY <3>1 DEF HistoryTypeOK
    <3> QED
      BY <1>1, <1>5, <3>2 DEF HistoryTypeOK
  <2> QED
    BY <1>4, <2>1, <2>2, <2>3
<1>6. CASE StageSettings \/ CopySettings \/ DropCopy
  <2>1. /\ UNCHANGED <<conf, kept, confBackup, displaced, refused>>
        /\ \/ temp' = [temp EXCEPT ![p] = nextTree]
           \/ temp' = [temp EXCEPT ![p] = 0]
           \/ UNCHANGED temp
    BY <1>6 DEF StageSettings, CopySettings, DropCopy, RemoveCopy, txnVars
  <2>2. temp \in [Addons -> Nat]
    BY DEF DiskTypeOK
  <2>3. temp' \in [Addons -> Nat]
    <3>1. [temp EXCEPT ![p] = nextTree] \in [Addons -> Nat]
          /\ [temp EXCEPT ![p] = 0] \in [Addons -> Nat]
      BY <1>2, <2>2
    <3> QED
      BY <2>1, <2>2, <3>1
  <2> QED
    BY <2>1, <2>3 DEF DiskTypeOK, HistoryTypeOK
<1>7. CASE BackUpSettings
  <2>1. /\ UNCHANGED <<temp, kept, refused>>
        /\ \/ UNCHANGED <<conf, confBackup, displaced>>
           \/ /\ conf' = [conf EXCEPT ![p] = 0]
              /\ confBackup' = [confBackup EXCEPT ![i] = conf[p]]
              /\ displaced' = displaced \cup {conf[p]}
    BY <1>7 DEF BackUpSettings
  <2>2. conf' \in [Addons -> Nat] /\ confBackup' \in [Ids -> Nat]
    BY <1>2, <2>1 DEF DiskTypeOK
  <2>3. displaced' \in SUBSET Nat
    BY <1>2, <2>1 DEF HistoryTypeOK
  <2> QED
    BY <2>1, <2>2, <2>3 DEF DiskTypeOK, HistoryTypeOK
<1>8. CASE CommitSettings
  <2>1. /\ UNCHANGED <<kept, confBackup, displaced, refused>>
        /\ \/ UNCHANGED <<conf, temp>>
           \/ /\ conf' = [conf EXCEPT ![p] = temp[p]]
              /\ temp' = [temp EXCEPT ![p] = 0]
    BY <1>8 DEF CommitSettings, txnVars
  <2> QED
    BY <1>2, <2>1 DEF DiskTypeOK, HistoryTypeOK
<1>9. CASE PutBackSettings
  <2>1. /\ UNCHANGED <<temp, kept>>
        /\ conf' \in {conf, [conf EXCEPT ![p] = confBackup[i]]}
        /\ confBackup' \in {confBackup, [confBackup EXCEPT ![i] = 0]}
        /\ displaced' \in {displaced, displaced \ {confBackup[i]}}
        /\ refused' \in {refused, refused \cup {confBackup[i]}}
    BY <1>9 DEF PutBackSettings
  <2>2. conf' \in [Addons -> Nat] /\ confBackup' \in [Ids -> Nat]
    <3>1. conf \in [Addons -> Nat] /\ confBackup \in [Ids -> Nat]
      BY DEF DiskTypeOK
    <3>2. [conf EXCEPT ![p] = confBackup[i]] \in [Addons -> Nat]
          /\ [confBackup EXCEPT ![i] = 0] \in [Ids -> Nat]
      BY <1>2, <3>1
    <3> QED
      BY <2>1, <3>1, <3>2
  <2>3. displaced' \in SUBSET Nat /\ refused' \in SUBSET Nat
    BY <1>2, <2>1 DEF HistoryTypeOK
  <2> QED
    BY <2>1, <2>2, <2>3 DEF DiskTypeOK
<1>10. CASE RetainSettings
  <2>1. /\ UNCHANGED <<conf, temp, displaced, refused>>
        /\ \/ UNCHANGED <<kept, confBackup>>
           \/ /\ kept' = [kept EXCEPT ![i][p] = confBackup[i]]
              /\ confBackup' = [confBackup EXCEPT ![i] = 0]
    BY <1>10 DEF RetainSettings
  <2>2. kept \in [Ids -> [Addons -> Nat]] /\ kept[i] \in [Addons -> Nat]
    BY <1>2 DEF DiskTypeOK
  <2> DEFINE own == [kept[i] EXCEPT ![p] = confBackup[i]]
  <2>3. own \in [Addons -> Nat]
    BY <1>2, <2>2, ExceptType
  <2>4. kept' \in {kept, [kept EXCEPT ![i] = own]}
    BY <2>1
  <2> HIDE DEF own
  <2>5. kept' \in [Ids -> [Addons -> Nat]]
    BY <2>2, <2>3, <2>4, ExceptType
  <2>6. confBackup' \in [Ids -> Nat]
    <3>1. confBackup \in [Ids -> Nat]
      BY DEF DiskTypeOK
    <3>2. [confBackup EXCEPT ![i] = 0] \in [Ids -> Nat]
      BY <1>2, <3>1
    <3> QED
      BY <2>1, <3>1, <3>2
  <2> QED
    BY <2>1, <2>5, <2>6 DEF DiskTypeOK, HistoryTypeOK
<1> QED
  BY <1>6, <1>7, <1>8, <1>9, <1>10 DEF RestoreStep
-----------------------------------------------------------------------------
\* A crash at any step, and the start of the next session.
LEMMA CrashInv == IInv /\ (Crash \/ Boot) => IInv'
<1> USE DEF IInv, TypeOK
<1> SUFFICES ASSUME IInv, Crash \/ Boot PROVE IInv'
  OBVIOUS
<1>1. CASE Crash
  <2>1. /\ UNCHANGED <<addon, conf, temp, kept, recovered, boots, faults, nextTree,
                       recoverFailed, torn, displaced, refused>>
        /\ phase' = "down" /\ used' = {} /\ job' = NoJob /\ pc' = "idle"
        /\ fetched' = Foreign /\ extracted' = {} /\ toRemove' = {} /\ todo' = {} /\ rec' = 0
        /\ late' = {} /\ slip' = FALSE
    BY <1>1 DEF Crash, confVars
  <2>2. CASE UNCHANGED <<txnVars, tornBackup>>
    BY <2>1, <2>2, QuietWhole
       DEF DiskTypeOK, EngineTypeOK, HistoryTypeOK, Steps, Artifacts, PhaseInv, UninstallInv,
           InstallInv, Installing, txnVars
  <2>3. CASE \E i \in Ids : CutShort(i)
    <3>1. PICK i \in Ids : CutShort(i)
      BY <2>3
    <3>2. /\ journal' \in [Ids -> Journals \cup {NoJournal}]
          /\ staging' \in [Ids -> Dirs \cup {NoDir}]
          /\ backup' \in [Ids -> Dirs \cup {NoDir}]
          /\ confBackup' \in [Ids -> Nat]
          /\ tornBackup' \in SUBSET Ids /\ tornBackup \subseteq tornBackup'
          /\ \A k \in Ids : backup'[k] \in {backup[k], NoDir} \/ k \in tornBackup'
      BY <3>1, RemovalType DEF HistoryTypeOK
    <3>3. DiskTypeOK' /\ HistoryTypeOK' /\ AddonsWhole' /\ BackupsWhole'
      BY <2>1, <3>2, QuietWhole DEF DiskTypeOK, HistoryTypeOK
    <3>4. EngineTypeOK' /\ PhaseInv' /\ UninstallInv' /\ InstallInv'
      BY <2>1 DEF EngineTypeOK, Steps, Artifacts, PhaseInv, UninstallInv, InstallInv, Installing
    <3> QED
      BY <3>3, <3>4
  <2> QED
    BY <1>1, <2>2, <2>3 DEF Crash
<1>2. CASE Boot
  <2>1. /\ UNCHANGED <<disk, used, job, pc, fetched, extracted, toRemove, rec, faults, nextTree,
                       recoverFailed, torn, tornBackup, late, slip, displaced, refused>>
        /\ phase = "down" /\ phase' = "recovering" /\ boots' = boots + 1 /\ todo' \subseteq Ids
    BY <1>2 DEF Boot
  <2>2. job = NoJob /\ toRemove = {}
    BY <2>1 DEF PhaseInv
  <2>3. DiskTypeOK' /\ EngineTypeOK' /\ HistoryTypeOK'
    BY <2>1 DEF DiskTypeOK, EngineTypeOK, HistoryTypeOK, disk
  <2>4. AddonsWhole' /\ BackupsWhole'
    BY <2>1, QuietWhole DEF disk
  <2>5. PhaseInv' /\ UninstallInv' /\ InstallInv'
    BY <2>1, <2>2 DEF PhaseInv, UninstallInv, InstallInv, Installing
  <2> QED
    BY <2>3, <2>4, <2>5
<1> QED
  BY <1>1, <1>2

\* Recovery puts a directory back as it was moved aside, whole or torn.
LEMMA RecoverStepInv == IInv /\ RecoverStep => IInv'
<1> USE DEF IInv, TypeOK
<1> SUFFICES ASSUME IInv, RecoverStep PROVE IInv'
  OBVIOUS
<1>1. phase = "recovering" /\ job = NoJob /\ toRemove = {}
  BY DEF RecoverStep, RecoverAddon, RecoverSettings, RecoverNothing, RecoverRemove, RecoverDone,
         Visit, PhaseInv
<1>2. /\ UNCHANGED <<temp, kept, used, job, fetched, extracted, toRemove, boots, nextTree,
                     late, slip>>
      /\ phase' \in {"recovering", "up"} /\ recoverFailed' \in BOOLEAN
      /\ faults' \in {faults, faults + 1} /\ pc' \in {"idle", "clear"}
  <2>1. CASE \E k \in Ids : RecoverAddon(k)
    BY <1>1, <2>1 DEF RecoverAddon, GiveUp, Visit, Works, Fails, confVars, HistoryTypeOK
  <2>2. CASE \E k \in Ids : RecoverSettings(k)
    BY <1>1, <2>2 DEF RecoverSettings, GiveUp, Visit, Works, Fails, HistoryTypeOK
  <2>3. CASE \E k \in Ids : RecoverNothing(k)
    BY <1>1, <2>3 DEF RecoverNothing, Visit, disk, history, HistoryTypeOK
  <2>4. CASE RecoverRemove
    BY <1>1, <2>4 DEF RecoverRemove, GiveUp, Works, Fails, confVars, HistoryTypeOK
  <2>5. CASE RecoverDone
    BY <1>1, <2>5 DEF RecoverDone, disk, history, HistoryTypeOK
  <2> QED
    BY <2>1, <2>2, <2>3, <2>4, <2>5 DEF RecoverStep
<1>3. PhaseInv' /\ UninstallInv' /\ InstallInv'
  <2>1. pc' = "clear" => rec' \in Ids
    BY <1>1 DEF RecoverStep, RecoverAddon, RecoverSettings, RecoverNothing, RecoverRemove,
                RecoverDone, Visit, GiveUp
  <2> QED
    BY <1>1, <1>2, <2>1 DEF PhaseInv, UninstallInv, InstallInv, Installing
<1>4. todo' \in SUBSET Ids /\ rec' \in Ids \cup {0}
  BY DEF RecoverStep, RecoverAddon, RecoverSettings, RecoverNothing, RecoverRemove, RecoverDone,
         Visit, GiveUp, EngineTypeOK
<1>5. EngineTypeOK'
  BY <1>2, <1>4 DEF EngineTypeOK, Steps
<1>6. CASE \E k \in Ids : RecoverAddon(k)
  <2>1. PICK k \in Ids : RecoverAddon(k)
    BY <1>6
  <2>2. /\ UNCHANGED <<conf, temp, kept, recovered, journal, staging, confBackup, tornBackup,
                       displaced, refused>>
        /\ journal[k] # NoJournal
        /\ UNCHANGED <<addon, backup, torn>> \/ PutBack(k, journal[k].pkg)
    BY <2>1 DEF RecoverAddon, confVars
  <2>3. journal[k].pkg \in Addons
    BY <2>2 DEF DiskTypeOK, Journals
  <2>4. /\ addon' \in [Addons -> Dirs \cup {NoDir}] /\ backup' \in [Ids -> Dirs \cup {NoDir}]
        /\ torn' \in SUBSET Addons
        /\ AddonsWhole' /\ BackupsWhole'
    <3>1. CASE UNCHANGED <<addon, backup, torn>>
      BY <2>2, <3>1, QuietWhole DEF DiskTypeOK, HistoryTypeOK
    <3>2. CASE PutBack(k, journal[k].pkg)
      BY <2>2, <2>3, <3>2, PutBackWhole
    <3> QED
      BY <2>2, <3>1, <3>2
  <2>5. DiskTypeOK'
    BY <2>2, <2>4 DEF DiskTypeOK
  <2>6. HistoryTypeOK'
    BY <1>2, <2>2, <2>4 DEF HistoryTypeOK
  <2> QED
    BY <1>3, <1>5, <2>4, <2>5, <2>6
<1>7. CASE \E k \in Ids : RecoverSettings(k)
  <2>1. PICK k \in Ids : RecoverSettings(k)
    BY <1>7
  <2> DEFINE p == journal[k].pkg
             own == [recovered[k] EXCEPT ![p] = confBackup[k]]
  <2>2. /\ UNCHANGED <<addon, temp, kept, journal, staging, backup, torn, tornBackup>>
        /\ journal[k] # NoJournal
    BY <2>1 DEF RecoverSettings
  <2>3. p \in Addons /\ confBackup[k] \in Nat /\ recovered[k] \in [Addons -> Nat]
    BY <2>2 DEF DiskTypeOK, Journals
  <2>4. own \in [Addons -> Nat]
    BY <2>3
  <2>5. /\ conf' \in {conf, [conf EXCEPT ![p] = confBackup[k]]}
        /\ confBackup' \in {confBackup, [confBackup EXCEPT ![k] = 0]}
        /\ recovered' \in {recovered, [recovered EXCEPT ![k] = own]}
        /\ displaced' \in {displaced, displaced \ {confBackup[k]}}
        /\ refused' \in {refused, refused \ {confBackup[k]}}
    BY <2>1 DEF RecoverSettings
  <2> HIDE DEF own
  <2>6. /\ conf' \in [Addons -> Nat] /\ confBackup' \in [Ids -> Nat]
        /\ displaced' \in SUBSET Nat /\ refused' \in SUBSET Nat
    <3>1. [conf EXCEPT ![p] = confBackup[k]] \in [Addons -> Nat]
          /\ [confBackup EXCEPT ![k] = 0] \in [Ids -> Nat]
      BY <2>3 DEF DiskTypeOK
    <3> QED
      BY <2>5, <3>1 DEF DiskTypeOK, HistoryTypeOK
  <2>7. recovered' \in [Ids -> [Addons -> Nat]]
    BY <2>4, <2>5 DEF DiskTypeOK
  <2>8. DiskTypeOK' /\ AddonsWhole' /\ BackupsWhole'
    BY <2>2, <2>6, <2>7, QuietWhole DEF DiskTypeOK
  <2>9. HistoryTypeOK'
    BY <1>2, <2>2, <2>6 DEF HistoryTypeOK
  <2> QED
    BY <1>3, <1>5, <2>8, <2>9
<1>8. CASE RecoverRemove
  <2>1. /\ UNCHANGED <<addon, conf, temp, kept, recovered, torn, displaced, refused>>
        /\ rec \in Ids
        /\ CutShort(rec) \/ (Leave(rec, {}, NoDir) /\ UNCHANGED tornBackup)
    BY <1>8 DEF RecoverRemove, confVars, PhaseInv
  <2>2. /\ journal' \in [Ids -> Journals \cup {NoJournal}]
        /\ staging' \in [Ids -> Dirs \cup {NoDir}]
        /\ backup' \in [Ids -> Dirs \cup {NoDir}]
        /\ confBackup' \in [Ids -> Nat]
        /\ tornBackup' \in SUBSET Ids /\ tornBackup \subseteq tornBackup'
        /\ \A k \in Ids : backup'[k] \in {backup[k], NoDir} \/ k \in tornBackup'
    BY <2>1, RemovalType DEF HistoryTypeOK
  <2>3. DiskTypeOK'
    BY <1>2, <2>1, <2>2 DEF DiskTypeOK
  <2>4. HistoryTypeOK'
    BY <1>2, <2>1, <2>2 DEF HistoryTypeOK
  <2> QED
    BY <1>3, <1>5, <2>1, <2>2, <2>3, <2>4, QuietWhole
<1>9. CASE (\E k \in Ids : RecoverNothing(k)) \/ RecoverDone
  <2>1. /\ UNCHANGED <<disk, torn, tornBackup, displaced, refused>>
    BY <1>9 DEF RecoverNothing, RecoverDone, history
  <2>2. DiskTypeOK' /\ HistoryTypeOK' /\ AddonsWhole' /\ BackupsWhole'
    BY <1>2, <2>1, QuietWhole DEF disk, DiskTypeOK, HistoryTypeOK
  <2> QED
    BY <1>3, <1>5, <2>2
<1> QED
  BY <1>6, <1>7, <1>8, <1>9 DEF RecoverStep

\* Addons write only files that VanaHub does not own.
LEMMA EnvironmentInv == IInv /\ EnvironmentStep => IInv'
<1> USE DEF IInv, TypeOK
<1> SUFFICES ASSUME IInv, EnvironmentStep PROVE IInv'
  OBVIOUS
<1>1. ASSUME NEW p \in Addons, AddonWritesSettings(p) PROVE IInv'
  <2>1. /\ UNCHANGED <<addon, temp, kept, recovered, txnVars, engine, boots, faults,
                       recoverFailed, torn, tornBackup, late, slip, displaced, refused>>
        /\ nextTree' = nextTree + 1 /\ conf' = [conf EXCEPT ![p] = nextTree]
    BY <1>1 DEF AddonWritesSettings, FreshTree
  <2>2. DiskTypeOK' /\ EngineTypeOK' /\ HistoryTypeOK'
    BY <2>1 DEF DiskTypeOK, EngineTypeOK, HistoryTypeOK, txnVars, engine
  <2>3. AddonsWhole' /\ BackupsWhole'
    BY <2>1, QuietWhole DEF txnVars
  <2>4. PhaseInv' /\ UninstallInv' /\ InstallInv'
    BY <2>1 DEF PhaseInv, UninstallInv, InstallInv, Installing, Uninstalling, txnVars, engine
  <2> QED
    BY <2>2, <2>3, <2>4
<1>2. ASSUME NEW p \in Addons, NEW f \in Files, AddonWritesFile(p, f) PROVE IInv'
  <2>1. /\ UNCHANGED <<confVars, txnVars, engine, boots, faults, nextTree, recoverFailed, torn,
                       tornBackup, slip, displaced, refused>>
        /\ late' \in {late, late \cup {f}}
        /\ addon[p] # NoDir /\ f \notin addon[p].owned
        /\ addon' = [addon EXCEPT ![p].file[f] = "user"]
    BY <1>2 DEF AddonWritesFile
  <2> DEFINE new == [addon[p] EXCEPT !.file[f] = "user"]
  <2>2. addon[p] \in Dirs
    BY <2>1 DEF DiskTypeOK
  <2>3. new \in Dirs /\ (Whole(addon[p]) => Whole(new))
    BY <2>1, <2>2, WriteUntracked DEF Content
  <2>4. addon' = [addon EXCEPT ![p] = new]
    BY <2>1
  <2> HIDE DEF new
  <2>5. \A q \in Addons : addon'[q] = IF q = p THEN new ELSE addon[q]
    BY <2>4 DEF DiskTypeOK
  <2>6. DiskTypeOK'
    BY <2>1, <2>3, <2>4 DEF DiskTypeOK, confVars, txnVars
  <2>7. EngineTypeOK' /\ HistoryTypeOK'
    BY <2>1 DEF EngineTypeOK, HistoryTypeOK, engine
  <2>8. AddonsWhole'
    BY <2>1, <2>3, <2>5 DEF AddonsWhole
  <2>9. BackupsWhole'
    BY <2>1 DEF BackupsWhole, txnVars
  <2>10. PhaseInv' /\ InstallInv'
    BY <2>1 DEF PhaseInv, InstallInv, Installing, txnVars, engine
  <2>11. UninstallInv'
    <3>1. \A q \in Addons : addon[q] # NoDir => addon'[q] # NoDir
      BY <2>3, <2>5, ConstantsAssumption
    <3> QED
      BY <2>1, <3>1 DEF UninstallInv, Uninstalling, engine, EngineTypeOK, Jobs
  <2> QED
    BY <2>6, <2>7, <2>8, <2>9, <2>10, <2>11
<1> QED
  BY <1>1, <1>2 DEF EnvironmentStep
-----------------------------------------------------------------------------
\* A step that changes nothing keeps the invariant.
LEMMA StutterInv == IInv /\ UNCHANGED vars => IInv'
BY QuietWhole DEF IInv, TypeOK, DiskTypeOK, EngineTypeOK, HistoryTypeOK, PhaseInv, InstallInv,
   UninstallInv, Installing, Uninstalling, vars, disk, engine, history

\* Every step keeps the invariant.
LEMMA InvStep == IInv /\ [Next]_vars => IInv'
BY StartJobInv, OpenInv, FetchInv, BackUpAddonInv, CommitAddonInv, RollBackAddonInv, CleanUpInv,
   UninstallStepInv, RestoreStepInv, CrashInv, RecoverStepInv, EnvironmentInv, StutterInv
   DEF Next, InstallStep

\* The inductive invariant holds in every reachable state.
THEOREM Invariance == Spec => []IInv
BY InitInv, InvStep, PTL DEF Spec

\* Type correctness: every variable stays in its type, in particular the
\* EXCEPT updates never touch a directory that is not there.
THEOREM TypeCorrect == Spec => []TypeOK
<1>1. IInv => TypeOK
  BY DEF IInv
<1> QED
  BY <1>1, Invariance, PTL

\* Whatever crashes, failing file-system calls, silent ends of an archive, reused job
\* ids and recoveries that gave up there have been, an addon directory is a whole
\* verified version, with three exceptions: an uninstall of it has begun; the install
\* that committed it had not seen that files or owned names were missing (slip); or it
\* was put back from a backup that was itself torn, cut short or another job's
\* (tornBackup).  No step but these leaves a mixture or files of another archive.
THEOREM AddonsStayWhole == Spec => []AddonsWhole
<1>1. IInv => AddonsWhole
  BY DEF IInv
<1> QED
  BY <1>1, Invariance, PTL
-----------------------------------------------------------------------------
(* What a job has done at each of its steps                                 *)

\* The steps of each operation.
JobSteps ==
  [install   |-> {"open", "journal", "download", "hash", "inspect", "preserve", "backup",
                  "commit", "rollback", "cleanup", "abort"},
   uninstall |-> {"list", "remove", "rmdir"},
   restore   |-> {"stage", "open", "copy", "journal", "backup", "commit", "discard", "drop",
                  "rollback", "putback", "retain", "cleanup", "abort"}]

\* Who is at which step.  An install rolls back after a failed call only.
StepInv ==
  /\ phase = "down" => pc = "idle" /\ rec = 0
  /\ phase = "recovering" => (pc = "idle" /\ rec = 0) \/ (pc = "clear" /\ rec \in Ids)
  /\ job # NoJob => pc \in JobSteps[job.op]
  /\ job = NoJob => pc \in {"idle", "clear"}
  /\ Installing /\ pc = "rollback" => faults > 0

\* The first session has not begun.
LEMMA StepInit == Init => StepInv
BY DEF Init, StepInv, Installing

\* No step takes a fault back.
LEMMA FaultsGrow == ASSUME IInv, [Next]_vars PROVE faults' \in Nat /\ faults' >= faults
<1> USE DEF IInv, TypeOK, HistoryTypeOK
<1>1. CASE InstallStep \/ CleanUp
  BY <1>1 DEF InstallStep, OpenTransaction, WriteJournal, Download, VerifyHash, Inspect,
              PreserveUntracked, BackUpAddon, CommitAddon, RollBackAddon, CleanUp,
              RemoveTransaction, Works, Fails, history
<1>2. CASE UninstallStep
  <2>1. CASE RemoveOwned
    <3>1. Works \/ Fails
      BY <2>1, Zenon DEF RemoveOwned
    <3> QED
      BY <3>1 DEF Works, Fails
  <2> QED
    BY <1>2, <2>1 DEF UninstallStep, ListOwned, RemoveMarker, RemoveDirectory, Works, Fails
<1>3. CASE RestoreStep
  BY <1>3 DEF RestoreStep, StageSettings, RemoveCopy, CopySettings, BackUpSettings,
              CommitSettings, DropCopy, PutBackSettings, RetainSettings, Works, Fails
<1>4. CASE RecoverStep
  BY <1>4 DEF RecoverStep, RecoverAddon, RecoverSettings, RecoverNothing, RecoverRemove,
              RecoverDone, Works, Fails, history
<1>5. CASE StartJob \/ Crash \/ Boot \/ EnvironmentStep \/ UNCHANGED vars
  BY <1>5 DEF StartJob, Crash, Boot, EnvironmentStep, AddonWritesFile, AddonWritesSettings, vars,
              history
<1> QED
  BY <1>1, <1>2, <1>3, <1>4, <1>5 DEF Next

\* The step an operation takes next.
LEMMA NextPc ==
  ASSUME InstallStep \/ UninstallStep \/ RestoreStep \/ CleanUp
  PROVE  /\ phase = "up" /\ phase' = "up" /\ job # NoJob
         /\ UNCHANGED rec
         /\ \/ job' = job
            \/ job' = NoJob /\ pc' = "idle"
<1>1. CASE InstallStep
  BY <1>1 DEF InstallStep, OpenTransaction, WriteJournal, Download, VerifyHash, Inspect,
              PreserveUntracked, BackUpAddon, CommitAddon, RollBackAddon, At, Goto, Finish
<1>2. CASE UninstallStep
  <2>1. CASE RemoveOwned
    BY <2>1, Zenon DEF RemoveOwned, At
  <2> QED
    BY <1>2, <2>1 DEF UninstallStep, ListOwned, RemoveMarker, RemoveDirectory, At, Goto, Finish
<1>3. CASE RestoreStep
  BY <1>3 DEF RestoreStep, StageSettings, CopySettings, BackUpSettings, CommitSettings, DropCopy,
              PutBackSettings, RetainSettings, At, Goto, Finish
<1>4. CASE CleanUp
  BY <1>4 DEF CleanUp, Finish
<1> QED
  BY <1>1, <1>2, <1>3, <1>4

\* Every step goes to a step of the same operation.
LEMMA StepStep == IInv /\ StepInv /\ [Next]_vars => StepInv'
<1> USE DEF StepInv, Installing
<1> SUFFICES ASSUME IInv, StepInv, [Next]_vars PROVE StepInv'
  OBVIOUS
<1>0. faults' \in Nat /\ faults' >= faults /\ faults \in Nat
  BY FaultsGrow DEF IInv, TypeOK, HistoryTypeOK
<1>1. CASE StartJob
  <2>1. /\ phase = "up" /\ phase' = "up" /\ job' \in Jobs /\ job' # NoJob
        /\ pc' = First[job'.op] /\ rec' = rec
    BY <1>1, ConstantsAssumption DEF StartJob
  <2>2. job'.op \in {"install", "uninstall", "restore"}
    BY <2>1 DEF Jobs
  <2> QED
    BY <2>1, <2>2 DEF JobSteps, First
<1>2. CASE InstallStep \/ UninstallStep \/ RestoreStep \/ CleanUp
  <2>1. /\ phase = "up" /\ phase' = "up" /\ job # NoJob
        /\ job' = job \/ (job' = NoJob /\ pc' = "idle")
    BY <1>2, NextPc
  <2>2. ASSUME job' = job
        PROVE  pc' \in JobSteps[job.op] /\ (Installing /\ pc' = "rollback" => faults' > 0)
    <3>1. CASE InstallStep
      BY <1>0, <2>1, <2>2, <3>1
         DEF InstallStep, OpenTransaction, WriteJournal, Download, VerifyHash, Inspect,
             PreserveUntracked, BackUpAddon, CommitAddon, RollBackAddon, At, Goto, Finish, Fails,
             JobSteps
    <3>2. CASE UninstallStep
      <4>1. CASE RemoveOwned
        BY <4>1, <2>1, <1>0 DEF RemoveOwned, At, JobSteps
      <4> QED
        BY <3>2, <4>1, <2>1, <2>2 DEF UninstallStep, ListOwned, RemoveMarker, RemoveDirectory,
           At, Goto, Finish, JobSteps
    <3>3. CASE RestoreStep
      BY <2>1, <2>2, <3>3 DEF RestoreStep, StageSettings, CopySettings, BackUpSettings,
         CommitSettings, DropCopy, PutBackSettings, RetainSettings, At, Goto, Finish, JobSteps
    <3>4. CASE CleanUp
      BY <2>1, <2>2, <3>4 DEF CleanUp, Finish
    <3> QED
      BY <1>2, <3>1, <3>2, <3>3, <3>4
  <2> QED
    BY <2>1, <2>2
<1>3. CASE Crash \/ Boot
  BY <1>3 DEF Crash, Boot, IInv, PhaseInv
<1>4. CASE RecoverStep
  BY <1>4 DEF RecoverStep, RecoverAddon, RecoverSettings, RecoverNothing, RecoverRemove,
     RecoverDone, Visit, GiveUp, IInv, PhaseInv
<1>5. CASE EnvironmentStep
  BY <1>5, <1>0 DEF EnvironmentStep, AddonWritesFile, AddonWritesSettings, engine
<1>6. CASE UNCHANGED vars
  BY <1>6 DEF vars, engine, history
<1> QED
  BY <1>1, <1>2, <1>3, <1>4, <1>5, <1>6 DEF Next

\* The transaction of a running install: the addon is in at most one of its two
\* places.  While no call has failed the transaction has its journal, and holds
\* nothing that the job did not put there.
InstallTxn ==
  Installing =>
    /\ pc = "commit" => addon[job.pkg] = NoDir
    /\ pc = "cleanup" => addon[job.pkg] # NoDir
    /\ faults = 0 =>
         /\ pc \notin {"open", "journal"} => journal[job.id] = JournalOf(job)
         /\ pc # "open" => confBackup[job.id] = 0
         /\ pc \notin {"open", "commit", "rollback", "cleanup"} => backup[job.id] = NoDir
         /\ pc \in {"journal", "download", "hash", "inspect"} => staging[job.id] = NoDir
         /\ pc = "preserve" => /\ staging[job.id] = Extracted(NoDir, job.ver, Contents[job.ver])
                               /\ extracted = Contents[job.ver]

Restoring == job # NoJob /\ job.op = "restore"

\* The transaction of a running restore: without a fault its clean-up finds the
\* old settings moved out, refused, or the place they go to already taken.
RestoreTxn ==
  Restoring /\ faults = 0 =>
    /\ pc \notin {"stage", "open"} => backup[job.id] = NoDir
    /\ pc \in {"copy", "journal", "discard", "backup"} => confBackup[job.id] = 0
    /\ pc \notin {"stage", "open", "copy", "journal", "discard"} => journal[job.id] = JournalOf(job)
    /\ pc # "drop"
    /\ pc = "cleanup" => confBackup[job.id] = 0 \/ kept[job.id][job.pkg] # 0
    /\ pc = "abort" => confBackup[job.id] = 0 \/ confBackup[job.id] \in refused

\* A running uninstall has removed every owned file that it no longer lists.
UninstallTxn ==
  Uninstalling /\ addon[job.pkg] # NoDir =>
    /\ toRemove \subseteq addon[job.pkg].owned
    /\ pc = "remove" /\ faults = 0 =>
         \A f \in addon[job.pkg].owned \ toRemove : addon[job.pkg].file[f] = "absent"

\* A step that is not one of a job leaves the job and its step as they are, or
\* ends it.
LEMMA OtherSteps ==
  ASSUME IInv, Crash \/ Boot \/ RecoverStep \/ UNCHANGED vars
  PROVE  job' = NoJob \/ UNCHANGED vars
<1>1. CASE Crash
  BY <1>1 DEF Crash
<1>2. CASE Boot
  BY <1>2 DEF Boot, IInv, PhaseInv
<1>3. CASE RecoverStep
  <2>1. phase = "recovering" /\ job' = job
    BY <1>3 DEF RecoverStep, RecoverAddon, RecoverSettings, RecoverNothing, RecoverRemove,
                RecoverDone, Visit, GiveUp
  <2> QED
    BY <2>1 DEF IInv, PhaseInv
<1> QED
  BY <1>1, <1>2, <1>3

\* An addon that writes a file keeps its directory and the list of owned files.
LEMMA WrittenFile ==
  ASSUME IInv, NEW p \in Addons, NEW f \in Files, AddonWritesFile(p, f)
  PROVE  /\ UNCHANGED <<confVars, txnVars, engine, boots, faults, nextTree, recoverFailed, torn,
                        tornBackup, slip, displaced, refused>>
         /\ addon[p] \in Dirs /\ f \notin addon[p].owned /\ addon[p].file[f] = "absent"
         /\ addon'[p] \in Dirs /\ addon'[p].owned = addon[p].owned
         /\ addon'[p].file = [addon[p].file EXCEPT ![f] = "user"]
         /\ \A q \in Addons \ {p} : addon'[q] = addon[q]
         /\ \A q \in Addons : addon'[q] = NoDir <=> addon[q] = NoDir
<1>1. /\ UNCHANGED <<confVars, txnVars, engine, boots, faults, nextTree, recoverFailed, torn,
                     tornBackup, slip, displaced, refused>>
      /\ addon[p] # NoDir /\ f \notin addon[p].owned /\ addon[p].file[f] = "absent"
      /\ addon' = [addon EXCEPT ![p].file[f] = "user"]
  BY DEF AddonWritesFile
<1> DEFINE new == [addon[p] EXCEPT !.file[f] = "user"]
<1>2. addon[p] \in Dirs /\ addon \in [Addons -> Dirs \cup {NoDir}]
  BY <1>1 DEF IInv, TypeOK, DiskTypeOK
<1>3. new \in Dirs
  BY <1>2, WriteUntracked DEF Content
<1>4. new.owned = addon[p].owned /\ new.file = [addon[p].file EXCEPT ![f] = "user"]
  BY <1>2 DEF Dirs
<1>5. addon' = [addon EXCEPT ![p] = new]
  BY <1>1
<1> HIDE DEF new
<1>6. \A q \in Addons : addon'[q] = IF q = p THEN new ELSE addon[q]
  BY <1>2, <1>5
<1> QED
  BY <1>1, <1>2, <1>3, <1>4, <1>6, ConstantsAssumption

\* Each step of an install leaves its transaction ready for the next.
LEMMA InstallTxnStep ==
  ASSUME IInv, StepInv, InstallTxn, [Next]_vars PROVE InstallTxn'
<1> USE DEF InstallTxn, Installing
<1>0. /\ Installing => job \in Jobs /\ job.id \in Ids /\ job.pkg \in Addons
      /\ faults' = 0 => faults = 0
      /\ faults \in Nat
      /\ addon \in [Addons -> Dirs \cup {NoDir}] /\ journal \in [Ids -> Journals \cup {NoJournal}]
      /\ staging \in [Ids -> Dirs \cup {NoDir}] /\ backup \in [Ids -> Dirs \cup {NoDir}]
      /\ confBackup \in [Ids -> Nat]
  BY FaultsGrow DEF IInv, TypeOK, EngineTypeOK, HistoryTypeOK, DiskTypeOK, Jobs
<1>1. CASE StartJob
  <2>1. job'.op = "install" => pc' = "open"
    BY <1>1 DEF StartJob, First, Jobs
  <2> QED
    BY <2>1
<1>2. CASE InstallStep /\ Installing
  <2>0. job' = job \/ job' = NoJob
    BY <1>2, NextPc
  <2>1. CASE OpenTransaction
    <3>1. /\ pc' = "journal" /\ UNCHANGED <<addon, job>>
          /\ faults' = 0 => Leave(job.id, {}, NoDir)
      BY <1>0, <1>2, <2>1 DEF OpenTransaction, At, Goto, Fails
    <3> QED
      BY <1>0, <1>2, <3>1 DEF Leave
  <2>2. CASE WriteJournal
    <3>1. /\ pc' = "download" /\ UNCHANGED <<addon, job, staging, backup, confBackup>>
          /\ pc = "journal"
          /\ faults' = 0 => journal' = [journal EXCEPT ![job.id] = JournalOf(job)]
      BY <1>0, <1>2, <2>2 DEF WriteJournal, At, Goto, Fails
    <3> QED
      BY <1>0, <1>2, <3>1 DEF JournalOf
  <2>3. CASE Download \/ VerifyHash
    <3>1. /\ UNCHANGED <<addon, journal, staging, backup, confBackup, job, faults>>
          /\ pc \in {"download", "hash"} /\ pc' \in {"hash", "inspect", "abort"}
      BY <2>3 DEF Download, VerifyHash, At, Goto, disk, history
    <3> QED
      BY <1>0, <1>2, <3>1 DEF JournalOf
  <2>4. CASE Inspect
    <3>1. /\ UNCHANGED <<addon, journal, backup, confBackup, job>> /\ pc = "inspect"
          /\ pc' \in {"abort", "preserve"}
      BY <2>4 DEF Inspect, At, Goto
    <3>2. ASSUME faults' = 0, pc' = "preserve"
          PROVE  /\ staging'[job.id] = Extracted(NoDir, job.ver, Contents[job.ver])
                 /\ extracted' = Contents[job.ver]
      <4>1. /\ extracted' = Contents[fetched]
            /\ staging' = [staging EXCEPT ![job.id] = Extracted(@, fetched, Contents[fetched])]
        BY <1>0, <2>4, <3>2 DEF Inspect, Goto, Fails
      <4>2. fetched = job.ver /\ staging[job.id] = NoDir
        BY <1>0, <1>2, <3>1, <3>2 DEF IInv, InstallInv
      <4> QED
        BY <1>0, <1>2, <4>1, <4>2
    <3> QED
      BY <1>0, <1>2, <3>1, <3>2 DEF JournalOf
  <2>5. CASE PreserveUntracked
    <3>1. /\ UNCHANGED <<addon, journal, backup, confBackup, job>> /\ pc = "preserve"
          /\ pc' = "backup"
      BY <2>5 DEF PreserveUntracked, At, Goto
    <3> QED
      BY <1>0, <1>2, <3>1 DEF JournalOf
  <2>6. CASE BackUpAddon
    <3>1. /\ UNCHANGED <<journal, confBackup>> /\ pc = "backup"
          /\ job' = job => addon'[job.pkg] = NoDir /\ pc' = "commit"
      BY <1>0, <1>2, <2>6 DEF BackUpAddon, At, Goto, Finish
    <3> QED
      BY <1>0, <1>2, <2>0, <3>1 DEF JournalOf
  <2>7. CASE CommitAddon
    <3>1. /\ UNCHANGED <<journal, backup, confBackup, job>> /\ pc = "commit"
          /\ pc' \in {"cleanup", "rollback"}
          /\ pc' = "cleanup" => addon' = [addon EXCEPT ![job.pkg] = staging[job.id]]
      BY <2>7 DEF CommitAddon, At, Goto
    <3>2. staging[job.id] # NoDir
      BY <1>2, <3>1 DEF IInv, InstallInv
    <3> QED
      BY <1>0, <1>2, <3>1, <3>2 DEF JournalOf
  <2>8. CASE RollBackAddon
    BY <2>8 DEF RollBackAddon, Finish
  <2> QED
    BY <1>2, <2>1, <2>2, <2>3, <2>4, <2>5, <2>6, <2>7, <2>8 DEF InstallStep
<1>3. CASE UninstallStep \/ RestoreStep \/ CleanUp \/ (InstallStep /\ ~Installing)
  <2>1. job' = job \/ job' = NoJob
    BY <1>3, NextPc
  <2>2. CleanUp => job' = NoJob
    BY DEF CleanUp, Finish
  <2>3. UninstallStep \/ RestoreStep => ~Installing
    BY DEF UninstallStep, ListOwned, RemoveOwned, RemoveMarker, RemoveDirectory,
       RestoreStep, StageSettings, CopySettings, BackUpSettings, CommitSettings, DropCopy,
       PutBackSettings, RetainSettings, At
  <2> QED
    BY <1>3, <2>1, <2>2, <2>3
<1>4. ASSUME NEW p \in Addons, AddonWritesSettings(p) PROVE InstallTxn'
  BY <1>4 DEF AddonWritesSettings, txnVars, engine, JournalOf
<1>5. ASSUME NEW p \in Addons, NEW f \in Files, AddonWritesFile(p, f) PROVE InstallTxn'
  <2>1. /\ UNCHANGED <<txnVars, engine, faults>>
        /\ \A q \in Addons : addon'[q] = NoDir <=> addon[q] = NoDir
    BY <1>5, WrittenFile
  <2> QED
    BY <1>0, <2>1 DEF txnVars, engine, JournalOf
<1>6. CASE Crash \/ Boot \/ RecoverStep \/ UNCHANGED vars
  <2>1. job' = NoJob \/ UNCHANGED <<addon, journal, staging, backup, confBackup, job, pc,
                                    extracted, faults>>
    BY <1>6, OtherSteps DEF vars, engine, disk, history
  <2> QED
    BY <2>1 DEF JournalOf
<1> QED
  BY <1>1, <1>2, <1>3, <1>4, <1>5, <1>6 DEF Next, EnvironmentStep

\* Each step of a restore leaves its transaction ready for the next.
LEMMA RestoreTxnStep ==
  ASSUME IInv, StepInv, RestoreTxn, [Next]_vars PROVE RestoreTxn'
<1> USE DEF RestoreTxn, Restoring
<1> SUFFICES ASSUME Restoring', faults' = 0 PROVE RestoreTxn'
  OBVIOUS
<1>0. /\ job # NoJob => job \in Jobs /\ job.id \in Ids /\ job.pkg \in Addons
      /\ faults = 0 /\ faults' = faults
      /\ conf \in [Addons -> Nat] /\ journal \in [Ids -> Journals \cup {NoJournal}]
      /\ backup \in [Ids -> Dirs \cup {NoDir}]
      /\ confBackup \in [Ids -> Nat] /\ kept \in [Ids -> [Addons -> Nat]]
  BY FaultsGrow DEF IInv, TypeOK, EngineTypeOK, HistoryTypeOK, DiskTypeOK, Jobs
<1>1. CASE StartJob
  <2>1. job'.op = "restore" => pc' = "stage"
    BY <1>1 DEF StartJob, First, Jobs
  <2> QED
    BY <2>1
<1>2. ASSUME job' = job, Restoring, InstallStep \/ RestoreStep PROVE RestoreTxn'
  <2>1. CASE OpenTransaction
    <3>1. pc' = "copy" /\ Leave(job.id, {}, NoDir)
      BY <1>0, <1>2, <2>1 DEF OpenTransaction, At, Goto, Fails
    <3> QED
      BY <1>0, <1>2, <3>1 DEF Leave
  <2>2. CASE WriteJournal
    <3>1. /\ pc = "journal" /\ pc' = "backup" /\ UNCHANGED <<backup, confBackup>>
          /\ journal' = [journal EXCEPT ![job.id] = JournalOf(job)]
      BY <1>0, <1>2, <2>2 DEF WriteJournal, At, Goto, Fails
    <3> QED
      BY <1>0, <1>2, <3>1 DEF JournalOf
  <2>3. CASE StageSettings \/ CopySettings
    <3>1. /\ UNCHANGED <<backup, confBackup, journal>>
          /\ \/ pc = "stage" /\ pc' = "open"
             \/ pc = "copy" /\ pc' \in {"journal", "discard"}
      BY <2>3 DEF StageSettings, CopySettings, At, Goto, txnVars
    <3> QED
      BY <1>0, <1>2, <3>1 DEF JournalOf
  <2>4. CASE BackUpSettings
    <3>1. /\ UNCHANGED <<backup, journal>> /\ pc = "backup" /\ pc' \in {"commit", "drop"}
          /\ confBackup[job.id] = 0 => pc' = "commit"
      BY <1>0, <2>4 DEF BackUpSettings, At, Goto, Fails
    <3> QED
      BY <1>0, <1>2, <3>1 DEF JournalOf
  <2>5. CASE CommitSettings
    <3>1. /\ UNCHANGED <<backup, journal, confBackup>> /\ pc = "commit"
          /\ pc' \in {"retain", "rollback"}
      BY <2>5 DEF CommitSettings, At, Goto, txnVars
    <3> QED
      BY <1>0, <1>2, <3>1 DEF JournalOf
  <2>6. CASE DropCopy
    <3>1. /\ UNCHANGED <<backup, journal, confBackup>> /\ pc \in {"drop", "rollback"}
          /\ pc = "rollback" => pc' = "putback"
      BY <1>2, <2>6 DEF DropCopy, At, Goto, txnVars, Finish
    <3> QED
      BY <1>0, <1>2, <3>1 DEF JournalOf
  <2>7. CASE PutBackSettings
    <3>1. /\ UNCHANGED <<backup, journal>> /\ pc = "putback" /\ pc' = "abort"
          /\ confBackup'[job.id] = 0 \/ confBackup'[job.id] \in refused'
      BY <1>0, <1>2, <2>7 DEF PutBackSettings, At, Goto, Fails
    <3> QED
      BY <1>0, <1>2, <3>1 DEF JournalOf
  <2>8. CASE RetainSettings
    <3>1. /\ UNCHANGED <<backup, journal>> /\ pc = "retain" /\ pc' = "cleanup"
          /\ confBackup'[job.id] = 0 \/ kept'[job.id][job.pkg] # 0
      BY <1>0, <1>2, <2>8 DEF RetainSettings, At, Goto, Fails
    <3> QED
      BY <1>0, <1>2, <3>1 DEF JournalOf
  <2>9. CASE InstallStep /\ ~OpenTransaction /\ ~WriteJournal
    BY <1>2, <2>9 DEF InstallStep, Download, VerifyHash, Inspect, PreserveUntracked,
       BackUpAddon, CommitAddon, RollBackAddon, At
  <2> QED
    BY <1>2, <2>1, <2>2, <2>3, <2>4, <2>5, <2>6, <2>7, <2>8, <2>9 DEF RestoreStep
<1>3. CASE UninstallStep \/ InstallStep \/ RestoreStep \/ CleanUp
  <2>1. job' = job
    BY <1>3, NextPc
  <2>2. ~UninstallStep /\ ~CleanUp
    BY <2>1 DEF UninstallStep, ListOwned, RemoveOwned, RemoveMarker, RemoveDirectory, CleanUp,
       Finish, At
  <2> QED
    BY <1>2, <1>3, <2>1, <2>2
<1>4. ASSUME NEW p \in Addons, AddonWritesSettings(p) PROVE RestoreTxn'
  BY <1>0, <1>4 DEF AddonWritesSettings, txnVars, engine, JournalOf
<1>5. ASSUME NEW p \in Addons, NEW f \in Files, AddonWritesFile(p, f) PROVE RestoreTxn'
  BY <1>0, <1>5 DEF AddonWritesFile, txnVars, engine, confVars, JournalOf
<1>6. CASE Crash \/ Boot \/ RecoverStep \/ UNCHANGED vars
  <2>1. UNCHANGED <<journal, backup, confBackup, kept, refused, job, pc, faults>>
    BY <1>6, OtherSteps DEF vars, engine, disk, history
  <2> QED
    BY <1>0, <2>1 DEF JournalOf
<1> QED
  BY <1>1, <1>3, <1>4, <1>5, <1>6 DEF Next, EnvironmentStep

\* An uninstall removes the files of its list, and no other step brings one back.
LEMMA UninstallTxnStep ==
  ASSUME IInv, StepInv, UninstallTxn, [Next]_vars PROVE UninstallTxn'
<1> USE DEF UninstallTxn, Uninstalling
<1>0. Uninstalling => job.id \in Ids /\ job.pkg \in Addons /\ addon[job.pkg] \in Dirs \cup {NoDir}
  BY DEF IInv, TypeOK, EngineTypeOK, DiskTypeOK, Jobs
<1>1. CASE StartJob
  BY <1>1, ConstantsAssumption DEF StartJob, First, Jobs, IInv, UninstallInv, engine, disk,
     history
<1>2. CASE UninstallStep
  <2>0. Uninstalling
    BY <1>2 DEF UninstallStep, ListOwned, RemoveOwned, RemoveMarker, RemoveDirectory, At
  <2>1. CASE ListOwned
    <3>1. /\ UNCHANGED <<addon, job>>
          /\ addon[job.pkg] # NoDir => toRemove' \in SUBSET addon[job.pkg].owned
          /\ faults' = 0 /\ addon[job.pkg] # NoDir => toRemove' = addon[job.pkg].owned
      BY <2>1 DEF ListOwned, Goto, disk, Fails, IInv, TypeOK, HistoryTypeOK
    <3> QED
      BY <3>1
  <2>2. CASE RemoveOwned
    <3>1. PICK f \in toRemove :
             /\ toRemove' = toRemove \ {f}
             /\ \/ Works /\ addon' = [addon EXCEPT ![job.pkg].file[f] = "absent"]
                \/ Fails /\ UNCHANGED addon
      BY <2>2 DEF RemoveOwned
    <3>2. UNCHANGED <<job, pc>> /\ pc = "remove"
      BY <2>2 DEF RemoveOwned, At
    <3>3. CASE Fails /\ UNCHANGED addon
      BY <2>0, <3>1, <3>2, <3>3 DEF Fails, IInv, TypeOK, HistoryTypeOK
    <3>4. CASE Works /\ addon' = [addon EXCEPT ![job.pkg].file[f] = "absent"]
      <4> DEFINE new == [addon[job.pkg] EXCEPT !.file[f] = "absent"]
      <4>1. addon[job.pkg] \in Dirs /\ f \in Files
        BY <1>0, <2>0 DEF IInv, UninstallInv, TypeOK, EngineTypeOK
      <4>2. new \in Dirs
        BY <4>1, WriteUntracked DEF Content
      <4>3. /\ new.owned = addon[job.pkg].owned /\ new.file[f] = "absent"
            /\ \A g \in Files \ {f} : new.file[g] = addon[job.pkg].file[g]
        BY <4>1 DEF Dirs
      <4>4. addon' = [addon EXCEPT ![job.pkg] = new]
        BY <3>4
      <4> HIDE DEF new
      <4>5. addon'[job.pkg] = new
        BY <1>0, <2>0, <4>4 DEF IInv, TypeOK, DiskTypeOK
      <4>6. new.owned \subseteq Files
        BY <4>2 DEF Dirs
      <4> QED
        BY <2>0, <3>1, <3>2, <3>4, <4>1, <4>2, <4>3, <4>5, <4>6, ConstantsAssumption DEF Works
    <3> QED
      BY <3>1, <3>3, <3>4
  <2>3. CASE RemoveMarker
    BY <1>0, <2>0, <2>3 DEF RemoveMarker, Goto, At, IInv, TypeOK, EngineTypeOK
  <2>4. CASE RemoveDirectory
    BY <2>4 DEF RemoveDirectory, Finish
  <2> QED
    BY <1>2, <2>1, <2>2, <2>3, <2>4 DEF UninstallStep
<1>3. CASE InstallStep \/ RestoreStep \/ CleanUp
  <2>1. job' = job \/ job' = NoJob
    BY <1>3, NextPc
  <2>2. job' = NoJob \/ ~Uninstalling
    BY <1>3, <2>1 DEF InstallStep, OpenTransaction, WriteJournal, Download, VerifyHash, Inspect,
       PreserveUntracked, BackUpAddon, CommitAddon, RollBackAddon, RestoreStep, StageSettings,
       CopySettings, BackUpSettings, CommitSettings, DropCopy, PutBackSettings, RetainSettings,
       CleanUp, At, Finish
  <2> QED
    BY <2>1, <2>2
<1>4. ASSUME NEW p \in Addons, AddonWritesSettings(p) PROVE UninstallTxn'
  BY <1>4 DEF AddonWritesSettings, txnVars, engine
<1>5. ASSUME NEW p \in Addons, NEW f \in Files, AddonWritesFile(p, f) PROVE UninstallTxn'
  <2>1. /\ UNCHANGED <<engine, faults>> /\ addon[p] \in Dirs
        /\ f \notin addon[p].owned /\ addon'[p].owned = addon[p].owned
        /\ addon'[p].file = [addon[p].file EXCEPT ![f] = "user"]
        /\ \A q \in Addons \ {p} : addon'[q] = addon[q]
        /\ \A q \in Addons : addon'[q] = NoDir <=> addon[q] = NoDir
    BY <1>5, WrittenFile
  <2>2. ASSUME Uninstalling, addon[job.pkg] # NoDir
        PROVE  /\ addon'[job.pkg].owned = addon[job.pkg].owned
               /\ \A g \in addon[job.pkg].owned : addon'[job.pkg].file[g] = addon[job.pkg].file[g]
    <3>1. job.pkg \in Addons
      BY <1>0, <2>2
    <3>2. CASE p # job.pkg
      BY <2>1, <3>1, <3>2
    <3>3. CASE p = job.pkg
      BY <2>1, <3>3 DEF Dirs
    <3> QED
      BY <3>2, <3>3
  <2>3. addon'[job.pkg] # NoDir /\ Uninstalling => addon[job.pkg] # NoDir
    BY <1>0, <2>1
  <2> QED
    BY <2>1, <2>2, <2>3 DEF engine
<1>6. CASE Crash \/ Boot \/ RecoverStep \/ UNCHANGED vars
  BY <1>6, OtherSteps DEF vars, engine, disk, history
<1> QED
  BY <1>1, <1>2, <1>3, <1>4, <1>5, <1>6 DEF Next, EnvironmentStep
-----------------------------------------------------------------------------
(* The transactions a crash leaves, and who takes care of them               *)

\* While no call has failed and no recovery has given up there is at most one
\* transaction directory: the running job's, or one that recovery is still to
\* visit or is removing; a job finds none before it has made its own.
LeftoverInv ==
  Trusted =>
    /\ \A i, j \in Ids : Present(i) /\ Present(j) => i = j
    /\ phase = "up" => \A i \in Ids : Present(i) => job # NoJob /\ job.id = i
    /\ phase = "recovering" =>
         \A i \in Ids : Present(i) => i \in todo \/ (pc = "clear" /\ rec = i)
    /\ Uninstalling \/ (job # NoJob /\ pc \in {"stage", "open", "copy", "journal", "discard"})
         => ~Present(job.id)

\* Nothing makes the engine trusted again.
LEMMA TrustedBefore == ASSUME IInv, [Next]_vars, Trusted' PROVE Trusted /\ faults' = faults
<1>1. faults = 0 /\ faults' = 0
  BY FaultsGrow DEF Trusted, IInv, TypeOK, HistoryTypeOK
<1>2. recoverFailed' = recoverFailed \/ recoverFailed'
  <2>1. CASE InstallStep \/ CleanUp
    BY <2>1 DEF InstallStep, OpenTransaction, WriteJournal, Download, VerifyHash, Inspect,
                PreserveUntracked, BackUpAddon, CommitAddon, RollBackAddon, CleanUp, history
  <2>2. CASE UninstallStep
    BY <2>2, Zenon DEF UninstallStep, ListOwned, RemoveOwned, RemoveMarker, RemoveDirectory
  <2>3. CASE RestoreStep
    BY <2>3 DEF RestoreStep, StageSettings, CopySettings, BackUpSettings, CommitSettings,
                DropCopy, PutBackSettings, RetainSettings
  <2>4. CASE RecoverStep
    BY <2>4 DEF RecoverStep, RecoverAddon, RecoverSettings, RecoverNothing, RecoverRemove,
                RecoverDone, GiveUp, history
  <2>5. CASE StartJob \/ Crash \/ Boot \/ EnvironmentStep \/ UNCHANGED vars
    BY <2>5 DEF StartJob, Crash, Boot, EnvironmentStep, AddonWritesFile, AddonWritesSettings,
                vars, history
  <2> QED
    BY <2>1, <2>2, <2>3, <2>4, <2>5 DEF Next
<1> QED
  BY <1>1, <1>2 DEF Trusted

\* Removing a transaction, or part of it, makes nothing present.
LEMMA RemovalPresent ==
  ASSUME IInv, NEW i \in Ids, CutShort(i) \/ Leave(i, {}, NoDir)
  PROVE  /\ \A k \in Ids : Present(k)' => Present(k)
         /\ \A k \in Ids \ {i} : journal'[k] = journal[k] /\ backup'[k] = backup[k]
                                  /\ confBackup'[k] = confBackup[k]
         /\ journal'[i] \in {journal[i], NoJournal}
         /\ backup[i] = NoDir => backup'[i] = NoDir
         /\ confBackup'[i] \in {confBackup[i], 0}
         /\ Leave(i, {}, NoDir) => ~Present(i)'
<1>1. PICK parts \in SUBSET Parts, dir \in Remains(backup[i]) : Leave(i, parts, dir)
  BY DEF CutShort, Remains
<1>2. backup[i] = NoDir => dir = NoDir
  BY DEF Remains
<1>3. /\ \A k \in Ids \ {i} : /\ journal'[k] = journal[k] /\ backup'[k] = backup[k]
                              /\ confBackup'[k] = confBackup[k] /\ staging'[k] = staging[k]
      /\ journal'[i] \in {journal[i], NoJournal}
      /\ staging'[i] \in {staging[i], NoDir}
      /\ confBackup'[i] \in {confBackup[i], 0}
      /\ backup'[i] = dir
  BY <1>1 DEF Leave, IInv, TypeOK, DiskTypeOK
<1>4. \A k \in Ids : Present(k)' => Present(k)
  BY <1>2, <1>3 DEF Present
<1>5. Leave(i, {}, NoDir) => ~Present(i)'
  BY DEF Leave, Present, IInv, TypeOK, DiskTypeOK
<1> QED
  BY <1>2, <1>3, <1>4, <1>5

\* An uninstall leaves the transactions and the settings alone.
LEMMA UninstallKeeps ==
  ASSUME UninstallStep
  PROVE  /\ phase = "up" /\ phase' = "up" /\ Uninstalling /\ (job' = job \/ job' = NoJob)
         /\ UNCHANGED <<confVars, txnVars, displaced, refused, nextTree>>
<1>1. CASE ListOwned
  BY <1>1 DEF ListOwned, At, Goto, disk, confVars, txnVars, Uninstalling
<1>2. CASE RemoveOwned
  BY <1>2, Zenon DEF RemoveOwned, At, Uninstalling
<1>3. CASE RemoveMarker
  BY <1>3 DEF RemoveMarker, At, Goto, Uninstalling
<1>4. CASE RemoveDirectory
  BY <1>4 DEF RemoveDirectory, At, Finish, Uninstalling
<1> QED
  BY <1>1, <1>2, <1>3, <1>4 DEF UninstallStep

\* The only transaction an install or a restore touches is its own.
LEMMA JobKeepsOthers ==
  ASSUME IInv, InstallStep \/ RestoreStep, NEW k \in Ids, k # job.id
  PROVE  /\ journal'[k] = journal[k] /\ staging'[k] = staging[k]
         /\ backup'[k] = backup[k] /\ confBackup'[k] = confBackup[k]
<1>0. DiskTypeOK /\ (job # NoJob => job.id \in Ids)
  BY DEF IInv, TypeOK, EngineTypeOK, Jobs
<1>1. CASE OpenTransaction
  <2>1. PICK parts \in SUBSET Parts, dir \in {NoDir} \cup Remains(backup[job.id]) :
          Leave(job.id, parts, dir)
    BY <1>1 DEF OpenTransaction
  <2> QED
    BY <1>0, <2>1 DEF Leave, DiskTypeOK
<1>2. CASE RetainSettings
  BY <1>0, <1>2 DEF RetainSettings, DiskTypeOK
<1>3. CASE InstallStep /\ ~OpenTransaction
  BY <1>0, <1>3 DEF InstallStep, WriteJournal, Download, VerifyHash, Inspect, PreserveUntracked,
     BackUpAddon, CommitAddon, RollBackAddon, PutBack, disk, DiskTypeOK
<1>4. CASE RestoreStep /\ ~RetainSettings
  BY <1>0, <1>4 DEF RestoreStep, StageSettings, CopySettings, BackUpSettings, CommitSettings,
     DropCopy, PutBackSettings, txnVars, DiskTypeOK
<1> QED
  BY <1>1, <1>2, <1>3, <1>4

\* While nothing fails, a job that is still to make its transaction has none, and an
\* install or a restore that ends otherwise than by its clean-up never made one.
LEMMA JobMakesTransaction ==
  ASSUME IInv, StepInv, RestoreTxn, LeftoverInv, InstallStep \/ RestoreStep,
         Trusted, Trusted', faults' = faults, NEW i \in Ids, i = job.id
  PROVE  pc' \in {"stage", "open", "copy", "journal", "discard"} \/ job' = NoJob => ~Present(i)'
<1>0. /\ job # NoJob /\ job \in Jobs /\ faults = 0 /\ DiskTypeOK
      /\ pc \in {"stage", "open", "copy", "journal", "discard"} => ~Present(i)
      /\ faults \in Nat
  BY NextPc DEF IInv, TypeOK, EngineTypeOK, HistoryTypeOK, Jobs, Trusted, LeftoverInv
<1>1. CASE OpenTransaction
  <2>1. Leave(i, {}, NoDir) /\ UNCHANGED job
    BY <1>0, <1>1 DEF OpenTransaction, Goto, Fails
  <2> QED
    BY <1>0, <2>1, RemovalPresent
<1>2. CASE StageSettings \/ CopySettings
  <2>1. pc \in {"stage", "copy"} /\ UNCHANGED <<txnVars, job>>
    BY <1>2 DEF StageSettings, CopySettings, At, Goto
  <2> QED
    BY <1>0, <2>1 DEF txnVars, Present
<1>3. CASE DropCopy
  <2>1. /\ UNCHANGED txnVars /\ pc \in {"discard", "drop", "rollback"}
        /\ pc = "discard" \/ (job' = job /\ pc' \in {"abort", "putback"})
    BY <1>3 DEF DropCopy, At, Goto
  <2> QED
    BY <1>0, <2>1 DEF txnVars, Present
<1>4. CASE InstallStep /\ ~OpenTransaction
  <2>1. CASE RollBackAddon
    BY <1>0, <2>1 DEF RollBackAddon, At, StepInv, Installing
  <2> QED
    BY <1>0, <1>4, <2>1 DEF InstallStep, WriteJournal, Download, VerifyHash, Inspect,
       PreserveUntracked, BackUpAddon, CommitAddon, Goto, Fails
<1>5. CASE BackUpSettings \/ CommitSettings \/ PutBackSettings \/ RetainSettings
  BY <1>0, <1>5 DEF BackUpSettings, CommitSettings, PutBackSettings, RetainSettings, Goto
<1> QED
  BY <1>1, <1>2, <1>3, <1>4, <1>5 DEF RestoreStep

\* A crash leaves the one transaction to recovery, and recovery leaves none.
LEMMA LeftoverStep ==
  ASSUME IInv, StepInv, RestoreTxn, LeftoverInv, [Next]_vars
  PROVE  LeftoverInv'
<1> DEFINE Unmade == {"stage", "open", "copy", "journal", "discard"}
<1> SUFFICES ASSUME Trusted'
             PROVE  /\ \A i, j \in Ids : Present(i)' /\ Present(j)' => i = j
                    /\ phase' = "up" => \A i \in Ids : Present(i)' => job' # NoJob /\ job'.id = i
                    /\ phase' = "recovering" =>
                         \A i \in Ids : Present(i)' => i \in todo' \/ (pc' = "clear" /\ rec' = i)
                    /\ Uninstalling' \/ (job' # NoJob /\ pc' \in Unmade) => ~Present(job.id)'
  BY DEF LeftoverInv
<1>1. Trusted /\ faults' = faults /\ faults = 0
  BY TrustedBefore DEF Trusted
<1>2. /\ \A i, j \in Ids : Present(i) /\ Present(j) => i = j
      /\ phase = "up" => \A i \in Ids : Present(i) => job # NoJob /\ job.id = i
      /\ phase = "recovering" =>
           \A i \in Ids : Present(i) => i \in todo \/ (pc = "clear" /\ rec = i)
      /\ Uninstalling \/ (job # NoJob /\ pc \in Unmade) => ~Present(job.id)
  BY <1>1 DEF LeftoverInv
<1>3. (job # NoJob => phase = "up" /\ job.id \in Ids) /\ (phase = "recovering" => job = NoJob)
  BY DEF IInv, PhaseInv, TypeOK, EngineTypeOK, Jobs
<1>4. CASE StartJob
  <2>1. /\ phase = "up" /\ phase' = "up" /\ job = NoJob /\ job' \in Jobs
        /\ \A i \in Ids : Present(i)' <=> Present(i)
    BY <1>4 DEF StartJob, disk, Present
  <2> QED
    BY <1>2, <2>1, ConstantsAssumption DEF Jobs
<1>5. CASE InstallStep \/ RestoreStep
  <2>1. /\ phase = "up" /\ phase' = "up" /\ job # NoJob /\ job' \in {job, NoJob}
    BY <1>5, NextPc
  <2>2. ~Uninstalling
    BY <1>5 DEF Uninstalling, InstallStep, OpenTransaction, WriteJournal, Download, VerifyHash,
       Inspect, PreserveUntracked, BackUpAddon, CommitAddon, RollBackAddon, RestoreStep,
       StageSettings, CopySettings, BackUpSettings, CommitSettings, DropCopy, PutBackSettings,
       RetainSettings, At
  <2>3. \A k \in Ids : k # job.id => ~Present(k)'
    BY <1>2, <1>5, <2>1, JobKeepsOthers DEF Present
  <2>4. PICK i \in Ids : i = job.id
    BY <1>3, <2>1
  <2>5. pc' \in Unmade \/ job' = NoJob => ~Present(i)'
    BY <1>1, <1>5, <2>4, JobMakesTransaction
  <2> QED
    BY <2>1, <2>2, <2>3, <2>4, <2>5 DEF Uninstalling
<1>6. CASE UninstallStep
  <2>1. /\ phase = "up" /\ phase' = "up" /\ Uninstalling /\ (job' = job \/ job' = NoJob)
        /\ \A i \in Ids : Present(i)' <=> Present(i)
    BY <1>6, UninstallKeeps DEF txnVars, Present
  <2> QED
    BY <1>2, <1>3, <2>1 DEF Uninstalling
<1>7. CASE CleanUp
  <2>1. phase = "up" /\ phase' = "up" /\ job # NoJob /\ job' = NoJob /\ Leave(job.id, {}, NoDir)
    BY <1>1, <1>7 DEF CleanUp, RemoveTransaction, Finish, Fails
  <2>2. \A i \in Ids : ~Present(i)'
    BY <1>2, <1>3, <2>1, RemovalPresent
  <2> QED
    BY <2>1, <2>2 DEF Uninstalling
<1>8. CASE Crash
  <2>1. phase' = "down" /\ job' = NoJob
    BY <1>8 DEF Crash
  <2>2. \A i \in Ids : Present(i)' => Present(i)
    <3>1. CASE UNCHANGED txnVars
      BY <3>1 DEF txnVars, Present
    <3>2. CASE \E i \in Ids : CutShort(i)
      BY <3>2, RemovalPresent
    <3> QED
      BY <1>8, <3>1, <3>2 DEF Crash
  <2> QED
    BY <1>2, <2>1, <2>2 DEF Uninstalling
<1>9. CASE Boot
  <2>1. /\ phase' = "recovering" /\ job' = NoJob
        /\ todo' = {i \in Ids : Present(i)}
        /\ \A i \in Ids : Present(i)' <=> Present(i)
    BY <1>3, <1>9 DEF Boot, disk, Present
  <2> QED
    BY <1>2, <2>1 DEF Uninstalling
<1>10. ASSUME NEW i \in Ids, RecoverAddon(i) \/ RecoverSettings(i) \/ RecoverNothing(i)
       PROVE  Visit(i) /\ phase' = "recovering" /\ pc' = "clear" /\ job' = NoJob
              /\ \A k \in Ids : Present(k)' => Present(k)
  <2>1. Visit(i) /\ phase' = "recovering" /\ pc' = "clear" /\ job' = NoJob
    BY <1>1, <1>3, <1>10 DEF RecoverAddon, RecoverSettings, RecoverNothing, GiveUp, Fails,
       Trusted, Visit
  <2>2. \A k \in Ids : Present(k)' => Present(k)
    BY <1>10 DEF RecoverAddon, PutBack, RecoverSettings, RecoverNothing, disk, Present, IInv,
       TypeOK, DiskTypeOK
  <2> QED
    BY <2>1, <2>2
<1>11. CASE RecoverRemove
  <2>1. /\ phase = "recovering" /\ phase' = "recovering" /\ pc = "clear" /\ job' = NoJob
        /\ Leave(rec, {}, NoDir) /\ UNCHANGED todo /\ rec \in Ids
    BY <1>1, <1>3, <1>11 DEF RecoverRemove, Fails, StepInv
  <2>2. \A i \in Ids : Present(i)' => Present(i) /\ i # rec
    BY <2>1, RemovalPresent
  <2> QED
    BY <1>2, <2>1, <2>2 DEF Uninstalling
<1>12. CASE RecoverDone
  <2>1. /\ phase = "recovering" /\ phase' = "up" /\ pc = "idle" /\ todo = {} /\ job' = NoJob
        /\ \A i \in Ids : Present(i)' <=> Present(i)
    BY <1>3, <1>12 DEF RecoverDone, disk, Present
  <2> QED
    BY <1>2, <2>1 DEF Uninstalling
<1>13. CASE EnvironmentStep \/ UNCHANGED vars
  <2>1. UNCHANGED <<phase, job, pc, todo, rec>> /\ \A i \in Ids : Present(i)' <=> Present(i)
    BY <1>13 DEF EnvironmentStep, AddonWritesFile, AddonWritesSettings, vars, disk, engine,
       txnVars, Present
  <2> QED
    BY <1>2, <1>3, <2>1 DEF Uninstalling
<1>14. CASE \E i \in Ids : RecoverAddon(i) \/ RecoverSettings(i) \/ RecoverNothing(i)
  BY <1>2, <1>10, <1>14 DEF Visit, Uninstalling
<1> QED
  BY <1>4, <1>5, <1>6, <1>7, <1>8, <1>9, <1>11, <1>12, <1>13, <1>14 DEF Next, RecoverStep
-----------------------------------------------------------------------------
(* What is removed with a transaction                                       *)

\* backups/<id> holds the settings of some addon.
KeptSomewhere(i) == \E p \in Addons : kept[i][p] # 0

\* Settings in a transaction are those of a restore, which recovery puts back or
\* moves out, unless their id has kept settings before or they were refused.
BackupsHaveOwners ==
  Trusted => \A i \in Ids : confBackup[i] # 0 =>
    \/ KeptSomewhere(i) \/ confBackup[i] \in refused
    \/ journal[i] # NoJournal /\ journal[i].kind = "settings"

\* What may be removed with transaction i is of no more use.
Spent(i) ==
  /\ confBackup[i] = 0 \/ KeptSomewhere(i) \/ confBackup[i] \in refused
  /\ backup[i] = NoDir \/ \A p \in Addons : journal[i] = [kind |-> "package", pkg |-> p]
                                              => addon[p] # NoDir

\* Recovery removes a transaction after it has taken what it needed.
ClearedIsSpent == Trusted /\ phase = "recovering" /\ pc = "clear" => Spent(rec)

BackupInv == BackupsHaveOwners /\ ClearedIsSpent

TxnInv == StepInv /\ InstallTxn /\ RestoreTxn /\ UninstallTxn /\ LeftoverInv /\ BackupInv

\* A transaction directory is removed when nothing in it is needed.
LEMMA RemovedIsSpent ==
  ASSUME IInv, TxnInv, Trusted, NEW i \in Ids, Removing(i)
  PROVE  Spent(i)
<1> USE DEF TxnInv, Spent
<1>1. CASE phase = "recovering" /\ rec = i /\ pc = "clear"
  BY <1>1 DEF BackupInv, ClearedIsSpent
<1>2. CASE job # NoJob /\ job.id = i /\ pc = "open"
  BY <1>2 DEF LeftoverInv, Present
<1>3. CASE job # NoJob /\ job.id = i /\ pc \in {"cleanup", "abort"}
  <2>1. job.pkg \in Addons /\ job.op \in {"install", "uninstall", "restore"} /\ faults = 0
    BY <1>3 DEF IInv, TypeOK, EngineTypeOK, Jobs, Trusted
  <2>2. CASE job.op = "install"
    <3>1. journal[i] = [kind |-> "package", pkg |-> job.pkg] /\ confBackup[i] = 0
      BY <1>3, <2>2, <2>1 DEF InstallTxn, Installing, JournalOf
    <3>2. pc = "abort" => backup[i] = NoDir
      BY <1>3, <2>2, <2>1 DEF InstallTxn, Installing
    <3>3. pc = "cleanup" => addon[job.pkg] # NoDir
      BY <1>3, <2>2, <2>1 DEF InstallTxn, Installing
    <3>4. \A p \in Addons : journal[i] = [kind |-> "package", pkg |-> p] => p = job.pkg
      BY <3>1
    <3> QED
      BY <1>3, <3>1, <3>2, <3>3, <3>4
  <2>3. CASE job.op = "restore"
    BY <1>3, <2>3, <2>1 DEF RestoreTxn, Restoring, KeptSomewhere
  <2>4. CASE job.op = "uninstall"
    BY <1>3, <2>4 DEF LeftoverInv, Present, Uninstalling
  <2> QED
    BY <2>1, <2>2, <2>3, <2>4
<1> QED
  BY <1>1, <1>2, <1>3 DEF Removing

\* Settings that were kept stay.
LEMMA KeptStays ==
  ASSUME IInv, [Next]_vars
  PROVE  \A i \in Ids : \A p \in Addons : kept[i][p] # 0 => kept'[i][p] = kept[i][p]
<1>1. CASE RetainSettings
  BY <1>1, SMTT(20) DEF RetainSettings, At, IInv, TypeOK, DiskTypeOK, EngineTypeOK, Jobs
<1>2. CASE InstallStep \/ CleanUp
  BY <1>2 DEF InstallStep, OpenTransaction, WriteJournal, Download, VerifyHash, Inspect,
              PreserveUntracked, BackUpAddon, CommitAddon, RollBackAddon, PutBack, CleanUp,
              disk, confVars
<1>3. CASE UninstallStep
  BY <1>3, UninstallKeeps DEF confVars
<1>4. CASE RestoreStep /\ ~RetainSettings
  BY <1>4 DEF RestoreStep, StageSettings, RemoveCopy, CopySettings, BackUpSettings,
              CommitSettings, DropCopy, PutBackSettings, confVars
<1>5. CASE RecoverStep
  BY <1>5 DEF RecoverStep, RecoverAddon, RecoverSettings, RecoverNothing, RecoverRemove,
              RecoverDone, confVars, disk
<1>6. CASE StartJob \/ Crash \/ Boot \/ EnvironmentStep \/ UNCHANGED vars
  BY <1>6 DEF StartJob, Crash, Boot, EnvironmentStep, AddonWritesFile, AddonWritesSettings, vars,
              disk, confVars
<1> QED
  BY <1>1, <1>2, <1>3, <1>4, <1>5, <1>6 DEF Next

\* No step orphans the settings in a transaction.
LEMMA BackupsHaveOwnersStep ==
  ASSUME IInv, TxnInv, [Next]_vars
  PROVE  BackupsHaveOwners'
<1> SUFFICES ASSUME Trusted', NEW i \in Ids, confBackup'[i] # 0
             PROVE  \/ KeptSomewhere(i)' \/ confBackup'[i] \in refused'
                    \/ journal'[i] # NoJournal /\ journal'[i].kind = "settings"
  BY DEF BackupsHaveOwners
<1>1. Trusted /\ faults' = faults /\ faults = 0
  BY TrustedBefore DEF Trusted
<1>2. KeptSomewhere(i) => KeptSomewhere(i)'
  BY KeptStays DEF KeptSomewhere
<1>3. confBackup[i] # 0 =>
        \/ KeptSomewhere(i) \/ confBackup[i] \in refused
        \/ journal[i] # NoJournal /\ journal[i].kind = "settings"
  BY <1>1 DEF TxnInv, BackupInv, BackupsHaveOwners
<1>4. /\ job # NoJob => job \in Jobs /\ job.id \in Ids /\ job.pkg \in Addons
      /\ DiskTypeOK /\ faults \in Nat
  BY DEF IInv, TypeOK, EngineTypeOK, HistoryTypeOK, Jobs
<1>5. CASE /\ confBackup'[i] = confBackup[i] /\ journal'[i] = journal[i]
           /\ refused \subseteq refused'
  BY <1>2, <1>3, <1>5
<1>6. CASE OpenTransaction
  <2>1. Leave(job.id, {}, NoDir) /\ job # NoJob /\ UNCHANGED refused
    BY <1>1, <1>4, <1>6 DEF OpenTransaction, At, Fails
  <2> QED
    BY <1>4, <1>5, <2>1 DEF Leave, DiskTypeOK
<1>7. CASE WriteJournal
  <2>1. /\ job # NoJob /\ UNCHANGED <<confBackup, refused>>
        /\ journal' = [journal EXCEPT ![job.id] = JournalOf(job)]
        /\ (Installing /\ pc = "journal") \/ job.op = "restore"
    BY <1>1, <1>4, <1>7 DEF WriteJournal, At, Fails, Installing
  <2>2. CASE i = job.id
    <3>1. job.op = "restore"
      BY <1>1, <2>1, <2>2 DEF TxnInv, InstallTxn
    <3>2. JournalOf(job).kind = "settings" /\ JournalOf(job) \in Journals
      BY <1>4, <2>1, <3>1 DEF JournalOf, Journals
    <3> QED
      BY <1>4, <2>1, <2>2, <3>2, ConstantsAssumption DEF DiskTypeOK
  <2> QED
    BY <1>4, <1>5, <2>1, <2>2 DEF DiskTypeOK
<1>8. CASE InstallStep /\ ~OpenTransaction /\ ~WriteJournal
  BY <1>5, <1>8 DEF InstallStep, Download, VerifyHash, Inspect, PreserveUntracked, BackUpAddon,
     CommitAddon, RollBackAddon, disk, history
<1>9. CASE RestoreStep
  <2>1. CASE StageSettings \/ CopySettings \/ CommitSettings \/ DropCopy
    BY <1>5, <2>1 DEF StageSettings, CopySettings, CommitSettings, DropCopy, txnVars
  <2>2. CASE BackUpSettings
    <3>1. /\ Restoring /\ pc = "backup" /\ UNCHANGED <<journal, refused>>
          /\ \A k \in Ids : k # job.id => confBackup'[k] = confBackup[k]
      BY <1>4, <2>2 DEF BackUpSettings, At, DiskTypeOK, Restoring
    <3>2. /\ journal[job.id] = JournalOf(job)
          /\ JournalOf(job).kind = "settings" /\ JournalOf(job) \in Journals
      BY <1>1, <1>4, <3>1 DEF TxnInv, RestoreTxn, Restoring, JournalOf, Journals
    <3> QED
      BY <1>5, <3>1, <3>2, ConstantsAssumption
  <2>3. CASE PutBackSettings
    <3>1. /\ job # NoJob /\ UNCHANGED journal /\ refused \subseteq refused'
          /\ confBackup' \in {confBackup, [confBackup EXCEPT ![job.id] = 0]}
      BY <2>3 DEF PutBackSettings, At
    <3> QED
      BY <1>4, <1>5, <3>1 DEF DiskTypeOK
  <2>4. CASE RetainSettings
    <3>1. /\ job # NoJob /\ UNCHANGED <<journal, refused>>
          /\ confBackup' \in {confBackup, [confBackup EXCEPT ![job.id] = 0]}
      BY <2>4 DEF RetainSettings, At
    <3> QED
      BY <1>4, <1>5, <3>1 DEF DiskTypeOK
  <2> QED
    BY <1>9, <2>1, <2>2, <2>3, <2>4 DEF RestoreStep
<1>10. CASE UninstallStep
  BY <1>5, <1>10, UninstallKeeps DEF txnVars
<1>11. ASSUME NEW k \in Ids, Leave(k, {}, NoDir) \/ (Spent(k) /\ CutShort(k)), UNCHANGED refused
       PROVE  \/ KeptSomewhere(i)' \/ confBackup'[i] \in refused'
              \/ journal'[i] # NoJournal /\ journal'[i].kind = "settings"
  BY <1>2, <1>5, <1>11, RemovalPresent DEF Spent, Present
<1>12. CASE CleanUp
  <2>1. Leave(job.id, {}, NoDir) /\ job.id \in Ids /\ UNCHANGED refused
    BY <1>1, <1>4, <1>12 DEF CleanUp, RemoveTransaction, Fails
  <2> QED
    BY <1>11, <2>1
<1>13. CASE Crash
  <2>1. UNCHANGED refused /\ (UNCHANGED txnVars \/ \E k \in Ids : Removing(k) /\ CutShort(k))
    BY <1>13 DEF Crash
  <2> QED
    BY <1>1, <1>5, <1>11, <2>1, RemovedIsSpent DEF txnVars
<1>14. CASE RecoverRemove
  <2>1. Leave(rec, {}, NoDir) /\ rec \in Ids /\ UNCHANGED refused
    BY <1>1, <1>14 DEF RecoverRemove, Fails, TxnInv, StepInv
  <2> QED
    BY <1>11, <2>1
<1>15. ASSUME NEW k \in Ids, RecoverSettings(k)
       PROVE  \/ KeptSomewhere(i)' \/ confBackup'[i] \in refused'
              \/ journal'[i] # NoJournal /\ journal'[i].kind = "settings"
  <2>1. /\ UNCHANGED journal /\ confBackup[k] # 0
        /\ \/ UNCHANGED <<confBackup, refused>>
           \/ confBackup' = [confBackup EXCEPT ![k] = 0] /\ refused' = refused \ {confBackup[k]}
    BY <1>15 DEF RecoverSettings
  <2>2. confBackup[i] # 0 => i = k
    BY <1>1, <2>1 DEF TxnInv, LeftoverInv, Present
  <2> QED
    BY <1>4, <1>5, <2>1, <2>2 DEF DiskTypeOK
<1>16. CASE RecoverStep
  BY <1>5, <1>14, <1>15, <1>16 DEF RecoverStep, RecoverAddon, RecoverNothing, RecoverDone, disk,
     history
<1>17. CASE StartJob \/ Boot \/ EnvironmentStep \/ UNCHANGED vars
  BY <1>5, <1>17 DEF StartJob, Boot, EnvironmentStep, AddonWritesFile, AddonWritesSettings, vars,
              disk, history, txnVars
<1> QED
  BY <1>6, <1>7, <1>8, <1>9, <1>10, <1>12, <1>13, <1>16, <1>17 DEF Next

\* A visit takes what it needs before the removal.
LEMMA ClearedIsSpentStep ==
  ASSUME IInv, TxnInv, [Next]_vars
  PROVE  ClearedIsSpent'
<1> SUFFICES ASSUME Trusted', phase' = "recovering", pc' = "clear"
             PROVE  Spent(rec)'
  BY DEF ClearedIsSpent
<1>1. Trusted
  BY TrustedBefore
<1>2. ASSUME NEW i \in Ids, Visit(i), phase' = "recovering",
             RecoverAddon(i) \/ RecoverSettings(i) \/ RecoverNothing(i)
      PROVE  Spent(rec)'
  <2>1. rec' = i /\ UNCHANGED kept
    BY <1>2 DEF Visit, RecoverAddon, RecoverSettings, RecoverNothing, confVars, disk
  <2>2. confBackup[i] # 0 =>
          \/ KeptSomewhere(i) \/ confBackup[i] \in refused
          \/ journal[i] # NoJournal /\ journal[i].kind = "settings"
    BY <1>1 DEF TxnInv, BackupInv, BackupsHaveOwners
  <2>3. CASE RecoverAddon(i)
    BY <1>2, <2>1, <2>2, <2>3 DEF RecoverAddon, PutBack, GiveUp, Spent, KeptSomewhere, IInv, TypeOK,
       DiskTypeOK
  <2>4. CASE RecoverSettings(i)
    BY <1>2, <2>1, <2>2, <2>4 DEF RecoverSettings, GiveUp, Spent, KeptSomewhere, IInv, TypeOK,
       DiskTypeOK
  <2>5. CASE RecoverNothing(i)
    BY <1>2, <2>1, <2>2, <2>5, ConstantsAssumption DEF RecoverNothing, Spent, KeptSomewhere,
       disk, history, Journals
  <2> QED
    BY <1>2, <2>3, <2>4, <2>5
<1>3. CASE \E i \in Ids : RecoverAddon(i) \/ RecoverSettings(i) \/ RecoverNothing(i)
  BY <1>2, <1>3 DEF RecoverAddon, RecoverSettings, RecoverNothing, Visit, GiveUp
<1>4. CASE EnvironmentStep \/ UNCHANGED vars
  <2>1. /\ UNCHANGED <<phase, pc, rec, kept, refused, txnVars>>
        /\ \A p \in Addons : addon[p] # NoDir => addon'[p] # NoDir
    <3>1. ASSUME NEW p \in Addons, NEW f \in Files, AddonWritesFile(p, f)
          PROVE  /\ UNCHANGED <<phase, pc, rec, kept, refused, txnVars>>
                 /\ \A q \in Addons : addon[q] # NoDir => addon'[q] # NoDir
      BY <3>1, WrittenFile DEF engine, confVars
    <3>2. ASSUME NEW p \in Addons, AddonWritesSettings(p)
          PROVE  UNCHANGED <<phase, pc, rec, kept, refused, addon, txnVars>>
      BY <3>2 DEF AddonWritesSettings, engine
    <3>3. ASSUME UNCHANGED vars PROVE UNCHANGED <<phase, pc, rec, kept, refused, addon, txnVars>>
      BY <3>3 DEF vars, engine, disk, history, txnVars
    <3> QED
      BY <1>4, <3>1, <3>2, <3>3 DEF EnvironmentStep
  <2> QED
    BY <1>1, <2>1 DEF TxnInv, BackupInv, ClearedIsSpent, Spent, KeptSomewhere, txnVars
<1>5. CASE Crash \/ Boot \/ RecoverRemove \/ RecoverDone
  BY <1>5 DEF Crash, Boot, RecoverRemove, RecoverDone, GiveUp, TxnInv, StepInv
<1>6. CASE StartJob \/ InstallStep \/ UninstallStep \/ RestoreStep \/ CleanUp
  BY <1>6, NextPc DEF StartJob
<1> QED
  BY <1>3, <1>4, <1>5, <1>6 DEF Next, RecoverStep
-----------------------------------------------------------------------------
(* Settings directories                                                     *)

\* A settings tree is in one place only: trees in use, copies being imported and
\* displaced trees are different, and no two transactions hold the same one.
TreeInv ==
  /\ \A p \in Addons : conf[p] < nextTree /\ temp[p] < nextTree
  /\ \A t \in displaced : t # 0 /\ t < nextTree
  /\ \A p, q \in Addons :
       /\ conf[p] = conf[q] /\ conf[p] # 0 => p = q
       /\ temp[p] = temp[q] /\ temp[p] # 0 => p = q
       /\ conf[p] = temp[q] => conf[p] = 0
  /\ \A t \in displaced : \A p \in Addons : conf[p] # t /\ temp[p] # t
  /\ \A i \in Ids : confBackup[i] # 0 => confBackup[i] \in displaced
  /\ \A i, j \in Ids : confBackup[i] = confBackup[j] /\ confBackup[i] # 0 => i = j

\* The addons' first settings are different trees.
LEMMA TreeInit == Init => TreeInv
<1> SUFFICES ASSUME Init PROVE TreeInv
  OBVIOUS
<1>1. Cardinality(Addons) \in Nat
  BY ConstantsAssumption, FS_CardinalityType
<1>2. conf \in FirstSettings /\ nextTree = Cardinality(Addons) + 1 /\ temp = [p \in Addons |-> 0]
      /\ confBackup = [i \in Ids |-> 0] /\ displaced = {}
  BY DEF Init
<1> QED
  BY <1>1, <1>2 DEF TreeInv, FirstSettings

\* Dropping a copy or a backup puts no tree in two places.
LEMMA QuietTrees ==
  ASSUME IInv, TreeInv, UNCHANGED <<conf, displaced, nextTree>>,
         \A p \in Addons : temp'[p] \in {temp[p], 0},
         \A i \in Ids : confBackup'[i] \in {confBackup[i], 0}
  PROVE  TreeInv'
<1>1. \A p \in Addons : temp'[p] = temp[p] \/ temp'[p] = 0
  OBVIOUS
<1>2. \A i \in Ids : confBackup'[i] = confBackup[i] \/ confBackup'[i] = 0
  OBVIOUS
<1>3. /\ \A p \in Addons : conf[p] < nextTree /\ temp'[p] < nextTree
      /\ \A t \in displaced : t # 0 /\ t < nextTree
  <2>1. \A p \in Addons : conf[p] < nextTree /\ temp[p] < nextTree /\ conf[p] \in Nat
        /\ nextTree \in Nat
    BY DEF TreeInv, IInv, TypeOK, DiskTypeOK, HistoryTypeOK
  <2> QED
    BY <1>1, <2>1 DEF TreeInv
<1>4. \A p, q \in Addons :
        /\ conf[p] = conf[q] /\ conf[p] # 0 => p = q
        /\ temp'[p] = temp'[q] /\ temp'[p] # 0 => p = q
        /\ conf[p] = temp'[q] => conf[p] = 0
  BY <1>1 DEF TreeInv
<1>5. \A t \in displaced : \A p \in Addons : conf[p] # t /\ temp'[p] # t
  BY <1>1 DEF TreeInv
<1>6. /\ \A i \in Ids : confBackup'[i] # 0 => confBackup'[i] \in displaced
      /\ \A i, j \in Ids : confBackup'[i] = confBackup'[j] /\ confBackup'[i] # 0 => i = j
  BY <1>2 DEF TreeInv
<1> QED
  BY <1>3, <1>4, <1>5, <1>6 DEF TreeInv

\* Every rename of a settings directory takes it away from where it was.
LEMMA TreeStep == ASSUME IInv, TxnInv, TreeInv, [Next]_vars PROVE TreeInv'
<1>1. (job # NoJob => job.id \in Ids /\ job.pkg \in Addons)
  BY DEF IInv, TypeOK, EngineTypeOK, Jobs
<1> USE DEF IInv, TypeOK, DiskTypeOK, HistoryTypeOK
<1>2. ASSUME UNCHANGED <<conf, temp, displaced, nextTree>>,
             \/ \A k \in Ids : confBackup'[k] \in {confBackup[k], 0}
             \/ \E k \in Ids : CutShort(k) \/ Leave(k, {}, NoDir)
      PROVE  TreeInv'
  <2>1. ASSUME NEW k \in Ids, CutShort(k) \/ Leave(k, {}, NoDir)
        PROVE  \A m \in Ids : confBackup'[m] \in {confBackup[m], 0}
    BY <2>1, RemovalPresent
  <2> QED
    BY <1>2, <2>1, QuietTrees
<1>3. CASE InstallStep
  <2>1. UNCHANGED <<conf, temp, displaced, nextTree>>
    BY <1>3 DEF InstallStep, OpenTransaction, WriteJournal, Download, VerifyHash, Inspect,
       PreserveUntracked, BackUpAddon, CommitAddon, RollBackAddon, disk, history, confVars
  <2>2. CASE OpenTransaction
    <3>1. PICK parts \in SUBSET Parts, dir \in {NoDir} \cup Remains(backup[job.id]) :
            Leave(job.id, parts, dir)
      BY <2>2 DEF OpenTransaction
    <3>2. \A k \in Ids : confBackup'[k] \in {confBackup[k], 0}
      BY <3>1 DEF Leave
    <3> QED
      BY <1>2, <2>1, <3>2
  <2>3. CASE ~OpenTransaction
    <3>1. UNCHANGED confBackup
      BY <1>3, <2>3 DEF InstallStep, WriteJournal, Download, VerifyHash, Inspect,
         PreserveUntracked, BackUpAddon, CommitAddon, RollBackAddon, disk, history, confVars
    <3> QED
      BY <1>2, <2>1, <3>1
  <2> QED
    BY <2>2, <2>3
<1>4. CASE UninstallStep
  BY <1>2, <1>4, UninstallKeeps DEF confVars, txnVars
<1>5. CASE StageSettings \/ DropCopy
  <2>1. /\ temp' \in {temp, [temp EXCEPT ![job.pkg] = 0]}
        /\ UNCHANGED <<conf, confBackup, displaced, nextTree>>
    BY <1>5 DEF StageSettings, DropCopy, RemoveCopy, txnVars
  <2> QED
    BY <2>1, QuietTrees
<1>6. CASE CopySettings
  <2>1. /\ temp' = [temp EXCEPT ![job.pkg] = nextTree] /\ nextTree' = nextTree + 1
        /\ UNCHANGED <<conf, confBackup, displaced>> /\ job.pkg \in Addons
    BY <1>1, <1>6 DEF CopySettings, FreshTree, At, txnVars
  <2> QED
    BY <2>1 DEF TreeInv
<1>7. CASE BackUpSettings
  <2>1. job.id \in Ids /\ job.pkg \in Addons /\ UNCHANGED <<temp, nextTree>>
    BY <1>1, <1>7 DEF BackUpSettings, At
  <2>2. CASE UNCHANGED <<conf, confBackup, displaced>>
    BY <2>1, <2>2, QuietTrees
  <2>3. CASE /\ conf' = [conf EXCEPT ![job.pkg] = 0] /\ conf[job.pkg] # 0
             /\ confBackup' = [confBackup EXCEPT ![job.id] = conf[job.pkg]]
             /\ displaced' = displaced \cup {conf[job.pkg]}
    BY <2>1, <2>3 DEF TreeInv
  <2> QED
    BY <1>7, <2>2, <2>3 DEF BackUpSettings
<1>8. CASE CommitSettings
  <2>1. /\ job.pkg \in Addons /\ UNCHANGED <<nextTree, confBackup, displaced>>
    BY <1>1, <1>8 DEF CommitSettings, At, txnVars
  <2>2. CASE UNCHANGED <<conf, temp>>
    BY <2>1, <2>2, QuietTrees
  <2>3. CASE /\ conf' = [conf EXCEPT ![job.pkg] = temp[job.pkg]]
             /\ temp' = [temp EXCEPT ![job.pkg] = 0]
    BY <2>1, <2>3 DEF TreeInv
  <2> QED
    BY <1>8, <2>2, <2>3 DEF CommitSettings
<1>9. CASE PutBackSettings
  <2>1. job.pkg \in Addons /\ job.id \in Ids /\ UNCHANGED <<temp, nextTree>>
    BY <1>1, <1>9 DEF PutBackSettings, At
  <2>2. CASE UNCHANGED <<conf, confBackup, displaced>>
    BY <2>1, <2>2, QuietTrees
  <2>3. CASE /\ conf' = [conf EXCEPT ![job.pkg] = confBackup[job.id]]
             /\ confBackup' = [confBackup EXCEPT ![job.id] = 0]
             /\ displaced' = displaced \ {confBackup[job.id]}
             /\ confBackup[job.id] # 0 /\ conf[job.pkg] = 0
    BY <2>1, <2>3 DEF TreeInv
  <2> QED
    BY <1>9, <2>2, <2>3 DEF PutBackSettings
<1>10. CASE RetainSettings
  <2>1. UNCHANGED <<conf, temp, displaced, nextTree>>
    BY <1>10 DEF RetainSettings
  <2>2. \A i \in Ids : confBackup'[i] \in {confBackup[i], 0}
    BY <1>10 DEF RetainSettings
  <2> QED
    BY <2>1, <2>2, QuietTrees
<1>11. CASE CleanUp
  <2>1. CutShort(job.id) \/ Leave(job.id, {}, NoDir)
    BY <1>11 DEF CleanUp, RemoveTransaction
  <2> QED
    BY <1>1, <1>2, <1>11, <2>1 DEF CleanUp, confVars
<1>12. CASE Crash
  BY <1>2, <1>12 DEF Crash, confVars, txnVars
<1>13. CASE RecoverRemove
  <2>1. CutShort(rec) \/ Leave(rec, {}, NoDir)
    BY <1>13 DEF RecoverRemove
  <2> QED
    BY <1>2, <1>13, <2>1 DEF RecoverRemove, confVars, TxnInv, StepInv
<1>14. ASSUME NEW i \in Ids, RecoverSettings(i) PROVE TreeInv'
  <2>1. /\ journal[i].pkg \in Addons /\ UNCHANGED <<nextTree, temp>> /\ confBackup[i] # 0
    BY <1>14 DEF RecoverSettings, Journals
  <2>2. CASE /\ UNCHANGED <<conf, displaced>>
             /\ confBackup' \in {confBackup, [confBackup EXCEPT ![i] = 0]}
    BY <2>1, <2>2, QuietTrees
  <2>3. CASE /\ conf[journal[i].pkg] = 0
             /\ conf' = [conf EXCEPT ![journal[i].pkg] = confBackup[i]]
             /\ confBackup' = [confBackup EXCEPT ![i] = 0]
             /\ displaced' = displaced \ {confBackup[i]}
    BY <2>1, <2>3 DEF TreeInv
  <2> QED
    BY <1>14, <2>2, <2>3 DEF RecoverSettings
<1>15. ASSUME NEW p \in Addons, AddonWritesSettings(p) PROVE TreeInv'
  <2>1. /\ conf' = [conf EXCEPT ![p] = nextTree] /\ nextTree' = nextTree + 1
        /\ UNCHANGED <<temp, confBackup, displaced>>
    BY <1>15 DEF AddonWritesSettings, FreshTree, txnVars
  <2> QED
    BY <2>1 DEF TreeInv
<1>16. CASE StartJob \/ Boot \/ UNCHANGED vars
  BY <1>2, <1>16 DEF StartJob, Boot, vars, disk, history
<1>17. ASSUME NEW p \in Addons, NEW f \in Files, AddonWritesFile(p, f) PROVE TreeInv'
  BY <1>2, <1>17 DEF AddonWritesFile, confVars, txnVars
<1>18. ASSUME NEW i \in Ids, RecoverAddon(i) \/ RecoverNothing(i) PROVE TreeInv'
  BY <1>2, <1>18 DEF RecoverAddon, RecoverNothing, confVars, disk, history
<1>19. CASE RecoverDone
  BY <1>2, <1>19 DEF RecoverDone, disk, history
<1> QED
  BY <1>3, <1>4, <1>5, <1>6, <1>7, <1>8, <1>9, <1>10, <1>11, <1>12, <1>13, <1>14, <1>15, <1>16,
     <1>17, <1>18, <1>19
     DEF Next, RestoreStep, RecoverStep, EnvironmentStep
-----------------------------------------------------------------------------
(* What is in the staging directory                                         *)

\* The staging directory is the version installed over dir, with at least the
\* user files that no addon wrote after the copy.
StagedFrom(dir) ==
  \E survivors \in SUBSET Untracked(dir) :
    /\ Untracked(dir) \ late \subseteq survivors
    /\ staging[job.id] = Store!Installed(job.ver, dir, survivors)

\* From the copy of the untracked files to the commit, staging is what the
\* update has to install over the addon, wherever the addon is by then.
StagedInv ==
  Trusted /\ Installing =>
    /\ pc = "backup" => StagedFrom(addon[job.pkg])
    /\ pc = "commit" => StagedFrom(backup[job.id])

\* Copying every untracked file into the extracted archive is the installation.
LEMMA MergedIsInstalled ==
  ASSUME NEW v \in Versions, NEW old \in Dirs \cup {NoDir}, NEW copied \in SUBSET Files
  PROVE  Merged(Extracted(NoDir, v, Contents[v]), old, copied, Contents[v])
           = Store!Installed(v, old, copied)
<1> DEFINE new == Extracted(NoDir, v, Contents[v])
<1>1. v # "absent"
  BY ConstantsAssumption DEF Artifacts
<1>2. \A f \in Files : new.file[f] = IF f \in Contents[v] THEN v ELSE "absent"
  BY DEF Extracted
<1>3. [f \in Files |-> IF new.file[f] = "absent" /\ f \in copied
                       THEN old.file[f] ELSE new.file[f]]
      = [f \in Files |-> IF f \in Contents[v] THEN v
                         ELSE IF f \in copied THEN old.file[f] ELSE "absent"]
  BY <1>1, <1>2
<1> QED
  BY <1>3 DEF Merged, Store!Installed

\* A file written at the backup step is not copied any more.
LEMMA WrittenWhileStaged ==
  ASSUME NEW dir, NEW new, NEW f, NEW v, NEW survivors,
         dir \in Dirs /\ new \in Dirs /\ dir # NoDir /\ new # NoDir,
         f \in Files \ dir.owned, dir.file[f] = "absent",
         new.owned = dir.owned, new.file = [dir.file EXCEPT ![f] = "user"],
         survivors \subseteq Untracked(dir)
  PROVE  /\ Untracked(new) = Untracked(dir) \cup {f}
         /\ Store!Installed(v, new, survivors) = Store!Installed(v, dir, survivors)
<1>1. \A g \in Files : new.file[g] = IF g = f THEN "user" ELSE dir.file[g]
  BY DEF Dirs
<1>2. Untracked(dir) = {g \in Files \ dir.owned : dir.file[g] # "absent"}
  BY DEF Untracked
<1>3. Untracked(new) = {g \in Files \ new.owned : new.file[g] # "absent"}
  BY DEF Untracked
<1>4. Untracked(new) = Untracked(dir) \cup {f}
  BY <1>1, <1>2, <1>3
<1>5. \A g \in survivors : g \in Files /\ new.file[g] = dir.file[g]
  BY <1>1, <1>2
<1>6. [g \in Files |-> IF g \in Contents[v] THEN v
                       ELSE IF g \in survivors THEN new.file[g] ELSE "absent"]
      = [g \in Files |-> IF g \in Contents[v] THEN v
                         ELSE IF g \in survivors THEN dir.file[g] ELSE "absent"]
  BY <1>5
<1> QED
  BY <1>4, <1>6 DEF Store!Installed

\* A write between the copy and the backup only adds a late file.
LEMMA StagedStep ==
  ASSUME IInv, TxnInv, StagedInv, [Next]_vars PROVE StagedInv'
<1> USE DEF Installing
<1> SUFFICES ASSUME Trusted', Installing'
             PROVE  /\ pc' = "backup" => StagedFrom(addon[job.pkg])'
                    /\ pc' = "commit" => StagedFrom(backup[job.id])'
  BY DEF StagedInv
<1>0. /\ Trusted /\ faults' = faults
      /\ Installing => job.id \in Ids /\ job.pkg \in Addons /\ job.ver \in Versions
  BY TrustedBefore DEF IInv, TypeOK, EngineTypeOK, Jobs, InstallInv
<1>1. CASE StartJob
  <2>1. pc' \in {"open", "list", "stage"}
    BY <1>1 DEF StartJob, First, Jobs
  <2> QED
    BY <2>1
<1>2. CASE OpenTransaction \/ WriteJournal \/ Download \/ VerifyHash \/ Inspect
  <2>1. pc' \notin {"backup", "commit"} \/ ~Installing'
    BY <1>2 DEF OpenTransaction, WriteJournal, Download, VerifyHash, Inspect, At, Goto
  <2> QED
    BY <2>1
<1>3. CASE PreserveUntracked
  <2> DEFINE old == addon[job.pkg]
  <2>1. /\ Installing /\ pc = "preserve" /\ pc' = "backup" /\ UNCHANGED <<job, addon, late>>
        /\ staging' = [staging EXCEPT ![job.id] = Merged(@, old, Untracked(old), extracted)]
    BY <1>0, <1>3 DEF PreserveUntracked, At, Goto, Fails, IInv, TypeOK, HistoryTypeOK
  <2>2. /\ staging[job.id] = Extracted(NoDir, job.ver, Contents[job.ver])
        /\ extracted = Contents[job.ver] /\ old \in Dirs \cup {NoDir}
    BY <1>0, <2>1 DEF TxnInv, InstallTxn, Trusted, IInv, TypeOK, DiskTypeOK
  <2>3. Untracked(old) \in SUBSET Files
    BY DEF Untracked
  <2>4. staging'[job.id] = Merged(Extracted(NoDir, job.ver, Contents[job.ver]), old, Untracked(old),
                                Contents[job.ver])
    BY <1>0, <2>1, <2>2 DEF IInv, TypeOK, DiskTypeOK
  <2>5. staging'[job.id] = Store!Installed(job.ver, old, Untracked(old))
    BY <1>0, <2>1, <2>2, <2>3, <2>4, MergedIsInstalled
  <2>6. Untracked(old)' = Untracked(old)
    BY <2>1 DEF Untracked
  <2>7. Store!Installed(job.ver, old, Untracked(old))'
          = Store!Installed(job.ver, old, Untracked(old))
    BY <2>1, <2>6 DEF Store!Installed
  <2>8. StagedFrom(addon[job.pkg])'
    BY <2>1, <2>5, <2>6, <2>7 DEF StagedFrom
  <2> QED
    BY <2>1, <2>8
<1>4. CASE BackUpAddon
  <2>1. /\ Installing /\ pc = "backup" /\ pc' = "commit" /\ UNCHANGED <<job, staging, late>>
        /\ backup'[job.id] = addon[job.pkg]
    <3>1. /\ Installing /\ pc = "backup" /\ pc' = "commit" /\ UNCHANGED <<job, staging, late>>
          /\ \/ addon[job.pkg] = NoDir /\ UNCHANGED backup
             \/ backup' = [backup EXCEPT ![job.id] = addon[job.pkg]]
      BY <1>0, <1>4 DEF BackUpAddon, At, Goto, Fails, IInv, TypeOK, HistoryTypeOK
    <3>2. backup[job.id] = NoDir
      BY <1>0, <3>1 DEF TxnInv, InstallTxn, Trusted
    <3> QED
      BY <1>0, <3>1, <3>2 DEF IInv, TypeOK, DiskTypeOK
  <2>2. StagedFrom(addon[job.pkg])
    BY <1>0, <2>1 DEF StagedInv
  <2>3. PICK survivors \in SUBSET Untracked(addon[job.pkg]) :
           /\ Untracked(addon[job.pkg]) \ late \subseteq survivors
           /\ staging[job.id] = Store!Installed(job.ver, addon[job.pkg], survivors)
    BY <2>2 DEF StagedFrom
  <2>4. Store!Installed(job.ver, addon[job.pkg], survivors)
          = Store!Installed(job.ver, backup[job.id], survivors)'
    BY <2>1 DEF Store!Installed
  <2>5. Untracked(backup[job.id])' = Untracked(addon[job.pkg])
    BY <2>1 DEF Untracked
  <2>6. StagedFrom(backup[job.id])'
    BY <2>1, <2>3, <2>4, <2>5 DEF StagedFrom
  <2> QED
    BY <2>1, <2>6
<1>5. CASE CommitAddon \/ RollBackAddon \/ UninstallStep \/ RestoreStep \/ CleanUp
  <2>1. pc' \notin {"backup", "commit"} \/ ~Installing'
    BY <1>0, <1>5, UninstallKeeps DEF CommitAddon, RollBackAddon, RestoreStep, StageSettings,
       CopySettings, BackUpSettings, CommitSettings, DropCopy, PutBackSettings, RetainSettings,
       CleanUp, At, Goto, Finish, Uninstalling
  <2> QED
    BY <2>1
<1>6. ASSUME UNCHANGED <<staging, late, job, pc, backup, faults, recoverFailed>>,
             pc = "backup" => addon'[job.pkg] = addon[job.pkg]
      PROVE  /\ pc' = "backup" => StagedFrom(addon[job.pkg])'
             /\ pc' = "commit" => StagedFrom(backup[job.id])'
  <2>1. CASE pc = "backup"
    <3>1. StagedFrom(addon[job.pkg]) /\ addon'[job.pkg] = addon[job.pkg]
      BY <1>0, <1>6, <2>1 DEF StagedInv
    <3>2. StagedFrom(addon[job.pkg])'
      BY <1>6, <3>1 DEF StagedFrom
    <3> QED
      BY <1>6, <2>1, <3>2
  <2>2. CASE pc = "commit"
    <3>1. StagedFrom(backup[job.id])
      BY <1>0, <1>6, <2>2 DEF StagedInv
    <3>2. StagedFrom(backup[job.id])'
      BY <1>6, <3>1 DEF StagedFrom
    <3> QED
      BY <1>6, <2>2, <3>2
  <2> QED
    BY <1>6, <2>1, <2>2
<1>7. ASSUME NEW p \in Addons, NEW f \in Files, AddonWritesFile(p, f)
      PROVE  /\ pc' = "backup" => StagedFrom(addon[job.pkg])'
             /\ pc' = "commit" => StagedFrom(backup[job.id])'
  <2>1. /\ UNCHANGED <<txnVars, engine, faults, recoverFailed>>
        /\ addon[p] \in Dirs /\ f \notin addon[p].owned /\ addon[p].file[f] = "absent"
        /\ addon'[p] \in Dirs /\ addon'[p].owned = addon[p].owned
        /\ addon'[p].file = [addon[p].file EXCEPT ![f] = "user"]
        /\ \A q \in Addons \ {p} : addon'[q] = addon[q]
    BY <1>7, WrittenFile
  <2>2. Installing
    BY <2>1 DEF engine
  <2>3. CASE p = job.pkg /\ pc = "backup"
    <3>1. late' = late \cup {f}
      BY <1>7, <2>2, <2>3 DEF AddonWritesFile
    <3>2. PICK survivors \in SUBSET Untracked(addon[p]) :
             /\ Untracked(addon[p]) \ late \subseteq survivors
             /\ staging[job.id] = Store!Installed(job.ver, addon[p], survivors)
      <4>1. StagedFrom(addon[job.pkg])
        BY <1>0, <2>2, <2>3 DEF StagedInv
      <4> QED
        BY <2>3, <4>1 DEF StagedFrom
    <3>3. /\ Untracked(addon'[p]) = Untracked(addon[p]) \cup {f}
          /\ Store!Installed(job.ver, addon'[p], survivors)
               = Store!Installed(job.ver, addon[p], survivors)
      <4>1. addon[p] # NoDir /\ addon'[p] # NoDir
        BY <2>1, ConstantsAssumption
      <4> DEFINE dir == addon[p]
                 new == addon'[p]
      <4>3. /\ dir \in Dirs /\ new \in Dirs /\ dir # NoDir /\ new # NoDir
            /\ f \in Files \ dir.owned /\ dir.file[f] = "absent"
            /\ new.owned = dir.owned /\ new.file = [dir.file EXCEPT ![f] = "user"]
            /\ survivors \subseteq Untracked(dir)
        BY <2>1, <4>1
      <4> HIDE DEF dir, new
      <4>4. /\ Untracked(new) = Untracked(dir) \cup {f}
            /\ Store!Installed(job.ver, new, survivors) = Store!Installed(job.ver, dir, survivors)
        BY <4>3, WrittenWhileStaged
      <4> QED
        BY <4>4 DEF dir, new
    <3>4. staging'[job.id] = Store!Installed(job.ver, addon'[p], survivors)
      BY <2>1, <3>2, <3>3 DEF txnVars
    <3>5. Untracked(addon'[p]) \ late' \subseteq survivors
      BY <3>1, <3>2, <3>3
    <3>6. job' = job /\ pc' = "backup"
      BY <2>1, <2>3 DEF engine
    <3>7. StagedFrom(addon[job.pkg])'
      <4>1. /\ survivors \in SUBSET Untracked(addon'[job'.pkg])
            /\ Untracked(addon'[job'.pkg]) \ late' \subseteq survivors
            /\ staging'[job'.id] = Store!Installed(job'.ver, addon'[job'.pkg], survivors)
        BY <2>3, <3>3, <3>4, <3>5, <3>6
      <4> QED
        BY <4>1 DEF StagedFrom
    <3> QED
      BY <3>6, <3>7
  <2>4. CASE ~(p = job.pkg /\ pc = "backup")
    <3>1. late' = late
      BY <1>7, <2>4 DEF AddonWritesFile
    <3> QED
      BY <1>0, <1>6, <2>1, <2>2, <2>4, <3>1 DEF txnVars, engine
  <2> QED
    BY <2>3, <2>4
<1>8. ASSUME NEW p \in Addons, AddonWritesSettings(p)
      PROVE  /\ pc' = "backup" => StagedFrom(addon[job.pkg])'
             /\ pc' = "commit" => StagedFrom(backup[job.id])'
  BY <1>6, <1>8 DEF AddonWritesSettings, txnVars, engine
<1>9. CASE Crash \/ Boot \/ RecoverStep \/ UNCHANGED vars
  BY <1>6, <1>9, OtherSteps DEF vars, engine, disk, history
<1> QED
  BY <1>1, <1>2, <1>3, <1>4, <1>5, <1>7, <1>8, <1>9 DEF Next, InstallStep, EnvironmentStep
-----------------------------------------------------------------------------
(* The theorems                                                             *)

\* The inductive invariant of the recovery, settings and refinement theorems.
FullInv == IInv /\ TxnInv /\ TreeInv /\ StagedInv

\* There is no transaction before the first session.
LEMMA TxnInit == Init => TxnInv
<1> SUFFICES ASSUME Init PROVE TxnInv
  OBVIOUS
<1>1. /\ phase = "down" /\ job = NoJob /\ pc = "idle"
      /\ \A i \in Ids : ~Present(i) /\ confBackup[i] = 0
  BY DEF Init, Present
<1>2. StepInv
  BY StepInit
<1>3. InstallTxn /\ RestoreTxn /\ UninstallTxn
  BY <1>1 DEF InstallTxn, RestoreTxn, UninstallTxn, Installing, Restoring, Uninstalling
<1>4. LeftoverInv /\ BackupInv
  BY <1>1 DEF LeftoverInv, BackupInv, BackupsHaveOwners, ClearedIsSpent, Uninstalling
<1> QED
  BY <1>2, <1>3, <1>4 DEF TxnInv

\* Every step keeps what is known of the transactions.
LEMMA TxnStep == IInv /\ TxnInv /\ [Next]_vars => TxnInv'
<1> SUFFICES ASSUME IInv, TxnInv, [Next]_vars PROVE TxnInv'
  OBVIOUS
<1>1. StepInv' /\ InstallTxn' /\ RestoreTxn' /\ UninstallTxn'
  BY StepStep, InstallTxnStep, RestoreTxnStep, UninstallTxnStep DEF TxnInv
<1>2. LeftoverInv'
  BY LeftoverStep DEF TxnInv
<1>3. BackupInv'
  BY BackupsHaveOwnersStep, ClearedIsSpentStep DEF BackupInv
<1> QED
  BY <1>1, <1>2, <1>3 DEF TxnInv

\* All of it holds in every reachable state.
THEOREM FullInvariance == Spec => []FullInv
<1>1. Init => FullInv
  <2>1. Init => StagedInv
    BY DEF Init, StagedInv, Installing
  <2> QED
    BY <2>1, InitInv, TxnInit, TreeInit DEF FullInv
<1>2. FullInv /\ [Next]_vars => FullInv'
  BY InvStep, TxnStep, TreeStep, StagedStep DEF FullInv
<1> QED
  BY <1>1, <1>2, PTL DEF Spec

\* Once vh_engine_recover has finished, the running job's transaction is the only
\* one, as long as no call failed and no recovery gave up: no leftover backup is
\* there to be restored over a later install or wiped when its id comes back.
THEOREM RecoveryIsComplete == Spec => []RecoveryComplete
<1>1. FullInv => RecoveryComplete
  BY DEF FullInv, TxnInv, LeftoverInv, RecoveryComplete
<1> QED
  BY <1>1, FullInvariance, PTL

\* An install that ends with one failed call behind it leaves the addon in its
\* directory, or there was none, or it ended before it had moved anything.
THEOREM InstallsRollBack == Spec => SingleFailureRollsBack
<1> DEFINE RollsBack ==
      job # NoJob /\ job.op = "install" /\ job' = NoJob /\ phase' = "up" /\ faults' <= 1 =>
        \/ addon'[job.pkg] # NoDir
        \/ addon[job.pkg] = NoDir /\ (pc = "abort" \/ backup[job.id] = NoDir)
<1>1. FullInv /\ [Next]_vars => [RollsBack]_vars
  <2> SUFFICES ASSUME FullInv, Next, job # NoJob, job.op = "install", job' = NoJob,
                      phase' = "up", faults' <= 1
               PROVE  \/ addon'[job.pkg] # NoDir
                      \/ addon[job.pkg] = NoDir /\ (pc = "abort" \/ backup[job.id] = NoDir)
    OBVIOUS
  <2>1. /\ job.id \in Ids /\ job.pkg \in Addons /\ phase = "up"
        /\ InstallTxn /\ (pc = "rollback" => faults > 0) /\ faults \in Nat
        /\ addon \in [Addons -> Dirs \cup {NoDir}] /\ Installing
    BY DEF Installing, FullInv, IInv, TypeOK, EngineTypeOK, DiskTypeOK, HistoryTypeOK, Jobs,
           PhaseInv, TxnInv, StepInv
  <2>2. CASE BackUpAddon
    BY <2>1, <2>2 DEF BackUpAddon, Goto
  <2>3. CASE RollBackAddon
    BY <2>1, <2>3 DEF RollBackAddon, PutBack, At, Fails
  <2>4. CASE CleanUp
    BY <2>1, <2>4 DEF CleanUp, InstallTxn, Installing
  <2>5. job' = job \/ BackUpAddon \/ RollBackAddon \/ CleanUp
    <3>1. CASE InstallStep
      BY <3>1 DEF InstallStep, OpenTransaction, WriteJournal, Download, VerifyHash, Inspect,
                  PreserveUntracked, CommitAddon, Goto
    <3>2. CASE UninstallStep \/ RestoreStep
      <4>1. ~UninstallStep
        BY <2>1, UninstallKeeps DEF Installing, Uninstalling
      <4> QED
        BY <3>2, <4>1 DEF RestoreStep, StageSettings, CopySettings, BackUpSettings,
           CommitSettings, DropCopy, PutBackSettings, RetainSettings, At
    <3>3. CASE StartJob \/ Crash \/ Boot
      BY <2>1, <3>3 DEF StartJob, Crash, Boot
    <3>4. CASE RecoverStep
      BY <2>1, <3>4 DEF RecoverStep, RecoverAddon, RecoverSettings, RecoverNothing, RecoverRemove,
                        RecoverDone, Visit
    <3>5. CASE EnvironmentStep
      BY <3>5 DEF EnvironmentStep, AddonWritesFile, AddonWritesSettings, engine
    <3> QED
      BY <3>1, <3>2, <3>3, <3>4, <3>5 DEF Next
  <2> QED
    BY <2>2, <2>3, <2>4, <2>5
<1> QED
  BY <1>1, FullInvariance, PTL DEF Spec, SingleFailureRollsBack

\* What recovery set aside stays.
LEMMA RecoveredStays ==
  ASSUME IInv, [Next]_vars
  PROVE  \A i \in Ids : \A p \in Addons : recovered[i][p] # 0 => recovered'[i][p] = recovered[i][p]
<1>1. ASSUME NEW k \in Ids, RecoverSettings(k)
      PROVE  \A i \in Ids : \A p \in Addons :
               recovered[i][p] # 0 => recovered'[i][p] = recovered[i][p]
  <2>1. journal[k].pkg \in Addons /\ recovered \in [Ids -> [Addons -> Nat]]
    BY <1>1 DEF RecoverSettings, IInv, TypeOK, DiskTypeOK, Journals
  <2> QED
    BY <1>1, <2>1 DEF RecoverSettings
<1>2. CASE InstallStep \/ CleanUp
  BY <1>2 DEF InstallStep, OpenTransaction, WriteJournal, Download, VerifyHash, Inspect,
              PreserveUntracked, BackUpAddon, CommitAddon, RollBackAddon, PutBack, CleanUp,
              disk, confVars
<1>3. CASE UninstallStep
  BY <1>3, UninstallKeeps DEF confVars
<1>4. CASE RestoreStep
  BY <1>4 DEF RestoreStep, StageSettings, CopySettings, BackUpSettings, CommitSettings, DropCopy,
              PutBackSettings, RetainSettings, confVars
<1>5. CASE RecoverStep
  BY <1>1, <1>5 DEF RecoverStep, RecoverAddon, RecoverNothing, RecoverRemove,
              RecoverDone, confVars, disk
<1>6. CASE StartJob \/ Crash \/ Boot \/ EnvironmentStep \/ UNCHANGED vars
  BY <1>6 DEF StartJob, Crash, Boot, EnvironmentStep, AddonWritesFile, AddonWritesSettings, vars,
              disk, confVars
<1> QED
  BY <1>2, <1>3, <1>4, <1>5, <1>6 DEF Next

\* A trusted step that empties the backup of settings puts them somewhere else,
\* unless an earlier transaction of that id has kept settings or they were refused.
LEMMA EmptiedBackup ==
  ASSUME FullInv, [Next]_vars, Trusted', NEW i \in Ids, NEW t, confBackup[i] = t, t # 0,
         confBackup'[i] # t
  PROVE  KeptSomewhere(i) \/ t \in refused \/ OnDisk(t)'
<1>1. /\ IInv /\ TxnInv /\ Trusted /\ faults' = faults /\ faults = 0 /\ faults \in Nat
      /\ DiskTypeOK /\ Present(i)
  BY TrustedBefore DEF FullInv, Trusted, IInv, TypeOK, HistoryTypeOK, Present
<1>2. job # NoJob => job.id \in Ids /\ job.pkg \in Addons
  BY <1>1 DEF IInv, TypeOK, EngineTypeOK, Jobs
<1>3. ASSUME NEW k \in Ids, CutShort(k) \/ Leave(k, {}, NoDir), Removing(k)
      PROVE  KeptSomewhere(i) \/ t \in refused
  <2>1. i = k
    BY <1>1, <1>3, RemovalPresent
  <2> QED
    BY <1>1, <1>3, <2>1, RemovedIsSpent DEF Spent
<1>4. pc = "open" /\ job # NoJob => job.id # i
  BY <1>1 DEF TxnInv, LeftoverInv
<1>5. CASE InstallStep
  <2>1. CASE OpenTransaction
    <3>1. Leave(job.id, {}, NoDir) /\ job # NoJob /\ pc = "open"
      BY <1>1, <2>1 DEF OpenTransaction, At, Fails
    <3> QED
      BY <1>1, <1>2, <1>4, <3>1, RemovalPresent
  <2> QED
    BY <1>5, <2>1 DEF InstallStep, WriteJournal, Download, VerifyHash, Inspect, PreserveUntracked,
       BackUpAddon, CommitAddon, RollBackAddon, disk
<1>6. CASE RestoreStep
  <2>1. CASE StageSettings \/ CopySettings \/ CommitSettings \/ DropCopy
    BY <2>1 DEF StageSettings, CopySettings, CommitSettings, DropCopy, txnVars
  <2>2. CASE BackUpSettings
    <3>1. /\ pc = "backup" /\ Restoring
          /\ \A k \in Ids : k # job.id => confBackup'[k] = confBackup[k]
      BY <1>1, <1>2, <2>2 DEF BackUpSettings, At, Restoring, DiskTypeOK
    <3>2. confBackup[job.id] = 0
      BY <1>1, <3>1 DEF TxnInv, RestoreTxn
    <3> QED
      BY <3>1, <3>2
  <2>3. CASE PutBackSettings
    <3>1. /\ job # NoJob /\ i = job.id /\ conf' = [conf EXCEPT ![job.pkg] = confBackup[i]]
      BY <1>1, <2>3 DEF PutBackSettings, At, DiskTypeOK
    <3>2. conf'[job.pkg] = t
      BY <1>1, <1>2, <3>1 DEF DiskTypeOK
    <3> QED
      BY <1>2, <3>1, <3>2 DEF OnDisk
  <2>4. CASE RetainSettings
    <3>1. /\ job # NoJob
          /\ \/ UNCHANGED confBackup
             \/ /\ confBackup' = [confBackup EXCEPT ![job.id] = 0]
                /\ kept' = [kept EXCEPT ![job.id][job.pkg] = confBackup[job.id]]
      BY <2>4 DEF RetainSettings, At
    <3>2. i = job.id /\ kept' = [kept EXCEPT ![job.id][job.pkg] = confBackup[job.id]]
      BY <1>1, <1>2, <3>1 DEF DiskTypeOK
    <3>3. kept'[i][job.pkg] = confBackup[i]
      BY <1>1, <1>2, <3>1, <3>2 DEF DiskTypeOK
    <3> QED
      BY <1>2, <3>1, <3>3 DEF OnDisk
  <2> QED
    BY <1>6, <2>1, <2>2, <2>3, <2>4 DEF RestoreStep
<1>7. CASE UninstallStep
  BY <1>7, UninstallKeeps DEF txnVars
<1>8. CASE CleanUp
  <2>1. job # NoJob /\ Leave(job.id, {}, NoDir) /\ Removing(job.id)
    BY <1>1, <1>8 DEF CleanUp, RemoveTransaction, Fails, Removing
  <2> QED
    BY <1>2, <1>3, <2>1
<1>9. CASE Crash
  BY <1>3, <1>9 DEF Crash, txnVars
<1>10. CASE RecoverRemove
  <2>1. Leave(rec, {}, NoDir) /\ rec \in Ids /\ Removing(rec)
    BY <1>1, <1>10 DEF RecoverRemove, Fails, TxnInv, StepInv, Removing
  <2> QED
    BY <1>3, <2>1
<1>11. ASSUME NEW k \in Ids, RecoverSettings(k) PROVE OnDisk(t)'
  <2> DEFINE p == journal[k].pkg
  <2>1. p \in Addons
    BY <1>1, <1>11 DEF RecoverSettings, IInv, TypeOK, DiskTypeOK, Journals
  <2>2. i = k
    <3>1. confBackup' \in {confBackup, [confBackup EXCEPT ![k] = 0]}
      BY <1>11 DEF RecoverSettings
    <3> QED
      BY <1>1, <3>1 DEF DiskTypeOK
  <2>3. conf'[p] = confBackup[i] \/ recovered'[i][p] = confBackup[i]
    BY <1>1, <1>11, <2>1, <2>2 DEF RecoverSettings, IInv, TypeOK, DiskTypeOK
  <2> QED
    BY <2>1, <2>3 DEF OnDisk
<1>12. CASE StartJob \/ Boot \/ EnvironmentStep \/ UNCHANGED vars
  BY <1>12 DEF StartJob, Boot, EnvironmentStep, AddonWritesFile, AddonWritesSettings, vars, disk,
               txnVars
<1> QED
  BY <1>5, <1>6, <1>7, <1>8, <1>9, <1>10, <1>11, <1>12
     DEF Next, RecoverStep, RecoverAddon, RecoverNothing, RecoverDone, disk

\* A settings directory that a restore moved aside disappears, while no call fails
\* for a reason of its own and no recovery gives up, only with a transaction whose id
\* kept settings in an earlier session, or because the addon wrote new settings.
THEOREM SettingsLossIsKnown == Spec => SettingsLostOnlyTwoWays
<1> DEFINE TwoWays ==
      \A t \in displaced : OnDisk(t) /\ ~OnDisk(t)' /\ Trusted' =>
        \/ t \in refused
        \/ \E i \in Ids : confBackup[i] = t /\ \E p \in Addons : kept[i][p] # 0
<1>1. FullInv /\ [Next]_vars => TwoWays
  <2> SUFFICES ASSUME FullInv, [Next]_vars, NEW t \in displaced, OnDisk(t), ~OnDisk(t)', Trusted'
               PROVE  t \in refused \/ \E i \in Ids : confBackup[i] = t /\ KeptSomewhere(i)
    BY DEF KeptSomewhere
  <2>1. IInv /\ t # 0 /\ \A p \in Addons : conf[p] # t
    BY DEF FullInv, TreeInv
  <2>2. ASSUME NEW i \in Ids, NEW p \in Addons, t \in {kept[i][p], recovered[i][p]}
        PROVE  FALSE
    BY <2>1, <2>2, KeptStays, RecoveredStays DEF OnDisk
  <2>3. PICK i \in Ids : confBackup[i] = t
    BY <2>1, <2>2 DEF OnDisk
  <2>4. confBackup'[i] # t
    BY <2>3 DEF OnDisk
  <2>5. KeptSomewhere(i) \/ t \in refused
    BY <2>1, <2>3, <2>4, EmptiedBackup
  <2> QED
    BY <2>3, <2>5
<1>2. FullInv /\ [Next]_vars => [TwoWays]_vars
  BY <1>1
<1> QED
  BY <1>2, FullInvariance, PTL DEF Spec, SettingsLostOnlyTwoWays
-----------------------------------------------------------------------------
(* The refinement of AddonStore                                             *)

\* The abstract store: where each addon is.
store == [p \in Addons |-> Live(p)]

\* The transactions with a backup of addon p, over journals js and backups bs.
Saved(js, bs, p) == {i \in Ids : js[i] = [kind |-> "package", pkg |-> p] /\ bs[i] # NoDir}

\* Live over given directories, journals and backups.
LiveIn(dirs, js, bs, p) ==
  IF dirs[p] # NoDir THEN dirs[p]
  ELSE IF Saved(js, bs, p) = {} THEN NoDir ELSE bs[CHOOSE i \in Saved(js, bs, p) : TRUE]

\* Live depends on these three variables.
LEMMA LiveIsLiveIn ==
  ASSUME NEW p \in Addons
  PROVE  /\ Live(p) = LiveIn(addon, journal, backup, p)
         /\ Live(p)' = LiveIn(addon', journal', backup', p)
BY DEF Live, LiveIn, Saved

\* An addon whose directory and whose saved backups are as before is where it was.
LEMMA LiveStays ==
  ASSUME NEW p \in Addons, addon'[p] = addon[p],
         addon[p] = NoDir =>
           \A i \in Ids : \/ journal'[i] = journal[i] /\ backup'[i] = backup[i]
                          \/ /\ i \notin Saved(journal, backup, p)
                             /\ i \notin Saved(journal', backup', p)
  PROVE  Live(p)' = Live(p)
<1>1. CASE addon[p] # NoDir
  BY <1>1, LiveIsLiveIn DEF LiveIn
<1>2. CASE addon[p] = NoDir
  <2>1. Saved(journal', backup', p) = Saved(journal, backup, p)
    BY <1>2 DEF Saved
  <2>2. \A i \in Saved(journal, backup, p) : backup'[i] = backup[i]
    BY <1>2 DEF Saved
  <2> DEFINE first == CHOOSE i \in Saved(journal, backup, p) : TRUE
  <2>3. Saved(journal, backup, p) # {} => first \in Saved(journal, backup, p)
    OBVIOUS
  <2>4. Saved(journal, backup, p) # {} => backup'[first] = backup[first]
    BY <2>2, <2>3
  <2> QED
    BY <1>2, <2>1, <2>4, LiveIsLiveIn DEF LiveIn
<1> QED
  BY <1>1, <1>2

\* The one backup there is of an addon without a directory is where the addon is.
LEMMA LiveInBackup ==
  ASSUME NEW dirs, NEW js, NEW bs, NEW p, NEW i, dirs[p] = NoDir,
         Saved(js, bs, p) = {i}
  PROVE  LiveIn(dirs, js, bs, p) = bs[i]
<1>1. (CHOOSE k \in Saved(js, bs, p) : TRUE) = i
  OBVIOUS
<1> QED
  BY <1>1 DEF LiveIn

\* While nothing failed there is at most one transaction, the running job's.
LEMMA OneTransaction ==
  ASSUME FullInv, Trusted, job # NoJob, NEW p \in Addons
  PROVE  Saved(journal, backup, p) \subseteq {job.id}
<1>1. \A i \in Ids : Present(i) => job.id = i
  BY DEF FullInv, TxnInv, LeftoverInv, IInv, PhaseInv
<1> QED
  BY <1>1 DEF Saved, Present
-----------------------------------------------------------------------------
\* What a step that moves no addon for good is to the abstract store.
Stutters == UNCHANGED <<store, late>>
Settles == UNCHANGED store /\ late' = {}

\* All addons are where they were when no directory moves and the transactions
\* differ only where there is no backup, before and after.
LEMMA StoreStays ==
  ASSUME UNCHANGED addon,
         \A p \in Addons : addon[p] = NoDir =>
           \A i \in Ids : \/ journal'[i] = journal[i] /\ backup'[i] = backup[i]
                          \/ /\ i \notin Saved(journal, backup, p)
                             /\ i \notin Saved(journal', backup', p)
  PROVE  UNCHANGED store
BY LiveStays DEF store

\* Removing a transaction, or parts of it, moves no addon.
LEMMA RemovalStays ==
  ASSUME FullInv, Trusted, UNCHANGED addon, NEW i \in Ids,
         CutShort(i) \/ Leave(i, {}, NoDir), Removing(i)
  PROVE  UNCHANGED store
<1>1. Spent(i)
  BY RemovedIsSpent DEF FullInv
<1>2. /\ \A k \in Ids \ {i} : journal'[k] = journal[k] /\ backup'[k] = backup[k]
      /\ backup[i] = NoDir => backup'[i] = NoDir
      /\ journal'[i] \in {journal[i], NoJournal}
  BY RemovalPresent DEF FullInv
<1>3. \A p \in Addons : [kind |-> "package", pkg |-> p] # NoJournal
  BY ConstantsAssumption DEF Journals
<1>4. \A p \in Addons : addon[p] = NoDir =>
         i \notin Saved(journal, backup, p) /\ i \notin Saved(journal', backup', p)
  BY <1>1, <1>2, <1>3 DEF Saved, Spent
<1> QED
  BY <1>2, <1>4, StoreStays

\* Every trusted step but those that change an addon's directory for good.
LEMMA QuietStep ==
  ASSUME FullInv, [Next]_vars, Trusted'
  PROVE  \/ Stutters \/ Settles
         \/ CommitAddon \/ UninstallStep \/ EnvironmentStep
<1> USE DEF Stutters, Settles
<1>1. IInv /\ TxnInv /\ Trusted /\ faults' = faults /\ faults = 0
  BY TrustedBefore DEF FullInv, Trusted
<1>2. /\ job # NoJob => job.id \in Ids /\ job.pkg \in Addons
      /\ addon \in [Addons -> Dirs \cup {NoDir}] /\ journal \in [Ids -> Journals \cup {NoJournal}]
      /\ staging \in [Ids -> Dirs \cup {NoDir}] /\ backup \in [Ids -> Dirs \cup {NoDir}]
  BY <1>1 DEF IInv, TypeOK, EngineTypeOK, DiskTypeOK, Jobs
<1>3. ASSUME UNCHANGED <<addon, journal, backup>> PROVE UNCHANGED store
  BY <1>3, StoreStays
<1>4. ASSUME UNCHANGED addon, NEW i \in Ids, backup[i] = NoDir, backup'[i] = NoDir,
             \A k \in Ids \ {i} : journal'[k] = journal[k] /\ backup'[k] = backup[k]
      PROVE  UNCHANGED store
  BY <1>4, StoreStays DEF Saved
<1>5. CASE OpenTransaction
  <2>1. PICK i \in Ids : i = job.id
    BY <1>2, <1>5 DEF OpenTransaction, At
  <2>2. /\ UNCHANGED <<addon, late>> /\ Leave(i, {}, NoDir) /\ job # NoJob /\ pc = "open"
    BY <1>1, <1>5, <2>1 DEF OpenTransaction, At, Fails
  <2>3. ~Present(i)
    BY <1>1, <2>1, <2>2 DEF TxnInv, LeftoverInv
  <2>4. /\ backup[i] = NoDir /\ backup'[i] = NoDir
        /\ \A k \in Ids \ {i} : journal'[k] = journal[k] /\ backup'[k] = backup[k]
    BY <1>1, <2>2, <2>3, RemovalPresent DEF Present
  <2> QED
    BY <1>4, <2>2, <2>4
<1>6. CASE Download \/ VerifyHash \/ Inspect \/ PreserveUntracked
  BY <1>3, <1>6 DEF Download, VerifyHash, Inspect, PreserveUntracked, disk, history
<1>7. CASE RollBackAddon
  BY <1>1, <1>7 DEF RollBackAddon, At, TxnInv, StepInv, Installing
<1>8. CASE BackUpAddon
  <2>0. Installing
    BY <1>8 DEF BackUpAddon, At, Installing
  <2>p. PICK p \in Addons, i \in Ids : p = job.pkg /\ i = job.id
    BY <1>2, <2>0 DEF Installing
  <2>a. /\ UNCHANGED <<late, journal>>
        /\ \/ UNCHANGED <<addon, backup>>
           \/ /\ addon' = [addon EXCEPT ![p] = NoDir]
              /\ backup' = [backup EXCEPT ![i] = addon[p]]
        /\ pc = "backup"
    BY <1>1, <1>8, <2>0, <2>p DEF BackUpAddon, At, Fails
  <2>b. CASE UNCHANGED <<addon, backup>>
    BY <1>3, <2>a, <2>b
  <2>c. CASE /\ addon' = [addon EXCEPT ![p] = NoDir]
             /\ backup' = [backup EXCEPT ![i] = addon[p]]
    <3>1. /\ UNCHANGED <<late, journal>>
          /\ addon' = [addon EXCEPT ![p] = NoDir] /\ backup' = [backup EXCEPT ![i] = addon[p]]
          /\ backup[i] = NoDir /\ journal[i] = [kind |-> "package", pkg |-> p]
      BY <1>1, <2>0, <2>p, <2>a, <2>c DEF TxnInv, InstallTxn, Installing, JournalOf
    <3>2. \A q \in Addons : Saved(journal, backup, q) = {}
      BY <1>1, <2>0, <2>p, <3>1, OneTransaction DEF Saved, Installing
    <3>3. \A q \in Addons :
            Saved(journal', backup', q) = IF q = p /\ addon[p] # NoDir THEN {i} ELSE {}
      BY <1>2, <3>1, <3>2 DEF Saved
    <3>4. ASSUME NEW q \in Addons PROVE Live(q)' = Live(q)
      <4>1. CASE q # p
        BY <1>2, <3>1, <3>2, <3>3, <4>1, LiveIsLiveIn DEF LiveIn
      <4>2. CASE q = p /\ addon[p] = NoDir
        BY <1>2, <3>1, <3>2, <3>3, <4>2, LiveIsLiveIn DEF LiveIn
      <4>3. CASE q = p /\ addon[p] # NoDir
        <5>1. addon'[p] = NoDir /\ backup'[i] = addon[p] /\ Saved(journal', backup', p) = {i}
          BY <1>2, <3>1, <3>3, <4>3
        <5>2. LiveIn(addon', journal', backup', p) = backup'[i]
          BY <5>1, LiveInBackup
        <5>3. Live(p)' = addon[p]
          BY <5>1, <5>2, LiveIsLiveIn
        <5> QED
          BY <4>3, <5>3, LiveIsLiveIn DEF LiveIn
      <4> QED
        BY <4>1, <4>2, <4>3
    <3> QED
      BY <3>1, <3>4 DEF store
  <2> QED
    BY <2>a, <2>b, <2>c
<1>9. CASE WriteJournal
  <2>1. PICK i \in Ids : i = job.id
    BY <1>2, <1>9 DEF WriteJournal, At
  <2>2. /\ UNCHANGED <<addon, backup, late>> /\ (Installing \/ Restoring) /\ pc = "journal"
        /\ journal' = [journal EXCEPT ![i] = JournalOf(job)]
    BY <1>1, <1>9, <2>1 DEF WriteJournal, At, Fails, Installing, Restoring
  <2>3. backup[i] = NoDir
    BY <1>1, <2>1, <2>2 DEF TxnInv, InstallTxn, RestoreTxn
  <2>4. \A k \in Ids \ {i} : journal'[k] = journal[k]
    BY <1>2, <2>2
  <2> QED
    BY <1>4, <2>2, <2>3, <2>4
<1>10. CASE StageSettings \/ CopySettings \/ DropCopy
  BY <1>3, <1>10 DEF StageSettings, CopySettings, DropCopy, Finish, txnVars
<1>11. CASE BackUpSettings \/ CommitSettings \/ PutBackSettings \/ RetainSettings
  BY <1>3, <1>11 DEF BackUpSettings, CommitSettings, PutBackSettings, RetainSettings, txnVars
<1>12. CASE CleanUp
  <2>1. /\ UNCHANGED addon /\ late' = {} /\ job # NoJob /\ Leave(job.id, {}, NoDir)
        /\ Removing(job.id)
    BY <1>1, <1>12 DEF CleanUp, Finish, RemoveTransaction, Fails, Removing
  <2> QED
    BY <1>1, <1>2, <2>1, RemovalStays
<1>13. CASE Crash
  <2>1. UNCHANGED addon /\ late' = {}
    BY <1>13 DEF Crash
  <2>2. CASE UNCHANGED txnVars
    BY <1>3, <2>1, <2>2 DEF txnVars
  <2>3. CASE \E i \in Ids : Removing(i) /\ CutShort(i)
    BY <1>1, <2>1, <2>3, RemovalStays
  <2> QED
    BY <1>13, <2>1, <2>2, <2>3 DEF Crash
<1>14. CASE RecoverRemove
  <2>1. /\ UNCHANGED <<addon, late>> /\ Leave(rec, {}, NoDir) /\ rec \in Ids /\ Removing(rec)
    BY <1>1, <1>14 DEF RecoverRemove, Fails, TxnInv, StepInv, Removing
  <2> QED
    BY <1>1, <2>1, RemovalStays
<1>15. ASSUME NEW i \in Ids, RecoverAddon(i) PROVE Stutters
  <2>p. PICK p \in Addons : p = journal[i].pkg
    BY <1>2, <1>15 DEF RecoverAddon, Journals
  <2>1. /\ UNCHANGED <<journal, late>> /\ addon[p] = NoDir /\ backup[i] # NoDir
        /\ addon' = [addon EXCEPT ![p] = backup[i]] /\ backup' = [backup EXCEPT ![i] = NoDir]
        /\ journal[i] # NoJournal /\ journal[i].kind = "package"
    BY <1>1, <1>15, <2>p DEF RecoverAddon, PutBack, Fails
  <2>2. p \in Addons /\ journal[i] = [kind |-> "package", pkg |-> p]
    BY <1>2, <2>p, <2>1 DEF Journals
  <2>3. \A k \in Ids : Present(k) => k = i
    BY <1>1, <2>1 DEF TxnInv, LeftoverInv, Present
  <2>4. \A q \in Addons : Saved(journal, backup, q) = IF q = p THEN {i} ELSE {}
    BY <2>1, <2>2, <2>3 DEF Saved, Present
  <2>5. \A q \in Addons : Saved(journal', backup', q) = {}
    BY <1>2, <2>1, <2>4 DEF Saved
  <2>6. ASSUME NEW q \in Addons PROVE Live(q)' = Live(q)
    <3>1. CASE q # p
      BY <1>2, <2>1, <2>4, <2>5, <3>1, LiveIsLiveIn DEF LiveIn
    <3>2. CASE q = p
      <4>1. LiveIn(addon, journal, backup, p) = backup[i]
        BY <2>1, <2>4, LiveInBackup
      <4>2. Live(p)' = backup[i]
        BY <1>2, <2>1, <2>2, LiveIsLiveIn DEF LiveIn
      <4> QED
        BY <3>2, <4>1, <4>2, LiveIsLiveIn
    <3> QED
      BY <3>1, <3>2
  <2> QED
    BY <2>1, <2>6 DEF store
<1>16. ASSUME NEW i \in Ids, RecoverSettings(i) \/ RecoverNothing(i) PROVE Stutters
  BY <1>3, <1>16 DEF RecoverSettings, RecoverNothing, disk, history
<1>17. CASE StartJob \/ Boot \/ RecoverDone \/ UNCHANGED vars
  BY <1>3, <1>17 DEF StartJob, Boot, RecoverDone, vars, disk, history
<1> QED
  BY <1>5, <1>6, <1>7, <1>8, <1>9, <1>10, <1>11, <1>12, <1>13, <1>14, <1>15, <1>16, <1>17
     DEF Next, InstallStep, RestoreStep, RecoverStep

\* A step that moves one addon to new and leaves the transactions with a backup
\* as they are changes the abstract store at that addon only.
LEMMA StoreAt ==
  ASSUME NEW p \in Addons, NEW new, new # NoDir \/ Saved(journal', backup', p) = {},
         addon \in [Addons -> Dirs \cup {NoDir}], addon' = [addon EXCEPT ![p] = new],
         UNCHANGED <<journal, backup>>
  PROVE  store' = [store EXCEPT ![p] = new]
<1>1. Live(p)' = new
  BY LiveIsLiveIn DEF LiveIn
<1>2. ASSUME NEW q \in Addons, q # p PROVE Live(q)' = Live(q)
  BY <1>2, LiveStays
<1> QED
  BY <1>1, <1>2 DEF store

\* The user's files are those the copy loop looks for.
LEMMA UserFilesAreUntracked == ASSUME NEW dir PROVE Store!UserFiles(dir) = Untracked(dir)
BY DEF Store!UserFiles, Untracked

\* The rename of the staged directory is the abstract update.
LEMMA CommitIsPut ==
  ASSUME FullInv, Trusted', [Next]_vars, CommitAddon
  PROVE  \E p \in Addons : Store!Put(p)
<1>1. Trusted /\ faults' = faults /\ faults = 0 /\ IInv /\ TxnInv
  BY TrustedBefore DEF FullInv, Trusted
<1>2. PICK p \in Addons, i \in Ids, v \in Versions : p = job.pkg /\ i = job.id /\ v = job.ver
  BY <1>1 DEF CommitAddon, At, IInv, TypeOK, EngineTypeOK, Jobs, InstallInv, Installing
<1>3. /\ addon' = [addon EXCEPT ![p] = staging[i]] /\ UNCHANGED <<journal, backup, late>>
      /\ addon[p] = NoDir /\ staging[i] # NoDir
      /\ journal[i] = [kind |-> "package", pkg |-> p]
  BY <1>1, <1>2
     DEF CommitAddon, At, Fails, TxnInv, InstallTxn, Installing, IInv, InstallInv, JournalOf
<1>4. PICK survivors \in SUBSET Untracked(backup[i]) :
         /\ Untracked(backup[i]) \ late \subseteq survivors
         /\ staging[i] = Store!Installed(v, backup[i], survivors)
  <2>1. StagedFrom(backup[job.id])
    BY <1>1 DEF CommitAddon, At, FullInv, StagedInv, Installing
  <2> QED
    BY <1>2, <2>1 DEF StagedFrom
<1>5. Live(p) = backup[i]
  <2>1. Saved(journal, backup, p) \subseteq {i}
    BY <1>1, <1>2, OneTransaction DEF CommitAddon, At
  <2>2. CASE backup[i] = NoDir
    BY <1>3, <2>1, <2>2, LiveIsLiveIn DEF LiveIn, Saved
  <2>3. CASE backup[i] # NoDir
    <3>1. Saved(journal, backup, p) = {i}
      BY <1>3, <2>1, <2>3 DEF Saved
    <3>2. LiveIn(addon, journal, backup, p) = backup[i]
      <4>1. addon[p] = NoDir
        BY <1>3
      <4> QED
        BY <3>1, <4>1, LiveInBackup
    <3> QED
      BY <3>2, LiveIsLiveIn
  <2> QED
    BY <2>2, <2>3
<1>6. store' = [store EXCEPT ![p] = staging[i]]
  BY <1>1, <1>3, StoreAt DEF IInv, TypeOK, DiskTypeOK
<1>7. store[p] = backup[i]
  BY <1>5 DEF store
<1>8. /\ survivors \in SUBSET Store!UserFiles(store[p])
      /\ Store!UserFiles(store[p]) \ late \subseteq survivors
      /\ store' = [store EXCEPT ![p] = Store!Installed(v, store[p], survivors)]
  BY <1>4, <1>6, <1>7, UserFilesAreUntracked
<1>9. \E w \in Versions : \E s \in SUBSET Store!UserFiles(store[p]) :
        /\ Store!UserFiles(store[p]) \ late \subseteq s
        /\ store' = [store EXCEPT ![p] = Store!Installed(w, store[p], s)]
  BY <1>8
<1>10. UNCHANGED late
  BY <1>3
<1>11. Store!Put(p)
  BY <1>9, <1>10 DEF Store!Put, store
<1> QED
  BY <1>11

\* The calls of an uninstall are the abstract removal of one file, of the list
\* and of the directory, or do nothing.
LEMMA UninstallIsUninstall ==
  ASSUME FullInv, Trusted', [Next]_vars, UninstallStep
  PROVE  Stutters \/ Settles \/ \E p \in Addons : Store!Uninstall(p)
<1>1. Trusted /\ faults' = faults /\ faults = 0 /\ IInv /\ TxnInv
  BY TrustedBefore DEF FullInv, Trusted
<1>2. UNCHANGED <<journal, backup>> /\ Uninstalling
  BY UninstallKeeps DEF txnVars
<1>3. PICK p \in Addons : p = job.pkg
  BY <1>1, <1>2 DEF Uninstalling, IInv, TypeOK, EngineTypeOK, Jobs
<1>4. addon \in [Addons -> Dirs \cup {NoDir}]
  BY <1>1 DEF IInv, TypeOK, DiskTypeOK
<1>5. addon[p] # NoDir => store[p] = addon[p] /\ addon[p] \in Dirs
  BY <1>4, LiveIsLiveIn DEF store, LiveIn
<1>6. ASSUME UNCHANGED addon PROVE UNCHANGED store
  BY <1>2, <1>6, StoreStays
<1>7. CASE ListOwned
  BY <1>6, <1>7 DEF ListOwned, disk, Stutters
<1>8. CASE RemoveOwned
  <2>1. PICK f \in toRemove : addon' = [addon EXCEPT ![p].file[f] = "absent"]
    <3>1. ~Fails
      BY <1>1 DEF Fails
    <3>2. PICK f \in toRemove :
             \/ Works /\ addon' = [addon EXCEPT ![job.pkg].file[f] = "absent"]
             \/ Fails /\ UNCHANGED addon
      BY <1>8, Zenon DEF RemoveOwned
    <3> QED
      BY <1>3, <3>1, <3>2
  <2>2. addon[p] # NoDir /\ f \in addon[p].owned
    BY <1>1, <1>2, <1>3, <2>1 DEF IInv, UninstallInv, TxnInv, UninstallTxn
  <2> DEFINE new == [addon[p] EXCEPT !.file[f] = "absent"]
  <2>3. new # NoDir /\ addon' = [addon EXCEPT ![p] = new]
    <3>1. f \in Files
      BY <1>5, <2>2 DEF Dirs
    <3>2. new \in Dirs
      BY <1>5, <2>2, <3>1, WriteUntracked DEF Content
    <3> QED
      BY <2>1, <3>2, ConstantsAssumption
  <2>4. store' = [store EXCEPT ![p] = new]
    <3> HIDE DEF new
    <3> QED
      BY <1>2, <1>4, <2>3, StoreAt
  <2>5. store' = [store EXCEPT ![p].file[f] = "absent"]
    BY <1>5, <2>2, <2>4
  <2>6. late' = late
    BY <1>8, Zenon DEF RemoveOwned
  <2> QED
    BY <1>5, <2>2, <2>5, <2>6 DEF Store!Uninstall, store
<1>9. CASE RemoveMarker
  <2>1. late' = late
    BY <1>9 DEF RemoveMarker
  <2>2. CASE UNCHANGED addon
    BY <1>6, <2>1, <2>2 DEF Stutters
  <2>3. CASE addon[p] # NoDir /\ addon' = [addon EXCEPT ![p].owned = {}]
    <3> DEFINE new == [addon[p] EXCEPT !.owned = {}]
    <3>1. new # NoDir /\ addon' = [addon EXCEPT ![p] = new]
      <4>1. new \in Dirs
        BY <1>5, <2>3, Unowned
      <4> QED
        BY <2>3, <4>1, ConstantsAssumption
    <3>2. store' = [store EXCEPT ![p] = new]
      <4> HIDE DEF new
      <4> QED
        BY <1>2, <1>4, <3>1, StoreAt
    <3>3. store' = [store EXCEPT ![p].owned = {}]
      BY <1>5, <2>3, <3>2
    <3>4. \A f \in addon[p].owned : addon[p].file[f] = "absent"
      BY <1>1, <1>2, <1>3, <1>9, <2>3 DEF RemoveMarker, At, TxnInv, UninstallTxn
    <3> QED
      BY <1>5, <2>1, <2>3, <3>3, <3>4 DEF Store!Uninstall, store
  <2> QED
    BY <1>1, <1>3, <1>9, <2>2, <2>3 DEF RemoveMarker, Fails
<1>10. CASE RemoveDirectory
  <2>1. late' = {}
    BY <1>10 DEF RemoveDirectory, Finish
  <2>2. CASE UNCHANGED addon
    BY <1>6, <2>1, <2>2 DEF Settles
  <2>3. CASE Empty(addon[p]) /\ addon' = [addon EXCEPT ![p] = NoDir]
    <3>1. Saved(journal', backup', p) = {}
      <4>1. \A i \in Ids : ~Present(i)
        BY <1>1, <1>2 DEF TxnInv, LeftoverInv, Uninstalling, IInv, PhaseInv
      <4> QED
        BY <1>2, <4>1 DEF Saved, Present
    <3>2. store' = [store EXCEPT ![p] = NoDir]
      BY <1>2, <1>4, <2>3, <3>1, StoreAt
    <3>3. store[p] # NoDir /\ store[p].owned = {} /\ Store!UserFiles(store[p]) = {}
      BY <1>5, <2>3 DEF Empty, Store!UserFiles
    <3> QED
      BY <2>1, <3>2, <3>3 DEF Store!Uninstall, store
  <2> QED
    BY <1>3, <1>10, <2>2, <2>3 DEF RemoveDirectory
<1> QED
  BY <1>7, <1>8, <1>9, <1>10 DEF UninstallStep

\* What addons write are the abstract writes.
LEMMA EnvironmentIsWrite ==
  ASSUME FullInv, EnvironmentStep
  PROVE  Stutters \/ \E p \in Addons : Store!Write(p)
<1>1. IInv /\ addon \in [Addons -> Dirs \cup {NoDir}]
  BY DEF FullInv, IInv, TypeOK, DiskTypeOK
<1>2. ASSUME NEW p \in Addons, AddonWritesSettings(p) PROVE Stutters
  BY <1>2, StoreStays DEF AddonWritesSettings, txnVars, Stutters
<1>3. ASSUME NEW p \in Addons, NEW f \in Files, AddonWritesFile(p, f) PROVE Store!Write(p)
  <2>1. /\ addon[p] # NoDir /\ f \notin addon[p].owned /\ addon[p].file[f] = "absent"
        /\ addon' = [addon EXCEPT ![p].file[f] = "user"] /\ late' \in {late, late \cup {f}}
        /\ UNCHANGED <<journal, backup>>
    BY <1>3 DEF AddonWritesFile, txnVars
  <2>2. store[p] = addon[p] /\ addon[p] \in Dirs
    BY <1>1, <2>1, LiveIsLiveIn DEF store, LiveIn
  <2> DEFINE new == [addon[p] EXCEPT !.file[f] = "user"]
  <2>3. new # NoDir /\ addon' = [addon EXCEPT ![p] = new]
    <3>1. new \in Dirs
      BY <2>2, WriteUntracked DEF Content
    <3> QED
      BY <2>1, <3>1, ConstantsAssumption
  <2>4. store' = [store EXCEPT ![p] = new]
    <3> HIDE DEF new
    <3> QED
      BY <1>1, <2>1, <2>3, StoreAt
  <2>5. store' = [store EXCEPT ![p].file[f] = "user"]
    BY <2>2, <2>4
  <2> QED
    BY <2>1, <2>2, <2>5 DEF Store!Write, store
<1> QED
  BY <1>2, <1>3 DEF EnvironmentStep

\* The engine implements AddonStore: in every behaviour with no failed call and no
\* failed recovery, crashes at any step included, each addon is replaced in one
\* step by a whole verified version that carries the user's files over, and
\* changes in no other way but by an uninstall or its own writes.
THEOREM Refinement == Spec => ImplementsAddonStore
<1>1. Init => Store!Init
  BY DEF Init, Store!Init, Trusted
<1>2. FullInv /\ [Next]_vars => [Store!Next]_(Store!storeVars)
  <2> SUFFICES ASSUME FullInv, [Next]_vars PROVE Store!Next \/ UNCHANGED Store!storeVars
    OBVIOUS
  <2>1. CASE ~Trusted'
    BY <2>1 DEF Store!Next
  <2>2. CASE Trusted'
    <3>1. Trusted
      BY <2>2, TrustedBefore DEF FullInv
    <3>2. Trusted' = Trusted
      BY <2>2, <3>1 DEF Trusted
    <3>3. Stutters \/ Settles
          \/ \E p \in Addons : Store!Put(p) \/ Store!Uninstall(p) \/ Store!Write(p)
      BY <2>2, QuietStep, CommitIsPut, UninstallIsUninstall, EnvironmentIsWrite
    <3>4. Settles => Store!Settle
      BY DEF Settles, Store!Settle, store
    <3>5. Stutters => UNCHANGED Store!storeVars
      BY <3>2 DEF Stutters, Store!storeVars, store
    <3>6. DOMAIN [p \in Addons |-> Live(p)] = Addons
      OBVIOUS
    <3> QED
      BY <3>2, <3>3, <3>4, <3>5, <3>6 DEF Store!Next
  <2> QED
    BY <2>1, <2>2
<1> QED
  BY <1>1, <1>2, FullInvariance, PTL DEF Spec, Store!Spec, ImplementsAddonStore
=============================================================================
