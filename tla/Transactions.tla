---------------------------- MODULE Transactions ----------------------------
(***************************************************************************)
(* The mutating jobs of the native engine (native/src/engine.cpp) and its  *)
(* start-up recovery: install and update of an addon directory, uninstall, *)
(* and restoreProfileSettings, over the file system they change.           *)
(*                                                                         *)
(* mutation_mutex admits one of these jobs at a time, so `job' and `pc'    *)
(* describe the holder.  A file-system call is one step; the process may   *)
(* die between two of them (Crash) and come back (Boot, then the loop of   *)
(* vh_engine_recover).  A recursive removal interrupted by a crash or by a *)
(* locked file leaves any part of the transaction.  Calls that completed   *)
(* before a crash are durable: power loss is not modelled.                 *)
(***************************************************************************)
EXTENDS Naturals, FiniteSets

CONSTANTS
  Addons,     (* package ids other than "vanahub"                          *)
  Versions,   (* catalog versions: what a request's sha256 pins            *)
  Foreign,    (* any archive whose SHA-256 is not the pinned one           *)
  Files,      (* relative paths inside an addon directory                  *)
  Contents,   (* the files each archive carries                            *)
  Unmanaged,  (* the files of a directory the user put there by hand       *)
  Operations, (* the operations that are requested                         *)
  NoDir, NoJournal, NoJob,
  MaxJob,     (* bound: ids vh_job_start hands out in one session          *)
  MaxBoots,   (* bound: sessions                                           *)
  MaxFaults,  (* bound: file-system calls that fail                        *)
  MaxTree     (* bound: distinct contents of settings directories          *)

Artifacts  == Versions \cup {Foreign}
Ids        == 1..MaxJob
Parts      == {"journal", "staging", "settings"}
Content    == Artifacts \cup {"absent", "user"}
\* An existing addon directory; owned is the list in .vanahub-owned, empty
\* when there is no such file.
Dirs       == [file : [Files -> Content], owned : SUBSET Files]
Journals   == [kind : {"package", "settings"}, pkg : Addons]
Jobs       == [op : {"install", "uninstall", "restore"}, id : Ids,
               pkg : Addons, ver : Artifacts]

ASSUME ConstantsAssumption ==
  /\ Foreign \notin Versions
  /\ {"absent", "user"} \cap Artifacts = {}
  /\ Contents \in [Artifacts -> (SUBSET Files) \ {{}}]
  /\ Unmanaged \subseteq Files
  /\ Operations \subseteq {"install", "uninstall", "restore"}
  /\ IsFiniteSet(Addons)
  /\ NoDir \notin Dirs /\ NoJournal \notin Journals /\ NoJob \notin Jobs
  /\ MaxJob \in Nat /\ MaxBoots \in Nat /\ MaxFaults \in Nat /\ MaxTree \in Nat

VARIABLES
  \* the disk
  addon,      \* <install root>/<package>
  conf,       \* <config root>/<package>: which settings it holds, 0 for none
  temp,       \* <config root>/<package>.vanahub-import
  journal,    \* transactions/<id>/transaction.json
  staging,    \* transactions/<id>/staging
  backup,     \* transactions/<id>/backup, of an addon directory
  confBackup, \* transactions/<id>/backup, of a settings directory
  kept,       \* <config root>/vanahub/backups/<id>/<package>
  recovered,  \* <config root>/vanahub/backups/recovered-<id>/<package>
  \* the engine
  phase,      \* is the process down, in vh_engine_recover, or serving jobs
  used,       \* job ids handed out in this session
  job, pc,    \* the job that holds mutation_mutex, and its next step
  fetched,    \* the archive the job has downloaded
  extracted,  \* the files of it that the job has put into staging
  toRemove,   \* the owned files an uninstall has not visited yet
  todo, rec,  \* recovery: directories not visited yet, the one visited now
  \* what happened so far
  boots, faults, nextTree,
  recoverFailed, \* vh_engine_recover has returned VH_FILESYSTEM_ERROR
  torn,       \* addons that may miss files: see AddonsWhole
  tornBackup, \* transactions whose backup may miss files or be another job's
  late,       \* files an addon wrote after its update looked for them
  slip,       \* the install went on after a failure that left its files or list incomplete
  displaced,  \* settings moved aside by a restore and not put back
  refused     \* those not put back because the addon had written new ones

disk    == <<addon, conf, temp, journal, staging, backup, confBackup, kept, recovered>>
engine  == <<phase, used, job, pc, fetched, extracted, toRemove, todo, rec>>
history == <<boots, faults, nextTree, recoverFailed, torn, tornBackup, late, slip,
             displaced, refused>>
vars    == <<disk, engine, history>>

txnVars  == <<journal, staging, backup, confBackup>>
confVars == <<conf, temp, kept, recovered>>
-----------------------------------------------------------------------------
UserDir == [file  |-> [f \in Files |-> IF f \in Unmanaged THEN "user" ELSE "absent"],
            owned |-> {}]

\* The settings the addons have before the first session: those of two addons
\* are not the same directory.
FirstSettings ==
  {c \in [Addons -> {t \in 0..Cardinality(Addons) : t <= MaxTree}] :
     \A p, q \in Addons : c[p] = c[q] /\ c[p] # 0 => p = q}

Init ==
  /\ addon \in [Addons -> {NoDir, UserDir}]
  /\ conf \in FirstSettings
  /\ temp = [p \in Addons |-> 0]
  /\ journal = [i \in Ids |-> NoJournal]
  /\ staging = [i \in Ids |-> NoDir]
  /\ backup = [i \in Ids |-> NoDir]
  /\ confBackup = [i \in Ids |-> 0]
  /\ kept = [i \in Ids |-> [p \in Addons |-> 0]]
  /\ recovered = [i \in Ids |-> [p \in Addons |-> 0]]
  /\ phase = "down" /\ used = {} /\ job = NoJob /\ pc = "idle"
  /\ fetched = Foreign /\ extracted = {} /\ toRemove = {} /\ todo = {} /\ rec = 0
  /\ boots = 0 /\ faults = 0 /\ nextTree = Cardinality(Addons) + 1
  /\ recoverFailed = FALSE /\ torn = {} /\ tornBackup = {}
  /\ late = {} /\ slip = FALSE /\ displaced = {} /\ refused = {}

\* A file-system call either works or fails; the model counts the failures.
Works == UNCHANGED faults
Fails == faults < MaxFaults /\ faults' = faults + 1

At(op, step) == phase = "up" /\ job # NoJob /\ job.op = op /\ pc = step

Present(i) == journal[i] # NoJournal \/ staging[i] # NoDir
                \/ backup[i] # NoDir \/ confBackup[i] # 0

\* What a removal may have left of a directory.
Remains(dir) ==
  {NoDir} \cup
  (IF dir = NoDir THEN {}
   ELSE {[file  |-> [f \in Files |-> IF f \in left THEN dir.file[f] ELSE "absent"],
          owned |-> list] : left \in SUBSET Files, list \in {dir.owned, {}}})

\* transactions/<i> is left with these parts and this directory as its backup.
Leave(i, parts, dir) ==
  /\ journal' = [journal EXCEPT ![i] = IF "journal" \in parts THEN @ ELSE NoJournal]
  /\ staging' = [staging EXCEPT ![i] = IF "staging" \in parts THEN @ ELSE NoDir]
  /\ confBackup' = [confBackup EXCEPT ![i] = IF "settings" \in parts THEN @ ELSE 0]
  /\ backup' = [backup EXCEPT ![i] = dir]

\* fs::remove_all(transaction) stops early: at a locked file, or with the process.
CutShort(i) ==
  \E parts \in SUBSET Parts : \E dir \in Remains(backup[i]) :
    /\ Leave(i, parts, dir)
    /\ tornBackup' = IF dir \in {backup[i], NoDir} THEN tornBackup ELSE tornBackup \cup {i}

\* Mutant: only the downloaded and extracted files are removed.
RemoveStagingOnly(i) ==
  Works /\ Leave(i, {"journal", "settings"}, backup[i]) /\ UNCHANGED tornBackup

\* fs::remove_all(transaction): complete, or cut short by a locked file.
RemoveTransaction(i) ==
  \/ Works /\ Leave(i, {}, NoDir) /\ UNCHANGED tornBackup
  \/ Fails /\ CutShort(i)

\* current->finish: the job ends and mutation_mutex is released.
Finish ==
  /\ job' = NoJob /\ pc' = "idle"
  /\ fetched' = Foreign /\ extracted' = {} /\ toRemove' = {} /\ late' = {} /\ slip' = FALSE
  /\ UNCHANGED <<phase, used, todo, rec>>

Goto(step) ==
  /\ pc' = step
  /\ UNCHANGED <<phase, used, job, todo, rec>>
-----------------------------------------------------------------------------
(* A job takes mutation_mutex and passes its checks.  Ids are unique in a   *)
(* session only; jobs may take the mutex out of id order, and ids also go   *)
(* to jobs that do not take it.                                             *)
First == [install |-> "open", uninstall |-> "list", restore |-> "stage"]

StartJob ==
  /\ phase = "up" /\ job = NoJob
  /\ \E j \in Jobs :
       /\ j.op \in Operations
       /\ j.id \notin used
       /\ IF j.op = "install" THEN j.ver \in Versions ELSE j.ver = Foreign
       /\ job' = j /\ pc' = First[j.op]
       /\ used' = used \cup {j.id}
  /\ UNCHANGED <<disk, history, phase, fetched, extracted, toRemove, todo, rec>>

-----------------------------------------------------------------------------
(* operation "install" or "update"; a restore opens its transaction likewise *)

\* What there is of transactions/<i> comes from a job of the same kind.
SameKind(i) ==
  IF job.op = "install" THEN confBackup[i] = 0 ELSE backup[i] = NoDir /\ staging[i] = NoDir

\* fs::remove_all(transaction) of what an earlier job of that id left, and nobody
\* looks whether it worked.  What a removal leaves of a transaction of the other
\* kind is left out.
OpenTransaction ==
  /\ At("install", "open") \/ At("restore", "open")
  /\ Goto(IF job.op = "install" THEN "journal" ELSE "copy")
  /\ \/ Works /\ Leave(job.id, {}, NoDir) /\ UNCHANGED tornBackup
     \/ /\ Fails /\ Present(job.id) /\ SameKind(job.id)
        /\ \E parts \in SUBSET Parts : \E dir \in Remains(backup[job.id]) :
             Leave(job.id, parts, dir)
        /\ tornBackup' = tornBackup \cup {job.id}
  /\ UNCHANGED <<addon, confVars, fetched, extracted, toRemove, boots, nextTree, recoverFailed,
                 torn, late, slip, displaced, refused>>

JournalOf(j) == [kind |-> IF j.op = "install" THEN "package" ELSE "settings", pkg |-> j.pkg]

\* Mutant: the journal is not written.
Unjournaled ==
  /\ At("install", "journal") \/ At("restore", "journal")
  /\ Goto(IF job.op = "install" THEN "download" ELSE "backup")
  /\ UNCHANGED <<disk, fetched, extracted, toRemove, history>>

\* create_directories and a stream that nobody asks for its errors: a failure
\* leaves an unreadable journal, or the one of the job before.
WriteJournal ==
  /\ At("install", "journal") \/ At("restore", "journal")
  /\ Goto(IF job.op = "install" THEN "download" ELSE "backup")
  /\ \/ Works /\ journal' = [journal EXCEPT ![job.id] = JournalOf(job)]
     \/ /\ Fails
        /\ \/ journal' = [journal EXCEPT ![job.id] = NoJournal]
           \/ /\ journal[job.id] # NoJournal /\ journal[job.id].kind = JournalOf(job).kind
              /\ UNCHANGED journal
  /\ UNCHANGED <<addon, confVars, staging, backup, confBackup, fetched, extracted, toRemove,
                 boots, nextTree, recoverFailed, torn, tornBackup, late, slip, displaced, refused>>

\* download_file delivers some archive, or fails, or sees the cancel flag.
Download ==
  /\ At("install", "download")
  /\ \/ Goto("hash") /\ fetched' \in Artifacts
     \/ Goto("abort") /\ UNCHANGED fetched
  /\ UNCHANGED <<disk, extracted, toRemove, history>>

\* Mutant: the archive is used without comparing its hash.
UnverifiedHash ==
  /\ At("install", "hash") /\ Goto("inspect")
  /\ UNCHANGED <<disk, fetched, extracted, toRemove, history>>

\* sha256_file(archive) against the request's sha256.
VerifyHash ==
  /\ At("install", "hash")
  /\ Goto(IF fetched = job.ver THEN "inspect" ELSE "abort")
  /\ UNCHANGED <<disk, fetched, extracted, toRemove, history>>

\* The staging directory old after these files of archive a were written into it.
Extracted(old, a, files) ==
  [file  |-> [f \in Files |-> IF f \in files THEN a
                              ELSE IF old = NoDir THEN "absent" ELSE old.file[f]],
   owned |-> IF old = NoDir THEN {} ELSE old.owned]

\* inspect_and_extract: the first pass over the archive rejects it, or the second
\* is cancelled or fails, or all files are extracted.  A call that moves to the
\* next entry and fails ends the second pass as if there were no more entries.
Inspect ==
  /\ At("install", "inspect")
  /\ \/ Works /\ Goto("abort") /\ UNCHANGED <<staging, extracted, slip>>
     \/ \E files \in SUBSET Contents[fetched] :
          /\ staging' = [staging EXCEPT ![job.id] = Extracted(@, fetched, files)]
          /\ extracted' = files
          /\ \/ Works /\ Goto("abort") /\ UNCHANGED slip
             \/ Works /\ Goto("preserve") /\ files = Contents[fetched] /\ UNCHANGED slip
             \/ Fails /\ Goto("preserve") /\ files # Contents[fetched] /\ slip' = TRUE
  /\ UNCHANGED <<addon, confVars, journal, backup, confBackup, fetched, toRemove,
                 boots, nextTree, recoverFailed, torn, tornBackup, late, displaced, refused>>

\* The files of an installed directory that its ownership list does not name.
Untracked(dir) ==
  IF dir = NoDir THEN {} ELSE {f \in Files \ dir.owned : dir.file[f] # "absent"}

\* staging after the copy loop reached the files in copied, with list written
\* into it.
Merged(new, old, copied, list) ==
  [file  |-> [f \in Files |-> IF new.file[f] = "absent" /\ f \in copied
                              THEN old.file[f] ELSE new.file[f]],
   owned |-> list]

\* Copy untracked files into staging, then write_ownership.  Nobody looks at the
\* errors: a copy that fails ends the loop, a list of owned files that cannot be
\* read makes them all untracked, and the list that is written may miss names.
PreserveUntracked ==
  /\ At("install", "preserve")
  /\ Goto("backup")
  /\ extracted' = {}
  /\ LET old == addon[job.pkg] IN
     \/ /\ Works /\ UNCHANGED slip
        /\ staging' = [staging EXCEPT ![job.id] = Merged(@, old, Untracked(old), extracted)]
     \/ /\ Fails /\ UNCHANGED slip
        /\ \E copied \in SUBSET {f \in Files : old # NoDir /\ old.file[f] # "absent"} :
             staging' = [staging EXCEPT ![job.id] = Merged(@, old, copied, extracted)]
     \/ /\ Fails /\ slip' = TRUE
        /\ \E list \in (SUBSET extracted) \cup {staging[job.id].owned} :
             staging' = [staging EXCEPT ![job.id] = Merged(@, old, Untracked(old), list)]
  /\ UNCHANGED <<addon, confVars, journal, backup, confBackup, fetched, toRemove,
                 boots, nextTree, recoverFailed, torn, tornBackup, late, displaced, refused>>

\* An addon without a directory has nothing to back up.  Otherwise
\* fs::remove_all(backup) and fs::rename(target, backup): its failure ends the job
\* and leaves the transaction directory behind.
BackUpAddon ==
  /\ At("install", "backup")
  /\ \/ /\ addon[job.pkg] = NoDir /\ Works /\ Goto("commit")
        /\ UNCHANGED <<addon, backup, tornBackup, fetched, extracted, toRemove, late, slip>>
     \/ /\ addon[job.pkg] # NoDir /\ Works /\ Goto("commit")
        /\ addon' = [addon EXCEPT ![job.pkg] = NoDir]
        /\ backup' = [backup EXCEPT ![job.id] = addon[job.pkg]]
        /\ tornBackup' = IF job.pkg \in torn THEN tornBackup \cup {job.id}
                         ELSE tornBackup \ {job.id}
        /\ UNCHANGED <<fetched, extracted, toRemove, late, slip>>
     \/ /\ addon[job.pkg] # NoDir /\ Fails /\ Finish
        /\ \E dir \in Remains(backup[job.id]) :
             /\ backup' = [backup EXCEPT ![job.id] = dir]
             /\ tornBackup' = IF dir \in {backup[job.id], NoDir} THEN tornBackup
                              ELSE tornBackup \cup {job.id}
        /\ UNCHANGED addon
  /\ UNCHANGED <<confVars, journal, staging, confBackup,
                 boots, nextTree, recoverFailed, torn, displaced, refused>>

\* fs::rename(staging, target)
CommitAddon ==
  /\ At("install", "commit")
  /\ \/ /\ Works /\ Goto("cleanup")
        /\ addon' = [addon EXCEPT ![job.pkg] = staging[job.id]]
        /\ staging' = [staging EXCEPT ![job.id] = NoDir]
        /\ torn' = IF slip THEN torn \cup {job.pkg} ELSE torn \ {job.pkg}
     \/ /\ Fails /\ Goto("rollback") /\ UNCHANGED <<addon, staging, torn>>
  /\ UNCHANGED <<confVars, journal, backup, confBackup, fetched, extracted, toRemove,
                 boots, nextTree, recoverFailed, tornBackup, late, slip, displaced, refused>>

\* Mutant: a failed commit ends the job without renaming the backup.
NoRollBack ==
  /\ At("install", "rollback") /\ Works /\ Finish
  /\ UNCHANGED <<disk, boots, nextTree, recoverFailed, torn, tornBackup, displaced, refused>>

\* fs::rename(backup, target): the backup of transaction i becomes addon p.
PutBack(i, p) ==
  /\ addon' = [addon EXCEPT ![p] = backup[i]]
  /\ backup' = [backup EXCEPT ![i] = NoDir]
  /\ torn' = IF i \in tornBackup THEN torn \cup {p} ELSE torn \ {p}

\* rollback_ec is not looked at and the transaction directory stays.
RollBackAddon ==
  /\ At("install", "rollback")
  /\ \/ backup[job.id] = NoDir /\ Works /\ UNCHANGED <<addon, backup, torn>>
     \/ backup[job.id] # NoDir /\ Works /\ PutBack(job.id, job.pkg)
     \/ backup[job.id] # NoDir /\ Fails /\ UNCHANGED <<addon, backup, torn>>
  /\ Finish
  /\ UNCHANGED <<confVars, journal, staging, confBackup,
                 boots, nextTree, recoverFailed, tornBackup, displaced, refused>>

\* fs::remove_all(transaction) at the end of a job, whatever its result.
CleanUp ==
  /\ phase = "up" /\ job # NoJob /\ pc \in {"cleanup", "abort"}
  /\ RemoveTransaction(job.id)
  /\ Finish
  /\ UNCHANGED <<addon, confVars, boots, nextTree, recoverFailed, torn, displaced, refused>>
-----------------------------------------------------------------------------
(* operation "uninstall": no journal, every error code ignored              *)

\* read_ownership(target) may miss names, or all of them when it cannot be opened.
ListOwned ==
  /\ At("uninstall", "list")
  /\ Goto("remove")
  /\ LET dir == addon[job.pkg] IN
     \/ dir = NoDir /\ Works /\ toRemove' = {} /\ UNCHANGED torn
     \/ /\ dir # NoDir
        /\ \/ Works /\ toRemove' = dir.owned
           \/ Fails /\ toRemove' \in SUBSET dir.owned
        /\ torn' = IF toRemove' = {} THEN torn ELSE torn \cup {job.pkg}
  /\ UNCHANGED <<disk, fetched, extracted, boots, nextTree, recoverFailed, tornBackup,
                 late, slip, displaced, refused>>

RemoveOwned ==
  /\ At("uninstall", "remove")
  /\ \E f \in toRemove :
       /\ toRemove' = toRemove \ {f}
       /\ \/ Works /\ addon' = [addon EXCEPT ![job.pkg].file[f] = "absent"]
          \/ Fails /\ UNCHANGED addon
  /\ UNCHANGED <<confVars, txnVars, phase, used, job, pc, fetched, extracted, todo, rec,
                 boots, nextTree, recoverFailed, torn, tornBackup, late, slip, displaced, refused>>

RemoveMarker ==
  /\ At("uninstall", "remove") /\ toRemove = {}
  /\ Goto("rmdir")
  /\ IF addon[job.pkg] = NoDir THEN Works /\ UNCHANGED <<addon, torn>>
     ELSE \/ /\ Works /\ torn' = torn \ {job.pkg}
             /\ addon' = [addon EXCEPT ![job.pkg].owned = {}]
          \/ Fails /\ UNCHANGED <<addon, torn>>
  /\ UNCHANGED <<confVars, txnVars, fetched, extracted, toRemove,
                 boots, nextTree, recoverFailed, tornBackup, late, slip, displaced, refused>>

Empty(dir) == dir # NoDir /\ dir.owned = {} /\ \A f \in Files : dir.file[f] = "absent"

\* fs::remove(target) takes away an empty directory; one that still holds a
\* file, or a subdirectory the archive brought (not modelled), stays.
RemoveDirectory ==
  /\ At("uninstall", "rmdir")
  /\ Finish
  /\ \/ Empty(addon[job.pkg]) /\ addon' = [addon EXCEPT ![job.pkg] = NoDir]
     \/ UNCHANGED addon
  /\ UNCHANGED <<confVars, txnVars, boots, faults, nextTree, recoverFailed, torn, tornBackup,
                 displaced, refused>>
-----------------------------------------------------------------------------
(* operation "restoreProfileSettings"                                       *)

FreshTree == nextTree <= MaxTree /\ nextTree' = nextTree + 1

\* fs::remove_all(temporary): nobody looks whether it worked.
RemoveCopy ==
  \/ Works /\ temp' = [temp EXCEPT ![job.pkg] = 0]
  \/ temp[job.pkg] # 0 /\ Fails /\ UNCHANGED temp

StageSettings ==
  /\ At("restore", "stage")
  /\ Goto("open")
  /\ RemoveCopy
  /\ UNCHANGED <<addon, conf, kept, recovered, txnVars, fetched, extracted, toRemove,
                 boots, nextTree, recoverFailed, torn, tornBackup, late, slip, displaced, refused>>

\* The recursive copy of the imported settings into <package>.vanahub-import,
\* which may stop over a file that is still there.
CopySettings ==
  /\ At("restore", "copy")
  /\ \/ Works /\ Goto("journal")
     \/ Fails /\ Goto("discard")
     \/ temp[job.pkg] # 0 /\ Works /\ Goto("discard")
  /\ FreshTree
  /\ temp' = [temp EXCEPT ![job.pkg] = nextTree]
  /\ UNCHANGED <<addon, conf, kept, recovered, txnVars, fetched, extracted, toRemove,
                 boots, recoverFailed, torn, tornBackup, late, slip, displaced, refused>>

\* fs::rename(target, transaction_backup) when there are settings to keep; it
\* cannot replace what an earlier job of that id left there.
BackUpSettings ==
  /\ At("restore", "backup")
  /\ LET p == job.pkg IN
     \/ /\ conf[p] = 0 /\ Works /\ Goto("commit")
        /\ UNCHANGED <<conf, confBackup, displaced>>
     \/ /\ conf[p] # 0 /\ confBackup[job.id] = 0 /\ Works /\ Goto("commit")
        /\ conf' = [conf EXCEPT ![p] = 0]
        /\ confBackup' = [confBackup EXCEPT ![job.id] = conf[p]]
        /\ displaced' = displaced \cup {conf[p]}
     \/ /\ conf[p] # 0 /\ Goto("drop")
        /\ Fails \/ (confBackup[job.id] # 0 /\ Works)
        /\ UNCHANGED <<conf, confBackup, displaced>>
  /\ UNCHANGED <<addon, temp, journal, staging, backup, kept, recovered, fetched, extracted,
                 toRemove, boots, nextTree, recoverFailed, torn, tornBackup, late, slip, refused>>

\* fs::rename(temporary, target), which fails when the addon has written settings
\* anew since they were moved aside.
CommitSettings ==
  /\ At("restore", "commit")
  /\ LET p == job.pkg IN
     \/ /\ conf[p] = 0 /\ Works /\ Goto("retain")
        /\ conf' = [conf EXCEPT ![p] = temp[p]]
        /\ temp' = [temp EXCEPT ![p] = 0]
     \/ /\ Fails \/ (conf[p] # 0 /\ Works)
        /\ Goto("rollback") /\ UNCHANGED <<conf, temp>>
  /\ UNCHANGED <<addon, txnVars, kept, recovered, fetched, extracted, toRemove,
                 boots, nextTree, recoverFailed, torn, tornBackup, late, slip, displaced, refused>>

\* The branches of the three calls that failed begin with remove_all(temporary).
DropCopy ==
  /\ \/ At("restore", "discard") /\ Finish
     \/ /\ At("restore", "drop") /\ Goto("abort")
        /\ UNCHANGED <<fetched, extracted, toRemove, late, slip>>
     \/ /\ At("restore", "rollback") /\ Goto("putback")
        /\ UNCHANGED <<fetched, extracted, toRemove, late, slip>>
  /\ RemoveCopy
  /\ UNCHANGED <<addon, conf, kept, recovered, txnVars, boots, nextTree, recoverFailed,
                 torn, tornBackup, displaced, refused>>

\* fs::rename(transaction_backup, target): its error is not looked at, and the
\* transaction is removed all the same.
PutBackSettings ==
  /\ At("restore", "putback")
  /\ Goto("abort")
  /\ LET p == job.pkg
         old == confBackup[job.id] IN
     \/ /\ old = 0 /\ Works
        /\ UNCHANGED <<conf, confBackup, displaced, refused>>
     \/ /\ old # 0 /\ conf[p] = 0 /\ Works
        /\ conf' = [conf EXCEPT ![p] = old]
        /\ confBackup' = [confBackup EXCEPT ![job.id] = 0]
        /\ displaced' = displaced \ {old} /\ UNCHANGED refused
     \/ /\ old # 0 /\ conf[p] = 0 /\ Fails
        /\ UNCHANGED <<conf, confBackup, displaced, refused>>
     \/ /\ old # 0 /\ conf[p] # 0 /\ Works /\ refused' = refused \cup {old}
        /\ UNCHANGED <<conf, confBackup, displaced>>
  /\ UNCHANGED <<addon, temp, journal, staging, backup, kept, recovered, fetched, extracted,
                 toRemove, boots, nextTree, recoverFailed, torn, tornBackup, late, slip>>

\* Mutant: the old settings are not moved out of the transaction.
RetainNothing ==
  /\ At("restore", "retain") /\ Goto("cleanup")
  /\ UNCHANGED <<disk, fetched, extracted, toRemove, history>>

\* fs::rename(transaction_backup, backup): it cannot replace a directory that
\* is there already, and its error code is overwritten by the next call.
RetainSettings ==
  /\ At("restore", "retain")
  /\ Goto("cleanup")
  /\ IF confBackup[job.id] # 0 /\ kept[job.id][job.pkg] = 0
     THEN \/ /\ Works
             /\ kept' = [kept EXCEPT ![job.id][job.pkg] = confBackup[job.id]]
             /\ confBackup' = [confBackup EXCEPT ![job.id] = 0]
          \/ Fails /\ UNCHANGED <<kept, confBackup>>
     ELSE Works /\ UNCHANGED <<kept, confBackup>>
  /\ UNCHANGED <<addon, conf, temp, journal, staging, backup, recovered, fetched, extracted,
                 toRemove, boots, nextTree, recoverFailed, torn, tornBackup, late, slip,
                 displaced, refused>>
-----------------------------------------------------------------------------
(* The process dies, and comes back: vh_engine_create, then vh_engine_recover *)

Removing(i) ==
  \/ job # NoJob /\ job.id = i /\ pc \in {"open", "cleanup", "abort"}
  \/ phase = "recovering" /\ rec = i /\ pc = "clear"

Crash ==
  /\ phase # "down"
  /\ phase' = "down" /\ used' = {} /\ job' = NoJob /\ pc' = "idle"
  /\ fetched' = Foreign /\ extracted' = {} /\ toRemove' = {} /\ todo' = {} /\ rec' = 0
  /\ late' = {} /\ slip' = FALSE
  /\ \/ \E i \in Ids : Removing(i) /\ CutShort(i)
     \/ UNCHANGED <<txnVars, tornBackup>>
  /\ UNCHANGED <<addon, confVars, boots, faults, nextTree, recoverFailed, torn, displaced, refused>>

Boot ==
  /\ phase = "down" /\ boots < MaxBoots
  /\ phase' = "recovering" /\ boots' = boots + 1
  /\ todo' = {i \in Ids : Present(i)}
  /\ UNCHANGED <<disk, used, job, pc, fetched, extracted, toRemove, rec,
                 faults, nextTree, recoverFailed, torn, tornBackup, late, slip, displaced, refused>>

\* The directory iterator visits the transactions in an unspecified order.
Visit(i) ==
  /\ phase = "recovering" /\ pc = "idle" /\ i \in todo
  /\ rec' = i /\ todo' = todo \ {i}

\* return VH_FILESYSTEM_ERROR: the rest is not visited.  The caller (backend.lua)
\* ignores the result and goes on to serve jobs.
GiveUp ==
  /\ phase' = "up" /\ recoverFailed' = TRUE
  /\ pc' = "idle" /\ rec' = 0 /\ todo' = {}
  /\ UNCHANGED <<used, job, fetched, extracted, toRemove>>

\* Put a package back when its directory is missing and a backup is there.
RecoverAddon(i) ==
  /\ journal[i] # NoJournal /\ journal[i].kind = "package"
  /\ addon[journal[i].pkg] = NoDir /\ backup[i] # NoDir
  /\ \/ /\ Visit(i) /\ Works /\ pc' = "clear"
        /\ PutBack(i, journal[i].pkg)
        /\ UNCHANGED <<phase, used, job, fetched, extracted, toRemove, recoverFailed>>
     \/ /\ phase = "recovering" /\ pc = "idle" /\ i \in todo
        /\ Fails /\ GiveUp /\ UNCHANGED <<addon, backup, torn>>
  /\ UNCHANGED <<confVars, journal, staging, confBackup, boots, nextTree, tornBackup, late, slip,
                 displaced, refused>>

\* Put settings back when their directory is missing; when the commit had been
\* done, move the old ones to backups/recovered-<id>, which must not exist.
RecoverSettings(i) ==
  /\ journal[i] # NoJournal /\ journal[i].kind = "settings" /\ confBackup[i] # 0
  /\ LET p == journal[i].pkg IN
     \/ /\ Visit(i) /\ Works /\ pc' = "clear"
        /\ confBackup' = [confBackup EXCEPT ![i] = 0]
        /\ refused' = refused \ {confBackup[i]}
        /\ \/ /\ conf[p] = 0
              /\ conf' = [conf EXCEPT ![p] = confBackup[i]]
              /\ displaced' = displaced \ {confBackup[i]}
              /\ UNCHANGED recovered
           \/ /\ conf[p] # 0 /\ recovered[i][p] = 0
              /\ recovered' = [recovered EXCEPT ![i][p] = confBackup[i]]
              /\ UNCHANGED <<conf, displaced>>
        /\ UNCHANGED <<phase, used, job, fetched, extracted, toRemove, recoverFailed>>
     \/ /\ phase = "recovering" /\ pc = "idle" /\ i \in todo
        /\ \/ Fails
           \/ Works /\ conf[p] # 0 /\ recovered[i][p] # 0
        /\ GiveUp /\ UNCHANGED <<conf, recovered, confBackup, displaced, refused>>
  /\ UNCHANGED <<addon, temp, kept, journal, staging, backup, boots, nextTree, torn, tornBackup,
                 late, slip>>

\* Nothing to put back: no readable journal, no backup, or a committed package.
RecoverNothing(i) ==
  /\ ~ /\ journal[i] # NoJournal
       /\ \/ /\ journal[i].kind = "package"
             /\ addon[journal[i].pkg] = NoDir /\ backup[i] # NoDir
          \/ journal[i].kind = "settings" /\ confBackup[i] # 0
  /\ Visit(i) /\ pc' = "clear"
  /\ UNCHANGED <<disk, phase, used, job, fetched, extracted, toRemove, history>>

\* fs::remove_all(item.path())
RecoverRemove ==
  /\ phase = "recovering" /\ pc = "clear"
  /\ \/ /\ Works /\ Leave(rec, {}, NoDir) /\ pc' = "idle" /\ rec' = 0
        /\ UNCHANGED <<phase, used, job, fetched, extracted, toRemove, todo, recoverFailed,
                        tornBackup>>
     \/ Fails /\ CutShort(rec) /\ GiveUp
  /\ UNCHANGED <<addon, confVars, boots, nextTree, torn, late, slip, displaced, refused>>

RecoverDone ==
  /\ phase = "recovering" /\ pc = "idle" /\ todo = {}
  /\ phase' = "up"
  /\ UNCHANGED <<disk, used, job, pc, fetched, extracted, toRemove, todo, rec, history>>
-----------------------------------------------------------------------------
(* Addons and the user change their own files, at any time: the client asks  *)
(* a loaded addon to unload before it restores its settings, but it may be   *)
(* loaded again before the job runs, and it is not unloaded for an update.   *)

AddonWritesFile(p, f) ==
  /\ addon[p] # NoDir /\ f \notin addon[p].owned /\ addon[p].file[f] = "absent"
  /\ addon' = [addon EXCEPT ![p].file[f] = "user"]
  /\ late' = IF job # NoJob /\ job.op = "install" /\ job.pkg = p /\ pc = "backup"
             THEN late \cup {f} ELSE late
  /\ UNCHANGED <<confVars, txnVars, engine, boots, faults, nextTree, recoverFailed, torn,
                 tornBackup, slip, displaced, refused>>

AddonWritesSettings(p) ==
  /\ FreshTree
  /\ conf' = [conf EXCEPT ![p] = nextTree]
  /\ UNCHANGED <<addon, temp, kept, recovered, txnVars, engine, boots, faults, recoverFailed,
                 torn, tornBackup, late, slip, displaced, refused>>
-----------------------------------------------------------------------------
InstallStep ==
  \/ OpenTransaction \/ WriteJournal
  \/ Download \/ VerifyHash \/ Inspect \/ PreserveUntracked
  \/ BackUpAddon \/ CommitAddon \/ RollBackAddon

UninstallStep == ListOwned \/ RemoveOwned \/ RemoveMarker \/ RemoveDirectory

RestoreStep ==
  \/ StageSettings \/ CopySettings \/ BackUpSettings \/ CommitSettings
  \/ DropCopy \/ PutBackSettings \/ RetainSettings

RecoverStep ==
  \/ \E i \in Ids : RecoverAddon(i) \/ RecoverSettings(i) \/ RecoverNothing(i)
  \/ RecoverRemove \/ RecoverDone

EnvironmentStep ==
  \E p \in Addons : AddonWritesSettings(p) \/ \E f \in Files : AddonWritesFile(p, f)

Next ==
  \/ StartJob \/ InstallStep \/ UninstallStep \/ RestoreStep \/ CleanUp
  \/ Crash \/ Boot \/ RecoverStep \/ EnvironmentStep

Spec == Init /\ [][Next]_vars
-----------------------------------------------------------------------------
(* Properties                                                               *)

Steps == {"idle", "open", "download", "hash", "inspect", "preserve", "backup", "commit",
          "rollback", "cleanup", "abort", "list", "remove", "rmdir", "stage", "copy",
          "journal", "discard", "drop", "putback", "retain", "clear"}

DiskTypeOK ==
  /\ addon \in [Addons -> Dirs \cup {NoDir}]
  /\ conf \in [Addons -> Nat] /\ temp \in [Addons -> Nat]
  /\ journal \in [Ids -> Journals \cup {NoJournal}]
  /\ staging \in [Ids -> Dirs \cup {NoDir}]
  /\ backup \in [Ids -> Dirs \cup {NoDir}]
  /\ confBackup \in [Ids -> Nat]
  /\ kept \in [Ids -> [Addons -> Nat]]
  /\ recovered \in [Ids -> [Addons -> Nat]]

EngineTypeOK ==
  /\ phase \in {"down", "recovering", "up"}
  /\ used \in SUBSET Ids
  /\ job \in Jobs \cup {NoJob} /\ pc \in Steps
  /\ fetched \in Artifacts /\ extracted \in SUBSET Files /\ toRemove \in SUBSET Files
  /\ todo \in SUBSET Ids /\ rec \in Ids \cup {0}

HistoryTypeOK ==
  /\ boots \in Nat /\ faults \in Nat /\ nextTree \in Nat
  /\ recoverFailed \in BOOLEAN
  /\ torn \in SUBSET Addons /\ tornBackup \in SUBSET Ids
  /\ late \in SUBSET Files /\ slip \in BOOLEAN
  /\ displaced \in SUBSET Nat /\ refused \in SUBSET Nat

\* Every variable stays in its type; the one type invariant of this module.
TypeOK == DiskTypeOK /\ EngineTypeOK /\ HistoryTypeOK

\* A directory that VanaHub manages holds every file of one verified version,
\* each of that version: not a mixture of two, and nothing from an archive
\* with another hash.
Whole(dir) ==
  dir # NoDir /\ dir.owned # {} =>
    \E v \in Versions : dir.owned = Contents[v] /\ \A f \in dir.owned : dir.file[f] = v

\* PLAN.md:17, "Installation is staged, journaled, validated, and rolled back on
\* failure": whatever crashes and failing calls there have been, an addon directory
\* is a whole verified version, unless
\*  - an uninstall of it, which keeps no journal, has begun to remove its files;
\*  - an install committed it after the end of the archive came early or the
\*    ownership list was not written in full (slip), which the engine does not see;
\*  - it was put back from a backup that was already torn, of which a removal had
\*    taken files, or which an earlier job of the id had left (tornBackup).
AddonsWhole == \A p \in Addons : p \in torn \/ Whole(addon[p])

\* No failure so far that the engine reported or swallowed.
Trusted == faults = 0 /\ ~recoverFailed

\* vh_engine_recover finishes what a crash interrupted: once jobs are served, the
\* only transaction directory is the running job's, so no backup of an earlier
\* job can be restored over a later one or be wiped when its id comes back.
RecoveryComplete ==
  phase = "up" /\ Trusted =>
    \A i \in Ids : Present(i) => job # NoJob /\ job.id = i

\* One failing file-system call in an install rolls back: a job that ends (other
\* than by a crash) never leaves the only copy of an addon inside its transaction,
\* or it ended before it had moved anything.
SingleFailureRollsBack ==
  [][job # NoJob /\ job.op = "install" /\ job' = NoJob /\ phase' = "up" /\ faults' <= 1 =>
       \/ addon'[job.pkg] # NoDir
       \/ addon[job.pkg] = NoDir /\ (pc = "abort" \/ backup[job.id] = NoDir)]_vars

\* Where an addon is: its own directory, or the backup that recovery would put
\* back.
Live(p) ==
  IF addon[p] # NoDir THEN addon[p]
  ELSE LET saved == {i \in Ids : journal[i] = [kind |-> "package", pkg |-> p]
                                 /\ backup[i] # NoDir}
       IN IF saved = {} THEN NoDir ELSE backup[CHOOSE i \in saved : TRUE]

Store == INSTANCE AddonStore WITH store <- [p \in Addons |-> Live(p)], trusted <- Trusted

\* Installs are atomic to a crash at any step: the engine implements AddonStore.
ImplementsAddonStore == Store!Spec

\* The settings a restore moved aside are still somewhere the user, or the next
\* recovery, can take them from.
OnDisk(t) ==
  \/ \E p \in Addons : conf[p] = t
  \/ \E i \in Ids : confBackup[i] = t \/ \E p \in Addons : t \in {kept[i][p], recovered[i][p]}

\* docs/threat-model.md:55, "the existing configuration is moved into a
\* recoverable backup".
SettingsRecoverable == \A t \in displaced : OnDisk(t)

\* The two ways a displaced settings directory is lost while no call fails for a
\* reason of its own and no recovery gives up: the id of its transaction was used in
\* an earlier session, so backups/<id>/<package> is taken; or the addon wrote new
\* settings after its old ones were moved aside, so that neither the imported nor the
\* old ones can take the place of these.  Either way they go with the transaction.
SettingsLostOnlyTwoWays ==
  [][\A t \in displaced : OnDisk(t) /\ ~OnDisk(t)' /\ Trusted' =>
       \/ t \in refused
       \/ \E i \in Ids : confBackup[i] = t /\ \E p \in Addons : kept[i][p] # 0]_vars
=============================================================================
