----------------------------- MODULE AddonStore -----------------------------
(***************************************************************************)
(* What the engine promises of addon directories: each is replaced by a    *)
(* whole version in one step that carries the user's own files over, loses *)
(* its files one at a time only when it is being uninstalled, and changes  *)
(* in no other way, whenever the process dies.  The promise stands while   *)
(* no file-system call has failed and no recovery has given up (trusted).  *)
(* Transactions implements it.                                             *)
(***************************************************************************)
EXTENDS FiniteSets

CONSTANTS Addons, Versions, Files, Contents, NoDir

VARIABLES
  store,   \* the directory of each addon, wherever it is on the disk
  late,    \* files written while an update was in progress
  trusted

storeVars == <<store, late, trusted>>

UserFiles(dir) ==
  IF dir = NoDir THEN {} ELSE {f \in Files \ dir.owned : dir.file[f] # "absent"}

\* Version v, with the files of dir in survivors that v does not bring itself.
Installed(v, dir, survivors) ==
  [file  |-> [f \in Files |-> IF f \in Contents[v] THEN v
                              ELSE IF f \in survivors THEN dir.file[f] ELSE "absent"],
   owned |-> Contents[v]]

Put(p) ==
  /\ \E v \in Versions : \E survivors \in SUBSET UserFiles(store[p]) :
       /\ UserFiles(store[p]) \ late \subseteq survivors
       /\ store' = [store EXCEPT ![p] = Installed(v, store[p], survivors)]
  /\ UNCHANGED late

Uninstall(p) ==
  /\ store[p] # NoDir
  /\ \/ \E f \in store[p].owned : store' = [store EXCEPT ![p].file[f] = "absent"]
     \/ /\ \A f \in store[p].owned : store[p].file[f] = "absent"
        /\ store' = [store EXCEPT ![p].owned = {}]
     \/ /\ store[p].owned = {} /\ UserFiles(store[p]) = {}
        /\ store' = [store EXCEPT ![p] = NoDir]
  /\ late' \in {late, {}}

Write(p) ==
  /\ store[p] # NoDir
  /\ \E f \in Files \ store[p].owned :
       /\ store[p].file[f] = "absent"
       /\ store' = [store EXCEPT ![p].file[f] = "user"]
       /\ late' \in {late, late \cup {f}}

\* An update ends, or the process does: the race is over.
Settle == late' = {} /\ UNCHANGED store

Init == late = {} /\ trusted = TRUE

Next ==
  \/ /\ UNCHANGED trusted
     /\ Settle \/ \E p \in DOMAIN store : Put(p) \/ Uninstall(p) \/ Write(p)
  \/ ~trusted'

Spec == Init /\ [][Next]_storeVars
=============================================================================
