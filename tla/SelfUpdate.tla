----------------------------- MODULE SelfUpdate -----------------------------
(***************************************************************************)
(* The package manager's own update, over the directory addons/vanahub:    *)
(*                                                                         *)
(*    active.txt                 the version the bootstrap runs            *)
(*    pending.txt                the version it is to run from now on      *)
(*    versions/<version>/        one directory per version                 *)
(*                                                                         *)
(* The engine stages a version (operation stageSelfUpdate of engine.cpp,   *)
(* from the moment its archive has been verified); the bootstrap           *)
(* vanahub.lua activates it at the next launch.  The game may end between  *)
(* any two file-system calls of either, and in the middle of one.          *)
(***************************************************************************)
EXTENDS Naturals

CONSTANTS
  Versions,   (* versions of the package manager                  *)
  Shipped,    (* the one that came with the bootstrap             *)
  NoFile,     (* a file that does not exist                       *)
  Garbage,    (* the text of a file that holds no version         *)
  Prefixes,   (* which versions a text cut short may read as      *)
  MaxFaults   (* bound: file-system calls that fail               *)

ASSUME ConstantsAssumption ==
  /\ Shipped \in Versions /\ NoFile \notin Versions
  /\ Garbage \notin Versions \cup {NoFile} /\ MaxFaults \in Nat
  /\ Prefixes \in [Versions -> SUBSET Versions]

VARIABLES
  dir,         \* versions/<version>: "short" when its archive was not extracted to the end
  pending, pendingTmp, active, activeTmp,   \* the text files
  pc,          \* next step of the bootstrap, or of the job
  running,     \* the version whose main.lua runs
  target,      \* the version being staged
  answer,      \* what the last job answered
  faults,
  promised,    \* history: the version staged last with the answer "ok"
  clean,       \* history: no call of this launch has failed
  activeCut,   \* history: active.txt was renamed into place with its text cut short
  published,   \* history: the versions named by a marker that was published
  mismarked,   \* history: those answered "ok" although the marker named another text
  cutShort     \* history: those whose staging the game's end, or a failed removal, cut short

files == <<dir, pending, pendingTmp, active, activeTmp>>
staged == <<promised, published, mismarked, cutShort>>
history == <<clean, activeCut, staged>>
vars == <<files, pc, running, target, answer, faults, history>>

Steps == {"off", "probe", "tmp", "drop", "rename", "unpend", "load", "run", "failed",
          "stage", "marker", "publish", "undo"}
Text == Versions \cup {NoFile, Garbage}

\* A file into which not all of v's name was written: nothing, no version, or the
\* name of another one.
Cut(v) == {Garbage} \cup Prefixes[v]

Init ==
  /\ dir = [v \in Versions |-> IF v = Shipped THEN "whole" ELSE "none"]
  /\ pending = NoFile /\ pendingTmp = NoFile /\ active = Shipped /\ activeTmp = NoFile
  /\ pc = "off" /\ running = NoFile /\ target = NoFile /\ answer = "none" /\ faults = 0
  /\ promised = Shipped /\ clean = TRUE /\ activeCut = FALSE
  /\ published = {Shipped} /\ mismarked = {} /\ cutShort = {}

Goto(from, to) == pc = from /\ pc' = to
Works == UNCHANGED <<faults, clean>>
Fails == faults < MaxFaults /\ faults' = faults + 1 /\ clean' = FALSE
-----------------------------------------------------------------------------
(* vanahub.lua                                                              *)

Launch ==
  /\ Goto("off", "probe")
  /\ clean' = TRUE /\ answer' = "none"
  /\ UNCHANGED <<files, running, target, faults, activeCut, staged>>

BootstrapStep == UNCHANGED <<dir, pendingTmp, target, answer, staged>>

\* A pending version counts only if its main.lua is there, which it may not be in a
\* directory extracted or removed in part; a file that cannot be opened is not there.
Probe ==
  /\ BootstrapStep /\ UNCHANGED <<pending, active, activeTmp, activeCut, running>>
  /\ \/ Goto("probe", "tmp") /\ Works /\ pending \in Versions /\ dir[pending] # "none"
     \/ /\ Goto("probe", "load")
        /\ IF pending \in Versions /\ dir[pending] = "whole" THEN Fails ELSE Works

\* Mutant: the marker is consumed before the new version is active.
ConsumeMarkerFirst ==
  /\ BootstrapStep /\ UNCHANGED <<active, activeCut, running>>
  /\ Goto("tmp", "drop") /\ Works /\ activeTmp' = pending /\ pending' = NoFile

\* io.open is checked; output:write and output:close are not, and what they leave
\* undone goes into place all the same.
WriteActive ==
  /\ BootstrapStep /\ UNCHANGED <<pending, active, activeCut, running>>
  /\ \/ Goto("tmp", "drop") /\ Works /\ activeTmp' = pending
     \/ Goto("tmp", "drop") /\ Fails /\ activeTmp' \in Cut(pending)
     \/ Goto("tmp", "load") /\ Fails /\ UNCHANGED activeTmp

\* ashita.fs.remove: its result is not looked at.
DropActive ==
  /\ BootstrapStep /\ UNCHANGED <<pending, activeTmp, activeCut, running>>
  /\ Goto("drop", "rename")
  /\ \/ Works /\ active' = NoFile
     \/ active # NoFile /\ Fails /\ UNCHANGED active

\* A rename onto a file that could not be removed fails; any other may fail.
RenameActive ==
  /\ BootstrapStep /\ UNCHANGED <<pending, running>>
  /\ \/ /\ Goto("rename", "unpend") /\ active = NoFile /\ Works
        /\ active' = activeTmp /\ activeTmp' = NoFile
        /\ activeCut' = (activeTmp # pending)
     \/ /\ Goto("rename", "load") /\ UNCHANGED <<active, activeTmp, activeCut>>
        /\ IF active = NoFile THEN Fails ELSE Works

DropPending ==
  /\ BootstrapStep /\ UNCHANGED <<active, activeTmp, activeCut, running>>
  /\ Goto("unpend", "load")
  /\ \/ Works /\ pending' = NoFile
     \/ Fails /\ UNCHANGED pending

\* read_text(active_path) or addon.version
Chosen == IF active = NoFile THEN Shipped ELSE active

\* The assert on that text and dofile of its main.lua: the first ends the bootstrap
\* when the text is no version, the second when the file is missing or broken.  A file
\* that cannot be read counts as missing, and so runs the version shipped.
Load ==
  /\ BootstrapStep /\ UNCHANGED <<pending, active, activeTmp, activeCut>>
  /\ \/ /\ Goto("load", "run") /\ Works /\ running' = Chosen
        /\ Chosen \in Versions /\ dir[Chosen] # "none"
     \/ Goto("load", "run") /\ Fails /\ running' = Shipped
     \/ /\ Goto("load", "failed") /\ UNCHANGED running
        /\ IF Chosen \in Versions /\ dir[Chosen] = "whole" THEN Fails ELSE Works
-----------------------------------------------------------------------------
(* stageSelfUpdate                                                          *)

Stage(v) ==
  /\ Goto("run", "stage") /\ target' = v /\ answer' = "none"
  /\ UNCHANGED <<files, running, faults, history>>

\* The version is in place and its marker is not.
Unfinished == {"marker", "publish", "undo"}

JobStep == UNCHANGED <<active, activeTmp, activeCut, running, target>>
Answer(from, value) == Goto(from, "run") /\ answer' = value

\* Mutant: a version that is already there is replaced, in two steps.
ReplaceTarget ==
  /\ pc = "stage" /\ JobStep /\ UNCHANGED <<pending, pendingTmp, faults, clean, staged, answer>>
  /\ IF dir[target] = "none"
     THEN Goto("stage", "marker") /\ dir' = [dir EXCEPT ![target] = "whole"]
     ELSE Goto("stage", "stage") /\ dir' = [dir EXCEPT ![target] = "none"]

\* fs::rename(staging, target), unless the target exists.  What was extracted into
\* staging may have ended early without an error (engine.cpp:520-524).
MoveStaged ==
  /\ pc = "stage" /\ JobStep /\ UNCHANGED <<pending, pendingTmp, staged>>
  /\ \/ dir[target] # "none" /\ Answer("stage", "already staged") /\ Works /\ UNCHANGED dir
     \/ /\ dir[target] = "none" /\ Goto("stage", "marker") /\ UNCHANGED answer
        /\ \/ Works /\ dir' = [dir EXCEPT ![target] = "whole"]
           \/ Fails /\ dir' = [dir EXCEPT ![target] = "short"]
     \/ dir[target] = "none" /\ Answer("stage", "failed") /\ Fails /\ UNCHANGED dir

\* pending.txt.tmp: neither opening the stream nor writing to it is checked.
WriteMarker ==
  /\ JobStep /\ UNCHANGED <<dir, pending, answer, staged>>
  /\ Goto("marker", "publish")
  /\ \/ Works /\ pendingTmp' = target
     \/ Fails /\ pendingTmp' \in {pendingTmp} \cup Cut(target)

\* The marker is renamed into place whatever it says, and the job answers "ok".
PublishMarker ==
  /\ JobStep /\ UNCHANGED <<dir, cutShort>>
  /\ \/ /\ pendingTmp # NoFile /\ Works
        /\ pending' = pendingTmp /\ pendingTmp' = NoFile
        /\ Answer("publish", "ok") /\ promised' = target
        /\ published' = published \cup ({pendingTmp} \cap Versions)
        /\ mismarked' = mismarked \cup (IF pendingTmp = target THEN {} ELSE {target})
     \/ /\ Goto("publish", "undo")
        /\ UNCHANGED <<pending, pendingTmp, answer, promised, published, mismarked>>
        /\ IF pendingTmp = NoFile THEN Works ELSE Fails

\* Mutant: the version stays when its marker could not be published.
KeepTarget ==
  /\ JobStep /\ UNCHANGED <<files, staged>>
  /\ Answer("undo", "failed") /\ Works

Undo ==
  /\ JobStep /\ UNCHANGED <<pending, pendingTmp, promised, published, mismarked>>
  /\ Answer("undo", "failed")
  /\ \/ Works /\ dir' = [dir EXCEPT ![target] = "none"] /\ UNCHANGED cutShort
     \/ /\ Fails /\ dir' = [dir EXCEPT ![target] = "partial"]
        /\ cutShort' = cutShort \cup {target}
-----------------------------------------------------------------------------
\* The game ends, or VanaHub is unloaded; a removal or a write is cut short.
Exit ==
  /\ pc # "off" /\ pc' = "off"
  /\ running' = NoFile /\ target' = NoFile /\ answer' = "none"
  /\ \/ UNCHANGED <<dir, pendingTmp, activeTmp>>
     \/ /\ pc = "undo" /\ dir' = [dir EXCEPT ![target] = "partial"]
        /\ UNCHANGED <<pendingTmp, activeTmp>>
     \/ pc = "marker" /\ pendingTmp' \in Cut(target) /\ UNCHANGED <<dir, activeTmp>>
     \/ pc = "tmp" /\ activeTmp' \in Cut(pending) /\ UNCHANGED <<dir, pendingTmp>>
  /\ cutShort' = cutShort \cup (IF pc \in Unfinished THEN {target} ELSE {})
  /\ UNCHANGED <<pending, active, faults, clean, activeCut, promised, published, mismarked>>

Bootstrap ==
  Probe \/ WriteActive \/ DropActive \/ RenameActive \/ DropPending \/ Load
Job == MoveStaged \/ WriteMarker \/ PublishMarker \/ Undo

Next == Launch \/ Bootstrap \/ (\E v \in Versions : Stage(v)) \/ Job \/ Exit

Spec == Init /\ [][Next]_vars
-----------------------------------------------------------------------------
(* Properties                                                               *)

\* Every variable stays in its type; the one type invariant of this module.
TypeOK ==
  /\ dir \in [Versions -> {"none", "whole", "short", "partial"}]
  /\ pending \in Text /\ pendingTmp \in Text /\ active \in Text /\ activeTmp \in Text
  /\ pc \in Steps /\ running \in Versions \cup {NoFile} /\ target \in Versions \cup {NoFile}
  /\ answer \in {"none", "ok", "failed", "already staged"} /\ faults \in 0..MaxFaults
  /\ promised \in Versions /\ clean \in BOOLEAN /\ activeCut \in BOOLEAN
  /\ published \subseteq Versions /\ mismarked \subseteq Versions /\ cutShort \subseteq Versions

\* Everything of the version's archive that the engine extracted is in its directory.
Complete(v) == v \in Versions /\ dir[v] \in {"whole", "short"}

\* The version that runs, the one active.txt names and the one shipped are in place with
\* all that was extracted of them, through every end of the game and one failing call:
\* no staging, activation or clean-up removes or replaces a version in use.  Two single
\* failures nobody looks at do leave the player without a package manager, and are the
\* exceptions: the text of active.txt.tmp is cut short and renamed into place all the
\* same (activeCut, vanahub.lua:28-31, after which line 37 or dofile stops every
\* launch), or the extraction ended early ("short").  A second failing call breaks it.
VersionsInUseWhole ==
  /\ dir[Shipped] = "whole"
  /\ \A v \in {running, active} \ {NoFile} : Complete(v) \/ activeCut

\* A launch none of whose calls fails runs the version that was staged last, however
\* often launches and stagings were interrupted before, if its marker and then active.txt
\* hold its name and it was extracted to the end.
PromisedVersionRuns ==
  [][pc = "load" /\ pc' \in {"run", "failed"} /\ clean' /\ dir[promised] = "whole"
       /\ promised \notin mismarked /\ ~activeCut => running' = promised]_vars

\* A version is on the disk without a marker that ever named it, and so out of the reach
\* of every launch and refused as "already staged" (engine.cpp:998-1000) by every later
\* staging, in two cases only: its own staging was cut short after the move, by the end
\* of the game or by a clean-up that failed as well; or it was answered "ok" although
\* another text had been published in its marker's place (the write of engine.cpp:1007
\* is not checked).
StrandedOnlyIfCutShort ==
  \A v \in Versions : dir[v] # "none" =>
    v \in published \cup cutShort \cup mismarked \/ (v = target /\ pc \in Unfinished)
=============================================================================
