------------------------------- MODULE Client -------------------------------
(***************************************************************************)
(* The client of main.lua, between the engine, the add-ons of the game and *)
(* the user.  Every frame runs four handlers in a fixed order and then     *)
(* draws the window, where the user may use one control; all of them share *)
(* one slot for the engine's job (state.operation) and one for the load or *)
(* unload command that is waited for (state.addon_action).                 *)
(*                                                                         *)
(* Profiles has the profile document and EngineJobs the jobs: a job is     *)
(* here what it does to the add-ons on the disk and how it ends.           *)
(***************************************************************************)
EXTENDS Naturals, Sequences, SequencesExt, FiniteSetsExt

CONSTANTS
  Order,       (* the add-ons, in the order of the profile and the manifest *)
  None,        (* no operation, no action, no add-on                        *)
  Sessions,    (* [engine, status]: the engine is there; IsLoaded answers   *)
  MaxImports,  (* bound: repositories that an imported profile brings       *)
  MaxClicks,   (* bound: controls the user uses                             *)
  MaxChat      (* bound: /addon commands the user types                     *)

Addons == ToSet(Order)

ASSUME ConstantsAssumption ==
  /\ Order \in Seq(Addons) /\ None \notin Addons
  /\ Sessions \subseteq [engine : BOOLEAN, status : BOOLEAN] /\ Sessions # {}
  /\ MaxImports \in Nat /\ MaxClicks \in Nat /\ MaxChat \in Nat

Kinds == {"cache", "refresh", "install", "uninstall", "inspect", "export", "settings", "cleanup",
          "cancel"}
Jobs == [kind : Kinds, addon : Addons \cup {None}, result : {"running", "ok", "failed", "over"}]
Actions == [addon : Addons, enabled : BOOLEAN]

ASSUME NoneAssumption == None \notin Jobs \cup Actions

VARIABLES
  session,    \* what this session has: see Sessions
  pc,         \* the handler of the frame that runs next
  op,         \* state.operation with its context, and how the job has ended
  forgotten,  \* jobs whose place in state.operation another job has taken
  startup,    \* state.startup
  action,     \* state.addon_action
  transfer,   \* state.transfer
  installed,  \* the ids in state.installed
  catalog,    \* a catalog has been loaded
  disk,       \* the add-ons that have a .vanahub-owned file
  loaded,     \* the add-ons that run in the game
  commands,   \* /addon commands the game has not executed
  rested,     \* history: add-ons that did not run at some time since the last confirm
  clicks, chats

engine == <<op, forgotten>>
game == <<loaded, commands, rested>>
vars == <<session, pc, engine, startup, action, transfer, installed, catalog, disk, game, clicks, chats>>

\* A queue is the set of the positions of its add-ons in Order; queued is a history
\* of what the last unload queue was made of.
Idle == [phase |-> "none", todo |-> {}, settings |-> {}, install |-> {}, queued |-> {},
         skipped |-> {}, current |-> None, repositories |-> 0]

Job(kind, a) == [kind |-> kind, addon |-> a, result |-> "running"]

\* backend.start, whose job takes the place of the operation.
Begin(kind, a) ==
  /\ op' = Job(kind, a)
  /\ forgotten' = forgotten \cup (IF op = None THEN {} ELSE
       {[op EXCEPT !.result = IF op.result = "running" THEN "running" ELSE "over"]})

\* is_addon_loaded(a) == true: never, if the game does not answer.
SeenLoaded(a) == session.status /\ a \in loaded

\* set_addon_loaded: the command is queued, and waited for.
SetAddonLoaded(a, enabled) ==
  /\ commands' = Append(commands, [addon |-> a, enabled |-> enabled])
  /\ action' = [addon |-> a, enabled |-> enabled]
  /\ UNCHANGED <<loaded, rested>>

Importing == {"repositories", "installing", "unloading", "restoring"}
After(queue, i) == {j \in queue : j > i}
Positions(addons) == {i \in DOMAIN Order : Order[i] \in addons}
Starting == startup.started /\ ~startup.completed
-----------------------------------------------------------------------------
\* The client has just been loaded: load_state has dropped what has no marker.
Init ==
  /\ session \in Sessions
  /\ disk \in SUBSET Addons /\ installed \in SUBSET disk
  /\ loaded = {} /\ commands = <<>> /\ rested = {}
  /\ op = (IF session.engine THEN Job("cache", None) ELSE None)
  /\ startup = [ready |-> ~session.engine, started |-> FALSE, completed |-> FALSE, queue |-> {}]
  /\ forgotten = {} /\ action = None /\ transfer = Idle /\ catalog = FALSE
  /\ pc = "operation" /\ clicks = 0 /\ chats = 0
-----------------------------------------------------------------------------
(* The engine, the game and the clock.                                      *)

Effect(job) ==
  disk' = IF job.kind = "install" THEN disk \cup {job.addon}
          ELSE IF job.kind = "uninstall" THEN disk \ {job.addon} ELSE disk

\* The job of the operation ends; Cancel on the Status tab is a way to fail.
JobEnds ==
  /\ op # None /\ op.result = "running"
  /\ \/ op' = [op EXCEPT !.result = "ok"] /\ Effect(op)
     \/ op' = [op EXCEPT !.result = "failed"] /\ UNCHANGED disk
  /\ UNCHANGED <<session, pc, forgotten, startup, action, transfer, installed, catalog, game, clicks, chats>>

\* So does one that is forgotten; nobody polls it any more.
ForgottenJobEnds ==
  /\ \E job \in forgotten :
       /\ job.result = "running"
       /\ forgotten' = (forgotten \ {job}) \cup {[job EXCEPT !.result = "over"]}
       /\ Effect(job) \/ UNCHANGED disk
  /\ UNCHANGED <<session, pc, op, startup, action, transfer, installed, catalog, game, clicks, chats>>

\* Between two frames the game executes a command, which may fail.
Execute(a, enabled) ==
  /\ loaded' \in {loaded, IF enabled THEN loaded \cup ({a} \cap disk) ELSE loaded \ {a}}
  /\ rested' = IF transfer.phase \in Importing THEN rested \cup (Addons \ loaded') ELSE rested

GameExecutes ==
  /\ pc = "operation" /\ commands # <<>> /\ commands' = Tail(commands)
  /\ Execute(Head(commands).addon, Head(commands).enabled)
  /\ UNCHANGED <<session, pc, engine, startup, action, transfer, installed, catalog, disk, clicks, chats>>

\* The user types /addon load or /addon unload.
Chat ==
  /\ pc = "operation" /\ chats < MaxChat /\ chats' = chats + 1
  /\ \E a \in Addons, enabled \in BOOLEAN : Execute(a, enabled)
  /\ UNCHANGED <<session, pc, engine, startup, action, transfer, installed, catalog, disk,
                 commands, clicks>>
-----------------------------------------------------------------------------
(* tick_operation and complete_operation.                                   *)

\* load_repository: an index that is read makes rebuild_packages adopt what has a
\* marker and no record.
LoadRepository ==
  \/ catalog' = TRUE /\ installed' = installed \cup disk
  \/ UNCHANGED <<catalog, installed>>

\* Mutant: a failed cache check leaves the start-up waiting.
CompletedCacheOnly(job) ==
  [startup EXCEPT !.ready = @ \/ (job.kind = "cache" /\ job.result = "ok")]

\* The cache check has ended, however it did.
CompletedCheck(job) == [startup EXCEPT !.ready = @ \/ job.kind = "cache"]

\* Mutant: an uninstalled add-on keeps its record.
RecordInstallOnly(job) ==
  IF job.kind = "install" /\ job.result = "ok" THEN installed \cup {job.addon} ELSE installed

\* What the end of a job does to the records.
Recorded(job) ==
  IF job.result # "ok" THEN installed
  ELSE IF job.kind = "install" THEN installed \cup {job.addon}
  ELSE IF job.kind = "uninstall" THEN installed \ {job.addon} ELSE installed

\* Mutant: an import whose files could not be discarded stays in its last phase.
AdvancedOnSuccess(job) ==
  IF job.kind = "inspect" THEN
    IF job.result = "ok" THEN {[transfer EXCEPT !.phase = "review"], Idle} ELSE {Idle}
  ELSE IF job.kind = "cleanup" THEN
    IF job.result = "ok" THEN {[transfer EXCEPT !.phase = "summary"]} ELSE {transfer}
  ELSE IF job.kind = "cancel" \/ (job.kind = "export" /\ job.result = "ok") THEN {Idle}
  ELSE {transfer}

\* What the end of a job can do to the import or export; a manifest may be invalid.
Advanced(job) ==
  IF job.kind = "inspect" THEN
    IF job.result = "ok" THEN {[transfer EXCEPT !.phase = "review"], Idle} ELSE {Idle}
  ELSE IF job.kind = "cleanup" THEN {[transfer EXCEPT !.phase = "summary"]}
  ELSE IF job.kind = "cancel" \/ (job.kind = "export" /\ job.result = "ok") THEN {Idle}
  ELSE {transfer}

\* The cache check is followed by a refresh.
Operation ==
  /\ pc = "operation" /\ pc' = "action"
  /\ IF op = None \/ op.result = "running" THEN UNCHANGED <<op, startup, transfer, installed, catalog>>
     ELSE /\ op' = (IF op.kind = "cache" THEN Job("refresh", None) ELSE None)
          /\ startup' = CompletedCheck(op)
          /\ transfer' \in Advanced(op)
          /\ IF op.kind \in {"cache", "refresh"} /\ op.result = "ok" THEN LoadRepository
             ELSE installed' = Recorded(op) /\ UNCHANGED catalog
  /\ UNCHANGED <<session, forgotten, action, disk, game, clicks, chats>>

\* tick_addon_action: the command is waited for ...
Unconfirmed ==
  /\ pc = "action" /\ pc' = "transfer"
  /\ action # None => ~session.status \/ ~(action.addon \in loaded <=> action.enabled)
  /\ UNCHANGED <<session, engine, startup, action, transfer, installed, catalog, disk, game, clicks, chats>>

\* ... until the game confirms it, or five seconds have passed.
Confirmed ==
  /\ pc = "action" /\ pc' = "transfer"
  /\ action # None /\ action' = None
  /\ UNCHANGED <<session, engine, startup, transfer, installed, catalog, disk, game, clicks, chats>>
-----------------------------------------------------------------------------
(* advance_profile_import, which goes on from phase to phase in one call    *)
(* until something has to be waited for.                                    *)

\* Mutant: the add-on that was to be unloaded is remembered in the next phase.
KeepCurrent(t, name, todo) == [t EXCEPT !.phase = name, !.todo = todo]

InPhase(t, name, todo) == [t EXCEPT !.phase = name, !.todo = todo, !.current = None]

\* The settings of the next add-on, or, when none is left, the new profile is
\* made and the files of the import are discarded.
RestorePhase(t, rest) ==
  LET wanted == {i \in rest : Order[i] \in (t.settings \cap installed) \ t.skipped}
      next == Min(wanted)
  IN /\ IF wanted = {}
        THEN Begin("cleanup", None) /\ transfer' = [Idle EXCEPT !.phase = "cleanup"]
        ELSE Begin("settings", Order[next]) /\ transfer' = InPhase(t, "restoring", After(rest, next))
     /\ UNCHANGED <<action, game>>

\* Mutant: an add-on that did not unload is not skipped.
SkipNone(t) == t

\* An add-on that still runs after it was to be unloaded is skipped.
Skipped(t) ==
  [t EXCEPT !.skipped = @ \cup {a \in {t.current} \ {None} : SeenLoaded(a)}]

\* The next of the affected add-ons that runs is unloaded.
UnloadPhase(t, rest) ==
  LET running == {i \in rest : SeenLoaded(Order[i])}
      next == Min(running)
  IN IF running = {} THEN RestorePhase(Skipped(t), DOMAIN Order)
     ELSE /\ SetAddonLoaded(Order[next], FALSE)
          /\ transfer' = [InPhase(Skipped(t), "unloading", After(rest, next)) EXCEPT !.current = Order[next]]
          /\ UNCHANGED engine

\* The next add-on that is to be installed and that a catalog has; when none is
\* left, the queue of the affected add-ons is made, once for the whole import.
InstallPhase(rest) ==
  LET wanted == {i \in rest : catalog /\ Order[i] \in transfer.install \ installed}
      next == Min(wanted)
      affected == transfer.settings \cap installed
  IN IF wanted = {}
     THEN UnloadPhase([transfer EXCEPT !.queued = affected], Positions(affected))
     ELSE /\ Begin("install", Order[next])
          /\ transfer' = InPhase(transfer, "installing", After(rest, next))
          /\ UNCHANGED <<action, game>>

RefreshImported ==
  /\ Begin("refresh", None)
  /\ transfer' = [transfer EXCEPT !.repositories = @ - 1]
  /\ UNCHANGED <<action, game>>

Waiting ==
  \/ op # None \/ action # None
  \/ transfer.phase \notin Importing

Transfer ==
  /\ pc = "transfer" /\ pc' = "startup"
  /\ CASE Waiting -> UNCHANGED <<engine, transfer, action, game>>
       [] ~Waiting /\ transfer.phase = "repositories" ->
            IF transfer.repositories > 0 THEN RefreshImported ELSE InstallPhase(DOMAIN Order)
       [] ~Waiting /\ transfer.phase = "installing" -> InstallPhase(transfer.todo)
       [] ~Waiting /\ transfer.phase = "unloading" -> UnloadPhase(transfer, transfer.todo)
       [] ~Waiting /\ transfer.phase = "restoring" -> RestorePhase(transfer, transfer.todo)
  /\ UNCHANGED <<session, startup, installed, catalog, disk, clicks, chats>>
-----------------------------------------------------------------------------
(* tick_startup, with begin_startup.                                        *)

\* Mutant: the next add-on is loaded without waiting for the one before it.
ReadyToLoad == startup.ready /\ ~startup.completed

\* The start-up goes on when the check is done and no command is waited for.
MayLoad == startup.ready /\ ~startup.completed /\ action = None

\* The add-ons of rest that do not run are loaded, one at a time.
LoadNext(rest) ==
  LET missing == {i \in rest : ~SeenLoaded(Order[i])}
      next == Min(missing)
      go(queue, completed) == [ready |-> TRUE, started |-> TRUE, completed |-> completed, queue |-> queue]
  IN IF missing = {} THEN startup' = go({}, TRUE) /\ UNCHANGED <<action, game>>
     ELSE startup' = go(After(rest, next), FALSE) /\ SetAddonLoaded(Order[next], TRUE)

\* The queue has the installed add-ons with auto-load (see Profiles) that are not
\* revoked: it may be any of them.
Startup ==
  /\ pc = "startup" /\ pc' = "window"
  /\ IF startup.started
     THEN IF MayLoad THEN LoadNext(startup.queue) ELSE UNCHANGED <<startup, action, game>>
     ELSE IF ~startup.ready THEN UNCHANGED <<startup, action, game>>
     ELSE \E auto \in SUBSET (installed \cap disk) :
            IF MayLoad THEN LoadNext(Positions(auto))
            ELSE /\ startup' = [startup EXCEPT !.started = TRUE, !.queue = Positions(auto)]
                 /\ UNCHANGED <<action, game>>
  /\ UNCHANGED <<session, engine, transfer, installed, catalog, disk, clicks, chats>>
-----------------------------------------------------------------------------
(* The window: the next frame comes whether or not a control is used.       *)

\* Mutant: the controls of an add-on stay enabled while an operation goes on.
BusyWithGame == action # None \/ Starting

\* busy, which disables the controls of an add-on.
Busy == op # None \/ action # None \/ Starting

NoTransfer == transfer.phase \in {"none", "summary"}

\* Load, Unload of an installed add-on; in Browse, or in Installed, which an
\* import or export in progress disables as well.
LoadOrUnload ==
  /\ ~Busy /\ (catalog \/ NoTransfer)
  /\ \E a \in installed : SetAddonLoaded(a, ~SeenLoaded(a))
  /\ UNCHANGED <<engine, transfer, installed>>

\* A job that a control starts, if the engine is there.
StartJob(kind, a) ==
  /\ session.engine /\ Begin(kind, a)
  /\ UNCHANGED <<action, game, installed>>

Install ==
  ~Busy /\ catalog /\ (\E a \in Addons : StartJob("install", a)) /\ UNCHANGED transfer

Uninstall ==
  /\ ~Busy /\ (catalog \/ NoTransfer)
  /\ (\E a \in installed : StartJob("uninstall", a)) /\ UNCHANGED transfer

\* Refresh of a repository, and the refresh of one that is added.
Refresh == op = None /\ StartJob("refresh", None) /\ UNCHANGED transfer

InstallProfile ==
  /\ ~Busy /\ catalog /\ NoTransfer /\ StartJob("inspect", None)
  /\ transfer' = [Idle EXCEPT !.phase = "inspecting"]

\* The controls of an import or export are never disabled.
InspectProfile ==
  /\ transfer.phase = "choose" /\ StartJob("inspect", None)
  /\ transfer' = [Idle EXCEPT !.phase = "inspecting"]

ExportProfile == transfer.phase = "export" /\ StartJob("export", None) /\ UNCHANGED transfer
CancelImport == transfer.phase = "review" /\ StartJob("cancel", None) /\ UNCHANGED transfer

OpenOrClose ==
  /\ \/ ~Busy /\ transfer.phase = "none" /\ transfer' \in {[Idle EXCEPT !.phase = p] : p \in {"choose", "export"}}
     \/ transfer.phase \in {"choose", "export", "summary"} /\ transfer' = Idle
  /\ UNCHANGED <<engine, action, game, installed>>

\* confirm_profile_import, with the boxes of the review.
ConfirmImport ==
  /\ transfer.phase = "review"
  /\ \E settings, install \in SUBSET Addons, n \in 0..MaxImports :
       transfer' = [Idle EXCEPT !.phase = "repositories", !.settings = settings,
                                !.install = install, !.repositories = n]
  /\ rested' = Addons \ loaded
  /\ UNCHANGED <<engine, action, loaded, commands, installed>>

Click ==
  \/ LoadOrUnload \/ Install \/ Uninstall \/ Refresh \/ InstallProfile
  \/ InspectProfile \/ ExportProfile \/ CancelImport \/ OpenOrClose \/ ConfirmImport

UseControl ==
  /\ pc = "window" /\ pc' = "operation" /\ clicks < MaxClicks /\ clicks' = clicks + 1
  /\ Click
  /\ UNCHANGED <<session, startup, catalog, disk, chats>>

NoControl ==
  /\ pc = "window" /\ pc' = "operation"
  /\ UNCHANGED <<session, engine, startup, action, transfer, installed, catalog, disk, game, clicks, chats>>
-----------------------------------------------------------------------------
Frame == Operation \/ Unconfirmed \/ Confirmed \/ Transfer \/ Startup \/ NoControl \/ UseControl
Next == Frame \/ JobEnds \/ ForgottenJobEnds \/ GameExecutes \/ Chat

\* Frames are drawn, jobs end (see EngineJobs) and the five seconds pass, so that a
\* command is not waited for in every frame to come; the game owes nothing.
Spec == Init /\ [][Next]_vars /\ WF_vars(Frame) /\ WF_vars(JobEnds) /\ SF_vars(Confirmed)
-----------------------------------------------------------------------------
(* Properties                                                               *)

\* Every variable stays in its type; the one type invariant of this module.
TypeOK ==
  /\ session \in Sessions /\ pc \in {"operation", "action", "transfer", "startup", "window"}
  /\ op \in Jobs \cup {None} /\ forgotten \subseteq Jobs
  /\ startup.queue \subseteq Positions(installed \cup disk) /\ (startup.completed => startup.started)
  /\ action \in Actions \cup {None}
  /\ transfer.todo \subseteq DOMAIN Order /\ (transfer.current # None => transfer.phase = "unloading")
  /\ transfer.skipped \subseteq transfer.settings /\ transfer.settings \subseteq Addons
  /\ installed \subseteq Addons /\ disk \subseteq Addons /\ loaded \subseteq Addons

\* With a catalog, no operation in progress and none that was ever forgotten, the
\* records of the client are what is on the disk.
RecordsMatchDisk ==
  catalog /\ op = None /\ forgotten = {} => installed = disk

\* An operation is pushed out of state.operation only by three controls: those that
\* inspect or export a profile and that cancel the review of one.
ReplacedOnlyByTransferControls ==
  [][forgotten' # forgotten /\ op' # op => op'.kind \in {"inspect", "export", "cancel"}]_vars

\* One add-on is loaded or unloaded at a time: a command that is waited for is
\* confirmed or given up before the next one is sent, by whatever part of the client.
OneAddonAtATime ==
  [][action # None /\ action' # None => action' = action]_vars

\* If the game tells what is loaded, settings of an add-on that was in the unload
\* queue are restored only if it was not running at some time since the user
\* confirmed the import. It says nothing of one that a refresh adopts after the queue
\* was made (main.lua:455): the settings of that one are replaced while it runs,
\* against the README of the repository (line 89).
QueuedWasUnloaded ==
  session.status /\ op # None /\ op.kind = "settings" /\ op.addon \in transfer.queued
    => op.addon \in rested

\* The start-up ends, whatever becomes of the cache check, the commands it sends and
\* the controls that are used meanwhile.
StartupEnds == <>startup.completed

\* An import that the user has confirmed comes to its summary or is dismissed.
ImportEnds == transfer.phase = "repositories" ~> transfer.phase \in {"summary", "none"}
=============================================================================
