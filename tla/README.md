# VanaHub in TLA+

VanaHub is an add-on browser for the game client Ashita: a Lua front end drawn by
the game (`addon/`), a native engine in a DLL that downloads, verifies, installs and
recovers add-ons (`native/`), and the command line tools a catalog repository runs
(`tools/`). This directory holds TLA+ models of the parts that keep state, the TLC
runs that check them on small instances, and TLAPS proofs of the results that
matter for every instance. `PROJECT.json` maps each definition to the lines it
models; paths below are relative to the repository's root.

Run a model with `tlc -workers 2 -config <run>.cfg <module>` (the runs and their
modules are in `PROJECT.json`) and a proof with `tlapm <module>.tla`, for the
modules whose names end in `Proofs`.

## 1. The system

| Component | State | Operations |
| --- | --- | --- |
| Package transactions (`native/src/engine.cpp`, `execute_job`, `vh_engine_recover`) | add-on directories, `.vanahub-owned` lists, `cache/transactions/<id>/{transaction.json,staging,backup}` | install/update, uninstall, recover |
| Settings restoration (same file) | `config/addons/<package>`, `.vanahub-import`, `vanahub/backups/<id>` | restore, recover |
| Signed repository cache (same file) | `repositories/<id>/{current,generations/<sha256>,*.part}` | fetchRepository, loadRepositoryCache |
| Job table (same file, `backend.lua`) | `next_id`, `jobs`, three operation mutexes, one thread per job | start, poll, cancel, release, destroy |
| Self-update (`stageSelfUpdate`, `vanahub.lua`) | `versions/`, `active.txt`, `pending.txt` | stage, bootstrap |
| Profile document (`profiles.lua`, `load_state`/`save_state`) | profiles, active profile, installed records, `state.json` | normalize, add, rename, remove, move, import, add/remove installed, save |
| Client frame loop (`main.lua`) | `state.operation`, `addon_action`, `transfer`, `startup`, `installed` | four handlers and a window per frame |
| Revocations and records (`main.lua`, `rebuild_packages`, `begin_startup`) | `repository.packages`/`.revocations`, `state.installed`, the start-up queue | load a catalog, adopt, install, uninstall, queue, load |
| Validation and Lua scanner (`core.cpp`) | positions in one text | mask literals, match delimiters, mask keys, search |
| Profile archives (`export_profile`, `inspect_profile`) | the archive and its `.part`, `profile-imports/<id>`, `profile-downloads/<id>` | export, inspect, cancel, restore, discard |
| Package archives (`inspect_and_extract`) | the staging directory of a transaction | sequential, one archive |
| Media cache | `cache/media/<sha256>.<ext>`, the client's queue | fetchMedia |
| Admission (`verify_submission.py`, `admission.yml`) | the branch, the pull requests | push, check, merge |
| Other catalog tools (`tools/*.py`, `settings_scan.cpp`) | none beyond their output | batch, run by CI |
| Schemas, policy, workflows, build | none | declarative |

**How they interact.** The game calls `d3d_present` once a frame. The front end runs
its handlers, draws the window, and talks to the engine through a C ABI only:
`vh_job_start` with a JSON request, `vh_job_poll` once a frame, `vh_job_release`.
Each job runs on a thread of its own under one of three mutexes (repository, media,
mutation); jobs meet only on the disk. What a finished job reports (a path, an error)
comes back as the message of its status, upon which the client updates its records,
its profile document and its files. Loading and unloading add-ons is a chat command
the game executes some time later; the client sees the effect by asking
`AddonManager`. The bootstrap `vanahub.lua` runs before all of this and chooses the
version of everything else. The operating system may end the process between any two
file-system calls.

**What is hard in it.** Crashes between calls and inside recursive removals; recovery
that is itself interrupted or fails; job ids that start again at 1 in every session
and name directories that survive it; file-system errors that are not looked at; one
slot for a job that several features write; commands whose effect comes late or
never; two threads on one job; a server that publishes between two downloads; files
that are read twice while an add-on writes them; verdicts on a branch that has moved
since; a record that is made up from what the catalog offers now.
`PROJECT.json` lists each such hazard at its line, with the properties that watch it.

**What makes each part correct.** *Transactions:* an add-on directory is a whole
verified version whatever happened, an update is atomic, nothing the user wrote is
lost, recovery finishes. *Settings:* what was replaced can be had back. *Cache:* only
verified indexes are used and the last one is not lost. *Jobs:* no two jobs on the
same files, true and final results, no blocking of the game's thread, no thread left
behind. *Self-update:* something whole always runs, and in the end the update.
*Profiles:* a well-formed document through every edit and restart. *Client:* records
agree with the disk, settings are replaced under no running add-on, start-up and
import come to an end. *Revocations:* a revoked artifact is recognised by its record and
not loaded. *Archives:* what is exported is complete and can be imported, what is
imported is what was inspected. *Scanner:* it hides what Lua does not execute, and
nothing else. *Admission:* versions only increase.

## 2. The models

| Module | Models | Correspondence |
| --- | --- | --- |
| `Transactions` | `execute_job` for install, update, uninstall, restoreProfileSettings; `vh_engine_create`, `vh_engine_recover` | `pc` is the next file-system call of the one job that holds `mutation_mutex`; `addon`, `conf`, `journal`, `staging`, `backup`, `kept`, `recovered` are the directories; calls whose errors nobody reads fail and the job goes on; a removal may be cut short (`CutShort`, `RemoveOwned`) |
| `AddonStore` | abstract: what the engine promises of add-on directories | one step replaces a directory by a whole version; `Transactions!ImplementsAddonStore` is the refinement, with `Live` as its mapping: the directory, or the backup recovery would put back |
| `TransactionsProofs` | theorems of `Transactions` | section 5 |
| `RepositoryCache` | `fetchRepository` and `loadRepositoryCache` for a signed repository, `activate_signed_repository`, `activate_pointer`, `load_signed_repository_cache` | `gens` is the `generations` directory, `pointer` is `current`, `part`/`sigPart` the partial files; an index stands for its digest, so a signature verifies when it is that of the index |
| `RepositoryCacheProofs` | theorems of `RepositoryCache` | section 5 |
| `EngineJobs` | `struct job`, `vh_engine`, `execute_job`'s locks and checks, the five ABI functions, `backend.poll` | `job[id].step` is where the worker is, `holder` the mutexes, `watched` the jobs the client still holds on to, `client` the call its thread is in (polls and releases take two steps) |
| `EngineJobsProofs` | theorems of `EngineJobs` | section 5 |
| `SelfUpdateProofs` | theorems of `SelfUpdate` | section 5 |
| `SelfUpdate` | `stageSelfUpdate` after verification, and `vanahub.lua` | one action per call; `dir` says whether a version is whole, extracted in part or removed in part; a text file may hold a version, another text (`Cut`) or nothing, and `failed` is a bootstrap that stopped |
| `Profiles` | all of `profiles.lua` and the callers that save | the document in memory and the file; a save is a removal and a rename (`write_text`); a name is a sequence: words that were typed or built in, then the numbers the program appended |
| `ProfilesProofs` | theorems of `Profiles` | section 5 |
| `Client` | `tick_operation`, `tick_addon_action`, `advance_profile_import`, `tick_startup` and the controls of the window | `pc` runs the handlers in the order of `d3d_present`; `op` is `state.operation` with its context, `action` is `state.addon_action` |
| `ClientProofs` | theorems of `Client` | section 5 |
| `Revocations` | the client's catalogs and records: `load_state`, `load_repository`, `rebuild_packages`, the ends of jobs, `begin_startup`, `tick_startup` | `disk` is the artifact in an add-on's directory, `aside` what an interrupted update moved away, `record` is `state.installed[id].sha256`; a job of the engine is one step |
| `ProfileArchives` | `export_profile`, `inspect_profile`, the operations around them, `discardProfileImport` | `pc` is the next call for the next file; `part` is the archive being written, `staging` the directories of `profile-imports`; an archive is a sequence of entries whose contents have a size, a packed size, and a verdict of the scan |
| `SemVer` | `semver_greater` of `verify_submission.py` | operators; a version is three numbers and its pre-release identifiers |
| `Admission` | `main` of `verify_submission.py` as `admission.yml` runs it | `merged` is the history of one manifest on the branch, `request[p]` a pull request with the place its branch starts from and the one it was checked against; git's rule for a file changed on both sides is the only external part |
| `CatalogProofs` | theorems of `SemVer`, `Admission` and `Revocations` | section 5 |
| `LuaScanner` | `scan_setting` for a Lua file: `mask_lua_literals`, `balanced_lua_delimiters`, `mask_lua_table_keys`, `scan_lua` | one action per turn of each loop; `index`, `text` and `stack` are the code's; what the loops are to compute is said of the whole text beside them |
| `ImportProofs` | theorems of `ProfileArchives` and `LuaScanner` | section 5 |

Composition is by contract: `Client` takes of a job only what `EngineJobs` shows (it
ends, once, with a result that is true) and what `Transactions` shows (the package is
there afterwards or not); `Profiles` takes that an add-on's marker may come back by
recovery after it has read its file; `Revocations` refines what `Client` calls a record
by the digest in it, and takes of `Transactions` that an install replaces a whole
artifact or leaves the add-on aside until recovery; `ProfileArchives` hands a staging
directory to the restores of `Transactions`. `EngineJobs` justifies that `Transactions`,
`ProfileArchives` and `RepositoryCache` have one job at a time on the disk
(`DiskAccessSerialized`).

What is abstracted: texts (messages, JSON, progress), contents of files beyond which
version they belong to and, in `ProfileArchives`, sizes and verdicts; URLs; and in
`LuaScanner` every character that the loops do not tell apart. A file-system call is atomic except a
recursive removal, a recursive copy, an extraction and a write, which may stop anywhere.
At most `MaxFaults` calls fail. What a failure leaves is what the call can leave: a
removal any part of the directory, a copy loop some of the files, a stream any part of the
text or none, an extraction some of the files; a failed rename leaves both names as they
were. Where the code does not look at the error the job goes on with it.

## 3. The runs

| Run | Module | What it shows |
| --- | --- | --- |
| `TransactionsPackages` | `MCTransactions` | installs and uninstalls of two add-ons with crashes and a failing call, checked or not: `AddonsWhole`, `SingleFailureRollsBack`, and the refinement `ImplementsAddonStore` |
| `TransactionsSettings` | `MCTransactions` | installs and restores over three sessions, with an add-on that writes its settings at any time: `RecoveryComplete`, `SettingsLostOnlyTwoWays` |
| `RepositoryCache` | `MCRepositoryCache` | only verified indexes are used (`ReportedIsCurrent`, `PointerMovesToVerified`), the last generation and its finding (`LastGenerationSurvives`, `LoadFindsSurvivor`), `JobsEnd` |
| `EngineJobs` | `MCEngineJobs` | all interleavings of two jobs and the client |
| `SelfUpdate` | `MCSelfUpdate` | staging and activation, interrupted anywhere |
| `Profiles` | `MCProfiles` | every edit, save, crash and restart of a document with two profiles |
| `Client` | `MCClient` | frames, jobs, commands, an import, start-up and the player's own commands |
| `Revocations` | `MCRevocations` | records and revocations over publications, adoption, crashes and two sessions: `RecordTellsTheDisk`, `LoadsRevokedOnlyUnrecognised` |
| `ProfileArchives` | `MCProfileArchives` | exports and inspections, with writes, cancels, failing calls and ids used again: `ExportsAreImportable`, `ExportsAreComplete`, `StagingIsTheArchive` |
| `Admission` | `MCAdmission` | two requests for one package, judged early and merged late: `VersionsIncrease` |
| `LuaScanner` | `MCLuaScanner` | every file of a few tokens: `MasksTheLiterals`, `MalformedIsTrue`, `ReportsTheWords` |
| `SettingsBackupReuse` | `MCTransactions` | a disagreement between the code and its documents: section 4 |

Every type invariant is a theorem; those of `Profiles` and `Client` are run as well.

**Bounds, and why they are enough.**

* *Transactions.* Two add-ons and two versions, one with a file more than the other,
  and a foreign archive: enough for a mixture of versions, for an update that gains or
  loses a file and for a file the user put in the place of one to come. Two job ids and
  two or three sessions (`MaxBoots`): an id is used again in a later session, and a
  recovery is interrupted and run again. One fault: each call that can fail does so in some
  behaviour, but for those that are only made after another failure or only on what one
  left (the roll back of an add-on, the put-back of settings, a removal at the beginning
  of a job): for these a second failure is needed, and the proofs, which have no bound,
  cover it. `MaxTree` bounds the distinguishable settings directories, also those there
  are at first; `TransactionsPackages` has none, as no operation of it looks at them.
  `TransactionsSettings` has one add-on, one version and one file, three settings
  directories (the first, the imported, and one written during the restore) and three
  sessions. The two runs
  differ in the operations that are mixed: the directories of add-ons and of settings
  are disjoint, and only the transaction directories and ids are shared, which the
  second run mixes. Symmetry over add-ons is used where only safety is checked and no
  property or initial state names one.
* *RepositoryCache.* Three indexes, one unsigned: the current, the previous and one that
  is to be pruned; two failing calls, because one of the exceptions of
  `LastGenerationSurvives` takes two; a crash is possible at every step and as often as
  one likes.
* *EngineJobs.* Two jobs of five operations, one for each path through `execute_job`'s
  locks and checks. Exclusion, cancellation and the table relate pairs of jobs, and the
  safety properties are proved for any number.
* *SelfUpdate.* The shipped version and two more: an update staged over one that is
  pending. One fault, with any number of launches and exits. A text cut short is no
  version, or the name of another one (`Prefixes`).
* *Profiles.* One add-on and `vanahub` itself, which the code treats apart; two
  profiles, names typed equal to the ones the program builds, two ends of a session at
  any step of a save.
* *Client.* Two add-ons (one affected by a command while the other is restored), a
  custom repository brought by the import, three uses of a control (open an import,
  confirm, and one that interferes), one `/addon` command of the player, and three kinds
  of session: without an engine, with an `AddonManager` that answers, with one that
  does not.
* *Revocations.* Two add-ons and two artifacts, so that an update, a roll back to an
  older offer and a revocation of either are told apart; the built-in catalog and one
  custom repository, which may offer what the built-in one has revoked; two changes of
  the built-in catalog, and two sessions, so that what one leaves behind is adopted in
  the next. Symmetry over add-ons and over artifacts: no property or initial state
  names one.
* *ProfileArchives.* Two add-ons with one file each, and four contents: plain, one that
  packs too well, one that is large, one that the scan refuses; the first two may be
  manifests. The limits (three entries, a total of four) are such that the manifest and
  two files reach each of them, and that it is the manifest that takes the total over its
  limit. One job id, used in each of two sessions: the second finds what the first has
  left. One file written during an export, and two failing calls, for a removal that fails
  after an extraction did. The received archives are one good one and one for each
  reason to refuse that no export gives.
* *Admission.* Two requests, three merges, and eight versions: releases and pre-releases
  with numerals, texts, a leading zero and a longer list, that is a case for each branch
  of `semver_greater`. Symmetry over requests.
* *LuaScanner.* All sequences of up to four tokens of quotes, escapes, comments, brackets
  of two levels, line ends and a word; of up to five delimiters; and of up to five parts
  of a table; a letter and a digit stand for the characters of identifiers. Each loop
  sees every pair of its states in a row; two words, one inside the other, make the search
  go on after an occurrence that does not stand alone.

**Deadlock** is checked except where the system really stops: in the runs of
`MCTransactions`, where the sessions and the job ids are bounded, in `EngineJobs`,
where the engine is deleted, in `ProfileArchives`, where ids and sessions are bounded,
and in `LuaScanner`, where the scan ends.

**Fairness.** `RepositoryCache` and `EngineJobs` assume that a thread that can run
does: every wait for the network has a limit (`WinHttpSetTimeouts` in
`download_file`), the rest is local. `EngineJobs` further assumes that the client polls the jobs it holds on to
again and again, as the frame handlers do with `state.operation` (`main.lua:719-723`) and
`media.job` (`main.lua:592-601`), and no others: a job that is replaced there (`Forget`;
`main.lua:333`, `383`, `403`, `930`) is never polled again, and `EveryResultSeen` says so.
It assumes that a call the client is in goes on, and nothing about its other calls; a
mutex needs no fairness of its own with finitely many jobs. `Client` assumes that frames are drawn and jobs end, and that a
command waited for over infinitely many frames is given up in one of them
(strong fairness of `Confirmed`: the five seconds pass). It does not assume that the
game ever executes a command or that the player does anything. The safety-only
specifications state no fairness.

**Mutants.** Each property of a passing run has a mutant in `PROJECT.json`: an operator
next to the one it replaces (marked "Mutant") that changes the code as a plausible
mistake would, and under which TLC finds the property violated.

## 4. What the models found

* `SettingsBackupReuse`: a settings restore moves the old settings into its transaction
  and deletes them with it in two ways. The add-on writes settings meanwhile: the directory
  is there again, so neither the imported settings (`engine.cpp:914`) nor the old ones
  (`engine.cpp:917`, its error not read) can be moved into place, and `engine.cpp:918`
  removes the old ones. Nothing keeps an add-on from it that was loaded again after the one
  check that it is not. Or the id was used before: ids restart at 1, so
  `backups/<id>/<package>` may be taken by an earlier session's backup; the rename fails
  unnoticed (`engine.cpp:922`) and the only copy is removed with the transaction.
  `docs/threat-model.md:55` promises a recoverable backup. `SettingsLostOnlyTwoWays` shows
  that nothing else loses them while no call fails for a reason of its own.

Others are exceptions that a passing property states, and with which it holds:

* A file a running add-on writes after its update has copied the untracked files is
  removed with the backup (`engine.cpp:1016-1038`). `ImplementsAddonStore` allows the
  loss of such a late file (`AddonStore`) and shows that all others are kept.
* Refreshing an unchanged catalog removes the cached generation before it is written
  again (`engine.cpp:138`); a crash there leaves none. `LastGenerationSurvives` shows
  that this and a read failure are the only ways.
* A crash between the move of a staged version and its marker leaves a version that no
  launch runs, and every later staging of it is refused as already staged
  (`engine.cpp:998-1000`). So does a marker whose text was not written, or not all of it:
  the stream at `engine.cpp:1007` is not checked, the file is renamed into place and the
  job answers "ok". `StrandedOnlyIfCutShort` shows that nothing else does.
* One failed write of `active.txt.tmp` is enough to stop the package manager: neither
  `write` nor `close` is checked (`vanahub.lua:28-29`), the empty or shortened text is
  renamed to `active.txt` and `pending.txt` is removed, and every launch from then on ends
  in the assert at line 37 or in `dofile`. `VersionsInUseWhole` and `PromisedVersionRuns`
  name it (`activeCut`) and show that no other single failure, and no end of the game,
  does that, unless the new version was itself extracted in part (below).
* An extraction that cannot go on to the next entry of its archive ends as if that had been
  the last one (`engine.cpp:520-524`), and the ownership list is written unchecked
  (`engine.cpp:527-530`, `1028`): a job can answer "ok" and leave part of a version, or a
  list that does not name all its files. `AddonsWhole` names both (`slip`). Profile
  archives are extracted the same way (`engine.cpp:697-711`): the job answers "ok" with
  files missing, which `StagingIsTheArchive` names (`short`).
* Affected add-ons are checked to be unloaded once, before the first of the restores; a
  load the start-up gave up on is executed by the game between them, and settings are
  replaced under a running add-on. The queue of those to unload is made before that, from
  the records of that moment (`main.lua:455-460`), while each restore asks the records
  again (`main.lua:481`): of an add-on that the Refresh button makes the client adopt
  while an unload is waited for, settings are replaced although nobody unloaded it. The
  repository's README promises the opposite of both (line 89). `QueuedWasUnloaded` is the
  weaker thing the code does establish.
* If the old directory of a digest cannot be emptied and the move of the new files into it
  fails too, the clean-up of `fetchRepository` removes the generation that was there.
  `LastGenerationSurvives` allows this from the second failure on.

So are these, met in the later models: an adopted add-on is recorded as what the catalog
offers now, so its revocation may go unrecognised (`RecordTellsTheDisk`); revocations
that are not in memory when the start-up queue is built, because they arrive with the
refresh or the check of the cache failed, are not looked at
(`LoadsRevokedOnlyUnrecognised`); an export may commit an archive that its own
inspection refuses, because the inspection alone looks at compression ratios, at the size
of the archive and at add-on ids that name a device, because a file was written between
its scan and its archiving, or because closing the archive failed, which is not looked at
(`ExportsAreImportable`); and it leaves out, without an error, files that a failing
directory iterator hid (`ExportsAreComplete`).

Two more, kept out of the runs by their bounds: with *two* failing calls
`VersionsInUseWhole` does not hold even so (publishing a marker fails, the game ends while the
version is removed again, and a later staging that cannot open `pending.txt.tmp`
publishes the stale text in it, which names the half-removed version); and a recovery
that gives up is not noticed by the client (`backend.lua:56`), after which a later job
removes the transaction left behind, hence `RecoveryComplete` is stated for recoveries
that succeed.

## 5. What is proved

`TransactionsProofs` proves, for any add-ons, versions, files and bounds (hence any
number of crashes, sessions and failing calls):

* `TypeCorrect`: `Spec => []TypeOK`;
* `AddonsStayWhole`: `Spec => []AddonsWhole`;
* `RecoveryIsComplete`: `Spec => []RecoveryComplete`;
* `InstallsRollBack` and `SettingsLossIsKnown`: the action properties
  `SingleFailureRollsBack` and `SettingsLostOnlyTwoWays`;
* `Refinement`: `Spec => ImplementsAddonStore`, the engine implements the abstract store.

The assumption is `ConstantsAssumption` of `Transactions` (versions and
directories are told apart from "none", contents are nonempty sets of files, add-ons are
finitely many). `AddonsWhole` names what the code cannot know or does not do: an
uninstall that has begun, an extraction or a list that ended early without an error, and a
backup that was torn when it was put back. It is not inductive: a
backup that is put back has to be whole too, and so has what is staged when it is
moved into place. The invariant `IInv` adds `BackupsWhole` (a backup is whole unless
its add-on was torn, or a removal has taken files of it: `tornBackup`), `PhaseInv` (only
a serving engine has a job), `InstallInv` (what is known at each step of an install: after
the hash check the archive is the version asked for, what has been extracted of it is in
the staging directory, and before the commit that directory is whole unless the install
has gone on after a failure that left it short, `slip`) and `UninstallInv` (an uninstall with files to go has marked its add-on). One
lemma per action or step group proves it kept; lemmas on directories
(`MergedWhole`, `WriteUntracked`, `Unowned`) and on removals (`RemainsType`,
`RemovalType`) carry the data.

The other four need to know where everything is, which `FullInv` adds to `IInv`:

* `TxnInv` is about the transaction directories. `StepInv` says which job is at which
  step, and that a roll back follows a failed call. `InstallTxn`, `RestoreTxn` and `UninstallTxn` say
  what the transaction of the running job holds: the journal is there, the add-on is in at most one of
  its two places, an uninstall has removed every owned file that it no longer lists.
  `LeftoverInv` says that while no call has failed and no recovery has given up
  (`Trusted`) there is at most one transaction: the running job's, or the one recovery has
  still to visit. `BackupInv` says that settings moved aside are in a place that keeps
  them or have a journal that tells recovery of them, unless the put-back was refused because the add-on had written new ones
  (`refused`), and that recovery removes a transaction only after taking from it what it
  needed.
* `TreeInv` says that a settings directory is in one place only, which is what makes
  "lost" a step of one action.
* `StagedInv` says that from the copy of the untracked files to the commit, the staging
  directory is what the abstract store puts in place of the add-on, wherever the add-on is
  by then; what the user writes meanwhile is the abstract store's late file.

`Refinement` then goes action by action: the commit and the last removal of an uninstall
map to a step of the store, the user's writes to a write, and all others leave `Live`,
the directory or the backup recovery would put back, as it is (`QuietStep`). The
hypothesis `Trusted` is in the abstract specification itself: after a failed call, or a
recovery that gave up, it promises nothing more, while `AddonsStayWhole` still holds, with
the exceptions it names.

`EngineJobsProofs` proves, for any operations and any number of jobs, `TypeCorrect` and
all five safety properties of the job machinery: `DiskSerialized`,
`CancelledEarlyDoesNothing`, `ResultsAreTruthful`, `ReleaseDoesNotWait` and
`WorkersAreKnown`. Its invariant says that the started jobs are the ids below
`next_id` and the table and the client know no others (`IdsInv`), that a worker between its lock and its
result holds the mutex of its operation (`MutexInv`), what a worker has done and
reported at each step (`ResultInv`), and that a package job cancelled early is on its
way out (`CancelInv`). `WorkerInv` reduces every step of a worker to conditions on its
new record, so each action has a short proof. It assumes `ConstantsAssumption` and
`NoJobAssumption` (no job is told apart from every job).

`RepositoryCacheProofs` proves, for any indexes and any number of crashes and failing
calls, `TypeCorrect`, `ReportsAreCurrent`, `LoadsFindSurvivors` and the action property
`PointerIsVerified`. That the pointer names a complete generation when it is switched
depends on six steps before it, hence `FetchInv`: from the verification on the signature
is that of the index, the generation being filled exists and then holds the index, it
is verified when the pointer is switched, and what is being pruned is not what the
pointer names. `LoadingInv` says that a load has not passed over a verified generation.
It assumes `ConstantsAssumption` of `RepositoryCache`. `LastGenerationOutlives` is the
action property `LastGenerationSurvives`: it looks at each action that takes a file away
and shows what it leaves. An activation leaves its own generation, verified
(`ActivationSpares`), a pruning the one just activated (`PruningSpares`), a crash
everything (`CrashSpares`), and no action touches a directory other than its own
(`OthersStayValid`). That a move which takes a valid generation with it was preceded by
a failed removal is `UnclearedInv`, which makes the exception one of two failures.

`SelfUpdateProofs` proves, for any versions, launches, failing calls and ends of the game,
`TypeCorrect`, `StrandedByInterruption` and the action property `LaunchRunsPromised`,
each with the exceptions for writes nobody checks (section 4).
What the last rests on is `PromiseInv`: the version promised is on the disk, and, if its
marker was written, named by `pending.txt` until it is named by `active.txt` or that was
cut short, with a clause for each step of the bootstrap between the two; `StagingInv` says
that a staging that has not been published yet is of another version, so undoing it does
not touch the promise.
`OneFailureIsSurvived` is `Spec => [](faults <= 1 => VersionsInUseWhole)`, and `faults`
counts up to any `MaxFaults`: with two it does not hold (section 4). Its invariant
`WholeInv` has a part for no failure so far (`NoFailure`) and one for at most one
(`OneFailure`): which versions the texts not yet renamed may name, that a version which is
being removed again after a failure is none of these, and when the one failure is spent.

`CatalogProofs` proves that `SemverGreater` is a strict order (`GreaterIrreflexive`,
`GreaterTransitive`) for any identifiers, any order of texts that is itself strict, and
lists of any length, and from it `HistoryIncreases` for any number of requests and
merges. The invariant `RequestInv` says that an accepted request is greater than the
version it was checked against; git merges it only if the manifest is still the one its
branch started from, and as the history has no version twice, that is its last one: the
verdict was about the version the request is merged upon after all (`MergesFromTheEnd`).
It assumes `SemVerAssumption` and `AdmissionAssumption`; `AdmissionTypeCorrect` is the type.

Of `Revocations` it proves `TypeCorrect`, `RecordsAreTrue` and `RevokedIsNotLoaded`, for
any add-ons, artifacts and repositories. The second needs `QueueInv`: what is still to be
loaded has the record it had when the queue was built, and no job that runs is about it,
which rests on `PhaseInv`: nothing is installed before the queue is built (`op` is taken
by the check and the refresh), nor while it is worked off, other than add-ons without a
record. It assumes `ConstantsAssumption` and `NoJobAssumption`.

`ProfilesProofs` proves, for any lists of add-ons, names, numbers of profiles and ends of
the session, `TypeCorrect`, `DocumentsAreSound` (`DocumentSound`), `ProfilesListInstalled`
(`InstalledEverywhere`), `OnlyInstalledAutoLoad` (`AutoLoadsInstalled`) and the action
property `StartReadsBack` (`StartKeepsDocument`). Most of it is about data:

* The code's loops over lists (sort, filter, remove, remove duplicates) are elements at
  the positions of a set, in order (`At`), and one lemma, `AtProperties`, says of what
  such a list consists, that it has no duplicates and that it keeps the order.
  `NormalizedLists`, `ListSound` and the lemmas per operation follow from it.
* `next_id` and `unique_name` count up until they find one that is free. `LeastExists`
  (a nonempty set of numbers has a least one, by the well-foundedness of `<`) and
  `FreeNumber` (of more numbers than profiles one is free, by cardinality) show that they
  do find one, and `NextIdIsFree` and `UniqueNameIsFree` that it is.
* `NormalizeSaved` says that normalising at start-up what a sound document saved gives
  that document back: it is what `StartReadsBack` rests on.

The invariant `IInv` is `TypeOK` with the soundness of the document in memory and of that
in the file: the second is needed because a start takes the file for the memory, and the
first because a save does the reverse. It assumes `ConstantsAssumption` of `Profiles`
(the list of add-ons has no duplicates, names are sequences of words and numbers).

`ClientProofs` proves, for any add-ons, sessions, uses of controls and commands,
`TypeCorrect`, `RecordsAreTrue` (`RecordsMatchDisk`), `SettingsOfTheUnloaded`
(`QueuedWasUnloaded`), and the action properties `OneCommand` (`OneAddonAtATime`) and
`OnlyTheTransferReplaces` (`ReplacedOnlyByTransferControls`). Its invariant is that of a
state machine spread over several variables: `StartInv` says what a start-up that is not
completed excludes, `PhaseOfJob` to which phase of the transfer a job belongs, and
`TransferInv` what each phase says of the queues. Upon it rest two more: `RecordsInv`,
that unless a transfer's control has replaced a job, the records agree with the disk once
the job in `state.operation` is recorded (`Settled`), and `UnloadInv`, where an add-on of
the unload queue is until its settings are restored: still queued, waited for, given up and
kept from the restores, or unloaded since the confirmation. One lemma per handler and control proves them kept. It assumes
`ConstantsAssumption` and `NoneAssumption` of `Client`.

`ImportProofs` proves the properties of the two modules whose code is loops over data.
Induction over data is not a rule the provers can apply here, nor is it needed where the
loop is in the model: the invariant says what the loop has done of what it is to do, and a
turn of the loop is a step of the induction.

* Of `ProfileArchives`: `ArchiveTypeCorrect`, `StagingFollowsTheArchive`
  (`StagingIsTheArchive`), and the action properties `ExportsCanBeImported`
  (`ExportsAreImportable`) and `ExportsLoseNothing` (`ExportsAreComplete`), for any
  add-ons, contents, limits and received archives of any length. Its invariant `ArchiveInv` adds to the type
  what the archive being written holds (`ExportInv`), what it weighs (`SizeInv`: unless a
  file was written after its scan, `expanded` is the sum of what is in it and of what is
  being added), and what the staging directory has of the archive being inspected
  (`InspectInv`). The sum is the one definition with a recursion of its own: that it adds up
  (`SumIs`) is shown by the least prefix for which it would not.
  It assumes `ConstantsAssumption` of `ProfileArchives`.
* Of `LuaScanner`: `ScanTypeCorrect`, `LiteralsAreMasked` (`MasksTheLiterals`),
  `MalformedFilesAreFound` (`MalformedIsTrue`) and `UsesAreReported` (`ReportsTheWords`),
  for files of any length and any words. Its invariant `ScanInv` has a part per loop. `SpanInv` and
  `QuoteInv`: up to where the masking has come, the spans are the literals; within a string
  an even number of backslashes comes before the position, so what is read there is not
  escaped. `BalanceInv`: the stack is what is open of the text read (`Stacked`), every
  pairing of all of the text has these pairs, and hence none is left when a delimiter does
  not close the top. `KeysInv`: what is masked are the keys before the position, and a
  mask changes nothing about what is a key after it, as a key is next to a separator and
  an equals sign, which are not masked. `WordsInv`: no use of the word that is looked for
  has been passed. `MalformedInv` carries the verdict from loop to loop.
  It assumes `ScannerAssumption`: identifiers have neither spaces nor separators in them,
  and a word begins and ends as an identifier does, as those of `blocked_symbols` do.

Only model-checked: liveness (`EveryResultSeen`, `JobsEnd`, `StartupEnds`,
`ImportEnds`), as temporal reasoning under fairness is out of the prover's reach.

## 6. What is not modelled, and why

* The limits and names of package archives (`inspect_and_extract`): `Transactions` takes
  an archive that is accepted, rejected, or extracted in part with or without an error as a
  choice. It is the same two passes as
  `inspect_profile`, without a directory that outlives its job.
* The path and identifier rules, the magic numbers of binaries, the check of generated
  Lua and `json_escape` of `core.cpp`: predicates on one text, whose model would be the
  code again.
* The unsigned cache of a custom repository (one rename, no generations), the
  bookkeeping of custom repositories, search and consent dialogs.
* The media cache: files named by their digest and written by a rename; the client asks
  for one at a time and not again in a session.
* The progress counters of a job, written without its lock: only wording depends on
  them.
* In `Transactions`: what a failed removal at the beginning of a job leaves of a
  transaction of the other kind, settings or package (`SameKind`), and a journal of the other
  kind that could not be overwritten: each takes two or three failures. A settings directory
  in a removal that was cut short is there or gone, not part of it. An add-on does not
  make its own directory anew while it is moved aside: its files are opened with `io.open`,
  which makes no directories. An exception of a file-system call without an error code
  ends the process, as it ends the thread: it is `Crash`.
* What threads of a deleted engine do: undefined, so `EngineJobs` ends there and says
  which threads those are (`NoOrphanedWorker`).
* The other catalog tools: batch programs over one input. `publish.yml` builds the index
  from whatever the branch is. Schemas, policies, build: declarative.

## 7. Plan

Order of the work, all of it done.

1. `Transactions` with `AddonStore`: the core, the refinement, the first proofs.
2. `RepositoryCache` and its proofs. 3. `EngineJobs` and its proofs. 4. `SelfUpdate`.
5. `Profiles`. 6. `Client`.
7. `Revocations` and its proofs.
8. Algorithms: `SemVer` with `Admission` and their proofs; `LuaScanner`.
9. `ProfileArchives`; the proofs of `SelfUpdate`.
10. Proofs of the rest of the safety properties: `Transactions` with its refinement,
    `Client`, `Profiles`, the last generation of `RepositoryCache`, one failure of
    `SelfUpdate`.
11. Proofs of the loops over data: `ProfileArchives` and `LuaScanner`.
