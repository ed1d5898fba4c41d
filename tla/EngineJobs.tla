----------------------------- MODULE EngineJobs -----------------------------
(***************************************************************************)
(* The job machinery of the engine (native/src/engine.cpp): struct job,    *)
(* the job table of vh_engine, the worker thread of every job with the     *)
(* mutex of its operation, and the functions vh_job_start, vh_job_poll,    *)
(* vh_job_cancel, vh_job_release and vh_engine_destroy, which one thread   *)
(* of the client (the Lua code) calls.  What a job does to the disk is in  *)
(* Transactions and RepositoryCache: here it is one step, Work.            *)
(***************************************************************************)
EXTENDS Naturals, FiniteSets

CONSTANTS
  Operations,  (* operations the client starts                  *)
  MaxJob,      (* bound: jobs started in the life of the engine *)
  NoJob        (* no job at all                                 *)

\* One operation for each way execute_job can go through its locks and checks;
\* install stands for update and stageSelfUpdate, restoreProfileSettings for
\* discardProfileImport, inspectCatalogProfile for the other profile archives.
RepositoryOperations == {"loadRepositoryCache", "fetchRepository"}
PackageOperations == {"install", "uninstall"}
MutationOperations == PackageOperations \cup {"restoreProfileSettings", "inspectCatalogProfile"}

ASSUME ConstantsAssumption ==
  /\ Operations \subseteq RepositoryOperations \cup {"fetchMedia"} \cup MutationOperations
  /\ MaxJob \in Nat \ {0} /\ NoJob \notin 1..MaxJob

Ids == 1..MaxJob
Mutexes == {"repository", "media", "mutation"}
Results == {"none", "ok", "failed", "cancelled"}

VARIABLES
  table,   \* engine->jobs: the ids the map holds
  watched, \* those of them the client holds on to, in state.operation or media.job
  nextId,  \* engine->next_id
  job,     \* the object and the worker thread of every started job
  holder,  \* the job that holds each mutex
  client,  \* the call the client thread is in
  view,    \* the result the client read last, of every job
  engine,  \* "open", or "deleted" by vh_engine_destroy
  early,   \* history: jobs cancelled before their worker held its mutex
  left     \* history: jobs still in the table when the engine was deleted

vars == <<table, watched, nextId, job, holder, client, view, engine, early, left>>

Steps == {"start", "refuse", "check", "download", "work", "finish", "return", "exited"}
Jobs == [op : Operations, step : Steps, cancel : BOOLEAN, worked : BOOLEAN,
         result : Results]
Calls == [call : {"none"}] \cup [call : {"release"}, id : Ids]
           \cup [call : {"poll"}, id : Ids, sized : Results]

ASSUME NoJobAssumption == NoJob \notin Jobs

Started == {id \in Ids : job[id] # NoJob}
Terminal(id) == job[id].result # "none"

\* Mutant: settings are restored under a mutex of their own.
MutexOfItsOwn(op) ==
  CASE op \in RepositoryOperations -> "repository"
    [] op \in {"fetchMedia", "restoreProfileSettings"} -> "media"
    [] OTHER -> "mutation"

MutexOf(op) ==
  CASE op \in RepositoryOperations -> "repository"
    [] op = "fetchMedia" -> "media"
    [] OTHER -> "mutation"

Init ==
  /\ table = {} /\ watched = {} /\ nextId = 1
  /\ job = [id \in Ids |-> NoJob] /\ holder = [m \in Mutexes |-> NoJob]
  /\ client = [call |-> "none"] /\ view = [id \in Ids |-> "none"]
  /\ engine = "open" /\ early = {} /\ left = {}
-----------------------------------------------------------------------------
(* The worker thread.  A worker of a deleted engine has no defined step.    *)

Runs(id, step) == engine = "open" /\ job[id] # NoJob /\ job[id].step = step

Worker(id, changed) ==
  /\ job' = [job EXCEPT ![id] = changed]
  /\ UNCHANGED <<table, watched, nextId, client, view, engine, early, left>>

Goto(id, step) == Worker(id, [job[id] EXCEPT !.step = step]) /\ UNCHANGED holder

\* Mutant: the result is recorded but the job is never marked terminal.
FinishWithoutTerminal(id, value) == Goto(id, "return")

\* job::finish; the mutex is held until the worker function returns.
Finish(id, value) ==
  Worker(id, [job[id] EXCEPT !.result = value, !.step = "return"]) /\ UNCHANGED holder

\* An invalid packageId is refused before any mutex is taken.
Refuse(id) == Runs(id, "refuse") /\ Finish(id, "failed")

\* What follows the mutex; media that is in the cache is not downloaded again.
FirstSteps(op) ==
  CASE op \in PackageOperations -> {"check"}
    [] op \in {"fetchRepository", "inspectCatalogProfile"} -> {"download"}
    [] op = "fetchMedia" -> {"download", "work"}
    [] OTHER -> {"work"}

\* std::scoped_lock on the mutex of the operation.
Acquire(id) ==
  LET m == MutexOf(job[id].op) IN
  /\ Runs(id, "start") /\ holder[m] = NoJob
  /\ holder' = [holder EXCEPT ![m] = id]
  /\ \E step \in FirstSteps(job[id].op) : Worker(id, [job[id] EXCEPT !.step = step])

\* Mutant: a package job does not look at cancel when its turn has come.
IgnoreCancel(id) ==
  /\ Runs(id, "check")
  /\ Goto(id, IF job[id].op = "install" THEN "download" ELSE "work")

\* Only package operations look at cancel when they have got the mutex.
CheckCancel(id) ==
  /\ Runs(id, "check")
  /\ IF job[id].cancel
     THEN Finish(id, "cancelled")
     ELSE Goto(id, IF job[id].op = "install" THEN "download" ELSE "work")

\* A download that sees cancel fails, and its operation reports a cancellation;
\* only the second download of fetchRepository reports a rejected signature, and a
\* request that is not valid an error whether or not it is cancelled.
Download(id) ==
  /\ Runs(id, "download")
  /\ \/ ~job[id].cancel /\ Goto(id, "work")
     \/ Finish(id, IF job[id].cancel THEN "cancelled" ELSE "failed")
     \/ job[id].op # "fetchMedia" /\ Finish(id, "failed")

\* What the operation does to the disk.  Only the inspection of an archive reads
\* cancel again: that of a profile reports a cancellation, that of a package a
\* damaged archive.
Work(id) ==
  /\ Runs(id, "work")
  /\ \/ Worker(id, [job[id] EXCEPT !.worked = TRUE, !.step = "finish"]) /\ UNCHANGED holder
     \/ Finish(id, "failed")
     \/ /\ job[id].op = "inspectCatalogProfile" /\ job[id].cancel
        /\ Finish(id, "cancelled")

\* Mutant: cancel is read once more after the work has been done.
CompleteOrCancel(id) ==
  Runs(id, "finish") /\ Finish(id, IF job[id].cancel THEN "cancelled" ELSE "ok")

Complete(id) == Runs(id, "finish") /\ Finish(id, "ok")

\* The scoped_lock is destroyed and the thread ends.
Return(id) ==
  /\ Runs(id, "return")
  /\ Worker(id, [job[id] EXCEPT !.step = "exited"])
  /\ holder' = [m \in Mutexes |-> IF holder[m] = id THEN NoJob ELSE holder[m]]

WorkerStep(id) ==
  \/ Refuse(id) \/ Acquire(id) \/ CheckCancel(id) \/ Download(id)
  \/ Work(id) \/ Complete(id) \/ Return(id)
-----------------------------------------------------------------------------
(* The client thread                                                        *)

Free == engine = "open" /\ client.call = "none"

\* Another job is put in the place of this one (main.lua:333, 383, 403, 930): it is never
\* polled, cancelled or released again, and stays in the table.
Forget(id) ==
  /\ Free /\ id \in watched
  /\ watched' = watched \ {id}
  /\ UNCHANGED <<table, nextId, job, holder, client, view, engine, early, left>>

\* vh_job_start: the id, the entry of the table, then the thread.
Start(op) ==
  /\ Free /\ nextId <= MaxJob
  /\ nextId' = nextId + 1
  /\ table' = table \cup {nextId} /\ watched' = watched \cup {nextId}
  /\ \E step \in {"start", "refuse"} :
       job' = [job EXCEPT ![nextId] = [op |-> op, step |-> step, cancel |-> FALSE,
                                       worked |-> FALSE, result |-> "none"]]
  /\ UNCHANGED <<holder, client, view, engine, early, left>>

\* backend.poll asks twice: for the size of the status ...
PollSize(id) ==
  /\ Free /\ id \in watched
  /\ client' = [call |-> "poll", id |-> id, sized |-> job[id].result]
  /\ UNCHANGED <<table, watched, nextId, job, holder, view, engine, early, left>>

\* ... and for the status, which may have grown out of the buffer by then: its
\* phase, its message and its byte counts change while the job is not terminal.
PollRead ==
  /\ engine = "open" /\ client.call = "poll"
  /\ client' = [call |-> "none"]
  /\ \/ view' = [view EXCEPT ![client.id] = job[client.id].result]
     \/ client.sized = "none" /\ UNCHANGED view
  /\ UNCHANGED <<table, watched, nextId, job, holder, engine, early, left>>

\* vh_job_cancel: a flag, which the worker reads where it likes.
Cancel(id) ==
  /\ Free /\ id \in watched /\ ~job[id].cancel
  /\ job' = [job EXCEPT ![id].cancel = TRUE]
  /\ early' = (IF job[id].step = "start" THEN early \cup {id} ELSE early)
  /\ UNCHANGED <<table, watched, nextId, holder, client, view, engine, left>>

\* Mutant: release joins the worker of a job that has not finished.
ReleaseAny(id) ==
  /\ Free /\ id \in watched
  /\ client' = [call |-> "release", id |-> id]
  /\ UNCHANGED <<table, watched, nextId, job, holder, view, engine, early, left>>

\* vh_job_release returns at once from a job that is not terminal; otherwise it
\* joins the worker, with no mutex held ...
Release(id) ==
  /\ Free /\ id \in watched /\ Terminal(id)
  /\ client' = [call |-> "release", id |-> id]
  /\ UNCHANGED <<table, watched, nextId, job, holder, view, engine, early, left>>

\* Mutant: the entry is erased without waiting for the thread.
EraseWithoutJoin ==
  /\ engine = "open" /\ client.call = "release"
  /\ client' = [call |-> "none"] /\ table' = table \ {client.id}
  /\ watched' = watched \ {client.id}
  /\ UNCHANGED <<nextId, job, holder, view, engine, early, left>>

\* ... and erases the entry when the thread has ended.
Erase ==
  /\ engine = "open" /\ client.call = "release" /\ job[client.id].step = "exited"
  /\ client' = [call |-> "none"] /\ table' = table \ {client.id}
  /\ watched' = watched \ {client.id}
  /\ UNCHANGED <<nextId, job, holder, view, engine, early, left>>

\* vh_engine_destroy cancels every job and deletes the engine: it joins none of
\* their threads, which hold the deleted engine's mutexes and its pointer.
Destroy ==
  /\ Free
  /\ engine' = "deleted" /\ left' = table
  /\ table' = {} /\ watched' = {}
  /\ job' = [id \in Ids |-> IF id \in table THEN [job[id] EXCEPT !.cancel = TRUE] ELSE job[id]]
  /\ UNCHANGED <<nextId, holder, client, view, early>>

ClientStep ==
  \/ \E op \in Operations : Start(op)
  \/ \E id \in Ids : PollSize(id) \/ Cancel(id) \/ Release(id) \/ Forget(id)
  \/ PollRead \/ Erase \/ Destroy

Next == ClientStep \/ \E id \in Ids : WorkerStep(id)

\* Every worker keeps running, since a download waits for a bounded time
\* (WinHttpSetTimeouts); a mutex is not fair, but MaxJob jobs take it once each.
\* A call of the client returns when it can.  The d3d_present handler polls
\* state.operation and media.job in every frame (main.lua:592-601, 719-723), so the jobs
\* the client still holds on to, and no others, are polled again and again.
Fairness ==
  /\ \A id \in Ids : WF_vars(WorkerStep(id)) /\ SF_vars(PollSize(id))
  /\ WF_vars(PollRead) /\ WF_vars(Erase)

Spec == Init /\ [][Next]_vars /\ Fairness
-----------------------------------------------------------------------------
(* Properties                                                               *)

\* Every variable stays in its type; the one type invariant of this module.
TypeOK ==
  /\ table \subseteq Ids /\ watched \subseteq Ids /\ nextId \in 1..(MaxJob + 1)
  /\ job \in [Ids -> Jobs \cup {NoJob}]
  /\ holder \in [Mutexes -> Ids \cup {NoJob}]
  /\ client \in Calls /\ view \in [Ids -> Results]
  /\ engine \in {"open", "deleted"} /\ early \subseteq Ids /\ left \subseteq Ids

\* The operations that write below the install, the settings or the transactions
\* directory: while one is between its first and its last access to the disk, no
\* other one is.  The same holds of the two repository operations.
SharesFiles(a, b) ==
  \E files \in {RepositoryOperations, MutationOperations} : a \in files /\ b \in files

OnDisk(id) == job[id] # NoJob /\ job[id].step \in {"download", "work", "finish"}

\* Jobs that share files are never on the disk at the same time.
DiskAccessSerialized ==
  \A i, j \in Ids : i # j /\ OnDisk(i) /\ OnDisk(j) => ~SharesFiles(job[i].op, job[j].op)

\* A package operation that is cancelled before its worker has got the mutex, for
\* instance while it waits for another job, never touches the installation.
EarlyCancelHonoured ==
  \A id \in early : job[id].op \in {"install", "uninstall"} => ~job[id].worked

\* What the client has read of a job is what the job reports for ever: a result
\* never changes, and never says "ok" of work that was not done, nor "cancelled"
\* of work that was.
ResultsTruthful ==
  \A id \in Started :
    /\ view[id] # "none" => view[id] = job[id].result
    /\ job[id].result = "ok" => job[id].worked
    /\ job[id].result = "cancelled" => ~job[id].worked

\* The client's thread, which draws the game, waits in a release only for a worker
\* that has nothing left to do but return.
ReleaseNeverWaitsForWork ==
  client.call = "release" => job[client.id].step \in {"return", "exited"}

\* A job that has left the table has no thread: deleting an engine all of whose
\* jobs were released leaves no worker with a pointer to it.  The jobs in left are
\* exempt, since vh_engine_destroy does not wait for them.
NoOrphanedWorker ==
  \A id \in Started \ (table \cup left) : job[id].step = "exited"

\* The client learns the result of every job it starts, unless it releases the job
\* first, puts another one in its place (which three controls of the window do to a job
\* that runs: ReplacedOnlyByTransferControls of Client), or deletes the engine: neither
\* a poll that comes between two states of the job nor the wait for a mutex loses it.
EveryResultSeen ==
  \A id \in Ids : id \in watched ~> view[id] # "none" \/ id \notin watched
=============================================================================
