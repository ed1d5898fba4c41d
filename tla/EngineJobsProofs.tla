--------------------------- MODULE EngineJobsProofs ---------------------------
(***************************************************************************)
(* Theorems of EngineJobs, for any operations and any number of jobs.      *)
(***************************************************************************)
EXTENDS EngineJobs, TLAPS

Holding == {"check", "download", "work", "finish"}
Over == {"return", "exited"}

\* Ids are handed out in order; the table and the client know only those.
IdsInv ==
  /\ Started = {id \in Ids : id < nextId}
  /\ table \cup early \subseteq Started /\ watched \subseteq table
  /\ client.call # "none" => client.id \in Started
  /\ \A id \in Ids \ Started : view[id] = "none"
  /\ engine = "open" => left = {}

\* A worker between its lock and its result holds the mutex of its operation.
MutexInv ==
  \A id \in Started : job[id].step \in Holding => holder[MutexOf(job[id].op)] = id

\* What a worker has done and reported at each of its steps.
ResultInv ==
  \A id \in Started :
    /\ Terminal(id) <=> job[id].step \in Over
    /\ job[id].worked => job[id].step \in Over \cup {"finish"}
    /\ job[id].step = "finish" => job[id].worked

\* A package job cancelled early is on its way out, or will be at its check.
CancelInv ==
  \A id \in early :
    /\ job[id].cancel
    /\ job[id].op \in PackageOperations =>
         job[id].step \in {"start", "check"} \cup Over /\ ~job[id].worked

IInv ==
  /\ TypeOK /\ IdsInv /\ MutexInv /\ ResultInv /\ CancelInv
  /\ ResultsTruthful /\ ReleaseNeverWaitsForWork /\ NoOrphanedWorker
-----------------------------------------------------------------------------
\* No job has been started in the initial state.
LEMMA InitInv == Init => IInv
<1> SUFFICES ASSUME Init PROVE IInv
  OBVIOUS
<1>1. Started = {} /\ nextId = 1
  BY DEF Init, Started
<1>2. TypeOK
  BY ConstantsAssumption DEF Init, TypeOK, Calls, Results
<1>3. IdsInv
  BY <1>1 DEF Init, IdsInv, Ids
<1> QED
  BY <1>1, <1>2, <1>3 DEF Init, IInv, MutexInv, ResultInv, CancelInv, ResultsTruthful,
       ReleaseNeverWaitsForWork, NoOrphanedWorker

\* The mutex of an operation is one of the three.
LEMMA MutexType == ASSUME NEW op PROVE MutexOf(op) \in Mutexes
BY DEF MutexOf, Mutexes

\* A step of a worker that changes nothing but its own record.
LEMMA WorkerKeeps ==
  ASSUME IInv, NEW id \in Started, NEW new \in Jobs, Worker(id, new),
         new.op = job[id].op, new.cancel = job[id].cancel
  PROVE  /\ Started' = Started /\ job' \in [Ids -> Jobs \cup {NoJob}]
         /\ job'[id] = new /\ \A k \in Ids \ {id} : job'[k] = job[k]
         /\ IdsInv'
<1>1. id \in Ids /\ job' = [job EXCEPT ![id] = new]
  BY DEF Started, Worker
<1>2. job \in [Ids -> Jobs \cup {NoJob}]
  BY DEF IInv, TypeOK
<1>3. job'[id] = new /\ \A k \in Ids \ {id} : job'[k] = job[k]
  BY <1>1, <1>2
<1>4. Started' = Started
  BY <1>1, <1>3, NoJobAssumption DEF Started
<1>5. IdsInv'
  BY <1>4 DEF IInv, IdsInv, Worker
<1> QED
  BY <1>1, <1>2, <1>3, <1>4, <1>5

\* A worker's step keeps the invariant if its new record agrees with the step it is
\* at, takes back no result, and leaves the mutexes as they should be.
LEMMA WorkerInv ==
  ASSUME IInv, NEW id \in Started, NEW new \in Jobs, Worker(id, new),
         new.op = job[id].op, new.cancel = job[id].cancel, job[id].step # "exited",
         new.result # "none" <=> new.step \in Over,
         new.worked => new.step \in Over \cup {"finish"},
         new.step = "finish" => new.worked,
         new.result = "ok" => new.worked,
         new.result = "cancelled" => ~new.worked,
         job[id].result # "none" => new.result = job[id].result,
         id \in early /\ new.op \in PackageOperations =>
           new.step \in {"start", "check"} \cup Over /\ ~new.worked,
         holder' \in [Mutexes -> Ids \cup {NoJob}], MutexInv'
  PROVE  IInv'
<1>1. /\ Started' = Started /\ job' \in [Ids -> Jobs \cup {NoJob}]
      /\ job'[id] = new /\ \A k \in Ids \ {id} : job'[k] = job[k]
      /\ IdsInv'
  BY WorkerKeeps
<1>2. /\ UNCHANGED <<table, watched, nextId, client, view, engine, early, left>>
      /\ id \in Ids /\ Started \subseteq Ids
  BY DEF Worker, Started
<1>3. TypeOK'
  BY <1>1, <1>2 DEF IInv, TypeOK
<1>4. ResultInv'
  BY <1>1, <1>2 DEF IInv, ResultInv, Terminal
<1>5. CancelInv'
  BY <1>1, <1>2 DEF IInv, CancelInv, IdsInv
<1>6. ResultsTruthful'
  BY <1>1, <1>2 DEF IInv, ResultsTruthful
<1>7. ReleaseNeverWaitsForWork'
  <2> SUFFICES ASSUME client.call = "release" PROVE job'[client.id].step \in Over
    BY <1>2 DEF ReleaseNeverWaitsForWork, Over
  <2>1. client.id \in Started /\ job[client.id].step \in Over
    BY DEF IInv, IdsInv, ReleaseNeverWaitsForWork, Over
  <2>2. job[client.id].result # "none"
    BY <2>1 DEF IInv, ResultInv, Terminal
  <2> QED
    BY <1>1, <1>2, <2>1, <2>2
<1>8. NoOrphanedWorker'
  <2>1. id \in table \cup left
    BY DEF IInv, NoOrphanedWorker
  <2> QED
    BY <1>1, <1>2, <2>1 DEF IInv, NoOrphanedWorker
<1> QED
  BY <1>1, <1>3, <1>4, <1>5, <1>6, <1>7, <1>8 DEF IInv

\* A step that moves no mutex: a worker may only leave the steps that need one.
LEMMA MutexKept ==
  ASSUME IInv, NEW id \in Started, NEW new \in Jobs, Worker(id, new), UNCHANGED holder,
         new.op = job[id].op, new.cancel = job[id].cancel,
         new.step \in Holding => job[id].step \in Holding
  PROVE  holder' \in [Mutexes -> Ids \cup {NoJob}] /\ MutexInv'
<1>1. /\ Started' = Started /\ job'[id] = new
      /\ \A k \in Ids \ {id} : job'[k] = job[k]
  BY WorkerKeeps
<1> QED
  BY <1>1 DEF IInv, TypeOK, MutexInv, Started

\* The record of a started job has its type.
LEMMA JobType ==
  ASSUME IInv, NEW id \in Ids, NEW step, Runs(id, step)
  PROVE  /\ id \in Started /\ job[id] \in Jobs /\ job[id].step = step
BY DEF IInv, TypeOK, Runs, Started

\* A step of a worker that goes on to another step and reports nothing.
LEMMA GotoInv ==
  ASSUME IInv, NEW id \in Ids, NEW from \in Holding, NEW to \in Holding \ {"finish"},
         Runs(id, from), ~job[id].worked, Goto(id, to),
         job[id].op \in PackageOperations /\ job[id].cancel => to = "check"
  PROVE  IInv'
<1> DEFINE new == [job[id] EXCEPT !.step = to]
<1>1. id \in Started /\ job[id] \in Jobs /\ job[id].step = from
  BY JobType
<1>2. /\ new \in Jobs /\ Worker(id, new) /\ UNCHANGED holder /\ new.step = to
      /\ new.op = job[id].op /\ new.cancel = job[id].cancel
      /\ new.result = job[id].result /\ new.worked = job[id].worked
  BY <1>1 DEF Goto, Jobs, Steps, Holding
<1>3. job[id].result = "none"
  BY <1>1 DEF IInv, ResultInv, Terminal, Holding, Over
<1>4. holder' \in [Mutexes -> Ids \cup {NoJob}] /\ MutexInv'
  BY <1>1, <1>2, MutexKept
<1>5. id \in early /\ new.op \in PackageOperations => new.step = "check"
  BY <1>2 DEF IInv, CancelInv
<1> QED
  BY <1>1, <1>2, <1>3, <1>4, <1>5, WorkerInv DEF Holding, Over

\* A step of a worker that reports its result.
LEMMA FinishInv ==
  ASSUME IInv, NEW id \in Ids, NEW from \in Steps \ Over, NEW value \in Results \ {"none"},
         Runs(id, from), Finish(id, value),
         value = "ok" => job[id].worked, value = "cancelled" => ~job[id].worked,
         id \in early /\ job[id].op \in PackageOperations => ~job[id].worked
  PROVE  IInv'
<1> DEFINE new == [job[id] EXCEPT !.result = value, !.step = "return"]
<1>1. id \in Started /\ job[id] \in Jobs /\ job[id].step = from
  BY JobType
<1>2. /\ new \in Jobs /\ Worker(id, new) /\ UNCHANGED holder /\ new.step = "return"
      /\ new.op = job[id].op /\ new.cancel = job[id].cancel
      /\ new.result = value /\ new.worked = job[id].worked
  BY <1>1 DEF Finish, Jobs, Steps
<1>3. job[id].result = "none"
  BY <1>1 DEF IInv, ResultInv, Terminal
<1>4. holder' \in [Mutexes -> Ids \cup {NoJob}] /\ MutexInv'
  BY <1>1, <1>2, MutexKept DEF Holding
<1> QED
  BY <1>1, <1>2, <1>3, <1>4, WorkerInv DEF Over

\* A job that has just got its mutex holds it alone.
LEMMA AcquireInv == ASSUME IInv, NEW id \in Ids, Acquire(id) PROVE IInv'
<1> DEFINE m == MutexOf(job[id].op)
<1>1. PICK step \in FirstSteps(job[id].op) : Worker(id, [job[id] EXCEPT !.step = step])
  BY DEF Acquire
<1> DEFINE new == [job[id] EXCEPT !.step = step]
<1>2. /\ id \in Started /\ job[id] \in Jobs /\ job[id].step = "start"
      /\ holder[m] = NoJob /\ holder' = [holder EXCEPT ![m] = id]
  BY JobType DEF Acquire
<1>3. /\ step \in {"check", "download", "work"}
      /\ job[id].op \in PackageOperations => step = "check"
  BY <1>1 DEF FirstSteps, PackageOperations
<1>4. /\ new \in Jobs /\ Worker(id, new) /\ new.step = step
      /\ new.op = job[id].op /\ new.cancel = job[id].cancel
      /\ new.result = job[id].result /\ new.worked = job[id].worked
  BY <1>1, <1>2, <1>3 DEF Jobs, Steps
<1>5. job[id].result = "none" /\ ~job[id].worked
  BY <1>2 DEF IInv, ResultInv, Terminal, Over
<1>6. m \in Mutexes
  BY MutexType
<1>7. holder \in [Mutexes -> Ids \cup {NoJob}] /\ holder' \in [Mutexes -> Ids \cup {NoJob}]
  BY <1>2, <1>6 DEF IInv, TypeOK
<1>8. MutexInv'
  <2>1. /\ Started' = Started /\ job'[id] = new
        /\ \A k \in Ids \ {id} : job'[k] = job[k]
    BY <1>2, <1>4, WorkerKeeps
  <2> SUFFICES ASSUME NEW k \in Started, job'[k].step \in Holding
               PROVE  holder'[MutexOf(job'[k].op)] = k
    BY <2>1 DEF MutexInv
  <2>2. CASE k = id
    BY <1>2, <1>4, <1>6, <1>7, <2>1, <2>2
  <2>3. CASE k # id
    <3>1. k \in Ids /\ job'[k] = job[k]
      BY <2>1, <2>3 DEF Started
    <3>2. holder[MutexOf(job[k].op)] = k
      BY <3>1 DEF IInv, MutexInv
    <3>3. MutexOf(job[k].op) # m
      BY <1>2, <3>1, <3>2, ConstantsAssumption DEF Ids
    <3> QED
      BY <1>2, <1>7, <3>1, <3>2, <3>3, MutexType
  <2> QED
    BY <2>2, <2>3
<1> QED
  BY <1>2, <1>3, <1>4, <1>5, <1>7, <1>8, WorkerInv DEF Over

\* The end of a worker gives its mutex, if it has one, to nobody.
LEMMA ReturnInv == ASSUME IInv, NEW id \in Ids, Return(id) PROVE IInv'
<1> DEFINE new == [job[id] EXCEPT !.step = "exited"]
<1>1. /\ id \in Started /\ job[id] \in Jobs /\ job[id].step = "return"
      /\ Worker(id, new)
      /\ holder' = [m \in Mutexes |-> IF holder[m] = id THEN NoJob ELSE holder[m]]
  BY JobType DEF Return
<1>2. /\ new \in Jobs /\ new.step = "exited"
      /\ new.op = job[id].op /\ new.cancel = job[id].cancel
      /\ new.result = job[id].result /\ new.worked = job[id].worked
  BY <1>1 DEF Jobs, Steps
<1>3. job[id].result # "none"
  BY <1>1 DEF IInv, ResultInv, Terminal, Over
<1>4. /\ job[id].result = "ok" => job[id].worked
      /\ job[id].result = "cancelled" => ~job[id].worked
      /\ id \in early /\ job[id].op \in PackageOperations => ~job[id].worked
  BY <1>1 DEF IInv, ResultsTruthful, CancelInv
<1>5. holder' \in [Mutexes -> Ids \cup {NoJob}]
  BY <1>1 DEF IInv, TypeOK
<1>6. MutexInv'
  <2>1. /\ Started' = Started /\ job'[id] = new
        /\ \A k \in Ids \ {id} : job'[k] = job[k]
    BY <1>1, <1>2, WorkerKeeps
  <2> SUFFICES ASSUME NEW k \in Started, job'[k].step \in Holding
               PROVE  holder'[MutexOf(job'[k].op)] = k
    BY <2>1 DEF MutexInv
  <2>2. k # id
    BY <1>2, <2>1 DEF Holding
  <2>3. k \in Ids /\ job'[k] = job[k]
    BY <2>1, <2>2 DEF Started
  <2>4. holder[MutexOf(job[k].op)] = k
    BY <2>3 DEF IInv, MutexInv
  <2> QED
    BY <1>1, <2>2, <2>3, <2>4, MutexType
<1> QED
  BY <1>1, <1>2, <1>3, <1>4, <1>5, <1>6, WorkerInv DEF Over

\* Every step of a worker keeps the invariant.
LEMMA WorkerStepInv == ASSUME IInv, NEW id \in Ids, WorkerStep(id) PROVE IInv'
<1>1. CASE Refuse(id)
  <2>1. Runs(id, "refuse") /\ ~job[id].worked
    BY <1>1, JobType DEF Refuse, IInv, ResultInv, Over
  <2> QED
    BY <1>1, <2>1, FinishInv DEF Refuse, Steps, Over, Results
<1>2. CASE Acquire(id)
  BY <1>2, AcquireInv
<1>3. CASE CheckCancel(id)
  <2>1. Runs(id, "check") /\ ~job[id].worked
    BY <1>3, JobType DEF CheckCancel, IInv, ResultInv, Over
  <2>2. CASE job[id].cancel
    BY <1>3, <2>1, <2>2, FinishInv DEF CheckCancel, Steps, Over, Results
  <2>3. CASE ~job[id].cancel
    BY <1>3, <2>1, <2>3, GotoInv DEF CheckCancel, Holding
  <2> QED
    BY <2>2, <2>3
<1>4. CASE Download(id)
  <2>1. Runs(id, "download") /\ ~job[id].worked
    BY <1>4, JobType DEF Download, IInv, ResultInv, Over
  <2>2. CASE ~job[id].cancel /\ Goto(id, "work")
    BY <2>1, <2>2, GotoInv DEF Holding
  <2>3. CASE Finish(id, IF job[id].cancel THEN "cancelled" ELSE "failed")
    BY <2>1, <2>3, FinishInv DEF Steps, Over, Results
  <2>4. CASE job[id].op # "fetchMedia" /\ Finish(id, "failed")
    BY <2>1, <2>4, FinishInv DEF Steps, Over, Results
  <2> QED
    BY <1>4, <2>2, <2>3, <2>4 DEF Download
<1>5. CASE Work(id)
  <2>1. Runs(id, "work") /\ ~job[id].worked
    BY <1>5, JobType DEF Work, IInv, ResultInv, Over
  <2>2. CASE Worker(id, [job[id] EXCEPT !.worked = TRUE, !.step = "finish"]) /\ UNCHANGED holder
    <3> DEFINE new == [job[id] EXCEPT !.worked = TRUE, !.step = "finish"]
    <3>1. id \in Started /\ job[id] \in Jobs /\ job[id].step = "work"
      BY <2>1, JobType
    <3>2. /\ new \in Jobs /\ Worker(id, new) /\ new.step = "finish" /\ new.worked
          /\ new.op = job[id].op /\ new.cancel = job[id].cancel
          /\ new.result = job[id].result
      BY <2>2, <3>1 DEF Jobs, Steps
    <3>3. job[id].result = "none"
      BY <3>1 DEF IInv, ResultInv, Terminal, Over
    <3>4. ~(id \in early /\ job[id].op \in PackageOperations)
      BY <3>1 DEF IInv, CancelInv, Over
    <3>5. holder' \in [Mutexes -> Ids \cup {NoJob}] /\ MutexInv'
      BY <2>2, <3>1, <3>2, MutexKept DEF Holding
    <3> QED
      BY <3>1, <3>2, <3>3, <3>4, <3>5, WorkerInv DEF Over
  <2>3. CASE Finish(id, "failed") \/ Finish(id, "cancelled")
    BY <2>1, <2>3, FinishInv DEF Steps, Over, Results
  <2> QED
    BY <1>5, <2>2, <2>3 DEF Work
<1>6. CASE Complete(id)
  <2>1. Runs(id, "finish") /\ Finish(id, "ok")
    BY <1>6 DEF Complete
  <2>2. job[id].worked /\ ~(id \in early /\ job[id].op \in PackageOperations)
    BY <2>1, JobType DEF IInv, ResultInv, CancelInv, Over
  <2> QED
    BY <2>1, <2>2, FinishInv DEF Steps, Over, Results
<1>7. CASE Return(id)
  BY <1>7, ReturnInv
<1> QED
  BY <1>1, <1>2, <1>3, <1>4, <1>5, <1>6, <1>7 DEF WorkerStep
-----------------------------------------------------------------------------
\* A new job has an id nobody has had.
LEMMA StartInv == ASSUME IInv, NEW op \in Operations, Start(op) PROVE IInv'
<1> DEFINE new(step) == [op |-> op, step |-> step, cancel |-> FALSE,
                         worked |-> FALSE, result |-> "none"]
<1>1. PICK step \in {"start", "refuse"} : job' = [job EXCEPT ![nextId] = new(step)]
  BY DEF Start
<1>2. /\ nextId \in Ids /\ nextId \notin Started /\ nextId' = nextId + 1
      /\ table' = table \cup {nextId} /\ watched' = watched \cup {nextId}
      /\ UNCHANGED <<holder, client, view, engine, early, left>>
  BY ConstantsAssumption DEF Start, IInv, IdsInv, TypeOK, Ids
<1>3. new(step) \in Jobs /\ new(step) # NoJob
  <2>1. new(step) \in Jobs
    BY DEF Jobs, Steps, Results
  <2> QED
    BY <2>1, NoJobAssumption
<1>4. /\ job' \in [Ids -> Jobs \cup {NoJob}] /\ job'[nextId] = new(step)
      /\ \A k \in Ids \ {nextId} : job'[k] = job[k]
  BY <1>1, <1>2, <1>3 DEF IInv, TypeOK
<1>5. Started' = Started \cup {nextId}
  BY <1>2, <1>3, <1>4 DEF Started
<1>6. \A k \in Started : k \in Ids \ {nextId} /\ job'[k] = job[k]
  BY <1>2, <1>4 DEF Started
<1>7. TypeOK'
  <2>1. nextId' \in 1..(MaxJob + 1)
    BY <1>2, ConstantsAssumption DEF Ids
  <2> QED
    BY <1>2, <1>4, <2>1 DEF IInv, TypeOK
<1>8. IdsInv'
  <2>1. Started' = {id \in Ids : id < nextId'}
    BY <1>2, <1>5, ConstantsAssumption DEF IInv, IdsInv, Ids
  <2> QED
    BY <1>2, <1>5, <2>1 DEF IInv, IdsInv
<1>9. MutexInv' /\ ResultInv'
  BY <1>2, <1>4, <1>5, <1>6 DEF IInv, MutexInv, ResultInv, Terminal, Holding, Over
<1>10. CancelInv'
  BY <1>2, <1>6 DEF IInv, IdsInv, CancelInv
<1>11. ResultsTruthful'
  BY <1>2, <1>4, <1>5, <1>6 DEF IInv, IdsInv, ResultsTruthful
<1>12. ReleaseNeverWaitsForWork'
  BY <1>2, <1>6 DEF IInv, IdsInv, ReleaseNeverWaitsForWork
<1>13. NoOrphanedWorker'
  BY <1>2, <1>5, <1>6 DEF IInv, NoOrphanedWorker
<1> QED
  BY <1>7, <1>8, <1>9, <1>10, <1>11, <1>12, <1>13 DEF IInv

\* A poll reads the result, or nothing of it.
LEMMA PollInv ==
  ASSUME IInv, PollRead \/ \E id \in Ids : PollSize(id)
  PROVE  IInv'
<1>1. UNCHANGED <<table, watched, nextId, job, holder, engine, early, left>>
  BY DEF PollRead, PollSize
<1>2. Started' = Started
  BY <1>1 DEF Started
<1>3. client' \in Calls /\ client'.call # "release"
      /\ (client'.call # "none" => client'.id \in table)
  <2>1. CASE PollRead
    BY <2>1 DEF PollRead, Calls
  <2>2. ASSUME NEW id \in Ids, PollSize(id)
        PROVE  client' \in Calls /\ client'.call = "poll" /\ client'.id \in table
    <3>1. id \in Started /\ id \in table /\ client' = [call |-> "poll", id |-> id, sized |-> job[id].result]
      BY <2>2 DEF PollSize, IInv, IdsInv
    <3>2. job[id].result \in Results
      BY <3>1 DEF IInv, TypeOK, Started, Jobs
    <3> QED
      BY <3>1, <3>2 DEF Calls
  <2> QED
    BY <2>1, <2>2
<1>4. /\ view' \in [Ids -> Results]
      /\ \A k \in Ids : view'[k] = view[k] \/ (k \in Started /\ view'[k] = job[k].result)
  <2>1. CASE UNCHANGED view
    BY <2>1 DEF IInv, TypeOK
  <2>2. CASE client.call # "none" /\ view' = [view EXCEPT ![client.id] = job[client.id].result]
    <3>1. client.id \in Started
      BY <2>2 DEF IInv, IdsInv
    <3>2. client.id \in Ids /\ job[client.id].result \in Results /\ view \in [Ids -> Results]
      BY <3>1 DEF IInv, TypeOK, Started, Jobs
    <3> QED
      BY <2>2, <3>1, <3>2
  <2> QED
    BY <2>1, <2>2 DEF PollRead, PollSize
<1>5. TypeOK' /\ IdsInv'
  BY <1>1, <1>2, <1>3, <1>4 DEF IInv, TypeOK, IdsInv
<1>6. MutexInv' /\ ResultInv' /\ CancelInv' /\ NoOrphanedWorker'
  BY <1>1, <1>2 DEF IInv, MutexInv, ResultInv, Terminal, CancelInv, NoOrphanedWorker
<1>7. ResultsTruthful'
  BY <1>1, <1>2, <1>4 DEF IInv, ResultsTruthful, Started
<1>8. ReleaseNeverWaitsForWork'
  BY <1>3 DEF ReleaseNeverWaitsForWork
<1> QED
  BY <1>5, <1>6, <1>7, <1>8 DEF IInv

\* A release begins when the worker is over, and takes the entry when it is gone.
LEMMA ReleaseInv ==
  ASSUME IInv, Erase \/ \E id \in Ids : Release(id)
  PROVE  IInv'
<1>1. UNCHANGED <<nextId, job, holder, view, engine, early, left>>
  BY DEF Erase, Release
<1>2. Started' = Started
  BY <1>1 DEF Started
<1>3. CASE Erase
  <2>1. /\ client' = [call |-> "none"] /\ table' = table \ {client.id}
        /\ watched' = watched \ {client.id}
        /\ job[client.id].step = "exited"
    BY <1>3 DEF Erase
  <2>2. TypeOK' /\ IdsInv' /\ ReleaseNeverWaitsForWork'
    BY <1>1, <1>2, <2>1 DEF IInv, TypeOK, IdsInv, ReleaseNeverWaitsForWork, Calls
  <2>3. NoOrphanedWorker'
    BY <1>1, <1>2, <2>1 DEF IInv, NoOrphanedWorker
  <2> QED
    BY <1>1, <1>2, <2>2, <2>3 DEF IInv, MutexInv, ResultInv, Terminal, CancelInv, ResultsTruthful
<1>4. ASSUME NEW id \in Ids, Release(id) PROVE IInv'
  <2>1. id \in Started /\ client' = [call |-> "release", id |-> id] /\ UNCHANGED <<table, watched>>
    BY <1>4 DEF Release, IInv, IdsInv
  <2>2. job[id].step \in {"return", "exited"}
    BY <1>4, <2>1 DEF Release, IInv, ResultInv, Over
  <2>3. TypeOK' /\ IdsInv' /\ ReleaseNeverWaitsForWork'
    BY <1>1, <1>2, <2>1, <2>2 DEF IInv, TypeOK, IdsInv, ReleaseNeverWaitsForWork, Calls
  <2> QED
    BY <1>1, <1>2, <2>1, <2>3 DEF IInv, MutexInv, ResultInv, Terminal, CancelInv,
         ResultsTruthful, NoOrphanedWorker
<1> QED
  BY <1>3, <1>4

\* Setting cancel changes nothing else of the jobs it is set for.
LEMMA CancelledJobs ==
  ASSUME IInv, NEW cancelled \in SUBSET Started,
         job' = [k \in Ids |-> IF k \in cancelled THEN [job[k] EXCEPT !.cancel = TRUE] ELSE job[k]],
         UNCHANGED <<nextId, holder, client, view>>
  PROVE  /\ Started' = Started /\ job' \in [Ids -> Jobs \cup {NoJob}]
         /\ \A k \in Started : /\ job'[k].op = job[k].op /\ job'[k].step = job[k].step
                                /\ job'[k].worked = job[k].worked /\ job'[k].result = job[k].result
                                /\ (job[k].cancel \/ k \in cancelled) = job'[k].cancel
         /\ MutexInv' /\ ResultInv' /\ ResultsTruthful' /\ ReleaseNeverWaitsForWork'
<1>1. \A k \in Started : k \in Ids /\ job[k] \in Jobs
  BY DEF IInv, TypeOK, Started
<1>2. \A k \in cancelled : /\ [job[k] EXCEPT !.cancel = TRUE] \in Jobs
                           /\ k \in Ids /\ k \in Started
  BY <1>1 DEF Jobs
<1>3. job' \in [Ids -> Jobs \cup {NoJob}]
  BY <1>2 DEF IInv, TypeOK
<1>4. Started' = Started
  BY <1>2, NoJobAssumption DEF Started
<1>5. \A k \in Started : /\ job'[k].op = job[k].op /\ job'[k].step = job[k].step
                         /\ job'[k].worked = job[k].worked /\ job'[k].result = job[k].result
                         /\ (job[k].cancel \/ k \in cancelled) = job'[k].cancel
  BY <1>1 DEF Jobs
<1>6. MutexInv'
  BY <1>4, <1>5 DEF IInv, MutexInv
<1>7. ResultInv'
  <2> SUFFICES ASSUME NEW k \in Started
               PROVE  /\ Terminal(k)' <=> job'[k].step \in Over
                      /\ job'[k].worked => job'[k].step \in Over \cup {"finish"}
                      /\ job'[k].step = "finish" => job'[k].worked
    BY <1>4 DEF ResultInv
  <2>1. /\ Terminal(k) <=> job[k].step \in Over
        /\ job[k].worked => job[k].step \in Over \cup {"finish"}
        /\ job[k].step = "finish" => job[k].worked
    BY DEF IInv, ResultInv
  <2> QED
    BY <1>5, <2>1 DEF Terminal
<1>8. ResultsTruthful'
  BY <1>4, <1>5 DEF IInv, IdsInv, ResultsTruthful
<1>9. ReleaseNeverWaitsForWork'
  BY <1>4, <1>5 DEF IInv, IdsInv, ReleaseNeverWaitsForWork
<1> QED
  BY <1>3, <1>4, <1>5, <1>6, <1>7, <1>8, <1>9

\* Cancelling one job, or all of them as the engine is deleted.
LEMMA CancelInvariance ==
  ASSUME IInv, Destroy \/ \E id \in Ids : Cancel(id)
  PROVE  IInv'
<1>1. ASSUME NEW id \in Ids, Cancel(id) PROVE IInv'
  <2>1. /\ id \in Started /\ UNCHANGED <<table, watched, nextId, holder, client, view, engine, left>>
        /\ job' = [job EXCEPT ![id].cancel = TRUE]
        /\ early' = (IF job[id].step = "start" THEN early \cup {id} ELSE early)
    BY <1>1 DEF Cancel, IInv, IdsInv
  <2>2. job' = [k \in Ids |-> IF k \in {id} THEN [job[k] EXCEPT !.cancel = TRUE] ELSE job[k]]
    BY <2>1 DEF IInv, TypeOK
  <2>3. /\ Started' = Started /\ job' \in [Ids -> Jobs \cup {NoJob}]
        /\ \A k \in Started : /\ job'[k].op = job[k].op /\ job'[k].step = job[k].step
                               /\ job'[k].worked = job[k].worked /\ job'[k].result = job[k].result
                               /\ (job[k].cancel \/ k \in {id}) = job'[k].cancel
        /\ MutexInv' /\ ResultInv' /\ ResultsTruthful' /\ ReleaseNeverWaitsForWork'
    BY <2>1, <2>2, CancelledJobs
  <2>4. TypeOK' /\ IdsInv'
    BY <2>1, <2>3 DEF IInv, TypeOK, IdsInv
  <2>5. CancelInv'
    <3>1. job[id].step = "start" => ~job[id].worked
      BY <2>1 DEF IInv, ResultInv, Over
    <3> QED
      BY <2>1, <2>3, <3>1 DEF IInv, IdsInv, CancelInv
  <2>6. NoOrphanedWorker'
    BY <2>1, <2>3 DEF IInv, NoOrphanedWorker
  <2> QED
    BY <2>3, <2>4, <2>5, <2>6 DEF IInv
<1>2. CASE Destroy
  <2>1. /\ engine = "open" /\ engine' = "deleted" /\ left' = table /\ table' = {} /\ watched' = {}
        /\ job' = [k \in Ids |-> IF k \in table THEN [job[k] EXCEPT !.cancel = TRUE] ELSE job[k]]
        /\ UNCHANGED <<nextId, holder, client, view, early>>
    BY <1>2 DEF Destroy, Free
  <2>2. table \in SUBSET Started /\ left = {}
    BY <2>1 DEF IInv, IdsInv
  <2>3. /\ Started' = Started /\ job' \in [Ids -> Jobs \cup {NoJob}]
        /\ \A k \in Started : /\ job'[k].op = job[k].op /\ job'[k].step = job[k].step
                               /\ job'[k].worked = job[k].worked /\ job'[k].result = job[k].result
                               /\ (job[k].cancel \/ k \in table) = job'[k].cancel
        /\ MutexInv' /\ ResultInv' /\ ResultsTruthful' /\ ReleaseNeverWaitsForWork'
    BY <2>1, <2>2, CancelledJobs
  <2>4. TypeOK' /\ IdsInv'
    BY <2>1, <2>3 DEF IInv, TypeOK, IdsInv
  <2>5. CancelInv'
    BY <2>1, <2>3 DEF IInv, IdsInv, CancelInv
  <2>6. NoOrphanedWorker'
    BY <2>1, <2>2, <2>3 DEF IInv, NoOrphanedWorker
  <2> QED
    BY <2>3, <2>4, <2>5, <2>6 DEF IInv
<1> QED
  BY <1>1, <1>2

\* A job the client lets go of is as it was.
LEMMA ForgetInv == ASSUME IInv, NEW id \in Ids, Forget(id) PROVE IInv'
<1>1. /\ UNCHANGED <<table, nextId, job, holder, client, view, engine, early, left>>
      /\ watched' = watched \ {id}
  BY DEF Forget
<1>2. Started' = Started
  BY <1>1 DEF Started
<1> QED
  BY <1>1, <1>2 DEF IInv, TypeOK, IdsInv, MutexInv, ResultInv, Terminal, CancelInv,
       ResultsTruthful, ReleaseNeverWaitsForWork, NoOrphanedWorker

\* A step that changes nothing keeps the invariant.
LEMMA StutterInv == ASSUME IInv, UNCHANGED vars PROVE IInv'
<1>1. Started' = Started
  BY DEF vars, Started
<1> QED
  BY <1>1 DEF vars, IInv, TypeOK, IdsInv, MutexInv, ResultInv, Terminal, CancelInv,
       ResultsTruthful, ReleaseNeverWaitsForWork, NoOrphanedWorker
-----------------------------------------------------------------------------
\* What the worker threads, the mutexes, the table and the client agree on,
\* whatever order the threads run in.
THEOREM Invariance == Spec => []IInv
<1>1. IInv /\ [Next]_vars => IInv'
  <2> SUFFICES ASSUME IInv, [Next]_vars PROVE IInv'
    OBVIOUS
  <2>1. CASE \E op \in Operations : Start(op)
    BY <2>1, StartInv
  <2>2. CASE PollRead \/ \E id \in Ids : PollSize(id)
    BY <2>2, PollInv
  <2>3. CASE Destroy \/ \E id \in Ids : Cancel(id)
    BY <2>3, CancelInvariance
  <2>4. CASE Erase \/ \E id \in Ids : Release(id)
    BY <2>4, ReleaseInv
  <2>5. CASE \E id \in Ids : WorkerStep(id)
    BY <2>5, WorkerStepInv
  <2>6. CASE UNCHANGED vars
    BY <2>6, StutterInv
  <2>7. CASE \E id \in Ids : Forget(id)
    BY <2>7, ForgetInv
  <2> QED
    BY <2>1, <2>2, <2>3, <2>4, <2>5, <2>6, <2>7 DEF Next, ClientStep
<1> QED
  BY <1>1, InitInv, PTL DEF Spec

\* Every variable keeps its type.
THEOREM TypeCorrect == Spec => []TypeOK
<1>1. IInv => TypeOK
  BY DEF IInv
<1> QED
  BY <1>1, Invariance, PTL

\* Jobs that share files are never on the disk together: each would hold the mutex
\* of the two operations, which is one and the same.
THEOREM DiskSerialized == Spec => []DiskAccessSerialized
<1>1. IInv => DiskAccessSerialized
  <2> SUFFICES ASSUME IInv, NEW i \in Ids, NEW j \in Ids, OnDisk(i), OnDisk(j),
                      SharesFiles(job[i].op, job[j].op)
               PROVE  i = j
    BY DEF DiskAccessSerialized
  <2>1. i \in Started /\ j \in Started
        /\ job[i].step \in Holding /\ job[j].step \in Holding
    BY DEF OnDisk, Started, Holding
  <2>2. MutexOf(job[i].op) = MutexOf(job[j].op)
    BY DEF SharesFiles, MutexOf, RepositoryOperations, MutationOperations, PackageOperations
  <2> QED
    BY <2>1, <2>2 DEF IInv, MutexInv
<1> QED
  BY <1>1, Invariance, PTL

\* A package job that is cancelled before its turn never touches the installation.
THEOREM CancelledEarlyDoesNothing == Spec => []EarlyCancelHonoured
<1>1. IInv => EarlyCancelHonoured
  BY DEF IInv, CancelInv, EarlyCancelHonoured, PackageOperations
<1> QED
  BY <1>1, Invariance, PTL

\* A result the client has read is final, and is true of what was done.
THEOREM ResultsAreTruthful == Spec => []ResultsTruthful
<1>1. IInv => ResultsTruthful
  BY DEF IInv
<1> QED
  BY <1>1, Invariance, PTL

\* The thread that draws the game waits for no work.
THEOREM ReleaseDoesNotWait == Spec => []ReleaseNeverWaitsForWork
<1>1. IInv => ReleaseNeverWaitsForWork
  BY DEF IInv
<1> QED
  BY <1>1, Invariance, PTL

\* A worker that runs is in the table, or was when the engine was deleted.
THEOREM WorkersAreKnown == Spec => []NoOrphanedWorker
<1>1. IInv => NoOrphanedWorker
  BY DEF IInv
<1> QED
  BY <1>1, Invariance, PTL
=============================================================================
