---------------------------- MODULE ClientProofs ----------------------------
(***************************************************************************)
(* Theorems of Client, for any add-ons in any order, whatever the session  *)
(* has, and any number of imports, controls used and commands typed.       *)
(***************************************************************************)
EXTENDS Client, WellFoundedInduction, TLAPS

Phases == {"none", "choose", "export", "inspecting", "review", "summary", "cleanup"} \cup Importing
Transfers ==
  [phase : Phases, todo : SUBSET DOMAIN Order, settings : SUBSET Addons, install : SUBSET Addons,
   queued : SUBSET Addons, skipped : SUBSET Addons, current : Addons \cup {None}, repositories : Nat]
Startups == [ready : BOOLEAN, started : BOOLEAN, completed : BOOLEAN, queue : SUBSET DOMAIN Order]

\* A job that installs names an add-on, whether or not it is forgotten.
InstallsNameAddons ==
  /\ op # None /\ op.kind = "install" => op.addon \in Addons
  /\ \A job \in forgotten : job.kind = "install" => job.addon \in Addons

\* The types that TypeOK leaves to the proofs.
TypeInv ==
  /\ InstallsNameAddons
  /\ transfer \in Transfers /\ startup \in Startups
  /\ commands \in Seq(Actions) /\ rested \subseteq Addons

\* The start-up before it is completed: no control has been used that starts a job
\* other than a refresh, or an import.
StartInv ==
  /\ startup.started => startup.ready
  /\ startup.completed => startup.started
  /\ startup.completed \/ ~startup.started => startup.queue = {}
  /\ ~startup.ready => op # None /\ op.kind = "cache"
  /\ pc = "window" /\ startup.ready => startup.started
  /\ ~startup.completed =>
       /\ transfer = Idle /\ forgotten = {}
       /\ op # None => op.kind \in {"cache", "refresh"}

\* The phase of the transfer that a job belongs to.
PhaseOfJob ==
  op # None =>
    /\ op.kind = "inspect" => transfer.phase = "inspecting"
    /\ op.kind = "export" => transfer.phase \in {"none", "export"}
    /\ op.kind = "cancel" => transfer.phase \in {"review", "repositories"}
    /\ op.kind = "settings" => transfer.phase = "restoring"
    /\ op.kind = "cleanup" => transfer.phase = "cleanup"

\* What the phase says of the queues of the transfer.
TransferInv ==
  /\ transfer.phase # "unloading" => transfer.current = None
  /\ transfer.phase = "unloading" =>
       transfer.todo \subseteq Positions(transfer.settings)
  /\ transfer.current # None => transfer.current \in transfer.settings
  /\ transfer.skipped \subseteq transfer.settings

\* What the records will be when the operation is completed.
Settled == IF op = None THEN installed ELSE Recorded(op)

RecordsInv ==
  forgotten = {} => Settled \subseteq disk /\ (catalog => Settled = disk)

\* Where an add-on of the unload queue is until its settings are restored.
UnloadInv ==
  /\ transfer.phase \in Importing => Addons \ loaded \subseteq rested
  /\ session.status =>
       /\ transfer.phase = "unloading" =>
            \A a \in transfer.queued :
              \/ a \in rested \cup transfer.skipped \/ a = transfer.current
              \/ \E i \in transfer.todo : Order[i] = a
       /\ transfer.phase = "restoring" => transfer.queued \subseteq rested \cup transfer.skipped
       /\ op # None /\ op.kind = "settings" => op.addon \notin transfer.skipped

\* The types, and how far the start-up and the transfer are.
IInv == TypeOK /\ TypeInv /\ StartInv /\ PhaseOfJob /\ TransferInv
-----------------------------------------------------------------------------
\* The add-ons are those that Order names.
LEMMA OrderFacts ==
  /\ DOMAIN Order \subseteq Nat
  /\ \A i \in DOMAIN Order : Order[i] \in Addons
  /\ \A a \in Addons : \E i \in DOMAIN Order : Order[i] = a
BY ConstantsAssumption DEF Addons, ToSet

\* The first position of a queue.
LEMMA MinOfQueue ==
  ASSUME NEW S \in SUBSET (DOMAIN Order), S # {}
  PROVE  Min(S) \in S /\ \A j \in S : Min(S) <= j
<1>1. S \subseteq Nat
  BY OrderFacts
<1>2. PICK x \in S : \A y \in S : <<y, x>> \notin OpToRel(<, Nat)
  BY <1>1, NatLessThanWellFounded, WFMin, Zenon
<1>3. \A y \in S : ~(y < x)
  BY <1>1, <1>2, Zenon DEF OpToRel
<1>4. x \in S /\ \A y \in S : x <= y
  BY <1>1, <1>3
<1> QED
  BY <1>4, Zenon DEF Min

LEMMA IdleFacts ==
  /\ Idle \in Transfers
  /\ Idle.phase = "none" /\ Idle.settings = {} /\ Idle.skipped = {} /\ Idle.queued = {}
  /\ Idle.todo = {} /\ Idle.current = None /\ Idle.install = {} /\ Idle.repositories = 0
BY DEF Idle, Transfers, Phases, Importing

LEMMA JobFacts ==
  ASSUME NEW kind \in Kinds, NEW a \in Addons \cup {None}
  PROVE  /\ Job(kind, a) \in Jobs /\ Job(kind, a) # None
         /\ Job(kind, a).kind = kind /\ Job(kind, a).addon = a /\ Job(kind, a).result = "running"
BY NoneAssumption DEF Job, Jobs

\* backend.start makes the job the operation, and forgets the one that was there.
LEMMA BeginFacts ==
  ASSUME TypeOK, TypeInv, NEW kind \in Kinds, NEW a \in Addons \cup {None},
         kind = "install" => a \in Addons, Begin(kind, a)
  PROVE  /\ op' \in Jobs /\ op' # None /\ op'.kind = kind /\ op'.addon = a /\ op'.result = "running"
         /\ forgotten' \subseteq Jobs /\ InstallsNameAddons'
         /\ op = None => forgotten' = forgotten
         /\ op # None => forgotten' # {}
<1>1. op' \in Jobs /\ op' # None /\ op'.kind = kind /\ op'.addon = a /\ op'.result = "running"
  BY JobFacts DEF Begin
<1>2. CASE op = None
  <2>1. forgotten' = forgotten
    BY <1>2 DEF Begin
  <2> QED
    BY <1>1, <1>2, <2>1 DEF TypeOK, TypeInv, InstallsNameAddons
<1>3. CASE op # None
  <2> DEFINE over == [op EXCEPT !.result = IF op.result = "running" THEN "running" ELSE "over"]
  <2>1. over \in Jobs /\ over.kind = op.kind /\ over.addon = op.addon
    BY <1>3 DEF TypeOK, Jobs
  <2>2. forgotten' = forgotten \cup {over}
    BY <1>3 DEF Begin
  <2> HIDE DEF over
  <2> QED
    BY <1>1, <1>3, <2>1, <2>2 DEF TypeOK, TypeInv, InstallsNameAddons
<1> QED
  BY <1>2, <1>3

\* A command is queued only by what may queue one.
LEMMA CommandFacts ==
  ASSUME TypeOK, TypeInv, NEW a \in Addons, NEW enabled \in BOOLEAN, SetAddonLoaded(a, enabled)
  PROVE  /\ action' \in Actions /\ commands' \in Seq(Actions)
         /\ loaded' = loaded /\ rested' = rested
BY DEF TypeInv, SetAddonLoaded, Actions
LEMMA InPhaseFacts ==
  ASSUME NEW t \in Transfers, NEW name \in Phases, NEW todo \in SUBSET DOMAIN Order
  PROVE  LET u == InPhase(t, name, todo) IN
         /\ u \in Transfers /\ u.phase = name /\ u.todo = todo /\ u.current = None
         /\ u.settings = t.settings /\ u.skipped = t.skipped /\ u.queued = t.queued
BY DEF InPhase, Transfers

\* Skipping keeps all of the transfer but what is skipped.
LEMMA SkippedFacts ==
  ASSUME NEW t \in Transfers
  PROVE  /\ Skipped(t) \in Transfers
         /\ Skipped(t).skipped = t.skipped \cup {a \in {t.current} \ {None} : SeenLoaded(a)}
         /\ Skipped(t).settings = t.settings /\ Skipped(t).queued = t.queued
         /\ Skipped(t).phase = t.phase /\ Skipped(t).current = t.current
<1>1. t.skipped \cup {a \in {t.current} \ {None} : SeenLoaded(a)} \in SUBSET Addons
  BY DEF Transfers
<1> QED
  BY <1>1 DEF Skipped, Transfers
-----------------------------------------------------------------------------
(* A step of the transfer that waits for nothing.                           *)

\* What such a step does, whatever it does: it starts at most one job, if there was
\* none, or queues a command.
Advances ==
  /\ transfer' \in Transfers /\ TransferInv' /\ PhaseOfJob'
  /\ op' \in Jobs \cup {None} /\ (op' # None => op'.result = "running")
  /\ forgotten' = forgotten /\ InstallsNameAddons'
  /\ action' \in Actions \cup {None} /\ commands' \in Seq(Actions)
  /\ loaded' = loaded /\ rested' = rested

\* The phase "restoring" starts a job for an add-on that is not skipped, or ends.
LEMMA RestoreFacts ==
  ASSUME TypeOK, TypeInv, op = None,
         NEW t \in Transfers, t.skipped \subseteq t.settings,
         NEW rest \in SUBSET DOMAIN Order, RestorePhase(t, rest)
  PROVE  /\ Advances /\ op' # None
         /\ op'.kind = "settings" =>
              /\ transfer'.phase = "restoring" /\ op'.addon \notin transfer'.skipped
              /\ transfer'.skipped = t.skipped /\ transfer'.queued = t.queued
         /\ op'.kind # "settings" => transfer'.phase = "cleanup"
<1> DEFINE wanted == {i \in rest : Order[i] \in (t.settings \cap installed) \ t.skipped}
           next == Min(wanted)
<1>0. /\ action' = action /\ commands' = commands /\ loaded' = loaded /\ rested' = rested
      /\ action \in Actions \cup {None} /\ commands \in Seq(Actions)
  BY DEF RestorePhase, game, TypeOK, TypeInv
<1>1. CASE wanted = {}
  <2>1. Begin("cleanup", None) /\ transfer' = [Idle EXCEPT !.phase = "cleanup"]
    BY <1>1, Zenon DEF RestorePhase
  <2>2. /\ transfer' \in Transfers /\ transfer'.phase = "cleanup" /\ transfer'.current = None
        /\ transfer'.skipped = {} /\ transfer'.settings = {}
    BY <2>1, IdleFacts DEF Transfers, Phases
  <2>3. /\ op' \in Jobs /\ op' # None /\ op'.kind = "cleanup" /\ op'.result = "running"
        /\ forgotten' = forgotten /\ InstallsNameAddons'
    BY <2>1, BeginFacts DEF Kinds
  <2>4. TransferInv' /\ PhaseOfJob'
    BY <2>2, <2>3 DEF TransferInv, PhaseOfJob
  <2> QED
    BY <1>0, <2>2, <2>3, <2>4 DEF Advances
<1>2. CASE wanted # {}
  <2>1. /\ Begin("settings", Order[next])
        /\ transfer' = InPhase(t, "restoring", After(rest, next))
    BY <1>2, Zenon DEF RestorePhase
  <2>2. next \in wanted
    <3> HIDE DEF wanted
    <3>1. wanted \in SUBSET DOMAIN Order
      BY DEF wanted
    <3> QED
      BY <1>2, <3>1, MinOfQueue
  <2>3. Order[next] \in Addons /\ Order[next] \notin t.skipped
    <3> HIDE DEF next
    <3> QED
      BY <2>2, OrderFacts
  <2>4. /\ transfer' \in Transfers /\ transfer'.phase = "restoring" /\ transfer'.current = None
        /\ transfer'.skipped = t.skipped /\ transfer'.settings = t.settings
        /\ transfer'.queued = t.queued
    <3> HIDE DEF next
    <3>1. After(rest, next) \in SUBSET DOMAIN Order
      BY DEF After
    <3>2. "restoring" \in Phases
      BY DEF Phases, Importing
    <3> QED
      BY <2>1, <3>1, <3>2, InPhaseFacts
  <2>5. /\ op' \in Jobs /\ op' # None /\ op'.kind = "settings" /\ op'.addon = Order[next]
        /\ op'.result = "running" /\ forgotten' = forgotten /\ InstallsNameAddons'
    BY <2>1, <2>3, BeginFacts DEF Kinds
  <2>6. TransferInv' /\ PhaseOfJob'
    BY <2>4, <2>5 DEF TransferInv, PhaseOfJob
  <2> QED
    BY <1>0, <2>3, <2>4, <2>5, <2>6 DEF Advances
<1> QED
  BY <1>1, <1>2

\* The phase "unloading" unloads the first of its queue that runs, or is over.
LEMMA UnloadFacts ==
  ASSUME TypeOK, TypeInv, op = None,
         NEW t \in Transfers, t.skipped \subseteq t.settings,
         t.current \in t.settings \cup {None},
         NEW rest \in SUBSET Positions(t.settings), UnloadPhase(t, rest)
  PROVE  /\ Advances
         /\ \/ /\ \A i \in rest : ~SeenLoaded(Order[i])
               /\ RestorePhase(Skipped(t), DOMAIN Order)
            \/ /\ transfer'.phase = "unloading" /\ op' = None
               /\ transfer'.skipped = Skipped(t).skipped /\ transfer'.queued = t.queued
               /\ \A i \in rest : \/ ~SeenLoaded(Order[i])
                                  \/ Order[i] = transfer'.current
                                  \/ i \in transfer'.todo
<1> DEFINE running == {i \in rest : SeenLoaded(Order[i])}
           next == Min(running)
<1>0. rest \in SUBSET DOMAIN Order /\ \A i \in rest : Order[i] \in t.settings
  BY DEF Positions
<1>1. Skipped(t) \in Transfers /\ Skipped(t).skipped \subseteq Skipped(t).settings
  BY SkippedFacts
<1>2. CASE running = {}
  <2>1. RestorePhase(Skipped(t), DOMAIN Order)
    BY <1>2, Zenon DEF UnloadPhase
  <2>2. Advances
    <3>1. DOMAIN Order \in SUBSET DOMAIN Order
      OBVIOUS
    <3> QED
      BY <1>1, <2>1, <3>1, RestoreFacts
  <2> QED
    BY <1>2, <2>1, <2>2
<1>3. CASE running # {}
  <2> DEFINE u == InPhase(Skipped(t), "unloading", After(rest, next))
  <2>1. /\ SetAddonLoaded(Order[next], FALSE)
        /\ transfer' = [u EXCEPT !.current = Order[next]]
        /\ UNCHANGED engine
    BY <1>3, Zenon DEF UnloadPhase
  <2>2. next \in running /\ \A j \in running : next <= j
    <3> HIDE DEF running
    <3>1. running \in SUBSET DOMAIN Order
      BY <1>0 DEF running
    <3> QED
      BY <1>3, <3>1, MinOfQueue
  <2> HIDE DEF next
  <2>3. Order[next] \in Addons /\ Order[next] \in t.settings /\ next \in DOMAIN Order
    BY <1>0, <2>2, OrderFacts
  <2>4. /\ u \in Transfers /\ u.phase = "unloading" /\ u.todo = After(rest, next)
        /\ u.settings = t.settings /\ u.skipped = Skipped(t).skipped /\ u.queued = t.queued
    <3>1. After(rest, next) \in SUBSET DOMAIN Order
      BY <1>0 DEF After
    <3>2. "unloading" \in Phases
      BY DEF Phases, Importing
    <3> QED
      BY <1>1, <3>1, <3>2, InPhaseFacts, SkippedFacts
  <2>5. /\ transfer' \in Transfers /\ transfer'.phase = "unloading"
        /\ transfer'.todo = After(rest, next) /\ transfer'.current = Order[next]
        /\ transfer'.settings = t.settings /\ transfer'.skipped = Skipped(t).skipped
        /\ transfer'.queued = t.queued
    <3> HIDE DEF u
    <3> QED
      BY <2>1, <2>3, <2>4 DEF Transfers
  <2>6. transfer'.todo \subseteq Positions(transfer'.settings)
    BY <1>0, <2>5 DEF After, Positions
  <2>7. op' = None /\ forgotten' = forgotten /\ InstallsNameAddons'
    BY <2>1 DEF engine, TypeInv, InstallsNameAddons
  <2>8. /\ action' \in Actions /\ commands' \in Seq(Actions)
        /\ loaded' = loaded /\ rested' = rested
    BY <2>1, <2>3, CommandFacts
  <2>9. TransferInv' /\ PhaseOfJob'
    BY <1>1, <2>3, <2>5, <2>6, <2>7, SkippedFacts DEF TransferInv, PhaseOfJob
  <2>10. \A i \in rest : \/ ~SeenLoaded(Order[i]) \/ Order[i] = transfer'.current
                         \/ i \in transfer'.todo
    <3>1. SUFFICES ASSUME NEW i \in rest, SeenLoaded(Order[i]), i # next
                   PROVE  i > next
      BY <2>5 DEF After
    <3>2. next <= i /\ i \in Nat /\ next \in Nat
      BY <1>0, <2>2, <2>3, <3>1, OrderFacts
    <3> QED
      BY <3>1, <3>2
  <2> QED
    BY <2>5, <2>7, <2>8, <2>9, <2>10 DEF Advances
<1> QED
  BY <1>2, <1>3
\* The phase "installing" starts the next installation, or makes the unload queue.
LEMMA InstallFacts ==
  ASSUME TypeOK, TypeInv, TransferInv, op = None, transfer.phase \in {"repositories", "installing"},
         NEW rest \in SUBSET DOMAIN Order, InstallPhase(rest)
  PROVE  LET affected == transfer.settings \cap installed
             t == [transfer EXCEPT !.queued = affected]
         IN /\ Advances
            /\ \/ transfer'.phase = "installing" /\ op' # None /\ op'.kind = "install"
               \/ /\ UnloadPhase(t, Positions(affected))
                  /\ t \in Transfers /\ t.queued = affected
                  /\ t.skipped = transfer.skipped /\ t.settings = transfer.settings
                  /\ t.current = None /\ affected \subseteq Addons
<1> DEFINE wanted == {i \in rest : catalog /\ Order[i] \in transfer.install \ installed}
           next == Min(wanted)
           affected == transfer.settings \cap installed
           t == [transfer EXCEPT !.queued = affected]
<1>0. transfer.current = None /\ transfer.skipped \subseteq transfer.settings
  BY DEF TransferInv
<1>1. CASE wanted = {}
  <2>1. UnloadPhase(t, Positions(affected))
    BY <1>1, Zenon DEF InstallPhase
  <2>2. /\ t \in Transfers /\ t.queued = affected /\ t.skipped = transfer.skipped
        /\ t.settings = transfer.settings /\ t.current = None /\ affected \subseteq Addons
    BY <1>0 DEF TypeOK, TypeInv, Transfers
  <2>3. Positions(affected) \in SUBSET Positions(t.settings)
    BY <2>2 DEF Positions
  <2>4. Advances
    <3> HIDE DEF t, affected
    <3> QED
      BY <1>0, <2>1, <2>2, <2>3, UnloadFacts
  <2> QED
    BY <2>1, <2>2, <2>4
<1>2. CASE wanted # {}
  <2>1. /\ Begin("install", Order[next])
        /\ transfer' = InPhase(transfer, "installing", After(rest, next))
        /\ UNCHANGED <<action, game>>
    BY <1>2, Zenon DEF InstallPhase
  <2>2. next \in wanted
    <3> HIDE DEF wanted
    <3>1. wanted \in SUBSET DOMAIN Order
      BY DEF wanted
    <3> QED
      BY <1>2, <3>1, MinOfQueue
  <2> HIDE DEF next
  <2>3. Order[next] \in Addons
    BY <2>2, OrderFacts
  <2>4. /\ op' \in Jobs /\ op' # None /\ op'.kind = "install" /\ op'.result = "running"
        /\ forgotten' = forgotten /\ InstallsNameAddons'
    BY <2>1, <2>3, BeginFacts DEF Kinds
  <2>5. /\ transfer' \in Transfers /\ transfer'.phase = "installing" /\ transfer'.current = None
        /\ transfer'.skipped = transfer.skipped /\ transfer'.settings = transfer.settings
    <3>1. After(rest, next) \in SUBSET DOMAIN Order
      BY DEF After
    <3>2. "installing" \in Phases /\ transfer \in Transfers
      BY DEF Phases, Importing, TypeInv
    <3> QED
      BY <2>1, <3>1, <3>2, InPhaseFacts
  <2>6. TransferInv' /\ PhaseOfJob'
    BY <1>0, <2>4, <2>5 DEF TransferInv, PhaseOfJob
  <2>7. /\ action' \in Actions \cup {None} /\ commands' \in Seq(Actions)
        /\ loaded' = loaded /\ rested' = rested
    BY <2>1 DEF game, TypeOK, TypeInv
  <2> QED
    BY <2>4, <2>5, <2>6, <2>7 DEF Advances
<1> QED
  BY <1>1, <1>2

\* Another repository of the import is refreshed.
LEMMA RefreshFacts ==
  ASSUME TypeOK, TypeInv, TransferInv, op = None, transfer.phase = "repositories",
         transfer.repositories > 0, RefreshImported
  PROVE  /\ Advances /\ op' # None /\ op'.kind = "refresh"
         /\ transfer'.phase = "repositories"
<1>1. /\ op' \in Jobs /\ op' # None /\ op'.kind = "refresh" /\ op'.result = "running"
      /\ forgotten' = forgotten /\ InstallsNameAddons'
  BY BeginFacts DEF RefreshImported, Kinds
<1>2. transfer.repositories - 1 \in Nat
  BY DEF TypeInv, Transfers
<1>3. /\ transfer' \in Transfers /\ transfer'.phase = "repositories"
      /\ transfer'.current = transfer.current /\ transfer'.skipped = transfer.skipped
      /\ transfer'.settings = transfer.settings
  BY <1>2 DEF RefreshImported, TypeInv, Transfers
<1>4. TransferInv' /\ PhaseOfJob'
  BY <1>1, <1>3 DEF TransferInv, PhaseOfJob
<1>5. /\ action' \in Actions \cup {None} /\ commands' \in Seq(Actions)
      /\ loaded' = loaded /\ rested' = rested
  BY DEF RefreshImported, game, TypeOK, TypeInv
<1> QED
  BY <1>1, <1>3, <1>4, <1>5 DEF Advances

\* What a step of the transfer that waits for nothing does, in each phase.
LEMMA TransferCases ==
  ASSUME Transfer, ~Waiting
  PROVE  /\ op = None /\ action = None /\ transfer.phase \in Importing
         /\ \/ transfer.phase = "repositories" /\ transfer.repositories > 0 /\ RefreshImported
            \/ transfer.phase = "repositories" /\ InstallPhase(DOMAIN Order)
            \/ transfer.phase = "installing" /\ InstallPhase(transfer.todo)
            \/ transfer.phase = "unloading" /\ UnloadPhase(transfer, transfer.todo)
            \/ transfer.phase = "restoring" /\ RestorePhase(transfer, transfer.todo)
<1>1. op = None /\ action = None /\ transfer.phase \in Importing
  BY DEF Waiting
<1>2. CASE transfer.phase = "repositories"
  BY <1>1, <1>2, Zenon DEF Transfer
<1>3. CASE transfer.phase = "installing"
  BY <1>1, <1>3 DEF Transfer
<1>4. CASE transfer.phase = "unloading"
  BY <1>1, <1>4 DEF Transfer
<1>5. CASE transfer.phase = "restoring"
  BY <1>1, <1>5 DEF Transfer
<1> QED
  BY <1>1, <1>2, <1>3, <1>4, <1>5 DEF Importing

LEMMA TransferAdvances ==
  ASSUME IInv, Transfer, ~Waiting
  PROVE  Advances
<1>1. /\ TypeOK /\ TypeInv /\ TransferInv /\ op = None
      /\ transfer \in Transfers /\ transfer.todo \in SUBSET DOMAIN Order
      /\ DOMAIN Order \in SUBSET DOMAIN Order
      /\ transfer.skipped \subseteq transfer.settings
      /\ transfer.current \in transfer.settings \cup {None}
  BY TransferCases DEF IInv, TypeInv, Transfers, TransferInv
<1>2. CASE transfer.phase = "repositories" /\ transfer.repositories > 0 /\ RefreshImported
  BY <1>1, <1>2, RefreshFacts
<1>3. CASE transfer.phase = "repositories" /\ InstallPhase(DOMAIN Order)
  BY <1>1, <1>3, InstallFacts
<1>4. CASE transfer.phase = "installing" /\ InstallPhase(transfer.todo)
  BY <1>1, <1>4, InstallFacts
<1>5. CASE transfer.phase = "unloading" /\ UnloadPhase(transfer, transfer.todo)
  <2>1. transfer.todo \in SUBSET Positions(transfer.settings)
    BY <1>1, <1>5 DEF TransferInv
  <2> QED
    BY <1>1, <1>5, <2>1, UnloadFacts
<1>6. CASE transfer.phase = "restoring" /\ RestorePhase(transfer, transfer.todo)
  BY <1>1, <1>6, RestoreFacts
<1> QED
  BY <1>2, <1>3, <1>4, <1>5, <1>6, TransferCases
-----------------------------------------------------------------------------
(* Init and each of the actions keep IInv.                                  *)

LEMMA InitInv == Init => IInv
<1> SUFFICES ASSUME Init PROVE IInv
  OBVIOUS
<1>1. /\ op \in Jobs \cup {None} /\ (op # None => op.kind = "cache")
      /\ (op = None <=> ~session.engine)
  BY JobFacts DEF Init, Kinds
<1>2. TypeOK
  BY <1>1, IdleFacts DEF Init, TypeOK, Positions
<1>3. TypeInv
  BY <1>1, IdleFacts, ConstantsAssumption DEF Init, TypeInv, InstallsNameAddons, Startups
<1>4. StartInv
  BY <1>1, ConstantsAssumption DEF Init, StartInv
<1>5. PhaseOfJob /\ TransferInv
  BY <1>1, IdleFacts DEF Init, PhaseOfJob, TransferInv
<1> QED
  BY <1>2, <1>3, <1>4, <1>5 DEF IInv

\* What a job does to the disk keeps the types, and the queue of the start-up.
LEMMA EffectFacts ==
  ASSUME TypeOK, NEW job, job.kind = "install" => job.addon \in Addons,
         Effect(job) \/ UNCHANGED disk,
         job.kind = "uninstall" => startup.queue = {},
         UNCHANGED <<startup, installed>>
  PROVE  disk' \subseteq Addons /\ startup'.queue \subseteq Positions(installed' \cup disk')
<1>1. CASE job.kind = "uninstall"
  BY <1>1 DEF Effect, TypeOK
<1>2. CASE job.kind # "uninstall"
  <2>1. disk \subseteq disk' /\ disk' \subseteq Addons
    BY <1>2 DEF Effect, TypeOK
  <2> QED
    BY <2>1 DEF TypeOK, Positions
<1> QED
  BY <1>1, <1>2

LEMMA JobEndsInv == IInv /\ JobEnds => IInv'
<1> SUFFICES ASSUME IInv, JobEnds PROVE IInv'
  OBVIOUS
<1>1. /\ op \in Jobs /\ op # None
      /\ UNCHANGED <<session, pc, forgotten, startup, action, transfer, installed, catalog, game>>
      /\ Effect(op) \/ UNCHANGED disk
  BY DEF JobEnds, IInv, TypeOK
<1>2. op' \in Jobs /\ op'.kind = op.kind /\ op'.addon = op.addon
  BY <1>1 DEF JobEnds, Jobs
<1>3. op.kind = "uninstall" => startup.queue = {}
  BY <1>1 DEF IInv, StartInv
<1>4. disk' \subseteq Addons /\ startup'.queue \subseteq Positions(installed' \cup disk')
  BY <1>1, <1>3, EffectFacts DEF IInv, TypeInv, InstallsNameAddons
<1>5. TypeOK'
  BY <1>1, <1>2, <1>4 DEF IInv, TypeOK, game
<1>6. TypeInv'
  BY <1>1, <1>2 DEF IInv, TypeInv, InstallsNameAddons, game
<1>7. op' # None
  BY <1>2, NoneAssumption
<1>8. StartInv' /\ PhaseOfJob' /\ TransferInv'
  BY <1>1, <1>2, <1>7 DEF IInv, StartInv, PhaseOfJob, TransferInv
<1> QED
  BY <1>5, <1>6, <1>8 DEF IInv

LEMMA ForgottenJobEndsInv == IInv /\ ForgottenJobEnds => IInv'
<1> SUFFICES ASSUME IInv, ForgottenJobEnds PROVE IInv'
  OBVIOUS
<1>1. PICK job \in forgotten :
        /\ forgotten' = (forgotten \ {job}) \cup {[job EXCEPT !.result = "over"]}
        /\ Effect(job) \/ UNCHANGED disk
  BY DEF ForgottenJobEnds
<1>2. UNCHANGED <<session, pc, op, startup, action, transfer, installed, catalog, game>>
  BY DEF ForgottenJobEnds
<1> DEFINE over == [job EXCEPT !.result = "over"]
<1>3. job \in Jobs /\ over \in Jobs /\ over.kind = job.kind /\ over.addon = job.addon
  BY DEF IInv, TypeOK, Jobs
<1> HIDE DEF over
<1>4. startup.completed /\ startup.queue = {}
  BY DEF IInv, StartInv
<1>5. forgotten' \subseteq Jobs /\ InstallsNameAddons'
  BY <1>1, <1>2, <1>3 DEF over, IInv, TypeOK, TypeInv, InstallsNameAddons
<1>6. disk' \subseteq Addons /\ startup'.queue \subseteq Positions(installed' \cup disk')
  BY <1>1, <1>2, <1>4, EffectFacts DEF IInv, TypeInv, InstallsNameAddons
<1>7. TypeOK'
  BY <1>2, <1>5, <1>6 DEF IInv, TypeOK, game
<1>8. TypeInv'
  BY <1>2, <1>5 DEF IInv, TypeInv, game
<1>9. StartInv' /\ PhaseOfJob' /\ TransferInv'
  BY <1>2, <1>4 DEF IInv, StartInv, PhaseOfJob, TransferInv
<1> QED
  BY <1>7, <1>8, <1>9 DEF IInv

\* A command of the client or of the user changes what is loaded, and no more.
LEMMA CommandInv ==
  ASSUME IInv, NEW a \in Addons, NEW enabled \in BOOLEAN, Execute(a, enabled),
         commands' \in Seq(Actions),
         UNCHANGED <<session, pc, engine, startup, action, transfer, installed, catalog, disk>>
  PROVE  IInv'
<1>1. loaded' \subseteq Addons /\ rested' \subseteq Addons
  BY DEF IInv, TypeOK, TypeInv, Execute
<1>2. TypeOK'
  BY <1>1 DEF IInv, TypeOK, engine
<1>3. TypeInv'
  BY <1>1 DEF IInv, TypeInv, InstallsNameAddons, engine
<1>4. StartInv' /\ PhaseOfJob' /\ TransferInv'
  BY DEF IInv, StartInv, PhaseOfJob, TransferInv, engine
<1> QED
  BY <1>2, <1>3, <1>4 DEF IInv

LEMMA GameExecutesInv == IInv /\ GameExecutes => IInv'
<1> SUFFICES ASSUME IInv, GameExecutes PROVE IInv'
  OBVIOUS
<1>1. /\ Head(commands) \in Actions /\ Tail(commands) \in Seq(Actions)
  BY DEF IInv, TypeInv, GameExecutes
<1>2. Head(commands).addon \in Addons /\ Head(commands).enabled \in BOOLEAN
  BY <1>1 DEF Actions
<1> QED
  BY <1>1, <1>2, CommandInv DEF GameExecutes

LEMMA ChatInv == IInv /\ Chat => IInv'
<1> SUFFICES ASSUME IInv, Chat PROVE IInv'
  OBVIOUS
<1>1. PICK a \in Addons, enabled \in BOOLEAN : Execute(a, enabled)
  BY DEF Chat
<1>2. commands' \in Seq(Actions)
  BY DEF Chat, IInv, TypeInv
<1> QED
  BY <1>1, <1>2, CommandInv DEF Chat
-----------------------------------------------------------------------------
\* What the end of a job can make of the transfer.
LEMMA AdvancedFacts ==
  ASSUME IInv, op # None, transfer' \in Advanced(op)
  PROVE  /\ transfer' \in Transfers /\ TransferInv'
         /\ op.kind \in {"cache", "refresh"} => transfer' = transfer
         /\ transfer'.phase \notin Importing \/ transfer' = transfer
<1>1. /\ op \in Jobs /\ transfer \in Transfers /\ TransferInv
      /\ op.kind = "inspect" => transfer.phase = "inspecting"
      /\ op.kind = "cleanup" => transfer.phase = "cleanup"
  BY DEF IInv, TypeOK, TypeInv, PhaseOfJob
<1> DEFINE to(phase) == [transfer EXCEPT !.phase = phase]
<1>2. \A phase \in Phases :
        /\ to(phase) \in Transfers /\ to(phase).phase = phase
        /\ to(phase).current = transfer.current /\ to(phase).settings = transfer.settings
        /\ to(phase).skipped = transfer.skipped
  BY <1>1 DEF Transfers
<1>3. CASE transfer' \in {Idle, transfer} /\ (op.kind \in {"cache", "refresh"} => transfer' = transfer)
  BY <1>1, <1>3, IdleFacts DEF TransferInv, Importing
<1>4. CASE op.kind = "inspect" /\ transfer' = to("review")
  BY <1>1, <1>2, <1>4 DEF TransferInv, Phases, Importing
<1>5. CASE op.kind = "cleanup" /\ transfer' = to("summary")
  BY <1>1, <1>2, <1>5 DEF TransferInv, Phases, Importing
<1> QED
  BY <1>3, <1>4, <1>5 DEF Advanced

LEMMA OperationInv == IInv /\ Operation => IInv'
<1> SUFFICES ASSUME IInv, Operation PROVE IInv'
  OBVIOUS
<1>0. UNCHANGED <<session, forgotten, action, disk, game>> /\ pc' = "action"
  BY DEF Operation
<1>1. CASE op = None \/ op.result = "running"
  <2>1. UNCHANGED <<op, startup, transfer, installed, catalog>>
    BY <1>1 DEF Operation
  <2>2. TypeOK'
    BY <1>0, <2>1 DEF IInv, TypeOK, game
  <2>3. TypeInv'
    BY <1>0, <2>1 DEF IInv, TypeInv, InstallsNameAddons, game
  <2>4. StartInv' /\ PhaseOfJob' /\ TransferInv'
    BY <1>0, <2>1 DEF IInv, StartInv, PhaseOfJob, TransferInv
  <2> QED
    BY <2>2, <2>3, <2>4 DEF IInv
<1>2. CASE op # None /\ op.result # "running"
  <2>1. /\ op' = (IF op.kind = "cache" THEN Job("refresh", None) ELSE None)
        /\ startup' = CompletedCheck(op) /\ transfer' \in Advanced(op)
        /\ \/ op.kind \in {"cache", "refresh"} /\ LoadRepository
           \/ installed' = Recorded(op) /\ UNCHANGED catalog
    BY <1>2 DEF Operation
  <2>2. op' \in Jobs \cup {None} /\ (op' # None => op'.kind = "refresh")
    BY <2>1, JobFacts DEF Kinds
  <2>3. /\ transfer' \in Transfers /\ TransferInv'
        /\ op.kind \in {"cache", "refresh"} => transfer' = transfer
    BY <1>2, <2>1, AdvancedFacts
  <2>4. /\ startup' \in Startups
        /\ startup'.ready = (startup.ready \/ op.kind = "cache")
        /\ startup'.started = startup.started /\ startup'.completed = startup.completed
        /\ startup'.queue = startup.queue
    BY <2>1 DEF CompletedCheck, IInv, TypeInv, Startups
  <2>5. StartInv'
    BY <1>0, <1>2, <2>2, <2>3, <2>4 DEF IInv, StartInv
  <2>6. /\ installed' \subseteq Addons
        /\ installed \subseteq installed' \/ startup.queue = {}
    BY <1>2, <2>1 DEF LoadRepository, Recorded, IInv, TypeOK, TypeInv, InstallsNameAddons, StartInv
  <2>7. startup'.queue \subseteq Positions(installed' \cup disk')
    BY <1>0, <2>4, <2>6 DEF IInv, TypeOK, Positions
  <2>8. TypeOK'
    BY <1>0, <2>2, <2>3, <2>5, <2>6, <2>7 DEF IInv, TypeOK, TransferInv, StartInv, Transfers, game
  <2>9. TypeInv'
    BY <1>0, <2>2, <2>3, <2>4 DEF IInv, TypeInv, InstallsNameAddons, game
  <2>10. PhaseOfJob'
    BY <2>2 DEF PhaseOfJob
  <2> QED
    BY <2>3, <2>5, <2>8, <2>9, <2>10 DEF IInv
<1> QED
  BY <1>1, <1>2

\* A step that changes the handler, and perhaps the action that is waited for.
LEMMA HandlerInv ==
  ASSUME IInv, pc' \in {"operation", "action", "transfer", "startup"}, action' \in {action, None},
         UNCHANGED <<session, engine, startup, transfer, installed, catalog, disk, game>>
  PROVE  IInv'
<1>1. TypeOK'
  BY DEF IInv, TypeOK, engine, game
<1>2. TypeInv'
  BY DEF IInv, TypeInv, InstallsNameAddons, engine, game
<1>3. StartInv' /\ PhaseOfJob' /\ TransferInv'
  BY DEF IInv, StartInv, PhaseOfJob, TransferInv, engine
<1> QED
  BY <1>1, <1>2, <1>3 DEF IInv

LEMMA ActionInv == IInv /\ (Unconfirmed \/ Confirmed \/ NoControl) => IInv'
<1>1. ASSUME IInv, Unconfirmed PROVE IInv'
  BY <1>1, HandlerInv DEF Unconfirmed
<1>2. ASSUME IInv, Confirmed PROVE IInv'
  BY <1>2, HandlerInv DEF Confirmed
<1>3. ASSUME IInv, NoControl PROVE IInv'
  BY <1>3, HandlerInv DEF NoControl
<1> QED
  BY <1>1, <1>2, <1>3
LEMMA TransferInvariant == IInv /\ Transfer => IInv'
<1> SUFFICES ASSUME IInv, Transfer PROVE IInv'
  OBVIOUS
<1>0. UNCHANGED <<session, startup, installed, catalog, disk>> /\ pc' = "startup"
  BY DEF Transfer
<1>1. CASE Waiting
  <2>1. UNCHANGED <<engine, transfer, action, game>>
    BY <1>1 DEF Transfer
  <2> QED
    BY <1>0, <2>1, HandlerInv
<1>2. CASE ~Waiting
  <2>1. Advances /\ transfer.phase \in Importing
    BY <1>2, TransferAdvances, TransferCases
  <2>2. startup.completed
    BY <2>1, IdleFacts DEF IInv, StartInv, Importing
  <2>3. TypeOK'
    BY <1>0, <2>1 DEF Advances, TransferInv, IInv, TypeOK, Transfers
  <2>4. TypeInv'
    BY <1>0, <2>1 DEF Advances, IInv, TypeInv
  <2>5. StartInv'
    BY <1>0, <2>2 DEF IInv, StartInv
  <2> QED
    BY <2>1, <2>3, <2>4, <2>5 DEF Advances, IInv
<1> QED
  BY <1>1, <1>2

\* What LoadNext leaves of a queue.
LEMMA LoadNextFacts ==
  ASSUME TypeOK, TypeInv, NEW rest \in SUBSET DOMAIN Order, LoadNext(rest)
  PROVE  /\ startup' \in Startups /\ startup'.ready /\ startup'.started
         /\ startup'.queue \subseteq rest /\ (startup'.completed => startup'.queue = {})
         /\ action' \in Actions \cup {None} /\ commands' \in Seq(Actions)
         /\ loaded' = loaded /\ rested' = rested
<1> DEFINE missing == {i \in rest : ~SeenLoaded(Order[i])}
           next == Min(missing)
           go(queue, completed) ==
             [ready |-> TRUE, started |-> TRUE, completed |-> completed, queue |-> queue]
<1>1. CASE missing = {}
  <2>1. startup' = go({}, TRUE) /\ UNCHANGED <<action, game>>
    BY <1>1, Zenon DEF LoadNext
  <2> QED
    BY <2>1 DEF Startups, game, TypeOK, TypeInv
<1>2. CASE missing # {}
  <2>1. startup' = go(After(rest, next), FALSE) /\ SetAddonLoaded(Order[next], TRUE)
    BY <1>2, Zenon DEF LoadNext
  <2>2. next \in missing
    <3> HIDE DEF missing
    <3>1. missing \in SUBSET DOMAIN Order
      BY DEF missing
    <3> QED
      BY <1>2, <3>1, MinOfQueue
  <2> HIDE DEF next
  <2>3. Order[next] \in Addons
    BY <2>2, OrderFacts
  <2>4. action' \in Actions /\ commands' \in Seq(Actions) /\ loaded' = loaded /\ rested' = rested
    BY <2>1, <2>3, CommandFacts
  <2>5. startup' \in Startups /\ startup'.queue \subseteq rest
    BY <2>1 DEF Startups, After
  <2> QED
    BY <2>1, <2>4, <2>5
<1> QED
  BY <1>1, <1>2

\* A step of the start-up, whatever it does.
LEMMA StartupFacts ==
  ASSUME IInv, Startup
  PROVE  /\ startup' \in Startups /\ StartInv'
         /\ startup'.queue \subseteq Positions(installed \cup disk)
         /\ action' \in Actions \cup {None} /\ commands' \in Seq(Actions)
         /\ loaded' = loaded /\ rested' = rested
         /\ action # None => action' = action
<1>0. /\ UNCHANGED <<session, engine, transfer, installed, catalog, disk>> /\ pc' = "window"
      /\ op' = op /\ forgotten' = forgotten
      /\ startup \in Startups /\ startup.queue \subseteq Positions(installed \cup disk)
      /\ StartInv /\ startup.queue \in SUBSET DOMAIN Order
  BY DEF Startup, engine, IInv, TypeInv, TypeOK, Startups
<1> DEFINE stays == UNCHANGED <<startup, action, game>>
<1>1. CASE stays /\ (startup.ready => startup.started)
  BY <1>0, <1>1 DEF game, IInv, TypeOK, TypeInv, StartInv
<1>2. ASSUME NEW queue \in SUBSET Positions(installed \cup disk), MayLoad, LoadNext(queue)
      PROVE  /\ startup' \in Startups /\ StartInv'
             /\ startup'.queue \subseteq Positions(installed \cup disk)
             /\ action' \in Actions \cup {None} /\ commands' \in Seq(Actions)
             /\ loaded' = loaded /\ rested' = rested
             /\ action = None
  <2>1. queue \in SUBSET DOMAIN Order
    BY DEF Positions
  <2>2. /\ startup' \in Startups /\ startup'.ready /\ startup'.started
        /\ startup'.queue \subseteq queue /\ (startup'.completed => startup'.queue = {})
        /\ action' \in Actions \cup {None} /\ commands' \in Seq(Actions)
        /\ loaded' = loaded /\ rested' = rested
    BY <1>2, <2>1, LoadNextFacts DEF IInv
  <2>3. ~startup.completed /\ action = None
    BY <1>2 DEF MayLoad
  <2>4. StartInv'
    BY <1>0, <2>2, <2>3 DEF StartInv
  <2> QED
    BY <2>2, <2>3, <2>4
<1>3. CASE startup.started
  <2>1. CASE MayLoad
    BY <1>0, <1>2, <1>3, <2>1 DEF Startup
  <2>2. CASE ~MayLoad
    BY <1>1, <1>3, <2>2 DEF Startup
  <2> QED
    BY <2>1, <2>2
<1>4. CASE ~startup.started /\ ~startup.ready
  BY <1>1, <1>4 DEF Startup
<1>5. CASE ~startup.started /\ startup.ready
  <2>1. PICK auto \in SUBSET (installed \cap disk) :
          IF MayLoad THEN LoadNext(Positions(auto))
          ELSE /\ startup' = [startup EXCEPT !.started = TRUE, !.queue = Positions(auto)]
               /\ UNCHANGED <<action, game>>
    BY <1>5 DEF Startup
  <2>2. Positions(auto) \in SUBSET Positions(installed \cup disk)
    BY DEF Positions
  <2>3. CASE MayLoad
    BY <1>2, <2>1, <2>2, <2>3
  <2>4. CASE ~MayLoad
    <3>1. /\ startup' \in Startups /\ startup'.queue = Positions(auto) /\ startup'.started
          /\ startup'.ready /\ ~startup'.completed /\ ~startup.completed
      <4>1. Positions(auto) \in SUBSET DOMAIN Order
        BY DEF Positions
      <4>2. startup' = [startup EXCEPT !.started = TRUE, !.queue = Positions(auto)]
        BY <2>1, <2>4
      <4>3. ~startup.completed
        BY <1>0, <1>5 DEF StartInv
      <4>4. startup \in Startups
        BY <1>0
      <4> QED
        BY <1>5, <4>1, <4>2, <4>3, <4>4 DEF Startups
    <3>2. StartInv'
      BY <1>0, <3>1 DEF StartInv
    <3> QED
      BY <2>1, <2>2, <2>4, <3>1, <3>2 DEF game, IInv, TypeOK, TypeInv
  <2> QED
    BY <2>3, <2>4
<1> QED
  BY <1>3, <1>4, <1>5

LEMMA StartupInv == IInv /\ Startup => IInv'
<1> SUFFICES ASSUME IInv, Startup PROVE IInv'
  OBVIOUS
<1>1. /\ UNCHANGED <<session, op, forgotten, transfer, installed, catalog, disk>>
      /\ pc' = "window"
  BY DEF Startup, engine
<1>2. TypeOK'
  BY <1>1, StartupFacts DEF StartInv, IInv, TypeOK
<1>3. TypeInv'
  BY <1>1, StartupFacts DEF IInv, TypeInv, InstallsNameAddons
<1>4. PhaseOfJob' /\ TransferInv'
  BY <1>1 DEF IInv, PhaseOfJob, TransferInv
<1> QED
  BY <1>2, <1>3, <1>4, StartupFacts DEF IInv
-----------------------------------------------------------------------------
(* The controls of the window.                                              *)

\* What a control does, whichever it is: it starts at most one job, which takes the
\* place of another only if it is one of the transfer's, or queues a command, if
\* nothing goes on.
Controls ==
  /\ transfer' \in Transfers /\ TransferInv' /\ PhaseOfJob'
  /\ op' \in Jobs \cup {None} /\ forgotten' \subseteq Jobs /\ InstallsNameAddons'
  /\ \/ op' = op /\ forgotten' = forgotten
     \/ /\ op' # None /\ op'.result = "running" /\ op'.kind # "settings"
        /\ \/ op = None /\ forgotten' = forgotten
           \/ op'.kind \in {"inspect", "export", "cancel"} /\ forgotten' # {}
  /\ action' \in Actions \cup {None} /\ (action # None => action' = action)
  /\ commands' \in Seq(Actions) /\ loaded' = loaded /\ installed' = installed
  /\ transfer'.phase \in Importing =>
       \/ transfer' = transfer /\ rested' = rested
       \/ transfer'.phase = "repositories" /\ rested' = Addons \ loaded
  /\ rested' \subseteq Addons
  /\ \/ startup.completed
     \/ /\ op = None /\ op' # None /\ op'.kind = "refresh" /\ transfer' = transfer
        /\ forgotten' = forgotten

\* A control that nothing in progress disables is used only after the start-up.
LEMMA NotBusyFacts ==
  ASSUME IInv, pc = "window", ~Busy
  PROVE  op = None /\ action = None /\ startup.completed
BY DEF Busy, Starting, IInv, StartInv

\* The transfer is begun only after the start-up.
LEMMA BegunFacts ==
  ASSUME IInv, transfer.phase # "none"
  PROVE  startup.completed
BY IdleFacts DEF IInv, StartInv

LEMMA StartJobFacts ==
  ASSUME IInv, NEW kind \in Kinds \ {"settings"}, NEW a \in Addons \cup {None},
         kind = "install" => a \in Addons, StartJob(kind, a),
         op = None \/ kind \in {"inspect", "export", "cancel"}
  PROVE  /\ op' \in Jobs /\ op' # None /\ op'.kind = kind /\ op'.result = "running"
         /\ forgotten' \subseteq Jobs /\ InstallsNameAddons'
         /\ \/ op = None /\ forgotten' = forgotten
            \/ op'.kind \in {"inspect", "export", "cancel"} /\ forgotten' # {}
         /\ action' = action /\ commands' = commands /\ loaded' = loaded /\ rested' = rested
         /\ installed' = installed
         /\ action \in Actions \cup {None} /\ commands \in Seq(Actions) /\ rested \subseteq Addons
<1>1. TypeOK /\ TypeInv /\ Begin(kind, a)
  BY DEF IInv, StartJob
<1>2. /\ op' \in Jobs /\ op' # None /\ op'.kind = kind /\ op'.result = "running"
      /\ forgotten' \subseteq Jobs /\ InstallsNameAddons'
      /\ op = None => forgotten' = forgotten
      /\ op # None => forgotten' # {}
  BY <1>1, BeginFacts
<1> QED
  BY <1>1, <1>2 DEF StartJob, game, TypeOK, TypeInv

\* A job that is none of the transfer's leaves the transfer as it is.
LEMMA OtherJobFacts ==
  ASSUME IInv, NEW kind \in {"install", "uninstall", "refresh"}, NEW a \in Addons \cup {None},
         kind = "install" => a \in Addons, StartJob(kind, a), op = None,
         transfer' = transfer, startup.completed \/ kind = "refresh"
  PROVE  Controls
<1>1. kind \in Kinds \ {"settings"} /\ transfer \in Transfers /\ TransferInv
  BY DEF Kinds, IInv, TypeInv
<1>2. /\ op' \in Jobs /\ op' # None /\ op'.kind = kind /\ op'.result = "running"
      /\ forgotten' \subseteq Jobs /\ InstallsNameAddons' /\ forgotten' = forgotten
      /\ action' = action /\ commands' = commands /\ loaded' = loaded /\ rested' = rested
      /\ installed' = installed
      /\ action \in Actions \cup {None} /\ commands \in Seq(Actions) /\ rested \subseteq Addons
  BY <1>1, StartJobFacts
<1>3. TransferInv' /\ PhaseOfJob'
  BY <1>1, <1>2 DEF TransferInv, PhaseOfJob
<1> QED
  BY <1>1, <1>2, <1>3 DEF Controls

\* Nor does a transfer that is opened, closed or confirmed touch the jobs.
LEMMA NewTransferFacts ==
  ASSUME IInv, startup.completed, UNCHANGED <<engine, action, loaded, commands, installed>>,
         transfer' \in Transfers, transfer'.skipped = {}, transfer'.current = None,
         transfer'.phase # "unloading", PhaseOfJob', rested' \subseteq Addons,
         transfer'.phase \in Importing =>
           transfer'.phase = "repositories" /\ rested' = Addons \ loaded
  PROVE  Controls
<1>1. /\ op' = op /\ forgotten' = forgotten /\ op \in Jobs \cup {None} /\ forgotten \subseteq Jobs
      /\ InstallsNameAddons' /\ action \in Actions \cup {None} /\ commands \in Seq(Actions)
  BY DEF engine, IInv, TypeOK, TypeInv, InstallsNameAddons
<1>2. TransferInv'
  BY DEF TransferInv
<1> QED
  BY <1>1, <1>2 DEF Controls

LEMMA LoadOrUnloadFacts ==
  ASSUME IInv, pc = "window", LoadOrUnload PROVE Controls
<1>1. /\ op' = op /\ forgotten' = forgotten /\ transfer' = transfer /\ installed' = installed
      /\ startup.completed /\ action = None
      /\ IInv /\ TypeOK /\ TypeInv /\ TransferInv /\ PhaseOfJob
  BY NotBusyFacts DEF LoadOrUnload, engine, IInv
<1>2. PICK a \in installed : SetAddonLoaded(a, ~SeenLoaded(a))
  BY DEF LoadOrUnload
<1>3. a \in Addons /\ (~SeenLoaded(a)) \in BOOLEAN
  BY <1>1 DEF TypeOK
<1>4. /\ action' \in Actions /\ commands' \in Seq(Actions)
      /\ loaded' = loaded /\ rested' = rested
  BY <1>1, <1>2, <1>3, CommandFacts
<1>5. TransferInv' /\ PhaseOfJob' /\ InstallsNameAddons'
  BY <1>1 DEF TransferInv, PhaseOfJob, TypeInv, InstallsNameAddons
<1>6. /\ transfer' \in Transfers /\ op' \in Jobs \cup {None} /\ forgotten' \subseteq Jobs
      /\ rested \subseteq Addons
  BY <1>1 DEF TypeOK, TypeInv
<1> QED
  BY <1>1, <1>4, <1>5, <1>6 DEF Controls

\* An inspection starts a transfer of its own.
LEMMA InspectFacts ==
  ASSUME IInv, StartJob("inspect", None), startup.completed,
         transfer' = [Idle EXCEPT !.phase = "inspecting"]
  PROVE  Controls
<1>1. /\ op' \in Jobs /\ op' # None /\ op'.kind = "inspect" /\ op'.result = "running"
      /\ forgotten' \subseteq Jobs /\ InstallsNameAddons'
      /\ ((op = None /\ forgotten' = forgotten) \/ forgotten' # {})
      /\ action' = action /\ commands' = commands /\ loaded' = loaded /\ rested' = rested
      /\ installed' = installed
      /\ action \in Actions \cup {None} /\ commands \in Seq(Actions) /\ rested \subseteq Addons
  BY StartJobFacts DEF Kinds
<1>2. /\ transfer' \in Transfers /\ transfer'.phase = "inspecting" /\ transfer'.current = None
      /\ transfer'.skipped = {}
  BY IdleFacts DEF Transfers, Phases
<1>3. TransferInv' /\ PhaseOfJob' /\ transfer'.phase \notin Importing
  BY <1>1, <1>2 DEF TransferInv, PhaseOfJob, Importing
<1> QED
  BY <1>1, <1>2, <1>3 DEF Controls

LEMMA ControlFacts ==
  ASSUME IInv, pc = "window", Click PROVE Controls
<1>0. transfer \in Transfers /\ TransferInv /\ PhaseOfJob /\ rested \subseteq Addons
      /\ installed \subseteq Addons
  BY DEF IInv, TypeOK, TypeInv
<1>1. CASE LoadOrUnload
  BY <1>1, LoadOrUnloadFacts
<1>2. CASE Install
  BY <1>2, NotBusyFacts, OtherJobFacts DEF Install
<1>3. CASE Uninstall
  BY <1>0, <1>3, NotBusyFacts, OtherJobFacts DEF Uninstall
<1>4. CASE Refresh
  BY <1>4, OtherJobFacts DEF Refresh
<1>5. CASE InstallProfile
  BY <1>5, NotBusyFacts, InspectFacts DEF InstallProfile
<1>6. CASE InspectProfile
  BY <1>6, BegunFacts, InspectFacts DEF InspectProfile
<1>7. ASSUME NEW kind \in {"export", "cancel"}, StartJob(kind, None), transfer' = transfer,
             transfer.phase = IF kind = "export" THEN "export" ELSE "review"
      PROVE  Controls
  <2>1. /\ op' \in Jobs /\ op' # None /\ op'.kind = kind /\ op'.result = "running"
        /\ forgotten' \subseteq Jobs /\ InstallsNameAddons'
        /\ ((op = None /\ forgotten' = forgotten) \/ forgotten' # {})
        /\ action' = action /\ commands' = commands /\ loaded' = loaded /\ rested' = rested
        /\ installed' = installed
        /\ action \in Actions \cup {None} /\ commands \in Seq(Actions)
    BY <1>7, StartJobFacts DEF Kinds
  <2>2. startup.completed
    BY <1>7, BegunFacts
  <2>3. TransferInv' /\ PhaseOfJob'
    BY <1>0, <1>7, <2>1 DEF TransferInv, PhaseOfJob
  <2> QED
    BY <1>0, <1>7, <2>1, <2>2, <2>3 DEF Controls
<1>8. CASE ExportProfile
  BY <1>7, <1>8 DEF ExportProfile
<1>9. CASE CancelImport
  BY <1>7, <1>9 DEF CancelImport
<1>10. CASE OpenOrClose
  <2>1. rested' = rested /\ UNCHANGED <<engine, action, loaded, commands, installed>>
        /\ op' = op
    BY <1>10 DEF OpenOrClose, game, engine
  <2>2. CASE ~Busy /\ transfer.phase = "none"
             /\ transfer' \in {[Idle EXCEPT !.phase = p] : p \in {"choose", "export"}}
    <3>1. /\ transfer' \in Transfers /\ transfer'.phase \in {"choose", "export"}
          /\ transfer'.skipped = {} /\ transfer'.current = None
      BY <2>2, IdleFacts DEF Transfers, Phases
    <3>2. op = None /\ startup.completed
      BY <2>2, NotBusyFacts
    <3> QED
      BY <1>0, <2>1, <3>1, <3>2, NewTransferFacts DEF PhaseOfJob, Importing
  <2>3. CASE transfer.phase \in {"choose", "export", "summary"} /\ transfer' = Idle
    <3>1. PhaseOfJob'
      BY <1>0, <2>1, <2>3, IdleFacts DEF PhaseOfJob
    <3>2. startup.completed
      BY <2>3, BegunFacts
    <3> QED
      BY <1>0, <2>1, <2>3, <3>1, <3>2, IdleFacts, NewTransferFacts DEF Importing
  <2> QED
    BY <1>10, <2>2, <2>3 DEF OpenOrClose
<1>11. CASE ConfirmImport
  <2>1. PICK settings \in SUBSET Addons, install \in SUBSET Addons, n \in 0..MaxImports :
          transfer' = [Idle EXCEPT !.phase = "repositories", !.settings = settings,
                                   !.install = install, !.repositories = n]
    BY <1>11 DEF ConfirmImport
  <2>2. n \in Nat
    BY ConstantsAssumption
  <2>3. /\ transfer' \in Transfers /\ transfer'.phase = "repositories"
        /\ transfer'.skipped = {} /\ transfer'.current = None
    BY <2>1, <2>2, IdleFacts DEF Transfers, Phases, Importing
  <2>4. startup.completed /\ op' = op /\ transfer.phase = "review"
    BY <1>11, BegunFacts DEF ConfirmImport, engine
  <2>5. PhaseOfJob'
    BY <1>0, <2>3, <2>4 DEF PhaseOfJob
  <2> QED
    BY <1>11, <2>3, <2>4, <2>5, NewTransferFacts DEF ConfirmImport
<1> QED
  BY <1>1, <1>2, <1>3, <1>4, <1>5, <1>6, <1>8, <1>9, <1>10, <1>11 DEF Click

LEMMA UseControlInv == IInv /\ UseControl => IInv'
<1> SUFFICES ASSUME IInv, UseControl PROVE IInv'
  OBVIOUS
<1>1. /\ Controls /\ pc' = "operation"
      /\ UNCHANGED <<session, startup, catalog, disk>>
  BY ControlFacts DEF UseControl
<1>2. TypeOK'
  BY <1>1 DEF Controls, TransferInv, Transfers, IInv, TypeOK
<1>3. TypeInv'
  BY <1>1 DEF Controls, IInv, TypeInv
<1>4. StartInv'
  BY <1>1 DEF Controls, IInv, StartInv
<1> QED
  BY <1>1, <1>2, <1>3, <1>4 DEF Controls, IInv
-----------------------------------------------------------------------------
\* Every step keeps the types, and how far the start-up and the transfer are.
LEMMA NextInv == IInv /\ [Next]_vars => IInv'
<1> SUFFICES ASSUME IInv, [Next]_vars PROVE IInv'
  OBVIOUS
<1>1. CASE UNCHANGED vars
  <2>1. TypeOK'
    BY <1>1 DEF vars, engine, game, IInv, TypeOK
  <2>2. TypeInv'
    BY <1>1 DEF vars, engine, game, IInv, TypeInv, InstallsNameAddons
  <2>3. StartInv' /\ PhaseOfJob' /\ TransferInv'
    BY <1>1 DEF vars, engine, game, IInv, StartInv, PhaseOfJob, TransferInv
  <2> QED
    BY <2>1, <2>2, <2>3 DEF IInv
<1> QED
  BY <1>1, JobEndsInv, ForgottenJobEndsInv, GameExecutesInv, ChatInv, OperationInv, ActionInv,
     TransferInvariant, StartupInv, UseControlInv
  DEF Next, Frame

\* The inductive invariant holds in every state.
THEOREM Invariance == Spec => []IInv
<1> QED
  BY InitInv, NextInv, PTL DEF Spec

\* Every variable of the client stays in its type, whatever ends, fails, is
\* forgotten or comes late (main.lua, tick_operation to draw_transfer).
THEOREM TypeCorrect == Spec => []TypeOK
<1>1. IInv => TypeOK
  BY DEF IInv
<1> QED
  BY <1>1, Invariance, PTL
-----------------------------------------------------------------------------
(* What the client records is what is on the disk.                          *)

\* A job that runs, or has failed, changes no record.
LEMMA SettledRunning ==
  ASSUME op # None => op.result # "ok" PROVE Settled = installed
BY DEF Settled, Recorded

LEMMA RecordsInit == Init => RecordsInv
<1> SUFFICES ASSUME Init PROVE RecordsInv
  OBVIOUS
<1>1. op # None => op.result = "running"
  BY JobFacts DEF Init, Kinds
<1>2. Settled = installed
  BY <1>1, SettledRunning
<1> QED
  BY <1>2 DEF Init, RecordsInv

\* The job that ends does to the disk what will be recorded of it.
LEMMA RecordsJobEnds == IInv /\ RecordsInv /\ JobEnds => RecordsInv'
<1> SUFFICES ASSUME IInv, RecordsInv, JobEnds PROVE RecordsInv'
  OBVIOUS
<1>1. /\ op # None /\ op.result = "running" /\ op \in Jobs
      /\ installed' = installed /\ forgotten' = forgotten /\ catalog' = catalog
  BY DEF JobEnds, IInv, TypeOK
<1>2. Settled = installed
  BY <1>1, SettledRunning
<1>3. CASE op' = [op EXCEPT !.result = "ok"] /\ Effect(op)
  <2>1. op' \in Jobs /\ op'.result = "ok" /\ op'.kind = op.kind /\ op'.addon = op.addon
    BY <1>1, <1>3 DEF Jobs
  <2>2. op' # None
    BY <2>1, NoneAssumption
  <2>3. Settled' = IF op.kind = "install" THEN installed \cup {op.addon}
                   ELSE IF op.kind = "uninstall" THEN installed \ {op.addon} ELSE installed
    BY <1>1, <2>1, <2>2 DEF Settled, Recorded
  <2> QED
    BY <1>1, <1>2, <1>3, <2>3 DEF RecordsInv, Effect
<1>4. CASE op' = [op EXCEPT !.result = "failed"] /\ UNCHANGED disk
  <2>1. op'.result = "failed"
    BY <1>1, <1>4 DEF Jobs
  <2>2. Settled' = installed
    BY <1>1, <2>1 DEF Settled, Recorded
  <2> QED
    BY <1>1, <1>2, <1>4, <2>2 DEF RecordsInv
<1> QED
  BY <1>3, <1>4 DEF JobEnds

\* What the job has done is recorded when it is completed; a catalog adds what the
\* disk has besides.
LEMMA RecordsOperation == IInv /\ RecordsInv /\ Operation => RecordsInv'
<1> SUFFICES ASSUME IInv, RecordsInv, Operation PROVE RecordsInv'
  OBVIOUS
<1>0. disk' = disk /\ forgotten' = forgotten
  BY DEF Operation
<1>1. CASE op = None \/ op.result = "running"
  BY <1>0, <1>1 DEF Operation, RecordsInv, Settled, Recorded
<1>2. CASE op # None /\ op.result # "running"
  <2>1. /\ op' = (IF op.kind = "cache" THEN Job("refresh", None) ELSE None)
        /\ \/ op.kind \in {"cache", "refresh"} /\ LoadRepository
           \/ installed' = Recorded(op) /\ UNCHANGED catalog
    BY <1>2 DEF Operation
  <2>2. op' = None \/ op'.result = "running"
    BY <2>1, JobFacts DEF Kinds
  <2>3. Settled' = installed'
    BY <2>2 DEF Settled, Recorded
  <2>4. CASE op.kind \in {"cache", "refresh"} /\ LoadRepository
    <3>1. Settled = installed
      BY <2>4 DEF Settled, Recorded
    <3> QED
      BY <1>0, <2>3, <2>4, <3>1 DEF LoadRepository, RecordsInv
  <2>5. CASE installed' = Recorded(op) /\ UNCHANGED catalog
    BY <1>0, <1>2, <2>3, <2>5 DEF RecordsInv, Settled
  <2> QED
    BY <2>1, <2>4, <2>5
<1> QED
  BY <1>1, <1>2

\* Starting a job settles nothing, unless it makes another one forgotten.
LEMMA RecordsStarted ==
  ASSUME RecordsInv, UNCHANGED <<installed, catalog, disk>>,
         \/ op' = op /\ forgotten' = forgotten
         \/ /\ op' = None \/ op'.result = "running"
            /\ op = None /\ forgotten' = forgotten
         \/ forgotten' # {}
  PROVE  RecordsInv'
<1>1. CASE op' = op /\ forgotten' = forgotten
  BY <1>1 DEF RecordsInv, Settled, Recorded
<1>2. CASE (op' = None \/ op'.result = "running") /\ op = None /\ forgotten' = forgotten
  <2>1. Settled' = installed /\ Settled = installed
    BY <1>2 DEF Settled, Recorded
  <2> QED
    BY <1>2, <2>1 DEF RecordsInv
<1>3. CASE forgotten' # {}
  BY <1>3 DEF RecordsInv
<1> QED
  BY <1>1, <1>2, <1>3

LEMMA RecordsNext == IInv /\ RecordsInv /\ [Next]_vars => RecordsInv'
<1> SUFFICES ASSUME IInv, RecordsInv, [Next]_vars PROVE RecordsInv'
  OBVIOUS
<1>1. CASE UNCHANGED <<engine, installed, catalog, disk>>
  BY <1>1, RecordsStarted DEF engine
<1>2. CASE ForgottenJobEnds
  BY <1>2 DEF ForgottenJobEnds, RecordsInv
<1>3. CASE Transfer /\ ~Waiting
  <2>1. op = None /\ Advances
    BY <1>3, TransferCases, TransferAdvances
  <2>2. UNCHANGED <<installed, catalog, disk>>
    BY <1>3 DEF Transfer
  <2> QED
    BY <2>1, <2>2, RecordsStarted DEF Advances
<1>4. CASE Transfer /\ Waiting
  BY <1>1, <1>4 DEF Transfer
<1>5. CASE UseControl
  <2>1. Controls /\ UNCHANGED <<installed, catalog, disk>>
    BY <1>5, ControlFacts DEF UseControl, Controls
  <2> QED
    BY <2>1, RecordsStarted DEF Controls
<1>6. CASE Unconfirmed \/ Confirmed \/ Startup \/ NoControl \/ GameExecutes \/ Chat
           \/ UNCHANGED vars
  BY <1>1, <1>6 DEF Unconfirmed, Confirmed, Startup, NoControl, GameExecutes, Chat, vars
<1> QED
  BY <1>2, <1>3, <1>4, <1>5, <1>6, RecordsJobEnds, RecordsOperation DEF Next, Frame

\* With a catalog, nothing in progress and nothing forgotten, the records are what
\* is on the disk: no job that ended, failed or was cancelled is recorded otherwise
\* than it ended (main.lua, complete_operation and rebuild_packages).
THEOREM RecordsAreTrue == Spec => []RecordsMatchDisk
<1>1. RecordsInv => RecordsMatchDisk
  BY DEF RecordsInv, RecordsMatchDisk, Settled
<1> QED
  BY <1>1, Invariance, RecordsInit, RecordsNext, PTL DEF Spec
-----------------------------------------------------------------------------
(* What was unloaded before its settings are restored.                      *)

\* In an import, what does not run now has not been running at some time.
LEMMA UnloadInit == Init => UnloadInv
<1> SUFFICES ASSUME Init PROVE UnloadInv
  OBVIOUS
<1>1. op # None => op.kind = "cache"
  BY JobFacts DEF Init, Kinds
<1> QED
  BY <1>1, IdleFacts DEF Init, UnloadInv, Importing

\* A command makes what it stops rest, and forgets nothing that has rested.
LEMMA UnloadCommand ==
  ASSUME IInv, UnloadInv, NEW a, NEW enabled, Execute(a, enabled),
         UNCHANGED <<session, engine, transfer>>
  PROVE  UnloadInv'
<1>1. /\ transfer.phase \in Importing => Addons \ loaded' \subseteq rested'
      /\ rested \subseteq rested'
  BY DEF Execute
<1>2. op' = op /\ transfer' = transfer /\ session' = session
  BY DEF engine
<1> QED
  BY <1>1, <1>2 DEF UnloadInv

\* The phases of the transfer, one after the other.
LEMMA UnloadTransfer == IInv /\ UnloadInv /\ Transfer /\ ~Waiting => UnloadInv'
<1> SUFFICES ASSUME IInv, UnloadInv, Transfer, ~Waiting PROVE UnloadInv'
  OBVIOUS
<1>0. /\ TypeOK /\ TypeInv /\ TransferInv /\ op = None /\ transfer.phase \in Importing
      /\ Advances /\ session' = session /\ loaded' = loaded /\ rested' = rested
      /\ Addons \ loaded \subseteq rested
      /\ transfer \in Transfers /\ transfer.todo \in SUBSET DOMAIN Order
      /\ DOMAIN Order \in SUBSET DOMAIN Order
      /\ transfer.skipped \subseteq transfer.settings
  BY TransferCases, TransferAdvances
  DEF Advances, IInv, UnloadInv, TypeInv, Transfers, TransferInv, Transfer
<1>1. ASSUME NEW t \in Transfers, t.skipped \subseteq t.settings,
             NEW rest \in SUBSET DOMAIN Order, RestorePhase(t, rest),
             session.status => t.queued \subseteq rested \cup t.skipped
      PROVE  UnloadInv'
  <2>1. /\ op' # None
        /\ op'.kind = "settings" =>
             /\ transfer'.phase = "restoring" /\ op'.addon \notin transfer'.skipped
             /\ transfer'.skipped = t.skipped /\ transfer'.queued = t.queued
        /\ op'.kind # "settings" => transfer'.phase = "cleanup"
    BY <1>0, <1>1, RestoreFacts
  <2> QED
    BY <1>0, <1>1, <2>1 DEF UnloadInv, Importing
<1>2. ASSUME NEW t \in Transfers, t.skipped \subseteq t.settings,
             t.current \in t.settings \cup {None},
             NEW rest \in SUBSET Positions(t.settings), UnloadPhase(t, rest),
             session.status =>
               \A a \in t.queued : \/ a \in rested \cup t.skipped \/ a = t.current
                                   \/ \E i \in rest : Order[i] = a
      PROVE  UnloadInv'
  <2> DEFINE u == Skipped(t)
  <2>1. /\ u \in Transfers /\ u.queued = t.queued /\ u.settings = t.settings
        /\ u.skipped = t.skipped \cup {a \in {t.current} \ {None} : SeenLoaded(a)}
        /\ u.skipped \subseteq u.settings
    BY <1>2, SkippedFacts
  <2>2. t.queued \subseteq Addons
    BY DEF Transfers
  <2>3. ASSUME session.status, NEW a \in t.queued
        PROVE  a \in rested \cup u.skipped \/ \E i \in rest : Order[i] = a
    <3>1. CASE a = t.current
      <4>1. a # None
        BY <2>2, ConstantsAssumption
      <4>2. SeenLoaded(a) \/ a \in rested
        BY <1>0, <2>2, <2>3 DEF SeenLoaded
      <4> QED
        BY <2>1, <3>1, <4>1, <4>2
    <3> QED
      BY <1>2, <2>1, <2>3, <3>1
  <2>4. ASSUME session.status, NEW i \in rest, ~SeenLoaded(Order[i])
        PROVE  Order[i] \in rested
    <3>1. Order[i] \in Addons
      BY OrderFacts DEF Positions
    <3> QED
      BY <1>0, <2>4, <3>1 DEF SeenLoaded
  <2>5. \/ /\ \A i \in rest : ~SeenLoaded(Order[i])
           /\ RestorePhase(u, DOMAIN Order)
        \/ /\ transfer'.phase = "unloading" /\ op' = None
           /\ transfer'.skipped = u.skipped /\ transfer'.queued = t.queued
           /\ \A i \in rest : \/ ~SeenLoaded(Order[i])
                              \/ Order[i] = transfer'.current
                              \/ i \in transfer'.todo
    BY <1>0, <1>2, UnloadFacts
  <2> HIDE DEF u
  <2>6. CASE /\ \A i \in rest : ~SeenLoaded(Order[i])
             /\ RestorePhase(u, DOMAIN Order)
    <3>1. session.status => u.queued \subseteq rested \cup u.skipped
      BY <2>1, <2>3, <2>4, <2>6
    <3> QED
      BY <1>0, <1>1, <2>1, <2>6, <3>1
  <2>7. CASE /\ transfer'.phase = "unloading" /\ op' = None
             /\ transfer'.skipped = u.skipped /\ transfer'.queued = t.queued
             /\ \A i \in rest : \/ ~SeenLoaded(Order[i])
                                \/ Order[i] = transfer'.current
                                \/ i \in transfer'.todo
    <3>1. ASSUME session.status, NEW a \in t.queued
          PROVE  \/ a \in rested \cup transfer'.skipped \/ a = transfer'.current
                 \/ \E i \in transfer'.todo : Order[i] = a
      BY <2>3, <2>4, <2>7, <3>1
    <3> QED
      BY <1>0, <2>7, <3>1 DEF UnloadInv
  <2> QED
    BY <2>5, <2>6, <2>7
<1>3. ASSUME NEW rest \in SUBSET DOMAIN Order, InstallPhase(rest),
             transfer.phase \in {"repositories", "installing"}
      PROVE  UnloadInv'
  <2> DEFINE affected == transfer.settings \cap installed
             t == [transfer EXCEPT !.queued = affected]
  <2>1. \/ transfer'.phase = "installing" /\ op' # None /\ op'.kind = "install"
        \/ /\ UnloadPhase(t, Positions(affected))
           /\ t \in Transfers /\ t.queued = affected
           /\ t.skipped = transfer.skipped /\ t.settings = transfer.settings
           /\ t.current = None /\ affected \subseteq Addons
    BY <1>0, <1>3, InstallFacts
  <2>2. Positions(affected) \in SUBSET Positions(transfer.settings)
    BY DEF Positions
  <2>3. affected \subseteq Addons => \A a \in affected : \E i \in Positions(affected) : Order[i] = a
    BY OrderFacts DEF Positions
  <2> HIDE DEF t, affected
  <2>4. CASE transfer'.phase = "installing" /\ op' # None /\ op'.kind = "install"
    BY <1>0, <2>4 DEF UnloadInv
  <2>5. CASE /\ UnloadPhase(t, Positions(affected))
             /\ t \in Transfers /\ t.queued = affected
             /\ t.skipped = transfer.skipped /\ t.settings = transfer.settings
             /\ t.current = None /\ affected \subseteq Addons
    BY <1>0, <1>2, <2>2, <2>3, <2>5
  <2> QED
    BY <2>1, <2>4, <2>5
<1>4. CASE transfer.phase = "repositories" /\ transfer.repositories > 0 /\ RefreshImported
  <2>1. op' # None /\ op'.kind = "refresh" /\ transfer'.phase = "repositories"
    BY <1>0, <1>4, RefreshFacts
  <2> QED
    BY <1>0, <2>1 DEF UnloadInv
<1>5. CASE transfer.phase = "repositories" /\ InstallPhase(DOMAIN Order)
  BY <1>0, <1>3, <1>5
<1>6. CASE transfer.phase = "installing" /\ InstallPhase(transfer.todo)
  BY <1>0, <1>3, <1>6
<1>7. CASE transfer.phase = "unloading" /\ UnloadPhase(transfer, transfer.todo)
  <2>1. /\ transfer.todo \in SUBSET Positions(transfer.settings)
        /\ transfer.current \in transfer.settings \cup {None}
    BY <1>0, <1>7 DEF TransferInv
  <2> QED
    BY <1>0, <1>2, <1>7, <2>1 DEF UnloadInv
<1>8. CASE transfer.phase = "restoring" /\ RestorePhase(transfer, transfer.todo)
  BY <1>0, <1>1, <1>8 DEF UnloadInv
<1> QED
  BY <1>4, <1>5, <1>6, <1>7, <1>8, TransferCases
LEMMA UnloadNext == IInv /\ UnloadInv /\ [Next]_vars => UnloadInv'
<1> SUFFICES ASSUME IInv, UnloadInv, [Next]_vars PROVE UnloadInv'
  OBVIOUS
<1>1. CASE UNCHANGED <<session, engine, transfer, loaded, rested>>
  BY <1>1 DEF UnloadInv, engine
<1>2. CASE JobEnds
  <2>1. /\ op # None /\ op'.kind = op.kind /\ op'.addon = op.addon
        /\ UNCHANGED <<session, transfer, loaded, rested>>
    BY <1>2 DEF JobEnds, game, IInv, TypeOK, Jobs
  <2> QED
    BY <2>1 DEF UnloadInv
<1>3. CASE ForgottenJobEnds
  BY <1>3 DEF ForgottenJobEnds, game, UnloadInv
<1>4. CASE GameExecutes
  BY <1>4, UnloadCommand DEF GameExecutes
<1>5. CASE Chat
  BY <1>5, UnloadCommand DEF Chat
<1>6. CASE Operation
  <2>1. CASE op = None \/ op.result = "running"
    BY <1>1, <1>6, <2>1 DEF Operation, game, engine
  <2>2. CASE op # None /\ op.result # "running"
    <3>1. /\ op' = None \/ op'.kind = "refresh"
          /\ transfer' \in Advanced(op) /\ UNCHANGED <<session, loaded, rested>>
      BY <1>6, <2>2, JobFacts DEF Operation, game, Kinds
    <3>2. transfer'.phase \notin Importing \/ transfer' = transfer
      BY <2>2, <3>1, AdvancedFacts
    <3> QED
      BY <3>1, <3>2 DEF UnloadInv, Importing
  <2> QED
    BY <2>1, <2>2
<1>7. CASE Transfer /\ Waiting
  BY <1>1, <1>7 DEF Transfer, game
<1>8. CASE Startup
  <2>1. UNCHANGED <<session, engine, transfer>> /\ loaded' = loaded /\ rested' = rested
    BY <1>8, StartupFacts DEF Startup
  <2> QED
    BY <1>1, <2>1
<1>9. CASE UseControl
  <2>1. Controls /\ session' = session
    BY <1>9, ControlFacts DEF UseControl
  <2>2. op' # None /\ op'.kind = "settings" =>
          /\ op' = op /\ transfer'.phase = "restoring" /\ transfer.phase = "restoring"
    BY <2>1 DEF Controls, PhaseOfJob, IInv
  <2> QED
    BY <2>1, <2>2 DEF Controls, UnloadInv, Importing
<1>10. CASE Unconfirmed \/ Confirmed \/ NoControl \/ UNCHANGED vars
  BY <1>1, <1>10 DEF Unconfirmed, Confirmed, NoControl, vars, game
<1> QED
  BY <1>2, <1>3, <1>4, <1>5, <1>6, <1>7, <1>8, <1>9, <1>10, UnloadTransfer DEF Next, Frame

\* If the game tells what is loaded, no settings are restored of an add-on of the
\* unload queue that has been running since the import was confirmed, whatever the
\* user loads meanwhile and however late a command is executed (main.lua,
\* advance_profile_import).
THEOREM SettingsOfTheUnloaded == Spec => []QueuedWasUnloaded
<1>1. IInv /\ UnloadInv => QueuedWasUnloaded
  BY DEF IInv, PhaseOfJob, UnloadInv, QueuedWasUnloaded
<1> QED
  BY <1>1, Invariance, UnloadInit, UnloadNext, PTL DEF Spec
-----------------------------------------------------------------------------
(* What no step does.                                                       *)

\* A command that is waited for is confirmed or given up before the next is sent,
\* by the import, the start-up or a control (main.lua, set_addon_loaded).
THEOREM OneCommand == Spec => OneAddonAtATime
<1>1. ASSUME IInv, [Next]_vars PROVE action # None /\ action' # None => action' = action
  <2>1. CASE Transfer
    <3>1. CASE Waiting
      BY <2>1, <3>1 DEF Transfer
    <3>2. CASE ~Waiting
      BY <2>1, <3>2, TransferCases
    <3> QED
      BY <3>1, <3>2
  <2>2. CASE Startup
    BY <1>1, <2>2, StartupFacts
  <2>3. CASE UseControl
    BY <1>1, <2>3, ControlFacts DEF UseControl, Controls
  <2>4. CASE Confirmed
    BY <2>4 DEF Confirmed
  <2>5. CASE Operation \/ Unconfirmed \/ NoControl \/ JobEnds \/ ForgottenJobEnds
             \/ GameExecutes \/ Chat \/ UNCHANGED vars
    BY <2>5 DEF Operation, Unconfirmed, NoControl, JobEnds, ForgottenJobEnds, GameExecutes, Chat,
                vars
  <2> QED
    BY <1>1, <2>1, <2>2, <2>3, <2>4, <2>5 DEF Next, Frame
<1> QED
  BY <1>1, Invariance, PTL DEF Spec, OneAddonAtATime

\* A job is pushed out of state.operation only by an inspection, an export or the
\* cancelling of a review (main.lua, the controls of draw_transfer).
THEOREM OnlyTheTransferReplaces == Spec => ReplacedOnlyByTransferControls
<1>1. ASSUME IInv, [Next]_vars
      PROVE  forgotten' # forgotten /\ op' # op => op'.kind \in {"inspect", "export", "cancel"}
  <2>1. CASE Transfer
    <3>1. CASE Waiting
      BY <2>1, <3>1 DEF Transfer, engine
    <3>2. CASE ~Waiting
      BY <1>1, <2>1, <3>2, TransferAdvances DEF Advances
    <3> QED
      BY <3>1, <3>2
  <2>2. CASE UseControl
    BY <1>1, <2>2, ControlFacts DEF UseControl, Controls
  <2>3. CASE Operation \/ Unconfirmed \/ Confirmed \/ Startup \/ NoControl \/ JobEnds
             \/ ForgottenJobEnds \/ GameExecutes \/ Chat \/ UNCHANGED vars
    BY <2>3 DEF Operation, Unconfirmed, Confirmed, Startup, NoControl, JobEnds, ForgottenJobEnds,
                GameExecutes, Chat, vars, engine
  <2> QED
    BY <1>1, <2>1, <2>2, <2>3 DEF Next, Frame
<1> QED
  BY <1>1, Invariance, PTL DEF Spec, ReplacedOnlyByTransferControls
=============================================================================
