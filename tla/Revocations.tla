----------------------------- MODULE Revocations -----------------------------
(***************************************************************************)
(* Revocations, from the catalog that lists them to the add-ons the client *)
(* loads when it starts.  A catalog offers one artifact (a digest) of every *)
(* add-on; the built-in one also lists revoked digests.  The client keeps  *)
(* what it believes it installed (state.installed, saved in state.json),   *)
(* adopts what it finds on the disk without a record, and skips at start-up *)
(* what its records say is revoked.                                        *)
(*                                                                         *)
(* Transactions and RepositoryCache say how the disk and the cached catalog *)
(* change; here a job changes them in one step, or not at all.             *)
(***************************************************************************)
EXTENDS FiniteSets, Naturals

CONSTANTS
  Addons, Digests,
  Repositories, Builtin,   (* catalogs, and the built-in one among them   *)
  None,                    (* nothing: no digest, no catalog, no job      *)
  MaxPublish,              (* bound: changes of the built-in catalog      *)
  MaxSessions              (* bound: sessions that end                    *)

ASSUME ConstantsAssumption ==
  /\ Builtin \in Repositories /\ None \notin Digests \cup Addons
  /\ MaxPublish \in Nat /\ MaxSessions \in Nat

VARIABLES
  server,     \* what each repository serves
  cache,      \* the built-in catalog the engine has cached
  catalog,    \* repository.packages and .revocations, in memory
  disk,       \* the artifact in an add-on's directory
  aside,      \* the add-ons an interrupted update has moved aside
  record,     \* state.installed[id].sha256, saved whenever it changes
  op,         \* state.operation and its context
  startup,    \* [ready, started, queue] of state.startup
  waiting,    \* state.addon_action: the add-on whose load the client waits for
  on,         \* the client runs
  published, sessions,
  adopted,    \* history: add-ons whose record comes from an adoption
  unrecorded, \* history: add-ons a job changed without its end being recorded
  queued      \* history: the revocations known when the queue was built

catalogs == <<server, cache, catalog, published>>
addons == <<disk, aside>>
history == <<adopted, unrecorded>>
start == <<startup, waiting, queued>>
vars == <<catalogs, addons, record, op, start, on, sessions, history>>

Digest == Digests \cup {None}
Catalog == [offers : [Addons -> Digest], revoked : SUBSET Digests]
Jobs == [kind : {"cache", "refresh"}, repository : Repositories]
  \cup [kind : {"install"}, addon : Addons, digest : Digests]
  \cup [kind : {"uninstall"}, addon : Addons]

ASSUME NoJobAssumption == None \notin Jobs

NotStarted == [ready |-> FALSE, started |-> FALSE, queue |-> {}]
\* An add-on whose .vanahub-owned file exists.
Present(a) == disk[a] # None /\ a \notin aside

Init ==
  /\ server \in [Repositories -> {c \in Catalog : c.revoked = {}}]
  /\ cache = None /\ catalog = [r \in Repositories |-> None]
  /\ disk = [a \in Addons |-> None] /\ aside = {}
  /\ record = disk
  /\ op = None /\ startup = NotStarted /\ waiting = None
  /\ on = FALSE /\ published = 0 /\ sessions = 0
  /\ adopted = {} /\ unrecorded = {} /\ queued = {}
-----------------------------------------------------------------------------
\* The built-in catalog gets an update of an add-on, or a revocation.
Publish ==
  /\ published < MaxPublish /\ published' = published + 1
  /\ \/ \E a \in Addons, d \in Digests \ server[Builtin].revoked :
          server' = [server EXCEPT ![Builtin].offers[a] = d]
     \/ \E d \in Digests \ server[Builtin].revoked :
          server' = [server EXCEPT ![Builtin].revoked = @ \cup {d}]
  /\ UNCHANGED <<cache, catalog, addons, record, op, start, on, sessions, history>>

\* load_state drops the records of what has no marker, and saves; then the engine
\* is created and recovers; then the cached catalog is asked for.
Start ==
  /\ ~on /\ on' = TRUE
  /\ record' = [a \in Addons |-> IF Present(a) THEN record[a] ELSE None]
  /\ aside' = {}
  /\ adopted' = {a \in adopted : Present(a)} /\ unrecorded' = {a \in unrecorded : Present(a)}
  /\ op' = [kind |-> "cache", repository |-> Builtin]
  /\ UNCHANGED <<catalogs, disk, start, sessions>>
-----------------------------------------------------------------------------
(* The catalogs of the client.                                              *)

\* The revocations rebuild_packages collects: those of the built-in repository, to
\* be compared with the packages of every repository.
Revoked == IF catalog[Builtin] = None THEN {} ELSE catalog[Builtin].revoked

\* Mutant: what is on the disk is adopted whether or not it has a record.
AdoptedAnew(cats) ==
  LET Listing(a) == {r \in Repositories : cats[r] # None /\ cats[r].offers[a] # None}
      Choice(a) == IF ~Present(a) \/ Listing(a) = {} THEN {record[a]}
                   ELSE {cats[r].offers[a] : r \in Listing(a)}
  IN {f \in [Addons -> Digest] : \A a \in Addons : f[a] \in Choice(a)}

\* rebuild_packages records what it finds on the disk without a record as the
\* artifact the first repository that lists it has now: the built-in one comes first.
Adopted(cats) ==
  LET Listing(a) == {r \in Repositories : cats[r] # None /\ cats[r].offers[a] # None}
      First(a) == IF Builtin \in Listing(a) THEN {Builtin} ELSE Listing(a)
      Choice(a) == IF record[a] # None \/ ~Present(a) \/ Listing(a) = {} THEN {record[a]}
                   ELSE {cats[r].offers[a] : r \in First(a)}
  IN {f \in [Addons -> Digest] : \A a \in Addons : f[a] \in Choice(a)}

\* load_repository: the document replaces the one before, and the result is saved.
LoadRepository(r, document) ==
  /\ catalog' = [catalog EXCEPT ![r] = document]
  /\ record' \in Adopted(catalog')
  /\ adopted' = adopted \cup {a \in Addons : record[a] = None /\ record'[a] # None}
  /\ unrecorded' = {a \in unrecorded : record'[a] = record[a]}

Keep == UNCHANGED <<catalog, record, history>>

\* The check of the cache ends, well or not; a refresh follows, in the same frame.
CacheChecked ==
  /\ op # None /\ op.kind = "cache"
  /\ op' = [kind |-> "refresh", repository |-> Builtin]
  /\ startup' = [startup EXCEPT !.ready = TRUE]
  /\ (cache # None /\ LoadRepository(Builtin, cache)) \/ Keep
  /\ UNCHANGED <<server, cache, published, addons, waiting, queued, on, sessions>>

\* A refresh that ends well has cached what it fetched, if it is the signed catalog.
\* tick_startup has run since the check of the cache: it does so in the same frame.
Refreshes ==
  /\ op # None /\ op.kind = "refresh" /\ op' = None /\ startup.started
  /\ \/ /\ LoadRepository(op.repository, server[op.repository])
        /\ cache' = IF op.repository = Builtin THEN server[Builtin] ELSE cache
     \/ Keep /\ UNCHANGED cache
  /\ UNCHANGED <<server, published, addons, start, on, sessions>>

StartJob(job) ==
  /\ on /\ op = None /\ op' = job
  /\ UNCHANGED <<catalogs, addons, record, start, on, sessions, history>>

Refresh(r) == StartJob([kind |-> "refresh", repository |-> r])
-----------------------------------------------------------------------------
(* Installing and uninstalling.                                             *)

Busy == waiting # None \/ startup.queue # {}

\* Install and Update of the details of a package, and package_for_import for an
\* import: a package that is revoked is disabled, or skipped.
Install(a, r) ==
  /\ catalog[r] # None /\ catalog[r].offers[a] \notin Revoked \cup {None}
  /\ \/ ~Busy /\ record[a] # catalog[r].offers[a]
     \/ waiting = None /\ record[a] = None
  /\ StartJob([kind |-> "install", addon |-> a, digest |-> catalog[r].offers[a]])

Uninstall(a) ==
  /\ ~Busy /\ record[a] # None
  /\ StartJob([kind |-> "uninstall", addon |-> a])

Mutates == op # None /\ op.kind \in {"install", "uninstall"}
Result == IF op.kind = "install" THEN op.digest ELSE None

\* The job ends, and complete_operation records and saves what it did.
Completes ==
  /\ Mutates /\ op' = None
  /\ \/ /\ disk' = [disk EXCEPT ![op.addon] = Result]
        /\ record' = [record EXCEPT ![op.addon] = Result]
        /\ adopted' = adopted \ {op.addon} /\ unrecorded' = unrecorded \ {op.addon}
     \/ UNCHANGED <<disk, record, history>>
  /\ UNCHANGED <<catalogs, aside, start, on, sessions>>

\* Another operation takes the place of this one, which ends all the same.
Forgotten ==
  /\ Mutates /\ op' = None
  /\ \/ /\ disk' = [disk EXCEPT ![op.addon] = Result]
        /\ unrecorded' = unrecorded \cup {op.addon}
     \/ UNCHANGED <<disk, unrecorded>>
  /\ UNCHANGED <<catalogs, aside, record, start, on, sessions, adopted>>
-----------------------------------------------------------------------------
(* The start-up.                                                            *)

\* Mutant: an add-on is skipped if the catalog's current artifact of it is revoked.
QueueByOffer(choice) ==
  {a \in choice : record[a] # None /\ Present(a)
     /\ ~(catalog[Builtin] # None /\ catalog[Builtin].offers[a] \in Revoked)}

\* begin_startup: the add-ons to auto-load that are installed, have their marker,
\* and whose recorded artifact is not revoked.
Queue(choice) ==
  {a \in choice : record[a] # None /\ Present(a) /\ record[a] \notin Revoked}

\* tick_startup: the queue is built once; then one add-on after the other is loaded,
\* or found to be loaded.
BeginStartup ==
  /\ startup.ready /\ ~startup.started /\ \E choice \in SUBSET Addons :
       startup' = [startup EXCEPT !.started = TRUE, !.queue = Queue(choice)]
  /\ queued' = Revoked
  /\ UNCHANGED <<catalogs, addons, record, op, waiting, on, sessions, history>>

LoadNext ==
  /\ startup.started /\ waiting = None
  /\ \E a \in startup.queue :
       waiting' \in {a, None} /\ startup' = [startup EXCEPT !.queue = @ \ {a}]
  /\ UNCHANGED <<catalogs, addons, record, op, queued, on, sessions, history>>

\* tick_addon_action: the load is confirmed, or given up.
Loaded ==
  /\ waiting # None /\ waiting' = None
  /\ UNCHANGED <<catalogs, addons, record, op, startup, queued, on, sessions, history>>
-----------------------------------------------------------------------------
\* The session ends.  A job that was running has changed the disk already, or not;
\* an update may have got no further than moving the add-on aside.
End ==
  /\ on /\ on' = FALSE /\ sessions < MaxSessions /\ sessions' = sessions + 1
  /\ catalog' = [r \in Repositories |-> None] /\ op' = None
  /\ startup' = NotStarted /\ waiting' = None /\ queued' = {}
  /\ \/ UNCHANGED <<disk, aside, unrecorded>>
     \/ /\ Mutates /\ disk' = [disk EXCEPT ![op.addon] = Result]
        /\ unrecorded' = unrecorded \cup {op.addon} /\ UNCHANGED aside
     \/ /\ Mutates /\ op.kind = "install" /\ disk[op.addon] # None
        /\ aside' = aside \cup {op.addon} /\ UNCHANGED <<disk, unrecorded>>
  /\ UNCHANGED <<server, cache, published, record, adopted>>

Next ==
  \/ Publish \/ Start \/ CacheChecked \/ Refreshes \/ Completes \/ Forgotten
  \/ BeginStartup \/ LoadNext \/ Loaded \/ End
  \/ \E r \in Repositories : Refresh(r) \/ \E a \in Addons : Install(a, r)
  \/ \E a \in Addons : Uninstall(a)

Spec == Init /\ [][Next]_vars
-----------------------------------------------------------------------------
(* Properties                                                               *)

\* Every variable stays in its type; the one type invariant of this module.
TypeOK ==
  /\ server \in [Repositories -> Catalog] /\ cache \in Catalog \cup {None}
  /\ catalog \in [Repositories -> Catalog \cup {None}]
  /\ disk \in [Addons -> Digest] /\ record \in [Addons -> Digest]
  /\ op \in Jobs \cup {None} /\ waiting \in Addons \cup {None} /\ on \in BOOLEAN
  /\ startup \in [ready : BOOLEAN, started : BOOLEAN, queue : SUBSET Addons]
  /\ UNION {aside, adopted, unrecorded} \subseteq Addons /\ queued \subseteq Digests
  /\ published \in 0..MaxPublish /\ sessions \in 0..MaxSessions

\* The digest recorded for an add-on is that of the artifact in its directory, over
\* updates, crashes, recoveries and refreshes; the exceptions are an add-on that was
\* adopted, which is recorded as what the catalog had then (main.lua:127), and one
\* whose job ended without the client recording it.
RecordTellsTheDisk ==
  \A a \in Addons :
    record[a] # None /\ Present(a) => record[a] = disk[a] \/ a \in adopted \cup unrecorded

\* The start-up loads an add-on whose artifact is revoked only if its record is one of
\* these exceptions, or the revocation was not known in memory when the queue was built
\* (main.lua:520): it came later, or the check of the cache that holds it had failed.
LoadsRevokedOnlyUnrecognised ==
  [][\A a \in Addons : waiting' = a /\ waiting # a =>
       disk[a] \notin queued \/ a \in adopted \cup unrecorded]_vars
=============================================================================
