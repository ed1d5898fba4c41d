-------------------------- MODULE RepositoryCache --------------------------
(***************************************************************************)
(* The signed repository cache of the engine (native/src/engine.cpp):      *)
(* operations fetchRepository (with requireSignature) and                  *)
(* loadRepositoryCache of one repository, over the directory               *)
(*                                                                         *)
(*    repositories/<id>/current                    the pointer             *)
(*    repositories/<id>/generations/<sha256>/      index.json and its .sig *)
(*    repositories/<id>/index.part, index.sig.part what is downloaded      *)
(*                                                                         *)
(* repository_mutex admits one of these jobs at a time.  The process may   *)
(* die between two file-system calls.  An index document stands for its    *)
(* own SHA-256, and a signature for the index it signs.                    *)
(***************************************************************************)
EXTENDS Naturals, FiniteSets

CONSTANTS
  Indexes,   (* index documents a server can deliver                  *)
  Signed,    (* those the catalog key has signed                      *)
  NoFile,    (* a file that is missing, or holds no valid digest      *)
  NoGen,     (* a generation directory that does not exist            *)
  MaxFaults  (* bound: file-system calls that fail                    *)

Generations == [index : Indexes \cup {NoFile}, sig : Signed \cup {NoFile}]

ASSUME ConstantsAssumption ==
  /\ Signed \subseteq Indexes /\ NoFile \notin Indexes
  /\ NoGen \notin Generations /\ MaxFaults \in Nat

VARIABLES
  gens,     \* generations/<digest>
  pointer,  \* the digest in the file current
  part,     \* index.part
  sigPart,  \* index.sig.part
  pc,       \* next step of the job that holds repository_mutex
  previous, \* fetch: the pointer before the activation
  todo,     \* fetch: generations to prune; load: candidates not tried yet
  result,   \* the answer of the last job
  faults

disk == <<gens, pointer, part, sigPart>>
vars == <<disk, pc, previous, todo, result, faults>>

Steps == {"idle", "download", "signature", "verify", "clear", "index", "sig", "point",
          "prune", "load"}
Answers == [status : {"none", "failed", "missing"}] \cup
           [status : {"ok"}, digest : Indexes]

\* sha256_file(index) = candidate /\ verify_catalog_signature(index, signature)
Valid(d) == gens[d] # NoGen /\ gens[d].index = d /\ gens[d].sig = d
HasValid == \E d \in Indexes : Valid(d)

Init ==
  /\ gens = [d \in Indexes |-> NoGen] /\ pointer = NoFile
  /\ part = NoFile /\ sigPart = NoFile
  /\ pc = "idle" /\ previous = NoFile /\ todo = {} /\ result = [status |-> "none"]
  /\ faults = 0

Works == UNCHANGED faults
Fails == faults < MaxFaults /\ faults' = faults + 1

Goto(from, to) == pc = from /\ pc' = to /\ UNCHANGED result

\* current->finish, and repository_mutex is released.
Answer(from, answer) ==
  /\ pc = from /\ pc' = "idle" /\ result' = answer
  /\ previous' = NoFile /\ todo' = {}

\* A failing fetch removes what it downloaded.
Abandon(from) ==
  /\ Answer(from, [status |-> "failed"])
  /\ part' = NoFile /\ sigPart' = NoFile
-----------------------------------------------------------------------------
(* fetchRepository                                                          *)

StartFetch ==
  /\ Goto("idle", "download")
  /\ UNCHANGED <<disk, previous, todo, faults>>

\* The failure of this download removes index.part only.
DownloadIndex ==
  /\ UNCHANGED <<gens, pointer, sigPart, faults>>
  /\ \/ Goto("download", "signature") /\ part' \in Indexes /\ UNCHANGED <<previous, todo>>
     \/ Answer("download", [status |-> "failed"]) /\ part' = NoFile

\* The two downloads are separate requests: the server may have published
\* another index in between, and a response may be anything.
DownloadSignature ==
  /\ UNCHANGED <<gens, pointer, faults>>
  /\ \/ /\ Goto("signature", "verify") /\ sigPart' \in Signed \cup {NoFile}
        /\ UNCHANGED <<part, previous, todo>>
     \/ Abandon("signature")

\* Mutant: the downloaded signature is not compared with the index.
SkipSignature ==
  /\ Goto("verify", "clear")
  /\ UNCHANGED <<disk, previous, todo, faults>>

\* verify_catalog_signature(partial, signature_partial), which reads both files.
VerifySignature ==
  /\ UNCHANGED <<gens, pointer>>
  /\ \/ /\ sigPart = part /\ Goto("verify", "clear") /\ Works
        /\ UNCHANGED <<part, sigPart, previous, todo>>
     \/ (IF sigPart = part THEN Fails ELSE Works) /\ Abandon("verify")

\* activate_signed_repository: read the pointer, make an empty directory for the
\* digest.  A generation of that digest is removed first, and the error of that is
\* cleared; no activation comes about if a directory cannot be made.
ClearGeneration ==
  /\ UNCHANGED pointer
  /\ \/ /\ Goto("clear", "index") /\ previous' = pointer
        /\ \/ Works /\ gens' = [gens EXCEPT ![part] = [index |-> NoFile, sig |-> NoFile]]
           \/ gens[part] # NoGen /\ Fails /\ UNCHANGED gens
        /\ UNCHANGED <<part, sigPart, todo>>
     \/ /\ Fails /\ Abandon("clear")
        /\ gens' \in {gens, [gens EXCEPT ![part] = NoGen]}

\* Mutant: the pointer is switched before the signature has been moved.
PointBeforeSignature ==
  /\ Goto("index", "sig")
  /\ gens' = [gens EXCEPT ![part].index = part] /\ pointer' = part
  /\ UNCHANGED <<part, sigPart, previous, todo, faults>>

\* fs::rename(index_partial, generation/index.json); part keeps the digest for
\* the steps that follow, its file is in the generation now.
MoveIndex ==
  /\ UNCHANGED pointer
  /\ \/ /\ Goto("index", "sig") /\ Works
        /\ gens' = [gens EXCEPT ![part].index = part]
        /\ UNCHANGED <<part, sigPart, previous, todo>>
     \/ Fails /\ Abandon("index") /\ gens' = [gens EXCEPT ![part] = NoGen]

MoveSignature ==
  /\ UNCHANGED pointer
  /\ \/ /\ Goto("sig", "point") /\ Works
        /\ gens' = [gens EXCEPT ![part].sig = sigPart] /\ sigPart' = NoFile
        /\ UNCHANGED <<part, previous, todo>>
     \/ Fails /\ Abandon("sig") /\ gens' = [gens EXCEPT ![part] = NoGen]

\* Mutant: the generation just activated is not spared.
PrunedAll(digest, before) == {d \in Indexes \ {before} : gens[d] # NoGen}

\* The generations the directory iterator removes after an activation.
Pruned(digest, before) == {d \in Indexes \ {digest, before} : gens[d] # NoGen}

\* activate_pointer: write current.part, then replace current atomically.
SwitchPointer ==
  /\ UNCHANGED gens
  /\ \/ /\ Goto("point", "prune") /\ Works
        /\ pointer' = part /\ todo' = Pruned(part, previous)
        /\ UNCHANGED <<part, sigPart, previous>>
     \/ Fails /\ Abandon("point") /\ UNCHANGED pointer

\* Mutant: the iterator does not move on.
PruneForever ==
  /\ pc = "prune"
  /\ \E d \in todo : gens' = [gens EXCEPT ![d] = NoGen]
  /\ UNCHANGED <<pointer, part, sigPart, pc, previous, todo, result, faults>>

\* A removal that fails is ignored.
Prune ==
  /\ pc = "prune"
  /\ \E d \in todo :
       /\ todo' = todo \ {d}
       /\ \/ Works /\ gens' = [gens EXCEPT ![d] = NoGen]
          \/ Fails /\ UNCHANGED gens
  /\ UNCHANGED <<pointer, part, sigPart, pc, previous, result>>

FinishFetch ==
  /\ todo = {}
  /\ Answer("prune", [status |-> "ok", digest |-> part])
  /\ part' = NoFile
  /\ UNCHANGED <<gens, pointer, sigPart, faults>>
-----------------------------------------------------------------------------
(* loadRepositoryCache                                                      *)

\* Mutant: only the generation the pointer names is a candidate.
CurrentOnly == {pointer} \ {NoFile}

\* The digest in current comes first, whether or not its directory exists.
Candidates == ({pointer} \ {NoFile}) \cup {d \in Indexes : gens[d] # NoGen}

StartLoad ==
  /\ Goto("idle", "load")
  /\ todo' = Candidates
  /\ UNCHANGED <<disk, previous, faults>>

Front(d) == d \in todo /\ (pointer \in todo => d = pointer)

\* The first candidate that verifies is the answer; the pointer is repaired.
LoadCandidate(d) ==
  /\ pc = "load" /\ Front(d) /\ Valid(d)
  /\ UNCHANGED <<gens, part, sigPart>>
  /\ \/ /\ Answer("load", [status |-> "ok", digest |-> d])
        /\ Works /\ pointer' = d
     \/ /\ d # pointer /\ Fails /\ UNCHANGED pointer
        /\ Answer("load", [status |-> "missing"])

\* A candidate that does not verify is removed, or stays if that fails.  A file that
\* cannot be read at the moment verifies no better than a damaged one.
DropCandidate(d) ==
  /\ pc = "load" /\ Front(d) /\ todo' = todo \ {d}
  /\ \/ (IF Valid(d) THEN Fails ELSE Works) /\ gens' = [gens EXCEPT ![d] = NoGen]
     \/ ~Valid(d) /\ Fails /\ UNCHANGED gens
  /\ UNCHANGED <<pointer, part, sigPart, pc, previous, result>>

NothingToLoad ==
  /\ todo = {}
  /\ Answer("load", [status |-> "missing"])
  /\ UNCHANGED <<disk, faults>>
-----------------------------------------------------------------------------
\* What a removal cut short by a crash leaves of a generation.
Remains(g) ==
  IF g = NoGen THEN {NoGen}
  ELSE {g, NoGen} \cup [index : {g.index, NoFile}, sig : {g.sig, NoFile}]

\* The process ends, in the middle of a job or not; the partial files stay.
Crash ==
  /\ pc' = "idle" /\ previous' = NoFile /\ todo' = {} /\ result' = [status |-> "none"]
  /\ \/ UNCHANGED gens
     \/ pc = "clear" /\ \E g \in Remains(gens[part]) : gens' = [gens EXCEPT ![part] = g]
     \/ /\ pc \in {"prune", "load"}
        /\ \E d \in {x \in todo : pc = "prune" \/ (Front(x) /\ ~Valid(x))} :
             \E g \in Remains(gens[d]) : gens' = [gens EXCEPT ![d] = g]
  /\ part' = (IF pc \in {"sig", "point", "prune"} THEN NoFile ELSE part)
  /\ UNCHANGED <<pointer, sigPart, faults>>

FetchStep ==
  \/ DownloadIndex \/ DownloadSignature \/ VerifySignature \/ ClearGeneration
  \/ MoveIndex \/ MoveSignature \/ SwitchPointer \/ Prune \/ FinishFetch

LoadStep ==
  \/ \E d \in Indexes : LoadCandidate(d) \/ DropCandidate(d)
  \/ NothingToLoad

Next == StartFetch \/ FetchStep \/ StartLoad \/ LoadStep \/ Crash

\* A worker thread that holds the mutex keeps running, and a download ends:
\* WinHttpSetTimeouts bounds every wait for the network.
Spec == Init /\ [][Next]_vars /\ WF_vars(FetchStep) /\ WF_vars(LoadStep)
-----------------------------------------------------------------------------
(* Properties                                                               *)

\* Every variable stays in its type; the one type invariant of this module.
TypeOK ==
  /\ gens \in [Indexes -> Generations \cup {NoGen}]
  /\ pointer \in Indexes \cup {NoFile}
  /\ part \in Indexes \cup {NoFile} /\ sigPart \in Signed \cup {NoFile}
  /\ pc \in Steps /\ previous \in Indexes \cup {NoFile}
  /\ todo \subseteq Indexes /\ result \in Answers /\ faults \in Nat

\* The pointer moves only to a generation that is complete on the disk and
\* verifies, so no crash leaves it naming one that was being assembled.
PointerMovesToVerified == [][pointer' # pointer => Valid(pointer')]_vars

\* The last verified generation goes only when the same index is fetched again (its
\* directory is removed before it is filled or, if that and a later call fail, when
\* the fetch is abandoned), or when a load cannot read it.
LastGenerationSurvives ==
  [][HasValid /\ ~HasValid' =>
       \/ pc = "clear" /\ Valid(part)
       \/ pc \in {"index", "sig"} /\ Valid(part) /\ faults' >= 2
       \/ pc = "load" /\ faults' = faults + 1]_vars

\* A load that answers "missing" without a failing call found no verified
\* generation: neither a stale pointer nor damaged directories hide a good one.
LoadFindsSurvivor ==
  [][pc = "load" /\ pc' = "idle" /\ result'.status = "missing" /\ faults' = faults =>
       ~HasValid]_vars

\* The path a finished job reports names a verified index, and it is the current
\* one: what the client reads next is what was verified.
ReportedIsCurrent == result.status = "ok" /\ pc = "idle" =>
                       Valid(result.digest) /\ pointer = result.digest

\* Every fetch and every load ends.
JobsEnd == pc # "idle" ~> pc = "idle"
=============================================================================
