------------------------- MODULE RepositoryCacheProofs -------------------------
(***************************************************************************)
(* Theorems of RepositoryCache, for any indexes and any number of crashes  *)
(* and failing file-system calls.                                          *)
(***************************************************************************)
EXTENDS RepositoryCache, TLAPS

Fetching == {"signature", "verify", "clear", "index", "sig", "point", "prune"}

\* What a fetch has established at each of its steps.
FetchInv ==
  /\ pc \in Fetching => part \in Indexes
  /\ pc \in {"clear", "index", "sig"} => sigPart = part
  /\ pc \in {"index", "sig"} => gens[part] # NoGen
  /\ pc = "sig" => gens[part].index = part
  /\ pc \in {"point", "prune"} => Valid(part)
  /\ pc = "prune" => pointer = part /\ part \notin todo

\* A load has not passed over a verified generation.
LoadingInv == pc = "load" => \A d \in Indexes : Valid(d) => d \in todo

IInv == TypeOK /\ FetchInv /\ LoadingInv /\ ReportedIsCurrent
-----------------------------------------------------------------------------
\* What a crash leaves of a generation is a generation or none.
LEMMA RemainsType ==
  ASSUME NEW g \in Generations \cup {NoGen}, NEW r \in Remains(g)
  PROVE  r \in Generations \cup {NoGen}
BY DEF Remains, Generations

\* An empty cache satisfies the invariant.
LEMMA InitInv == Init => IInv
<1> SUFFICES ASSUME Init PROVE IInv
  OBVIOUS
<1>1. result \in Answers /\ result.status # "ok"
  BY DEF Init, Answers
<1>2. TypeOK
  BY <1>1, ConstantsAssumption DEF Init, TypeOK, Steps
<1>3. FetchInv /\ LoadingInv /\ ReportedIsCurrent
  BY <1>1 DEF Init, FetchInv, LoadingInv, Fetching, ReportedIsCurrent
<1> QED
  BY <1>2, <1>3 DEF IInv

\* A job that fails, or finds nothing, reports no index and keeps no step to
\* remember.
LEMMA AnswerInv ==
  ASSUME TypeOK, NEW from, NEW status \in {"failed", "missing"},
         Answer(from, [status |-> status]),
         gens' \in [Indexes -> Generations \cup {NoGen}],
         pointer' \in Indexes \cup {NoFile}, part' \in Indexes \cup {NoFile},
         sigPart' \in Signed \cup {NoFile}, faults' \in Nat
  PROVE  IInv'
<1>1. result' = [status |-> status] /\ result'.status # "ok" /\ pc' = "idle"
  BY DEF Answer
<1>2. TypeOK'
  <2>1. result' \in Answers
    BY <1>1 DEF Answers
  <2>2. previous' \in Indexes \cup {NoFile} /\ todo' \subseteq Indexes
    BY DEF Answer, TypeOK
  <2> QED
    BY <1>1, <2>1, <2>2 DEF TypeOK, Steps
<1>3. FetchInv' /\ LoadingInv' /\ ReportedIsCurrent'
  BY <1>1 DEF FetchInv, LoadingInv, Fetching, ReportedIsCurrent
<1> QED
  BY <1>2, <1>3 DEF IInv

\* An abandoned fetch, whatever it leaves in the generations.
LEMMA AbandonInv ==
  ASSUME TypeOK, NEW from, Abandon(from), UNCHANGED pointer, Works \/ Fails,
         gens' \in [Indexes -> Generations \cup {NoGen}]
  PROVE  IInv'
<1>1. faults' \in Nat /\ part' = NoFile /\ sigPart' = NoFile
      /\ Answer(from, [status |-> "failed"])
  BY DEF TypeOK, Works, Fails, Abandon
<1>2. pointer' \in Indexes \cup {NoFile}
  BY DEF TypeOK
<1> QED
  BY <1>1, <1>2, AnswerInv

\* The steps of a fetch up to the verified signature.
LEMMA DownloadInv ==
  ASSUME IInv, StartFetch \/ DownloadIndex \/ DownloadSignature \/ VerifySignature
  PROVE  IInv'
<1> USE DEF IInv
<1>1. CASE StartFetch
  BY <1>1 DEF StartFetch, Goto, disk, TypeOK, FetchInv, LoadingInv, ReportedIsCurrent,
       Valid, Fetching, Steps
<1>2. CASE DownloadIndex
  <2>1. CASE Goto("download", "signature")
    BY <1>2, <2>1 DEF DownloadIndex, Goto, Answer, TypeOK, FetchInv, LoadingInv,
         ReportedIsCurrent,
         Fetching, Steps
  <2>2. CASE Answer("download", [status |-> "failed"]) /\ part' = NoFile
    BY <1>2, <2>2, AnswerInv DEF DownloadIndex, TypeOK
  <2> QED
    BY <1>2, <2>1, <2>2 DEF DownloadIndex
<1>3. CASE DownloadSignature
  <2>1. CASE Goto("signature", "verify") /\ sigPart' \in Signed \cup {NoFile}
               /\ UNCHANGED <<part, previous, todo>>
    BY <1>3, <2>1 DEF DownloadSignature, Goto, TypeOK, FetchInv, LoadingInv, ReportedIsCurrent,
         Fetching, Steps
  <2>2. CASE Abandon("signature")
    BY <1>3, <2>2, AbandonInv DEF DownloadSignature, Works, TypeOK
  <2> QED
    BY <1>3, <2>1, <2>2 DEF DownloadSignature
<1>4. CASE VerifySignature
  <2>1. CASE sigPart = part /\ Goto("verify", "clear") /\ Works
               /\ UNCHANGED <<part, sigPart, previous, todo>>
    BY <1>4, <2>1 DEF VerifySignature, Goto, Works, TypeOK, FetchInv, LoadingInv,
         ReportedIsCurrent,
         Fetching, Steps
  <2>2. CASE (IF sigPart = part THEN Fails ELSE Works) /\ Abandon("verify")
    BY <1>4, <2>2, AbandonInv DEF VerifySignature, TypeOK
  <2> QED
    BY <1>4, <2>1, <2>2 DEF VerifySignature
<1> QED
  BY <1>1, <1>2, <1>3, <1>4

\* The new generation is made, and filled before the pointer names it.
LEMMA ActivateInv ==
  ASSUME IInv, ClearGeneration \/ MoveIndex \/ MoveSignature \/ SwitchPointer
  PROVE  IInv'
<1> DEFINE empty == [index |-> NoFile, sig |-> NoFile]
<1>1. gens \in [Indexes -> Generations \cup {NoGen}] /\ part \in Indexes
  BY DEF IInv, TypeOK, FetchInv, Fetching, ClearGeneration, MoveIndex, MoveSignature,
         SwitchPointer, Goto, Abandon, Answer
<1>2. CASE ClearGeneration
  <2>1. CASE /\ Goto("clear", "index") /\ previous' = pointer
             /\ gens' = [gens EXCEPT ![part] = empty] /\ Works
             /\ UNCHANGED <<part, sigPart, todo>>
    <3>1. empty \in Generations /\ empty # NoGen
      BY ConstantsAssumption DEF Generations
    <3>2. gens' \in [Indexes -> Generations \cup {NoGen}] /\ gens'[part] = empty
      BY <1>1, <2>1, <3>1
    <3> QED
      BY <1>1, <1>2, <2>1, <3>1, <3>2 DEF ClearGeneration, Goto, Works, IInv, TypeOK,
           FetchInv, LoadingInv,
           ReportedIsCurrent, Fetching, Steps
  <2>2. CASE /\ Goto("clear", "index") /\ previous' = pointer
             /\ gens[part] # NoGen /\ Fails /\ UNCHANGED gens
             /\ UNCHANGED <<part, sigPart, todo>>
    BY <1>1, <1>2, <2>2 DEF ClearGeneration, Goto, Fails, IInv, TypeOK, FetchInv, LoadingInv,
         ReportedIsCurrent, Fetching, Steps
  <2>3. CASE /\ Fails /\ Abandon("clear")
             /\ gens' \in {gens, [gens EXCEPT ![part] = NoGen]}
    BY <1>1, <1>2, <2>3, AbandonInv DEF ClearGeneration, IInv
  <2> QED
    BY <1>2, <2>1, <2>2, <2>3 DEF ClearGeneration
<1>3. CASE MoveIndex
  <2>1. CASE /\ Goto("index", "sig") /\ Works /\ gens' = [gens EXCEPT ![part].index = part]
             /\ UNCHANGED <<part, sigPart, previous, todo>>
    <3>1. gens[part] \in Generations
      BY <1>1, <2>1 DEF IInv, FetchInv, Goto
    <3> DEFINE filled == [gens[part] EXCEPT !.index = part]
    <3>2. filled \in Generations /\ filled # NoGen /\ filled.index = part
      BY <1>1, <3>1, ConstantsAssumption DEF Generations
    <3>3. gens' = [gens EXCEPT ![part] = filled]
      BY <2>1
    <3>4. gens' \in [Indexes -> Generations \cup {NoGen}] /\ gens'[part] = filled
      BY <1>1, <3>2, <3>3
    <3> QED
      BY <1>1, <1>3, <2>1, <3>2, <3>4 DEF MoveIndex, Goto, Works, IInv, TypeOK, FetchInv,
           LoadingInv,
           ReportedIsCurrent, Fetching, Steps
  <2>2. CASE Fails /\ Abandon("index") /\ gens' = [gens EXCEPT ![part] = NoGen]
    BY <1>1, <1>3, <2>2, AbandonInv DEF MoveIndex, IInv
  <2> QED
    BY <1>3, <2>1, <2>2 DEF MoveIndex
<1>4. CASE MoveSignature
  <2>1. CASE /\ Goto("sig", "point") /\ Works /\ gens' = [gens EXCEPT ![part].sig = sigPart]
             /\ sigPart' = NoFile /\ UNCHANGED <<part, previous, todo>>
    <3>1. /\ gens[part] \in Generations /\ gens[part].index = part
          /\ sigPart = part /\ sigPart \in Signed
      BY <1>1, <2>1, ConstantsAssumption DEF IInv, TypeOK, FetchInv, Goto
    <3> DEFINE filled == [gens[part] EXCEPT !.sig = sigPart]
    <3>2. filled \in Generations /\ filled # NoGen /\ filled.index = part /\ filled.sig = part
      BY <3>1, ConstantsAssumption DEF Generations
    <3>3. gens' = [gens EXCEPT ![part] = filled]
      BY <2>1
    <3>4. gens' \in [Indexes -> Generations \cup {NoGen}] /\ gens'[part] = filled
      BY <1>1, <3>2, <3>3
    <3> QED
      BY <1>1, <1>4, <2>1, <3>2, <3>4 DEF MoveSignature, Goto, Works, IInv, TypeOK,
           FetchInv, LoadingInv,
           ReportedIsCurrent, Fetching, Steps, Valid
  <2>2. CASE Fails /\ Abandon("sig") /\ gens' = [gens EXCEPT ![part] = NoGen]
    BY <1>1, <1>4, <2>2, AbandonInv DEF MoveSignature, IInv
  <2> QED
    BY <1>4, <2>1, <2>2 DEF MoveSignature
<1>5. CASE SwitchPointer
  <2>1. CASE /\ Goto("point", "prune") /\ Works /\ pointer' = part
             /\ todo' = Pruned(part, previous) /\ UNCHANGED <<part, sigPart, previous>>
    BY <1>1, <1>5, <2>1 DEF SwitchPointer, Goto, Works, IInv, TypeOK, FetchInv, LoadingInv,
         Pruned,
         ReportedIsCurrent, Fetching, Steps, Valid
  <2>2. CASE Fails /\ Abandon("point") /\ UNCHANGED pointer
    BY <1>1, <1>5, <2>2, AbandonInv DEF SwitchPointer, IInv
  <2> QED
    BY <1>5, <2>1, <2>2 DEF SwitchPointer
<1> QED
  BY <1>2, <1>3, <1>4, <1>5

\* A job that reports an index has verified it, and the pointer names it.
LEMMA ReportInv ==
  ASSUME TypeOK, NEW from, NEW d \in Indexes, Valid(d),
         Answer(from, [status |-> "ok", digest |-> d]), UNCHANGED gens, pointer' = d,
         part' \in Indexes \cup {NoFile}, UNCHANGED <<sigPart, faults>>
  PROVE  IInv'
<1>1. /\ result' = [status |-> "ok", digest |-> d] /\ pc' = "idle" /\ Valid(d)'
      /\ result'.digest = d
  BY DEF Answer, Valid
<1>2. TypeOK'
  <2>1. result' \in Answers
    BY <1>1 DEF Answers
  <2>2. previous' \in Indexes \cup {NoFile} /\ todo' \subseteq Indexes
    BY DEF Answer, TypeOK
  <2> QED
    BY <1>1, <2>1, <2>2 DEF TypeOK, Steps
<1>3. FetchInv' /\ LoadingInv'
  BY <1>1 DEF FetchInv, Fetching, LoadingInv
<1>4. ReportedIsCurrent'
  BY <1>1 DEF ReportedIsCurrent, Valid
<1> QED
  BY <1>2, <1>3, <1>4 DEF IInv

\* Pruning spares the generation that was activated.
LEMMA PruneInv == ASSUME IInv, Prune \/ FinishFetch PROVE IInv'
<1>1. CASE Prune
  <2>1. PICK d \in todo : /\ todo' = todo \ {d}
                         /\ \/ Works /\ gens' = [gens EXCEPT ![d] = NoGen]
                            \/ Fails /\ UNCHANGED gens
    BY <1>1 DEF Prune
  <2>2. d \in Indexes /\ d # part /\ part \in Indexes /\ Valid(part) /\ faults' \in Nat
    BY <1>1, <2>1 DEF Prune, IInv, TypeOK, FetchInv, Fetching, Works, Fails
  <2>3. gens' \in [Indexes -> Generations \cup {NoGen}] /\ gens'[part] = gens[part]
    BY <2>1, <2>2 DEF IInv, TypeOK
  <2> QED
    BY <1>1, <2>1, <2>2, <2>3 DEF Prune, IInv, TypeOK, FetchInv, LoadingInv, Fetching,
         ReportedIsCurrent, Valid
<1>2. CASE FinishFetch
  BY <1>2, ReportInv DEF FinishFetch, IInv, FetchInv, Fetching, Answer, TypeOK
<1> QED
  BY <1>1, <1>2

\* A load reports only what it has verified.
LEMMA LoadInv == ASSUME IInv, StartLoad \/ LoadStep PROVE IInv'
<1>1. CASE StartLoad
  <2>1. TypeOK'
    BY <1>1 DEF StartLoad, Goto, disk, Candidates, IInv, TypeOK, Steps
  <2>2. FetchInv' /\ ReportedIsCurrent'
    BY <1>1 DEF StartLoad, Goto, FetchInv, Fetching, ReportedIsCurrent
  <2>3. LoadingInv'
    <3> SUFFICES ASSUME NEW d \in Indexes, Valid(d)' PROVE d \in todo'
      BY DEF LoadingInv
    <3>1. gens[d] # NoGen
      BY <1>1 DEF StartLoad, disk, Valid
    <3> QED
      BY <1>1, <3>1 DEF StartLoad, Candidates
  <2> QED
    BY <2>1, <2>2, <2>3 DEF IInv
<1>2. ASSUME NEW d \in Indexes, LoadCandidate(d) PROVE IInv'
  <2>1. CASE Answer("load", [status |-> "ok", digest |-> d]) /\ Works /\ pointer' = d
    BY <1>2, <2>1, ReportInv DEF LoadCandidate, Works, IInv, TypeOK
  <2>2. CASE Fails /\ UNCHANGED pointer /\ Answer("load", [status |-> "missing"])
    <3>1. faults' \in Nat
      BY <2>2 DEF Fails, IInv, TypeOK
    <3> QED
      BY <1>2, <2>2, <3>1, AnswerInv DEF LoadCandidate, IInv, TypeOK
  <2> QED
    BY <1>2, <2>1, <2>2 DEF LoadCandidate
<1>3. ASSUME NEW d \in Indexes, DropCandidate(d) PROVE IInv'
  <2>1. faults' \in Nat /\ gens' \in [Indexes -> Generations \cup {NoGen}]
    BY <1>3 DEF DropCandidate, Works, Fails, IInv, TypeOK
  <2> QED
    <3>1. TypeOK' /\ FetchInv' /\ ReportedIsCurrent'
      BY <1>3, <2>1 DEF DropCandidate, IInv, TypeOK, FetchInv, Fetching, ReportedIsCurrent
    <3>2. LoadingInv'
      <4> SUFFICES ASSUME NEW x \in Indexes, Valid(x)' PROVE x \in todo'
        BY DEF LoadingInv
      <4>1. gens \in [Indexes -> Generations \cup {NoGen}] /\ pc = "load"
        BY <1>3 DEF DropCandidate, IInv, TypeOK
      <4>2. x # d /\ Valid(x)
        BY <1>3, <4>1 DEF DropCandidate, Valid
      <4>3. x \in todo
        BY <4>1, <4>2 DEF IInv, LoadingInv
      <4> QED
        BY <1>3, <4>2, <4>3 DEF DropCandidate
    <3> QED
      BY <3>1, <3>2 DEF IInv
<1>4. CASE NothingToLoad
  BY <1>4, AnswerInv DEF NothingToLoad, disk, IInv, TypeOK
<1> QED
  BY <1>1, <1>2, <1>3, <1>4 DEF LoadStep

\* A crash leaves generations of any shape, and no answer.
LEMMA CrashInv == ASSUME IInv, Crash PROVE IInv'
<1>1. gens' \in [Indexes -> Generations \cup {NoGen}]
  <2>1. ASSUME NEW d \in Indexes, NEW g \in Remains(gens[d]), gens' = [gens EXCEPT ![d] = g]
        PROVE  gens' \in [Indexes -> Generations \cup {NoGen}]
    <3>1. gens \in [Indexes -> Generations \cup {NoGen}]
      BY DEF IInv, TypeOK
    <3>2. g \in Generations \cup {NoGen}
      BY <3>1, RemainsType
    <3> QED
      BY <2>1, <3>1, <3>2
  <2>2. pc = "clear" => part \in Indexes
    BY DEF IInv, FetchInv, Fetching
  <2>3. todo \subseteq Indexes
    BY DEF IInv, TypeOK
  <2> QED
    BY <2>1, <2>2, <2>3 DEF Crash, IInv, TypeOK
<1>2. result' \in Answers /\ result'.status # "ok" /\ pc' = "idle"
  BY DEF Crash, Answers
<1>3. TypeOK'
  BY <1>1, <1>2 DEF Crash, IInv, TypeOK, Steps
<1>4. FetchInv' /\ LoadingInv' /\ ReportedIsCurrent'
  BY <1>2 DEF FetchInv, LoadingInv, Fetching, ReportedIsCurrent
<1> QED
  BY <1>3, <1>4 DEF IInv

\* A step that changes nothing keeps the invariant.
LEMMA StutterInv == ASSUME IInv, UNCHANGED vars PROVE IInv'
BY DEF vars, disk, IInv, TypeOK, FetchInv, LoadingInv, ReportedIsCurrent, Valid
-----------------------------------------------------------------------------
\* What a fetch has done to the generations by each of its steps, whatever the
\* server delivers and wherever earlier jobs were interrupted.
THEOREM Invariance == Spec => []IInv
<1>1. IInv /\ [Next]_vars => IInv'
  BY DownloadInv, ActivateInv, PruneInv, LoadInv, CrashInv, StutterInv DEF Next, FetchStep
<1> QED
  BY <1>1, InitInv, PTL DEF Spec

\* Every variable keeps its type.
THEOREM TypeCorrect == Spec => []TypeOK
<1>1. IInv => TypeOK
  BY DEF IInv
<1> QED
  BY <1>1, Invariance, PTL

\* What a job reports is verified and current.
THEOREM ReportsAreCurrent == Spec => []ReportedIsCurrent
<1>1. IInv => ReportedIsCurrent
  BY DEF IInv
<1> QED
  BY <1>1, Invariance, PTL

\* A load that answers "missing" has tried every verified generation: a stale
\* pointer or damaged directories hide no good one.
THEOREM LoadsFindSurvivors == Spec => LoadFindsSurvivor
<1>1. IInv /\ [Next]_vars =>
        [pc = "load" /\ pc' = "idle" /\ result'.status = "missing" /\ faults' = faults =>
           ~HasValid]_vars
  <2> SUFFICES ASSUME IInv, Next, pc = "load", pc' = "idle", result'.status = "missing",
                      faults' = faults
               PROVE  ~HasValid
    OBVIOUS
  <2>1. CASE NothingToLoad
    BY <2>1 DEF NothingToLoad, HasValid, IInv, LoadingInv
  <2>2. ASSUME NEW d \in Indexes, LoadCandidate(d) PROVE FALSE
    BY <2>2 DEF LoadCandidate, Answer, Fails, IInv, TypeOK
  <2>3. ASSUME NEW d \in Indexes, DropCandidate(d) PROVE FALSE
    BY <2>3 DEF DropCandidate
  <2>4. ~Crash
    BY DEF Crash
  <2>5. ~(StartFetch \/ StartLoad \/ FetchStep)
    BY DEF StartFetch, StartLoad, FetchStep, DownloadIndex, DownloadSignature, VerifySignature,
           ClearGeneration, MoveIndex, MoveSignature, SwitchPointer, Prune, FinishFetch, Goto,
           Abandon, Answer
  <2> QED
    BY <2>1, <2>2, <2>3, <2>4, <2>5 DEF Next, LoadStep
<1> QED
  BY <1>1, Invariance, PTL DEF Spec, LoadFindsSurvivor

\* The pointer moves in two steps only: when the new generation is complete, and
\* when a load repairs it.
THEOREM PointerIsVerified == Spec => PointerMovesToVerified
<1>1. IInv /\ [Next]_vars => [pointer' # pointer => Valid(pointer')]_vars
  <2> SUFFICES ASSUME IInv, Next, pointer' # pointer PROVE Valid(pointer')
    OBVIOUS
  <2>1. CASE SwitchPointer
    BY <2>1 DEF SwitchPointer, IInv, FetchInv, Goto, Abandon
  <2>2. ASSUME NEW d \in Indexes, LoadCandidate(d) PROVE Valid(pointer')
    BY <2>2 DEF LoadCandidate
  <2>3. ~(\/ StartFetch \/ DownloadIndex \/ DownloadSignature \/ VerifySignature
           \/ ClearGeneration \/ MoveIndex \/ MoveSignature \/ Prune \/ FinishFetch
           \/ StartLoad \/ NothingToLoad \/ Crash \/ \E d \in Indexes : DropCandidate(d))
    BY DEF StartFetch, DownloadIndex, DownloadSignature, VerifySignature, ClearGeneration,
           MoveIndex, MoveSignature, Prune, FinishFetch, StartLoad, NothingToLoad, Crash,
           DropCandidate, disk
  <2> QED
    BY <2>1, <2>2, <2>3 DEF Next, FetchStep, LoadStep
<1> QED
  BY <1>1, Invariance, PTL DEF Spec, PointerMovesToVerified
-----------------------------------------------------------------------------
\* A directory that holds a signature before one is moved there could not be removed.
UnclearedInv == pc \in {"index", "sig"} /\ gens[part].sig # NoFile => faults >= 1

\* A filled generation holds a signature only if a call failed before.
LEMMA UnclearedStep == IInv /\ UnclearedInv /\ [Next]_vars => UnclearedInv'
<1> SUFFICES ASSUME IInv, UnclearedInv, [Next]_vars, pc' \in {"index", "sig"},
                    gens'[part'].sig # NoFile
             PROVE  faults' >= 1
  BY DEF UnclearedInv
<1>1. CASE ClearGeneration
  <2>1. /\ gens \in [Indexes -> Generations \cup {NoGen}] /\ part \in Indexes
        /\ part' = part /\ faults \in Nat
    BY <1>1 DEF ClearGeneration, Goto, Abandon, Answer, IInv, TypeOK, FetchInv, Fetching
  <2>2. CASE Fails
    BY <2>1, <2>2 DEF Fails
  <2>3. CASE gens' = [gens EXCEPT ![part] = [index |-> NoFile, sig |-> NoFile]]
    BY <2>1, <2>3
  <2> QED
    BY <1>1, <2>2, <2>3 DEF ClearGeneration
<1>2. CASE MoveIndex
  <2>1. /\ pc = "index" /\ part' = part /\ faults' = faults
        /\ gens' = [gens EXCEPT ![part].index = part]
    BY <1>2 DEF MoveIndex, Goto, Abandon, Answer, Works
  <2>2. gens \in [Indexes -> Generations \cup {NoGen}] /\ gens[part] \in Generations
        /\ part \in Indexes
    BY <2>1 DEF IInv, TypeOK, FetchInv, Fetching
  <2>3. gens'[part].sig = gens[part].sig
    BY <2>1, <2>2 DEF Generations
  <2> QED
    BY <2>1, <2>3 DEF UnclearedInv
<1>3. ~MoveSignature
  BY DEF MoveSignature, Goto, Abandon, Answer
<1>4. ~Crash /\ ~FinishFetch /\ ~StartFetch /\ ~StartLoad /\ ~SwitchPointer /\ ~Prune
  BY DEF Crash, FinishFetch, StartFetch, StartLoad, SwitchPointer, Prune, Goto, Answer,
         Abandon
<1>5. ~DownloadIndex /\ ~DownloadSignature /\ ~VerifySignature /\ ~LoadStep
  BY DEF DownloadIndex, DownloadSignature, VerifySignature, LoadStep, LoadCandidate,
         DropCandidate, NothingToLoad, Goto, Answer, Abandon
<1>6. CASE UNCHANGED vars
  BY <1>6 DEF vars, disk, UnclearedInv
<1> QED
  BY <1>1, <1>2, <1>3, <1>4, <1>5, <1>6 DEF Next, FetchStep

\* Every state of the cache satisfies it.
LEMMA UnclearedHolds == Spec => []UnclearedInv
<1>1. Init => UnclearedInv
  BY DEF Init, UnclearedInv
<1> QED
  BY <1>1, UnclearedStep, Invariance, PTL DEF Spec

\* A generation that a step replaces at one digest is verified at every other digest
\* it was verified at.
LEMMA OthersStayValid ==
  ASSUME TypeOK, NEW d \in Indexes, NEW e \in Indexes, e # d, NEW g,
         gens' = [gens EXCEPT ![e] = g], Valid(d)
  PROVE  Valid(d)'
BY DEF TypeOK, Valid

\* An activation costs a verified generation only at the digest it activates.
LEMMA ActivationSpares ==
  ASSUME IInv, UnclearedInv, ClearGeneration \/ MoveIndex \/ MoveSignature \/ SwitchPointer,
         NEW d \in Indexes, Valid(d), ~Valid(d)'
  PROVE  \/ pc = "clear" /\ Valid(part)
         \/ pc \in {"index", "sig"} /\ Valid(part) /\ faults' >= 2
<1>1. /\ gens \in [Indexes -> Generations \cup {NoGen}] /\ part \in Indexes
      /\ faults \in Nat
  BY DEF IInv, TypeOK, FetchInv, Fetching, ClearGeneration, MoveIndex, MoveSignature,
         SwitchPointer, Goto, Abandon, Answer
<1>2. CASE ClearGeneration
  <2>1. pc = "clear"
    BY <1>2 DEF ClearGeneration, Goto, Abandon, Answer
  <2>2. gens' # gens
    BY DEF Valid
  <2>3. \E g : gens' = [gens EXCEPT ![part] = g]
    BY <1>2, <2>2 DEF ClearGeneration
  <2>4. d = part
    BY <1>1, <2>3, OthersStayValid DEF IInv
  <2> QED
    BY <2>1, <2>4
<1>3. CASE MoveIndex
  <2>1. pc = "index"
    BY <1>3 DEF MoveIndex, Goto, Abandon, Answer
  <2>2. CASE Works /\ gens' = [gens EXCEPT ![part].index = part]
    <3>1. d = part
      BY <1>1, <2>2, OthersStayValid DEF IInv
    <3>2. gens[part] \in Generations /\ gens[part].index = part /\ gens[part].sig = part
      BY <1>1, <3>1 DEF Valid
    <3>3. gens'[part] = gens[part]
      BY <1>1, <2>2, <3>2 DEF Generations
    <3> QED
      BY <3>1, <3>3 DEF Valid
  <2>3. CASE Fails /\ gens' = [gens EXCEPT ![part] = NoGen]
    <3>1. d = part
      BY <1>1, <2>3, OthersStayValid DEF IInv
    <3>2. gens[part].sig # NoFile
      BY <1>1, <3>1, ConstantsAssumption DEF Valid
    <3>3. faults' >= 2
      BY <1>1, <2>1, <2>3, <3>2 DEF UnclearedInv, Fails
    <3> QED
      BY <2>1, <3>1, <3>3
  <2> QED
    BY <1>3, <2>2, <2>3 DEF MoveIndex
<1>4. CASE MoveSignature
  <2>1. pc = "sig"
    BY <1>4 DEF MoveSignature, Goto, Abandon, Answer
  <2>2. CASE Works /\ gens' = [gens EXCEPT ![part].sig = sigPart]
    <3>1. d = part
      BY <1>1, <2>2, OthersStayValid DEF IInv
    <3>2. /\ gens[part] \in Generations /\ gens[part].index = part /\ gens[part].sig = part
          /\ sigPart = part
      BY <1>1, <2>1, <3>1 DEF Valid, IInv, FetchInv
    <3>3. gens'[part] = gens[part]
      BY <1>1, <2>2, <3>2 DEF Generations
    <3> QED
      BY <3>1, <3>3 DEF Valid
  <2>3. CASE Fails /\ gens' = [gens EXCEPT ![part] = NoGen]
    <3>1. d = part
      BY <1>1, <2>3, OthersStayValid DEF IInv
    <3>2. gens[part].sig # NoFile
      BY <1>1, <3>1, ConstantsAssumption DEF Valid
    <3>3. faults' >= 2
      BY <1>1, <2>1, <2>3, <3>2 DEF UnclearedInv, Fails
    <3> QED
      BY <2>1, <3>1, <3>3
  <2> QED
    BY <1>4, <2>2, <2>3 DEF MoveSignature
<1>5. CASE SwitchPointer
  BY <1>5 DEF SwitchPointer, Valid
<1> QED
  BY <1>2, <1>3, <1>4, <1>5

\* Pruning, and a crash while it runs, leave the generation just activated.
LEMMA PruningSpares ==
  ASSUME IInv, pc = "prune", Prune \/ Crash
  PROVE  HasValid'
<1>1. PICK d \in Indexes : d = part /\ Valid(d) /\ d \notin todo
  BY DEF IInv, FetchInv, Fetching
<1>2. gens' = gens \/ \E e \in todo : \E g : gens' = [gens EXCEPT ![e] = g]
  BY DEF Prune, Crash
<1>3. Valid(d)'
  <2>1. CASE gens' = gens
    BY <1>1, <2>1 DEF Valid
  <2>2. ASSUME NEW e \in todo, NEW g, gens' = [gens EXCEPT ![e] = g]
        PROVE  Valid(d)'
    BY <1>1, <2>2, OthersStayValid DEF IInv, TypeOK
  <2> QED
    BY <1>2, <2>1, <2>2
<1> QED
  BY <1>3 DEF HasValid

\* A crash at any other step takes a verified generation only where a fetch of the
\* same index was clearing its directory.
LEMMA CrashSpares ==
  ASSUME IInv, Crash, pc # "prune", NEW d \in Indexes, Valid(d), ~Valid(d)'
  PROVE  pc = "clear" /\ Valid(part)
<1>1. gens' # gens
  BY DEF Valid
<1>2. CASE pc = "clear" /\ \E g \in Remains(gens[part]) : gens' = [gens EXCEPT ![part] = g]
  <2>1. part \in Indexes
    BY <1>2 DEF IInv, FetchInv, Fetching
  <2>2. d = part
    BY <1>2, <2>1, OthersStayValid DEF IInv
  <2> QED
    BY <1>2, <2>2
<1>3. ASSUME NEW e \in todo, ~Valid(e), NEW g, gens' = [gens EXCEPT ![e] = g]
      PROVE  FALSE
  BY <1>3, OthersStayValid DEF IInv, TypeOK
<1> QED
  BY <1>1, <1>2, <1>3 DEF Crash

\* A verified generation is given up only where the same index takes its place, or
\* by a load that could not read it: neither pruning, nor a crash, nor a server that
\* delivers damaged or foreign documents leaves the client without a catalog.
THEOREM LastGenerationOutlives == Spec => LastGenerationSurvives
<1>1. IInv /\ UnclearedInv /\ [Next]_vars =>
        [HasValid /\ ~HasValid' =>
           \/ pc = "clear" /\ Valid(part)
           \/ pc \in {"index", "sig"} /\ Valid(part) /\ faults' >= 2
           \/ pc = "load" /\ faults' = faults + 1]_vars
  <2> SUFFICES ASSUME IInv, UnclearedInv, Next, HasValid, ~HasValid'
               PROVE  \/ pc = "clear" /\ Valid(part)
                      \/ pc \in {"index", "sig"} /\ Valid(part) /\ faults' >= 2
                      \/ pc = "load" /\ faults' = faults + 1
    OBVIOUS
  <2>1. PICK d \in Indexes : Valid(d) /\ ~Valid(d)'
    BY DEF HasValid
  <2>2. gens' # gens
    BY <2>1 DEF Valid
  <2>3. CASE ClearGeneration \/ MoveIndex \/ MoveSignature \/ SwitchPointer
    BY <2>1, <2>3, ActivationSpares
  <2>4. CASE Prune
    BY <2>4, PruningSpares DEF Prune
  <2>5. CASE Crash
    BY <2>1, <2>5, PruningSpares, CrashSpares
  <2>6. ASSUME NEW e \in Indexes, DropCandidate(e)
        PROVE  pc = "load" /\ faults' = faults + 1
    <3>1. gens' = [gens EXCEPT ![e] = NoGen]
      BY <2>2, <2>6 DEF DropCandidate
    <3>2. d = e
      BY <2>1, <3>1, OthersStayValid DEF IInv
    <3> QED
      BY <2>1, <2>6, <3>2 DEF DropCandidate, Fails
  <2>7. ~(StartFetch \/ DownloadIndex \/ DownloadSignature \/ VerifySignature \/ FinishFetch)
    BY <2>2 DEF StartFetch, DownloadIndex, DownloadSignature, VerifySignature, FinishFetch,
                disk
  <2>8. ~(StartLoad \/ NothingToLoad \/ \E e \in Indexes : LoadCandidate(e))
    BY <2>2 DEF StartLoad, NothingToLoad, LoadCandidate, disk
  <2> QED
    BY <2>3, <2>4, <2>5, <2>6, <2>7, <2>8 DEF Next, FetchStep, LoadStep
<1> QED
  BY <1>1, Invariance, UnclearedHolds, PTL DEF Spec, LastGenerationSurvives
=============================================================================
