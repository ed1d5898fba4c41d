-------------------------- MODULE SelfUpdateProofs --------------------------
(***************************************************************************)
(* Theorems of SelfUpdate, for any versions, any number of launches, and   *)
(* any number of failing calls and ends of the game.                       *)
(***************************************************************************)
EXTENDS SelfUpdate, TLAPS

\* What a staging knows of its version, and that the one shipped stays.
StagingInv ==
  /\ dir[Shipped] = "whole"
  /\ pc \in {"stage"} \cup Unfinished => target \in Versions
  /\ pc \in {"marker", "publish"} => Complete(target)
  /\ pc \in Unfinished => target # promised /\ target # Shipped

\* The version promised is in place, and is what the next launch activates or has
\* activated; at each step of the bootstrap, how far it is.
PromiseInv ==
  /\ Complete(promised)
  /\ promised \notin mismarked =>
       /\ pending = promised \/ (pending = NoFile /\ (active = promised \/ activeCut))
       /\ pc \in {"tmp", "drop", "rename", "unpend"} => pending = promised
       /\ pc \in {"drop", "rename"} /\ clean => activeTmp = promised
       /\ pc = "rename" => active = NoFile \/ ~clean
       /\ pc = "unpend" => active = promised \/ activeCut
       /\ pc = "load" /\ clean /\ dir[promised] = "whole" => active = promised \/ activeCut

BootstrapInv ==
  /\ pc \in {"tmp", "drop", "rename", "unpend"} => pending \in Versions
  /\ pc \in {"off", "probe", "tmp", "drop", "rename", "unpend", "load"} => running = NoFile

IInv == TypeOK /\ StagingInv /\ PromiseInv /\ BootstrapInv /\ StrandedOnlyIfCutShort

\* The set of the text files' contents, and what tells them apart.
LEMMA TextFacts ==
  /\ NoFile \notin Versions /\ Garbage \notin Versions /\ Shipped \in Versions
  /\ Versions \subseteq Text /\ NoFile \in Text /\ Garbage \in Text
  /\ \A v \in Versions : Cut(v) \subseteq Text
BY ConstantsAssumption DEF Text, Cut
-----------------------------------------------------------------------------
\* A step meets no failure, or one more while there may be.
LEMMA FaultsStep ==
  ASSUME faults \in 0..MaxFaults,
         faults' = faults \/ (faults < MaxFaults /\ faults' = faults + 1)
  PROVE  faults' \in 0..MaxFaults
BY ConstantsAssumption

LEMMA InitInv == Init => IInv
<1> SUFFICES ASSUME Init PROVE IInv
  OBVIOUS
<1>0. faults \in 0..MaxFaults
  BY ConstantsAssumption DEF Init
<1>1. TypeOK
  BY <1>0, TextFacts, Zenon DEF Init, TypeOK, Steps
<1>2. StagingInv /\ PromiseInv /\ BootstrapInv /\ StrandedOnlyIfCutShort
  BY TextFacts DEF Init, StagingInv, Complete, PromiseInv, Complete, BootstrapInv, StrandedOnlyIfCutShort, Unfinished
<1> QED
  BY <1>1, <1>2 DEF IInv

\* The bootstrap touches no version's directory.
LEMMA BootstrapKeeps ==
  ASSUME IInv, BootstrapStep, pc' \notin {"stage"} \cup Unfinished,
         pc \notin {"stage"} \cup Unfinished
  PROVE  StagingInv' /\ StrandedOnlyIfCutShort'
BY DEF IInv, BootstrapStep, staged, Complete, StagingInv, StrandedOnlyIfCutShort, Unfinished

LEMMA LaunchInv == ASSUME IInv, Launch PROVE IInv'
<1>1. TypeOK'
  BY DEF IInv, TypeOK, Launch, Goto, files, staged, Steps
<1>2. StagingInv' /\ PromiseInv' /\ BootstrapInv' /\ StrandedOnlyIfCutShort'
  BY DEF IInv, StagingInv, PromiseInv, Complete, BootstrapInv, StrandedOnlyIfCutShort, Unfinished,
         Complete, Launch, Goto, files, staged
<1> QED
  BY <1>1, <1>2 DEF IInv

LEMMA BootstrapInvariant == ASSUME IInv, Bootstrap PROVE IInv'
<1> USE DEF Goto, Works, Fails, BootstrapStep, staged
<1>1. CASE Probe
  <2>9. faults' \in 0..MaxFaults
    BY <1>1, FaultsStep, Zenon DEF IInv, TypeOK, Probe
  <2>1. TypeOK'
    BY <2>9, <1>1, Zenon DEF IInv, TypeOK, Probe, Steps
  <2>2. PromiseInv' /\ BootstrapInv'
    BY <1>1, TextFacts DEF IInv, TypeOK, PromiseInv, Complete, BootstrapInv, Probe
  <2>3. StagingInv' /\ StrandedOnlyIfCutShort'
    BY <1>1, BootstrapKeeps DEF Probe, Unfinished
  <2> QED
    BY <2>1, <2>2, <2>3 DEF IInv
<1>2. CASE WriteActive
  <2>9. faults' \in 0..MaxFaults
    BY <1>2, FaultsStep, Zenon DEF IInv, TypeOK, WriteActive
  <2>0. activeTmp' \in Text
    BY <1>2, TextFacts DEF IInv, TypeOK, BootstrapInv, WriteActive
  <2>1. TypeOK'
    BY <2>9, <2>0, <1>2, Zenon DEF IInv, TypeOK, WriteActive, Steps
  <2>2. PromiseInv' /\ BootstrapInv'
    BY <1>2, TextFacts DEF IInv, TypeOK, PromiseInv, Complete, BootstrapInv, WriteActive
  <2>3. StagingInv' /\ StrandedOnlyIfCutShort'
    BY <1>2, BootstrapKeeps DEF WriteActive, Unfinished
  <2> QED
    BY <2>1, <2>2, <2>3 DEF IInv
<1>3. CASE DropActive
  <2>9. faults' \in 0..MaxFaults
    BY <1>3, FaultsStep, Zenon DEF IInv, TypeOK, DropActive
  <2>1. TypeOK'
    BY <2>9, <1>3, TextFacts, Zenon DEF IInv, TypeOK, DropActive, Steps
  <2>2. PromiseInv' /\ BootstrapInv'
    <3>1. pc = "drop" /\ pc' = "rename" /\ (active' = NoFile \/ ~clean') /\ (clean' => clean)
      BY <1>3 DEF DropActive
    <3> QED
      BY <1>3, <3>1 DEF IInv, PromiseInv, Complete, BootstrapInv, DropActive
  <2>3. StagingInv' /\ StrandedOnlyIfCutShort'
    BY <1>3, BootstrapKeeps DEF DropActive, Unfinished
  <2> QED
    BY <2>1, <2>2, <2>3 DEF IInv
<1>4. CASE RenameActive
  <2>9. faults' \in 0..MaxFaults
    BY <1>4, FaultsStep, Zenon DEF IInv, TypeOK, RenameActive
  <2>1. TypeOK'
    BY <2>9, <1>4, Zenon DEF IInv, TypeOK, RenameActive, Steps
  <2>2. PromiseInv' /\ BootstrapInv'
    BY <1>4, TextFacts DEF IInv, TypeOK, PromiseInv, Complete, BootstrapInv, RenameActive
  <2>3. StagingInv' /\ StrandedOnlyIfCutShort'
    BY <1>4, BootstrapKeeps DEF RenameActive, Unfinished
  <2> QED
    BY <2>1, <2>2, <2>3 DEF IInv
<1>5. CASE DropPending
  <2>9. faults' \in 0..MaxFaults
    BY <1>5, FaultsStep, Zenon DEF IInv, TypeOK, DropPending
  <2>1. TypeOK'
    BY <2>9, <1>5, TextFacts, Zenon DEF IInv, TypeOK, DropPending, Steps
  <2>2. PromiseInv' /\ BootstrapInv'
    BY <1>5, TextFacts DEF IInv, TypeOK, PromiseInv, Complete, BootstrapInv, DropPending
  <2>3. StagingInv' /\ StrandedOnlyIfCutShort'
    BY <1>5, BootstrapKeeps DEF DropPending, Unfinished
  <2> QED
    BY <2>1, <2>2, <2>3 DEF IInv
<1>6. CASE Load
  <2>9. faults' \in 0..MaxFaults
    BY <1>6, FaultsStep, Zenon DEF IInv, TypeOK, Load
  <2>1. TypeOK'
    BY <2>9, <1>6, TextFacts, Zenon DEF IInv, TypeOK, Load, Steps
  <2>2. PromiseInv' /\ BootstrapInv'
    BY <1>6, TextFacts DEF IInv, TypeOK, PromiseInv, Complete, BootstrapInv, Load
  <2>3. StagingInv' /\ StrandedOnlyIfCutShort'
    BY <1>6, BootstrapKeeps DEF Load, Unfinished
  <2> QED
    BY <2>1, <2>2, <2>3 DEF IInv
<1> QED
  BY <1>1, <1>2, <1>3, <1>4, <1>5, <1>6 DEF Bootstrap

LEMMA StageInv == ASSUME IInv, NEW v \in Versions, Stage(v) PROVE IInv'
<1>1. TypeOK'
  BY DEF IInv, TypeOK, Stage, Goto, files, staged, history, Steps
<1>2. StagingInv' /\ PromiseInv' /\ BootstrapInv' /\ StrandedOnlyIfCutShort'
  BY DEF IInv, StagingInv, PromiseInv, Complete, BootstrapInv, StrandedOnlyIfCutShort, Unfinished,
         Complete, Stage, Goto, files, staged, history
<1> QED
  BY <1>1, <1>2 DEF IInv

LEMMA JobInvariant == ASSUME IInv, Job PROVE IInv'
<1> USE DEF Goto, Works, Fails, JobStep, Answer, staged
<1>1. CASE MoveStaged
  <2>0. target \in Versions /\ pc = "stage" /\ ~(pc \in Unfinished)
    BY <1>1 DEF MoveStaged, IInv, StagingInv, Unfinished
  <2>9. faults' \in 0..MaxFaults
    BY <1>1, FaultsStep, Zenon DEF IInv, TypeOK, MoveStaged
  <2>1. TypeOK'
    BY <2>9, <1>1, <2>0, Zenon DEF IInv, TypeOK, MoveStaged, Steps
  <2>2. PromiseInv' /\ BootstrapInv'
    BY <1>1, <2>0 DEF IInv, TypeOK, PromiseInv, Complete, BootstrapInv, MoveStaged
  <2>3. StagingInv'
    BY <1>1, <2>0, TextFacts DEF IInv, TypeOK, PromiseInv, StagingInv, Complete, Unfinished, MoveStaged
  <2>4. StrandedOnlyIfCutShort'
    BY <1>1, <2>0 DEF IInv, TypeOK, StrandedOnlyIfCutShort, Unfinished, MoveStaged
  <2> QED
    BY <2>1, <2>2, <2>3, <2>4 DEF IInv
<1>2. CASE WriteMarker
  <2>9. faults' \in 0..MaxFaults
    BY <1>2, FaultsStep, Zenon DEF IInv, TypeOK, WriteMarker
  <2>1. TypeOK'
    BY <2>9, <1>2, TextFacts, Zenon DEF IInv, TypeOK, StagingInv, Complete, Unfinished, WriteMarker, Steps
  <2>2. PromiseInv' /\ BootstrapInv' /\ StagingInv' /\ StrandedOnlyIfCutShort'
    BY <1>2 DEF IInv, PromiseInv, Complete, BootstrapInv, StagingInv, StrandedOnlyIfCutShort,
                Unfinished, WriteMarker
  <2> QED
    BY <2>1, <2>2 DEF IInv
<1>3. CASE PublishMarker
  <2>0. Complete(target) /\ target \in Versions /\ pc = "publish"
    BY <1>3 DEF PublishMarker, IInv, StagingInv, Unfinished
  <2>9. faults' \in 0..MaxFaults
    BY <1>3, FaultsStep, Zenon DEF IInv, TypeOK, PublishMarker
  <2>1. TypeOK'
    BY <2>9, <1>3, <2>0, TextFacts, Zenon DEF IInv, TypeOK, PublishMarker, Steps
  <2>2. PromiseInv' /\ BootstrapInv'
    BY <1>3, <2>0 DEF IInv, PromiseInv, Complete, BootstrapInv, PublishMarker
  <2>3. StagingInv'
    BY <1>3, <2>0 DEF IInv, StagingInv, Complete, Unfinished, PublishMarker
  <2>4. StrandedOnlyIfCutShort'
    BY <1>3, <2>0 DEF IInv, StrandedOnlyIfCutShort, Unfinished, PublishMarker
  <2> QED
    BY <2>1, <2>2, <2>3, <2>4 DEF IInv
<1>4. CASE Undo
  <2>0. target \in Versions /\ pc = "undo" /\ target # promised /\ target # Shipped
    BY <1>4 DEF Undo, IInv, StagingInv, Unfinished
  <2>9. faults' \in 0..MaxFaults
    BY <1>4, FaultsStep, Zenon DEF IInv, TypeOK, Undo
  <2>1. TypeOK'
    BY <2>9, <1>4, <2>0, Zenon DEF IInv, TypeOK, Undo, Steps
  <2>2. PromiseInv' /\ BootstrapInv'
    BY <1>4, <2>0 DEF IInv, TypeOK, PromiseInv, Complete, BootstrapInv, Undo
  <2>3. StagingInv'
    BY <1>4, <2>0, TextFacts DEF IInv, TypeOK, StagingInv, Complete, Unfinished, Undo
  <2>4. StrandedOnlyIfCutShort'
    BY <1>4, <2>0 DEF IInv, TypeOK, StrandedOnlyIfCutShort, Unfinished, Undo
  <2> QED
    BY <2>1, <2>2, <2>3, <2>4 DEF IInv
<1> QED
  BY <1>1, <1>2, <1>3, <1>4 DEF Job

LEMMA ExitInv == ASSUME IInv, Exit PROVE IInv'
<1>0. /\ pc \in Unfinished => target \in Versions /\ target # promised /\ target # Shipped
      /\ pc = "tmp" => pending \in Versions
  BY DEF IInv, StagingInv, BootstrapInv
<1>1. TypeOK'
  <2>1. pendingTmp' \in Text /\ activeTmp' \in Text
    BY <1>0, TextFacts DEF IInv, TypeOK, Exit, Unfinished
  <2> QED
    BY <1>0, <2>1 DEF IInv, TypeOK, Exit, Steps, Unfinished
<1>2. PromiseInv' /\ BootstrapInv' /\ StagingInv'
  BY <1>0, TextFacts DEF IInv, TypeOK, PromiseInv, Complete, BootstrapInv, StagingInv, Unfinished, Exit
<1>3. StrandedOnlyIfCutShort'
  BY <1>0 DEF IInv, TypeOK, StrandedOnlyIfCutShort, Unfinished, Exit
<1> QED
  BY <1>1, <1>2, <1>3 DEF IInv
-----------------------------------------------------------------------------
LEMMA Invariance == Spec => []IInv
<1>1. IInv /\ UNCHANGED vars => IInv'
  <2> SUFFICES ASSUME IInv, UNCHANGED vars PROVE IInv'
    OBVIOUS
  <2> USE DEF vars, files, staged, history, IInv, Complete
  <2>1. TypeOK'
    BY Zenon DEF TypeOK
  <2>2. StagingInv' /\ BootstrapInv' /\ StrandedOnlyIfCutShort'
    BY Zenon DEF StagingInv, BootstrapInv, StrandedOnlyIfCutShort
  <2>3. PromiseInv'
    BY Zenon DEF PromiseInv
  <2> QED
    BY <2>1, <2>2, <2>3
<1>2. IInv /\ [Next]_vars => IInv'
  BY <1>1, LaunchInv, BootstrapInvariant, StageInv, JobInvariant, ExitInv DEF Next
<1> QED
  BY <1>2, InitInv, PTL DEF Spec

\* Every variable of SelfUpdate keeps its type.
THEOREM TypeCorrect == Spec => []TypeOK
<1>1. IInv => TypeOK
  BY DEF IInv
<1> QED
  BY <1>1, Invariance, PTL

\* A version on the disk that no published marker ever named is one whose staging was
\* cut short, or one for which another text was published (engine.cpp:1003-1012).
THEOREM StrandedByInterruption == Spec => []StrandedOnlyIfCutShort
<1>1. IInv => StrandedOnlyIfCutShort
  BY DEF IInv
<1> QED
  BY <1>1, Invariance, PTL

\* A launch in which no call fails runs the version staged last, if it was extracted to
\* the end and its marker and active.txt hold its name (vanahub.lua:18-41).
THEOREM LaunchRunsPromised == Spec => PromisedVersionRuns
<1> DEFINE A == pc = "load" /\ pc' \in {"run", "failed"} /\ clean' /\ dir[promised] = "whole"
                  /\ promised \notin mismarked /\ ~activeCut => running' = promised
<1>1. IInv /\ [Next]_vars => [A]_vars
  <2> SUFFICES ASSUME IInv, Next, pc = "load", pc' \in {"run", "failed"}, clean',
                      dir[promised] = "whole", promised \notin mismarked, ~activeCut
               PROVE  running' = promised
    OBVIOUS
  <2>1. Load
    BY DEF Next, Launch, Bootstrap, Probe, WriteActive, DropActive, RenameActive, DropPending,
           Stage, Job, MoveStaged, WriteMarker, PublishMarker, Undo, Exit, Goto, Answer
  <2>2. clean
    BY <2>1 DEF Load, Works, Fails
  <2>3. active = promised /\ promised \in Versions
    BY <2>2 DEF IInv, PromiseInv, TypeOK
  <2> QED
    BY <2>1, <2>3, TextFacts DEF Load, Chosen, Works, Fails, Goto
<1>2. Spec => [][A]_vars
  BY <1>1, Invariance, PTL DEF Spec
<1> QED
  BY <1>2 DEF PromisedVersionRuns
-----------------------------------------------------------------------------
(* What is in use is in place, as long as no second call fails.             *)

\* One call has failed, and neither a removal nor a marker yet to be written is left
\* for it to have been.
Spent ==
  /\ \A v \in Versions : dir[v] # "partial"
  /\ pc # "undo" /\ (pc = "publish" => pendingTmp # NoFile)

\* With no failure, nothing is half removed and markers say what they should.
NoFailure ==
  /\ \A v \in Versions : dir[v] # "partial"
  /\ pc # "undo" /\ (pc = "publish" => pendingTmp = target)
  /\ pending \in Versions => Complete(pending) /\ (pc \in Unfinished => target # pending)

\* With at most one, what runs and what active.txt names are in place and not what is
\* being staged, unless that failure cut active.txt short.  What pending.txt names is
\* not half removed, although it may be no version in place, if the failure has cut
\* the marker short; and it is in place once the bootstrap goes by it.
OneFailure ==
  /\ \A v \in {active, running} \ {NoFile} :
       activeCut \/ (Complete(v) /\ (pc \in Unfinished => target # v))
  /\ pending \in Versions => dir[pending] # "partial"
  /\ pc \in {"tmp", "drop", "rename", "unpend"} => Complete(pending)
  /\ pc = "undo" \/ (pc = "publish" /\ pendingTmp = NoFile) => target # pending
  /\ pending \in Versions /\ ~Complete(pending) => Spent
  /\ pc = "publish" /\ pendingTmp \notin {target, NoFile} => Spent

WholeInv == (faults = 0 => NoFailure) /\ (faults <= 1 => OneFailure)

LEMMA FaultsNatural == ASSUME TypeOK PROVE faults \in Nat
<1>1. faults \in 0..MaxFaults
  BY DEF TypeOK
<1> QED
  BY <1>1, ConstantsAssumption

LEMMA WholeInit == Init => WholeInv
BY TextFacts DEF Init, WholeInv, NoFailure, OneFailure, Complete, Unfinished

\* What a step needs to know of the failures before it.
LEMMA Failures ==
  ASSUME IInv, WholeInv, Works \/ Fails
  PROVE  /\ faults' = 0 => Works /\ NoFailure /\ OneFailure
         /\ faults' <= 1 => OneFailure /\ (Works \/ NoFailure)
<1>1. faults \in Nat /\ (faults' = faults \/ faults' = faults + 1)
  BY FaultsNatural DEF IInv, Works, Fails
<1>2. faults' = 0 => Works /\ faults = 0
  BY <1>1 DEF Works, Fails
<1>3. faults' <= 1 => faults <= 1 /\ (Works \/ faults = 0)
  BY <1>1 DEF Works, Fails
<1> QED
  BY <1>1, <1>2, <1>3 DEF WholeInv

\* The bootstrap passes on what is in use, and touches no directory.
LEMMA WholeBootstrap == ASSUME IInv, WholeInv, Bootstrap PROVE WholeInv'
<1>1. /\ UNCHANGED <<dir, pendingTmp, target>> /\ (Works \/ Fails)
      /\ pc \notin Unfinished /\ pc' \notin Unfinished
  BY Zenon DEF Bootstrap, Probe, WriteActive, DropActive, RenameActive, DropPending, Load,
               BootstrapStep, Goto, Unfinished
<1>2. pending' \in {pending, NoFile}
  BY DEF Bootstrap, Probe, WriteActive, DropActive, RenameActive, DropPending, Load
<1>3. faults' = 0 => NoFailure'
  BY <1>1, <1>2, Failures, TextFacts DEF NoFailure, Complete, Unfinished
<1>4. ASSUME faults' <= 1 PROVE OneFailure'
  <2>1. OneFailure /\ dir[Shipped] = "whole" /\ Shipped \in Versions
    BY <1>1, <1>4, Failures, TextFacts DEF IInv, StagingInv
  <2>2. \A v \in {active', running'} \ {NoFile} : activeCut' \/ Complete(v)
    <3>1. CASE Probe \/ WriteActive \/ DropActive \/ DropPending
      BY <2>1, <3>1 DEF OneFailure, Probe, WriteActive, DropActive, DropPending
    <3>2. CASE RenameActive
      <4>1. running' = NoFile /\ Complete(pending) /\ pc = "rename"
        BY <2>1, <3>2 DEF OneFailure, RenameActive, Goto, IInv, BootstrapInv
      <4>2. \/ active' = activeTmp /\ (activeTmp = pending \/ activeCut')
            \/ UNCHANGED <<active, activeCut>>
        BY <3>2, Zenon DEF RenameActive
      <4> QED
        BY <2>1, <4>1, <4>2 DEF OneFailure
    <3>3. CASE Load
      BY <2>1, <3>3, TextFacts DEF OneFailure, Load, Chosen, Complete
    <3> QED
      BY <3>1, <3>2, <3>3 DEF Bootstrap
  <2>3. pc' \in {"tmp", "drop", "rename", "unpend"} => Complete(pending) /\ pending' = pending
    BY <2>1 DEF OneFailure, Complete, Bootstrap, Probe, WriteActive, DropActive, RenameActive,
                DropPending, Load, Goto, IInv, TypeOK
  <2> QED
    BY <1>1, <1>2, <2>1, <2>2, <2>3, TextFacts DEF OneFailure, Complete, Spent, Unfinished
<1> QED
  BY <1>3, <1>4 DEF WholeInv

\* A job moves a version into a place where none was, and removes none but that.
LEMMA WholeJob == ASSUME IInv, WholeInv, Job PROVE WholeInv'
<1>0. /\ dir \in [Versions -> {"none", "whole", "short", "partial"}]
      /\ UNCHANGED <<active, activeCut, running, target>> /\ (Works \/ Fails)
      /\ target \in Versions
  BY DEF IInv, TypeOK, StagingInv, Unfinished, Job, MoveStaged, WriteMarker, PublishMarker,
         Undo, JobStep, Answer, Goto
<1>1. CASE MoveStaged
  <2>1. /\ pc = "stage" /\ UNCHANGED <<pending, pendingTmp>>
        /\ \/ dir' = dir /\ pc' = "run"
           \/ dir[target] = "none" /\ pc' = "marker"
              /\ \E d \in {"whole", "short"} : dir' = [dir EXCEPT ![target] = d]
    BY <1>1 DEF MoveStaged, Answer, Goto
  <2>2. faults' = 0 => NoFailure'
    BY <1>0, <2>1, Failures DEF NoFailure, Complete, Unfinished
  <2>3. faults' <= 1 => OneFailure'
    BY <1>0, <2>1, Failures DEF OneFailure, Complete, Spent, Unfinished
  <2> QED
    BY <2>2, <2>3 DEF WholeInv
<1>2. CASE WriteMarker
  <2>1. /\ pc = "marker" /\ pc' = "publish" /\ UNCHANGED <<dir, pending>>
        /\ Complete(target) /\ (Works => pendingTmp' = target)
    BY <1>2, FaultsNatural DEF WriteMarker, Goto, Works, Fails, IInv, StagingInv
  <2>2. faults' = 0 => NoFailure'
    BY <1>0, <2>1, Failures DEF NoFailure, Complete, Unfinished
  <2>3. faults' <= 1 => OneFailure'
    BY <1>0, <2>1, Failures, TextFacts DEF NoFailure, OneFailure, Complete, Spent, Unfinished
  <2> QED
    BY <2>2, <2>3 DEF WholeInv
<1>3. CASE PublishMarker
  <2>1. /\ pc = "publish" /\ dir' = dir /\ Complete(target)
        /\ \/ /\ pc' = "run" /\ pending' = pendingTmp /\ pendingTmp' = NoFile
              /\ pendingTmp # NoFile /\ Works
           \/ /\ pc' = "undo" /\ UNCHANGED <<pending, pendingTmp>>
              /\ (pendingTmp = NoFile \/ ~Works)
    BY <1>3, FaultsNatural DEF PublishMarker, Goto, Answer, Works, Fails, IInv, StagingInv
  <2>2. faults' = 0 => NoFailure'
    BY <1>0, <2>1, Failures, TextFacts DEF NoFailure, Complete, Unfinished
  <2>3. faults' <= 1 => OneFailure'
    BY <1>0, <2>1, Failures, TextFacts DEF NoFailure, OneFailure, Complete, Spent, Unfinished
  <2> QED
    BY <2>2, <2>3 DEF WholeInv
<1>4. CASE Undo
  <2>1. /\ pc = "undo" /\ pc' = "run" /\ UNCHANGED <<pending, pendingTmp>>
        /\ \A v \in Versions : v # target => dir'[v] = dir[v]
    BY <1>0, <1>4 DEF Undo, Goto, Answer
  <2>2. faults' = 0 => NoFailure'
    BY <1>0, <2>1, Failures DEF NoFailure
  <2>3. faults' <= 1 => OneFailure'
    BY <1>0, <2>1, Failures DEF OneFailure, Complete, Spent, Unfinished
  <2> QED
    BY <2>2, <2>3 DEF WholeInv
<1> QED
  BY <1>1, <1>2, <1>3, <1>4 DEF Job

\* The game's end cuts at most the removal of a version that is not in use short.
LEMMA WholeExit == ASSUME IInv, WholeInv, Exit PROVE WholeInv'
<1>1. /\ UNCHANGED <<pending, active, activeCut, faults>> /\ pc' = "off" /\ running' = NoFile
      /\ \/ dir' = dir
         \/ pc = "undo" /\ dir' = [dir EXCEPT ![target] = "partial"]
      /\ dir \in [Versions -> {"none", "whole", "short", "partial"}]
      /\ pc = "undo" => target \in Versions
  BY DEF Exit, IInv, TypeOK, StagingInv, Unfinished
<1>2. faults = 0 => NoFailure'
  BY <1>1 DEF WholeInv, NoFailure, Complete, Unfinished
<1>3. faults <= 1 => OneFailure'
  BY <1>1 DEF WholeInv, OneFailure, Complete, Spent, Unfinished
<1> QED
  BY <1>1, <1>2, <1>3 DEF WholeInv

LEMMA WholeNext == IInv /\ WholeInv /\ [Next]_vars => WholeInv'
<1> SUFFICES ASSUME IInv, WholeInv, [Next]_vars PROVE WholeInv'
  OBVIOUS
<1> USE DEF WholeInv, NoFailure, OneFailure, Complete, Spent, Unfinished
<1>1. CASE Launch
  BY <1>1 DEF Launch, Goto, files
<1>2. ASSUME NEW v \in Versions, Stage(v) PROVE WholeInv'
  BY <1>2 DEF Stage, Goto, files, history
<1>3. CASE UNCHANGED vars
  BY <1>3 DEF vars, files, history
<1> QED
  BY <1>1, <1>2, <1>3, WholeBootstrap, WholeJob, WholeExit DEF Next

\* The version shipped stays whole whatever fails; the one that runs and the one
\* active.txt names are in place until a second file-system call fails, unless the first
\* cut active.txt short: no end of the game in the middle of a staging or an activation,
\* and no failed rename, removal or marker, takes a version in use away (vanahub.lua;
\* engine.cpp, stageSelfUpdate).
THEOREM OneFailureIsSurvived == Spec => [](faults <= 1 => VersionsInUseWhole)
<1>1. IInv /\ WholeInv => (faults <= 1 => VersionsInUseWhole)
  BY DEF IInv, StagingInv, WholeInv, OneFailure, VersionsInUseWhole
<1> QED
  BY <1>1, Invariance, WholeInit, WholeNext, PTL DEF Spec
=============================================================================
