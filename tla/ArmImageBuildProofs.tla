------------------------ MODULE ArmImageBuildProofs ------------------------
(***************************************************************************)
(* Proofs about ArmImageBuild, for every value of its constants: what a    *)
(* build leaves on its host, what an artifact says of its build, that a    *)
(* build implements BuildPromise, that no interpreter stays behind, what   *)
(* the provisioners find, and that no mount hides another.                 *)
(***************************************************************************)
EXTENDS ArmImageBuild, SequenceTheorems, TLAPS

\* The pipeline has twelve steps.
LEMMA PipelineLength == Len(Pipeline) = 12
  BY DEF Pipeline

\* An entry of ChrootMounts is one of ExtraMounts, or /etc/resolv.conf.
LEMMA ChrootMountsEntries ==
  /\ Len(ChrootMounts) \in Nat
  /\ \A k \in 1..Len(ChrootMounts) :
        ChrootMounts[k] # ResolvConf => ChrootMounts[k] \in ExtraPoints
  BY MountsAssumption DEF ChrootMounts, ExtraPoints, Range

\* What the loop of stepMountImage mounts on is a configured mount point.
LEMMA ToMountPoints == ASSUME NEW i \in ToMount PROVE ImageMounts[i] \in ImagePoints
  BY MountsAssumption DEF ToMount, ImagePoints, Range

\* Dropping the last entry of a list leaves a list of the same entries.
LEMMA DropLast ==
  ASSUME NEW S, NEW s \in Seq(S), s # << >>
  PROVE  /\ SubSeq(s, 1, Len(s) - 1) \in Seq(S)
         /\ Len(SubSeq(s, 1, Len(s) - 1)) = Len(s) - 1
         /\ \A i \in 1..(Len(s) - 1) : SubSeq(s, 1, Len(s) - 1)[i] = s[i]
<1>1. Len(s) \in Nat \ {0}
  OBVIOUS
<1>2. \A i \in 1..(Len(s) - 1) : s[i] \in S
  BY <1>1
<1>3. Len(s) - 1 \in Int /\ 1 \in Int
  BY <1>1
<1>4. /\ SubSeq(s, 1, Len(s) - 1) \in Seq(S)
      /\ Len(SubSeq(s, 1, Len(s) - 1)) =
            IF 1 <= Len(s) - 1 THEN (Len(s) - 1) - 1 + 1 ELSE 0
      /\ \A i \in 1..((Len(s) - 1) - 1 + 1) :
            SubSeq(s, 1, Len(s) - 1)[i] = s[1 + i - 1]
  BY <1>2, <1>3, SubSeqProperties
<1>5. Len(SubSeq(s, 1, Len(s) - 1)) = Len(s) - 1
  <2>1. CASE Len(s) = 1
    <3>1. ~(1 <= Len(s) - 1) /\ Len(s) - 1 = 0
      BY <2>1
    <3> QED
      BY <3>1, <1>4
  <2>2. CASE Len(s) # 1
    <3>1. 1 <= Len(s) - 1 /\ (Len(s) - 1) - 1 + 1 = Len(s) - 1
      BY <2>2, <1>1
    <3> QED
      BY <3>1, <1>4
  <2> QED
    BY <2>1, <2>2
<1>6. \A i \in 1..(Len(s) - 1) : SubSeq(s, 1, Len(s) - 1)[i] = s[i]
  <2> TAKE i \in 1..(Len(s) - 1)
  <2>1. i \in 1..((Len(s) - 1) - 1 + 1) /\ 1 + i - 1 = i
    BY <1>1
  <2> QED
    BY <2>1, <1>4
<1> QED
  BY <1>4, <1>5, <1>6

-----------------------------------------------------------------------------
(* Types *)

\* The configuration, the context and the bag keep their types when they stay.
LEMMA BuildKept ==
  ASSUME BuildTypeOK, UNCHANGED <<config, ctxDone, bag, result>> PROVE BuildTypeOK'
  BY DEF BuildTypeOK

\* The runner's variables keep their types when they stay.
LEMMA RunnerKept == ASSUME RunnerTypeOK, UNCHANGED runnerVars PROVE RunnerTypeOK'
  BY DEF RunnerTypeOK, runnerVars

\* What a Run that returns, a Run that panics and a Cleanup that ends do to the
\* runner.
LEMMA ReturnTyped ==
  ASSUME RunnerTypeOK, phase \in {"run", "mounting"},
         NEW act \in {"continue", "halt"}, Return(act)
  PROVE  RunnerTypeOK'
  BY PipelineLength DEF RunnerTypeOK, Return

\* A Run that panics leaves the runner in a state it can be in.
LEMMA PanicTyped == ASSUME RunnerTypeOK, RunPanics PROVE RunnerTypeOK'
  BY PipelineLength DEF RunnerTypeOK, RunPanics

\* The end of a Cleanup leaves the runner in a state it can be in.
LEMMA CleanupEndsTyped ==
  ASSUME RunnerTypeOK, phase = "cleanup", depth > 0,
         NEW panics \in BOOLEAN, CleanupEnds(panics)
  PROVE  RunnerTypeOK'
<1>1. panicked' \in BOOLEAN
  BY DEF RunnerTypeOK, CleanupEnds
<1>2. depth' \in 0..Len(Pipeline)
  BY PipelineLength DEF RunnerTypeOK, CleanupEnds
<1> QED
  BY <1>1, <1>2 DEF RunnerTypeOK, CleanupEnds

\* The steps' own fields keep their types when they stay.
LEMMA StepKept == ASSUME StepTypeOK, UNCHANGED stepVars PROVE StepTypeOK'
  BY DEF StepTypeOK, stepVars

\* The host keeps its types when nothing happens to it.
LEMMA HostKept == ASSUME HostTypeOK, UNCHANGED <<hostVars, swallowed>> PROVE HostTypeOK'
  BY DEF HostTypeOK, hostVars

\* Every state of a build has the types the builder's fields have.
THEOREM TypeCorrect == Spec => []TypeOK
<1>1. Init => TypeOK
  <2> SUFFICES ASSUME Init PROVE TypeOK
    OBVIOUS
  <2>1. BuildTypeOK
    BY DEF Init, BuildTypeOK
  <2>4. RunnerTypeOK
    <3>1. /\ phase = "check" /\ idx = 1 /\ depth = 0
          /\ action = "continue" /\ panicked = FALSE
      BY DEF Init
    <3>2. idx \in 1..(Len(Pipeline) + 1) /\ depth \in 0..Len(Pipeline)
      BY <3>1, PipelineLength
    <3> QED
      BY <3>1, <3>2 DEF RunnerTypeOK
  <2>2. StepTypeOK
    BY DEF Init, StepTypeOK
  <2>3. HostTypeOK
    BY DEF Init, HostTypeOK
  <2> QED
    BY <2>1, <2>2, <2>3, <2>4 DEF TypeOK
<1>2. TypeOK /\ [Next]_vars => TypeOK'
  <2> SUFFICES ASSUME TypeOK, [Next]_vars PROVE TypeOK'
    OBVIOUS
  <2>0. BuildTypeOK /\ RunnerTypeOK /\ StepTypeOK /\ HostTypeOK
    BY DEF TypeOK
  <2>1. CASE CheckCancelled
    <3>1. BuildTypeOK'
      BY <2>0, <2>1 DEF CheckCancelled, BuildTypeOK, stepVars, hostVars, Keys
    <3>2. RunnerTypeOK'
      BY <2>0, <2>1, PipelineLength DEF CheckCancelled, RunnerTypeOK, stepVars, hostVars
    <3>3. StepTypeOK'
      BY <2>0, <2>1, StepKept DEF CheckCancelled, stepVars
    <3>4. HostTypeOK'
      BY <2>0, <2>1, HostKept DEF CheckCancelled, hostVars
    <3> QED
      BY <3>1, <3>2, <3>3, <3>4 DEF TypeOK
  <2>2. CASE SkipStep
    <3>1. BuildTypeOK'
      BY <2>0, <2>2, BuildKept DEF SkipStep
    <3>2. RunnerTypeOK'
      BY <2>0, <2>2, PipelineLength DEF SkipStep, RunnerTypeOK, stepVars, hostVars
    <3>3. StepTypeOK'
      BY <2>0, <2>2, StepKept DEF SkipStep, stepVars
    <3>4. HostTypeOK'
      BY <2>0, <2>2, HostKept DEF SkipStep, hostVars
    <3> QED
      BY <3>1, <3>2, <3>3, <3>4 DEF TypeOK
  <2>3. CASE NoMoreSteps
    <3>1. BuildTypeOK'
      BY <2>0, <2>3, BuildKept DEF NoMoreSteps
    <3>2. RunnerTypeOK'
      BY <2>0, <2>3, PipelineLength DEF NoMoreSteps, RunnerTypeOK, stepVars, hostVars
    <3>3. StepTypeOK'
      BY <2>0, <2>3, StepKept DEF NoMoreSteps, stepVars
    <3>4. HostTypeOK'
      BY <2>0, <2>3, HostKept DEF NoMoreSteps, hostVars
    <3> QED
      BY <3>1, <3>2, <3>3, <3>4 DEF TypeOK
  <2>4. CASE AfterStep
    <3>1. BuildTypeOK'
      BY <2>0, <2>4 DEF AfterStep, BuildTypeOK, stepVars, hostVars, Keys
    <3>2. RunnerTypeOK'
      BY <2>0, <2>4, PipelineLength DEF AfterStep, RunnerTypeOK, stepVars, hostVars
    <3>3. StepTypeOK'
      BY <2>0, <2>4, StepKept DEF AfterStep, stepVars
    <3>4. HostTypeOK'
      BY <2>0, <2>4, HostKept DEF AfterStep, hostVars
    <3> QED
      BY <3>1, <3>2, <3>3, <3>4 DEF TypeOK
  <2>5. CASE NothingToClean
    <3>1. BuildTypeOK'
      BY <2>0, <2>5, BuildKept DEF NothingToClean
    <3>2. RunnerTypeOK'
      BY <2>0, <2>5, CleanupEndsTyped DEF NothingToClean, stepVars, hostVars
    <3>3. StepTypeOK'
      BY <2>0, <2>5, StepKept DEF NothingToClean, stepVars
    <3>4. HostTypeOK'
      BY <2>0, <2>5, HostKept DEF NothingToClean, hostVars
    <3> QED
      BY <3>1, <3>2, <3>3, <3>4 DEF TypeOK
  <2>6. CASE Download
    <3>1. BuildTypeOK'
      BY <2>0, <2>6 DEF Download, HaltsWithError, Return, Running, BuildTypeOK,
        stepVars, hostVars, Keys
    <3>2. RunnerTypeOK'
      BY <2>0, <2>6, ReturnTyped DEF Download, HaltsWithError, Running, stepVars, hostVars
    <3>3. StepTypeOK'
      BY <2>0, <2>6, StepKept DEF Download, stepVars
    <3>4. HostTypeOK'
      BY <2>0, <2>6, HostKept DEF Download, hostVars
    <3> QED
      BY <3>1, <3>2, <3>3, <3>4 DEF TypeOK
  <2>7. CASE CopyImage
    <3>1. BuildTypeOK'
      BY <2>0, <2>7 DEF CopyImage, HaltsSilently, Return, Running, BuildTypeOK,
        stepVars, Keys
    <3>2. RunnerTypeOK'
      BY <2>0, <2>7, ReturnTyped DEF CopyImage, HaltsSilently, Running, stepVars
    <3>3. StepTypeOK'
      BY <2>0, <2>7, StepKept DEF CopyImage, stepVars
    <3>4. HostTypeOK'
      BY <2>0, <2>7 DEF CopyImage, HaltsSilently, Return, Running, HostTypeOK, stepVars
    <3> QED
      BY <3>1, <3>2, <3>3, <3>4 DEF TypeOK
  <2>8. CASE ResizeLastPart
    <3>1. BuildTypeOK'
      BY <2>0, <2>8 DEF ResizeLastPart, HaltsSilently, Return, Running, BuildTypeOK,
        stepVars, Keys
    <3>2. RunnerTypeOK'
      BY <2>0, <2>8, ReturnTyped DEF ResizeLastPart, HaltsSilently, Running, stepVars
    <3>3. StepTypeOK'
      BY <2>0, <2>8, StepKept DEF ResizeLastPart, stepVars
    <3>4. HostTypeOK'
      BY <2>0, <2>8 DEF ResizeLastPart, HaltsSilently, Return, Running, HostTypeOK,
        stepVars
    <3> QED
      BY <3>1, <3>2, <3>3, <3>4 DEF TypeOK
  <2>9. CASE MapImage
    <3>1. BuildTypeOK'
      BY <2>0, <2>9 DEF MapImage, HaltsSilently, Return, Running, BuildTypeOK, Keys
    <3>2. RunnerTypeOK'
      BY <2>0, <2>9, ReturnTyped DEF MapImage, HaltsSilently, Running
    <3>3. StepTypeOK'
      BY <2>0, <2>9, ScanAssumption DEF MapImage, HaltsSilently, Return, Running,
        StepTypeOK
    <3>4. HostTypeOK'
      BY <2>0, <2>9 DEF MapImage, HaltsSilently, Return, Running, HostTypeOK
    <3> QED
      BY <3>1, <3>2, <3>3, <3>4 DEF TypeOK
  <2>10. CASE ResizeFs
    <3>1. BuildTypeOK'
      BY <2>0, <2>10 DEF ResizeFs, HaltsWithError, HaltsSilently, Return, RunPanics,
        Running, BuildTypeOK, stepVars, Keys
    <3>2. RunnerTypeOK'
      BY <2>0, <2>10, ReturnTyped, PanicTyped
        DEF ResizeFs, HaltsWithError, HaltsSilently, Running, stepVars
    <3>3. StepTypeOK'
      BY <2>0, <2>10, StepKept DEF ResizeFs, stepVars
    <3>4. HostTypeOK'
      BY <2>0, <2>10 DEF ResizeFs, HaltsWithError, HaltsSilently, Return, RunPanics,
        Running, HostTypeOK, stepVars
    <3> QED
      BY <3>1, <3>2, <3>3, <3>4 DEF TypeOK
  <2>11. CASE StartMounting
    <3>1. BuildTypeOK'
      BY <2>0, <2>11, BuildKept DEF StartMounting
    <3>2. RunnerTypeOK'
      BY <2>0, <2>11, ReturnTyped, PanicTyped, RunnerKept
        DEF StartMounting, Running, RunnerTypeOK, stepVars, hostVars
    <3>3. StepTypeOK'
      BY <2>0, <2>11, StepKept DEF StartMounting, stepVars
    <3>4. HostTypeOK'
      BY <2>0, <2>11, HostKept DEF StartMounting, hostVars
    <3> QED
      BY <3>1, <3>2, <3>3, <3>4 DEF TypeOK
  <2>12. CASE MountPartition
    <3>1. BuildTypeOK'
      BY <2>0, <2>12 DEF MountPartition, Return, RunFailed, BuildTypeOK, runnerVars, Keys
    <3>2. RunnerTypeOK'
      BY <2>0, <2>12, ReturnTyped, RunnerKept DEF MountPartition, runnerVars
    <3>3. StepTypeOK'
      <4>1. CASE UNCHANGED mountpoints
        BY <2>0, <2>12, <4>1 DEF MountPartition, StepTypeOK
      <4>2. ASSUME NEW i \in ToMount, mountpoints' = Append(mountpoints, ImageMounts[i])
            PROVE  StepTypeOK'
        BY <2>0, <2>12, <4>2, ToMountPoints DEF MountPartition, StepTypeOK
      <4> QED
        BY <2>12, <4>1, <4>2 DEF MountPartition
    <3>4. HostTypeOK'
      BY <2>0, <2>12, ToMountPoints DEF MountPartition, Return, RunFailed, HostTypeOK,
        runnerVars
    <3> QED
      BY <3>1, <3>2, <3>3, <3>4 DEF TypeOK
  <2>13. CASE AllMounted
    <3>1. BuildTypeOK'
      BY <2>0, <2>13 DEF AllMounted, Return, BuildTypeOK, stepVars, hostVars, Keys
    <3>2. RunnerTypeOK'
      BY <2>0, <2>13, ReturnTyped DEF AllMounted, stepVars, hostVars
    <3>3. StepTypeOK'
      BY <2>0, <2>13, StepKept DEF AllMounted, stepVars
    <3>4. HostTypeOK'
      BY <2>0, <2>13, HostKept DEF AllMounted, hostVars
    <3> QED
      BY <3>1, <3>2, <3>3, <3>4 DEF TypeOK
  <2>14. CASE MountExtra
    <3>1. BuildTypeOK'
      BY <2>0, <2>14 DEF MountExtra, HaltsWithError, Running, Return, BuildTypeOK,
        runnerVars, Keys
    <3>2. RunnerTypeOK'
      BY <2>0, <2>14, ReturnTyped, RunnerKept
        DEF MountExtra, HaltsWithError, Running, runnerVars
    <3>3. StepTypeOK'
      <4>1. CASE UNCHANGED extras
        BY <2>0, <2>14, <4>1 DEF MountExtra, StepTypeOK
      <4>2. CASE /\ ChrootMounts[Len(extras) + 1] # ResolvConf
                 /\ extras' = Append(extras, ChrootMounts[Len(extras) + 1])
        <5>1. Len(extras) \in Nat /\ Len(extras) < Len(ChrootMounts)
          BY <2>0, <2>14 DEF MountExtra, StepTypeOK
        <5>2. Len(extras) + 1 \in 1..Len(ChrootMounts)
          BY <5>1, ChrootMountsEntries
        <5>3. ChrootMounts[Len(extras) + 1] \in ExtraPoints
          BY <4>2, <5>2, ChrootMountsEntries
        <5> QED
          BY <2>0, <2>14, <4>2, <5>3 DEF MountExtra, StepTypeOK
      <4> QED
        BY <2>14, <4>1, <4>2 DEF MountExtra
    <3>4. HostTypeOK'
      BY <2>0, <2>14, ChrootMountsEntries
        DEF MountExtra, HaltsWithError, Running, Return, HostTypeOK, StepTypeOK,
          runnerVars
    <3> QED
      BY <3>1, <3>2, <3>3, <3>4 DEF TypeOK
  <2>15. CASE AllExtrasMounted
    <3>1. BuildTypeOK'
      BY <2>0, <2>15, BuildKept DEF AllExtrasMounted
    <3>2. RunnerTypeOK'
      BY <2>0, <2>15, ReturnTyped DEF AllExtrasMounted, Running, stepVars, hostVars
    <3>3. StepTypeOK'
      BY <2>0, <2>15, StepKept DEF AllExtrasMounted, stepVars
    <3>4. HostTypeOK'
      BY <2>0, <2>15, HostKept DEF AllExtrasMounted, hostVars
    <3> QED
      BY <3>1, <3>2, <3>3, <3>4 DEF TypeOK
  <2>16. CASE MountCleanup
    <3>1. BuildTypeOK'
      BY <2>0, <2>16, BuildKept DEF MountCleanup
    <3>2. RunnerTypeOK'
      BY <2>0, <2>16, ReturnTyped DEF MountCleanup, Running, stepVars, hostVars
    <3>3. StepTypeOK'
      BY <2>0, <2>16, StepKept DEF MountCleanup, stepVars
    <3>4. HostTypeOK'
      BY <2>0, <2>16, HostKept DEF MountCleanup, hostVars
    <3> QED
      BY <3>1, <3>2, <3>3, <3>4 DEF TypeOK
  <2>17. CASE HandleResolvConf
    <3>1. BuildTypeOK'
      BY <2>0, <2>17 DEF HandleResolvConf, HaltsSilently, Return, Running, BuildTypeOK,
        stepVars, hostVars, Keys
    <3>2. RunnerTypeOK'
      BY <2>0, <2>17, ReturnTyped DEF HandleResolvConf, HaltsSilently, Running,
        stepVars, hostVars
    <3>3. StepTypeOK'
      BY <2>0, <2>17, StepKept DEF HandleResolvConf, stepVars
    <3>4. HostTypeOK'
      BY <2>0, <2>17, HostKept DEF HandleResolvConf, hostVars
    <3> QED
      BY <3>1, <3>2, <3>3, <3>4 DEF TypeOK
  <2>18. CASE InstallQemu
    <3>1. BuildTypeOK'
      BY <2>0, <2>18 DEF InstallQemu, Return, RunFailed, Running, Tracked, BuildTypeOK,
        Keys
    <3>2. RunnerTypeOK'
      BY <2>0, <2>18, ReturnTyped DEF InstallQemu, Running
    <3>3. StepTypeOK'
      BY <2>0, <2>18 DEF InstallQemu, Return, RunFailed, Running, Tracked, StepTypeOK
    <3>4. HostTypeOK'
      BY <2>0, <2>18 DEF InstallQemu, Return, RunFailed, Running, Tracked, HostTypeOK
    <3> QED
      BY <3>1, <3>2, <3>3, <3>4 DEF TypeOK
  <2>19. CASE RegisterBinFmt
    <3>1. BuildTypeOK'
      BY <2>0, <2>19 DEF RegisterBinFmt, HaltsSilently, Return, Running, BuildTypeOK,
        stepVars, Keys
    <3>2. RunnerTypeOK'
      BY <2>0, <2>19, ReturnTyped DEF RegisterBinFmt, HaltsSilently, Running, stepVars
    <3>3. StepTypeOK'
      BY <2>0, <2>19, StepKept DEF RegisterBinFmt, stepVars
    <3>4. HostTypeOK'
      BY <2>0, <2>19 DEF RegisterBinFmt, HaltsSilently, Return, Running, HostTypeOK,
        stepVars
    <3> QED
      BY <3>1, <3>2, <3>3, <3>4 DEF TypeOK
  <2>20. CASE Provision
    <3>1. BuildTypeOK'
      BY <2>0, <2>20 DEF Provision, HaltsWithError, Return, Running, BuildTypeOK,
        stepVars, Keys
    <3>2. RunnerTypeOK'
      BY <2>0, <2>20, ReturnTyped DEF Provision, HaltsWithError, Running, stepVars
    <3>3. StepTypeOK'
      BY <2>0, <2>20, StepKept DEF Provision, stepVars
    <3>4. HostTypeOK'
      BY <2>0, <2>20 DEF Provision, HaltsWithError, Return, Running, HostTypeOK, stepVars
    <3> QED
      BY <3>1, <3>2, <3>3, <3>4 DEF TypeOK
  <2>21. CASE UnregisterBinFmt
    <3>1. BuildTypeOK'
      BY <2>0, <2>21, BuildKept DEF UnregisterBinFmt
    <3>2. RunnerTypeOK'
      BY <2>0, <2>21, CleanupEndsTyped DEF UnregisterBinFmt, Cleaning, stepVars
    <3>3. StepTypeOK'
      BY <2>0, <2>21, StepKept DEF UnregisterBinFmt, stepVars
    <3>4. HostTypeOK'
      BY <2>0, <2>21 DEF UnregisterBinFmt, CleanupEnds, Cleaning, HostTypeOK, stepVars
    <3> QED
      BY <3>1, <3>2, <3>3, <3>4 DEF TypeOK
  <2>22. CASE RemoveQemu
    <3>1. BuildTypeOK'
      BY <2>0, <2>22, BuildKept DEF RemoveQemu
    <3>2. RunnerTypeOK'
      BY <2>0, <2>22, CleanupEndsTyped DEF RemoveQemu, Cleaning, stepVars
    <3>3. StepTypeOK'
      BY <2>0, <2>22, StepKept DEF RemoveQemu, stepVars
    <3>4. HostTypeOK'
      BY <2>0, <2>22 DEF RemoveQemu, CleanupEnds, Cleaning, HostTypeOK, stepVars
    <3> QED
      BY <3>1, <3>2, <3>3, <3>4 DEF TypeOK
  <2>23. CASE KillProcs
    <3>1. BuildTypeOK'
      BY <2>0, <2>23, BuildKept DEF KillProcs
    <3>2. RunnerTypeOK'
      BY <2>0, <2>23, CleanupEndsTyped DEF KillProcs, Cleaning, stepVars
    <3>3. StepTypeOK'
      BY <2>0, <2>23, StepKept DEF KillProcs, stepVars
    <3>4. HostTypeOK'
      BY <2>0, <2>23 DEF KillProcs, CleanupEnds, Cleaning, HostTypeOK, stepVars
    <3> QED
      BY <3>1, <3>2, <3>3, <3>4 DEF TypeOK
  <2>24. CASE UmountExtra
    <3>1. BuildTypeOK'
      BY <2>0, <2>24, BuildKept DEF UmountExtra
    <3>2. RunnerTypeOK'
      BY <2>0, <2>24, CleanupEndsTyped, RunnerKept DEF UmountExtra, Cleaning, runnerVars
    <3>3. StepTypeOK'
      BY <2>0, <2>24, DropLast DEF UmountExtra, CleanupEnds, DropPath, Cleaning,
        StepTypeOK, runnerVars
    <3>4. HostTypeOK'
      BY <2>0, <2>24 DEF UmountExtra, CleanupEnds, DropPath, Cleaning, HostTypeOK,
        runnerVars
    <3> QED
      BY <3>1, <3>2, <3>3, <3>4 DEF TypeOK
  <2>25. CASE ExtrasUmounted
    <3>1. BuildTypeOK'
      BY <2>0, <2>25, BuildKept DEF ExtrasUmounted
    <3>2. RunnerTypeOK'
      BY <2>0, <2>25, CleanupEndsTyped DEF ExtrasUmounted, Cleaning, stepVars, hostVars
    <3>3. StepTypeOK'
      BY <2>0, <2>25, StepKept DEF ExtrasUmounted, stepVars
    <3>4. HostTypeOK'
      BY <2>0, <2>25, HostKept DEF ExtrasUmounted, hostVars
    <3> QED
      BY <3>1, <3>2, <3>3, <3>4 DEF TypeOK
  <2>26. CASE UmountPartition
    <3>1. BuildTypeOK'
      BY <2>0, <2>26 DEF UmountPartition, RunFailed, Cleaning, BuildTypeOK, runnerVars,
        Keys
    <3>2. RunnerTypeOK'
      BY <2>0, <2>26, RunnerKept DEF UmountPartition, runnerVars
    <3>3. StepTypeOK'
      BY <2>0, <2>26, DropLast DEF UmountPartition, RunFailed, Cleaning, StepTypeOK,
        runnerVars
    <3>4. HostTypeOK'
      BY <2>0, <2>26 DEF UmountPartition, RunFailed, Cleaning, HostTypeOK, runnerVars
    <3> QED
      BY <3>1, <3>2, <3>3, <3>4 DEF TypeOK
  <2>27. CASE ImageUmounted
    <3>1. BuildTypeOK'
      BY <2>0, <2>27, BuildKept DEF ImageUmounted
    <3>2. RunnerTypeOK'
      BY <2>0, <2>27, CleanupEndsTyped DEF ImageUmounted, Cleaning, stepVars, hostVars
    <3>3. StepTypeOK'
      BY <2>0, <2>27, StepKept DEF ImageUmounted, stepVars
    <3>4. HostTypeOK'
      BY <2>0, <2>27, HostKept DEF ImageUmounted, hostVars
    <3> QED
      BY <3>1, <3>2, <3>3, <3>4 DEF TypeOK
  <2>28. CASE UnmapImage
    <3>1. BuildTypeOK'
      BY <2>0, <2>28 DEF UnmapImage, CleanupEnds, RunFailed, Cleaning, BuildTypeOK,
        stepVars, Keys
    <3>2. RunnerTypeOK'
      BY <2>0, <2>28, CleanupEndsTyped DEF UnmapImage, Cleaning, stepVars
    <3>3. StepTypeOK'
      BY <2>0, <2>28, StepKept DEF UnmapImage, stepVars
    <3>4. HostTypeOK'
      BY <2>0, <2>28 DEF UnmapImage, CleanupEnds, RunFailed, Cleaning, HostTypeOK,
        stepVars
    <3> QED
      BY <3>1, <3>2, <3>3, <3>4 DEF TypeOK
  <2>29. CASE RunnerReturns
    <3>1. BuildTypeOK'
      BY <2>0, <2>29, BuildKept DEF RunnerReturns
    <3>2. RunnerTypeOK'
      BY <2>0, <2>29, PipelineLength DEF RunnerReturns, RunnerTypeOK, stepVars, hostVars
    <3>3. StepTypeOK'
      BY <2>0, <2>29, StepKept DEF RunnerReturns, stepVars
    <3>4. HostTypeOK'
      BY <2>0, <2>29, HostKept DEF RunnerReturns, hostVars
    <3> QED
      BY <3>1, <3>2, <3>3, <3>4 DEF TypeOK
  <2>30. CASE BuilderReturns
    <3>1. BuildTypeOK'
      BY <2>0, <2>30 DEF BuilderReturns, Outcome, BuildTypeOK, stepVars, hostVars
    <3>2. RunnerTypeOK'
      BY <2>0, <2>30, PipelineLength DEF BuilderReturns, Outcome, RunnerTypeOK,
        stepVars, hostVars
    <3>3. StepTypeOK'
      BY <2>0, <2>30, StepKept DEF BuilderReturns, stepVars
    <3>4. HostTypeOK'
      BY <2>0, <2>30, HostKept DEF BuilderReturns, hostVars
    <3> QED
      BY <3>1, <3>2, <3>3, <3>4 DEF TypeOK
  <2>31. CASE Cancel
    <3>1. BuildTypeOK'
      BY <2>0, <2>31 DEF Cancel, BuildTypeOK, runnerVars, stepVars, hostVars
    <3>2. RunnerTypeOK'
      BY <2>0, <2>31, RunnerKept DEF Cancel, runnerVars
    <3>3. StepTypeOK'
      BY <2>0, <2>31, StepKept DEF Cancel, stepVars
    <3>4. HostTypeOK'
      BY <2>0, <2>31, HostKept DEF Cancel, hostVars
    <3> QED
      BY <3>1, <3>2, <3>3, <3>4 DEF TypeOK
  <2>32. CASE WatcherMarksCancelled
    <3>1. BuildTypeOK'
      BY <2>0, <2>32 DEF WatcherMarksCancelled, BuildTypeOK, runnerVars, stepVars,
        hostVars, Keys
    <3>2. RunnerTypeOK'
      BY <2>0, <2>32, RunnerKept DEF WatcherMarksCancelled, runnerVars
    <3>3. StepTypeOK'
      BY <2>0, <2>32, StepKept DEF WatcherMarksCancelled, stepVars
    <3>4. HostTypeOK'
      BY <2>0, <2>32, HostKept DEF WatcherMarksCancelled, hostVars
    <3> QED
      BY <3>1, <3>2, <3>3, <3>4 DEF TypeOK
  <2>33. CASE ProcsExit
    <3>1. BuildTypeOK'
      BY <2>0, <2>33, BuildKept DEF ProcsExit
    <3>2. RunnerTypeOK'
      BY <2>0, <2>33, RunnerKept DEF ProcsExit, runnerVars
    <3>3. StepTypeOK'
      BY <2>0, <2>33, StepKept DEF ProcsExit, stepVars
    <3>4. HostTypeOK'
      BY <2>0, <2>33 DEF ProcsExit, HostTypeOK, runnerVars, stepVars
    <3> QED
      BY <3>1, <3>2, <3>3, <3>4 DEF TypeOK
  <2>34. CASE Over \/ UNCHANGED vars
    BY <2>0, <2>34, BuildKept, RunnerKept, StepKept, HostKept DEF Over, vars, TypeOK
  <2> QED
    BY <2>1, <2>2, <2>3, <2>4, <2>5, <2>6, <2>7, <2>8, <2>9, <2>10, <2>11, <2>12,
      <2>13, <2>14, <2>15, <2>16, <2>17, <2>18, <2>19, <2>20, <2>21, <2>22, <2>23,
        <2>24, <2>25, <2>26, <2>27, <2>28, <2>29, <2>30, <2>31, <2>32, <2>33, <2>34
          DEF Next, Builder
<1> QED
  BY <1>1, <1>2, PTL DEF Spec

-----------------------------------------------------------------------------
(* Moves of the runner: what an action can do to the place the build is at *)

\* Where the steps the invariant speaks of are in the pipeline.
LEMMA PipelinePlaces ==
  \A k \in 1..12 : /\ Pipeline[k] = "MapImage" <=> k = MapIdx
                   /\ Pipeline[k] = "MountImage" <=> k = MountIdx
                   /\ Pipeline[k] = "MountExtra" <=> k = MountIdx + 1
  BY DEF Pipeline, MapIdx, MountIdx

\* The place of a step whose Cleanup the runner is in.
LEMMA CleaningPlace ==
  ASSUME TypeOK, NEW step, Cleaning(step)
  PROVE  /\ phase = "cleanup" /\ depth > 0
         /\ depth = MapIdx <=> step = "MapImage"
         /\ depth = MountIdx <=> step = "MountImage"
<1>1. depth \in 1..12 /\ phase = "cleanup" /\ Pipeline[depth] = step
  BY PipelineLength DEF Cleaning, TypeOK, RunnerTypeOK
<1> QED
  BY <1>1, PipelinePlaces

\* The runner maps and mounts the image whatever the configuration is.
LEMMA AlwaysIncluded == Included("MapImage") /\ Included("MountImage")
  BY DEF Included

ReturnsFrom ==
  /\ phase \in {"run", "mounting"} /\ Return(action')
  /\ action' = "continue" /\ idx = MountIdx => AllMounted
  /\ action' = "continue" /\ idx = MapIdx => MapImage

PanicsFrom == phase = "run" /\ RunPanics

EndsCleanup ==
  /\ phase = "cleanup" /\ depth > 0
  /\ \E panics \in BOOLEAN : CleanupEnds(panics)
  /\ depth = MountIdx => mountpoints = << >>
  /\ depth = MapIdx => UnmapImage

EntersMounting ==
  /\ Running("MountImage") /\ OnePerMount(partitions) /\ partitions # Torn
  /\ phase' = "mounting" /\ UNCHANGED <<idx, depth, action, panicked>>

Move ==
  \/ UNCHANGED runnerVars
  \/ ReturnsFrom \/ PanicsFrom \/ EndsCleanup \/ EntersMounting
  \/ CheckCancelled \/ SkipStep \/ NoMoreSteps \/ AfterStep
  \/ RunnerReturns \/ BuilderReturns

\* Every step is one of these moves, and takes no key out of the bag.
LEMMA Moves ==
  ASSUME TypeOK, RunnerInv, [Next]_vars
  PROVE  Move /\ bag \subseteq bag' /\ (result' = result \/ BuilderReturns)
<1> USE PipelineLength, PipelinePlaces DEF MapIdx, MountIdx
<1>0. idx \in 1..13 /\ depth \in 0..12
  BY DEF TypeOK, RunnerTypeOK
<1>1. CASE CheckCancelled
  BY <1>0, <1>1 DEF Move, CheckCancelled
<1>2. CASE SkipStep
  BY <1>0, <1>2 DEF Move, SkipStep
<1>3. CASE NoMoreSteps
  BY <1>0, <1>3 DEF Move, NoMoreSteps
<1>4. CASE AfterStep
  BY <1>0, <1>4 DEF Move, AfterStep
<1>5. CASE NothingToClean
  <2>1. phase = "cleanup" /\ depth > 0 /\ depth # MapIdx /\ depth # MountIdx
    BY <1>0, <1>5, AlwaysIncluded DEF NothingToClean
  <2>2. \E panics \in BOOLEAN : CleanupEnds(panics)
    BY <1>5 DEF NothingToClean
  <2> QED
    BY <1>5, <2>1, <2>2 DEF Move, EndsCleanup, NothingToClean
<1>6. CASE Download
  BY <1>0, <1>6 DEF Move, ReturnsFrom, Download, HaltsWithError, Return, Running
<1>7. CASE CopyImage
  BY <1>0, <1>7 DEF Move, ReturnsFrom, CopyImage, HaltsSilently, Return, Running
<1>8. CASE ResizeLastPart
  BY <1>0, <1>8 DEF Move, ReturnsFrom, ResizeLastPart, HaltsSilently, Return, Running
<1>9. CASE MapImage
  BY <1>0, <1>9 DEF Move, ReturnsFrom, MapImage, HaltsSilently, Return, Running
<1>10. CASE ResizeFs
  BY <1>0, <1>10 DEF Move, ReturnsFrom, PanicsFrom, ResizeFs, HaltsWithError,
    HaltsSilently, Return, Running
<1>11. CASE StartMounting
  BY <1>0, <1>11 DEF Move, ReturnsFrom, PanicsFrom, EntersMounting, StartMounting,
    Return, Running
<1>12. CASE MountPartition
  BY <1>0, <1>12 DEF Move, ReturnsFrom, MountPartition, Return, RunFailed, RunnerInv
<1>13. CASE AllMounted
  BY <1>0, <1>13 DEF Move, ReturnsFrom, AllMounted, Return, RunnerInv
<1>14. CASE MountExtra
  BY <1>0, <1>14 DEF Move, ReturnsFrom, MountExtra, HaltsWithError, Running, Return
<1>15. CASE AllExtrasMounted
  BY <1>0, <1>15 DEF Move, ReturnsFrom, AllExtrasMounted, Return, Running
<1>16. CASE MountCleanup
  BY <1>0, <1>16 DEF Move, ReturnsFrom, MountCleanup, Return, Running
<1>17. CASE HandleResolvConf
  BY <1>0, <1>17 DEF Move, ReturnsFrom, HandleResolvConf, HaltsSilently, Return, Running
<1>18. CASE InstallQemu
  BY <1>0, <1>18 DEF Move, ReturnsFrom, InstallQemu, Return, RunFailed, Running
<1>19. CASE RegisterBinFmt
  BY <1>0, <1>19 DEF Move, ReturnsFrom, RegisterBinFmt, HaltsSilently, Return, Running
<1>20. CASE Provision
  BY <1>0, <1>20 DEF Move, ReturnsFrom, Provision, HaltsWithError, Return, Running
<1>21. CASE UnregisterBinFmt
  <2>1. phase = "cleanup" /\ depth > 0 /\ depth # MapIdx /\ depth # MountIdx
    BY <1>21, CleaningPlace DEF UnregisterBinFmt
  <2>2. \E panics \in BOOLEAN : CleanupEnds(panics)
    BY <1>21 DEF UnregisterBinFmt
  <2> QED
    BY <1>21, <2>1, <2>2 DEF Move, EndsCleanup, UnregisterBinFmt
<1>22. CASE RemoveQemu
  <2>1. phase = "cleanup" /\ depth > 0 /\ depth # MapIdx /\ depth # MountIdx
    BY <1>22, CleaningPlace DEF RemoveQemu
  <2>2. \E panics \in BOOLEAN : CleanupEnds(panics)
    BY <1>22 DEF RemoveQemu
  <2> QED
    BY <1>22, <2>1, <2>2 DEF Move, EndsCleanup, RemoveQemu
<1>23. CASE KillProcs
  <2>1. phase = "cleanup" /\ depth > 0 /\ depth # MapIdx /\ depth # MountIdx
    BY <1>23, CleaningPlace DEF KillProcs
  <2>2. \E panics \in BOOLEAN : CleanupEnds(panics)
    BY <1>23 DEF KillProcs
  <2> QED
    BY <1>23, <2>1, <2>2 DEF Move, EndsCleanup, KillProcs
<1>24. CASE UmountExtra
  <2>1. phase = "cleanup" /\ depth > 0 /\ depth # MapIdx /\ depth # MountIdx
    BY <1>24, CleaningPlace DEF UmountExtra
  <2>2. UNCHANGED runnerVars \/ \E panics \in BOOLEAN : CleanupEnds(panics)
    BY <1>24 DEF UmountExtra
  <2> QED
    BY <1>24, <2>1, <2>2 DEF Move, EndsCleanup, UmountExtra
<1>25. CASE ExtrasUmounted
  <2>1. phase = "cleanup" /\ depth > 0 /\ depth # MapIdx /\ depth # MountIdx
    BY <1>25, CleaningPlace DEF ExtrasUmounted
  <2>2. \E panics \in BOOLEAN : CleanupEnds(panics)
    BY <1>25 DEF ExtrasUmounted
  <2> QED
    BY <1>25, <2>1, <2>2 DEF Move, EndsCleanup, ExtrasUmounted
<1>26. CASE UmountPartition
  BY <1>0, <1>26, CleaningPlace DEF Move, UmountPartition, RunFailed
<1>27. CASE ImageUmounted
  BY <1>0, <1>27, CleaningPlace DEF Move, EndsCleanup, ImageUmounted
<1>28. CASE UnmapImage
  BY <1>0, <1>28, CleaningPlace DEF Move, EndsCleanup, UnmapImage, RunFailed
<1>29. CASE RunnerReturns
  BY <1>0, <1>29 DEF Move, RunnerReturns
<1>30. CASE BuilderReturns
  BY <1>0, <1>30 DEF Move, BuilderReturns
<1>31. CASE Cancel
  BY <1>0, <1>31 DEF Move, Cancel
<1>32. CASE WatcherMarksCancelled
  BY <1>0, <1>32 DEF Move, WatcherMarksCancelled
<1>33. CASE ProcsExit
  BY <1>0, <1>33 DEF Move, ProcsExit
<1>34. CASE Over \/ UNCHANGED vars
  BY <1>34 DEF Move, Over, vars
<1> QED
  BY <1>1, <1>2, <1>3, <1>4, <1>5, <1>6, <1>7, <1>8, <1>9, <1>10, <1>11, <1>12, <1>13,
    <1>14, <1>15, <1>16, <1>17, <1>18, <1>19, <1>20, <1>21, <1>22, <1>23, <1>24, <1>25,
      <1>26, <1>27, <1>28, <1>29, <1>30, <1>31, <1>32, <1>33, <1>34 DEF Next, Builder

-----------------------------------------------------------------------------
(* ReleaseInv is inductive *)

\* The runner begins before the first step, with nothing deferred.
LEMMA RunnerInvInit == Init => RunnerInv
  BY PipelineLength DEF Init, RunnerInv, Building, MountIdx

\* Every move of the runner keeps depth and idx one behind the other.
LEMMA RunnerInvStep ==
  ASSUME TypeOK, TypeOK', RunnerInv, [Next]_vars
  PROVE  RunnerInv'
<1> USE PipelineLength, PipelinePlaces DEF RunnerInv, Building, MountIdx
<1>1. Move /\ bag \subseteq bag' /\ (result' = result \/ BuilderReturns)
  BY Moves
<1>2. /\ idx \in 1..13 /\ depth \in 0..12 /\ idx' \in 1..13 /\ depth' \in 0..12
      /\ phase \in {"check", "run", "mounting", "after", "cleanup", "result",
                    "returned", "crashed"}
      /\ phase \in {"run", "mounting", "after"} => idx <= 12
      /\ action \in {"continue", "halt"}
  BY DEF TypeOK, RunnerTypeOK
<1>3. CASE UNCHANGED runnerVars
  BY <1>1, <1>2, <1>3 DEF runnerVars, BuilderReturns
<1>4. CASE ReturnsFrom
  BY <1>1, <1>2, <1>4 DEF ReturnsFrom, Return, BuilderReturns
<1>5. CASE PanicsFrom
  BY <1>1, <1>2, <1>5 DEF PanicsFrom, RunPanics, BuilderReturns
<1>6. CASE EndsCleanup
  BY <1>1, <1>2, <1>6 DEF EndsCleanup, CleanupEnds, BuilderReturns
<1>7. CASE EntersMounting
  BY <1>1, <1>2, <1>7 DEF EntersMounting, Running, BuilderReturns
<1>8. CASE CheckCancelled
  BY <1>1, <1>2, <1>8 DEF CheckCancelled, BuilderReturns
<1>9. CASE SkipStep
  BY <1>1, <1>2, <1>9, AlwaysIncluded DEF SkipStep, BuilderReturns
<1>10. CASE NoMoreSteps
  BY <1>1, <1>2, <1>10 DEF NoMoreSteps, BuilderReturns
<1>11. CASE AfterStep
  BY <1>1, <1>2, <1>11 DEF AfterStep, BuilderReturns
<1>12. CASE RunnerReturns
  BY <1>1, <1>2, <1>12 DEF RunnerReturns, BuilderReturns
<1>13. CASE BuilderReturns
  BY <1>1, <1>2, <1>13 DEF BuilderReturns
<1> QED
  BY <1>1, <1>3, <1>4, <1>5, <1>6, <1>7, <1>8, <1>9, <1>10, <1>11, <1>12, <1>13 DEF Move

\* A build never goes back to building; a stage is done once its action ends it;
\* and the deferred Cleanups of the mounts are passed only when they are done.
LEMMA Progress ==
  ASSUME TypeOK, RunnerInv, [Next]_vars
  PROVE  /\ Building' => Building
         /\ Done(MountIdx)' => Done(MountIdx) \/ AllMounted
         /\ Done(MapIdx)' => Done(MapIdx) \/ MapImage
         /\ depth' < MountIdx /\ phase' # "mounting"
               => \/ mountpoints = << >>
                  \/ depth < MountIdx /\ phase # "mounting"
         /\ ~Building' /\ depth' < MapIdx /\ Done(MountIdx)'
               => (~Building /\ depth < MapIdx /\ Done(MountIdx)) \/ UnmapImage
<1> USE PipelineLength, PipelinePlaces DEF RunnerInv, Building, Done, MountIdx, MapIdx
<1>1. Move
  BY Moves
<1>2. /\ idx \in 1..13 /\ depth \in 0..12
      /\ phase \in {"check", "run", "mounting", "after", "cleanup", "result",
                    "returned", "crashed"}
      /\ action \in {"continue", "halt"}
  BY DEF TypeOK, RunnerTypeOK
<1>3. CASE UNCHANGED runnerVars
  BY <1>2, <1>3 DEF runnerVars
<1>4. CASE ReturnsFrom
  BY <1>2, <1>4 DEF ReturnsFrom, Return
<1>5. CASE PanicsFrom
  BY <1>2, <1>5 DEF PanicsFrom, RunPanics
<1>6. CASE EndsCleanup
  BY <1>2, <1>6 DEF EndsCleanup, CleanupEnds
<1>7. CASE EntersMounting
  BY <1>2, <1>7 DEF EntersMounting, Running
<1>8. CASE CheckCancelled
  BY <1>2, <1>8 DEF CheckCancelled
<1>9. CASE SkipStep
  BY <1>2, <1>9, AlwaysIncluded DEF SkipStep
<1>10. CASE NoMoreSteps
  BY <1>2, <1>10 DEF NoMoreSteps
<1>11. CASE AfterStep
  BY <1>2, <1>11 DEF AfterStep
<1>12. CASE RunnerReturns
  BY <1>2, <1>12 DEF RunnerReturns
<1>13. CASE BuilderReturns
  BY <1>2, <1>13 DEF BuilderReturns
<1> QED
  BY <1>1, <1>3, <1>4, <1>5, <1>6, <1>7, <1>8, <1>9, <1>10, <1>11, <1>12, <1>13 DEF Move

\* Which actions touch the mounts, and which the loop device and its partitions.
LEMMA WhoMounts ==
  ASSUME [Next]_vars
  PROVE  \/ UNCHANGED <<mounts, mountpoints>>
         \/ MountPartition \/ MountExtra \/ UmountExtra \/ UmountPartition \/ Provision
  BY DEF Next, Builder, vars, stepVars, hostVars,
         CheckCancelled, SkipStep, NoMoreSteps, AfterStep, NothingToClean, Download,
         CopyImage, ResizeLastPart, MapImage, ResizeFs, StartMounting, AllMounted,
         AllExtrasMounted, MountCleanup, HandleResolvConf, InstallQemu, RegisterBinFmt,
         UnregisterBinFmt, RemoveQemu, KillProcs, ExtrasUmounted, ImageUmounted,
         UnmapImage, RunnerReturns, BuilderReturns, Cancel, WatcherMarksCancelled,
         ProcsExit, Over

\* Only stepMapImage, its Run and its Cleanup, changes the loop device and the
\* partitions.
LEMMA WhoMaps ==
  ASSUME [Next]_vars
  PROVE  UNCHANGED <<loop, partitions>> \/ MapImage \/ UnmapImage
  BY DEF Next, Builder, vars, stepVars, hostVars,
         CheckCancelled, SkipStep, NoMoreSteps, AfterStep, NothingToClean, Download,
         CopyImage, ResizeLastPart, ResizeFs, StartMounting, MountPartition, AllMounted,
         MountExtra, AllExtrasMounted, MountCleanup, HandleResolvConf, InstallQemu,
         RegisterBinFmt, Provision, UnregisterBinFmt, RemoveQemu, KillProcs,
         UmountExtra, ExtrasUmounted, UmountPartition, ImageUmounted, RunnerReturns,
         BuilderReturns, Cancel, WatcherMarksCancelled, ProcsExit, Over

\* The root is a mount point of the image, every other path lies below it, and no
\* extra mount is a mount point of the image.
LEMMA Points ==
  /\ Root \in ImagePoints /\ Root \notin ExtraPoints
  /\ \A m \in ImagePoints \cup ExtraPoints : m \in Seq(Nat)
  /\ \A m \in ImagePoints \cup ExtraPoints : m # Root => Under(m, Root) /\ Before(Root, m)
  /\ ImagePoints \cap ExtraPoints = {}
<1>1. \A m \in ImagePoints \cup ExtraPoints : m \in Seq(Nat)
  BY MountsAssumption DEF ImagePoints, ExtraPoints, Range
<1>2. Root \in Seq(Nat) /\ Len(Root) = 0 /\ DOMAIN Root = {}
  BY DEF Root
<1>3. Root \in ImagePoints
  BY <1>2, MountsAssumption DEF ImagePoints
<1>4. \A m \in Seq(Nat) : m # Root => Under(m, Root)
  BY <1>2 DEF Under, Root
<1>5. ImagePoints \cap ExtraPoints = {}
  BY MountsAssumption
<1> QED
  BY <1>1, <1>3, <1>4, <1>5 DEF Before

\* Some partition is mounted on the root: until it is, no other one is mounted.
LEMMA RootComesFirst ==
  /\ ToMount = {} => Root \in Range(mountpoints)
  /\ \A i \in ToMount :
        (\A j \in ToMount : ~Before(ImageMounts[j], ImageMounts[i]))
           => ImageMounts[i] = Root \/ Root \in Range(mountpoints)
<1>1. PICK r \in DOMAIN ImageMounts : ImageMounts[r] = Root
  BY MountsAssumption DEF Range
<1>2. Root # NoMount
  BY Points, MountsAssumption
<1>3. r \in ToMount \/ Root \in Range(mountpoints)
  BY <1>1, <1>2 DEF ToMount
<1>4. \A i \in ToMount : ImageMounts[i] = Root \/ Before(Root, ImageMounts[i])
  BY ToMountPoints, Points
<1> QED
  BY <1>1, <1>3, <1>4

\* The entries of a list with one more, and with the last one dropped.
LEMMA RangeAppend ==
  ASSUME NEW S, NEW s \in Seq(S), NEW x \in S
  PROVE  Range(Append(s, x)) = Range(s) \cup {x}
<1> DEFINE t == Append(s, x)
<1>1. /\ DOMAIN t = 1..(Len(s) + 1) /\ DOMAIN s = 1..Len(s) /\ Len(s) \in Nat
      /\ \A i \in 1..Len(s) : t[i] = s[i]
      /\ t[Len(s) + 1] = x
  OBVIOUS
<1> HIDE DEF t
<1>2. Range(t) \subseteq Range(s) \cup {x}
  <2> SUFFICES ASSUME NEW i \in DOMAIN t PROVE t[i] \in Range(s) \cup {x}
    BY DEF Range
  <2>1. i = Len(s) + 1 \/ i \in DOMAIN s
    BY <1>1
  <2> QED
    BY <1>1, <2>1 DEF Range
<1>3. Range(s) \cup {x} \subseteq Range(t)
  <2>1. Len(s) + 1 \in DOMAIN t /\ DOMAIN s \subseteq DOMAIN t
    BY <1>1
  <2> QED
    BY <1>1, <2>1 DEF Range
<1> QED
  BY <1>2, <1>3 DEF t

\* The last entry of a list dropped: no entry of the others is lost.
LEMMA RangeDropLast ==
  ASSUME NEW S, NEW s \in Seq(S), s # << >>
  PROVE  Range(s) \subseteq Range(SubSeq(s, 1, Len(s) - 1)) \cup {s[Len(s)]}
<1> DEFINE t == SubSeq(s, 1, Len(s) - 1)
<1>1. t \in Seq(S) /\ Len(t) = Len(s) - 1 /\ \A i \in 1..(Len(s) - 1) : t[i] = s[i]
  BY DropLast
<1> HIDE DEF t
<1>2. \A i \in 1..Len(s) : i = Len(s) \/ (i \in 1..Len(t) /\ t[i] = s[i])
  BY <1>1
<1>3. DOMAIN s = 1..Len(s) /\ DOMAIN t = 1..Len(t)
  BY <1>1
<1>4. Range(s) \subseteq Range(t) \cup {s[Len(s)]}
  BY <1>2, <1>3 DEF Range
<1> QED
  BY <1>4 DEF t

\* Nothing is mounted when the build begins.
LEMMA MountInvInit == Init => MountInv
  BY DEF Init, MountInv, Done, MountIdx, Building, Range

\* Every step keeps the mount table within what the steps remember.
LEMMA MountInvStep ==
  ASSUME TypeOK, TypeOK', RunnerInv, MountInv, [Next]_vars
  PROVE  MountInv'
<1>1. /\ Building' => Building
      /\ Done(MountIdx)' => Done(MountIdx) \/ AllMounted
      /\ depth' < MountIdx /\ phase' # "mounting"
            => mountpoints = << >> \/ (depth < MountIdx /\ phase # "mounting")
  BY Progress
<1>2. bag \subseteq bag'
  BY Moves
<1>3. /\ mountpoints \in Seq(ImagePoints) /\ mounts \subseteq ImagePoints \cup ExtraPoints
      /\ Range(mountpoints) \subseteq ImagePoints /\ Range(extras) \subseteq ExtraPoints
      /\ extras \in Seq(ExtraPoints)
  BY DEF TypeOK, StepTypeOK, HostTypeOK, Range
<1>4. CASE UNCHANGED <<mounts, mountpoints>>
  <2>1. CASE AllMounted
    <3>1. Root \in Range(mountpoints) /\ Building
      BY <2>1, RootComesFirst DEF AllMounted, Building
    <3> QED
      BY <1>1, <1>2, <1>4, <3>1 DEF MountInv
  <2>2. CASE ~AllMounted
    BY <1>1, <1>2, <1>4, <2>2 DEF MountInv
  <2> QED
    BY <2>1, <2>2
<1>5. ASSUME NEW i \in ToMount, MountPartition,
             \A j \in ToMount : ~Before(ImageMounts[j], ImageMounts[i]),
             mounts' = mounts \cup {ImageMounts[i]},
             mountpoints' = Append(mountpoints, ImageMounts[i]),
             UNCHANGED <<runnerVars, bag>>
      PROVE  MountInv'
  <2>1. Range(mountpoints') = Range(mountpoints) \cup {ImageMounts[i]}
    BY <1>3, <1>5, ToMountPoints, RangeAppend
  <2>2. phase = "mounting" /\ phase' = "mounting" /\ Building /\ idx = MountIdx
    BY <1>5 DEF MountPartition, Building, runnerVars, RunnerInv
  <2>3. ImageMounts[i] = Root \/ Root \in mounts
    BY <1>5, <2>2, RootComesFirst DEF MountInv
  <2>4. ~Done(MountIdx)'
    BY <1>5, <2>2 DEF Done, runnerVars, MountIdx
  <2> QED
    BY <1>5, <2>1, <2>2, <2>3, <2>4 DEF MountInv
<1>6. ASSUME MountExtra, NEW e \in ExtraPoints, mounts' = mounts \cup {e},
             UNCHANGED <<runnerVars, bag, mountpoints>>
      PROVE  MountInv'
  <2>1. Building /\ Done(MountIdx)
    BY <1>6, PipelineLength, PipelinePlaces
    DEF MountExtra, Running, Building, Done, MountIdx, TypeOK, RunnerTypeOK
  <2> QED
    BY <1>1, <1>6, <2>1, Points DEF MountInv, Building, Done, runnerVars
<1>7. ASSUME NEW e \in ExtraPoints, mounts' = mounts \ {e},
             UNCHANGED mountpoints, ~AllMounted
      PROVE  MountInv'
  BY <1>1, <1>2, <1>3, <1>7, Points DEF MountInv
<1>8. CASE UmountPartition
  <2> DEFINE path == mountpoints[Len(mountpoints)]
  <2>1. depth = MountIdx /\ depth' = MountIdx /\ phase = "cleanup" /\ phase' = "cleanup"
    BY <1>8, CleaningPlace DEF UmountPartition, runnerVars
  <2>2. Range(mountpoints) \subseteq Range(mountpoints') \cup {path}
    BY <1>3, <1>8, RangeDropLast DEF UmountPartition
  <2>3. ~Building'
    BY <2>1 DEF Building
  <2>4. ~(depth' < MountIdx)
    BY <2>1 DEF MountIdx
  <2>5. CASE ~Busy(path) /\ mounts' = mounts \ {path}
    <3>1. path = Root => mounts' = {}
      BY <1>3, <2>5, Points DEF Busy
    <3>2. path # Root /\ mounts' # {} => Root \in mounts'
      BY <2>5 DEF MountInv
    <3> QED
      BY <1>2, <2>2, <2>3, <2>4, <2>5, <3>1, <3>2 DEF MountInv
  <2>6. CASE "error" \in bag' /\ mounts' = mounts
    BY <2>3, <2>4, <2>6 DEF MountInv
  <2> QED
    BY <1>8, <2>5, <2>6 DEF UmountPartition, RunFailed
<1>9. CASE MountPartition
  BY <1>4, <1>5, <1>9 DEF MountPartition
<1>10. CASE MountExtra
  <2>1. Len(extras) + 1 \in 1..Len(ChrootMounts)
    BY <1>3, <1>10, ChrootMountsEntries DEF MountExtra
  <2> QED
    BY <1>4, <1>6, <1>10, <2>1, ChrootMountsEntries DEF MountExtra
<1>11. CASE UmountExtra
  <2>1. extras[Len(extras)] \in ExtraPoints
    BY <1>3, <1>11 DEF UmountExtra
  <2>2. ~AllMounted
    BY <1>11 DEF UmountExtra, Cleaning, AllMounted
  <2> QED
    BY <1>4, <1>7, <1>11, <2>1, <2>2 DEF UmountExtra
<1>12. CASE Provision
  <2>1. ~AllMounted
    BY <1>12 DEF Provision, Running, AllMounted
  <2> QED
    BY <1>3, <1>4, <1>7, <1>12, <2>1 DEF Provision, stepVars
<1> QED
  BY <1>4, <1>8, <1>9, <1>10, <1>11, <1>12, WhoMounts

\* No loop device is attached when the build begins.
LEMMA LoopInvInit == Init => LoopInv
  BY DEF Init, LoopInv, Done, MountIdx, MapIdx, Building

\* What the Cleanups below stepMountImage find mounted while no error is in the bag.
LEMMA CleanHost ==
  ASSUME TypeOK, MountInv, depth < MountIdx, phase # "mounting", "error" \notin bag
  PROVE  mounts = {}
<1>1. mountpoints = << >> /\ mounts \cap ImagePoints \subseteq Range(mountpoints)
  BY DEF MountInv
<1>2. mounts \cap ImagePoints = {}
  BY <1>1 DEF Range
<1> QED
  BY <1>2, Points DEF MountInv

\* Every step keeps the loop device one that Cleanup can still find.
LEMMA LoopInvStep ==
  ASSUME TypeOK, TypeOK', RunnerInv, RunnerInv', MountInv, LoopInv, [Next]_vars
  PROVE  LoopInv'
<1> DEFINE Unmapped == ~Building /\ depth < MapIdx /\ "error" \notin bag /\ Done(MountIdx)
<1>1. /\ Done(MountIdx)' => Done(MountIdx) \/ AllMounted
      /\ Done(MapIdx)' => Done(MapIdx) \/ MapImage
      /\ ~Building' /\ depth' < MapIdx /\ Done(MountIdx)'
            => (~Building /\ depth < MapIdx /\ Done(MountIdx)) \/ UnmapImage
  BY Progress
<1>2. bag \subseteq bag' /\ (result' = result \/ BuilderReturns)
  BY Moves
<1>3. MapImage => /\ ~Done(MapIdx) /\ ~Done(MountIdx)
                  /\ ~Done(MountIdx)' /\ phase' # "mounting"
  BY PipelineLength, PipelinePlaces
  DEF MapImage, Running, Return, HaltsSilently, Done, MapIdx, MountIdx, TypeOK,
    RunnerTypeOK
<1>4. phase' = "mounting" \/ Done(MountIdx)' => partitions' # Torn /\ partitions' # << >>
  <2>1. phase' = "mounting" => phase = "mounting" \/ EntersMounting
    BY Moves DEF Move, runnerVars, ReturnsFrom, Return, PanicsFrom, RunPanics,
       EndsCleanup, CleanupEnds, CheckCancelled, SkipStep, NoMoreSteps, AfterStep,
       RunnerReturns, BuilderReturns
  <2>2. EntersMounting => partitions # Torn /\ partitions # << >>
    <3>1. Len(ImageMounts) # 0
      BY MountsAssumption DEF Range
    <3> QED
      BY <3>1 DEF EntersMounting, OnePerMount
  <2>3. AllMounted => phase = "mounting"
    BY DEF AllMounted
  <2>4. ~MapImage => partitions' = partitions
    BY WhoMaps DEF UnmapImage, stepVars
  <2> QED
    BY <1>1, <1>3, <2>1, <2>2, <2>3, <2>4 DEF LoopInv
<1>5. Done(MapIdx)' => "partitions" \in bag'
  <2>1. MapImage /\ Done(MapIdx)' => "partitions" \in bag'
    BY PipelineLength, PipelinePlaces
    DEF MapImage, Running, Return, HaltsSilently, Done, MapIdx, TypeOK, RunnerTypeOK
  <2> QED
    BY <1>1, <1>2, <2>1 DEF LoopInv
<1>6. Unmapped' => loop' = "none"
  <2> SUFFICES ASSUME Unmapped' PROVE loop' = "none"
    OBVIOUS
  <2>1. "error" \notin bag
    BY <1>2
  <2>2. CASE UnmapImage
    <3>1. depth = MapIdx /\ phase = "cleanup" /\ phase' = "cleanup"
      BY <2>2, CleaningPlace DEF UnmapImage, CleanupEnds
    <3>2. idx' = idx /\ action' = action
      BY <2>2 DEF UnmapImage, CleanupEnds
    <3>3. Done(MountIdx) /\ Done(MapIdx)
      BY <3>1, <3>2 DEF Done, MapIdx, MountIdx, TypeOK, RunnerTypeOK
    <3>4. mounts = {}
      BY <2>1, <3>1, CleanHost DEF MapIdx, MountIdx
    <3> QED
      BY <2>2, <3>3, <3>4 DEF UnmapImage, LoopInv, RunFailed
  <2>3. CASE ~UnmapImage
    <3>1. Unmapped /\ ~MapImage
      BY <1>1, <1>3, <2>1, <2>3
    <3> QED
      BY <2>3, <3>1, WhoMaps DEF LoopInv
  <2> QED
    BY <2>2, <2>3
<1>7. result' = "artifact" => mounts' = {} /\ loop' = "none"
  <2>1. CASE result' = result
    <3>1. result = "artifact" => phase = "returned"
      BY DEF RunnerInv
    <3>2. phase = "returned" => UNCHANGED <<mounts, loop>>
      BY WhoMounts, WhoMaps
      DEF MountPartition, MountExtra, UmountExtra, UmountPartition, Provision,
          MapImage, UnmapImage, Running, Cleaning
    <3> QED
      BY <2>1, <3>1, <3>2 DEF LoopInv
  <2>2. CASE BuilderReturns /\ result' = "artifact"
    <3>1. bag \cap {"error", "cancelled", "halted"} = {}
      BY <2>2 DEF BuilderReturns, Outcome
    <3>2. phase = "result" /\ depth = 0 /\ ~panicked /\ ~Building
      BY <2>2 DEF BuilderReturns, RunnerInv, Building
    <3>3. idx > 12
      BY <3>1, <3>2, PipelineLength DEF RunnerInv
    <3>4. Done(MountIdx)
      BY <3>3 DEF Done, MountIdx, TypeOK, RunnerTypeOK
    <3>5. loop = "none" /\ mounts = {}
      BY <3>1, <3>2, <3>4, CleanHost DEF LoopInv, MapIdx, MountIdx
    <3> QED
      BY <2>2, <3>5 DEF BuilderReturns, hostVars
  <2> QED
    BY <1>2, <2>1, <2>2
<1> QED
  BY <1>4, <1>5, <1>6, <1>7 DEF LoopInv

\* The inductive invariant holds in every state of a build.
THEOREM ReleaseInvariant == Spec => []ReleaseInv
<1>1. Init => ReleaseInv
  BY RunnerInvInit, MountInvInit, LoopInvInit DEF ReleaseInv
<1>2. TypeOK /\ TypeOK' /\ ReleaseInv /\ [Next]_vars => ReleaseInv'
  BY RunnerInvStep, MountInvStep, LoopInvStep DEF ReleaseInv
<1> QED
  BY <1>1, <1>2, TypeCorrect, PTL DEF Spec

\* A build that returns an artifact has unmounted everything it mounted and
\* released its loop device, however many mounts the image and the host have and
\* whatever fails on the way.
THEOREM ArtifactMeansCleanHost == Spec => []ArtifactReleasesHost
<1>1. ReleaseInv => ArtifactReleasesHost
  BY DEF ReleaseInv, LoopInv, ArtifactReleasesHost
<1> QED
  BY <1>1, ReleaseInvariant, PTL

-----------------------------------------------------------------------------
(***************************************************************************)
(* What an artifact says of the build behind it, from the release          *)
(* invariant: no umount was given up on, and no step of the pipeline or of *)
(* the growth of the image was left half done.                             *)
(***************************************************************************)

(* A logged umount failure *)

\* While an extra mount that could not be unmounted is all that is known of its
\* failure, it is still mounted, and its own Cleanup is over.
LoggedInv ==
    /\ "umountExtra" \in swallowed =>
          /\ ~Building /\ depth <= MountIdx
          /\ "error" \in bag \/ mounts \cap ExtraPoints # {}
    /\ LoggedUmountFailureIsFatal

\* Nothing has been logged when the build begins.
LEMMA LoggedInvInit == Init => LoggedInv
BY DEF Init, LoggedInv, LoggedUmountFailureIsFatal

\* Which actions log a failure.
LEMMA WhoLogs ==
    ASSUME [Next]_vars
    PROVE  UNCHANGED swallowed \/ UmountExtra \/ KillProcs \/ RemoveQemu \/ UnregisterBinFmt
BY DEF Next, Builder, vars, stepVars, hostVars,
       CheckCancelled, SkipStep, NoMoreSteps, AfterStep, NothingToClean, Download,
       CopyImage, ResizeLastPart, MapImage, ResizeFs, StartMounting, MountPartition,
       AllMounted, MountExtra, AllExtrasMounted, MountCleanup, HandleResolvConf,
       InstallQemu, RegisterBinFmt, Provision, ExtrasUmounted, UmountPartition,
       ImageUmounted, UnmapImage, RunnerReturns, BuilderReturns, Cancel,
       WatcherMarksCancelled, ProcsExit, Over

\* The three of them that log something else.
LEMMA OtherLogs ==
    ASSUME KillProcs \/ RemoveQemu \/ UnregisterBinFmt
    PROVE  swallowed' \subseteq swallowed \cup {"fuser", "remove", "deregister"}
<1>1. KillProcs => swallowed' \in {swallowed, swallowed \cup {"fuser"}}
      BY DEF KillProcs
<1>2. RemoveQemu => swallowed' \in {swallowed, swallowed \cup {"remove"}}
      BY DEF RemoveQemu
<1>3. UnregisterBinFmt => swallowed' \in {swallowed, swallowed \cup {"deregister"}}
      BY DEF UnregisterBinFmt
<1> QED BY <1>1, <1>2, <1>3

\* What is mounted on an extra mount, or below it, is an extra mount.
LEMMA ListedIsExtra ==
    ASSUME TypeOK, NEW path \in ExtraPoints, Listed(path)
    PROVE  mounts \cap ExtraPoints # {}
<1>1. PICK m \in mounts : m = path \/ Under(m, path)
      BY DEF Listed
<1>2. m \in ExtraPoints
      BY <1>1, MountsAssumption DEF TypeOK, HostTypeOK
<1> QED BY <1>2

\* A build that is being taken down only gets nearer to its end.
LEMMA OnlyDown ==
    ASSUME TypeOK, RunnerInv, [Next]_vars, ~Building PROVE depth' <= depth
<1>1. Move /\ depth \in 0..12
      BY Moves, PipelineLength DEF TypeOK, RunnerTypeOK
<1> QED BY <1>1
        DEF Move, runnerVars, Building, ReturnsFrom, PanicsFrom, EndsCleanup, CleanupEnds,
            EntersMounting, Running, CheckCancelled, SkipStep, NoMoreSteps, AfterStep,
            RunnerReturns, BuilderReturns

\* Every step keeps a logged failure in sight.
LEMMA LoggedInvStep ==
    ASSUME TypeOK, TypeOK', ReleaseInv, ReleaseInv', LoggedInv, [Next]_vars
    PROVE  LoggedInv'
<1>1. /\ Building' => Building
      /\ bag \subseteq bag' /\ (result' = result \/ BuilderReturns)
      BY Progress, Moves DEF ReleaseInv
<1>2. depth \in 0..12 /\ depth' \in 0..12
      BY PipelineLength DEF TypeOK, RunnerTypeOK
<1>3. "umountExtra" \in swallowed' =>
         /\ ~Building' /\ depth' <= MountIdx
         /\ "error" \in bag' \/ mounts' \cap ExtraPoints # {}
  <2>1. CASE "umountExtra" \in swallowed
    <3>1. ~Building /\ depth <= MountIdx
          BY <2>1 DEF LoggedInv
    <3>2. ~Building' /\ depth' <= MountIdx
          BY <1>1, <1>2, <3>1, OnlyDown DEF ReleaseInv, MountIdx
    <3>3. mounts \cap ExtraPoints \subseteq mounts'
      <4>1. ~MountPartition /\ ~MountExtra /\ ~Provision
            BY <3>1 DEF Building, MountPartition, MountExtra, Provision, Running
      <4>2. ~UmountExtra
        <5>1. SUFFICES ASSUME UmountExtra PROVE FALSE
              OBVIOUS
        <5>2. depth > 0 /\ Pipeline[depth] = "MountExtra"
              BY <5>1 DEF UmountExtra, Cleaning
        <5> QED BY <1>2, <3>1, <5>2, PipelinePlaces DEF MountIdx
      <4>3. CASE UmountPartition
        <5>1. mountpoints[Len(mountpoints)] \in ImagePoints
              BY <4>3 DEF UmountPartition, TypeOK, StepTypeOK
        <5> QED BY <4>3, <5>1, Points DEF UmountPartition
      <4> QED BY <4>1, <4>2, <4>3, WhoMounts
    <3> QED BY <1>1, <2>1, <3>2, <3>3 DEF LoggedInv
  <2>2. CASE "umountExtra" \notin swallowed /\ "umountExtra" \in swallowed'
    <3>1. UmountExtra /\ swallowed' # swallowed
      <4>1. ~(swallowed' \subseteq swallowed \cup {"fuser", "remove", "deregister"})
            BY <2>2
      <4> QED BY <2>2, <4>1, WhoLogs, OtherLogs
    <3>2. /\ CleanupEnds(FALSE) /\ mounts' = mounts
          /\ Listed(extras[Len(extras)]) /\ extras # << >>
          BY <3>1 DEF UmountExtra
    <3>3. depth = MountIdx + 1 /\ phase = "cleanup"
      <4>1. depth > 0 /\ Pipeline[depth] = "MountExtra" /\ phase = "cleanup"
            BY <3>1 DEF UmountExtra, Cleaning
      <4> QED BY <1>2, <4>1, PipelinePlaces
    <3>4. extras[Len(extras)] \in ExtraPoints
          BY <3>2 DEF TypeOK, StepTypeOK
    <3>5. ~Building' /\ depth' <= MountIdx
          BY <3>2, <3>3 DEF CleanupEnds, Building, MountIdx
    <3> QED BY <3>2, <3>4, <3>5, ListedIsExtra
  <2> QED BY <2>1, <2>2
<1>4. result' = "artifact" => "umountExtra" \notin swallowed'
  <2>1. CASE result' = result
    <3>1. result = "artifact" => phase = "returned"
          BY DEF ReleaseInv, RunnerInv
    <3>2. phase = "returned" => UNCHANGED swallowed
          BY WhoLogs DEF UmountExtra, KillProcs, RemoveQemu, UnregisterBinFmt, Cleaning
    <3> QED BY <2>1, <3>1, <3>2 DEF LoggedInv, LoggedUmountFailureIsFatal
  <2>2. CASE BuilderReturns /\ result' = "artifact"
    <3>1. "error" \notin bag'
          BY <2>2 DEF BuilderReturns, Outcome
    <3>2. mounts' = {}
          BY <2>2 DEF ReleaseInv, LoopInv
    <3> QED BY <1>3, <3>1, <3>2
  <2> QED BY <1>1, <2>1, <2>2
<1> QED BY <1>3, <1>4 DEF LoggedInv, LoggedUmountFailureIsFatal

\* StepMountExtra only logs a failed umount, but whatever the mounts are, no build
\* in which that happened returns an artifact: the umount of the root fails in turn
\* and puts an error in the bag.
THEOREM LoggedFailureFailsBuild == Spec => []LoggedUmountFailureIsFatal
<1>1. TypeOK /\ TypeOK' /\ ReleaseInv /\ ReleaseInv' /\ LoggedInv /\ [Next]_vars
      => LoggedInv'
      BY LoggedInvStep
<1>2. LoggedInv => LoggedUmountFailureIsFatal
      BY DEF LoggedInv
<1> QED BY <1>1, <1>2, LoggedInvInit, TypeCorrect, ReleaseInvariant, PTL DEF Spec

-----------------------------------------------------------------------------
(* A complete image *)

CopyIdx     == 2
ResizeIdx   == 3
ResizeFsIdx == 5

\* The partition grows only when that is configured; an image that was cut short
\* stays with a step that did not return "continue", and a partition that was grown
\* waits for its filesystem to be.
ImageInv ==
    /\ phase = "run" /\ idx = ResizeIdx => config.resize
    /\ Done(CopyIdx) => image \notin {"none", "partial"}
    /\ image = "truncated" => idx = ResizeIdx /\ phase \notin {"check", "run", "mounting"}
                              /\ (phase = "after" => action = "halt")
    /\ image = "grown" => config.resize /\ idx >= ResizeIdx /\ ~Done(ResizeFsIdx)
    /\ ArtifactIsComplete

\* There is no image when the build begins.
LEMMA ImageInvInit == Init => ImageInv
BY PipelineLength
   DEF Init, ImageInv, Done, CopyIdx, ResizeIdx, ResizeFsIdx, ArtifactIsComplete

\* Where the steps that make the image are in the pipeline.
LEMMA ImagePlaces ==
    \A k \in 1..12 : /\ Pipeline[k] = "CopyImage" <=> k = CopyIdx
                     /\ Pipeline[k] = "ResizeLastPart" <=> k = ResizeIdx
                     /\ Pipeline[k] = "ResizeFs" <=> k = ResizeFsIdx
BY DEF Pipeline, CopyIdx, ResizeIdx, ResizeFsIdx

\* Only three steps change the image.
LEMMA WhoMakes ==
    ASSUME [Next]_vars
    PROVE  UNCHANGED image \/ CopyImage \/ ResizeLastPart \/ ResizeFs
BY DEF Next, Builder, vars, stepVars, hostVars,
       CheckCancelled, SkipStep, NoMoreSteps, AfterStep, NothingToClean, Download,
       MapImage, StartMounting, MountPartition, AllMounted, MountExtra,
       AllExtrasMounted, MountCleanup, HandleResolvConf, InstallQemu, RegisterBinFmt,
       Provision, UnregisterBinFmt, RemoveQemu, KillProcs, UmountExtra, ExtrasUmounted,
       UmountPartition, ImageUmounted, UnmapImage, RunnerReturns, BuilderReturns,
       Cancel, WatcherMarksCancelled, ProcsExit, Over

\* The configuration is decoded once.
LEMMA ConfigKept == ASSUME [Next]_vars PROVE config' = config
BY DEF Next, Builder, vars, stepVars, hostVars,
       CheckCancelled, SkipStep, NoMoreSteps, AfterStep, NothingToClean, Download,
       CopyImage, ResizeLastPart, ResizeFs,
       MapImage, StartMounting, MountPartition, AllMounted, MountExtra,
       AllExtrasMounted, MountCleanup, HandleResolvConf, InstallQemu, RegisterBinFmt,
       Provision, UnregisterBinFmt, RemoveQemu, KillProcs, UmountExtra, ExtrasUmounted,
       UmountPartition, ImageUmounted, UnmapImage, RunnerReturns, BuilderReturns,
       Cancel, WatcherMarksCancelled, ProcsExit, Over

\* The step whose Run returns is the one the runner is at.
LEMMA WhoReturns ==
    ASSUME [Next]_vars, phase = "run", phase' = "after"
    PROVE  /\ Pipeline[idx] = "CopyImage" => CopyImage
           /\ Pipeline[idx] = "ResizeFs" => ResizeFs
           /\ Pipeline[idx] = "MountExtra" => MountExtra \/ AllExtrasMounted
           /\ Pipeline[idx] = "QemuUserStatic" => InstallQemu
           /\ Pipeline[idx] = "RegisterBinFmt" => RegisterBinFmt
<1>1. phase # phase'
      OBVIOUS
<1>2. ~(Cancel \/ WatcherMarksCancelled \/ ProcsExit \/ Over \/ UNCHANGED vars)
      BY <1>1 DEF Cancel, WatcherMarksCancelled, ProcsExit, Over, vars, runnerVars
<1>3. ~(\/ CheckCancelled \/ SkipStep \/ NoMoreSteps \/ AfterStep \/ NothingToClean
        \/ UnregisterBinFmt \/ RemoveQemu \/ KillProcs \/ UmountExtra \/ ExtrasUmounted
        \/ UmountPartition \/ ImageUmounted \/ UnmapImage \/ RunnerReturns
        \/ BuilderReturns \/ MountPartition \/ AllMounted)
      BY DEF CheckCancelled, SkipStep, NoMoreSteps, AfterStep, NothingToClean,
             UnregisterBinFmt, RemoveQemu, KillProcs, UmountExtra, ExtrasUmounted,
             UmountPartition, ImageUmounted, UnmapImage, RunnerReturns, BuilderReturns,
             MountPartition, AllMounted, Cleaning
<1>4. \/ Download \/ ResizeLastPart \/ MapImage \/ StartMounting \/ MountCleanup
      \/ HandleResolvConf \/ Provision
      \/ CopyImage \/ ResizeFs \/ MountExtra \/ AllExtrasMounted \/ InstallQemu
      \/ RegisterBinFmt
      BY <1>2, <1>3 DEF Next, Builder
<1>5. /\ Download => Pipeline[idx] = "Download"
      /\ ResizeLastPart => Pipeline[idx] = "ResizeLastPart"
      /\ MapImage => Pipeline[idx] = "MapImage"
      /\ StartMounting => Pipeline[idx] = "MountImage"
      /\ MountCleanup => Pipeline[idx] = "MountCleanup"
      /\ HandleResolvConf => Pipeline[idx] = "HandleResolvConf"
      /\ Provision => Pipeline[idx] = "ChrootProvision"
      BY DEF Download, ResizeLastPart, MapImage, StartMounting, MountCleanup,
             HandleResolvConf, Provision, Running
<1>6. /\ CopyImage => Pipeline[idx] = "CopyImage"
      /\ ResizeFs => Pipeline[idx] = "ResizeFs"
      /\ MountExtra \/ AllExtrasMounted => Pipeline[idx] = "MountExtra"
      /\ InstallQemu => Pipeline[idx] = "QemuUserStatic"
      /\ RegisterBinFmt => Pipeline[idx] = "RegisterBinFmt"
      BY DEF CopyImage, ResizeFs, MountExtra, AllExtrasMounted, InstallQemu,
             RegisterBinFmt, Running
<1> QED BY <1>4, <1>5, <1>6

\* Every step of the image is one of its making, in the order of the pipeline.
LEMMA ImageInvStep ==
    ASSUME TypeOK, TypeOK', ReleaseInv, ReleaseInv', ImageInv, [Next]_vars
    PROVE  ImageInv'
<1> USE DEF CopyIdx, ResizeIdx, ResizeFsIdx
<1>1. Move /\ (result' = result \/ BuilderReturns) /\ config' = config
      BY Moves, ConfigKept DEF ReleaseInv
<1>2. /\ idx \in 1..13 /\ idx' \in 1..13 /\ depth \in 0..12 /\ action \in {"continue", "halt"}
      /\ phase \in {"check", "run", "mounting", "after", "cleanup", "result",
                    "returned", "crashed"}
      /\ phase \in {"run", "mounting", "after"} => idx <= 12
      BY PipelineLength DEF TypeOK, RunnerTypeOK
<1>3. /\ Done(CopyIdx)' => Done(CopyIdx) \/ CopyImage
      /\ Done(ResizeFsIdx)' => Done(ResizeFsIdx) \/ ResizeFs \/ (SkipStep /\ idx = ResizeFsIdx)
  <2>1. CASE ReturnsFrom
    <3>1. phase' = "after" /\ idx' = idx
          BY <2>1 DEF ReturnsFrom, Return
    <3>2. phase = "mounting" => idx = MountIdx
          BY DEF ReleaseInv, RunnerInv
    <3>3. phase \in {"run", "mounting"}
          BY <2>1 DEF ReturnsFrom
    <3>4. phase = "run" /\ idx = CopyIdx => CopyImage
          BY <1>2, <3>1, WhoReturns, ImagePlaces
    <3>5. phase = "run" /\ idx = ResizeFsIdx => ResizeFs
          BY <1>2, <3>1, WhoReturns, ImagePlaces
    <3> QED BY <1>2, <3>1, <3>2, <3>3, <3>4, <3>5 DEF Done, MountIdx
  <2>2. CASE SkipStep
    <3>1. idx # CopyIdx
          BY <1>2, <2>2, ImagePlaces DEF SkipStep, Included
    <3> QED BY <1>2, <2>2, <3>1 DEF SkipStep, Done
  <2>3. CASE UNCHANGED runnerVars
        BY <1>2, <2>3 DEF runnerVars, Done
  <2>4. CASE PanicsFrom \/ EndsCleanup \/ EntersMounting
        BY <1>2, <2>4 DEF PanicsFrom, RunPanics, EndsCleanup, CleanupEnds, EntersMounting,
                          Running, Done
  <2>5. CASE CheckCancelled \/ NoMoreSteps \/ AfterStep
        BY <1>2, <2>5 DEF CheckCancelled, NoMoreSteps, AfterStep, Done
  <2>6. CASE RunnerReturns \/ BuilderReturns
        BY <1>2, <2>6 DEF RunnerReturns, BuilderReturns, Done
  <2> QED BY <1>1, <2>1, <2>2, <2>3, <2>4, <2>5, <2>6 DEF Move
<1>4. CASE CopyImage
  <2>1. idx = CopyIdx /\ phase = "run"
        BY <1>2, <1>4, ImagePlaces DEF CopyImage, Running
  <2>2. /\ idx' = idx /\ phase' = "after" /\ result' = result /\ result # "artifact"
        /\ \/ action' = "continue" /\ image' = "copied"
           \/ action' = "halt" /\ image' = "partial"
        BY <1>4, <2>1 DEF CopyImage, Return, HaltsSilently, ReleaseInv, RunnerInv
  <2> QED BY <2>1, <2>2 DEF ImageInv, Done, ArtifactIsComplete
<1>5. CASE ResizeLastPart
  <2>1. idx = ResizeIdx /\ phase = "run"
        BY <1>2, <1>5, ImagePlaces DEF ResizeLastPart, Running
  <2>2. /\ idx' = idx /\ phase' = "after" /\ result' = result /\ result # "artifact"
        /\ \/ action' = "continue" /\ image' \in {image, "grown"}
           \/ action' = "halt" /\ image' \in {image, "truncated"}
        BY <1>5, <2>1 DEF ResizeLastPart, Return, HaltsSilently, ReleaseInv, RunnerInv
  <2>3. config.resize /\ image \notin {"none", "partial", "truncated"}
        BY <2>1 DEF ImageInv, Done
  <2> QED BY <1>1, <2>1, <2>2, <2>3 DEF ImageInv, Done, ArtifactIsComplete
<1>6. CASE ResizeFs
  <2>1. idx = ResizeFsIdx /\ phase = "run"
        BY <1>2, <1>6, ImagePlaces DEF ResizeFs, Running
  <2>2. /\ idx' = idx /\ result' = result /\ result # "artifact"
        /\ \/ phase' = "after" /\ action' = "continue"
              /\ image' = (IF image = "grown" THEN "resized" ELSE image)
           \/ phase' = "after" /\ action' = "halt" /\ image' = image
           \/ phase' = "cleanup" /\ image' = image
        BY <1>6, <2>1
        DEF ResizeFs, Return, HaltsSilently, HaltsWithError, RunPanics, ReleaseInv, RunnerInv
  <2>3. image \notin {"none", "partial", "truncated"}
        BY <2>1 DEF ImageInv, Done
  <2> QED BY <1>1, <2>1, <2>2, <2>3 DEF ImageInv, Done, ArtifactIsComplete
<1>7. CASE ~CopyImage /\ ~ResizeLastPart /\ ~ResizeFs
  <2>1. image' = image
        BY <1>7, WhoMakes
  <2>2. Done(CopyIdx)' => image' \notin {"none", "partial"}
        BY <1>3, <1>7, <2>1 DEF ImageInv
  <2>3. image' = "truncated" => idx' = ResizeIdx /\ phase' \notin {"check", "run", "mounting"}
                                /\ (phase' = "after" => action' = "halt")
    <3> SUFFICES ASSUME image = "truncated"
                 PROVE  idx' = ResizeIdx /\ phase' \notin {"check", "run", "mounting"}
                        /\ (phase' = "after" => action' = "halt")
        BY <2>1
    <3>1. idx = ResizeIdx /\ phase \notin {"check", "run", "mounting"}
          /\ (phase = "after" => action = "halt")
          BY DEF ImageInv
    <3> QED BY <1>1, <3>1
            DEF Move, runnerVars, ReturnsFrom, PanicsFrom, EndsCleanup, CleanupEnds,
                EntersMounting, Running, CheckCancelled, SkipStep, NoMoreSteps, AfterStep,
                RunnerReturns, BuilderReturns
  <2>4. idx' >= idx
        BY <1>1, <1>2
        DEF Move, runnerVars, ReturnsFrom, Return, PanicsFrom, RunPanics, EndsCleanup,
            CleanupEnds, EntersMounting, CheckCancelled, SkipStep, NoMoreSteps, AfterStep,
            RunnerReturns, BuilderReturns
  <2>5. image' = "grown" => config'.resize /\ idx' >= ResizeIdx /\ ~Done(ResizeFsIdx)'
    <3> SUFFICES ASSUME image = "grown"
                 PROVE  config'.resize /\ idx' >= ResizeIdx /\ ~Done(ResizeFsIdx)'
        BY <2>1
    <3>1. config.resize /\ idx >= ResizeIdx /\ ~Done(ResizeFsIdx)
          BY DEF ImageInv
    <3>2. ~(SkipStep /\ idx = ResizeFsIdx)
          BY <1>2, <3>1, ImagePlaces DEF SkipStep, Included
    <3> QED BY <1>1, <1>2, <1>3, <1>7, <2>4, <3>1, <3>2
  <2>6. ArtifactIsComplete'
    <3>1. CASE result' = result
      <4>1. result = "artifact" => phase = "returned"
            BY DEF ReleaseInv, RunnerInv
      <4>2. phase = "returned" => idx' = idx
            BY <1>1
            DEF Move, runnerVars, ReturnsFrom, PanicsFrom, EndsCleanup, EntersMounting,
                Running, CheckCancelled, SkipStep, NoMoreSteps, AfterStep, RunnerReturns,
                BuilderReturns
      <4> QED BY <2>1, <3>1, <4>1, <4>2 DEF ImageInv, ArtifactIsComplete
    <3>2. CASE BuilderReturns /\ result' = "artifact"
      <4>1. bag \cap {"error", "cancelled", "halted"} = {} /\ phase = "result" /\ idx' = idx
            BY <3>2 DEF BuilderReturns, Outcome
      <4>2. idx > Len(Pipeline)
            BY <4>1 DEF ReleaseInv, RunnerInv, Building
      <4>3. Done(CopyIdx) /\ Done(ResizeFsIdx) /\ idx # ResizeIdx
            BY <1>2, <4>2, PipelineLength DEF Done
      <4>4. image \in {"copied", "resized"}
            BY <4>3 DEF ImageInv, TypeOK, HostTypeOK
      <4> QED BY <2>1, <4>1, <4>2, <4>4 DEF ArtifactIsComplete
    <3>3. CASE BuilderReturns /\ result' # "artifact"
          BY <3>3 DEF ArtifactIsComplete
    <3> QED BY <1>1, <3>1, <3>2, <3>3
  <2>7. phase' = "run" /\ idx' = ResizeIdx => config'.resize
    <3> SUFFICES ASSUME phase' = "run", idx' = ResizeIdx PROVE config.resize
        BY <1>1
    <3>1. UNCHANGED runnerVars \/ CheckCancelled
          BY <1>1 DEF Move, ReturnsFrom, Return, PanicsFrom, RunPanics, EndsCleanup,
             CleanupEnds, EntersMounting, SkipStep, NoMoreSteps, AfterStep, RunnerReturns,
             BuilderReturns
    <3>2. CheckCancelled => idx = ResizeIdx /\ Included("ResizeLastPart")
          BY <1>2, ImagePlaces DEF CheckCancelled
    <3> QED BY <3>1, <3>2 DEF ImageInv, runnerVars, Included
  <2> QED BY <2>2, <2>3, <2>5, <2>6, <2>7 DEF ImageInv
<1> QED BY <1>4, <1>5, <1>6, <1>7

\* A build that returns an artifact went through its whole pipeline, and its last
\* partition, if it was grown, had its filesystem grown with it: no cancel, halt or
\* panic on the way ends in an artifact of a half-made image.
THEOREM ArtifactHasWholeImage == Spec => []ArtifactIsComplete
<1>1. TypeOK /\ TypeOK' /\ ReleaseInv /\ ReleaseInv' /\ ImageInv /\ [Next]_vars
      => ImageInv'
      BY ImageInvStep
<1>2. ImageInv => ArtifactIsComplete
      BY DEF ImageInv
<1> QED BY <1>1, <1>2, ImageInvInit, TypeCorrect, ReleaseInvariant, PTL DEF Spec

-----------------------------------------------------------------------------
(***************************************************************************)
(* A build implements BuildPromise: the steps of its Cleanups only give    *)
(* back, for every mount table, configuration, scan and set of faults.     *)
(***************************************************************************)

hostResources == <<loop, mounts, files, binfmt>>

-----------------------------------------------------------------------------
(* Who takes and who gives back *)

\* The actions that change what is held of the host.
LEMMA WhoTakes ==
    ASSUME [Next]_vars
    PROVE  \/ UNCHANGED hostResources
           \/ MapImage \/ MountPartition \/ MountExtra \/ InstallQemu \/ RegisterBinFmt
           \/ Provision
           \/ UnregisterBinFmt \/ RemoveQemu \/ UmountExtra \/ UmountPartition
           \/ UnmapImage
BY DEF hostResources, Next, Builder, vars, stepVars, hostVars,
       CheckCancelled, SkipStep, NoMoreSteps, AfterStep, NothingToClean, Download,
       CopyImage, ResizeLastPart, ResizeFs, StartMounting, AllMounted,
       AllExtrasMounted, MountCleanup, HandleResolvConf, KillProcs, ExtrasUmounted,
       ImageUmounted, RunnerReturns, BuilderReturns, Cancel, WatcherMarksCancelled,
       ProcsExit, Over

\* Those that take are steps the runner has not finished.
LEMMA TakersBuild ==
    ASSUME RunnerInv,
           MapImage \/ MountPartition \/ MountExtra \/ InstallQemu \/ RegisterBinFmt
              \/ Provision
    PROVE  Building /\ Building'
<1>1. MapImage => Building /\ Building'
      BY DEF MapImage, Running, Building, Return, HaltsSilently
<1>2. MountPartition => Building /\ Building'
      BY DEF MountPartition, Building, Return, runnerVars
<1>3. MountExtra => Building /\ Building'
      BY DEF MountExtra, Running, Building, Return, HaltsWithError, runnerVars
<1>4. InstallQemu => Building /\ Building'
  <2> SUFFICES ASSUME InstallQemu PROVE Building /\ Building'
      OBVIOUS
  <2>1. phase = "run"
        BY DEF InstallQemu, Running
  <2>2. phase' = "after"
        BY DEF InstallQemu, Return
  <2> QED BY <2>1, <2>2 DEF Building
<1>5. RegisterBinFmt => Building /\ Building'
      BY DEF RegisterBinFmt, Running, Building, Return, HaltsSilently
<1>6. Provision => Building /\ Building'
      BY DEF Provision, Running, Building, Return, HaltsWithError
<1> QED BY <1>1, <1>2, <1>3, <1>4, <1>5, <1>6

\* A loop device the Cleanup of stepMapImage knows of is attached.
LoopKnown ==
    "partitions" \in bag /\ (Building \/ depth >= MapIdx) => loop # "none"

\* Nothing is known of a loop device when the build begins.
LEMMA LoopKnownInit == Init => LoopKnown
BY DEF Init, LoopKnown

\* Only stepMapImage puts partitions in the bag.
LEMMA WhoFinds ==
    ASSUME [Next]_vars, "partitions" \notin bag, "partitions" \in bag'
    PROVE  MapImage
<1>1. \/ MapImage \/ CheckCancelled \/ AfterStep \/ Download \/ CopyImage \/ ResizeFs
      \/ MountPartition \/ AllMounted \/ MountExtra \/ InstallQemu \/ RegisterBinFmt
      \/ Provision \/ UmountPartition \/ UnmapImage \/ WatcherMarksCancelled
  <2>1. bag' # bag
        OBVIOUS
  <2> QED BY <2>1
          DEF Next, Builder, vars, stepVars, hostVars, HaltsSilently, SkipStep,
              NoMoreSteps, NothingToClean, ResizeLastPart, StartMounting,
              AllExtrasMounted, MountCleanup, HandleResolvConf, UnregisterBinFmt,
              RemoveQemu, KillProcs, UmountExtra, ExtrasUmounted, ImageUmounted,
              RunnerReturns, BuilderReturns, Cancel, ProcsExit, Over
<1>2. ~CheckCancelled /\ ~AfterStep /\ ~WatcherMarksCancelled
      BY DEF CheckCancelled, AfterStep, WatcherMarksCancelled
<1>3. ~Download /\ ~CopyImage /\ ~ResizeFs /\ ~RegisterBinFmt /\ ~Provision
      BY DEF Download, CopyImage, ResizeFs, RegisterBinFmt, Provision, HaltsWithError,
             HaltsSilently
<1>4. ~MountPartition /\ ~AllMounted /\ ~MountExtra
      BY DEF MountPartition, AllMounted, MountExtra, HaltsWithError, RunFailed
<1>5. ~UmountPartition
      BY DEF UmountPartition, RunFailed
<1>6. ~UnmapImage
      BY DEF UnmapImage, RunFailed
<1>7. ~InstallQemu
      BY DEF InstallQemu, RunFailed
<1> QED BY <1>1, <1>2, <1>3, <1>4, <1>5, <1>6, <1>7

\* The loop device stays attached until its own Cleanup.
LEMMA LoopKnownStep ==
    ASSUME TypeOK, TypeOK', RunnerInv, LoopKnown, [Next]_vars PROVE LoopKnown'
<1>1. depth \in 0..12 /\ depth' \in 0..12
      BY PipelineLength DEF TypeOK, RunnerTypeOK
<1>2. CASE MapImage
  <2>1. Building
        BY <1>2, TakersBuild
  <2> QED BY <1>2, <2>1 DEF MapImage, LoopKnown, HaltsSilently
<1>3. CASE UnmapImage
  <2>1. depth = MapIdx /\ phase = "cleanup"
        BY <1>3, CleaningPlace DEF UnmapImage
  <2>2. depth' < MapIdx /\ phase' = "cleanup"
        BY <1>1, <1>3, <2>1 DEF UnmapImage, CleanupEnds, MapIdx
  <2> QED BY <1>1, <2>2 DEF LoopKnown, Building, MapIdx
<1>4. CASE ~MapImage /\ ~UnmapImage
  <2>1. loop' = loop /\ ("partitions" \in bag' => "partitions" \in bag)
        BY <1>4, WhoMaps, WhoFinds
  <2>2. Building' => Building
        BY Progress
  <2>3. ~Building /\ depth' >= MapIdx => depth >= MapIdx
        BY <1>1, OnlyDown DEF MapIdx
  <2> QED BY <2>1, <2>2, <2>3 DEF LoopKnown
<1> QED BY <1>2, <1>3, <1>4

\* A Cleanup gives back what it can, and takes nothing.
LEMMA CleanupsGiveBack ==
    ASSUME TypeOK, RunnerInv, LoopKnown, [Next]_vars, ~Building
    PROVE  /\ loop = "none" => loop' = "none"
           /\ mounts' \subseteq mounts /\ files' \subseteq files
           /\ binfmt' => binfmt
<1>1. binfmt \in BOOLEAN /\ depth \in 0..12
      BY PipelineLength DEF TypeOK, HostTypeOK, RunnerTypeOK
<1>2. CASE UNCHANGED hostResources
      BY <1>2 DEF hostResources
<1>3. CASE UnregisterBinFmt
      BY <1>1, <1>3 DEF UnregisterBinFmt
<1>4. CASE RemoveQemu
      BY <1>4 DEF RemoveQemu
<1>5. CASE UmountExtra
      BY <1>5 DEF UmountExtra
<1>6. CASE UmountPartition
      BY <1>6 DEF UmountPartition
<1>7. CASE UnmapImage
  <2>1. depth >= MapIdx
        BY <1>1, <1>7, CleaningPlace DEF UnmapImage, MapIdx
  <2>2. "partitions" \in bag => loop # "none"
        BY <2>1 DEF LoopKnown
  <2>3. UNCHANGED <<mounts, files, binfmt>>
        BY <1>7 DEF UnmapImage
  <2>4. loop' = loop \/ "partitions" \in bag
        BY <1>7 DEF UnmapImage
  <2> QED BY <2>2, <2>3, <2>4
<1> QED BY <1>2, <1>3, <1>4, <1>5, <1>6, <1>7, WhoTakes, TakersBuild

\* When the building ends nothing changes on the host, nor after the Cleanups.
LEMMA TurnsKeep ==
    ASSUME RunnerInv, [Next]_vars, Building # Building' \/ phase # "cleanup",
           ~Building'
    PROVE  UNCHANGED hostResources
<1>1. ~(\/ UnregisterBinFmt \/ RemoveQemu \/ UmountExtra \/ UmountPartition
        \/ UnmapImage)
  <2> SUFFICES ASSUME UnregisterBinFmt \/ RemoveQemu \/ UmountExtra \/ UmountPartition
                         \/ UnmapImage
               PROVE  phase = "cleanup"
      BY DEF Building
  <2> QED BY DEF UnregisterBinFmt, RemoveQemu, UmountExtra, UmountPartition, UnmapImage,
                 Cleaning
<1> QED BY <1>1, WhoTakes, TakersBuild

-----------------------------------------------------------------------------
(* The refinement *)

\* The Cleanup of stepMapImage, as long as it is to run, finds attached the loop
\* device it knows of.
THEOREM LoopKnownInvariant == Spec => []LoopKnown
<1>1. TypeOK /\ TypeOK' /\ ReleaseInv /\ LoopKnown /\ [Next]_vars => LoopKnown'
      BY LoopKnownStep DEF ReleaseInv
<1> QED BY <1>1, LoopKnownInit, TypeCorrect, ReleaseInvariant, PTL DEF Spec

\* A build begins with nothing of its host's.
LEMMA PromiseInit == Init => Promise!Init
BY DEF Init, Promise!Init, promiseStatus, promiseHeld, Building

\* What is held is held of the four.
LEMMA HeldTyped == promiseHeld \in SUBSET {"loop", "mounts", "qemu", "binfmt"}
BY DEF promiseHeld

\* A host that does not change is held alike.
LEMMA HeldKept == ASSUME UNCHANGED hostResources PROVE promiseHeld' = promiseHeld
BY DEF hostResources, promiseHeld

\* Where a build goes on the way to its end.
LEMMA WayOut ==
    ASSUME TypeOK, RunnerInv, [Next]_vars, ~Building
    PROVE  \/ UNCHANGED <<phase, result>>
           \/ RunnerReturns \/ BuilderReturns
<1>1. Move /\ (result' = result \/ BuilderReturns)
      BY Moves
<1>2. phase' = phase \/ RunnerReturns \/ BuilderReturns
      BY <1>1
      DEF Move, runnerVars, ReturnsFrom, PanicsFrom, EndsCleanup, CleanupEnds,
          EntersMounting, Running, CheckCancelled, SkipStep, NoMoreSteps, AfterStep,
          Building
<1> QED BY <1>1, <1>2

\* The phases of a build that is over its steps.
LEMMA LastPhases ==
    ASSUME TypeOK, ~Building
    PROVE  phase \in {"cleanup", "result", "returned", "crashed"}
BY DEF TypeOK, RunnerTypeOK, Building

\* Each step of a build is one of the promise, or changes nothing the host sees.
LEMMA PromiseStep ==
    ASSUME TypeOK, TypeOK', ReleaseInv, ReleaseInv', LoopKnown, [Next]_vars
    PROVE  [Promise!Next]_(Promise!vars)
<1> RunnerInv
    BY DEF ReleaseInv
<1>1. CASE Building /\ Building'
  <2>1. promiseStatus = "building" /\ promiseStatus' = "building"
        BY <1>1 DEF promiseStatus
  <2>2. promiseHeld' \in SUBSET {"loop", "mounts", "qemu", "binfmt"}
        BY HeldTyped DEF promiseHeld
  <2>3. Promise!Build
        BY <2>1, <2>2 DEF Promise!Build
  <2> QED BY <2>3 DEF Promise!Next
<1>2. CASE Building /\ ~Building'
  <2>1. UNCHANGED hostResources
        BY <1>2, TurnsKeep
  <2>2. phase' = "cleanup"
    <3>1. Move
          BY Moves
    <3> QED BY <1>2, <3>1
            DEF Move, runnerVars, ReturnsFrom, Return, PanicsFrom, RunPanics, EndsCleanup,
                EntersMounting, CheckCancelled, SkipStep, NoMoreSteps, AfterStep,
                RunnerReturns, BuilderReturns, Building
  <2>3. promiseStatus = "building" /\ promiseStatus' = "releasing"
        BY <1>2, <2>2 DEF promiseStatus
  <2>4. Promise!Turn
        BY <2>1, <2>3, HeldKept DEF Promise!Turn
  <2> QED BY <2>4 DEF Promise!Next
<1>3. CASE ~Building /\ phase = "cleanup" /\ UNCHANGED <<phase, result>>
  <2>1. promiseStatus = "releasing" /\ promiseStatus' = "releasing"
        BY <1>3 DEF promiseStatus, Building
  <2>2. binfmt \in BOOLEAN /\ binfmt' \in BOOLEAN
        BY DEF TypeOK, HostTypeOK
  <2>3. promiseHeld' \in SUBSET promiseHeld
        BY <1>3, <2>2, CleanupsGiveBack DEF promiseHeld
  <2>4. Promise!Release
        BY <2>1, <2>3 DEF Promise!Release
  <2> QED BY <2>4 DEF Promise!Next
<1>4. CASE ~Building /\ phase # "cleanup" /\ UNCHANGED <<phase, result>>
  <2>1. ~Building'
        BY <1>4 DEF Building
  <2>2. promiseHeld' = promiseHeld
        BY <1>4, <2>1, TurnsKeep, HeldKept
  <2>3. promiseStatus' = promiseStatus
        BY <1>4 DEF promiseStatus, Building
  <2> QED BY <2>2, <2>3 DEF Promise!vars
<1>5. CASE RunnerReturns
  <2>1. UNCHANGED hostResources /\ promiseStatus = "releasing"
        BY <1>5 DEF RunnerReturns, hostVars, hostResources, promiseStatus, Building
  <2>2. CASE panicked
    <3>1. promiseStatus' = "crashed"
          BY <1>5, <2>2 DEF RunnerReturns, promiseStatus, Building
    <3>2. Promise!Fail
          BY <2>1, <3>1, HeldKept DEF Promise!Fail
    <3> QED BY <3>2 DEF Promise!Next
  <2>3. CASE ~panicked
    <3>1. promiseStatus' = "releasing"
          BY <1>5, <2>3 DEF RunnerReturns, promiseStatus, Building
    <3> QED BY <2>1, <3>1, HeldKept DEF Promise!vars
  <2> QED BY <2>2, <2>3
<1>6. CASE BuilderReturns
  <2>1. UNCHANGED hostResources /\ promiseStatus = "releasing"
        BY <1>6 DEF BuilderReturns, hostVars, hostResources, promiseStatus, Building
  <2>2. promiseStatus' = result'
        BY <1>6 DEF BuilderReturns, promiseStatus, Building
  <2>3. CASE result' = "artifact"
    <3>1. mounts' = {} /\ loop' = "none"
          BY <2>3 DEF ReleaseInv, LoopInv
    <3>2. promiseHeld \cap {"loop", "mounts"} = {}
          BY <2>1, <3>1 DEF promiseHeld, hostResources
    <3>3. Promise!Deliver
          BY <2>1, <2>2, <2>3, <3>2, HeldKept DEF Promise!Deliver
    <3> QED BY <3>3 DEF Promise!Next
  <2>4. CASE result' = "failed"
    <3>1. Promise!Fail
          BY <2>1, <2>2, <2>4, HeldKept DEF Promise!Fail
    <3> QED BY <3>1 DEF Promise!Next
  <2> QED BY <1>6, <2>3, <2>4 DEF BuilderReturns, Outcome
<1> QED BY <1>1, <1>2, <1>3, <1>4, <1>5, <1>6, WayOut

\* A build takes resources of its host only while its steps run; from its first
\* Cleanup on it only gives back, and it hands out an artifact only when nothing is
\* mounted and the loop device is free.
THEOREM KeepsItsPromise == Spec => KeepsPromise
<1>1. Init => Promise!Init
      BY PromiseInit
<1>2. TypeOK /\ TypeOK' /\ ReleaseInv /\ ReleaseInv' /\ LoopKnown /\ [Next]_vars
      => [Promise!Next]_(Promise!vars)
      BY PromiseStep
<1> QED BY <1>1, <1>2, TypeCorrect, ReleaseInvariant, LoopKnownInvariant, PTL
        DEF Spec, KeepsPromise, Promise!Spec

-----------------------------------------------------------------------------
(* The interpreter goes *)

ExtraIdx     == 7
QemuIdx      == 10
BinfmtIdx    == 11
ProvisionIdx == 12

\* The root stays mounted until the Cleanup of stepMountImage; a qemu binary in the
\* image, and a registered interpreter, are known to a Cleanup that is still to run,
\* or their removal failed.
InterpreterInv ==
    /\ phase = "run" => Included(Pipeline[idx])
    /\ depth > MountIdx => Root \in mounts
    /\ files \subseteq tracked
    /\ files # {} => config.qemu /\ (depth >= QemuIdx \/ "remove" \in swallowed)
    /\ binfmt => /\ config.qemu /\ "binfmt" \in bag
                 /\ depth >= BinfmtIdx \/ "deregister" \in swallowed

\* Where the steps that make the chroot ready are in the pipeline.
LEMMA ChrootPlaces ==
    \A k \in 1..12 : /\ Pipeline[k] = "MountExtra" <=> k = ExtraIdx
                     /\ Pipeline[k] = "QemuUserStatic" <=> k = QemuIdx
                     /\ Pipeline[k] = "RegisterBinFmt" <=> k = BinfmtIdx
                     /\ Pipeline[k] = "ChrootProvision" <=> k = ProvisionIdx
BY DEF Pipeline, ExtraIdx, QemuIdx, BinfmtIdx, ProvisionIdx

\* Nothing is installed when the build begins.
LEMMA InterpreterInit == Init => InterpreterInv
BY DEF Init, InterpreterInv, MountIdx

\* Only two steps change what is installed.
LEMMA WhoInstalls ==
    ASSUME [Next]_vars
    PROVE  /\ UNCHANGED <<files, tracked>> \/ InstallQemu \/ RemoveQemu
           /\ UNCHANGED binfmt \/ RegisterBinFmt \/ UnregisterBinFmt
BY DEF Next, Builder, vars, stepVars, hostVars,
       CheckCancelled, SkipStep, NoMoreSteps, AfterStep, NothingToClean, Download,
       CopyImage, ResizeLastPart, ResizeFs, MapImage, StartMounting, MountPartition,
       AllMounted, MountExtra, AllExtrasMounted, MountCleanup, HandleResolvConf,
       InstallQemu, RegisterBinFmt, RemoveQemu, UnregisterBinFmt,
       Provision, KillProcs, UmountExtra, ExtrasUmounted,
       UmountPartition, ImageUmounted, UnmapImage, RunnerReturns, BuilderReturns,
       Cancel, WatcherMarksCancelled, ProcsExit, Over

\* What was logged stays logged.
LEMMA LogGrows == ASSUME [Next]_vars PROVE swallowed \subseteq swallowed'
<1>1. UmountExtra => swallowed \subseteq swallowed'
      BY DEF UmountExtra
<1>2. KillProcs => swallowed \subseteq swallowed'
      BY DEF KillProcs
<1>3. RemoveQemu => swallowed \subseteq swallowed'
      BY DEF RemoveQemu
<1>4. UnregisterBinFmt => swallowed \subseteq swallowed'
      BY DEF UnregisterBinFmt
<1> QED BY <1>1, <1>2, <1>3, <1>4, WhoLogs

\* A deferred Cleanup is passed only when the runner is in it.
LEMMA Passed ==
    ASSUME TypeOK, RunnerInv, [Next]_vars, NEW k \in 1..12, depth >= k, depth' < k
    PROVE  phase = "cleanup" /\ depth = k /\ depth' # depth
<1>1. Move /\ depth \in 0..12 /\ idx \in 1..13
      BY Moves, PipelineLength DEF TypeOK, RunnerTypeOK
<1>2. depth' \in Int
      BY <1>1 DEF Move, runnerVars, ReturnsFrom, PanicsFrom, EndsCleanup, CleanupEnds,
            EntersMounting, CheckCancelled, SkipStep, NoMoreSteps, AfterStep,
            RunnerReturns, BuilderReturns, Return, RunPanics
<1>3. CASE ReturnsFrom
  <2>1. depth' = idx /\ depth < idx
        BY <1>3 DEF ReturnsFrom, Return, RunnerInv
  <2> QED BY <1>1, <2>1
<1>4. CASE EndsCleanup
  <2>1. phase = "cleanup" /\ depth' = depth - 1
        BY <1>4 DEF EndsCleanup, CleanupEnds
  <2> QED BY <1>1, <2>1
<1>5. CASE ~ReturnsFrom /\ ~EndsCleanup
  <2>1. depth' = depth
        BY <1>1, <1>5 DEF Move, runnerVars, PanicsFrom, EntersMounting, CheckCancelled,
              SkipStep, NoMoreSteps, AfterStep, RunnerReturns, BuilderReturns, RunPanics
  <2> QED BY <1>1, <2>1
<1> QED BY <1>3, <1>4, <1>5

\* The Cleanup that ends is that of the step the runner has come down to.
LEMMA WhoCleans ==
    ASSUME [Next]_vars, phase = "cleanup", depth' # depth, depth \in 1..12, config.qemu
    PROVE  /\ depth = QemuIdx => RemoveQemu
           /\ depth = BinfmtIdx => UnregisterBinFmt
<1>1. ~(\/ Cancel \/ WatcherMarksCancelled \/ ProcsExit \/ Over \/ UNCHANGED vars
        \/ CheckCancelled \/ SkipStep \/ NoMoreSteps \/ AfterStep \/ StartMounting
        \/ MountPartition \/ AllMounted \/ UmountPartition \/ RunnerReturns
        \/ BuilderReturns)
      BY DEF Cancel, WatcherMarksCancelled, ProcsExit, Over, vars, runnerVars,
             CheckCancelled, SkipStep, NoMoreSteps, AfterStep, StartMounting,
             MountPartition, AllMounted, UmountPartition, RunnerReturns,
             BuilderReturns, Running
<1>2. ~(\/ Download \/ CopyImage \/ ResizeLastPart \/ MapImage \/ ResizeFs \/ MountExtra
        \/ AllExtrasMounted \/ MountCleanup \/ HandleResolvConf \/ InstallQemu
        \/ RegisterBinFmt \/ Provision)
      BY DEF Download, CopyImage, ResizeLastPart, MapImage, ResizeFs, MountExtra,
             AllExtrasMounted, MountCleanup, HandleResolvConf, InstallQemu,
             RegisterBinFmt, Provision, Running
<1>3. \/ UnregisterBinFmt \/ RemoveQemu \/ KillProcs \/ UmountExtra \/ ExtrasUmounted
      \/ ImageUmounted \/ UnmapImage \/ NothingToClean
      BY <1>1, <1>2 DEF Next, Builder
<1>4. NothingToClean => depth # QemuIdx /\ depth # BinfmtIdx
  <2>1. Included("QemuUserStatic") /\ Included("RegisterBinFmt")
        BY DEF Included
  <2>2. NothingToClean => /\ Included(Pipeline[depth]) =>
                                Pipeline[depth] # "QemuUserStatic" /\ Pipeline[depth] # "RegisterBinFmt"
        BY DEF NothingToClean
  <2> QED BY <2>1, <2>2, ChrootPlaces
<1>5. /\ UnregisterBinFmt => Pipeline[depth] = "RegisterBinFmt"
      /\ RemoveQemu => Pipeline[depth] = "QemuUserStatic"
      /\ KillProcs => Pipeline[depth] = "MountCleanup"
      /\ UmountExtra \/ ExtrasUmounted => Pipeline[depth] = "MountExtra"
      /\ ImageUmounted => Pipeline[depth] = "MountImage"
      /\ UnmapImage => Pipeline[depth] = "MapImage"
      BY DEF UnregisterBinFmt, RemoveQemu, KillProcs, UmountExtra, ExtrasUmounted,
             ImageUmounted, UnmapImage, Cleaning
<1> QED BY <1>3, <1>4, <1>5, ChrootPlaces

\* Nobody but the Cleanup of stepMountImage unmounts the root.
LEMMA RootKept ==
    ASSUME TypeOK, [Next]_vars, Root \in mounts, ~UmountPartition PROVE Root \in mounts'
<1>1. /\ extras \in Seq(ExtraPoints) /\ Range(extras) \subseteq ExtraPoints
      BY DEF TypeOK, StepTypeOK, Range
<1>2. CASE MountPartition
      BY <1>2 DEF MountPartition
<1>3. CASE MountExtra
      BY <1>3 DEF MountExtra
<1>4. CASE UmountExtra
  <2>1. extras[Len(extras)] \in ExtraPoints
        BY <1>1, <1>4 DEF UmountExtra
  <2> QED BY <1>4, <2>1, Points DEF UmountExtra
<1>5. CASE Provision
      BY <1>1, <1>5, Points DEF Provision
<1> QED BY <1>2, <1>3, <1>4, <1>5, WhoMounts

\* Every step keeps the interpreter in sight.
LEMMA InterpreterStep ==
    ASSUME TypeOK, TypeOK', ReleaseInv, InterpreterInv, [Next]_vars
    PROVE  InterpreterInv'
<1>1. /\ Move /\ bag \subseteq bag' /\ swallowed \subseteq swallowed' /\ config' = config
      BY Moves, LogGrows, ConfigKept DEF ReleaseInv
<1>2. /\ idx \in 1..13 /\ depth \in 0..12 /\ depth' \in 0..12
      /\ phase \in {"run", "mounting", "after"} => idx <= 12
      BY PipelineLength DEF TypeOK, RunnerTypeOK
<1>3. RunnerInv /\ MountInv
      BY DEF ReleaseInv
<1>4. phase' = "run" => Included(Pipeline[idx])'
  <2> SUFFICES ASSUME phase' = "run" PROVE Included(Pipeline[idx])'
      OBVIOUS
  <2>1. (phase = "run" /\ idx' = idx) \/ CheckCancelled
        BY <1>1 DEF Move, runnerVars, ReturnsFrom, PanicsFrom, EndsCleanup, CleanupEnds,
              EntersMounting, SkipStep, NoMoreSteps, AfterStep, RunnerReturns,
              BuilderReturns, Return, RunPanics
  <2>2. Included(Pipeline[idx]) /\ idx' = idx
        BY <2>1 DEF CheckCancelled, InterpreterInv
  <2> QED BY <1>1, <2>2 DEF Included
<1>5. depth' > MountIdx => Root \in mounts'
  <2> SUFFICES ASSUME depth' > MountIdx PROVE Root \in mounts'
      OBVIOUS
  <2>1. ~UmountPartition
    <3>1. UmountPartition => depth = MountIdx /\ depth' = depth
          BY CleaningPlace DEF UmountPartition, runnerVars
    <3> QED BY <1>2, <3>1 DEF MountIdx
  <2>2. CASE depth > MountIdx
        BY <2>1, <2>2, RootKept DEF InterpreterInv
  <2>3. CASE ~(depth > MountIdx)
    <3>1. ReturnsFrom
          BY <1>1, <1>2, <2>3 DEF Move, runnerVars, PanicsFrom, EndsCleanup, CleanupEnds,
                EntersMounting, CheckCancelled, SkipStep, NoMoreSteps, AfterStep,
                RunnerReturns, BuilderReturns, RunPanics, MountIdx
    <3>2. phase \in {"run", "mounting"} /\ depth' = idx
          BY <3>1 DEF ReturnsFrom, Return
    <3>3. Building /\ Done(MountIdx)
          BY <1>2, <3>2 DEF Building, Done
    <3> QED BY <1>3, <2>1, <3>3, RootKept DEF MountInv
  <2> QED BY <2>2, <2>3
<1>6. /\ files' \subseteq tracked'
      /\ files' # {} => config.qemu /\ (depth' >= QemuIdx \/ "remove" \in swallowed')
  <2>1. CASE InstallQemu
    <3>1. phase = "run" /\ Pipeline[idx] = "QemuUserStatic" /\ idx \in 1..12
          BY <1>2, <2>1 DEF InstallQemu, Running
    <3>2. idx = QemuIdx /\ config.qemu
          BY <3>1, ChrootPlaces DEF InterpreterInv, Included
    <3>3. depth' = idx
          BY <2>1 DEF InstallQemu, Return
    <3>4. files' \subseteq tracked'
      <4>1. PICK failed \in {"none"} \cup {c \in {"cp", "tempdir", "mv", "gcc"} :
                                     MayFail(c) /\ (c = "cp" \/ config.args)} :
               /\ tracked' = Tracked(failed)
               /\ IF failed = "cp" THEN files' \in {{}, {"qemu"}}
                  ELSE files' = CASE config.args /\ failed = "none" -> {"qemu", "wrapped"}
                                  [] failed = "gcc"                 -> {"wrapped"}
                                  [] OTHER                          -> {"qemu"}
            BY <2>1 DEF InstallQemu
      <4>2. failed \in {"none", "cp", "tempdir", "mv", "gcc"} /\ (failed = "gcc" => config.args)
            OBVIOUS
      <4>3. CASE failed = "cp"
            BY <4>1, <4>3 DEF Tracked
      <4>4. CASE failed = "gcc"
            BY <4>1, <4>2, <4>4 DEF Tracked
      <4>5. CASE failed = "none"
            BY <4>1, <4>5 DEF Tracked
      <4>6. CASE failed \in {"tempdir", "mv"}
            BY <4>1, <4>6 DEF Tracked
      <4> QED BY <4>2, <4>3, <4>4, <4>5, <4>6
    <3> QED BY <1>2, <3>2, <3>3, <3>4 DEF QemuIdx
  <2>2. CASE RemoveQemu
    <3>1. depth = QemuIdx
          BY <2>2, ChrootPlaces, PipelineLength, <1>2 DEF RemoveQemu, Cleaning
    <3>2. Root \in mounts
          BY <3>1 DEF InterpreterInv, QemuIdx, MountIdx
    <3>3. PICK stuck \in SUBSET (files \cap tracked) :
             /\ files' = files \ (tracked \ stuck)
             /\ swallowed' = IF stuck = {} THEN swallowed ELSE swallowed \cup {"remove"}
          BY <2>2, <3>2 DEF RemoveQemu
    <3>4. files \subseteq tracked /\ tracked' = tracked
          BY <2>2 DEF RemoveQemu, InterpreterInv, stepVars
    <3>5. files' = stuck
          BY <3>3, <3>4
    <3> QED BY <3>3, <3>4, <3>5 DEF InterpreterInv
  <2>3. CASE UNCHANGED <<files, tracked>> /\ ~RemoveQemu
    <3> SUFFICES ASSUME files' # {}, "remove" \notin swallowed' PROVE depth' >= QemuIdx
        BY <2>3 DEF InterpreterInv
    <3>1. files # {} /\ "remove" \notin swallowed
          BY <1>1, <2>3
    <3>2. config.qemu /\ depth >= QemuIdx
          BY <3>1 DEF InterpreterInv
    <3> SUFFICES ASSUME depth' < QemuIdx PROVE FALSE
        BY <1>2 DEF QemuIdx
    <3>3. phase = "cleanup" /\ depth = QemuIdx /\ depth' # depth
          BY <1>3, <3>2, Passed DEF QemuIdx
    <3> QED BY <2>3, <3>2, <3>3, WhoCleans DEF QemuIdx
  <2> QED BY <2>1, <2>2, <2>3, WhoInstalls
<1>7. binfmt' => /\ config.qemu /\ "binfmt" \in bag'
                 /\ depth' >= BinfmtIdx \/ "deregister" \in swallowed'
  <2>1. CASE RegisterBinFmt
    <3>1. phase = "run" /\ Pipeline[idx] = "RegisterBinFmt" /\ idx \in 1..12 /\ depth' = idx
          BY <1>2, <2>1 DEF RegisterBinFmt, Running, Return, HaltsSilently
    <3>2. idx = BinfmtIdx /\ config.qemu
          BY <3>1, ChrootPlaces DEF InterpreterInv, Included
    <3>3. "binfmt" \in bag' \/ binfmt' = binfmt
          BY <2>1 DEF RegisterBinFmt
    <3>4. depth' >= BinfmtIdx
          BY <1>2, <3>1, <3>2 DEF BinfmtIdx
    <3> QED BY <1>1, <3>2, <3>3, <3>4 DEF InterpreterInv
  <2>2. CASE UnregisterBinFmt
    <3>1. binfmt \in BOOLEAN
          BY DEF TypeOK, HostTypeOK
    <3>2. binfmt' => binfmt /\ "deregister" \in swallowed'
          BY <2>2, <3>1 DEF UnregisterBinFmt, InterpreterInv
    <3> QED BY <1>1, <3>2 DEF InterpreterInv
  <2>3. CASE binfmt' = binfmt /\ ~UnregisterBinFmt
    <3> SUFFICES ASSUME binfmt, "deregister" \notin swallowed' PROVE depth' >= BinfmtIdx
        BY <1>1, <2>3 DEF InterpreterInv
    <3>1. config.qemu /\ depth >= BinfmtIdx
          BY <1>1 DEF InterpreterInv
    <3> SUFFICES ASSUME depth' < BinfmtIdx PROVE FALSE
        BY <1>2 DEF BinfmtIdx
    <3>2. phase = "cleanup" /\ depth = BinfmtIdx /\ depth' # depth
          BY <1>3, <3>1, Passed DEF BinfmtIdx
    <3> QED BY <2>3, <3>1, <3>2, WhoCleans DEF BinfmtIdx
  <2> QED BY <2>1, <2>2, <2>3, WhoInstalls
<1> QED BY <1>1, <1>4, <1>5, <1>6, <1>7 DEF InterpreterInv

\* The inductive invariant of the interpreter holds in every behaviour.
THEOREM InterpreterInvariant == Spec => []InterpreterInv
BY InterpreterInit, InterpreterStep, TypeCorrect, ReleaseInvariant, PTL DEF Spec

\* However a build ends, no qemu binary stays in its image and no interpreter stays
\* registered, unless the removal itself failed: after a makeWrapper that stopped
\* half way and after a panic as well (step_qemu_user_static.go:56-137,
\* step_register_bin_fmt.go:29-87).
THEOREM NoInterpreterStays == Spec => []InterpreterRemoved
<1>1. TypeOK /\ ReleaseInv /\ InterpreterInv => InterpreterRemoved
      BY DEF ReleaseInv, RunnerInv, InterpreterInv, InterpreterRemoved, QemuIdx, BinfmtIdx
<1> QED BY <1>1, InterpreterInvariant, TypeCorrect, ReleaseInvariant, PTL

-----------------------------------------------------------------------------
(* The chroot is ready *)

\* The provisioners have run, or were broken off.
Provisioned == idx > ProvisionIdx \/ (idx = ProvisionIdx /\ phase = "after")

\* What each step that is done has added to the chroot, until the provisioners run.
ScanKnown ==
    /\ partitions \in ScanResults \cup {<< >>}
    /\ phase = "mounting" \/ Done(MountIdx) => partitions # Torn /\ OnePerMount(partitions)

ExtrasListed ==
    Building => /\ Len(extras) <= Len(ChrootMounts)
                /\ \A k \in DOMAIN extras : extras[k] = ChrootMounts[k] /\ extras[k] # ResolvConf

StepsAdded ==
    /\ Building /\ Done(MountIdx) => Range(mountpoints) = ImagePoints
    /\ Building /\ Done(ExtraIdx) => Range(extras) = ExtraPoints
    /\ Building /\ config.qemu /\ Done(QemuIdx) =>
          "qemu" \in files /\ (config.args => "wrapped" \in files)
    /\ Building /\ config.qemu /\ Done(BinfmtIdx) => binfmt

MountsKnown == Building /\ ~Provisioned => mounts = Range(mountpoints) \cup Range(extras)

ChrootInv == ScanKnown /\ ExtrasListed /\ StepsAdded /\ MountsKnown

\* Nothing is there when the build begins.
LEMMA ChrootInit == Init => ChrootInv
<1> SUFFICES ASSUME Init PROVE ChrootInv
    OBVIOUS
<1>1. Len(ChrootMounts) \in Nat
      BY ChrootMountsEntries
<1>2. /\ phase = "check" /\ idx = 1 /\ partitions = << >> /\ extras = << >>
      /\ mountpoints = << >> /\ mounts = {}
      BY DEF Init
<1>3. ~Done(MountIdx) /\ ~Done(ExtraIdx) /\ ~Done(QemuIdx) /\ ~Done(BinfmtIdx)
      BY <1>2 DEF Done, MountIdx, ExtraIdx, QemuIdx, BinfmtIdx
<1> QED BY <1>1, <1>2, <1>3
        DEF ChrootInv, ScanKnown, ExtrasListed, StepsAdded, MountsKnown, Range

\* A step is done once its Run returns, or when it is left out.
LEMMA DoneGrows ==
    ASSUME TypeOK, RunnerInv, [Next]_vars, NEW k \in 1..12, Done(k)', ~Done(k)
    PROVE  /\ idx = k
           /\ \/ SkipStep
              \/ phase \in {"run", "mounting"} /\ phase' = "after" /\ action' = "continue"
<1> USE DEF Done
<1>1. Move
      BY Moves
<1>2. idx \in 1..13 /\ action \in {"continue", "halt"}
      BY PipelineLength DEF TypeOK, RunnerTypeOK
<1>3. CASE ReturnsFrom
      BY <1>2, <1>3 DEF ReturnsFrom, Return
<1>4. CASE SkipStep
      BY <1>2, <1>4 DEF SkipStep
<1>5. CASE AfterStep
      BY <1>2, <1>5 DEF AfterStep
<1>6. CASE UNCHANGED runnerVars
      BY <1>2, <1>6 DEF runnerVars
<1>7. CASE PanicsFrom \/ EndsCleanup \/ EntersMounting
      BY <1>2, <1>7 DEF PanicsFrom, RunPanics, EndsCleanup, CleanupEnds, EntersMounting
<1>8. CASE CheckCancelled \/ NoMoreSteps \/ RunnerReturns \/ BuilderReturns
      BY <1>2, <1>8 DEF CheckCancelled, NoMoreSteps, RunnerReturns, BuilderReturns
<1> QED BY <1>1, <1>3, <1>4, <1>5, <1>6, <1>7, <1>8 DEF Move

\* The build only goes forward.
LEMMA StaysProvisioned ==
    ASSUME TypeOK, RunnerInv, [Next]_vars, Building', ~Provisioned'
    PROVE  Building /\ ~Provisioned
<1> USE DEF Provisioned, ProvisionIdx, Building
<1>1. Move /\ Building
      BY Moves, Progress
<1>2. idx \in 1..13
      BY PipelineLength DEF TypeOK, RunnerTypeOK
<1>3. CASE ReturnsFrom
      BY <1>1, <1>2, <1>3 DEF ReturnsFrom, Return
<1>4. CASE SkipStep \/ AfterStep
      BY <1>1, <1>2, <1>4 DEF SkipStep, AfterStep
<1>5. CASE UNCHANGED runnerVars
      BY <1>1, <1>2, <1>5 DEF runnerVars
<1>6. CASE PanicsFrom \/ EndsCleanup \/ EntersMounting
      BY <1>1, <1>2, <1>6 DEF PanicsFrom, RunPanics, EndsCleanup, CleanupEnds, EntersMounting,
             Running
<1>7. CASE CheckCancelled \/ NoMoreSteps \/ RunnerReturns \/ BuilderReturns
      BY <1>1, <1>2, <1>7 DEF CheckCancelled, NoMoreSteps, RunnerReturns, BuilderReturns
<1> QED BY <1>1, <1>3, <1>4, <1>5, <1>6, <1>7 DEF Move

\* Only stepMapImage leaves a list of partitions, and only a full one is mounted.
LEMMA ScanStep ==
    ASSUME TypeOK, TypeOK', RunnerInv, ScanKnown, [Next]_vars PROVE ScanKnown'
<1>1. idx \in 1..13 /\ Move
      BY Moves, PipelineLength DEF TypeOK, RunnerTypeOK
<1>2. CASE MapImage
  <2>1. idx = MapIdx /\ phase = "run" /\ phase' = "after" /\ idx' = idx
        BY <1>1, <1>2, PipelinePlaces, PipelineLength
           DEF MapImage, Running, Return, HaltsSilently
  <2>2. ~Done(MountIdx)'
        BY <2>1 DEF Done, MapIdx, MountIdx
  <2>3. partitions' \in ScanResults \cup {<< >>}
        BY <1>2 DEF MapImage, ScanKnown
  <2> QED BY <2>1, <2>2, <2>3 DEF ScanKnown
<1>3. CASE ~MapImage
  <2>1. partitions' = partitions
        BY <1>3, WhoMaps DEF UnmapImage, stepVars
  <2>2. phase' = "mounting" => phase = "mounting" \/ EntersMounting
        BY <1>1 DEF Move, runnerVars, PanicsFrom, EndsCleanup, CleanupEnds, ReturnsFrom,
           CheckCancelled, SkipStep, NoMoreSteps, AfterStep, RunnerReturns,
           BuilderReturns, Return, RunPanics
  <2>3. Done(MountIdx)' => Done(MountIdx) \/ phase = "mounting"
        BY Progress DEF AllMounted
  <2> QED BY <2>1, <2>2, <2>3 DEF ScanKnown, EntersMounting, OnePerMount
<1> QED BY <1>2, <1>3

\* Only two steps change the list of extra mounts, and two the configured ones.
LEMMA WhoLists ==
    ASSUME [Next]_vars
    PROVE  UNCHANGED extras \/ MountExtra \/ UmountExtra
BY DEF Next, Builder, vars, stepVars, hostVars,
       CheckCancelled, SkipStep, NoMoreSteps, AfterStep, NothingToClean, Download,
       CopyImage, ResizeLastPart, ResizeFs, MapImage, StartMounting, MountPartition,
       AllMounted, AllExtrasMounted, MountCleanup, HandleResolvConf,
       InstallQemu, RegisterBinFmt, RemoveQemu, UnregisterBinFmt,
       Provision, KillProcs, ExtrasUmounted,
       UmountPartition, ImageUmounted, UnmapImage, RunnerReturns, BuilderReturns,
       Cancel, WatcherMarksCancelled, ProcsExit, Over

\* Before stepMountExtra ends nothing but its own Run adds to its list, in order.
LEMMA ExtrasStep ==
    ASSUME TypeOK, TypeOK', RunnerInv, ExtrasListed, [Next]_vars PROVE ExtrasListed'
<1> SUFFICES ASSUME Building'
             PROVE  /\ Len(extras') <= Len(ChrootMounts')
                    /\ \A k \in DOMAIN extras' :
                          extras'[k] = ChrootMounts'[k] /\ extras'[k] # ResolvConf
    BY DEF ExtrasListed
<1>1. Building /\ ChrootMounts' = ChrootMounts
      BY Progress, ConfigKept DEF ChrootMounts
<1>2. /\ Len(extras) <= Len(ChrootMounts)
      /\ \A k \in DOMAIN extras : extras[k] = ChrootMounts[k] /\ extras[k] # ResolvConf
      BY <1>1 DEF ExtrasListed
<1>3. extras \in Seq(ExtraPoints) /\ Len(ChrootMounts) \in Nat
      BY ChrootMountsEntries DEF TypeOK, StepTypeOK
<1>4. CASE UNCHANGED extras
      BY <1>1, <1>2, <1>4
<1>5. CASE MountExtra /\ ~UNCHANGED extras
  <2> DEFINE path == ChrootMounts[Len(extras) + 1]
  <2>1. Len(extras) < Len(ChrootMounts) /\ path # ResolvConf /\ extras' = Append(extras, path)
        BY <1>5 DEF MountExtra
  <2> HIDE DEF path
  <2>2. /\ Len(extras') = Len(extras) + 1 /\ DOMAIN extras' = 1..(Len(extras) + 1)
        /\ \A k \in 1..Len(extras) : extras'[k] = extras[k]
        /\ extras'[Len(extras) + 1] = path
        BY <1>3, <2>1
  <2>3. \A k \in DOMAIN extras' : k \in DOMAIN extras \/ k = Len(extras) + 1
        BY <1>3, <2>2
  <2>4. Len(extras') <= Len(ChrootMounts)
        BY <1>3, <2>1, <2>2
  <2> QED BY <1>1, <1>2, <1>3, <2>1, <2>2, <2>3, <2>4 DEF path
<1>6. CASE UmountExtra
      BY <1>1, <1>6 DEF UmountExtra, Cleaning, Building
<1> QED BY <1>4, <1>5, <1>6, WhoLists

\* A list of all the extra mounts there are to mount is the configured one: mounting
\* /etc/resolv.conf itself fails.
LEMMA AllExtras ==
    ASSUME TypeOK, ExtrasListed, Building, Len(extras) = Len(ChrootMounts)
    PROVE  Range(extras) = ExtraPoints
<1>1. /\ \A k \in DOMAIN extras : extras[k] = ChrootMounts[k] /\ extras[k] # ResolvConf
      BY DEF ExtrasListed
<1>2. extras \in Seq(ExtraPoints) /\ ExtraMounts \in Seq(Seq(Nat) \ {Root})
      BY MountsAssumption DEF TypeOK, StepTypeOK
<1>3. config.resolv # "bind"
  <2> SUFFICES ASSUME config.resolv = "bind" PROVE FALSE
      OBVIOUS
  <2>1. ChrootMounts = Append(ExtraMounts, ResolvConf)
        BY DEF ChrootMounts
  <2>2. ResolvConf \in Seq(Nat) \ {Root}
        BY MountsAssumption
  <2>3. /\ Len(ChrootMounts) = Len(ExtraMounts) + 1
        /\ ChrootMounts[Len(ExtraMounts) + 1] = ResolvConf
        BY <1>2, <2>1, <2>2
  <2>4. Len(ExtraMounts) + 1 \in DOMAIN extras
        BY <1>2, <2>3
  <2> QED BY <1>1, <2>3, <2>4
<1>4. ChrootMounts = ExtraMounts
      BY <1>3 DEF ChrootMounts
<1>5. DOMAIN extras = DOMAIN ExtraMounts
      BY <1>2, <1>4
<1> QED BY <1>1, <1>4, <1>5 DEF Range, ExtraPoints

\* What a step that is done has added stays there while the build goes on.
LEMMA MountpointsStep ==
    ASSUME TypeOK, TypeOK', RunnerInv, Building /\ Done(MountIdx) => Range(mountpoints) = ImagePoints,
           [Next]_vars, Building', Done(MountIdx)'
    PROVE  Range(mountpoints') = ImagePoints
<1>1. Building
      BY Progress
<1>2. mountpoints \in Seq(ImagePoints) /\ Range(mountpoints) \subseteq ImagePoints
      BY DEF TypeOK, StepTypeOK, Range
<1>3. CASE AllMounted
  <2>1. mountpoints' = mountpoints /\ ToMount = {}
        BY <1>3 DEF AllMounted, stepVars
  <2>2. ImagePoints \subseteq Range(mountpoints)
    <3> SUFFICES ASSUME NEW m \in ImagePoints PROVE m \in Range(mountpoints)
        OBVIOUS
    <3>1. PICK i \in DOMAIN ImageMounts : ImageMounts[i] = m /\ m # NoMount
          BY DEF ImagePoints, Range
    <3> QED BY <2>1, <3>1 DEF ToMount
  <2> QED BY <1>2, <2>1, <2>2
<1>4. CASE ~AllMounted
  <2>1. Done(MountIdx)
        BY <1>4, Progress
  <2>2. ~MountPartition
    <3>1. phase = "mounting" => idx = MountIdx
          BY DEF RunnerInv
    <3>2. MountIdx \in Int
          BY DEF MountIdx
    <3> QED BY <2>1, <3>1, <3>2 DEF MountPartition, Done
  <2>3. ~UmountPartition
        BY <1>1 DEF UmountPartition, Cleaning, Building
  <2>4. mountpoints' = mountpoints
        BY <2>2, <2>3, WhoMounts DEF MountExtra, UmountExtra, Provision, stepVars
  <2> QED BY <1>1, <2>1, <2>4
<1> QED BY <1>3, <1>4

\* stepMountExtra is done only with all of them.
LEMMA ExtrasAdded ==
    ASSUME TypeOK, RunnerInv, ExtrasListed,
           Building /\ Done(ExtraIdx) => Range(extras) = ExtraPoints,
           [Next]_vars, Building', Done(ExtraIdx)'
    PROVE  Range(extras') = ExtraPoints
<1>1. Building /\ ExtraIdx \in 1..12
      BY Progress DEF ExtraIdx
<1>2. CASE Done(ExtraIdx)
  <2>1. ~MountExtra
    <3>1. idx \in 1..13 /\ (phase = "run" => idx <= 12)
          BY PipelineLength DEF TypeOK, RunnerTypeOK
    <3> QED BY <1>2, <3>1, ChrootPlaces DEF MountExtra, Running, Done
  <2>2. ~UmountExtra
        BY <1>1 DEF UmountExtra, Cleaning, Building
  <2> QED BY <1>1, <1>2, <2>1, <2>2, WhoLists
<1>3. CASE ~Done(ExtraIdx)
  <2>1. /\ idx = ExtraIdx
        /\ \/ SkipStep
           \/ phase \in {"run", "mounting"} /\ phase' = "after" /\ action' = "continue"
        BY <1>1, <1>3, DoneGrows
  <2>2. ~SkipStep
        BY <1>1, <2>1, ChrootPlaces DEF SkipStep, Included
  <2>3. phase # "mounting"
        BY <2>1 DEF RunnerInv, MountIdx, ExtraIdx
  <2>4. MountExtra \/ AllExtrasMounted
        BY <1>1, <2>1, <2>2, <2>3, WhoReturns, ChrootPlaces
  <2>5. ~MountExtra
        BY <2>1, <2>2, <2>3 DEF MountExtra, HaltsWithError, Return, runnerVars
  <2> QED BY <1>1, <2>4, <2>5, AllExtras DEF AllExtrasMounted, stepVars
<1> QED BY <1>2, <1>3

\* stepQemuUserStatic is done only with its binary, and the wrapper where one is asked for.
LEMMA QemuAdded ==
    ASSUME TypeOK, RunnerInv, config.qemu,
           Building /\ Done(QemuIdx) => "qemu" \in files /\ (config.args => "wrapped" \in files),
           [Next]_vars, Building', Done(QemuIdx)'
    PROVE  "qemu" \in files' /\ (config.args => "wrapped" \in files')
<1>1. Building /\ QemuIdx \in 1..12
      BY Progress DEF QemuIdx
<1>2. CASE Done(QemuIdx)
  <2>1. ~InstallQemu
    <3>1. idx \in 1..13 /\ (phase = "run" => idx <= 12)
          BY PipelineLength DEF TypeOK, RunnerTypeOK
    <3>2. InstallQemu => phase = "run" /\ Pipeline[idx] = "QemuUserStatic"
          BY DEF InstallQemu, Running
    <3> QED BY <1>2, <3>1, <3>2, ChrootPlaces DEF Done
  <2>2. ~RemoveQemu
        BY <1>1 DEF RemoveQemu, Cleaning, Building
  <2> QED BY <1>1, <1>2, <2>1, <2>2, WhoInstalls
<1>3. CASE ~Done(QemuIdx)
  <2>1. /\ idx = QemuIdx
        /\ \/ SkipStep
           \/ phase \in {"run", "mounting"} /\ phase' = "after" /\ action' = "continue"
        BY <1>1, <1>3, DoneGrows
  <2>2. ~SkipStep
        BY <1>1, <2>1, ChrootPlaces DEF SkipStep, Included
  <2>3. phase # "mounting"
        BY <2>1 DEF RunnerInv, MountIdx, QemuIdx
  <2>4. InstallQemu
        BY <1>1, <2>1, <2>2, <2>3, WhoReturns, ChrootPlaces
  <2>5. PICK failed \in {"none"} \cup {c \in {"cp", "tempdir", "mv", "gcc"} :
                                     MayFail(c) /\ (c = "cp" \/ config.args)} :
           /\ IF failed = "cp" THEN files' \in {{}, {"qemu"}}
              ELSE files' = CASE config.args /\ failed = "none" -> {"qemu", "wrapped"}
                              [] failed = "gcc"                 -> {"wrapped"}
                              [] OTHER                          -> {"qemu"}
           /\ Return(IF failed = "none" THEN "continue" ELSE "halt")
        BY <2>4 DEF InstallQemu
  <2>6. failed = "none"
        BY <2>1, <2>2, <2>5 DEF Return
  <2> QED BY <2>5, <2>6
<1> QED BY <1>2, <1>3

\* stepRegisterBinFmt is done only with the interpreter registered.
LEMMA BinfmtAdded ==
    ASSUME TypeOK, RunnerInv, config.qemu, Building /\ Done(BinfmtIdx) => binfmt,
           [Next]_vars, Building', Done(BinfmtIdx)'
    PROVE  binfmt'
<1>1. Building /\ BinfmtIdx \in 1..12
      BY Progress DEF BinfmtIdx
<1>2. CASE Done(BinfmtIdx)
  <2>1. ~RegisterBinFmt
    <3>1. idx \in 1..13 /\ (phase = "run" => idx <= 12)
          BY PipelineLength DEF TypeOK, RunnerTypeOK
    <3>2. RegisterBinFmt => phase = "run" /\ Pipeline[idx] = "RegisterBinFmt"
          BY DEF RegisterBinFmt, Running
    <3> QED BY <1>2, <3>1, <3>2, ChrootPlaces DEF Done
  <2>2. ~UnregisterBinFmt
        BY <1>1 DEF UnregisterBinFmt, Cleaning, Building
  <2> QED BY <1>1, <1>2, <2>1, <2>2, WhoInstalls
<1>3. CASE ~Done(BinfmtIdx)
  <2>1. /\ idx = BinfmtIdx
        /\ \/ SkipStep
           \/ phase \in {"run", "mounting"} /\ phase' = "after" /\ action' = "continue"
        BY <1>1, <1>3, DoneGrows
  <2>2. ~SkipStep
        BY <1>1, <2>1, ChrootPlaces DEF SkipStep, Included
  <2>3. phase # "mounting"
        BY <2>1 DEF RunnerInv, MountIdx, BinfmtIdx
  <2>4. RegisterBinFmt
        BY <1>1, <2>1, <2>2, <2>3, WhoReturns, ChrootPlaces
  <2> QED BY <2>1, <2>2, <2>4 DEF RegisterBinFmt, HaltsSilently, Return
<1> QED BY <1>2, <1>3

\* Until the provisioners run, what is mounted is what the two steps remember.
LEMMA MountsStep ==
    ASSUME TypeOK, RunnerInv, MountsKnown, [Next]_vars PROVE MountsKnown'
<1> SUFFICES ASSUME Building', ~Provisioned'
             PROVE  mounts' = Range(mountpoints') \cup Range(extras')
    BY DEF MountsKnown
<1>1. Building /\ ~Provisioned /\ mounts = Range(mountpoints) \cup Range(extras)
      BY StaysProvisioned DEF MountsKnown
<1>2. extras \in Seq(ExtraPoints) /\ mountpoints \in Seq(ImagePoints)
      BY DEF TypeOK, StepTypeOK
<1>3. ASSUME NEW i \in ToMount, mounts' = mounts \cup {ImageMounts[i]},
             mountpoints' = Append(mountpoints, ImageMounts[i]), extras' = extras
      PROVE  mounts' = Range(mountpoints') \cup Range(extras')
  <2>1. Range(mountpoints') = Range(mountpoints) \cup {ImageMounts[i]}
        BY <1>2, <1>3, ToMountPoints, RangeAppend
  <2> QED BY <1>1, <1>3, <2>1
<1>4. CASE MountPartition
      BY <1>1, <1>3, <1>4 DEF MountPartition
<1>5. CASE MountExtra
  <2> DEFINE path == ChrootMounts[Len(extras) + 1]
  <2>1. mountpoints' = mountpoints
        BY <1>5 DEF MountExtra
  <2>2. CASE path # ResolvConf /\ mounts' = mounts \cup {path} /\ extras' = Append(extras, path)
    <3>1. Len(extras) + 1 \in 1..Len(ChrootMounts)
          BY <1>2, <1>5, ChrootMountsEntries DEF MountExtra
    <3>2. path \in ExtraPoints
          BY <2>2, <3>1, ChrootMountsEntries
    <3> HIDE DEF path
    <3>3. Range(extras') = Range(extras) \cup {path}
          BY <1>2, <2>2, <3>2, RangeAppend
    <3> QED BY <1>1, <2>1, <2>2, <3>3
  <2>3. CASE UNCHANGED <<mounts, extras>>
        BY <1>1, <2>1, <2>3
  <2> QED BY <1>5, <2>2, <2>3 DEF MountExtra
<1>6. ~UmountExtra /\ ~UmountPartition
      BY <1>1 DEF UmountExtra, UmountPartition, Cleaning, Building
<1>7. ~Provision
  <2>1. idx \in 1..13 /\ (phase = "run" => idx <= 12)
        BY PipelineLength DEF TypeOK, RunnerTypeOK
  <2>2. Provision => phase' = "after" /\ idx' = idx /\ idx \in 1..12 /\ Pipeline[idx] = "ChrootProvision"
        BY <2>1, PipelineLength DEF Provision, Running, Return, HaltsWithError
  <2> QED BY <2>2, ChrootPlaces DEF Provisioned
<1>8. CASE UNCHANGED <<mounts, mountpoints, extras>>
      BY <1>1, <1>8
<1> QED BY <1>4, <1>5, <1>6, <1>7, <1>8, WhoMounts, WhoLists

\* Every step keeps the invariant of the chroot.
LEMMA ChrootStep ==
    ASSUME TypeOK, TypeOK', RunnerInv, ChrootInv, [Next]_vars PROVE ChrootInv'
<1>1. ScanKnown' /\ ExtrasListed' /\ MountsKnown'
      BY ScanStep, ExtrasStep, MountsStep DEF ChrootInv
<1>2. config' = config
      BY ConfigKept
<1>3. (Building /\ Done(MountIdx))' => Range(mountpoints') = ImagePoints
      BY MountpointsStep DEF ChrootInv, StepsAdded
<1>4. (Building /\ Done(ExtraIdx))' => Range(extras') = ExtraPoints
      BY ExtrasAdded DEF ChrootInv, StepsAdded
<1>5. config.qemu /\ (Building /\ Done(QemuIdx))' =>
         "qemu" \in files' /\ (config.args => "wrapped" \in files')
      BY QemuAdded DEF ChrootInv, StepsAdded
<1>6. config.qemu /\ (Building /\ Done(BinfmtIdx))' => binfmt'
      BY BinfmtAdded DEF ChrootInv, StepsAdded
<1>7. StepsAdded'
      BY <1>2, <1>3, <1>4, <1>5, <1>6 DEF StepsAdded
<1> QED BY <1>1, <1>7 DEF ChrootInv

\* The inductive invariant of the chroot holds in every behaviour.
THEOREM ChrootInvariant == Spec => []ChrootInv
<1>1. ReleaseInv => RunnerInv
      BY DEF ReleaseInv
<1> QED BY <1>1, ChrootInit, ChrootStep, TypeCorrect, ReleaseInvariant, PTL DEF Spec

\* The provisioners start in a chroot where every configured partition and every
\* extra mount, and nothing else, is mounted, with the interpreter the foreign
\* binaries need: for any mount table and any order of failures before it
\* (builder.go:282-331, step_mount_image.go:24-88).
THEOREM ProvisionersFindAll == Spec => []ChrootReady
<1>1. TypeOK /\ ChrootInv => ChrootReady
  <2> SUFFICES ASSUME TypeOK, ChrootInv, Running("ChrootProvision")
               PROVE  /\ partitions = AllPartitions
                      /\ mounts = ImagePoints \cup ExtraPoints
                      /\ config.qemu => binfmt /\ "qemu" \in files
                      /\ config.qemu /\ config.args => "wrapped" \in files
      BY DEF ChrootReady
  <2>1. phase = "run" /\ idx = ProvisionIdx
        BY PipelineLength, ChrootPlaces DEF Running, TypeOK, RunnerTypeOK
  <2>2. Building /\ ~Provisioned
        BY <2>1 DEF Building, Provisioned, ProvisionIdx
  <2>3. Done(MountIdx) /\ Done(ExtraIdx) /\ Done(QemuIdx) /\ Done(BinfmtIdx)
        BY <2>1 DEF Done, MountIdx, ExtraIdx, QemuIdx, BinfmtIdx, ProvisionIdx
  <2>4. partitions = AllPartitions
    <3>1. partitions # Torn /\ Len(partitions) = Len(ImageMounts)
          BY <2>3 DEF ChrootInv, ScanKnown, OnePerMount
    <3>2. partitions # << >>
      <4>1. PICK r \in DOMAIN ImageMounts : TRUE
            BY MountsAssumption DEF Range
      <4>2. Len(ImageMounts) # 0
            BY <4>1, MountsAssumption
      <4> QED BY <3>1, <4>2
    <3>3. partitions \in ScanResults
          BY <3>2 DEF ChrootInv, ScanKnown
    <3> QED BY <3>1, <3>3, FullScanAssumption
  <2>5. mounts = ImagePoints \cup ExtraPoints
        BY <2>2, <2>3 DEF ChrootInv, MountsKnown, StepsAdded
  <2> QED BY <2>2, <2>3, <2>4, <2>5 DEF ChrootInv, StepsAdded
<1> QED BY <1>1, ChrootInvariant, TypeCorrect, PTL

-----------------------------------------------------------------------------
(* Nothing that is mounted is hidden *)

\* The loop of stepMountImage has not begun.
Unmounted == idx < MountIdx \/ (idx = MountIdx /\ phase \in {"check", "run"})

\* A step finds nothing mounted by a later one; and what stepMountImage has yet to
\* mount lies above nothing that it has mounted.
SortedInv ==
    /\ Building /\ idx < ExtraIdx => extras = << >>
    /\ Building /\ Unmounted => mountpoints = << >>
    /\ phase = "mounting" =>
          \A i \in ToMount : \A p \in Range(mountpoints) : ~Under(p, ImageMounts[i])

\* The host's directories are listed outside in, as the default ones are
\* (builder.go:52-58); stepMountExtra mounts them as they are listed.
ListedOutsideIn ==
    \A j, k \in DOMAIN ExtraMounts : j < k => ~Under(ExtraMounts[j], ExtraMounts[k])

\* Nothing is mounted when the build begins.
LEMMA SortedInit == Init => SortedInv
BY DEF Init, SortedInv

\* The build does not go back to a step before these two.
LEMMA StaysBehind ==
    ASSUME TypeOK, RunnerInv, [Next]_vars, Building'
    PROVE  /\ Building
           /\ idx' < ExtraIdx => idx < ExtraIdx
           /\ Unmounted' => Unmounted
           /\ phase' = "mounting" => phase = "mounting" \/ (EntersMounting /\ Unmounted)
<1> USE DEF Unmounted, ExtraIdx, MountIdx, Building
<1>1. Move /\ Building
      BY Moves, Progress
<1>2. idx \in 1..13
      BY PipelineLength DEF TypeOK, RunnerTypeOK
<1>3. CASE ReturnsFrom
      BY <1>1, <1>2, <1>3 DEF ReturnsFrom, Return
<1>4. CASE SkipStep \/ AfterStep
      BY <1>1, <1>2, <1>4 DEF SkipStep, AfterStep
<1>5. CASE UNCHANGED runnerVars
      BY <1>1, <1>2, <1>5 DEF runnerVars
<1>6. CASE EntersMounting
  <2>1. idx = MountIdx /\ phase = "run" /\ idx' = idx /\ phase' = "mounting"
        BY <1>2, <1>6, PipelinePlaces, PipelineLength DEF EntersMounting, Running
  <2> QED BY <1>1, <1>6, <2>1
<1>7. CASE PanicsFrom \/ EndsCleanup
      BY <1>1, <1>2, <1>7 DEF PanicsFrom, RunPanics, EndsCleanup, CleanupEnds
<1>8. CASE CheckCancelled \/ NoMoreSteps \/ RunnerReturns \/ BuilderReturns
      BY <1>1, <1>2, <1>8 DEF CheckCancelled, NoMoreSteps, RunnerReturns, BuilderReturns
<1> QED BY <1>1, <1>3, <1>4, <1>5, <1>6, <1>7, <1>8 DEF Move

\* The mount that comes next in the order lies above none of the others.
LEMMA NextIsOutermost ==
    ASSUME TypeOK, SortedInv, phase = "mounting", NEW i \in ToMount,
           \A j \in ToMount : ~Before(ImageMounts[j], ImageMounts[i]),
           mountpoints' = Append(mountpoints, ImageMounts[i])
    PROVE  \A j \in ToMount' : \A p \in Range(mountpoints') : ~Under(p, ImageMounts[j])
<1>1. mountpoints \in Seq(ImagePoints) /\ ImageMounts[i] \in ImagePoints
      BY ToMountPoints DEF TypeOK, StepTypeOK
<1>2. Range(mountpoints') = Range(mountpoints) \cup {ImageMounts[i]}
      BY <1>1, RangeAppend
<1>3. ToMount' \subseteq ToMount
      BY <1>2 DEF ToMount
<1>4. \A j \in ToMount : ~Under(ImageMounts[i], ImageMounts[j])
      BY DEF Before
<1> QED BY <1>2, <1>3, <1>4 DEF SortedInv

\* Every step keeps the order of the mounts.
LEMMA SortedStep ==
    ASSUME TypeOK, RunnerInv, SortedInv, [Next]_vars PROVE SortedInv'
<1>1. ASSUME Building', idx' < ExtraIdx PROVE extras' = << >>
  <2>1. Building /\ idx < ExtraIdx /\ extras = << >>
        BY <1>1, StaysBehind DEF SortedInv
  <2>2. ~MountExtra
    <3>1. idx \in 1..13
          BY PipelineLength DEF TypeOK, RunnerTypeOK
    <3> QED BY <2>1, <3>1, ChrootPlaces, PipelineLength DEF MountExtra, Running, ExtraIdx
  <2>3. ~UmountExtra
        BY <2>1 DEF UmountExtra, Cleaning, Building
  <2> QED BY <2>1, <2>2, <2>3, WhoLists
<1>2. ASSUME Building' PROVE ~UmountPartition /\ ~UmountExtra
  <2>1. Building
        BY <1>2, StaysBehind
  <2> QED BY <2>1 DEF UmountPartition, UmountExtra, Cleaning, Building
<1>3. ASSUME Building' PROVE UNCHANGED mountpoints \/ MountPartition
      BY <1>2, <1>3, WhoMounts DEF MountExtra, Provision, stepVars
<1>4. ASSUME Building', Unmounted' PROVE mountpoints' = << >>
  <2>1. Building /\ Unmounted /\ mountpoints = << >>
        BY <1>4, StaysBehind DEF SortedInv
  <2>2. phase # "mounting"
        BY <2>1 DEF RunnerInv, Unmounted, MountIdx
  <2> QED BY <1>3, <1>4, <2>1, <2>2 DEF MountPartition
<1>5. ASSUME phase' = "mounting"
      PROVE  \A i \in ToMount' : \A p \in Range(mountpoints') : ~Under(p, ImageMounts[i])
  <2>1. Building' /\ (phase = "mounting" \/ (EntersMounting /\ Unmounted))
        BY <1>5, StaysBehind DEF Building
  <2>2. CASE MountPartition
    <3>1. ~Return("halt")
          BY <1>5 DEF Return
    <3>2. PICK i \in ToMount :
             /\ \A j \in ToMount : ~Before(ImageMounts[j], ImageMounts[i])
             /\ mountpoints' = Append(mountpoints, ImageMounts[i])
          BY <2>2, <3>1 DEF MountPartition
    <3>3. phase = "mounting"
          BY <2>2 DEF MountPartition
    <3> QED BY <3>2, <3>3, NextIsOutermost
  <2>3. CASE UNCHANGED mountpoints /\ phase = "mounting"
        BY <2>3 DEF SortedInv, ToMount
  <2>4. CASE UNCHANGED mountpoints /\ EntersMounting /\ Unmounted
    <3>1. mountpoints' = << >>
          BY <2>1, <2>4, StaysBehind DEF SortedInv
    <3> QED BY <3>1 DEF Range
  <2> QED BY <1>3, <2>1, <2>2, <2>3, <2>4 DEF MountPartition
<1> QED BY <1>1, <1>4, <1>5 DEF SortedInv

\* A step of stepMountExtra lies above nothing that is mounted.
LEMMA ExtraIsOutermost ==
    ASSUME TypeOK, RunnerInv, ChrootInv, ListedOutsideIn, MountExtra,
           NEW new \in mounts' \ mounts, NEW old \in mounts
    PROVE  ~Under(old, new)
<1> DEFINE path == ChrootMounts[Len(extras) + 1]
<1>1. /\ path # ResolvConf /\ new = path
      /\ phase = "run" /\ idx = ExtraIdx /\ Len(extras) < Len(ChrootMounts)
  <2>1. idx \in 1..13
        BY PipelineLength DEF TypeOK, RunnerTypeOK
  <2> QED BY <2>1, ChrootPlaces, PipelineLength DEF MountExtra, Running
<1>2. old \in Range(mountpoints) \/ old \in Range(extras)
      BY <1>1 DEF ChrootInv, MountsKnown, Building, Provisioned, ExtraIdx, ProvisionIdx
<1>3. /\ extras \in Seq(ExtraPoints) /\ mountpoints \in Seq(ImagePoints)
      /\ ExtraMounts \in Seq(Seq(Nat) \ {Root})
      BY MountsAssumption DEF TypeOK, StepTypeOK
<1>4. /\ Len(extras) + 1 \in DOMAIN ExtraMounts
      /\ \A k \in 1..(Len(extras) + 1) : k \in DOMAIN ExtraMounts /\ ChrootMounts[k] = ExtraMounts[k]
  <2>1. CASE config.resolv # "bind"
        BY <1>1, <1>3, <2>1 DEF ChrootMounts
  <2>2. CASE config.resolv = "bind"
    <3>1. ResolvConf \in Seq(Nat) \ {Root}
          BY MountsAssumption
    <3>2. ChrootMounts = Append(ExtraMounts, ResolvConf)
          BY <2>2 DEF ChrootMounts
    <3>3. /\ Len(ChrootMounts) = Len(ExtraMounts) + 1
          /\ ChrootMounts[Len(ExtraMounts) + 1] = ResolvConf
          /\ \A k \in DOMAIN ExtraMounts : ChrootMounts[k] = ExtraMounts[k]
          BY <1>3, <3>1, <3>2
    <3>4. Len(extras) + 1 # Len(ExtraMounts) + 1
          BY <1>1, <3>3
    <3>5. Len(extras) + 1 \in 1..Len(ExtraMounts)
          BY <1>1, <1>3, <3>3, <3>4
    <3>6. DOMAIN ExtraMounts = 1..Len(ExtraMounts) /\ Len(ExtraMounts) \in Nat
          BY <1>3
    <3> QED BY <3>3, <3>5, <3>6
  <2> QED BY <2>1, <2>2
<1>5. new \in ExtraPoints /\ new = ExtraMounts[Len(extras) + 1]
      BY <1>1, <1>4 DEF ExtraPoints, Range
<1>6. CASE old \in Range(mountpoints)
  <2>1. old \in ImagePoints
        BY <1>3, <1>6 DEF Range
  <2> QED BY <1>5, <2>1, MountsAssumption
<1>7. CASE old \in Range(extras)
  <2>1. PICK k \in DOMAIN extras : old = extras[k]
        BY <1>7 DEF Range
  <2>2. k \in 1..Len(extras) /\ Len(extras) \in Nat
        BY <1>3, <2>1
  <2>3. old = ChrootMounts[k]
        BY <1>1, <2>1 DEF ChrootInv, ExtrasListed, Building
  <2>4. k \in 1..(Len(extras) + 1) /\ k < Len(extras) + 1
        BY <2>2
  <2>5. old = ExtraMounts[k] /\ k \in DOMAIN ExtraMounts
        BY <1>4, <2>3, <2>4
  <2> QED BY <1>4, <1>5, <2>4, <2>5 DEF ListedOutsideIn
<1> QED BY <1>2, <1>6, <1>7

\* Mounting a partition or a directory of the host never hides what was mounted
\* before, for any table of mounts, if the host's directories are listed outside in:
\* the partitions are sorted, and come first (step_mount_image.go:54-79,
\* step_mount_extra.go:25-73).
THEOREM MountsNeverHide == ListedOutsideIn => (Spec => MountNeverHides)
<1> SUFFICES ASSUME ListedOutsideIn PROVE Spec => MountNeverHides
    OBVIOUS
<1>1. ASSUME TypeOK, RunnerInv, ChrootInv, SortedInv, [Next]_vars,
             NEW new \in mounts' \ mounts, NEW old \in mounts
      PROVE  ~Under(old, new)
  <2>1. CASE MountPartition
    <3>1. PICK i \in ToMount : new = ImageMounts[i]
          BY <1>1, <2>1 DEF MountPartition
    <3>2. phase = "mounting" /\ idx = MountIdx
          BY <1>1, <2>1 DEF MountPartition, RunnerInv
    <3>3. extras = << >>
          BY <1>1, <3>2 DEF SortedInv, Building, MountIdx, ExtraIdx
    <3>4. mounts = Range(mountpoints) \cup Range(extras)
          BY <1>1, <3>2 DEF ChrootInv, MountsKnown, Building, Provisioned, MountIdx, ProvisionIdx
    <3>5. old \in Range(mountpoints)
          BY <1>1, <3>3, <3>4 DEF Range
    <3> QED BY <1>1, <3>1, <3>2, <3>5 DEF SortedInv
  <2>2. CASE MountExtra
        BY <1>1, <2>2, ExtraIsOutermost
  <2>3. CASE UmountExtra \/ UmountPartition \/ Provision
        BY <1>1, <2>3 DEF UmountExtra, UmountPartition, Provision, Leaves, hostVars
  <2> QED BY <1>1, <2>1, <2>2, <2>3, WhoMounts
<1>2. ReleaseInv => RunnerInv
      BY DEF ReleaseInv
<1>3. Spec => []SortedInv
      BY <1>2, SortedInit, SortedStep, TypeCorrect, ReleaseInvariant, PTL DEF Spec
<1>4. TypeOK /\ RunnerInv /\ ChrootInv /\ SortedInv /\ [Next]_vars =>
         [\A new \in mounts' \ mounts : \A old \in mounts : ~Under(old, new)]_vars
      BY <1>1
<1> QED BY <1>2, <1>3, <1>4, TypeCorrect, ReleaseInvariant, ChrootInvariant, PTL
        DEF Spec, MountNeverHides

=============================================================================
