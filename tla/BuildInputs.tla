---------------------------- MODULE BuildInputs ----------------------------
(***************************************************************************)
(* What a build needs before it can work in the chroot, from Prepare to    *)
(* the installed qemu: its configuration, its qemu binary and its image    *)
(* file.  Other builds look for the same binary at the same time, and each *)
(* of them may die; a decompressor and the watcher of the copy run beside  *)
(* the build itself.  The steps between the resize and the cp are the      *)
(* subject of ArmImageBuild.                                               *)
(***************************************************************************)
EXTENDS QemuCache, ImageFile, Prepare

CONSTANTS
    Mine,      \* the build that is followed to the end
    Requests   \* what the build may be asked for, where, and the image it downloads

ASSUME MineAssumption == Mine \in Builds

ASSUME RequestsAssumption ==
    \A r \in Requests :
       /\ r.source \in MBRs \cup {NoTable}
       /\ r.grow \in [extra : Int, target : Int] /\ r.archive \in Archives

VARIABLES
    raw,  \* the configuration the user gave
    host  \* the architecture, the binaries in the PATH and the embedded ones

askedVars == <<raw, host>>
inputsVars == <<askedVars, cacheVars, inputVars>>

Init ==
    /\ CacheInit /\ FileInit
    /\ \E r \in Requests :
          /\ raw = r.raw /\ host = r.host /\ grow = r.grow /\ source = r.source /\ archive = r.archive
          /\ valid[Mine] = (ConfigErrors(r.raw) = {})
          /\ lookup[Mine] = QemuLookup(r.raw, r.host)
    /\ \A b \in Builds \ {Mine} : lookup[b] = "cache" /\ valid[b]

\* Prepare accepts the configuration, and Run begins.
Accepted == pc[Mine] \in {"prepared", "install", "installed"}
NeedsQemu == InstallsQemu(raw, host)

PrepareMine == Prepare(Mine) /\ UNCHANGED <<askedVars, inputVars>>

MakeFile == Accepted /\ FileSteps /\ UNCHANGED <<askedVars, cacheVars>>

InstallMine ==
    /\ stage = "done" /\ NeedsQemu /\ Install(Mine)
    /\ UNCHANGED <<askedVars, inputVars>>

Watch == WatcherEnds /\ UNCHANGED <<askedVars, cacheVars>>

Uncompressing == UncompressSource /\ UNCHANGED <<askedVars, cacheVars>>
Killed == KillSource /\ UNCHANGED <<askedVars, cacheVars>>

\* The others stop where Run would begin: what they do to their own images does
\* not meet this build.
OthersPrepare ==
    /\ \E b \in Builds \ {Mine} : Prepare(b) \/ Crash(b)
    /\ UNCHANGED <<askedVars, inputVars>>

CrashMine == Crash(Mine) /\ UNCHANGED <<askedVars, inputVars>>

Failed == pc[Mine] \in {"refused", "crashed"} \/ stage = "halted"
Equipped == stage = "done" /\ (NeedsQemu => pc[Mine] = "installed")

Over == (Failed \/ Equipped) /\ UNCHANGED inputsVars

Alone == PrepareMine \/ MakeFile \/ InstallMine

Next ==
    \/ Alone \/ Watch \/ Uncompressing \/ Killed
    \/ OthersPrepare \/ CrashMine \/ Over

\* The goroutines of the build and the decompressor run; the others need not.
Spec ==
    /\ Init /\ [][Next]_inputsVars
    /\ WF_inputsVars(Alone) /\ WF_inputsVars(Watch) /\ WF_inputsVars(Uncompressing)

-----------------------------------------------------------------------------
(* Properties *)

TypeOK ==
    /\ CacheTypeOK /\ FileTypeOK
    /\ \E r \in Requests :
          raw = r.raw /\ host = r.host /\ grow = r.grow /\ source = r.source /\ archive = r.archive

\* A build fails or gets its image file and its qemu, and no watcher is left.
BuildSettles == <>[]((Failed \/ Equipped) /\ watcher # "polling")
=============================================================================
