--------------------------- MODULE ArmImageBuild ---------------------------
(***************************************************************************)
(* One build of the arm-image builder: Builder.Run hands its steps to      *)
(* multistep.BasicRunner, which runs them in order and, in every case,     *)
(* runs the Cleanup of each step it started in reverse order.              *)
(*                                                                         *)
(* Every external command (losetup, mount, umount, cp, gcc, fuser, ...) is *)
(* an outcome of the step that issues it; the commands of a loop are one   *)
(* action each.  The host the commands act on (mount table, loop device,   *)
(* processes in the chroot, binfmt_misc) is part of the state, so that a   *)
(* command fails when the kernel would make it fail, and may fail whenever *)
(* its name is in Faults.                                                  *)
(***************************************************************************)
EXTENDS Naturals, Sequences, Functions

CONSTANTS
    ImageMounts,  \* config.ImageMounts: the mount point of each partition
    NoMount,      \* the entry "" of ImageMounts: a partition that is not mounted
    ExtraMounts,  \* the mount points of config.ChrootMounts, in order
    ResolvConf,   \* the path /etc/resolv.conf
    ScanResults,  \* what the scan of /dev may leave in "partitions" (see MapImage)
    Torn,         \* a slice header read while another goroutine writes it
    Configs,      \* the configurations considered
    Faults        \* the external calls that may fail, and what the world may do

\* A path is the sequence of its components, below the chroot's root.
Root == << >>

\* Path a lies strictly below path b.
Under(a, b) == Len(b) < Len(a) /\ \A k \in DOMAIN b : a[k] = b[k]

\* The mount points of the partitions that are mounted, and those of the host.
ImagePoints == Range(ImageMounts) \ {NoMount}
ExtraPoints == Range(ExtraMounts)

\* The partitions a build that goes well has: p1, p2, ... in order.
AllPartitions == [i \in DOMAIN ImageMounts |-> i]

ConfigType == [resize : BOOLEAN, resolv : {"off", "copy", "delete", "bind"},
               qemu : BOOLEAN, args : BOOLEAN]

ASSUME MountsAssumption ==
    /\ ImageMounts \in Seq(Seq(Nat) \cup {NoMount})
    /\ NoMount \notin Seq(Nat)
    /\ Root \in Range(ImageMounts)
    /\ \A i, j \in DOMAIN ImageMounts :
          ImageMounts[i] = ImageMounts[j] => i = j \/ ImageMounts[i] = NoMount
    /\ ExtraMounts \in Seq(Seq(Nat) \ {Root})
    /\ ResolvConf \in Seq(Nat) \ {Root}
    /\ \A e \in ExtraPoints \cup {ResolvConf} :
          \A m \in ImagePoints : e # m /\ ~Under(m, e)

ASSUME ScanAssumption ==
    /\ Torn \notin Seq(Nat)
    /\ ScanResults \subseteq Seq(Nat) \cup {Torn}

\* The image has one partition for each mount point, and a scan that found as many
\* found all of them in order: FullMeansAll of MapImage.
ASSUME FullScanAssumption ==
    \A found \in ScanResults \ {Torn} :
       Len(found) = Len(ImageMounts) => found = AllPartitions

ASSUME ConfigAssumption == Configs \subseteq ConfigType

VARIABLES
    config,       \* the decoded configuration of this build
    phase,        \* where the goroutine that runs BasicRunner.Run is
    idx,          \* the step it is at, an index of Pipeline
    depth,        \* the last step whose Cleanup is deferred and not yet run
    action,       \* what the last step's Run returned
    panicked,     \* a panic is unwinding the deferred Cleanups
    ctxDone,      \* the context of the build is cancelled
    bag,          \* the keys present in the state bag
    partitions,   \* the value of "partitions" in the state bag
    mountpoints,  \* stepMountImage.mountpoints
    extras,       \* StepMountExtra.mounts
    tracked,      \* qemuDestinationInChroot and destWrapper of stepQemuUserStatic
    loop,         \* the loop device losetup attached
    mounts,       \* the mount points below the chroot, both kinds
    procs,        \* processes the provisioner left in the chroot
    binfmt,       \* our interpreter is registered with binfmt_misc
    files,        \* qemu binaries installed in the image
    image,        \* how far the image file and its last filesystem have grown
    swallowed,    \* history: failures that were logged and nothing more
    result        \* what Builder.Run returned

runnerVars == <<phase, idx, depth, action, panicked>>
stepVars   == <<partitions, mountpoints, extras, tracked>>
hostVars   == <<loop, mounts, procs, binfmt, files, image>>
vars == <<config, runnerVars, ctxDone, bag, stepVars, hostVars, swallowed, result>>

Keys == {"error", "cancelled", "halted", "iso_path", "imagefile", "partitions",
         "mount_path", "binfmt"}

-----------------------------------------------------------------------------
(* The steps of a build *)

\* A pipeline that kills what is left in the chroot after it unmounts the extra
\* mounts, not before.
LateKillPipeline ==
    << "Download", "CopyImage", "ResizeLastPart", "MapImage", "ResizeFs",
       "MountImage", "MountCleanup", "MountExtra", "HandleResolvConf",
       "QemuUserStatic", "RegisterBinFmt", "ChrootProvision" >>

Pipeline ==
    << "Download", "CopyImage", "ResizeLastPart", "MapImage", "ResizeFs",
       "MountImage", "MountExtra", "MountCleanup", "HandleResolvConf",
       "QemuUserStatic", "RegisterBinFmt", "ChrootProvision" >>

\* The steps Builder.Run leaves out of the list for some configurations.
Included(step) ==
    /\ step \in {"ResizeLastPart", "ResizeFs"} => config.resize
    /\ step = "HandleResolvConf" => config.resolv \in {"copy", "delete"}
    /\ step \in {"QemuUserStatic", "RegisterBinFmt"} => config.qemu

\* The mount points of config.ChrootMounts once Prepare is done with it.
ChrootMounts ==
    IF config.resolv = "bind" THEN Append(ExtraMounts, ResolvConf) ELSE ExtraMounts

Init ==
    /\ config \in Configs
    /\ phase = "check" /\ idx = 1 /\ depth = 0
    /\ action = "continue" /\ panicked = FALSE
    /\ ctxDone = FALSE /\ bag = {}
    /\ partitions = << >> /\ mountpoints = << >> /\ extras = << >> /\ tracked = {}
    /\ loop = "none" /\ mounts = {} /\ procs = "none" /\ binfmt = FALSE
    /\ files = {} /\ image = "none"
    /\ swallowed = {} /\ result = "none"

-----------------------------------------------------------------------------
(* multistep.BasicRunner *)

\* The runner has called Run of this step, which has not returned.
Running(step) == phase = "run" /\ idx <= Len(Pipeline) /\ Pipeline[idx] = step

\* The runner is in the deferred Cleanup of this step.
Cleaning(step) ==
    phase = "cleanup" /\ depth > 0 /\ Pipeline[depth] = step /\ Included(step)

\* A runner that defers one Cleanup too many.
ReturnTwice(act) ==
    /\ action' = act /\ phase' = "after" /\ depth' = idx + 1
    /\ UNCHANGED <<idx, panicked>>

\* A step's Run returns; the runner defers its Cleanup.
Return(act) ==
    /\ action' = act /\ phase' = "after" /\ depth' = idx
    /\ UNCHANGED <<idx, panicked>>

\* A step's Run panics: its own Cleanup is not deferred yet.
RunPanics ==
    /\ panicked' = TRUE /\ phase' = "cleanup"
    /\ UNCHANGED <<idx, depth, action>>

\* A Cleanup returns, or panics: the earlier deferred ones run either way.
CleanupEnds(panics) ==
    /\ depth' = depth - 1 /\ panicked' = (panicked \/ panics)
    /\ UNCHANGED <<phase, idx, action>>

\* The top of the loop over the steps.
CheckCancelled ==
    /\ phase = "check" /\ idx <= Len(Pipeline) /\ Included(Pipeline[idx])
    /\ IF ctxDone THEN phase' = "cleanup" /\ bag' = bag \cup {"cancelled"}
                  ELSE phase' = "run" /\ bag' = bag
    /\ UNCHANGED <<config, idx, depth, action, panicked, ctxDone, stepVars,
                   hostVars, swallowed, result>>

SkipStep ==
    /\ phase = "check" /\ idx <= Len(Pipeline) /\ ~Included(Pipeline[idx])
    /\ idx' = idx + 1
    /\ UNCHANGED <<config, phase, depth, action, panicked, ctxDone, bag, stepVars,
                   hostVars, swallowed, result>>

NoMoreSteps ==
    /\ phase = "check" /\ idx > Len(Pipeline)
    /\ phase' = "cleanup"
    /\ UNCHANGED <<config, idx, depth, action, panicked, ctxDone, bag, stepVars,
                   hostVars, swallowed, result>>

\* After Run: the runner looks for "cancelled" in the bag, then at the action.
AfterStep ==
    /\ phase = "after"
    /\ IF "cancelled" \in bag
         THEN phase' = "cleanup" /\ UNCHANGED <<idx, bag>>
         ELSE IF action = "halt"
           THEN phase' = "cleanup" /\ bag' = bag \cup {"halted"} /\ idx' = idx
           ELSE phase' = "check" /\ idx' = idx + 1 /\ bag' = bag
    /\ UNCHANGED <<config, depth, action, panicked, ctxDone, stepVars, hostVars,
                   swallowed, result>>

\* The Cleanup of the steps that have nothing to clean up.
NothingToClean ==
    /\ phase = "cleanup" /\ depth > 0
    /\ Included(Pipeline[depth]) =>
          Pipeline[depth] \in {"Download", "CopyImage", "ResizeLastPart", "ResizeFs",
                               "HandleResolvConf", "ChrootProvision"}
    /\ CleanupEnds(FALSE)
    /\ UNCHANGED <<config, ctxDone, bag, stepVars, hostVars, swallowed, result>>

\* The build's context is cancelled: packer was interrupted.
Cancel ==
    /\ "cancel" \in Faults /\ ~ctxDone /\ phase \notin {"returned", "crashed"}
    /\ ctxDone' = TRUE
    /\ UNCHANGED <<config, runnerVars, bag, stepVars, hostVars, swallowed, result>>

\* The goroutine that listens for cancels puts the key at any later moment, even
\* once the runner is done: its select may still choose ctx.Done.
WatcherMarksCancelled ==
    /\ ctxDone /\ "cancelled" \notin bag /\ phase \notin {"returned", "crashed"}
    /\ bag' = bag \cup {"cancelled"}
    /\ UNCHANGED <<config, runnerVars, ctxDone, stepVars, hostVars, swallowed, result>>

-----------------------------------------------------------------------------
(* Commands and the state bag *)

MayFail(call) == call \in Faults

\* util.run on a command that fails, without its state.Put.
RunFailedSilently(keys) == keys

\* util.run on a command that fails: the error is put in the bag.
RunFailed(keys) == keys \cup {"error"}

\* A step that needs the network, the disk or a child halts on failure; some
\* report the failure through the bag, the others only on the screen.
HaltsWithError == Return("halt") /\ bag' = bag \cup {"error"}
HaltsSilently  == Return("halt") /\ bag' = bag

-----------------------------------------------------------------------------
(* StepDownload, stepCopyImage, stepResizeLastPart, stepResizeFs *)

\* Both steps watch the context: once it is done they may stop half way.
Download ==
    /\ Running("Download")
    /\ \/ Return("continue") /\ bag' = bag \cup {"iso_path"}
       \/ (MayFail("download") \/ ctxDone) /\ HaltsWithError
    /\ UNCHANGED <<config, ctxDone, stepVars, hostVars, swallowed, result>>

CopyImage ==
    /\ Running("CopyImage")
    /\ \/ /\ Return("continue") /\ bag' = bag \cup {"imagefile"} /\ image' = "copied"
       \/ /\ MayFail("copy") \/ ctxDone
          /\ HaltsSilently /\ image' = "partial"
    /\ UNCHANGED <<config, ctxDone, stepVars, loop, mounts, procs, binfmt, files,
                   swallowed, result>>

\* An image that already has the target size is left alone.  A failure after
\* Truncate leaves a longer file with the old partition table.
ResizeLastPart ==
    /\ Running("ResizeLastPart")
    /\ \/ Return("continue") /\ image' \in {image, "grown"} /\ bag' = bag
       \/ MayFail("resize") /\ HaltsSilently /\ image' \in {image, "truncated"}
    /\ UNCHANGED <<config, ctxDone, stepVars, loop, mounts, procs, binfmt, files,
                   swallowed, result>>

\* e2fsck and resize2fs on the last partition found.
ResizeFs ==
    /\ Running("ResizeFs")
    /\ IF partitions = Torn
         THEN RunPanics /\ UNCHANGED <<bag, image>>
         ELSE IF partitions = << >> THEN HaltsSilently /\ image' = image
         ELSE \/ /\ Return("continue") /\ bag' = bag
                 /\ image' = IF image = "grown" THEN "resized" ELSE image
              \/ MayFail("resizefs") /\ HaltsWithError /\ image' = image
    /\ UNCHANGED <<config, ctxDone, stepVars, loop, mounts, procs, binfmt, files,
                   swallowed, result>>

-----------------------------------------------------------------------------
(* stepMapImage: losetup attaches the image, a scan of /dev finds the partitions *)

MapImage ==
    /\ Running("MapImage")
    /\ \/ MayFail("losetup") /\ HaltsSilently /\ UNCHANGED <<loop, partitions>>
       \/ /\ MayFail("readdir") /\ HaltsSilently
          /\ loop' = "attached" /\ partitions' = partitions
       \/ /\ Return("continue") /\ bag' = bag \cup {"partitions"}
          /\ loop' = "attached" /\ partitions' \in ScanResults
    /\ UNCHANGED <<config, ctxDone, mountpoints, extras, tracked, mounts, procs,
                   binfmt, files, image, swallowed, result>>

\* The loop device is known only by the name of the first partition found.
\* losetup -d on a device in use only marks it for release on last close.
UnmapImage ==
    /\ Cleaning("MapImage")
    /\ LET found == "partitions" \in bag /\ partitions # << >> IN
       \/ ~found /\ CleanupEnds(FALSE) /\ UNCHANGED <<bag, loop>>
       \/ found /\ partitions = Torn /\ CleanupEnds(TRUE) /\ UNCHANGED <<bag, loop>>
       \/ /\ found /\ partitions # Torn /\ CleanupEnds(FALSE)
          /\ \/ bag' = bag /\ loop' = IF mounts = {} THEN "none" ELSE "autoclear"
             \/ MayFail("detach") /\ bag' = RunFailed(bag) /\ loop' = loop
    /\ UNCHANGED <<config, ctxDone, stepVars, mounts, procs, binfmt, files, image,
                   swallowed, result>>

-----------------------------------------------------------------------------
(* stepMountImage: the partitions, outermost mount point first *)

\* A sort that leaves the partitions in any order.
Unordered(a, b) == FALSE

\* The order of sort.Slice on the mount points.  Components are numbered in the
\* order of their names; what the properties need of it is that a directory
\* comes before what lies below it.
Before(a, b) ==
    \/ Under(b, a)
    \/ \E k \in DOMAIN a \cap DOMAIN b :
          a[k] < b[k] /\ \A j \in 1..(k - 1) : a[j] = b[j]

\* A check of the partitions that lets some be missing.
AtMostAsMany(found) == Len(found) <= Len(ImageMounts)

\* The step mounts nothing unless every configured mount point has a partition.
OnePerMount(found) == Len(found) = Len(ImageMounts)

\* The partitions the loop has not come to, the skipped ones left out.
ToMount == {i \in DOMAIN ImageMounts :
              ImageMounts[i] # NoMount /\ ImageMounts[i] \notin Range(mountpoints)}

\* The check of the partition list and the creation of the mount directory.
StartMounting ==
    /\ Running("MountImage")
    /\ IF partitions = Torn THEN RunPanics
       ELSE \/ (~OnePerMount(partitions) \/ MayFail("mkdir")) /\ Return("halt")
            \/ /\ OnePerMount(partitions) /\ phase' = "mounting"
               /\ UNCHANGED <<idx, depth, action, panicked>>
    /\ UNCHANGED <<config, ctxDone, bag, stepVars, hostVars, swallowed, result>>

\* mount <partition i> <its mount point>
MountPartition ==
    /\ phase = "mounting"
    /\ \E i \in ToMount :
         /\ \A j \in ToMount : ~Before(ImageMounts[j], ImageMounts[i])
         /\ \/ /\ mounts' = mounts \cup {ImageMounts[i]}
               /\ mountpoints' = Append(mountpoints, ImageMounts[i])
               /\ UNCHANGED <<runnerVars, bag>>
            \/ /\ MayFail("mount") /\ bag' = RunFailed(bag) /\ Return("halt")
               /\ UNCHANGED <<mounts, mountpoints>>
    /\ UNCHANGED <<config, ctxDone, partitions, extras, tracked, loop, procs, binfmt,
                   files, image, swallowed, result>>

AllMounted ==
    /\ phase = "mounting" /\ ToMount = {}
    /\ bag' = bag \cup {"mount_path"} /\ Return("continue")
    /\ UNCHANGED <<config, ctxDone, stepVars, hostVars, swallowed, result>>

\* The kernel refuses to unmount what is not mounted, what has another mount
\* below it, and the root a process still lives in ...
Busy(path) ==
    \/ path \notin mounts
    \/ \E m \in mounts : Under(m, path)
    \/ path = Root /\ procs # "none"

\* ... and any other mount on which such a process has a file open.
MayBeBusy(path) == Busy(path) \/ procs # "none"

\* Cleanup: umount, the last one mounted first, whatever fails.
UmountPartition ==
    /\ Cleaning("MountImage") /\ mountpoints # << >>
    /\ LET path == mountpoints[Len(mountpoints)] IN
       \/ ~Busy(path) /\ mounts' = mounts \ {path} /\ bag' = bag
       \/ /\ MayBeBusy(path) \/ MayFail("umount")
          /\ bag' = RunFailed(bag) /\ mounts' = mounts
    /\ mountpoints' = SubSeq(mountpoints, 1, Len(mountpoints) - 1)
    /\ UNCHANGED <<config, runnerVars, ctxDone, partitions, extras, tracked, loop,
                   procs, binfmt, files, image, swallowed, result>>

ImageUmounted ==
    /\ Cleaning("MountImage") /\ mountpoints = << >> /\ CleanupEnds(FALSE)
    /\ UNCHANGED <<config, ctxDone, bag, stepVars, hostVars, swallowed, result>>

-----------------------------------------------------------------------------
(* StepMountExtra: /proc, /sys, /dev ... of the host *)

\* One entry of ChrootMounts.  MkdirAll cannot make a directory of the image's
\* /etc/resolv.conf, and where the image has none the file cannot be bound on
\* the directory it makes.
MountExtra ==
    /\ Running("MountExtra") /\ Len(extras) < Len(ChrootMounts)
    /\ LET path == ChrootMounts[Len(extras) + 1] IN
       \/ /\ path # ResolvConf
          /\ mounts' = mounts \cup {path} /\ extras' = Append(extras, path)
          /\ UNCHANGED <<runnerVars, bag>>
       \/ /\ path = ResolvConf \/ MayFail("mountExtra")
          /\ HaltsWithError /\ UNCHANGED <<mounts, extras>>
    /\ UNCHANGED <<config, ctxDone, partitions, mountpoints, tracked, loop, procs,
                   binfmt, files, image, swallowed, result>>

AllExtrasMounted ==
    /\ Running("MountExtra") /\ Len(extras) = Len(ChrootMounts)
    /\ Return("continue")
    /\ UNCHANGED <<config, ctxDone, bag, stepVars, hostVars, swallowed, result>>

\* grep finds the path, as a part of a longer one too, in the mount table.
Listed(path) == \E m \in mounts : m = path \/ Under(m, path)

\* A Cleanup that does not take the path off its list first.
KeepPath(paths) == paths

DropPath(paths) == SubSeq(paths, 1, Len(paths) - 1)

\* CleanupFunc: the last path first; a failure ends it and is only logged.
UmountExtra ==
    /\ Cleaning("MountExtra") /\ extras # << >>
    /\ LET path == extras[Len(extras)] IN
       \/ ~Listed(path) /\ UNCHANGED <<runnerVars, mounts, swallowed>>
       \/ /\ Listed(path) /\ ~Busy(path) /\ mounts' = mounts \ {path}
          /\ UNCHANGED <<runnerVars, swallowed>>
       \/ /\ Listed(path) /\ (MayBeBusy(path) \/ MayFail("umountExtra"))
          /\ swallowed' = swallowed \cup {"umountExtra"}
          /\ CleanupEnds(FALSE) /\ mounts' = mounts
    /\ extras' = DropPath(extras)
    /\ UNCHANGED <<config, ctxDone, bag, partitions, mountpoints, tracked, loop, procs,
                   binfmt, files, image, result>>

ExtrasUmounted ==
    /\ Cleaning("MountExtra") /\ extras = << >> /\ CleanupEnds(FALSE)
    /\ UNCHANGED <<config, ctxDone, bag, stepVars, hostVars, swallowed, result>>

-----------------------------------------------------------------------------
(* StepMountCleanup and stepHandleResolvConf *)

MountCleanup ==
    /\ Running("MountCleanup") /\ Return("continue")
    /\ UNCHANGED <<config, ctxDone, bag, stepVars, hostVars, swallowed, result>>

\* fuser -k <mount path> || exit 0: the signal is sent, not waited for; without
\* fuser the processes stay and the command still succeeds.
KillProcs ==
    /\ Cleaning("MountCleanup") /\ CleanupEnds(FALSE)
    /\ \/ /\ procs' \in IF procs = "running" /\ MayFail("slowExit")
                          THEN {"none", "dying"} ELSE {"none"}
          /\ swallowed' = swallowed
       \/ MayFail("fuser") /\ procs' = procs /\ swallowed' = swallowed \cup {"fuser"}
    /\ UNCHANGED <<config, ctxDone, bag, stepVars, loop, mounts, binfmt, files, image,
                   result>>

\* A killed process leaves the chroot when the kernel gets to it.
ProcsExit ==
    /\ procs = "dying" /\ procs' = "none"
    /\ UNCHANGED <<config, runnerVars, ctxDone, bag, stepVars, loop, mounts, binfmt,
                   files, image, swallowed, result>>

HandleResolvConf ==
    /\ Running("HandleResolvConf")
    /\ \/ Return("continue") /\ bag' = bag
       \/ MayFail("resolvConf") /\ HaltsSilently
    /\ UNCHANGED <<config, ctxDone, stepVars, hostVars, swallowed, result>>

-----------------------------------------------------------------------------
(* stepQemuUserStatic: qemu, or a wrapper that passes it arguments, at / *)

\* A wrapper that is not remembered for Cleanup.
ForgetsWrapper(failed) ==
    IF failed \in {"none", "gcc"} /\ config.args THEN {"wrapped"} ELSE {"qemu"}

\* What Cleanup will remove, by the command that failed: mv renames qemu to
\* qemu-wrapped, and gcc puts the wrapper under qemu's name.
Tracked(failed) ==
    IF ~config.args THEN {"qemu"}
    ELSE CASE failed = "none" -> {"qemu", "wrapped"}
           [] failed = "gcc"  -> {"wrapped"}
           [] OTHER           -> {"qemu"}

\* A failed cp may have created the file.
InstallQemu ==
    /\ Running("QemuUserStatic")
    /\ \E failed \in {"none"} \cup {c \in {"cp", "tempdir", "mv", "gcc"} :
                                     MayFail(c) /\ (c = "cp" \/ config.args)} :
         /\ tracked' = Tracked(failed)
         /\ IF failed = "cp" THEN files' \in {{}, {"qemu"}}
            ELSE files' = CASE config.args /\ failed = "none" -> {"qemu", "wrapped"}
                            [] failed = "gcc"                 -> {"wrapped"}
                            [] OTHER                          -> {"qemu"}
         /\ bag' = IF failed \in {"cp", "mv", "gcc"} THEN RunFailed(bag) ELSE bag
         /\ Return(IF failed = "none" THEN "continue" ELSE "halt")
    /\ UNCHANGED <<config, ctxDone, partitions, mountpoints, extras, loop, mounts,
                   procs, binfmt, image, swallowed, result>>

\* Cleanup: os.Remove of each tracked file, its result ignored.
RemoveQemu ==
    /\ Cleaning("QemuUserStatic") /\ CleanupEnds(FALSE)
    /\ \E stuck \in IF MayFail("remove") THEN SUBSET (files \cap tracked) ELSE {{}} :
         /\ files' = IF Root \in mounts THEN files \ (tracked \ stuck) ELSE files
         /\ swallowed' = IF stuck = {} THEN swallowed ELSE swallowed \cup {"remove"}
    /\ UNCHANGED <<config, ctxDone, bag, stepVars, loop, mounts, procs, binfmt, image,
                   result>>

-----------------------------------------------------------------------------
(* stepRegisterBinFmt *)

\* The name of the entry is put in the bag only by a Run that succeeds.
RegisterBinFmt ==
    /\ Running("RegisterBinFmt")
    /\ \/ Return("continue") /\ bag' = bag \cup {"binfmt"} /\ binfmt' = TRUE
       \/ MayFail("register") /\ HaltsSilently /\ binfmt' = binfmt
    /\ UNCHANGED <<config, ctxDone, stepVars, loop, mounts, procs, files, image,
                   swallowed, result>>

\* Cleanup asserts that the name is in the bag, also after a Run that halted.
UnregisterBinFmt ==
    /\ Cleaning("RegisterBinFmt")
    /\ CleanupEnds("binfmt" \notin bag)
    /\ \/ binfmt' = (binfmt /\ "binfmt" \notin bag) /\ swallowed' = swallowed
       \/ /\ MayFail("deregister") /\ "binfmt" \in bag
          /\ binfmt' = binfmt /\ swallowed' = swallowed \cup {"deregister"}
    /\ UNCHANGED <<config, ctxDone, bag, stepVars, loop, mounts, procs, files, image,
                   result>>

-----------------------------------------------------------------------------
(* StepChrootProvision: the provisioners run in the chroot *)

\* The mounts nothing else is mounted on.
Leaves == {m \in mounts : \A n \in mounts : ~Under(n, m)}

\* The hook may leave a process behind or unmount one of the extra mounts; it
\* fails, or stops when the context is done, with an error in the bag.
Provision ==
    /\ Running("ChrootProvision")
    /\ \/ Return("continue") /\ bag' = bag
       \/ (MayFail("provision") \/ ctxDone) /\ HaltsWithError
    /\ procs' \in IF MayFail("linger") THEN {"none", "running"} ELSE {"none"}
    /\ \/ mounts' = mounts
       \/ /\ MayFail("scriptUmounts")
          /\ \E m \in Leaves \cap Range(extras) : mounts' = mounts \ {m}
    /\ UNCHANGED <<config, ctxDone, stepVars, loop, binfmt, files, image, swallowed,
                   result>>

-----------------------------------------------------------------------------
(* The end of Builder.Run *)

\* The runner's Run returns, or its panic goes on and ends the plugin process.
RunnerReturns ==
    /\ phase = "cleanup" /\ depth = 0
    /\ phase' = IF panicked THEN "crashed" ELSE "result"
    /\ UNCHANGED <<config, idx, depth, action, panicked, ctxDone, bag, stepVars,
                   hostVars, swallowed, result>>

\* A result that looks only at the error.
ErrorOnly(keys) == IF "error" \in keys THEN "failed" ELSE "artifact"

\* The artifact is returned only if no step reported, halted or was cancelled.
Outcome(keys) ==
    IF keys \cap {"error", "cancelled", "halted"} # {} THEN "failed" ELSE "artifact"

BuilderReturns ==
    /\ phase = "result" /\ phase' = "returned" /\ result' = Outcome(bag)
    /\ UNCHANGED <<config, idx, depth, action, panicked, ctxDone, bag, stepVars,
                   hostVars, swallowed>>

\* The build is over.
Over == phase \in {"returned", "crashed"} /\ UNCHANGED vars

\* The goroutine that runs the build.
Builder ==
    \/ CheckCancelled \/ SkipStep \/ NoMoreSteps \/ AfterStep \/ NothingToClean
    \/ Download \/ CopyImage \/ ResizeLastPart \/ MapImage \/ ResizeFs
    \/ StartMounting \/ MountPartition \/ AllMounted
    \/ MountExtra \/ AllExtrasMounted \/ MountCleanup \/ HandleResolvConf
    \/ InstallQemu \/ RegisterBinFmt \/ Provision
    \/ UnregisterBinFmt \/ RemoveQemu \/ KillProcs \/ UmountExtra \/ ExtrasUmounted
    \/ UmountPartition \/ ImageUmounted \/ UnmapImage
    \/ RunnerReturns \/ BuilderReturns

Next == Builder \/ Cancel \/ WatcherMarksCancelled \/ ProcsExit \/ Over

Spec == Init /\ [][Next]_vars

\* The commands the builder runs end, so its goroutine always goes on.
FairSpec == Spec /\ WF_vars(Builder)

-----------------------------------------------------------------------------
(* Types *)

BuildTypeOK ==
    /\ config \in Configs
    /\ ctxDone \in BOOLEAN
    /\ bag \subseteq Keys
    /\ result \in {"none", "artifact", "failed"}

RunnerTypeOK ==
    /\ phase \in {"check", "run", "mounting", "after", "cleanup", "result",
                  "returned", "crashed"}
    /\ idx \in 1..(Len(Pipeline) + 1)
    /\ depth \in 0..Len(Pipeline)
    /\ phase \in {"run", "mounting", "after"} => idx <= Len(Pipeline)
    /\ action \in {"continue", "halt"}
    /\ panicked \in BOOLEAN

StepTypeOK ==
    /\ partitions \in Seq(Nat) \cup {Torn}
    /\ mountpoints \in Seq(ImagePoints)
    /\ extras \in Seq(ExtraPoints)
    /\ tracked \subseteq {"qemu", "wrapped"}

HostTypeOK ==
    /\ loop \in {"none", "attached", "autoclear"}
    /\ mounts \subseteq ImagePoints \cup ExtraPoints
    /\ procs \in {"none", "running", "dying"}
    /\ binfmt \in BOOLEAN
    /\ files \subseteq {"qemu", "wrapped"}
    /\ image \in {"none", "partial", "copied", "truncated", "grown", "resized"}
    /\ swallowed \subseteq {"umountExtra", "fuser", "remove", "deregister"}

\* Type invariant of the runner, the steps and the host they act on.
TypeOK == BuildTypeOK /\ RunnerTypeOK /\ StepTypeOK /\ HostTypeOK

-----------------------------------------------------------------------------
(* The inductive invariant behind ArtifactReleasesHost *)

MapIdx   == 4
MountIdx == 6

Building == phase \in {"check", "run", "mounting", "after"}

\* The k-th step of the pipeline, and each one before it, was left out or has
\* returned "continue".
Done(k) == idx > k \/ (idx = k /\ phase = "after" /\ action = "continue")

RunnerInv ==
    /\ phase \in {"check", "run", "mounting"} => depth < idx
    /\ phase = "after" => depth = idx
    /\ phase = "mounting" => idx = MountIdx
    /\ Building /\ idx > MountIdx => depth >= MountIdx
    /\ phase \in {"result", "returned", "crashed"} => depth = 0
    /\ phase \in {"result", "returned"} => ~panicked
    /\ ~Building /\ ~panicked /\ bag \cap {"error", "cancelled", "halted"} = {}
          => idx > Len(Pipeline)
    /\ result # "none" => phase = "returned"

MountInv ==
    /\ mounts # {} => Root \in mounts
    /\ "error" \notin bag => mounts \cap ImagePoints \subseteq Range(mountpoints)
    /\ Building => Range(mountpoints) \subseteq mounts
    /\ Building /\ Done(MountIdx) => Root \in mounts
    /\ depth < MountIdx /\ phase # "mounting" => mountpoints = << >>

LoopInv ==
    /\ phase = "mounting" \/ Done(MountIdx) => partitions # Torn /\ partitions # << >>
    /\ Done(MapIdx) => "partitions" \in bag
    /\ ~Building /\ depth < MapIdx /\ "error" \notin bag /\ Done(MountIdx)
          => loop = "none"
    /\ result = "artifact" => mounts = {} /\ loop = "none"

\* Why an artifact means a clean host: as long as no error is in the bag, what
\* is mounted is what the deferred Cleanups know of, down to the root, and the
\* loop device is known by a partition.
ReleaseInv == RunnerInv /\ MountInv /\ LoopInv

-----------------------------------------------------------------------------
(* Safety and liveness *)

\* A build that returns an artifact leaves nothing mounted and its loop device
\* free, whatever the Cleanups met: their errors reach Builder.Run through the
\* bag, and those that do not make a later umount fail.
ArtifactReleasesHost == result = "artifact" => mounts = {} /\ loop = "none"

\* StepMountExtra only logs that it could not unmount a path; the umount of the
\* image below it then fails and turns the build into a failed one.
LoggedUmountFailureIsFatal == result = "artifact" => "umountExtra" \notin swallowed

\* However a build ends, a failure half way through makeWrapper and a crash
\* included, no qemu binary stays in the image and no interpreter stays
\* registered, unless the very removal failed.
InterpreterRemoved ==
    phase \in {"returned", "crashed"} =>
       /\ "remove" \in swallowed \/ files = {}
       /\ "deregister" \in swallowed \/ ~binfmt

\* The provisioners start in a chroot where each configured partition, and no
\* other, is on its mount point, the extra mounts are in place, and the foreign
\* binaries have the interpreter they need.
ChrootReady ==
    Running("ChrootProvision") =>
       /\ partitions = AllPartitions
       /\ mounts = ImagePoints \cup ExtraPoints
       /\ config.qemu => binfmt /\ "qemu" \in files
       /\ config.qemu /\ config.args => "wrapped" \in files

\* An artifact went through every step of its pipeline, and a last partition
\* that was grown holds a filesystem that was grown with it.
ArtifactIsComplete ==
    result = "artifact" => idx > Len(Pipeline) /\ image \in {"copied", "resized"}

\* Mounting a partition or a host directory never hides one mounted before: the
\* partitions are sorted, and the host's directories, which are listed outside in,
\* come after them.
MountNeverHides ==
    [][\A new \in mounts' \ mounts : \A old \in mounts : ~Under(old, new)]_vars

\* Every build ends, whatever fails, slow exits of killed processes and panics
\* included, and whenever it is cancelled.
Termination == <>(phase \in {"returned", "crashed"})

\* An umount met the processes that fuser has killed and that have not left the
\* chroot yet (step_mount_cleanup.go:27 does not wait for them).
Overtaken == procs = "dying" /\ ("umountExtra" \in swallowed \/ "error" \in bag)

\* A build that is not cancelled and none of whose steps halts ends with an
\* artifact, one whose provisioners leave processes behind or unmount a host
\* directory included: fuser -k comes before the umounts such processes would make
\* fail.  What is left of the hazard is said openly: fuser is missing, or an umount
\* overtakes the exit of what was killed.
Delivers ==
    [](action # "halt" /\ ~ctxDone /\ ~Overtaken /\ "fuser" \notin swallowed)
       => <>(result = "artifact")

\* How far a build is, for its host, and what it holds there.
promiseStatus ==
    IF Building THEN "building"
    ELSE IF phase \in {"cleanup", "result"} THEN "releasing"
    ELSE IF phase = "crashed" THEN "crashed" ELSE result

promiseHeld ==
    {r \in {"loop", "mounts", "qemu", "binfmt"} :
       \/ r = "loop" /\ loop # "none"
       \/ r = "mounts" /\ mounts # {}
       \/ r = "qemu" /\ files # {}
       \/ r = "binfmt" /\ binfmt}

\* The builder keeps the promise of BuildPromise: its steps take, its Cleanups
\* only give back.
Promise == INSTANCE BuildPromise WITH
    Resources <- {"loop", "mounts", "qemu", "binfmt"},
    MustRelease <- {"loop", "mounts"},
    status <- promiseStatus,
    held <- promiseHeld

KeepsPromise == Promise!Spec

\* multistep.Step: Cleanup "can be ran in the face of errors and cancellations
\* as well", so no Cleanup takes the plugin down.
CleanupSurvivesErrors == phase # "crashed"

\* ... and steps "clean up after themselves": a build that is over, none of
\* whose umounts or losetup -d failed, has given its loop device back.
LoopReleased ==
    phase \in {"returned", "crashed"} /\ Faults \cap {"umount", "detach"} = {}
       => loop = "none"
=============================================================================
