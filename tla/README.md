# A TLA+ model of packer-plugin-arm-image

The plugin builds an ARM image: it downloads a base image, copies and grows
it, attaches it to a loop device, mounts its partitions, runs packer's
provisioners in a chroot inside them, and takes everything down again. A
second program, `flasher` (also a post-processor), writes an image to an SD
card and verifies it. This directory holds TLA+ specifications of these two
programs, TLC configurations that check them on small instances, and proofs
checked by TLAPS.

`PROJECT.json` lists the components, the runs, the mutants that show each
property can fail, the source lines behind each definition, the hazards and
the findings.

## Inventory

| Component | State it keeps | Operations | What makes it correct |
|---|---|---|---|
| `Builder.Run`, `multistep.BasicRunner` (`pkg/builder/builder.go`, vendored `multistep`) | the list of steps, the state bag, the context, the stack of deferred Cleanups | run the steps in order; stop at a halt or a cancel; run the Cleanups in reverse; turn the bag into an artifact or an error | an artifact only after every step; nothing of the host still held; always ends |
| Steps (`pkg/builder/step_*.go`, vendored `chroot`, `commonsteps`) | mount points, extra mounts, qemu paths, the binfmt name | `Run`, `Cleanup`, each a few external commands | each Cleanup undoes what its Run did, whatever failed half way |
| `stepMapImage` scan (`step_map_image.go`) | `partitions`, shared by `Run` and a goroutine | list /dev, collect, time out, sort | the list is the partition table |
| `CopyWithProgress`, `ProgressWriter` (`pkg/utils/copy.go`, `progress.go`) | counter, `done` flag, result channel | copy, count, stop, interrupt | exact results; a cancelled copy returns, and its goroutine stops |
| `stepCopyImage`, `stepResizeLastPart` (`step_copy_image.go`, `step_resize_last_partition.go`, vendored `go-mbr`) | the output file, its partition table, the goroutine that waits for an interrupt | copy, grow the file, grow the last entry of the table | the image is whole; every partition lies in the file, wherever the steps stop |
| `Flasher` (`pkg/flasher/flash.go`), the command and the post-processor | the image, the device, the hash, `FlashResult` | choose, ask, unmount, flash, sync, verify, close | only the chosen device is written, unmounted; a verified flash holds the image; no decompressor is left |
| `Builder.Prepare` (`builder.go`, `config.go`, `arch.go`) | `Config` | defaults, checks, the lookup of qemu | arguments for qemu make it required; what is looked up is what gets installed |
| Embedded qemu cache (`builder.go`, `embed/fetch.go`) | a file in packer's cache directory, shared by all builds | look up, extract, copy into the image | the binary is whole, whoever extracts at the same time |
| Image opener (`pkg/image/image.go`) | an open file, a decompressor, a pipe | open, read, close | all data is read; everything is closed; nobody waits for ever |
| Device listing (`pkg/utils/devices.go`) | none (reads lsblk, udevadm and /proc/mounts) | list detachable devices and their mount points | the devices offered are detachable, the mount points are theirs |
| Image files and types (`pkg/image/utils/images.go`) | none | guess a type, list candidates | the most recent image is found |
| Generated configuration code, the templates, the rest of the SDK | none worth a model | decode | not modelled |

Interactions: `Builder.Run` calls the runner, which calls the steps one at a
time; the steps share the state bag. Packer cancels the context from another
goroutine, and the runner has a watcher that copies the cancel into the bag.
`stepCopyImage` and `Flasher` open their image with the image opener, which
may start a decompressor, and call `CopyWithProgress`, which starts a
goroutine; `stepCopyImage` starts one of its own. `Flasher` asks the device
listing what there is and the user which one it is to be, and then unmounts
what was listed. Builds of different packer processes meet in the cache of qemu
binaries. Everything else that happens at the same time is outside the program:
the kernel making partition nodes, processes left in the chroot, the signals
sent to them, the mounts others make.

The hard behaviours are listed in `PROJECT.json` under "hazards", each at its
line: failures half way through a step or a Cleanup, errors that are logged
or dropped, the unsynchronised slice of the scan, cancels at any moment, late
writes of an interrupted copy, devices that are too small, a cache without a
lock, a decompressor that fails or blocks, mount points that are used long
after they were listed, sectors that do not fit in 32 bits.

## Modules

| Module | Models |
|---|---|
| `ArmImageBuild` | one build: the runner, all the steps and the host they act on |
| `BuildPromise` | the abstract specification: a build takes, then only gives back, and delivers only when free |
| `MapImage` | the scan of /dev in `stepMapImage.Run` |
| `CopyWithProgress` | one call of `CopyWithProgress`, its goroutine and its channel |
| `Flasher` | `Flash`, with two instances of `CopyWithProgress` |
| `ImageOpen` | `imageOpener.Open`, `Read` and `Close` of what it returns, the decompressor and its pipe |
| `ImageTypes`, `Devices` | the lookups in names; the join of lsblk, udevadm and /proc/mounts |
| `FlashSession` | one session of the flasher, from the choice of the image to the return of `Flash`; composes `ImageOpen`, `ImageTypes` and `Devices` |
| `Prepare` | what `Builder.Prepare` decides, as operators on a raw configuration |
| `QemuCache` | any number of builds that share the cache, with crashes |
| `ImageFile` | `stepCopyImage` and `stepResizeLastPart`, on `ImageOpen` |
| `BuildInputs` | composes `Prepare`, `QemuCache` and `ImageFile`: what one build has before it works in the chroot, beside others |
| `Places` | a list of a list's entries at some places, in order: what a filtering loop leaves |
| `ArmImageBuildProofs`, `MapImageProofs`, `CopyWithProgressProofs`, `FlasherProofs`, `FlashSessionProofs`, `QemuCacheProofs`, `BuildInputsProofs` | the theorems about each component |
| `PlacesProofs` | the lemmas about `Places` that the scan and the session need |
| `MC*` | small values of the constants for TLC |

### ArmImageBuild

The program counter is `phase` with `idx`, the index in `Pipeline` (the steps
`Builder.Run` may list, in its order; `Included` is false for those it leaves
out). `depth` is the last step whose deferred `Cleanup` has not run: since
defers run in reverse it is all there is to remember of the stack. One action
per `Run` and per `Cleanup`, except where a loop calls one command per entry
(mounts and umounts), which are one action per entry, so that cancels and the
exit of killed processes fall in between.

Data is abstracted to what the properties tell apart. The bag is the set of
its keys, except for `partitions`; a path is the sequence of its components
below the chroot; the host is the set of mount points, the state of the loop
device (`autoclear`: `losetup -d` on a device in use only marks it), the
processes left in the chroot, the binfmt entry, and the qemu binaries in the
image. Commands fail when the kernel would make them fail (`Busy`), may fail
when it might (`MayBeBusy`), and may fail at any time when named in `Faults`.
`swallowed` is a history variable: failures that were only logged. A panic in
a Cleanup does not stop the earlier deferred ones, and then ends the process
(`phase = "crashed"`).

What the scan may leave in `partitions` is the constant `ScanResults`; the
instance of the main run, every sublist of the partitions and a torn slice,
covers all that `MapImage` reaches with two partitions.

### MapImage

The goroutine and `Run` are two program counters. The append to the shared
slice has a beginning and an end, so that `Run`, which reads the slice without
synchronisation once the minute is over, may see the old slice, the new one,
or a torn one. `order` is the order of the names in /dev: p10 sorts before p2,
which three partitions listed as 1, 3, 2 are enough to show.

### CopyWithProgress

The copier reads (short reads included), checks `done`, counts, writes, and
sends. The check and the count are separate accesses, as they are in
`ProgressWriter.Write`; for the caller, reading the counter and the deferred
`Stop` are separate too. `late` is a history variable: writes begun after the
call returned.

### Flasher

`F` is the copy of the image to the device, `V` that of the device to the
hasher; `V`'s source is a state function, the first `BytesWritten` units of
the device at that moment. A write of the `MultiWriter` lands on the device
first (`DeviceTakes`) and reaches the hasher after (`FlashWriteEnds`). The
first copier may still be at work after an interruption, during the sync and
the verification; a write that begins after the file is closed lands nothing.
A hash is the data hashed. A bad medium changes any set of units at the sync.

### ImageOpen

`lane` is what `Open` returned: the file itself, the one entry of a zip file, a
decompressor of the Go library (slow), or a child process that writes to a pipe
(fast). An archive has a kind, the units of its image, and how many of them are
good; damage shows to the Go library as an error of `Read` and to the child as
an exit status, which is why the end of the pipe (`AtEnd`) looks the same either
way. The child blocks on a full pipe and fails when the other end is closed.
`Close` closes the pipe and then waits, and only the first time (`reaped`); on
the fast lane the `os.File` is nobody's to close, which `ClosedForGood` says.
An error of `filetype.MatchFile` is dropped and the file is then read as it is
(`Misread`).

### FlashSession, Devices, ImageTypes

`phase` is where `Flash` is; the deferred `Close` is the phase `leaving`, which
a panic passes through as well. A disk is the preorder of its nodes, a mount is
a node with the name the table has for it and a mount point, a path of
components; `mounts` is in the order of the mounts, and each has a number of its
own (`id`), so that two of one node at one point are two. `umount` knows a point
only: it takes what is mounted there, and the kernel refuses when a later mount is
below it (busy) or hides the way to it (`CanUmount`). `listed` keeps the table as
it was when the devices were listed, for the properties to compare: `Found` are the
mounts the listing found of the target, `Taken` those that `Flash` took away. A file of the directory is known by the words
and the suffix that the code looks for in its name. The copy is one unit at a
time and its chunks and its verification are left to `Flasher`.

The world makes a mount (`MountAppears`) and ends one (`UserUmounts`), each at most
once and in either order, while the session asks or unmounts: earlier ones are
among the tables it may start with, and later ones are not looked at by anything.
`appeared` and `vanished` record them, to tell what the world did from what `Flash`
did.

### Prepare, QemuCache

A raw configuration has what the user gave; `ImageType`, `QemuArgs`,
`QemuRequired` and the rest are what `Prepare` makes of it. Errors are collected
and only end `Prepare` after the qemu binary has been looked for and extracted,
so that a refused build may still fill the cache (`PrepareEnds`).

In `QemuCache` a build is a process: it looks for the cache file, creates and
truncates it, writes its chunks at its own offset, and later reads the file with
`cp`. Two builds that write the same file write the same chunks, so what is
missing is a set. `broken` and `raced` are history variables: builds whose
extraction ended early (a dropped error of `io.Copy`, a crash), and builds that
met the extraction of another one.

### ImageFile, BuildInputs

Sizes are in bytes, a unit of `ImageOpen` has `UnitBytes` of them, and a sector
`SectorSize`; an entry of the table holds a start and a length below `LbaBound`,
which stands for 2^32, and `ExtraSectors` and `GrowLast` wrap there as the
`uint32` do. The configured sizes are unsigned in the configuration and are
compared as `int64`, so that they may be negative here. `Checks` is the check of
the vendored `mbr.Read`. The file grows, the table is read, and the table is
written, in three actions with a failure before each.

`BuildInputs` follows one build (`Mine`) from `Prepare` to the `cp`; the others
stop where their `Run` would begin, since nothing they do later touches the
cache's file or this build's image. The steps between the resize and the `cp`
are in `ArmImageBuild`.

## Runs

| Run | Question | Bounds, and why they are enough |
|---|---|---|
| `build_faults` | what holds when anything fails, and does every build end | two partitions (/boot, /), two nested extra mounts, every configuration, all faults and a cancel: every action and every error path is taken, alone and together with others; weak fairness for `Termination` |
| `build_ends` | do the mounts fit, does a build in which no step halts deliver | four partitions listed inside out, one without a mount point, two nested levels; every fault but an umount or a `losetup -d` that fails although nothing is in its way; processes that stay behind and are slow to die; weak fairness |
| `scan` | what the scan may leave | three partitions, with names that sort like their numbers and names that do not; the timeout at every point |
| `copy` | what a copy returns, and does it end | sources of none to four units with a buffer of two: full, short and last chunks, and two whole chunks after a cancel |
| `flash_faults` | what a verdict means when anything fails | three units in chunks of two, room for exactly three, both settings of `-verify` |
| `flash_session` | is the right device written, and unmounted; is the right image written, and all of it; is anything left behind; does the session end | three disks (fixed, removable, known to udevadm only) and one with a node that lsblk shows twice (a mirror), seven mount tables (nested, named by uuid, mapped, one node twice, one point twice, the mirror, a quote), two mounts that the world may add (another device's over the target's point, and the target's own), one umount by the world, so that points are stacked before and after the listing and cleared in between; four directories, six ways to start; a pipe of two units and images of up to three, so that a decompressor can block; every fault |
| `build_inputs` | are the binary and the image file whole, does the table fit the file, does the build settle | two builds and a binary of two chunks: both may truncate, write, read and die at any point of the other; an image of three units of two sectors, tables with the last entry last on the disk or not, overlapping, empty, missing; growth by less than a sector, past an entry's 16 sectors (wrapping), and negative |

Five more runs end in a counterexample; each is a disagreement between the code
and what the code or its documentation says:

| Run | What it shows |
|---|---|
| `register_fails` | the Cleanup of `stepRegisterBinFmt` panics after its Run failed |
| `loop_leak` | a scan without partitions leaves the loop device attached |
| `scan_partial` | the scan stops at the first listing that shows any partition |
| `flash_small` | the error of the copy is dropped, so that `-verify` accepts a part of the image |
| `flash_damaged` | the failure of the decompressor is dropped, so that `-verify` accepts a part of a damaged image |

Three disagreements take no order of events to show, and have no run of their own;
the actions named have them:

- `resolv-conf = "bind-host"` never works: `MountExtra` can neither make a directory
  of the image's /etc/resolv.conf nor bind a file on a directory
  (`builder.go:149`, against `config.go:61`).
- A partition mounted at two points is unmounted at one of them only, and written
  while mounted at the other: `Find` returns the first entry (`devices.go:26`,
  against `devices.go:263`).
- `qemu_args` are ignored for an image without a type on a host of its
  architecture: `QemuRequired` counts them only for a type (`builder.go:177`,
  against `config.go:80-81`).

`VerifiedCopyIsWhole` (`flash_faults`) and `VerifiedMeansWritten` (violated in
`flash_small`) say together that the verification catches whatever the medium
does, and nothing of what the copy did not do.

After the timeout the scan's list is neither complete nor sorted. `FullMeansAll`
says when the length check of `stepMountImage` makes up for that: when the
names of the partitions sort like their numbers, that is with fewer than ten.

Some properties hold only with a proviso that names what the code leaves open;
the provisos are part of what the runs show:

- `SuccessIsWhole`, `CopiedIsWhole`: the exit status of a decompressor is
  returned by `Close`, which no caller looks at, so that its failure is the end
  of the image (`child = "failed"`): `flash_damaged` shows what becomes of it.
  `flash` drops the error of its copy (`copyErr`), `stepCopyImage` does not.
- `Delivers`: `fuser -k` does not wait for what it kills. A build with no halt and
  no cancel fails all the same if an umount meets a process that was killed and is
  still there (`Overtaken`), or if the host has no fuser; every other one delivers,
  those whose killed processes leave in time included.
- `FlashedUnmounted` is about the mounts that the listing found (`Found`):
  `MountTable.Find` returns one entry for each node, so that a second mount of it
  stays mounted, as does one by a name under /dev/mapper; and
  what is mounted after the listing is not unmounted. One that was found stays too
  when another mount lies over it, at the listing or put there while the user is
  asked: `umount` has only the point, takes the upper one, and the copy writes over
  the lower one. The property says that this is the only way: for each found
  mount that is left, another one of its point is gone.
- `OtherMountsKept` is the other side of it: a mount of another device, or one made
  later, goes only where a found mount had that point, and only instead of it. Where
  lsblk shows a node under two disks (a mirror, an LVM volume), its point is
  unmounted twice, and the second time something else may go.
- `WritesOnlyChosen`: an answer of one more than the number of devices passes
  the check of the bounds and panics at the index; `NothingLeftRunning` shows
  that the deferred `Close` still runs.
- `AutoImageIsMostRecent`: the names found in `output-arm-image` come without
  their directory; each of them is then another file or an error.
- `CacheIsWhole`: a binary that was cut short stays in the cache and is taken by
  every later build. `InstalledWhole`: a build may read the cache while another
  one, which saw no file before, truncates it.
- `LastTakesTheRoom`: the entry that grows is the last one of the table, which
  need not be the last one on the disk; and the new size must fit in an entry.

No run switches deadlock checking off: what is over stutters explicitly
(`Over`).

## Fairness

- `ArmImageBuild!FairSpec`: weak fairness of the one goroutine that runs the
  build. The commands it waits for end; nothing is assumed of packer's cancel,
  of the watcher or of the processes in the chroot.
- `MapImage!Spec`: weak fairness of `Run` only. The timer makes `Run` go on
  whatever the goroutine does, so `RunReturns` needs nothing of the goroutine,
  which may in fact be stuck for good on its channel.
- `CopyWithProgress!Spec`: weak fairness of the caller and of the copier, which
  are goroutines. A read or a write that never returns is an action of its own
  (`Hang`), so `CancelReturns` holds with a source or a device that hangs.
- `FlashSession!Spec`: weak fairness of the goroutine of `Flash` where it does
  not ask the user (`Alone`), and of the decompressor, a process that runs
  unless it is blocked on the pipe. The user need not answer, which is the
  second disjunct of `SessionEnds`; signals and mounts need not happen.
- `BuildInputs!Spec`: weak fairness of the build's goroutine, of the watcher of
  the copy and of the decompressor. Nothing is assumed of the other builds, so
  the build settles (`BuildSettles`) even when they stop with the cache half
  written, nor of crashes and signals.

## Proofs

All constants are arbitrary within the named assumptions of the modules. Every
safety invariant of a passing run is stated by a theorem, and so are the
refinement and the action property of the build; `PROJECT.json` lists which.
`ReleaseInv`, the inductive invariant of the build, is itself checked by
TLC in `build_faults`; the others are in the proof modules.

### The build: `ArmImageBuildProofs`

- `TypeCorrect`, `ReleaseInvariant`: `[]TypeOK`, `[]ReleaseInv`.
- `ArtifactMeansCleanHost`: `[]ArtifactReleasesHost`.
- `LoggedFailureFailsBuild`: `[]LoggedUmountFailureIsFatal`.
- `ArtifactHasWholeImage`: `[]ArtifactIsComplete`.
- `KeepsItsPromise`: `Spec => KeepsPromise`.
- `InterpreterInvariant`, `NoInterpreterStays`: `[]InterpreterRemoved`.
- `ChrootInvariant`, `ProvisionersFindAll`: `[]ChrootReady`.
- `MountsNeverHide`: `ListedOutsideIn => (Spec => MountNeverHides)`.

`ArtifactReleasesHost` says nothing of the states before the artifact, so it is
not inductive. The argument: as long as no error is in the bag, every mounted
partition is in `mountpoints` (a failed umount puts the error there), and
everything mounted is mounted below the root, so that when the list is empty
and no error has been put nothing is mounted: the kernel refuses to unmount a
root with something mounted on it, which is why an extra mount whose failed
umount was only logged cannot survive in a build that delivers (`MountInv`).
The mounted root also means that the length check passed, so that a partition
is known and Cleanup finds the loop device (`LoopInv`). Both need the runner's
bookkeeping: what is deferred, and that an unfinished build has a key in the
bag that says so (`RunnerInv`). `ReleaseInv`, their conjunction, is inductive
with `TypeOK`. On it rest:

- a logged umount failure: `LoggedInv` says that it leaves an extra mount mounted
  while no error is in the bag, and that its own Cleanup is over, so that only an
  umount of a partition may still follow; but with no error and nothing mounted,
  which is what an artifact needs, there is no such mount;
- a complete image: `ImageInv` says at which step the image may be in which
  condition: one cut short by the resize stays with a step that halted, one whose
  partition has grown waits for `stepResizeFs`;
- the refinement, with `promiseStatus` and `promiseHeld` as its mapping: a step of
  the build is a step of `BuildPromise`. Those that take are in phases that count
  as building, those of the Cleanups only give back, and an artifact is delivered
  by `ReleaseInv`. The only Cleanup for which this takes an invariant is that of
  `stepMapImage`, which may leave a loop device marked for release, and so must
  have found it attached (`LoopKnown`);
- the interpreter: a qemu binary in the image, and a registered entry, are known
  to a Cleanup that is still to run, or their removal failed; the first needs the
  root to be mounted until the Cleanup of `stepMountImage`, since the binary is
  removed through it (`InterpreterInv`). A panic takes the same way as an end;
- the chroot: what each step that is done has added stays until the provisioners
  run (`ChrootInv`);
- the order of the mounts: what `stepMountImage` has yet to mount lies above
  nothing that it has mounted, which its sort gives at each mount anew, and a step
  finds nothing that a later one mounts (`SortedInv`).

The assumptions on the mounts: one partition is mounted on the root, no mount
point is used twice, and no extra mount lies above a partition's mount point or
equals one. On the scan: a result as long as the list of mount points is the list
of all partitions (`FullScanAssumption`); this is what `FullMeansAll` of the scan
is proved to say when the image has one partition for each mount point and fewer
than ten. `MountsNeverHide` alone has a hypothesis: the extra mounts are listed
outside in, as the default ones are (`builder.go:52-58`). The code does not sort
them, so a configuration that lists /dev/pts before /dev hides it.

### The scan: `MapImageProofs`

`ScanInvariant`, `TypeCorrect`, `ReceivedSorted`, `FullResultIsAll`. What has been
appended to the shared list and what is still to be are parts of one listing, the
second after the first (`ScanInv`), so the list is sorted at every moment at which
the names are; and what `Run` leaves is nothing, torn, or such a part (`RunInv`).
A sorted list of as many partitions as there are is all of them. `ListAssumption`:
a listing has each number once.

### The copy: `CopyWithProgressProofs`

- `TypeCorrect`, and `StopIsPrompt`: `late <= 1`, from `LateInv`: after a write
  that began late, the copier is past the two places from which a write is
  reached without asking `done`.
- `ResultCorrect`: from `ResultInv`, the destination is a prefix of the source
  that the buffer continues, and the channel and the caller hold the copier's
  own result.
- `CountCorrect`: from `CountInv`, where the counter stands at each place of
  the copier.

### The flasher: `FlasherProofs`

`FlashInvariant`, `TypeCorrect`, `VerifiedFlashIsIntact`, `VerifiedFlashIsWhole`,
`MismatchHasACause`. The first copy is a call of `CopyWithProgress`
(`FirstCopyMoves`), so that `ResultInv` and its types are taken from
`CopyWithProgressProofs`, by `INSTANCE`. The second copy is one as well, but its
source may change under it: the goroutine of a first copy that was interrupted may
still write one chunk. What it has read is therefore called `Fresh`: the
device still has it, or an interrupted first copy has put the image's own unit
there since. A sum is the start of the image, or torn, so when the second sum
agrees each unit of it is the image's on the device as well, fresh one way or the
other (`VerifiedIsIntact`); a first copy without an error has a sum of the whole
image (`VerifiedCopyIsWhole`); and on a medium that stayed good, after such a copy,
what is read is the image, so that the sums cannot differ (`NoFalseAlarm`).
`FlasherAssumption`: the image has neither of the values `Old` and `Bad`.

### A session: `FlashSessionProofs`, `PlacesProofs`

`SessionInvariant`, `TypeCorrect`, `WritesTheChosen`, `TargetIsUnmounted`,
`OthersStayMounted`, `AutoImageIsRight`, `SuccessWritesAll`, `NothingIsLeft`. The
invariant has a part for each thing a session carries from one question to the
next: what each phase has not done yet (`PhaseInv`), the image with its
decompressor (`ImageInv`), what was read and written (`WholeInv`), the devices and
the target (`ChoiceInv`, `TargetInv`), and the table of mounts beside what was
listed of it (`TableInv`, `UmountInv`). The last two are what the questions to the
user endanger. What is still mounted of a point says nothing by itself, since
anything may have been put there or taken away, so `UmountInv` counts: at each
point `Flash` has taken away exactly as many mounts as the loop has passed names of
it (`TakenAt`, `PassedAt`). The names are counted against the found mounts in
`FoundCounted`: at each point there are at least as many names as found mounts, and
exactly as many if no node is listed twice. So if a found mount is left at the end,
one that was not found is among those taken from its point (`TargetIsUnmounted`);
and if one that was not found is taken, at any moment, a found one was not
(`OthersStayMounted`). That `Flash` takes one mount at a time, and nothing that the
world took, is `OneTaken` and `WorldTakesNone`; they need that no mount is in the
table twice and that a later one is new (`MountsAssumption`), which is what the
number of a mount is for. From points to disks one goes by `NamesAssumption`: a
name in the table that is a node's is only that node's. A disk that is a block copy
of another one, with the same UUIDs, is outside it. The other assumptions are
types, and that a directory has one file of a name and a host one disk of a name.

`PlacesProofs` has the lemmas about `Places`, of which the listings, the candidates
for an image and the sort of the scan are made: a finite set of numbers can be put
in order (`CanBeOrdered`), and the list of the entries at its places has each of
them once, in order (`AtIs`). This takes induction, which is done by the smallest
element of a set of numbers (`Smallest`, `Largest`, `Counting`), since the
induction theorems of the library are out of reach.

### The cache: `QemuCacheProofs`

For any number of builds and any size of the binary:

- `CacheInvariant`: `CacheSpec => []CacheInv`.
- `CacheWhole` and `InstallWhole`: `[]CacheIsWhole` and `[]InstalledWhole`, both
  only as long as no extraction was cut short (`broken`), the second for a build
  that met no other extraction (`raced`).

`CacheIsWhole` speaks of the moments in which nobody extracts, and a truncation
takes every chunk away at once. What is kept through it is `MissingHasWriter`:
as long as no extraction was cut short, each chunk that is missing is still ahead
of a build that writes; the build that truncates has all of them ahead. For
the `cp`, `UsersUndisturbed` says that a build that relies on the cache and met
no other extraction is alone with it, and `CopiedSoFar` that it then has copied
every chunk up to its offset. `OnlyIfExists` connects both to the file's
existence, which is what `os.Stat` asks.

### What a build has: `BuildInputsProofs`

For all requests, sizes of units and sectors, and bounds:

- `ImplementsCache`: `Spec => CacheSpec`, each step of a build with its image
  file is a step of the cache or leaves it alone; hence `BuildBinaryWhole`:
  `Spec => []BinaryIsWhole`.
- `FileInvariant` and `PartitionsStayInFile`: `[]PartitionsInFile`.
- `CopyInvariant` and `CopyIsWhole`: `[]CopiedIsWhole`.
- `GrowInvariant` and `LastTakesItsRoom`: `[]LastTakesTheRoom`.
- `TypeCorrect`: `[]TypeOK`, which takes all of these.

`PartitionsInFile` is not inductive, since the table in memory is computed in one
action and written in another. `FileInv` says where each of the table's possible
values comes from (none, the image's, or the image's with its last entry grown
by `ExtraSectors(extra)`) and that the file has been at least `extra` bytes
longer than the copy since before that; that the entry may wrap only makes it
shorter (`SectorsFit`, `GrownFits`). `CopyInv` says that data ends only when all of
it was read or the decompressor failed, and that a copy that goes on has met that
end. `GrowInv` makes the size exact: what was copied and what was added, and a
file that grew gets the table that grew with it; the whole sectors of the room are
counted in `WholeSectors`, and that a last entry that grows within the bound meets
no other is `GrowthIsDisjoint`. The assumptions: the sizes are positive naturals,
the tables have four entries within the bound, the configured sizes are integers.

### Only model-checked

The liveness properties, since the prover does neither fairness nor ENABLED:
`Termination`, `Delivers`, `RunReturns`, `CancelReturns`, `CopierEnds`,
`SessionEnds`, `BuildSettles`. And the disagreements of the five runs that end in a
counterexample. No module declares a RECURSIVE operator.

## Not modelled

- The contents of files, but for the partition table and the chunks of the qemu
  binary: resolv.conf and the C wrapper are there or not.
- The network and the download; messages to the user; the templates around
  commands. Steps assume the commands do what their manuals say.
- The decoding of configurations and the generated code for it, which hold no
  state; the registration of the plugin; the terminal of the flasher.
- The parsers of what lsblk, udevadm and the kernel print, but for the two
  places where their result is a decision or a panic (`StringOrBool`,
  `CannotUnescape`); other malformed output is a call that fails.
- The write that an interrupted copy may still make into the output image after
  the step has halted: `CopyWithProgress` and `Flasher` have it, and a build
  that was cancelled returns no artifact.

## Plan

1. (done) the build, its abstract promise, the scan, the copy, the flasher.
2. (done) the image opener and a session of the flasher with its devices.
3. (done) `Prepare`, the cache, the image file and its table, composed.
4. (done) the cache's theorems, that a build implements it, the table's theorem.
5. (done) what an artifact says of its build; the promise of a build.
6. (done) the inductive invariants of the scan, the flasher and the session; of the
   build the interpreter, the chroot and the order of the mounts; of the image file
   the copy and the growth.
7. Proofs: that a flash implements what its user is promised and a call of
   `CopyWithProgress` an abstract copy; that `Flasher`'s second copy is a call over
   a source that changes; that what `MapImage` leaves is in `ScanResults`.
