---------------------------- MODULE FlashSession ----------------------------
(***************************************************************************)
(* One session of the flasher, from the command or the post-processor:     *)
(* choose an image and open it, choose a device, ask, unmount what is      *)
(* mounted of it, copy, close, verify.  Meanwhile a decompressor may be at *)
(* work on the image, and the world may mount and unmount.  What the copy  *)
(* and the verification do in detail is the subject of Flasher.            *)
(***************************************************************************)
EXTENDS Naturals, Sequences, SequencesExt, ImageTypes, Devices

CONSTANTS
    Sessions,     \* the ways a session is started
    Directories,  \* the current directory and ./output-arm-image
    DiskSets,     \* the disks lsblk may list
    Tables,       \* the tables of mounts at the start
    LaterMounts,  \* the mounts the world may add
    PipeSize, Faults

VARIABLES
    session,   \* how it was started
    dir,       \* the files it may choose from
    disks,     \* the disks of the host
    phase,     \* where Flash is
    chosen,    \* the name of the image
    listed,    \* the table of mounts when the devices were listed
    devices,   \* the detachable devices then
    answer,    \* the number the user gave, 0 for none
    target,    \* the device chosen, an index of devices
    mounts,    \* the table of mounts
    toUmount,  \* the mount points the loop of unmount has not come to
    appeared,  \* the mounts that the world has made since the devices were listed
    vanished,  \* the mounts that the world has taken away since
    written,   \* the units on the device
    copyErr,   \* the copy ended with an error, which flash drops
    result     \* what Flash returns

VARIABLES archive, file, lane, child, made, pipe, readEnd, reaped, taken, end, closing

I == INSTANCE ImageOpen

Files == [name : STRING, words : SUBSET STRING, suffix : STRING, time : Nat,
          archive : I!Archives]
Nodes == [name : STRING, uuid : STRING]
Disks == [nodes : Seq(Nodes) \ {<< >>}, rm : [type : STRING, text : STRING],
          udev : SUBSET STRING, model : STRING]
\* The kernel gives every mount a number of its own, which the code does not look at.
MountEntries ==
    [id : Nat, node : Nodes, name : Seq(STRING), point : Seq(Nat), quoted : BOOLEAN]

ASSUME SessionAssumption ==
    /\ PipeSize \in Nat \ {0}
    /\ Directories \subseteq [here : Seq(Files), output : Seq(Files)]
    /\ DiskSets \subseteq Seq(Disks)
    /\ Tables \subseteq Seq(MountEntries) /\ LaterMounts \subseteq MountEntries

\* A directory has one file of a name, the kernel gives one disk a name, and a name
\* in the table of mounts, if it is a node's, is only that node's.
ASSUME NamesAssumption ==
    /\ \A d \in Directories : \A i, j \in DOMAIN d.here :
          d.here[i].name = d.here[j].name => i = j
    /\ \A ds \in DiskSets : \A i, j \in DOMAIN ds : NameOf(ds[i]) = NameOf(ds[j]) => i = j
    /\ \A ds \in DiskSets, table \in Tables : \A disk \in Range(ds), e \in Range(table) :
          \A node \in Range(disk.nodes) : Matches(e, node) => e.node = node

\* No mount is in a table twice, and a later one is another than those of the tables.
ASSUME MountsAssumption ==
    \A table \in Tables :
       /\ IsInjective(table)
       /\ Range(table) \cap LaterMounts = {}

choiceVars == <<session, dir, disks, chosen, listed, devices, answer, target>>
tableVars == <<mounts, toUmount, appeared, vanished>>
worldVars == <<appeared, vanished>>
imageVars == <<archive, file, lane, child, made, pipe, readEnd, reaped, taken, end,
               closing>>
vars == <<choiceVars, phase, tableVars, written, copyErr, result, imageVars>>

MayFail(call) == call \in Faults

\* No mount was made on that one later.
IsTopmost(i, table) ==
    \A j \in DOMAIN table : j > i => table[j].point # table[i].point

\* The kernel takes a mount away by its point, unless a later mount is on it, below
\* it, so that it is busy, or above it, so that its point is not found.
CanUmount(i, table) ==
    \A j \in DOMAIN table : j > i =>
       /\ ~IsPrefix(table[i].point, table[j].point)
       /\ ~IsPrefix(table[j].point, table[i].point)

Points(table) == {table[i].point : i \in DOMAIN table}

NoArchive == [kind |-> "raw", size |-> 0, good |-> 0]

Init ==
    /\ session \in Sessions /\ dir \in Directories
    /\ disks \in DiskSets /\ mounts \in Tables
    /\ phase = "start" /\ chosen = "" /\ listed = << >> /\ devices = << >>
    /\ answer = 0 /\ target = 0 /\ toUmount = << >>
    /\ appeared = {} /\ vanished = {}
    /\ written = 0 /\ copyErr = FALSE /\ result = "none"
    /\ archive = NoArchive /\ I!NotOpened

-----------------------------------------------------------------------------
(* The world *)

\* The table changes while it matters: what happens before the listing is among
\* the initial tables, and nothing looks at it once the copy has begun.
Matters == phase \in {"choosing", "confirming", "umounting"}

\* The kernel does not mount a node on itself.
MountAppears ==
    /\ Matters /\ appeared = {}
    /\ \E e \in LaterMounts :
          /\ \A i \in DOMAIN mounts : IsTopmost(i, mounts) /\ mounts[i].point = e.point
                                      => mounts[i].node # e.node
          /\ mounts' = Append(mounts, e) /\ appeared' = {e}
    /\ UNCHANGED <<choiceVars, phase, toUmount, vanished, written, copyErr, result, imageVars>>

UserUmounts ==
    /\ Matters /\ vanished = {} /\ MayFail("userUmounts")
    /\ \E i \in DOMAIN mounts :
          /\ CanUmount(i, mounts)
          /\ mounts' = RemoveAt(mounts, i) /\ vanished' = {mounts[i]}
    /\ UNCHANGED <<choiceVars, phase, toUmount, appeared, written, copyErr, result, imageVars>>

-----------------------------------------------------------------------------
(* PostProcess, getSource and Choose *)

\* Nothing is open yet: Flash returns at once.
Fail == phase' = "returned" /\ result' = "failed"

\* The deferred Close of the image runs first.
Leave(outcome) == phase' = "leaving" /\ result' = outcome

Start ==
    /\ phase = "start"
    /\ IF session.front = "post" /\ session.files # 1
         THEN Fail ELSE phase' = "source" /\ result' = result
    /\ UNCHANGED <<choiceVars, tableVars, written, copyErr, imageVars>>

\* The file a name stands for, which is looked up in the current directory.
FilesNamed(name) == {f \in Range(dir.here) : f.name = name}

TimeOf(name) == (CHOOSE f \in FilesNamed(name) : TRUE).time

\* The image that was listed last.
LastListed(names) == {names[i] : i \in DOMAIN names \cap {Len(names)}}

\* getMostRecent: the first of the most recent ones; a name that stands for no
\* file is an error.
MostRecent(names) ==
    IF \E i \in DOMAIN names : FilesNamed(names[i]) = {} THEN {}
    ELSE {names[i] : i \in {j \in DOMAIN names :
            /\ \A k \in DOMAIN names : TimeOf(names[k]) <= TimeOf(names[j])
            /\ \A k \in 1..(j - 1) : TimeOf(names[k]) < TimeOf(names[j])}}

\* The names the session may go on with; no names are an error.
NamesToTry(names) ==
    IF ~session.interactive THEN MostRecent(names)
    ELSE Range(names)

\* The user may give no answer, a number, or a bad one.
ChooseImage ==
    /\ phase = "source"
    /\ LET names == PotentialNames(dir.here, dir.output) IN
       \/ session.image # "" /\ chosen' = session.image
          /\ phase' = "opening" /\ result' = result
       \/ session.image = "" /\ names # << >>
          /\ \E name \in NamesToTry(names) : chosen' = name
          /\ phase' = "opening" /\ result' = result
       \/ /\ session.image = ""
          /\ \/ names = << >>
             \/ session.interactive
             \/ MostRecent(names) = {}
          /\ Fail /\ UNCHANGED chosen
    /\ UNCHANGED <<session, dir, disks, listed, devices, answer, target, tableVars, written,
                   copyErr, imageVars>>

\* The file is the one of that name in the current directory, if there is one.
FindImage ==
    /\ phase = "opening" /\ archive = NoArchive
    /\ IF FilesNamed(chosen) = {}
         THEN Fail /\ archive' = archive
         ELSE /\ archive' = (CHOOSE f \in FilesNamed(chosen) : TRUE).archive
              /\ UNCHANGED <<phase, result>>
    /\ UNCHANGED <<choiceVars, tableVars, written, copyErr, file, lane, child, made,
                   pipe, readEnd, reaped, taken, end, closing>>

OpenImage ==
    /\ phase = "opening" /\ archive # NoArchive /\ I!Open
    /\ IF lane' = "failed" THEN Fail ELSE phase' = "listing" /\ result' = result
    /\ UNCHANGED <<choiceVars, tableVars, written, copyErr>>

-----------------------------------------------------------------------------
(* getDevice *)

ListDevices ==
    /\ phase = "listing" /\ listed' = mounts
    /\ \/ MayFail("lsblk") /\ Leave("failed") /\ devices' = devices
       \/ CannotUnescape(mounts) /\ Leave("panicked") /\ devices' = devices
       \/ /\ MayFail("udevadm") /\ \E d \in Range(disks) : AsksUdev(d)
          /\ ~CannotUnescape(mounts) /\ Leave("failed") /\ devices' = devices
       \/ /\ ~CannotUnescape(mounts)
          /\ devices' = DetachableDevices(disks, mounts)
          /\ IF devices' = << >> THEN Leave("failed")
                                 ELSE phase' = "choosing" /\ result' = result
    /\ UNCHANGED <<session, dir, disks, chosen, answer, target, tableVars, written, copyErr,
                   imageVars>>

\* An index that is not brought back to the count from one.
AsIndex(n) == n + 1

\* The device a number stands for; no answer is the first.
Selected(n) == IF n = 0 THEN 1 ELSE n

\* The bounds lets one number too many through, which panics.
Select ==
    \E n \in 0..(Len(devices) + 2) :
       /\ answer' = n
       /\ \/ n > Len(devices) + 1 /\ Leave("failed") /\ target' = target
          \/ n = Len(devices) + 1 /\ Leave("panicked") /\ target' = target
          \/ /\ n <= Len(devices) /\ target' = Selected(n)
             /\ phase' = "confirming" /\ result' = result

ChooseDevice ==
    /\ phase = "choosing"
    /\ \/ /\ session.device # ""
          /\ IF \E i \in DOMAIN devices : devices[i].name = session.device
               THEN /\ target' = CHOOSE i \in DOMAIN devices :
                                          devices[i].name = session.device
                    /\ phase' = "confirming" /\ result' = result
               ELSE Leave("failed") /\ target' = target
          /\ answer' = answer
       \/ /\ session.device = "" /\ ~session.interactive
          /\ IF Len(devices) = 1
               THEN target' = 1 /\ phase' = "confirming" /\ result' = result
               ELSE Leave("failed") /\ target' = target
          /\ answer' = answer
       \/ session.device = "" /\ session.interactive /\ Select
    /\ UNCHANGED <<session, dir, disks, chosen, listed, devices, tableVars, written, copyErr,
                   imageVars>>

-----------------------------------------------------------------------------
(* The rest of Flash *)

Confirm ==
    /\ phase = "confirming"
    /\ \/ phase' = "umounting" /\ toUmount' = devices[target].points /\ result' = result
       \/ session.interactive /\ Leave("failed") /\ toUmount' = toUmount
    /\ UNCHANGED <<choiceVars, mounts, worldVars, written, copyErr, imageVars>>

\* umount knows the point alone: it takes whatever is mounted there on top.
Umount ==
    /\ phase = "umounting" /\ toUmount # << >>
    /\ LET there == {i \in DOMAIN mounts :
                        mounts[i].point = Head(toUmount) /\ CanUmount(i, mounts)} IN
       \/ /\ \E i \in there : mounts' = RemoveAt(mounts, i)
          /\ toUmount' = Tail(toUmount) /\ UNCHANGED <<phase, result>>
       \/ /\ there = {} \/ MayFail("umount")
          /\ Leave("failed") /\ UNCHANGED <<mounts, toUmount>>
    /\ UNCHANGED <<choiceVars, worldVars, written, copyErr, imageVars>>

\* A device that does not open is still followed by flash's own Close.
OpenDevice ==
    /\ phase = "umounting" /\ toUmount = << >>
    /\ \/ phase' = "flashing" /\ result' = result
       \/ MayFail("openDevice") /\ phase' = "closing" /\ result' = "failed"
    /\ UNCHANGED <<choiceVars, tableVars, written, copyErr, imageVars>>

CopyUnit ==
    /\ phase = "flashing" /\ I!ReadUnit
    /\ \/ written' = written + 1 /\ UNCHANGED <<phase, copyErr>>
       \/ MayFail("write") /\ phase' = "closing" /\ copyErr' = TRUE /\ written' = written
    /\ UNCHANGED <<choiceVars, tableVars, result>>

CopyEnds ==
    /\ phase = "flashing" /\ phase' = "closing"
    /\ \/ I!ReadEnds /\ copyErr' = (end' = "error")
       \/ session.front = "post" /\ MayFail("cancel") /\ copyErr' = TRUE
          /\ UNCHANGED imageVars
    /\ UNCHANGED <<choiceVars, tableVars, written, result>>

\* flash closes the image, and Flash closes it again.
CloseImage ==
    /\ phase \in {"closing", "leaving"} /\ I!Close
    /\ phase' = IF phase = "closing" THEN "closed" ELSE "left"
    /\ UNCHANGED <<choiceVars, tableVars, written, copyErr, result>>

WaitForDecompressor ==
    /\ I!Wait
    /\ UNCHANGED <<choiceVars, phase, tableVars, written, copyErr, result>>

\* Sync, and verify against the hash of what was written.
Verify ==
    /\ phase = "closed" /\ closing = "closed"
    /\ \/ result = "none" /\ Leave("ok")
       \/ result = "none" /\ session.verify /\ MayFail("verify") /\ Leave("failed")
       \/ result # "none" /\ Leave(result)
    /\ UNCHANGED <<choiceVars, tableVars, written, copyErr, imageVars>>

Return ==
    /\ phase = "left" /\ closing = "closed" /\ phase' = "returned"
    /\ UNCHANGED <<choiceVars, tableVars, written, copyErr, result, imageVars>>

Decompress ==
    /\ I!Decompressor
    /\ UNCHANGED <<choiceVars, phase, tableVars, written, copyErr, result>>

DecompressorKilled ==
    /\ I!ChildKilled
    /\ UNCHANGED <<choiceVars, phase, tableVars, written, copyErr, result>>

Over == phase = "returned" /\ UNCHANGED vars

\* What the goroutine of Flash does by itself, and where it asks the user.
Alone ==
    \/ Start \/ FindImage \/ OpenImage \/ ListDevices \/ Umount \/ OpenDevice
    \/ CopyUnit \/ CopyEnds \/ CloseImage \/ WaitForDecompressor \/ Verify \/ Return
    \/ ~session.interactive /\ (ChooseImage \/ ChooseDevice \/ Confirm)
Asks == session.interactive /\ (ChooseImage \/ ChooseDevice \/ Confirm)

Next ==
    \/ Alone \/ Asks \/ Decompress \/ DecompressorKilled
    \/ MountAppears \/ UserUmounts \/ Over

\* The user need not answer; the decompressor runs.
Spec == Init /\ [][Next]_vars /\ WF_vars(Alone) /\ WF_vars(Decompress)

-----------------------------------------------------------------------------
(* Properties *)

TypeOK ==
    /\ session \in Sessions /\ dir \in Directories /\ disks \in DiskSets
    /\ phase \in {"start", "source", "opening", "listing", "choosing", "confirming",
                  "umounting", "flashing", "closing", "closed", "leaving", "left",
                  "returned"}
    /\ \A i \in DOMAIN devices : devices[i].points \in Seq(Points(listed))
    /\ target \in 0..Len(devices) /\ answer \in 0..(Len(devices) + 2)
    /\ appeared \subseteq LaterMounts /\ vanished \subseteq Range(listed) \cup appeared
    /\ toUmount \in Seq(Points(listed))
    /\ written <= taken /\ copyErr \in BOOLEAN
    /\ result \in {"none", "ok", "failed", "panicked"}
    /\ I!ImageTypeOK

Flashed == written > 0 \/ phase = "flashing"

DiskOf(name) == CHOOSE d \in Range(disks) : NameOf(d) = name
TargetNodes == DiskOf(devices[target].name).nodes

\* The mounts that the listing found of the target: of each of its nodes the first
\* in the table, if the table has the node by one of its names.
Found ==
    {listed[i] : i \in {k \in DOMAIN listed : \E node \in Range(TargetNodes) :
        Matches(listed[k], node) /\ \A j \in 1..(k - 1) : ~Matches(listed[j], node)}}

\* The mounts that Flash itself has taken away: they were there and are not, and it
\* was not the world.
Taken == (Range(listed) \cup appeared) \ (Range(mounts) \cup vanished)

\* A device is written only if it is detachable and was meant: it was configured,
\* or is the only one, or stands beside the number the user gave (the first one
\* for none), whatever other numbers an answer may be.
WritesOnlyChosen ==
    Flashed =>
       /\ Removable(DiskOf(devices[target].name))
       /\ IF session.device # "" THEN devices[target].name = session.device
          ELSE IF ~session.interactive THEN Len(devices) = 1
          ELSE LET offered == Detachable(disks)
                   beside == IF answer = 0 THEN 1 ELSE answer IN
               /\ beside <= Len(offered)
               /\ devices[target].name = NameOf(offered[beside])

\* The copy begins only when every mount that the listing found of the device is
\* gone, whatever was mounted and unmounted since; but umount knows points and no
\* mounts, so one may be left whose point carried another mount, which went in its
\* place: the mount points outlive the questions to the user.  A second mount of a
\* node, and one by a name that lsblk does not show, are not among those found.
FlashedUnmounted ==
    phase = "flashing" =>
       \A f \in Found \cap Range(mounts) : \E e \in Taken \ Found : e.point = f.point

\* At no time has Flash taken away more than it should: a mount that was not found of
\* the device, one of another device or one made since, goes only from the point of
\* a found one, and only instead of it: that one is still mounted, or the world had
\* taken it.  Where lsblk shows a node twice, its point is unmounted twice.
OtherMountsKept ==
    target # 0 =>
       \A e \in Taken \ Found : \E f \in Found :
          f.point = e.point /\ (f \in Taken => ~IsInjective(TargetNodes))

\* An image that nobody named is the most recent one of the current directory
\* that looks like an image, and one in the output directory is not missed: if it
\* is not here as well, the session fails instead.
AutoImageIsMostRecent ==
    ~session.interactive /\ session.image = "" /\ chosen # "" =>
       /\ FilesNamed(chosen) # {}
       /\ \A f \in Range(dir.here) : HasPotential(f) => f.time <= TimeOf(chosen)
       /\ \A f \in Range(dir.output) : HasPotential(f) => FilesNamed(f.name) # {}

\* A session that succeeds has written the whole image, unless the copy's error
\* was dropped, the decompressor failed unnoticed, or the file was misread.
SuccessIsWhole ==
    result = "ok" =>
       written = archive.size \/ copyErr \/ child = "failed" \/ I!Misread

\* A verification that passes, after a copy that met no error, says that the image was
\* written, and so all of it.
VerifiedImageIsWhole ==
    result = "ok" /\ session.verify /\ ~copyErr => written = archive.size

\* However a session ends, a panic included, no decompressor is left behind and
\* the image is closed; the fast lane alone forgets its file.
NothingLeftRunning ==
    phase = "returned" /\ lane \notin {"none", "failed"} =>
       child # "running" /\ (lane = "fast" => reaped) /\ I!ClosedForGood

\* A session ends unless it waits for the user, even when the decompressor has
\* more to write than anyone will read: the pipe is closed before the wait.
SessionEnds ==
    <>(phase = "returned") \/ <>[](session.interactive
                                   /\ phase \in {"source", "choosing", "confirming"})
=============================================================================
