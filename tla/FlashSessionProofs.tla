------------------------- MODULE FlashSessionProofs -------------------------
(***************************************************************************)
(* FlashSession, for every session, directory, set of disks and table of   *)
(* mounts: the device that is written is the one that was meant, what was  *)
(* found mounted of it is unmounted, or something on the same point in its *)
(* place, the image is the most recent one and written whole, and no       *)
(* decompressor is left running.                                           *)
(***************************************************************************)
EXTENDS FlashSession, PlacesProofs

Opening == {"start", "source", "opening"}
Unlisted == Opening \cup {"listing"}
Unchosen == Unlisted \cup {"choosing"}
Asking == Unchosen \cup {"confirming"}
Uncopied == Asking \cup {"umounting"}
Running == Uncopied \cup {"flashing"}
Phases == Running \cup {"closing", "closed", "leaving", "left", "returned"}

OpenLanes == {"raw", "zip", "slow", "fast"}

\* What each phase has not done yet, and where Close is in each.
PhaseInv ==
    /\ phase \in Phases
    /\ phase \in Opening => I!NotOpened
    /\ phase \in Unlisted =>
          listed = << >> /\ devices = << >> /\ appeared = {} /\ vanished = {}
    /\ phase \in Unchosen => answer = 0 /\ target = 0
    /\ phase \in Asking \cup {"flashing"} => toUmount = << >>
    /\ phase \in Uncopied => taken = 0 /\ written = 0
    /\ phase \in Running => end = "none" /\ result = "none" /\ ~copyErr
    /\ phase \in Running \cup {"closing"} => closing = "no"
    /\ phase \in {"closed", "left"} => closing \in {"waiting", "closed"}
    /\ phase = "leaving" => closing \in {"no", "closed"}
    /\ phase \notin Opening \cup {"returned"} => lane \in OpenLanes
    /\ phase = "returned" => lane \in {"none", "failed"} \/ closing = "closed"

\* The image, the decompressor and the pipe.
ImageInv ==
    /\ I!ImageTypeOK
    /\ child = "exited" => made = archive.good /\ archive.good = archive.size
    /\ reaped => child \in {"exited", "failed"}
    /\ closing = "waiting" => lane = "fast"
    /\ closing = "closed" => IF lane = "fast" THEN reaped ELSE file = "closed"
    /\ end = "eof" => taken = archive.size \/ child = "failed"

\* Every unit read is written, until the copy has failed.
WholeInv ==
    /\ written \in Nat /\ written <= taken
    /\ copyErr \in BOOLEAN /\ result \in {"none", "ok", "failed", "panicked"}
    /\ phase = "flashing" => written = taken
    /\ (phase \in {"closing", "closed"} /\ result = "none") \/ result = "ok" =>
          copyErr \/ (end = "eof" /\ written = taken)

\* The devices are those that were detachable when they were listed.
ChoiceInv ==
    /\ session \in Sessions /\ dir \in Directories /\ disks \in DiskSets
    /\ devices = << >> \/ devices = DetachableDevices(disks, listed)
    /\ phase = "choosing" => devices # << >>

\* The target is the device that was meant.
Meant ==
    IF session.device # "" THEN devices[target].name = session.device
    ELSE IF ~session.interactive THEN Len(devices) = 1
    ELSE target = IF answer = 0 THEN 1 ELSE answer

Copying == {"confirming", "umounting", "flashing"}

TargetInv ==
    /\ target \in 0..Len(devices) /\ answer \in 0..(Len(devices) + 2)
    /\ phase \in Copying \/ written > 0 => target # 0
    /\ target # 0 => Meant

\* The listing is done, and its tables matter.
Looked == phase = "choosing" \/ target # 0

Known == Range(listed) \cup appeared

\* What is in the table of mounts was listed or appeared; until the user has agreed
\* nothing of it is gone but by the world.
TableInv ==
    /\ mounts \in Seq(MountEntries) /\ IsInjective(mounts)
    /\ appeared \subseteq LaterMounts /\ IsFiniteSet(appeared) /\ vanished \subseteq Known
    /\ phase \in Unlisted => mounts \in Tables
    /\ listed = << >> \/ listed \in Tables
    /\ Looked => Range(mounts) \subseteq Known /\ Range(mounts) \cap vanished = {}
    /\ phase \in {"choosing", "confirming"} => Taken = {}

TargetPoints == devices[target].points

\* What Flash has taken from a point, and how often the loop has come to the point
\* among the first n of its list.
TakenAt(p) == {e \in Taken : e.point = p}
PassedAt(p, n) == {k \in 1..n : TargetPoints[k] = p}

\* From each point the loop has taken one mount each time it came to it.
Unmounted(n) ==
    /\ \A p : Cardinality(TakenAt(p)) = Cardinality(PassedAt(p, n))
    /\ phase = "umounting" =>
          /\ Len(toUmount) = Len(TargetPoints) - n
          /\ \A k \in 1..Len(toUmount) : toUmount[k] = TargetPoints[n + k]
    /\ phase = "flashing" => n = Len(TargetPoints)

UmountInv ==
    /\ toUmount \in Seq(Points(listed))
    /\ target # 0 => \E n \in 0..Len(TargetPoints) : Unmounted(n)

-----------------------------------------------------------------------------
(* The steps *)

\* The steps one by one.
Step ==
    \/ Start \/ ChooseImage \/ FindImage \/ OpenImage \/ ListDevices \/ ChooseDevice
    \/ Confirm \/ Umount \/ OpenDevice \/ CopyUnit \/ CopyEnds \/ CloseImage
    \/ WaitForDecompressor \/ Verify \/ Return \/ Decompress \/ DecompressorKilled
    \/ MountAppears \/ UserUmounts \/ UNCHANGED vars

LEMMA Steps == ASSUME [Next]_vars PROVE Step
BY DEF Next, Alone, Asks, Over, Step

\* What Open does to the image, whatever the file is and whatever fails.
LEMMA OpenEffect ==
    ASSUME I!Open
    PROVE  /\ lane = "none" /\ lane' \in OpenLanes \cup {"failed"}
           /\ file' \in {"none", "open", "closed"}
           /\ child' = (IF lane' = "fast" THEN "running" ELSE "none")
           /\ readEnd' = (IF lane' = "fast" THEN "open" ELSE "none")
           /\ UNCHANGED <<archive, made, pipe, reaped, taken, end, closing>>
<1>1. \E l \in OpenLanes \cup {"failed"}, f \in {"none", "open", "closed"} : I!Opened(l, f)
  <2>1. CASE I!NotOpen("none")
    BY <2>1 DEF I!NotOpen
  <2>2. CASE I!OpenRaw
    BY <2>2 DEF I!OpenRaw, I!NotOpen, OpenLanes
  <2>3. CASE I!OpenZip
    BY <2>3 DEF I!OpenZip, I!NotOpen, OpenLanes
  <2>4. CASE I!Uncompress
    BY <2>4 DEF I!Uncompress, I!NotOpen, OpenLanes
  <2> QED BY <2>1, <2>2, <2>3, <2>4 DEF I!Open
<1>2. lane = "none"
  BY DEF I!Open
<1> QED BY <1>1, <1>2 DEF I!Opened

\* Only these steps touch the image.
ImageStep ==
    \/ FindImage \/ OpenImage \/ CopyUnit \/ CopyEnds \/ CloseImage \/ WaitForDecompressor
    \/ Decompress \/ DecompressorKilled

LEMMA OtherSteps ==
    ASSUME Step, ~ImageStep
    PROVE  /\ Start \/ ChooseImage \/ ListDevices \/ ChooseDevice \/ Confirm \/ Umount
              \/ OpenDevice \/ Verify \/ Return \/ MountAppears \/ UserUmounts
              \/ UNCHANGED vars
           /\ UNCHANGED imageVars
<1>1. Start \/ ChooseImage \/ ListDevices \/ ChooseDevice \/ Confirm \/ Umount
      \/ OpenDevice \/ Verify \/ Return \/ MountAppears \/ UserUmounts \/ UNCHANGED vars
  BY DEF Step, ImageStep
<1> QED BY <1>1 DEF Start, ChooseImage, ListDevices, ChooseDevice, Confirm, Umount,
           OpenDevice, Verify, Return, MountAppears, UserUmounts, vars

-----------------------------------------------------------------------------
(* The phases, and the image beneath them *)

LEMMA PhaseInit == ASSUME Init PROVE PhaseInv
BY DEF Init, PhaseInv, Opening, Unlisted, Unchosen, Asking, Uncopied, Running, Phases,
       I!NotOpened, OpenLanes

\* Steps that leave the image alone keep the order of the phases.
LEMMA PhaseOther ==
    ASSUME PhaseInv, Step, ~ImageStep
    PROVE  PhaseInv'
<1> USE DEF Opening, Unlisted, Unchosen, Asking, Uncopied, Running, Phases
<1>1. UNCHANGED imageVars
  BY OtherSteps
<1>2. lane' = lane /\ closing' = closing /\ end' = end /\ taken' = taken
      /\ I!NotOpened' = I!NotOpened
  BY <1>1 DEF imageVars, I!NotOpened
<1>3. CASE Start
  <2>1. /\ phase = "start" /\ (phase' = "source" \/ phase' = "returned")
        /\ (phase' = "source" => result' = result)
        /\ UNCHANGED <<choiceVars, tableVars, written, copyErr>>
    BY <1>3 DEF Start, Fail
  <2> QED BY <1>2, <2>1 DEF PhaseInv, choiceVars, tableVars, I!NotOpened
<1>11. CASE ChooseImage
  <2>1. /\ phase = "source"
        /\ (phase' = "opening" \/ phase' = "returned")
        /\ (phase' = "opening" => result' = result)
        /\ UNCHANGED <<listed, devices, answer, target, tableVars, written, copyErr>>
    BY <1>11 DEF ChooseImage, Fail
  <2> QED BY <1>2, <2>1 DEF PhaseInv, tableVars, I!NotOpened
<1>4. CASE ListDevices
  BY <1>2, <1>4 DEF ListDevices, PhaseInv, Leave, choiceVars, tableVars
<1>5. CASE ChooseDevice
  BY <1>2, <1>5 DEF ChooseDevice, Select, PhaseInv, Leave, choiceVars, tableVars
<1>6. CASE Confirm
  BY <1>2, <1>6 DEF Confirm, PhaseInv, Leave, choiceVars, tableVars
<1>7. CASE Umount \/ OpenDevice
  BY <1>2, <1>7 DEF Umount, OpenDevice, PhaseInv, Leave, choiceVars, tableVars
<1>8. CASE Verify \/ Return
  BY <1>2, <1>8 DEF Verify, Return, PhaseInv, Leave, choiceVars, tableVars
<1>9. CASE MountAppears \/ UserUmounts
  BY <1>2, <1>9 DEF MountAppears, UserUmounts, Matters, PhaseInv, choiceVars
<1>10. CASE UNCHANGED vars
  BY <1>2, <1>10 DEF vars, choiceVars, tableVars, PhaseInv
<1> QED BY <1>3, <1>4, <1>5, <1>6, <1>7, <1>8, <1>9, <1>10, <1>11, OtherSteps

\* So do the steps that open, read and close it.
LEMMA PhaseImage ==
    ASSUME PhaseInv, ImageInv, ImageStep
    PROVE  PhaseInv'
<1> USE DEF Opening, Unlisted, Unchosen, Asking, Uncopied, Running, Phases, OpenLanes
<1>1. CASE FindImage
  BY <1>1 DEF FindImage, Fail, PhaseInv, choiceVars, tableVars, I!NotOpened
<1>2. CASE OpenImage
  BY <1>2, OpenEffect DEF OpenImage, Fail, PhaseInv, choiceVars, tableVars, I!NotOpened
<1>3. CASE CopyUnit \/ CopyEnds
  <2>1. lane' = lane /\ closing' = closing /\ taken' \in {taken, taken + 1}
        /\ phase = "flashing" /\ phase' \in {"flashing", "closing"}
        /\ (phase' = "flashing" => end' = end /\ copyErr' = copyErr)
        /\ UNCHANGED <<choiceVars, tableVars, result>>
    BY <1>3 DEF CopyUnit, CopyEnds, I!ReadUnit, I!ReadEnds, I!imageVars, imageVars
  <2> QED BY <2>1 DEF PhaseInv, choiceVars, tableVars
<1>4. CASE CloseImage
  BY <1>4 DEF CloseImage, I!Close, PhaseInv, choiceVars, tableVars, ImageInv
<1>5. CASE WaitForDecompressor
  BY <1>5 DEF WaitForDecompressor, I!Wait, PhaseInv, choiceVars, tableVars, I!NotOpened
<1>6. CASE Decompress \/ DecompressorKilled
  BY <1>6 DEF Decompress, DecompressorKilled, I!Decompressor, I!ChildWrites, I!ChildEnds,
              I!ChildKilled, PhaseInv, choiceVars, tableVars, I!NotOpened
<1> QED BY <1>1, <1>2, <1>3, <1>4, <1>5, <1>6 DEF ImageStep

LEMMA Sizes ==
    /\ PipeSize \in Nat /\ 0 \in 0..PipeSize
    /\ \A a \in I!Archives : a.size \in Nat /\ a.good \in Nat
    /\ NoArchive \in I!Archives
BY SessionAssumption DEF I!Archives, NoArchive

LEMMA ImageInit == ASSUME Init PROVE ImageInv
<1>1. I!NotOpened /\ archive \in I!Archives
  BY Sizes DEF Init
<1>2. I!ImageTypeOK
  BY <1>1, Sizes DEF I!NotOpened, I!ImageTypeOK
<1> QED BY <1>1, <1>2 DEF I!NotOpened, ImageInv

LEMMA FilesFound ==
    ASSUME dir \in Directories, NEW name, NEW f \in FilesNamed(name)
    PROVE  f \in Files
<1>1. dir.here \in Seq(Files)
  BY SessionAssumption
<1> QED BY <1>1 DEF FilesNamed, Range

\* The image only changes in these ways.
LEMMA ImageKept ==
    ASSUME PhaseInv, ImageInv, ChoiceInv, Step
    PROVE  ImageInv'
<1> USE Sizes DEF I!ImageTypeOK, I!childVars
<1>1. CASE ~ImageStep
  <2>1. UNCHANGED imageVars
    BY <1>1, OtherSteps
  <2> QED BY <2>1 DEF ImageInv, imageVars
<1>2. CASE FindImage
  <2>1. archive' \in I!Archives
    <3>1. CASE archive' = archive
      BY <3>1 DEF ImageInv
    <3>2. CASE FilesNamed(chosen) # {} /\ archive' = (CHOOSE f \in FilesNamed(chosen) : TRUE).archive
      <4>1. (CHOOSE f \in FilesNamed(chosen) : TRUE) \in Files
        BY <3>2, FilesFound DEF ChoiceInv
      <4> QED BY <3>2, <4>1 DEF Files
    <3> QED BY <1>2, <3>1, <3>2 DEF FindImage
  <2> QED BY <1>2, <2>1 DEF FindImage, ImageInv, PhaseInv, Opening, I!NotOpened
<1>3. CASE OpenImage
  BY <1>3, OpenEffect DEF OpenImage, ImageInv, PhaseInv, Opening, I!NotOpened, OpenLanes
<1>4. CASE CopyUnit
  <2>1. end = "none"
    BY <1>4 DEF CopyUnit, PhaseInv, Running
  <2> QED BY <1>4, <2>1 DEF CopyUnit, ImageInv, I!ReadUnit, I!Ready
<1>5. CASE CopyEnds
  BY <1>5 DEF CopyEnds, ImageInv, I!ReadEnds, I!AtEnd, imageVars
<1>6. CASE CloseImage
  BY <1>6 DEF CloseImage, ImageInv, I!Close, I!ClosesPipe, I!MustWait
<1>7. CASE WaitForDecompressor
  BY <1>7 DEF WaitForDecompressor, ImageInv, I!Wait
<1>8. CASE Decompress
  BY <1>8 DEF Decompress, ImageInv, I!Decompressor, I!ChildWrites, I!ChildEnds
<1>9. CASE DecompressorKilled
  BY <1>9 DEF DecompressorKilled, ImageInv, I!ChildKilled
<1> QED BY <1>1, <1>2, <1>3, <1>4, <1>5, <1>6, <1>7, <1>8, <1>9 DEF ImageStep

-----------------------------------------------------------------------------
(* What is written *)

LEMMA WholeInit == ASSUME Init PROVE WholeInv
<1>1. written = 0 /\ taken = 0 /\ phase = "start" /\ result = "none"
  BY DEF Init, I!NotOpened
<1>2. copyErr \in BOOLEAN
  BY DEF Init
<1> QED BY <1>1, <1>2 DEF WholeInv

\* The steps that come before the copy, or end the session, write nothing: where
\* they set a result it is not "ok", and where they set none it stays.
LEMMA Unwritten ==
    ASSUME Step, ~(CopyUnit \/ CopyEnds \/ Verify)
    PROVE  /\ UNCHANGED <<written, copyErr, taken, end>>
           /\ \/ result' = result /\ (phase' # phase => phase' # "closing")
                 /\ (phase' = "closed" => phase \in {"closing", "closed"})
              \/ result' \in {"failed", "panicked"}
              \/ OpenDevice
           /\ phase' = "flashing" => phase = "flashing" \/ OpenDevice
<1>1. CASE Start \/ FindImage
  BY <1>1 DEF Start, FindImage, Fail, imageVars, tableVars
<1>2. CASE ChooseImage
  BY <1>2 DEF ChooseImage, Fail, imageVars
<1>3. CASE OpenImage
  BY <1>3, OpenEffect DEF OpenImage, Fail
<1>4. CASE ListDevices \/ ChooseDevice \/ Confirm \/ Umount
  BY <1>4 DEF ListDevices, ChooseDevice, Select, Confirm, Umount, Leave, imageVars
<1>5. CASE OpenDevice
  BY <1>5 DEF OpenDevice, imageVars
<1>6. CASE CloseImage
  BY <1>6 DEF CloseImage, I!Close
<1>7. CASE WaitForDecompressor \/ Decompress \/ DecompressorKilled
  BY <1>7 DEF WaitForDecompressor, Decompress, DecompressorKilled, I!Wait,
              I!Decompressor, I!ChildWrites, I!ChildEnds, I!ChildKilled
<1>8. CASE Return \/ MountAppears \/ UserUmounts
  BY <1>8 DEF Return, MountAppears, UserUmounts, Matters, imageVars
<1>9. CASE UNCHANGED vars
  BY <1>9 DEF vars, imageVars
<1> QED BY <1>1, <1>2, <1>3, <1>4, <1>5, <1>6, <1>7, <1>8, <1>9 DEF Step

LEMMA CopyFails ==
    ASSUME copyErr' = TRUE, phase' = "closing", result' = "none",
           written' \in Nat, written' <= taken'
    PROVE  WholeInv'
<1>1. copyErr' /\ copyErr' \in BOOLEAN
  OBVIOUS
<1>2. phase' # "flashing" /\ result' \in {"none", "ok", "failed", "panicked"}
  OBVIOUS
<1> QED BY <1>1, <1>2, Zenon DEF WholeInv

LEMMA WholeKept ==
    ASSUME PhaseInv, ImageInv, WholeInv, Step
    PROVE  WholeInv'
<1>1. taken \in Nat
  BY DEF ImageInv, I!ImageTypeOK
<1>2. CASE CopyUnit
  <2>1. phase = "flashing" /\ taken' = taken + 1 /\ end' = end /\ result' = "none"
    BY <1>2 DEF CopyUnit, I!ReadUnit, PhaseInv, Running
  <2>2. \/ written' = written + 1 /\ phase' = phase /\ copyErr' = copyErr
        \/ phase' = "closing" /\ copyErr' = TRUE /\ written' = written
    BY <1>2 DEF CopyUnit
  <2>3. CASE written' = written + 1 /\ phase' = phase /\ copyErr' = copyErr
    BY <1>1, <2>1, <2>3 DEF WholeInv
  <2>4. CASE phase' = "closing" /\ copyErr' = TRUE /\ written' = written
    <3>1. written' \in Nat /\ written' <= taken'
      BY <1>1, <2>1, <2>4 DEF WholeInv
    <3> QED BY <2>1, <2>4, <3>1, CopyFails
  <2> QED BY <2>2, <2>3, <2>4
<1>3. CASE CopyEnds
  <2>1. phase = "flashing" /\ phase' = "closing" /\ result' = "none"
        /\ taken' = taken /\ written' = written
    BY <1>3 DEF CopyEnds, I!ReadEnds, imageVars, PhaseInv, Running
  <2>2. CASE copyErr' = TRUE
    BY <2>1, <2>2, CopyFails DEF WholeInv
  <2>3. CASE copyErr' = FALSE
    <3>1. end' = "eof"
      BY <1>3, <2>3 DEF CopyEnds, I!ReadEnds
    <3> QED BY <1>1, <2>1, <2>3, <3>1 DEF WholeInv
  <2>4. copyErr' \in BOOLEAN
    BY <1>3 DEF CopyEnds
  <2> QED BY <2>2, <2>3, <2>4
<1>4. CASE Verify
  BY <1>4 DEF Verify, Leave, imageVars, WholeInv
<1>5. CASE OpenDevice
  <2>1. taken = 0 /\ written = 0 /\ result = "none"
    BY <1>5 DEF OpenDevice, PhaseInv, Uncopied, Running
  <2> QED BY <1>5, <2>1 DEF OpenDevice, imageVars, WholeInv
<1>6. CASE ~(CopyUnit \/ CopyEnds \/ Verify \/ OpenDevice)
  <2>1. UNCHANGED <<written, copyErr, taken, end>>
    BY <1>6, Unwritten
  <2>2. phase' = "flashing" => phase = "flashing"
    BY <1>6, Unwritten
  <2>3. \/ result' = result /\ (phase' = "closing" => phase = "closing")
           /\ (phase' = "closed" => phase \in {"closing", "closed"})
        \/ result' \in {"failed", "panicked"}
    BY <1>6, Unwritten
  <2> QED BY <2>1, <2>2, <2>3 DEF WholeInv
<1> QED BY <1>2, <1>3, <1>4, <1>5, <1>6

-----------------------------------------------------------------------------
(* What a listing says *)

\* The first entry of a node in the table.
FirstOf(node, table) ==
    CHOOSE i \in Entries(node, table) : \A j \in Entries(node, table) : i <= j

\* The point found for a node is that of its first entry.
LEMMA FindIs ==
    ASSUME NEW table \in Seq(MountEntries), NEW node, Entries(node, table) # {}
    PROVE  /\ FirstOf(node, table) \in DOMAIN table
           /\ Matches(table[FirstOf(node, table)], node)
           /\ \A j \in 1..(FirstOf(node, table) - 1) : ~Matches(table[j], node)
           /\ Find(node, table) = table[FirstOf(node, table)].point
<1> DEFINE S == Entries(node, table)
           first == FirstOf(node, table)
<1>1. S \in SUBSET Nat
  BY DEF Entries
<1>2. PICK m \in S : \A i \in S : m <= i
  BY <1>1, Smallest
<1>3. first \in S /\ \A j \in S : first <= j
  BY <1>2 DEF FirstOf
<1>4. first \in 1..Len(table) /\ Len(table) \in Nat /\ Matches(table[first], node)
  BY <1>3 DEF Entries
<1>5. ASSUME NEW j \in 1..(first - 1), Matches(table[j], node) PROVE FALSE
  <2>1. j \in DOMAIN table /\ j < first /\ j \in Nat /\ first \in Nat
    BY <1>4
  <2>2. j \in S
    BY <1>5, <2>1 DEF Entries
  <2> QED BY <1>3, <2>1, <2>2
<1>6. Find(node, table) = table[first].point
  BY DEF Find, FirstOf
<1> QED BY <1>4, <1>5, <1>6

\* The places of the nodes that are in the table, and what a listing finds of them.
Mounted(nodes, table) == {i \in DOMAIN nodes : Entries(nodes[i], table) # {}}

NodeAt(k, nodes, table) == nodes[InOrder(Mounted(nodes, table))[k]]

FoundIn(nodes, table) ==
    {table[i] : i \in {k \in DOMAIN table : \E node \in Range(nodes) :
        Matches(table[k], node) /\ \A j \in 1..(k - 1) : ~Matches(table[j], node)}}

\* A listing has a point for each of the nodes that are in the table, and no others.
LEMMA PointsAre ==
    ASSUME NEW table \in Seq(MountEntries), NEW nodes \in Seq(Nodes)
    PROVE  /\ PointsOf(nodes, table) \in Seq(Points(table))
           /\ \A k \in DOMAIN PointsOf(nodes, table) :
                 /\ InOrder(Mounted(nodes, table))[k] \in Mounted(nodes, table)
                 /\ PointsOf(nodes, table)[k] = Find(NodeAt(k, nodes, table), table)
           /\ \A i \in Mounted(nodes, table) : \E k \in DOMAIN PointsOf(nodes, table) :
                 InOrder(Mounted(nodes, table))[k] = i
           /\ \A k, l \in DOMAIN PointsOf(nodes, table) :
                 InOrder(Mounted(nodes, table))[k] = InOrder(Mounted(nodes, table))[l] => k = l
<1> DEFINE places == Mounted(nodes, table)
           mounted == At(nodes, places)
           points == PointsOf(nodes, table)
           n == Cardinality(places)
           order == InOrder(places)
<1>1. places \in SUBSET DOMAIN nodes /\ DOMAIN nodes \subseteq Nat
  BY DEF Mounted
<1>2. /\ IsFiniteSet(places) /\ n \in Nat /\ mounted \in Seq(Nodes) /\ Len(mounted) = n
      /\ \A k \in 1..n : order[k] \in places /\ mounted[k] = nodes[order[k]]
  BY <1>1, AtIs
<1>3. /\ \A i, j \in 1..n : i < j => order[i] < order[j]
      /\ \A m \in places : \E i \in 1..n : order[i] = m
  BY <1>1, <1>2, InOrderIs
<1>4. points = [k \in 1..n |-> Find(mounted[k], table)]
  <2>1. DOMAIN mounted = 1..n
    BY <1>2
  <2>2. points = [k \in DOMAIN mounted |-> Find(mounted[k], table)]
    BY DEF PointsOf, Mounted
  <2> QED BY <2>1, <2>2
<1> HIDE DEF mounted, points, n
<1>5. ASSUME NEW k \in 1..n PROVE points[k] \in Points(table)
  <2>1. mounted[k] = nodes[order[k]] /\ Entries(nodes[order[k]], table) # {}
    BY <1>2 DEF Mounted
  <2>2. Find(mounted[k], table) \in Points(table)
    BY <2>1, FindIs DEF Points
  <2> QED BY <1>4, <2>2
<1>6. points \in Seq(Points(table)) /\ DOMAIN points = 1..n
  BY <1>2, <1>4, <1>5
<1>7. ASSUME NEW k \in 1..n, NEW l \in 1..n, order[k] = order[l] PROVE k = l
  <2>1. order[k] \in Nat
    BY <1>1, <1>2
  <2>2. ~(k < l) /\ ~(l < k)
    BY <1>3, <1>7, <2>1
  <2> QED BY <1>2, <2>2
<1>8. ASSUME NEW k \in 1..n
      PROVE  order[k] \in places /\ points[k] = Find(NodeAt(k, nodes, table), table)
  BY <1>2, <1>4 DEF NodeAt
<1> QED BY <1>3, <1>6, <1>7, <1>8 DEF points

\* At each point a listing finds no more mounts than it unmounts there, and as many
\* if no node is listed twice.
LEMMA FoundCounted ==
    ASSUME NEW table \in Seq(MountEntries), NEW nodes \in Seq(Nodes), NEW p,
           \A e \in Range(table), node \in Range(nodes) : Matches(e, node) => e.node = node
    PROVE  LET there == {k \in DOMAIN PointsOf(nodes, table) : PointsOf(nodes, table)[k] = p}
               found == {f \in FoundIn(nodes, table) : f.point = p} IN
           /\ IsFiniteSet(there) /\ IsFiniteSet(found)
           /\ Cardinality(found) <= Cardinality(there)
           /\ there # {} => found # {}
           /\ IsInjective(nodes) => Cardinality(found) = Cardinality(there)
<1> DEFINE points == PointsOf(nodes, table)
           order == InOrder(Mounted(nodes, table))
           node(k) == nodes[order[k]]
           there == {k \in DOMAIN points : points[k] = p}
           found == {f \in FoundIn(nodes, table) : f.point = p}
           g == [k \in there |-> table[FirstOf(node(k), table)]]
<1>1. /\ points \in Seq(Points(table))
      /\ \A k \in DOMAIN points : order[k] \in Mounted(nodes, table)
                                /\ points[k] = Find(node(k), table)
      /\ \A i \in Mounted(nodes, table) : \E k \in DOMAIN points : order[k] = i
      /\ \A k, l \in DOMAIN points : order[k] = order[l] => k = l
  BY PointsAre DEF NodeAt
<1> HIDE DEF points, order
<1>2. IsFiniteSet(there)
  <2>1. Len(points) \in Nat /\ DOMAIN points = 1..Len(points)
    BY <1>1
  <2>2. IsFiniteSet(1..Len(points))
    BY <2>1, FS_Interval
  <2> QED BY <2>1, <2>2, FS_Subset
<1>3. ASSUME NEW k \in there
      PROVE  /\ order[k] \in DOMAIN nodes /\ node(k) \in Range(nodes)
             /\ g[k] \in found /\ g[k] \in Range(table) /\ Matches(g[k], node(k))
  <2>1. order[k] \in DOMAIN nodes /\ Entries(node(k), table) # {}
    BY <1>1 DEF Mounted
  <2>2. /\ FirstOf(node(k), table) \in DOMAIN table
        /\ Matches(table[FirstOf(node(k), table)], node(k))
        /\ \A j \in 1..(FirstOf(node(k), table) - 1) : ~Matches(table[j], node(k))
        /\ Find(node(k), table) = table[FirstOf(node(k), table)].point
    BY <2>1, FindIs
  <2>3. node(k) \in Range(nodes) /\ g[k] = table[FirstOf(node(k), table)]
    BY <2>1 DEF Range
  <2>4. g[k] \in FoundIn(nodes, table)
    BY <2>2, <2>3 DEF FoundIn
  <2>5. g[k].point = p
    BY <1>1, <2>2, <2>3
  <2> QED BY <2>1, <2>2, <2>3, <2>4, <2>5 DEF Range
<1>4. ASSUME NEW f \in found PROVE \E k \in there : g[k] = f
  <2>1. PICK m \in DOMAIN table, x \in Range(nodes) :
           /\ f = table[m] /\ Matches(table[m], x)
           /\ \A j \in 1..(m - 1) : ~Matches(table[j], x)
    BY DEF FoundIn
  <2>2. PICK i \in DOMAIN nodes : nodes[i] = x
    BY DEF Range
  <2>3. m \in Entries(x, table)
    BY <2>1 DEF Entries
  <2>4. PICK k \in DOMAIN points : order[k] = i
    BY <1>1, <2>2, <2>3 DEF Mounted
  <2>5. /\ FirstOf(x, table) \in DOMAIN table /\ Matches(table[FirstOf(x, table)], x)
        /\ \A j \in 1..(FirstOf(x, table) - 1) : ~Matches(table[j], x)
        /\ Find(x, table) = table[FirstOf(x, table)].point
    BY <2>3, FindIs
  <2>6. FirstOf(x, table) = m
    <3>1. m \in 1..Len(table) /\ FirstOf(x, table) \in 1..Len(table) /\ Len(table) \in Nat
      BY <2>5
    <3>2. ~(m < FirstOf(x, table)) /\ ~(FirstOf(x, table) < m)
      BY <2>1, <2>5, <3>1
    <3> QED BY <3>1, <3>2
  <2>7. node(k) = x /\ points[k] = f.point
    BY <1>1, <2>1, <2>2, <2>4, <2>5, <2>6
  <2>8. k \in there
    BY <2>7
  <2> QED BY <2>1, <2>6, <2>7, <2>8
<1>5. g \in Surjection(there, found)
  <2>1. g \in [there -> found]
    BY <1>3
  <2> QED BY <1>4, <2>1 DEF Surjection
<1>6. IsInjective(nodes) => g \in Injection(there, found)
  <2> SUFFICES ASSUME IsInjective(nodes), NEW k \in there, NEW l \in there, g[k] = g[l]
               PROVE  k = l
    BY <1>3 DEF Injection, IsInjective
  <2>1. node(k) = node(l)
    BY <1>3
  <2>2. order[k] = order[l]
    BY <1>3, <2>1 DEF IsInjective
  <2> QED BY <1>1, <2>2
<1> HIDE DEF g
<1>7. /\ IsFiniteSet(found) /\ Cardinality(found) <= Cardinality(there)
      /\ Cardinality(found) = Cardinality(there) <=> g \in Injection(there, found)
  BY <1>2, <1>5, FS_Surjection
<1>8. there # {} => found # {}
  BY <1>3
<1> QED BY <1>2, <1>6, <1>7, <1>8 DEF points

\* The detachable disks are the removable ones of the host.
LEMMA DetachableIs ==
    ASSUME NEW ds \in Seq(Disks)
    PROVE  /\ Detachable(ds) \in Seq(Disks)
           /\ \A k \in 1..Len(Detachable(ds)) :
                 \E i \in DOMAIN ds : Detachable(ds)[k] = ds[i] /\ Removable(ds[i])
<1> DEFINE places == {i \in DOMAIN ds : Removable(ds[i])}
<1>1. places \in SUBSET DOMAIN ds
  OBVIOUS
<1>2. \A i \in places : i \in DOMAIN ds /\ Removable(ds[i])
  OBVIOUS
<1>3. Detachable(ds) = At(ds, places)
  BY DEF Detachable
<1> HIDE DEF places
<1>4. At(ds, places) \in Seq(Disks) /\ Len(At(ds, places)) = Cardinality(places)
  BY <1>1, AtIs
<1>5. \A k \in 1..Cardinality(places) :
         InOrder(places)[k] \in places /\ At(ds, places)[k] = ds[InOrder(places)[k]]
  BY <1>1, AtIs
<1> QED BY <1>2, <1>3, <1>4, <1>5

LEMMA DevicesAre ==
    ASSUME NEW ds \in Seq(Disks), NEW table \in Seq(MountEntries)
    PROVE  /\ Len(DetachableDevices(ds, table)) = Len(Detachable(ds))
           /\ Len(Detachable(ds)) \in Nat
           /\ DOMAIN DetachableDevices(ds, table) = 1..Len(Detachable(ds))
           /\ \A k \in 1..Len(Detachable(ds)) :
                 /\ Detachable(ds)[k] \in Disks
                 /\ DetachableDevices(ds, table)[k].name = NameOf(Detachable(ds)[k])
                 /\ DetachableDevices(ds, table)[k].points
                       = PointsOf(Detachable(ds)[k].nodes, table)
<1>1. Detachable(ds) \in Seq(Disks)
  BY DetachableIs
<1>2. DOMAIN Detachable(ds) = 1..Len(Detachable(ds)) /\ Len(Detachable(ds)) \in Nat
  BY <1>1
<1>3. DetachableDevices(ds, table) = [k \in 1..Len(Detachable(ds)) |->
         Device(Detachable(ds)[k], MountPoints(Detachable(ds)[k], table))]
  BY <1>2 DEF DetachableDevices
<1> QED BY <1>1, <1>2, <1>3 DEF Device, MountPoints

-----------------------------------------------------------------------------
(* What is chosen *)

LEMMA ChoiceInit == ASSUME Init PROVE ChoiceInv /\ TargetInv
<1>1. devices = << >> /\ target = 0 /\ answer = 0 /\ written = 0 /\ phase = "start"
  BY DEF Init, I!NotOpened
<1>2. session \in Sessions /\ dir \in Directories /\ disks \in DiskSets
  BY DEF Init
<1> QED BY <1>1, <1>2 DEF ChoiceInv, TargetInv, Copying

LEMMA Typed ==
    ASSUME ChoiceInv, TableInv
    PROVE  disks \in Seq(Disks) /\ listed \in Seq(MountEntries)
<1>1. disks \in Seq(Disks)
  BY SessionAssumption DEF ChoiceInv
<1>2. CASE listed = << >>
  BY <1>1, <1>2
<1>3. CASE listed \in Tables
  BY <1>1, <1>3, SessionAssumption
<1> QED BY <1>2, <1>3 DEF TableInv

LEMMA DevicesCounted ==
    ASSUME ChoiceInv, TableInv
    PROVE  Len(devices) \in Nat /\ DOMAIN devices = 1..Len(devices)
<1>1. CASE devices = << >>
  BY <1>1
<1>2. CASE devices = DetachableDevices(disks, listed)
  <2>1. disks \in Seq(Disks) /\ listed \in Seq(MountEntries)
    BY Typed
  <2> QED BY <1>2, <2>1, DevicesAre
<1> QED BY <1>1, <1>2 DEF ChoiceInv

\* The device is listed and chosen in two steps; the others only go on with it.
LEMMA OnlyCopying ==
    ASSUME Step, ~(ListDevices \/ ChooseDevice)
    PROVE  /\ UNCHANGED <<session, dir, disks, listed, devices, answer, target>>
           /\ phase' \in Copying => phase \in Copying
           /\ phase' = "choosing" => phase = "choosing"
           /\ written' > 0 => written > 0 \/ phase = "flashing"
<1> USE DEF choiceVars, Copying
<1>1. CASE Start \/ ChooseImage
  BY <1>1 DEF Start, ChooseImage, Fail
<1>2. CASE FindImage \/ OpenImage
  BY <1>2 DEF FindImage, OpenImage, Fail
<1>3. CASE Confirm \/ Umount \/ OpenDevice
  BY <1>3 DEF Confirm, Umount, OpenDevice, Leave
<1>4. CASE CopyUnit \/ CopyEnds
  BY <1>4 DEF CopyUnit, CopyEnds
<1>5. CASE CloseImage \/ Verify \/ Return
  BY <1>5 DEF CloseImage, Verify, Return, Leave
<1>6. CASE WaitForDecompressor \/ Decompress \/ DecompressorKilled
  BY <1>6 DEF WaitForDecompressor, Decompress, DecompressorKilled
<1>7. CASE MountAppears \/ UserUmounts \/ UNCHANGED vars
  BY <1>7 DEF MountAppears, UserUmounts, vars
<1> QED BY <1>1, <1>2, <1>3, <1>4, <1>5, <1>6, <1>7 DEF Step

LEMMA ChoiceKept ==
    ASSUME PhaseInv, ChoiceInv, TableInv, Step
    PROVE  ChoiceInv'
<1>1. CASE ListDevices
  <2>1. UNCHANGED <<session, dir, disks>> /\ phase = "listing" /\ listed' = mounts
        /\ \/ phase' = "leaving" /\ devices' = devices
           \/ devices' = DetachableDevices(disks, mounts)
              /\ (phase' = "choosing" => devices' # << >>)
    BY <1>1 DEF ListDevices, Leave
  <2>2. devices = << >>
    BY <2>1 DEF PhaseInv, Unlisted
  <2> QED BY <2>1, <2>2 DEF ChoiceInv
<1>2. CASE ChooseDevice
  <2>1. UNCHANGED <<session, dir, disks, devices, listed>> /\ phase' # "choosing"
    BY <1>2 DEF ChooseDevice, Select, Leave
  <2> QED BY <2>1 DEF ChoiceInv
<1>3. CASE ~(ListDevices \/ ChooseDevice)
  <2>1. UNCHANGED <<session, dir, disks, devices, listed>>
        /\ (phase' = "choosing" => phase = "choosing")
    BY <1>3, OnlyCopying
  <2> QED BY <2>1 DEF ChoiceInv
<1> QED BY <1>1, <1>2, <1>3

LEMMA TargetKept ==
    ASSUME PhaseInv, ChoiceInv, TargetInv, TableInv, Step
    PROVE  TargetInv'
<1>1. CASE ListDevices
  <2>1. phase = "listing" /\ phase' \in {"choosing", "leaving"}
        /\ UNCHANGED <<answer, target, written, disks>>
        /\ listed' = mounts
        /\ (devices' = devices \/ devices' = DetachableDevices(disks, mounts))
    BY <1>1 DEF ListDevices, Leave
  <2>2. target = 0 /\ answer = 0 /\ written = 0 /\ devices = << >>
    BY <2>1 DEF PhaseInv, Unlisted, Unchosen, Asking, Uncopied
  <2>3. Len(devices') \in Nat
    <3>1. disks \in Seq(Disks) /\ mounts \in Seq(MountEntries)
      BY SessionAssumption DEF ChoiceInv, TableInv
    <3> QED BY <2>1, <2>2, <3>1, DevicesAre
  <2> QED BY <2>1, <2>2, <2>3 DEF TargetInv, Copying
<1>2. CASE ChooseDevice
  <2>1. /\ phase = "choosing" /\ phase' \in {"confirming", "leaving"}
        /\ UNCHANGED <<session, devices, written>>
    BY <1>2 DEF ChooseDevice, Select, Leave
  <2>2. answer = 0 /\ target = 0 /\ written = 0
    BY <2>1 DEF PhaseInv, Unchosen, Asking, Uncopied
  <2>3. Len(devices) \in Nat /\ DOMAIN devices = 1..Len(devices)
    BY DevicesCounted
  <2>4. Len(devices) # 0
    <3>1. devices # << >> /\ devices = DetachableDevices(disks, listed)
      BY <2>1 DEF ChoiceInv
    <3>2. disks \in Seq(Disks) /\ listed \in Seq(MountEntries)
      BY Typed
    <3>3. devices = [i \in DOMAIN Detachable(disks) |->
            Device(Detachable(disks)[i], MountPoints(Detachable(disks)[i], listed))]
      BY <3>1 DEF DetachableDevices
    <3>4. Detachable(disks) \in Seq(Disks) /\ Len(Detachable(disks)) = Len(devices)
      BY <3>1, <3>2, DetachableIs, DevicesAre
    <3> SUFFICES ASSUME Len(devices) = 0 PROVE FALSE
      OBVIOUS
    <3> QED BY <3>1, <3>3, <3>4
  <2>5. CASE session.device # ""
    <3>1. answer' = answer
      BY <1>2, <2>5 DEF ChooseDevice
    <3>2. CASE \E i \in DOMAIN devices : devices[i].name = session.device
      <4>1. target' = CHOOSE i \in DOMAIN devices : devices[i].name = session.device
        BY <1>2, <2>5, <3>2 DEF ChooseDevice
      <4>2. target' \in DOMAIN devices /\ devices[target'].name = session.device
        BY <3>2, <4>1
      <4>3. Meant'
        BY <2>1, <2>5, <4>2 DEF Meant
      <4> QED BY <2>1, <2>2, <2>3, <3>1, <4>2, <4>3 DEF TargetInv
    <3>3. CASE ~ \E i \in DOMAIN devices : devices[i].name = session.device
      <4>1. phase' = "leaving" /\ target' = target
        BY <1>2, <2>5, <3>3 DEF ChooseDevice, Leave
      <4> QED BY <2>1, <2>2, <2>3, <3>1, <4>1 DEF TargetInv, Copying
    <3> QED BY <3>2, <3>3
  <2>6. CASE session.device = "" /\ ~session.interactive
    <3>1. answer' = answer
          /\ \/ Len(devices) = 1 /\ target' = 1
             \/ phase' = "leaving" /\ target' = target
      BY <1>2, <2>6 DEF ChooseDevice, Leave
    <3>2. Len(devices) = 1 => Meant'
      BY <2>1, <2>6 DEF Meant
    <3> QED BY <2>1, <2>2, <2>3, <3>1, <3>2 DEF TargetInv, Copying
  <2>7. CASE session.device = "" /\ session.interactive
    <3>1. PICK n \in 0..(Len(devices) + 2) :
             /\ answer' = n
             /\ \/ phase' = "leaving" /\ target' = target
                \/ n <= Len(devices) /\ target' = IF n = 0 THEN 1 ELSE n
      BY <1>2, <2>7 DEF ChooseDevice, Select, Selected, Leave
    <3>2. CASE phase' = "leaving" /\ target' = target
      BY <2>1, <2>2, <2>3, <3>1, <3>2 DEF TargetInv, Copying
    <3>3. CASE n <= Len(devices) /\ target' = IF n = 0 THEN 1 ELSE n
      <4>1. Meant'
        BY <2>1, <2>7, <3>1, <3>3 DEF Meant
      <4>2. target' \in 0..Len(devices) /\ target' # 0
        BY <2>3, <2>4, <3>3
      <4> QED BY <2>1, <2>2, <2>3, <3>1, <4>1, <4>2 DEF TargetInv
    <3> QED BY <3>1, <3>2, <3>3
  <2> QED BY <2>5, <2>6, <2>7
<1>3. CASE ~(ListDevices \/ ChooseDevice)
  <2>1. UNCHANGED <<session, devices, target, answer>>
        /\ (phase' \in Copying => phase \in Copying)
        /\ (written' > 0 => written > 0 \/ phase = "flashing")
    BY <1>3, OnlyCopying
  <2>2. Meant' = Meant
    BY <2>1 DEF Meant
  <2>3. phase' \in Copying \/ written' > 0 => phase \in Copying \/ written > 0
    BY <2>1 DEF Copying
  <2> QED BY <2>1, <2>2, <2>3 DEF TargetInv
<1> QED BY <1>1, <1>2, <1>3

-----------------------------------------------------------------------------
(* What is mounted *)

\* Removing a place from a list keeps what is at the other places, in their order.
LEMMA Removed ==
    ASSUME NEW T, NEW s \in Seq(T), NEW i \in DOMAIN s
    PROVE  /\ RemoveAt(s, i) \in Seq(T)
           /\ DOMAIN RemoveAt(s, i) = 1..(Len(s) - 1)
           /\ \A k \in 1..(Len(s) - 1) :
                 RemoveAt(s, i)[k] = IF k < i THEN s[k] ELSE s[k + 1]
<1>1. Len(s) \in Nat /\ i \in 1..Len(s)
  OBVIOUS
<1>2. SubSeq(s, 1, i - 1) \in Seq(T) /\ Len(SubSeq(s, 1, i - 1)) = i - 1
      /\ \A k \in 1..(i - 1) : SubSeq(s, 1, i - 1)[k] = s[k]
  BY <1>1
<1>3. SubSeq(s, i + 1, Len(s)) \in Seq(T) /\ Len(SubSeq(s, i + 1, Len(s))) = Len(s) - i
      /\ \A k \in 1..(Len(s) - i) : SubSeq(s, i + 1, Len(s))[k] = s[k + i]
  <2>1. i + 1 \in Int /\ Len(s) \in Int /\ \A j \in (i + 1)..Len(s) : s[j] \in T
    BY <1>1
  <2>2. /\ SubSeq(s, i + 1, Len(s)) \in Seq(T)
        /\ Len(SubSeq(s, i + 1, Len(s))) = IF i + 1 <= Len(s) THEN Len(s) - (i + 1) + 1 ELSE 0
        /\ \A k \in 1..(Len(s) - (i + 1) + 1) :
              SubSeq(s, i + 1, Len(s))[k] = s[(i + 1) + k - 1]
    BY <2>1, SubSeqProperties
  <2>3. \A k \in 1..(Len(s) - i) : k \in 1..(Len(s) - (i + 1) + 1) /\ (i + 1) + k - 1 = k + i
    BY <1>1
  <2>4. Len(SubSeq(s, i + 1, Len(s))) = Len(s) - i
    BY <1>1, <2>2
  <2> QED BY <2>2, <2>3, <2>4
<1> DEFINE front == SubSeq(s, 1, i - 1)
           back == SubSeq(s, i + 1, Len(s))
<1>4. RemoveAt(s, i) = front \o back
  BY DEF RemoveAt
<1>5. front \in Seq(T) /\ Len(front) = i - 1 /\ \A k \in 1..(i - 1) : front[k] = s[k]
  BY <1>2
<1>6. back \in Seq(T) /\ Len(back) = Len(s) - i /\ \A k \in 1..(Len(s) - i) : back[k] = s[k + i]
  BY <1>3
<1> HIDE DEF front, back
<1>7. /\ front \o back \in Seq(T) /\ Len(front \o back) = Len(s) - 1
      /\ DOMAIN (front \o back) = 1..(Len(s) - 1)
      /\ \A k \in 1..(Len(s) - 1) : (front \o back)[k] =
            IF k <= i - 1 THEN front[k] ELSE back[k - (i - 1)]
  <2>1. /\ front \o back \in Seq(T) /\ Len(front \o back) = Len(front) + Len(back)
        /\ \A k \in 1..(Len(front) + Len(back)) :
              (front \o back)[k] = IF k <= Len(front) THEN front[k] ELSE back[k - Len(front)]
    BY <1>5, <1>6, ConcatProperties
  <2>2. Len(front) = i - 1 /\ Len(front) + Len(back) = Len(s) - 1
    BY <1>1, <1>5, <1>6
  <2>3. DOMAIN (front \o back) = 1..(Len(s) - 1)
    BY <2>1, <2>2, LenProperties
  <2> QED BY <2>1, <2>2, <2>3
<1>8. ASSUME NEW k \in 1..(Len(s) - 1)
      PROVE  (front \o back)[k] = IF k < i THEN s[k] ELSE s[k + 1]
  <2>1. CASE k < i
    BY <1>1, <1>5, <1>7, <2>1
  <2>2. CASE ~(k < i)
    <3>1. k - (i - 1) \in 1..(Len(s) - i) /\ (k - (i - 1)) + i = k + 1 /\ ~(k <= i - 1)
      BY <1>1, <2>2
    <3>2. back[k - (i - 1)] = s[(k - (i - 1)) + i]
      BY <1>6, <3>1
    <3> QED BY <1>7, <2>2, <3>1, <3>2
  <2> QED BY <2>1, <2>2
<1> QED BY <1>4, <1>7, <1>8

\* So a table that has every mount once loses this one and no other.
LEMMA RemovedMount ==
    ASSUME NEW table \in Seq(MountEntries), IsInjective(table), NEW i \in DOMAIN table
    PROVE  /\ RemoveAt(table, i) \in Seq(MountEntries) /\ IsInjective(RemoveAt(table, i))
           /\ Range(RemoveAt(table, i)) = Range(table) \ {table[i]}
<1> DEFINE rest == RemoveAt(table, i)
           n == Len(table) - 1
           from(k) == IF k < i THEN k ELSE k + 1
<1>1. rest \in Seq(MountEntries) /\ DOMAIN rest = 1..n
  BY Removed
<1>2. n \in Nat /\ i \in 1..(n + 1) /\ DOMAIN table = 1..(n + 1)
  OBVIOUS
<1>3. \A k \in 1..n : from(k) \in DOMAIN table /\ from(k) # i /\ rest[k] = table[from(k)]
  <2> TAKE k \in 1..n
  <2>1. rest[k] = IF k < i THEN table[k] ELSE table[k + 1]
    BY Removed
  <2> QED BY <1>2, <2>1
<1>4. \A j, k \in 1..n : from(j) = from(k) => j = k
  BY <1>2
<1>5. \A j \in DOMAIN table : j # i => \E k \in 1..n : from(k) = j
  <2> TAKE j \in DOMAIN table
  <2> HAVE j # i
  <2>1. CASE j < i
    BY <1>2, <2>1
  <2>2. CASE j > i
    <3>1. j - 1 \in 1..n /\ ~(j - 1 < i)
      BY <1>2, <2>2
    <3>2. from(j - 1) = j
      BY <1>2, <2>2, <3>1
    <3> QED BY <3>1, <3>2
  <2> QED BY <1>2, <2>1, <2>2
<1> HIDE DEF from, rest, n
<1>6. \A e \in Range(rest) : e \in Range(table) /\ e # table[i]
  <2> TAKE e \in Range(rest)
  <2>1. PICK k \in 1..n : rest[k] = e
    BY <1>1 DEF Range
  <2>2. from(k) \in DOMAIN table /\ from(k) # i /\ e = table[from(k)]
    BY <1>3, <2>1
  <2> QED BY <2>2 DEF Range, IsInjective
<1>7. ASSUME NEW e \in Range(table), e # table[i] PROVE e \in Range(rest)
  <2>1. PICK j \in DOMAIN table : table[j] = e
    BY DEF Range
  <2>2. PICK k \in 1..n : from(k) = j
    BY <1>5, <1>7, <2>1
  <2> QED BY <1>1, <1>3, <2>1, <2>2 DEF Range
<1>8. IsInjective(rest)
  <2> SUFFICES ASSUME NEW j \in 1..n, NEW k \in 1..n, rest[j] = rest[k] PROVE j = k
    BY <1>1 DEF IsInjective
  <2>1. table[from(j)] = table[from(k)]
    BY <1>3
  <2>2. from(j) = from(k)
    BY <1>3, <2>1 DEF IsInjective
  <2> QED BY <1>4, <2>2
<1> QED BY <1>1, <1>6, <1>7, <1>8 DEF rest

\* A set of mounts that are listed or have appeared is finite.
LEMMA KnownFinite ==
    ASSUME TableInv, NEW S \in SUBSET Known
    PROVE  IsFiniteSet(S)
<1>1. listed \in Seq(MountEntries)
  <2>1. CASE listed = << >>
    BY <2>1
  <2>2. CASE listed \in Tables
    BY <2>2, SessionAssumption
  <2> QED BY <2>1, <2>2 DEF TableInv
<1>2. IsFiniteSet(Range(listed))
  <2>1. Len(listed) \in Nat /\ DOMAIN listed = 1..Len(listed)
    BY <1>1
  <2>2. IsFiniteSet(DOMAIN listed)
    BY <2>1, FS_Interval
  <2>3. listed \in Surjection(DOMAIN listed, Range(listed))
    BY <1>1 DEF Surjection, Range
  <2> QED BY <2>2, <2>3, FS_Surjection
<1>3. IsFiniteSet(Known)
  BY <1>2, FS_Union DEF Known, TableInv
<1> QED BY <1>3, FS_Subset

LEMMA TableInit == ASSUME Init PROVE TableInv
<1>1. /\ mounts \in Tables /\ listed = << >> /\ phase = "start" /\ target = 0
      /\ appeared = {} /\ vanished = {}
  BY DEF Init
<1>2. mounts \in Seq(MountEntries) /\ IsInjective(mounts)
  BY <1>1, SessionAssumption, MountsAssumption
<1> QED BY <1>1, <1>2, FS_EmptySet DEF TableInv, Looked, Known

\* The steps that leave the tables as they are.
LEMMA Untouched ==
    ASSUME Step, ~(ListDevices \/ ChooseDevice \/ Umount \/ MountAppears \/ UserUmounts)
    PROVE  /\ UNCHANGED <<mounts, appeared, vanished, listed, devices, target>>
           /\ phase' \in Unlisted => phase \in Unlisted
           /\ phase' \in {"choosing", "confirming"} => phase' = phase
<1> USE DEF choiceVars, tableVars, worldVars, Opening, Unlisted
<1>1. CASE Start \/ ChooseImage
  BY <1>1 DEF Start, ChooseImage, Fail
<1>2. CASE FindImage \/ OpenImage
  BY <1>2 DEF FindImage, OpenImage, Fail
<1>4. CASE Confirm \/ OpenDevice
  BY <1>4 DEF Confirm, OpenDevice, Leave
<1>5. CASE CopyUnit \/ CopyEnds
  BY <1>5 DEF CopyUnit, CopyEnds
<1>6. CASE CloseImage \/ Verify \/ Return
  BY <1>6 DEF CloseImage, Verify, Return, Leave
<1>7. CASE WaitForDecompressor \/ Decompress \/ DecompressorKilled
  BY <1>7 DEF WaitForDecompressor, Decompress, DecompressorKilled
<1>8. CASE UNCHANGED vars
  BY <1>8 DEF vars
<1> QED BY <1>1, <1>2, <1>4, <1>5, <1>6, <1>7, <1>8 DEF Step

\* Umount takes one mount away, at the point that was next.
LEMMA UmountEffect ==
    ASSUME Umount
    PROVE  /\ phase = "umounting" /\ toUmount # << >>
           /\ UNCHANGED <<disks, listed, devices, target, appeared, vanished>>
           /\ \/ /\ phase' = phase /\ toUmount' = Tail(toUmount)
                 /\ \E i \in DOMAIN mounts :
                       mounts[i].point = Head(toUmount) /\ mounts' = RemoveAt(mounts, i)
              \/ phase' = "leaving" /\ mounts' = mounts /\ toUmount' = toUmount
BY DEF Umount, Leave, choiceVars, worldVars

\* A mount that is taken away by Flash is one more that it has taken.
LEMMA OneTaken ==
    ASSUME TableInv, Looked, NEW i \in DOMAIN mounts, mounts' = RemoveAt(mounts, i),
           UNCHANGED <<listed, appeared, vanished>>
    PROVE  mounts[i] \notin Taken /\ Taken' = Taken \cup {mounts[i]}
<1>1. Range(mounts') = Range(mounts) \ {mounts[i]}
  BY RemovedMount DEF TableInv
<1>2. mounts[i] \in Range(mounts)
  BY DEF Range
<1>3. Range(listed)' = Range(listed)
  OBVIOUS
<1> QED BY <1>1, <1>2, <1>3 DEF TableInv, Taken, Known

\* What the world mounts and unmounts, Flash has not taken.
LEMMA WorldTakesNone ==
    ASSUME TableInv, TargetInv, MountAppears \/ UserUmounts
    PROVE  Taken' = Taken /\ Looked
<1>1. Looked
  BY DEF MountAppears, UserUmounts, Matters, TargetInv, Copying, Looked
<1>2. CASE MountAppears
  <2>1. PICK e \in LaterMounts : mounts' = Append(mounts, e) /\ appeared' = {e}
    BY <1>2 DEF MountAppears
  <2>2. appeared = {} /\ UNCHANGED <<listed, vanished>>
    BY <1>2 DEF MountAppears, choiceVars
  <2>3. Range(mounts') = Range(mounts) \cup {e}
    <3>1. mounts \in Seq(MountEntries) /\ Len(mounts) \in Nat
      BY DEF TableInv
    <3>2. /\ DOMAIN mounts' = 1..(Len(mounts) + 1)
          /\ \A k \in DOMAIN mounts : mounts'[k] = mounts[k]
          /\ mounts'[Len(mounts) + 1] = e
      BY <2>1, <3>1
    <3>3. ASSUME NEW x \in Range(mounts') PROVE x \in Range(mounts) \cup {e}
      <4>1. PICK k \in 1..(Len(mounts) + 1) : mounts'[k] = x
        BY <3>2 DEF Range
      <4>2. k \in DOMAIN mounts \/ k = Len(mounts) + 1
        BY <3>1
      <4> QED BY <3>2, <4>1, <4>2 DEF Range
    <3>4. ASSUME NEW x \in Range(mounts) PROVE x \in Range(mounts')
      <4>1. PICK k \in DOMAIN mounts : mounts[k] = x
        BY DEF Range
      <4>2. k \in DOMAIN mounts'
        BY <3>1, <3>2
      <4> QED BY <3>2, <4>1, <4>2 DEF Range
    <3>5. e \in Range(mounts')
      <4>1. Len(mounts) + 1 \in DOMAIN mounts'
        BY <3>1, <3>2
      <4> QED BY <3>2, <4>1 DEF Range
    <3> QED BY <3>3, <3>4, <3>5
  <2>4. e \notin Range(listed)
    BY MountsAssumption DEF TableInv, Range
  <2>5. e \notin Taken
    BY <2>2, <2>4 DEF Taken
  <2> QED BY <1>1, <2>1, <2>2, <2>3, <2>5 DEF Taken
<1>3. CASE UserUmounts
  <2>1. PICK i \in DOMAIN mounts : mounts' = RemoveAt(mounts, i) /\ vanished' = {mounts[i]}
    BY <1>3 DEF UserUmounts
  <2>2. vanished = {} /\ UNCHANGED <<listed, appeared>>
    BY <1>3 DEF UserUmounts, choiceVars
  <2>3. Range(mounts') = Range(mounts) \ {mounts[i]}
    BY <2>1, RemovedMount DEF TableInv
  <2>4. mounts[i] \in Range(mounts)
    BY DEF Range
  <2> QED BY <1>1, <2>1, <2>2, <2>3, <2>4 DEF Taken
<1> QED BY <1>1, <1>2, <1>3

LEMMA TableKept ==
    ASSUME PhaseInv, TargetInv, TableInv, Step
    PROVE  TableInv'
<1>0. mounts \in Seq(MountEntries) /\ IsInjective(mounts)
  BY DEF TableInv
<1> USE DEF Unlisted, Opening
<1>1. CASE ListDevices
  <2>1. /\ phase = "listing" /\ phase' \in {"choosing", "leaving"} /\ listed' = mounts
        /\ UNCHANGED <<mounts, appeared, vanished, target>>
    BY <1>1 DEF ListDevices, Leave, tableVars
  <2>2. mounts \in Tables /\ appeared = {} /\ vanished = {}
    BY <2>1 DEF TableInv, PhaseInv
  <2>3. Range(listed)' = Range(mounts)
    BY <2>1
  <2>4. Taken' = {}
    BY <2>1, <2>2, <2>3 DEF Taken
  <2> QED BY <1>0, <2>1, <2>2, <2>3, <2>4, FS_EmptySet DEF TableInv, Looked, Known
<1>2. CASE ChooseDevice
  <2>1. /\ phase = "choosing" /\ phase' \in {"confirming", "leaving"}
        /\ UNCHANGED <<mounts, appeared, vanished, listed>>
    BY <1>2 DEF ChooseDevice, Select, Leave, tableVars
  <2>2. Taken' = Taken /\ Known' = Known
    BY <2>1 DEF Taken, Known
  <2> QED BY <2>1, <2>2 DEF TableInv, Looked
<1>3. CASE Umount
  <2>1. /\ UNCHANGED <<listed, appeared, vanished, target>>
        /\ phase = "umounting" /\ phase' \in {"umounting", "leaving"}
    BY <1>3, UmountEffect
  <2>2. Known' = Known
    BY <2>1 DEF Known
  <2>3. Looked
    BY <2>1 DEF TargetInv, Copying, Looked
  <2>4. /\ mounts' \in Seq(MountEntries) /\ IsInjective(mounts')
        /\ Range(mounts') \subseteq Range(mounts)
    <3>1. CASE mounts' = mounts
      BY <1>0, <3>1
    <3>2. CASE \E i \in DOMAIN mounts : mounts' = RemoveAt(mounts, i)
      BY <1>0, <3>2, RemovedMount
    <3> QED BY <1>3, <3>1, <3>2, UmountEffect
  <2> QED BY <2>1, <2>2, <2>3, <2>4 DEF TableInv
<1>4. CASE MountAppears
  <2>1. UNCHANGED <<listed, phase, target, vanished>> /\ phase \notin Unlisted /\ appeared = {}
    BY <1>4 DEF MountAppears, Matters, choiceVars
  <2>2. PICK e \in LaterMounts : mounts' = Append(mounts, e) /\ appeared' = {e}
    BY <1>4 DEF MountAppears
  <2>3. Taken' = Taken /\ Looked
    BY <1>4, WorldTakesNone
  <2>4. e \notin Range(listed) /\ e \in MountEntries
    BY SessionAssumption, MountsAssumption DEF TableInv, Range
  <2>5. e \notin Range(mounts) /\ e \notin vanished /\ Range(mounts) \subseteq Range(listed)
    BY <2>1, <2>3, <2>4 DEF TableInv, Known
  <2>6. /\ mounts' \in Seq(MountEntries) /\ Len(mounts) \in Nat
        /\ DOMAIN mounts = 1..Len(mounts) /\ DOMAIN mounts' = 1..(Len(mounts) + 1)
        /\ \A k \in 1..Len(mounts) : mounts'[k] = mounts[k]
        /\ mounts'[Len(mounts) + 1] = e
    BY <1>0, <2>2, <2>4
  <2>7. \A k \in 1..(Len(mounts) + 1) : k \in 1..Len(mounts) \/ k = Len(mounts) + 1
    BY <2>6
  <2>8. \A k \in 1..Len(mounts) : mounts[k] \in Range(mounts)
    BY <2>6 DEF Range
  <2>9. IsInjective(mounts')
    BY <1>0, <2>5, <2>6, <2>7, <2>8 DEF IsInjective
  <2>10. Range(mounts') \subseteq Range(mounts) \cup {e}
    <3> SUFFICES ASSUME NEW k \in DOMAIN mounts' PROVE mounts'[k] \in Range(mounts) \cup {e}
      BY DEF Range
    <3> QED BY <2>6, <2>7, <2>8
  <2>11. Known' = Range(listed) \cup {e}
    BY <2>1, <2>2 DEF Known
  <2>12. IsFiniteSet({e})
    BY FS_Singleton
  <2>13. vanished \subseteq Range(listed)
    BY <2>1 DEF TableInv, Known
  <2> QED BY <2>1, <2>2, <2>3, <2>5, <2>6, <2>9, <2>10, <2>11, <2>12, <2>13
          DEF TableInv
<1>5. CASE UserUmounts
  <2>1. UNCHANGED <<listed, phase, target, appeared>> /\ phase \notin Unlisted
    BY <1>5 DEF UserUmounts, Matters, choiceVars
  <2>2. PICK i \in DOMAIN mounts : mounts' = RemoveAt(mounts, i) /\ vanished' = {mounts[i]}
    BY <1>5 DEF UserUmounts
  <2>3. Taken' = Taken /\ Looked
    BY <1>5, WorldTakesNone
  <2>4. /\ mounts' \in Seq(MountEntries) /\ IsInjective(mounts')
        /\ Range(mounts') = Range(mounts) \ {mounts[i]}
    BY <1>0, <2>2, RemovedMount
  <2>5. mounts[i] \in Known
    BY <2>3 DEF TableInv, Range
  <2>6. Known' = Known
    BY <2>1 DEF Known
  <2> QED BY <2>1, <2>2, <2>3, <2>4, <2>5, <2>6 DEF TableInv
<1>6. CASE ~(ListDevices \/ ChooseDevice \/ Umount \/ MountAppears \/ UserUmounts)
  <2>1. /\ UNCHANGED <<mounts, appeared, vanished, listed, target>>
        /\ phase' \in Unlisted => phase \in Unlisted
        /\ phase' \in {"choosing", "confirming"} => phase' = phase
    BY <1>6, Untouched
  <2>2. Taken' = Taken /\ Known' = Known /\ (Looked' => Looked)
    BY <2>1 DEF Taken, Known, Looked
  <2> QED BY <2>1, <2>2 DEF TableInv
<1> QED BY <1>1, <1>2, <1>3, <1>4, <1>5, <1>6

-----------------------------------------------------------------------------
(* The target, and what is unmounted *)

\* The target is a removable disk of the host, the only one of its name, and its
\* mount points are those of the listing.
LEMMA TargetIs ==
    ASSUME ChoiceInv, TargetInv, TableInv, target # 0
    PROVE  LET disk == DiskOf(devices[target].name) IN
           /\ disk \in Range(disks) /\ disk \in Disks /\ Removable(disk)
           /\ listed \in Seq(MountEntries)
           /\ devices[target].points = PointsOf(disk.nodes, listed)
           /\ devices = DetachableDevices(disks, listed)
           /\ target \in 1..Len(Detachable(disks)) /\ Len(devices) = Len(Detachable(disks))
           /\ devices[target].name = NameOf(Detachable(disks)[target])
<1> DEFINE disk == DiskOf(devices[target].name)
           it == Detachable(disks)[target]
<1>1. disks \in Seq(Disks) /\ listed \in Seq(MountEntries)
  BY Typed
<1>2. devices = DetachableDevices(disks, listed)
  <2>1. devices # << >>
    BY DEF TargetInv
  <2> QED BY <2>1 DEF ChoiceInv
<1>3. Len(devices) = Len(Detachable(disks)) /\ Len(devices) \in Nat
  BY <1>1, <1>2, DevicesAre
<1>4. target \in 1..Len(Detachable(disks))
  BY <1>3 DEF TargetInv
<1>5. /\ it \in Disks /\ devices[target].name = NameOf(it)
      /\ devices[target].points = PointsOf(it.nodes, listed)
  BY <1>1, <1>2, <1>4, DevicesAre
<1>6. PICK i \in DOMAIN disks : it = disks[i] /\ Removable(disks[i])
  BY <1>1, <1>4, DetachableIs
<1>7. it \in Range(disks) /\ NameOf(it) = devices[target].name
  BY <1>5, <1>6 DEF Range
<1>8. disk \in Range(disks) /\ NameOf(disk) = devices[target].name
  BY <1>7 DEF DiskOf
<1>9. disk = it
  <2>1. PICK j \in DOMAIN disks : disk = disks[j]
    BY <1>8 DEF Range
  <2>2. NameOf(disks[i]) = NameOf(disks[j])
    BY <1>6, <1>7, <1>8, <2>1
  <2>3. disks \in DiskSets
    BY DEF ChoiceInv
  <2>4. i = j
    BY <2>2, <2>3, NamesAssumption
  <2> QED BY <1>6, <2>1, <2>4
<1> HIDE DEF disk, it
<1>10. /\ disk \in Range(disks) /\ disk \in Disks /\ Removable(disk)
       /\ devices[target].points = PointsOf(disk.nodes, listed)
       /\ devices[target].name = NameOf(it)
  BY <1>5, <1>6, <1>8, <1>9
<1> QED BY <1>1, <1>2, <1>3, <1>4, <1>10 DEF disk, it

LEMMA DevicePointsTyped ==
    ASSUME ChoiceInv, TableInv
    PROVE  \A i \in DOMAIN devices :
              devices[i].points \in Seq(Points(listed)) /\ Len(devices[i].points) \in Nat
<1>1. CASE devices = << >>
  BY <1>1
<1>2. CASE devices = DetachableDevices(disks, listed)
  <2>1. disks \in Seq(Disks) /\ listed \in Seq(MountEntries)
    BY Typed
  <2>2. DOMAIN devices = 1..Len(Detachable(disks))
        /\ \A k \in 1..Len(Detachable(disks)) :
              Detachable(disks)[k] \in Disks
              /\ devices[k].points = PointsOf(Detachable(disks)[k].nodes, listed)
    BY <1>2, <2>1, DevicesAre
  <2>3. \A k \in 1..Len(Detachable(disks)) : Detachable(disks)[k].nodes \in Seq(Nodes)
    BY <2>2 DEF Disks
  <2>4. \A k \in 1..Len(Detachable(disks)) : devices[k].points \in Seq(Points(listed))
    BY <2>1, <2>2, <2>3, PointsAre
  <2> QED BY <2>2, <2>4
<1> QED BY <1>1, <1>2 DEF ChoiceInv

LEMMA TargetPointsTyped ==
    ASSUME ChoiceInv, TargetInv, TableInv, target # 0
    PROVE  TargetPoints \in Seq(Points(listed)) /\ Len(TargetPoints) \in Nat
<1>1. target \in DOMAIN devices
  BY DevicesCounted DEF TargetInv
<1> QED BY <1>1, DevicePointsTyped DEF TargetPoints

LEMMA UmountInit == ASSUME Init PROVE UmountInv
<1>1. toUmount = << >> /\ target = 0
  BY DEF Init
<1> QED BY <1>1 DEF UmountInv

\* The steps that neither unmount nor prepare to.
LEMMA NotUnmounting ==
    ASSUME Step, ~(ListDevices \/ ChooseDevice \/ Confirm \/ Umount \/ OpenDevice
                   \/ MountAppears \/ UserUmounts)
    PROVE  /\ UNCHANGED <<mounts, appeared, vanished, listed, devices, target, toUmount>>
           /\ phase' \in {"umounting", "flashing"} => phase' = phase
<1> USE DEF tableVars
<1>1. UNCHANGED <<mounts, appeared, vanished, listed, devices, target>>
  BY Untouched
<1>2. CASE Start \/ ChooseImage
  BY <1>1, <1>2 DEF Start, ChooseImage, Fail
<1>3. CASE FindImage \/ OpenImage
  BY <1>1, <1>3 DEF FindImage, OpenImage, Fail
<1>4. CASE CopyUnit \/ CopyEnds
  BY <1>1, <1>4 DEF CopyUnit, CopyEnds
<1>5. CASE CloseImage \/ Verify \/ Return
  BY <1>1, <1>5 DEF CloseImage, Verify, Return, Leave
<1>6. CASE WaitForDecompressor \/ Decompress \/ DecompressorKilled
  BY <1>1, <1>6 DEF WaitForDecompressor, Decompress, DecompressorKilled
<1>7. CASE UNCHANGED vars
  BY <1>7 DEF vars, choiceVars
<1> QED BY <1>2, <1>3, <1>4, <1>5, <1>6, <1>7 DEF Step

\* Nothing has been taken from a point that the loop has not come to.
LEMMA NothingPassed ==
    ASSUME Taken = {}
    PROVE  \A p : Cardinality(TakenAt(p)) = Cardinality(PassedAt(p, 0))
<1>1. \A p : TakenAt(p) = {}
  BY DEF TakenAt
<1>2. \A p : PassedAt(p, 0) = {}
  BY DEF PassedAt
<1> QED BY <1>1, <1>2

\* A successful umount is counted at its point, and at no other.
LEMMA OneMorePassed ==
    ASSUME TableInv, TargetInv, UmountInv, NEW n \in 0..Len(TargetPoints), Unmounted(n),
           TargetPoints \in Seq(Points(listed)), phase = "umounting", toUmount # << >>,
           NEW i \in DOMAIN mounts, mounts[i].point = Head(toUmount),
           mounts' = RemoveAt(mounts, i), UNCHANGED <<listed, appeared, vanished>>
    PROVE  /\ n + 1 \in 0..Len(TargetPoints)
           /\ \A p : Cardinality({e \in Taken' : e.point = p})
                       = Cardinality(PassedAt(p, n + 1))
           /\ Len(Tail(toUmount)) = Len(TargetPoints) - (n + 1)
           /\ \A k \in 1..Len(Tail(toUmount)) :
                 Tail(toUmount)[k] = TargetPoints[(n + 1) + k]
<1>1. /\ toUmount \in Seq(Points(listed)) /\ Len(toUmount) = Len(TargetPoints) - n
      /\ \A k \in 1..Len(toUmount) : toUmount[k] = TargetPoints[n + k]
  BY DEF UmountInv, Unmounted
<1>2. Len(toUmount) \in Nat /\ Len(toUmount) # 0 /\ Head(toUmount) = toUmount[1]
      /\ Len(TargetPoints) \in Nat
  BY <1>1
<1>3. n + 1 \in 1..Len(TargetPoints) /\ Head(toUmount) = TargetPoints[n + 1]
  BY <1>1, <1>2
<1>4. /\ Len(Tail(toUmount)) = Len(toUmount) - 1
      /\ \A k \in 1..(Len(toUmount) - 1) : Tail(toUmount)[k] = toUmount[k + 1]
  BY <1>1, <1>2
<1>5. ASSUME NEW k \in 1..(Len(toUmount) - 1)
      PROVE  Tail(toUmount)[k] = TargetPoints[(n + 1) + k]
  <2>1. k + 1 \in 1..Len(toUmount) /\ n + (k + 1) = (n + 1) + k
    BY <1>2
  <2>2. toUmount[k + 1] = TargetPoints[n + (k + 1)]
    BY <1>1, <2>1
  <2> QED BY <1>4, <2>1, <2>2
<1>6. Looked
  BY DEF TargetInv, Copying, Looked
<1>7. mounts[i] \notin Taken /\ Taken' = Taken \cup {mounts[i]}
  BY <1>6, OneTaken
<1>8. ASSUME NEW p
      PROVE  Cardinality({e \in Taken' : e.point = p}) = Cardinality(PassedAt(p, n + 1))
  <2>1. Cardinality(TakenAt(p)) = Cardinality(PassedAt(p, n))
    BY DEF Unmounted
  <2>2. CASE p # mounts[i].point
    <3>1. {e \in Taken' : e.point = p} = TakenAt(p)
      BY <1>7, <2>2 DEF TakenAt
    <3>2. PassedAt(p, n + 1) = PassedAt(p, n)
      <4>1. \A k : k \in 1..(n + 1) <=> k \in 1..n \/ k = n + 1
        BY <1>3
      <4> QED BY <1>3, <2>2, <4>1 DEF PassedAt
    <3> QED BY <2>1, <3>1, <3>2
  <2>3. CASE p = mounts[i].point
    <3>1. {e \in Taken' : e.point = p} = TakenAt(p) \cup {mounts[i]}
      BY <1>7, <2>3 DEF TakenAt
    <3>2. PassedAt(p, n + 1) = PassedAt(p, n) \cup {n + 1} /\ n + 1 \notin PassedAt(p, n)
      <4>1. \A k : k \in 1..(n + 1) <=> k \in 1..n \/ k = n + 1
        BY <1>3
      <4>2. n + 1 \notin 1..n
        BY <1>3
      <4> QED BY <1>3, <2>3, <4>1, <4>2 DEF PassedAt
    <3>3. IsFiniteSet(TakenAt(p)) /\ mounts[i] \notin TakenAt(p)
      <4>1. TakenAt(p) \in SUBSET Known
        BY DEF TakenAt, Taken, Known
      <4> QED BY <1>7, <4>1, KnownFinite DEF TakenAt
    <3>4. IsFiniteSet(PassedAt(p, n))
      <4>1. IsFiniteSet(1..n) /\ PassedAt(p, n) \in SUBSET (1..n)
        BY FS_Interval DEF PassedAt
      <4> QED BY <4>1, FS_Subset
    <3>5. Cardinality(TakenAt(p) \cup {mounts[i]}) = Cardinality(TakenAt(p)) + 1
      BY <3>3, FS_AddElement
    <3>6. Cardinality(PassedAt(p, n) \cup {n + 1}) = Cardinality(PassedAt(p, n)) + 1
      BY <3>2, <3>4, FS_AddElement
    <3> QED BY <2>1, <3>1, <3>2, <3>5, <3>6
  <2> QED BY <2>2, <2>3
<1>9. n + 1 \in 0..Len(TargetPoints) /\ Len(toUmount) - 1 = Len(TargetPoints) - (n + 1)
  BY <1>1, <1>2, <1>3
<1>10. \A k \in 1..Len(Tail(toUmount)) : Tail(toUmount)[k] = TargetPoints[(n + 1) + k]
  BY <1>4, <1>5
<1> QED BY <1>4, <1>8, <1>9, <1>10

LEMMA UmountKept ==
    ASSUME PhaseInv, ChoiceInv, TargetInv, TableInv, UmountInv, Step
    PROVE  UmountInv'
<1>0. toUmount \in Seq(Points(listed))
  BY DEF UmountInv
<1>1. CASE ListDevices
  <2>1. toUmount' = toUmount /\ phase = "listing" /\ target' = target
    BY <1>1 DEF ListDevices, tableVars
  <2>2. toUmount = << >> /\ target = 0
    BY <2>1 DEF PhaseInv, Asking, Unchosen, Unlisted
  <2> QED BY <2>1, <2>2 DEF UmountInv
<1>2. CASE ChooseDevice
  <2>1. /\ phase = "choosing" /\ phase' \in {"confirming", "leaving"}
        /\ UNCHANGED <<toUmount, mounts, appeared, vanished, listed, devices>>
    BY <1>2 DEF ChooseDevice, Select, Leave, tableVars
  <2>2. Taken' = {} /\ Points(listed)' = Points(listed)
    BY <2>1 DEF TableInv, Taken, Points
  <2>3. (\A p : Cardinality(TakenAt(p)) = Cardinality(PassedAt(p, 0)))'
    <3>1. \A p : TakenAt(p)' = {}
      BY <2>2 DEF TakenAt
    <3>2. \A p : PassedAt(p, 0)' = {}
      BY DEF PassedAt
    <3> QED BY <3>1, <3>2
  <2>4. Unmounted(0)'
    BY <2>1, <2>3 DEF Unmounted
  <2>5. target' # 0 => 0 \in 0..Len(TargetPoints')
    <3> SUFFICES ASSUME target' # 0 PROVE Len(devices[target'].points) \in Nat
      BY <2>1 DEF TargetPoints
    <3>1. target' \in 0..Len(devices')
      BY TargetKept DEF TargetInv
    <3>2. target' \in DOMAIN devices
      BY <2>1, <3>1, DevicesCounted
    <3> QED BY <3>2, DevicePointsTyped
  <2> QED BY <1>0, <2>1, <2>2, <2>4, <2>5 DEF UmountInv
<1>3. CASE Confirm
  <2>1. /\ phase = "confirming"
        /\ UNCHANGED <<listed, devices, target, mounts, appeared, vanished>>
        /\ \/ phase' = "umounting" /\ toUmount' = TargetPoints
           \/ phase' = "leaving" /\ toUmount' = toUmount
    BY <1>3 DEF Confirm, Leave, choiceVars, worldVars, TargetPoints
  <2>2. target # 0
    BY <2>1 DEF TargetInv, Copying
  <2>3. TargetPoints \in Seq(Points(listed)) /\ Len(TargetPoints) \in Nat
    BY <2>2, TargetPointsTyped
  <2>4. Taken = {} /\ Taken' = Taken
    BY <2>1 DEF TableInv, Taken
  <2>5. Points(listed)' = Points(listed) /\ TargetPoints' = TargetPoints
    BY <2>1 DEF Points, TargetPoints
  <2>6. \A p : TakenAt(p)' = TakenAt(p) /\ PassedAt(p, 0)' = PassedAt(p, 0)
    BY <2>4, <2>5 DEF TakenAt, PassedAt
  <2>7. Unmounted(0)'
    BY <2>1, <2>3, <2>4, <2>5, <2>6, NothingPassed DEF Unmounted
  <2> QED BY <1>0, <2>1, <2>3, <2>5, <2>7 DEF UmountInv
<1>4. CASE Umount
  <2>1. /\ phase = "umounting" /\ toUmount # << >>
        /\ UNCHANGED <<listed, devices, target, appeared, vanished>>
    BY <1>4, UmountEffect
  <2>2. Points(listed)' = Points(listed) /\ TargetPoints' = TargetPoints
    BY <2>1 DEF Points, TargetPoints
  <2>3. target # 0
    BY <2>1 DEF TargetInv, Copying
  <2>4. PICK n \in 0..Len(TargetPoints) : Unmounted(n)
    BY <2>3 DEF UmountInv
  <2>5. CASE phase' = "leaving" /\ mounts' = mounts /\ toUmount' = toUmount
    <3>1. Taken' = Taken
      BY <2>1, <2>5 DEF Taken
    <3>2. \A p : TakenAt(p)' = TakenAt(p) /\ PassedAt(p, n)' = PassedAt(p, n)
      BY <2>2, <3>1 DEF TakenAt, PassedAt
    <3>3. Unmounted(n)'
      BY <2>4, <2>5, <3>2 DEF Unmounted
    <3> QED BY <1>0, <2>2, <2>4, <2>5, <3>3 DEF UmountInv
  <2>6. CASE /\ phase' = phase /\ toUmount' = Tail(toUmount)
             /\ \E i \in DOMAIN mounts :
                   mounts[i].point = Head(toUmount) /\ mounts' = RemoveAt(mounts, i)
    <3>1. PICK i \in DOMAIN mounts :
             mounts[i].point = Head(toUmount) /\ mounts' = RemoveAt(mounts, i)
      BY <2>6
    <3>2. TargetPoints \in Seq(Points(listed))
      BY <2>3, TargetPointsTyped
    <3>3. /\ n + 1 \in 0..Len(TargetPoints)
          /\ \A p : Cardinality({e \in Taken' : e.point = p})
                      = Cardinality(PassedAt(p, n + 1))
          /\ Len(Tail(toUmount)) = Len(TargetPoints) - (n + 1)
          /\ \A k \in 1..Len(Tail(toUmount)) :
                Tail(toUmount)[k] = TargetPoints[(n + 1) + k]
      BY <2>1, <2>4, <3>1, <3>2, OneMorePassed
    <3>4. \A p : /\ TakenAt(p)' = {e \in Taken' : e.point = p}
                 /\ PassedAt(p, n + 1)' = PassedAt(p, n + 1)
      BY <2>2 DEF TakenAt, PassedAt
    <3>5. Unmounted(n + 1)'
      BY <2>1, <2>2, <2>6, <3>3, <3>4 DEF Unmounted
    <3>6. Tail(toUmount) \in Seq(Points(listed))
      BY <1>0, <2>1
    <3> QED BY <2>2, <2>6, <3>3, <3>5, <3>6 DEF UmountInv
  <2> QED BY <1>4, <2>5, <2>6, UmountEffect
<1>5. CASE OpenDevice
  <2>1. /\ phase = "umounting" /\ toUmount = << >> /\ phase' \in {"flashing", "closing"}
        /\ UNCHANGED <<listed, devices, target, mounts, appeared, vanished, toUmount>>
    BY <1>5 DEF OpenDevice, choiceVars, tableVars
  <2>2. Points(listed)' = Points(listed) /\ TargetPoints' = TargetPoints /\ Taken' = Taken
    BY <2>1 DEF Points, TargetPoints, Taken
  <2>3. target # 0
    BY <2>1 DEF TargetInv, Copying
  <2>4. PICK n \in 0..Len(TargetPoints) : Unmounted(n)
    BY <2>3 DEF UmountInv
  <2>5. n = Len(TargetPoints)
    <3>1. Len(TargetPoints) \in Nat
      BY <2>3, TargetPointsTyped
    <3> QED BY <2>1, <2>4, <3>1 DEF Unmounted
  <2>6. \A p : TakenAt(p)' = TakenAt(p) /\ PassedAt(p, n)' = PassedAt(p, n)
    BY <2>2 DEF TakenAt, PassedAt
  <2>7. Unmounted(n)'
    BY <2>1, <2>2, <2>4, <2>5, <2>6 DEF Unmounted
  <2> QED BY <1>0, <2>1, <2>2, <2>4, <2>7 DEF UmountInv
<1>6. CASE ~(ListDevices \/ ChooseDevice \/ Confirm \/ Umount \/ OpenDevice)
  <2>1. /\ UNCHANGED <<listed, devices, target, toUmount>> /\ Taken' = Taken
        /\ phase' \in {"umounting", "flashing"} => phase' = phase
    <3>1. CASE MountAppears \/ UserUmounts
      <4>1. UNCHANGED <<listed, devices, target, toUmount, phase>>
        BY <3>1 DEF MountAppears, UserUmounts, choiceVars
      <4> QED BY <3>1, <4>1, WorldTakesNone
    <3>2. CASE ~(MountAppears \/ UserUmounts)
      <4>1. /\ UNCHANGED <<mounts, appeared, vanished, listed, devices, target, toUmount>>
            /\ phase' \in {"umounting", "flashing"} => phase' = phase
        BY <1>6, <3>2, NotUnmounting
      <4> QED BY <4>1 DEF Taken
    <3> QED BY <3>1, <3>2
  <2>2. Points(listed)' = Points(listed) /\ TargetPoints' = TargetPoints
    BY <2>1 DEF Points, TargetPoints
  <2>3. ASSUME NEW n \in 0..Len(TargetPoints), Unmounted(n) PROVE Unmounted(n)'
    <3>1. \A p : TakenAt(p)' = TakenAt(p) /\ PassedAt(p, n)' = PassedAt(p, n)
      BY <2>1, <2>2 DEF TakenAt, PassedAt
    <3> QED BY <2>1, <2>2, <2>3, <3>1 DEF Unmounted
  <2>4. target' # 0 => \E n \in 0..Len(TargetPoints') : Unmounted(n)'
    BY <2>1, <2>2, <2>3 DEF UmountInv
  <2> QED BY <1>0, <2>1, <2>2, <2>4 DEF UmountInv
<1> QED BY <1>1, <1>2, <1>3, <1>4, <1>5, <1>6

-----------------------------------------------------------------------------
(* The image that nobody named *)

\* The names offered are those of the files that look like images, of both
\* directories.
LEMMA NamesAre ==
    ASSUME NEW here \in Seq(Files), NEW output \in Seq(Files)
    PROVE  \A f \in Range(here) \cup Range(output) : HasPotential(f) =>
              \E k \in DOMAIN PotentialNames(here, output) :
                 PotentialNames(here, output)[k] = f.name
<1> DEFINE files == here \o output
           places == {i \in DOMAIN files : HasPotential(files[i])}
           candidates == At(files, places)
<1>1. files \in Seq(Files) /\ places \in SUBSET DOMAIN files
  OBVIOUS
<1>2. PotentialNames(here, output) = [k \in DOMAIN candidates |-> candidates[k].name]
  BY DEF PotentialNames
<1>3. \A i \in places : \E k \in DOMAIN candidates : candidates[k] = files[i]
  <2> HIDE DEF files, places
  <2>1. candidates \in Seq(Files) /\ Len(candidates) = Cardinality(places)
        /\ \A i \in places : \E k \in 1..Cardinality(places) : candidates[k] = files[i]
    BY <1>1, AtIs
  <2> QED BY <2>1
<1>4. ASSUME NEW f \in Range(here) \cup Range(output), HasPotential(f)
      PROVE  \E i \in places : files[i] = f
  <2>1. CASE f \in Range(here)
    <3>1. PICK i \in DOMAIN here : here[i] = f
      BY <2>1 DEF Range
    <3>2. i \in DOMAIN files /\ files[i] = f
      BY <3>1
    <3> QED BY <1>4, <3>2
  <2>2. CASE f \in Range(output)
    <3>1. PICK i \in DOMAIN output : output[i] = f
      BY <2>2 DEF Range
    <3>2. i \in 1..Len(output) /\ Len(here) \in Nat /\ Len(output) \in Nat
      BY <3>1
    <3>3. Len(here) + i \in DOMAIN files /\ files[Len(here) + i] = f
      BY <3>1, <3>2
    <3> QED BY <1>4, <3>3
  <2> QED BY <2>1, <2>2
<1> HIDE DEF candidates, files, places
<1> QED BY <1>2, <1>3, <1>4

\* A name stands for one file, whose time is the time of the name.
LEMMA OneFile ==
    ASSUME ChoiceInv, NEW f \in Range(dir.here)
    PROVE  f \in FilesNamed(f.name) /\ TimeOf(f.name) = f.time
<1>1. f \in FilesNamed(f.name)
  BY DEF FilesNamed
<1>2. ASSUME NEW g \in FilesNamed(f.name) PROVE g = f
  <2>1. PICK i, j \in DOMAIN dir.here : dir.here[i] = f /\ dir.here[j] = g /\ g.name = f.name
    BY DEF FilesNamed, Range
  <2>2. i = j
    BY <2>1, NamesAssumption DEF ChoiceInv
  <2> QED BY <2>1, <2>2
<1>3. (CHOOSE g \in FilesNamed(f.name) : TRUE) = f
  BY <1>1, <1>2
<1> QED BY <1>1, <1>3 DEF TimeOf

LEMMA MostRecentIs ==
    ASSUME ChoiceInv, NEW name \in MostRecent(PotentialNames(dir.here, dir.output))
    PROVE  /\ FilesNamed(name) # {}
           /\ \A f \in Range(dir.here) : HasPotential(f) => f.time <= TimeOf(name)
           /\ \A f \in Range(dir.output) : HasPotential(f) => FilesNamed(f.name) # {}
<1> DEFINE names == PotentialNames(dir.here, dir.output)
<1>1. dir.here \in Seq(Files) /\ dir.output \in Seq(Files)
  BY SessionAssumption DEF ChoiceInv
<1>2. \A f \in Range(dir.here) \cup Range(dir.output) : HasPotential(f) =>
         \E k \in DOMAIN names : names[k] = f.name
  BY <1>1, NamesAre
<1> HIDE DEF names
<1>3. name \in MostRecent(names)
  BY DEF names
<1>4. \A i \in DOMAIN names : FilesNamed(names[i]) # {}
  BY <1>3 DEF MostRecent
<1>5. PICK j \in DOMAIN names :
         name = names[j] /\ \A k \in DOMAIN names : TimeOf(names[k]) <= TimeOf(names[j])
  BY <1>3, <1>4 DEF MostRecent
<1>6. FilesNamed(name) # {}
  BY <1>4, <1>5
<1>7. ASSUME NEW f \in Range(dir.here), HasPotential(f) PROVE f.time <= TimeOf(name)
  <2>1. PICK k \in DOMAIN names : names[k] = f.name
    BY <1>2, <1>7
  <2>2. TimeOf(names[k]) <= TimeOf(name)
    BY <1>5
  <2> QED BY <2>1, <2>2, OneFile
<1>8. ASSUME NEW f \in Range(dir.output), HasPotential(f) PROVE FilesNamed(f.name) # {}
  <2>1. PICK k \in DOMAIN names : names[k] = f.name
    BY <1>2, <1>8
  <2> QED BY <1>4, <2>1
<1> QED BY <1>6, <1>7, <1>8

LEMMA AutoImageKept ==
    ASSUME ChoiceInv, AutoImageIsMostRecent, Step
    PROVE  AutoImageIsMostRecent'
<1>1. CASE ChooseImage
  <2> DEFINE names == PotentialNames(dir.here, dir.output)
  <2>1. session' = session /\ dir' = dir
    BY <1>1 DEF ChooseImage
  <2>2. \/ session.image # ""
        \/ session.image = "" /\ \E name \in NamesToTry(names) : chosen' = name
        \/ chosen' = chosen
    BY <1>1 DEF ChooseImage
  <2>3. CASE session.image # ""
    BY <2>1, <2>3 DEF AutoImageIsMostRecent
  <2>4. CASE chosen' = chosen
    BY <2>1, <2>4 DEF AutoImageIsMostRecent, FilesNamed, TimeOf
  <2>5. CASE session.image = "" /\ \E name \in NamesToTry(names) : chosen' = name
    <3>1. CASE session.interactive
      BY <2>1, <3>1 DEF AutoImageIsMostRecent
    <3>2. CASE ~session.interactive
      <4>1. chosen' \in MostRecent(names)
        BY <2>5, <3>2 DEF NamesToTry
      <4>2. /\ FilesNamed(chosen') # {}
            /\ \A f \in Range(dir.here) : HasPotential(f) => f.time <= TimeOf(chosen')
            /\ \A f \in Range(dir.output) : HasPotential(f) => FilesNamed(f.name) # {}
        BY <4>1, MostRecentIs
      <4> QED BY <2>1, <4>2 DEF AutoImageIsMostRecent, FilesNamed, TimeOf
    <3> QED BY <3>1, <3>2
  <2> QED BY <2>2, <2>3, <2>4, <2>5
<1>2. CASE ~ChooseImage
  <2>1. UNCHANGED <<session, dir, chosen>>
    BY <1>2 DEF Step, Start, FindImage, OpenImage, ListDevices, ChooseDevice, Confirm,
       Umount, OpenDevice, CopyUnit, CopyEnds, CloseImage, WaitForDecompressor, Verify,
       Return, Decompress, DecompressorKilled, MountAppears, UserUmounts, vars, choiceVars
  <2> QED BY <2>1 DEF AutoImageIsMostRecent, FilesNamed, TimeOf
<1> QED BY <1>1, <1>2

-----------------------------------------------------------------------------
(* The theorems *)

\* All of it: preserved by every step of a session.
Inv ==
    /\ PhaseInv /\ ImageInv /\ WholeInv /\ ChoiceInv /\ TargetInv /\ TableInv
    /\ UmountInv /\ AutoImageIsMostRecent

\* However a session is started, whatever is listed, answered, mounted and goes
\* wrong: what each phase has done, what is read and written, what is listed,
\* meant, mounted and still to unmount fit together in every state.
THEOREM SessionInvariant == Spec => []Inv
<1>1. Init => Inv
  <2> SUFFICES ASSUME Init PROVE Inv
    OBVIOUS
  <2>1. AutoImageIsMostRecent
    BY DEF Init, AutoImageIsMostRecent
  <2> QED BY <2>1, PhaseInit, ImageInit, WholeInit, ChoiceInit, TableInit, UmountInit DEF Inv
<1>2. Inv /\ [Next]_vars => Inv'
  <2> SUFFICES ASSUME Inv, [Next]_vars PROVE Inv'
    OBVIOUS
  <2>1. Step
    BY Steps
  <2>2. PhaseInv'
    BY <2>1, PhaseOther, PhaseImage DEF Inv
  <2>3. ImageInv' /\ WholeInv' /\ ChoiceInv' /\ TargetInv' /\ TableInv' /\ UmountInv'
    BY <2>1, ImageKept, WholeKept, ChoiceKept, TargetKept, TableKept, UmountKept DEF Inv
  <2>4. AutoImageIsMostRecent'
    BY <2>1, AutoImageKept DEF Inv
  <2> QED BY <2>2, <2>3, <2>4 DEF Inv
<1> QED BY <1>1, <1>2, PTL DEF Spec

\* Whatever the lists and the tables, every variable stays of its type.
THEOREM TypeCorrect == Spec => []TypeOK
<1>1. Inv => TypeOK
  <2> SUFFICES ASSUME Inv PROVE TypeOK
    OBVIOUS
  <2> USE DEF Inv
  <2>1. \A i \in DOMAIN devices : devices[i].points \in Seq(Points(listed))
    BY DevicePointsTyped
  <2>2. phase \in {"start", "source", "opening", "listing", "choosing", "confirming",
                   "umounting", "flashing", "closing", "closed", "leaving", "left",
                   "returned"}
    BY DEF PhaseInv, Phases, Running, Uncopied, Asking, Unchosen, Unlisted, Opening
  <2>3. session \in Sessions /\ dir \in Directories /\ disks \in DiskSets
    BY DEF ChoiceInv
  <2>4. target \in 0..Len(devices) /\ answer \in 0..(Len(devices) + 2)
    BY DEF TargetInv
  <2>5. /\ appeared \subseteq LaterMounts /\ vanished \subseteq Range(listed) \cup appeared
        /\ toUmount \in Seq(Points(listed))
    BY DEF TableInv, UmountInv, Known
  <2>6. written <= taken /\ copyErr \in BOOLEAN /\ result \in {"none", "ok", "failed", "panicked"}
    BY DEF WholeInv
  <2>7. I!ImageTypeOK
    BY DEF ImageInv
  <2> QED BY <2>1, <2>2, <2>3, <2>4, <2>5, <2>6, <2>7 DEF TypeOK
<1> QED BY <1>1, SessionInvariant, PTL

\* However many disks there are and whatever the user answers: what is written is a
\* removable disk, the one that was configured, or the only one, or the one beside
\* the number.
THEOREM WritesTheChosen == Spec => []WritesOnlyChosen
<1>1. Inv => WritesOnlyChosen
  <2> SUFFICES ASSUME Inv, Flashed PROVE WritesOnlyChosen
    BY DEF WritesOnlyChosen
  <2>1. target # 0 /\ Meant
    BY DEF Inv, TargetInv, Copying, Flashed
  <2>2. /\ Removable(DiskOf(devices[target].name))
        /\ target \in 1..Len(Detachable(disks))
        /\ devices[target].name = NameOf(Detachable(disks)[target])
    BY <2>1, TargetIs DEF Inv
  <2>3. CASE session.device # ""
    BY <2>1, <2>2, <2>3 DEF Meant, WritesOnlyChosen
  <2>4. CASE session.device = "" /\ ~session.interactive
    BY <2>1, <2>2, <2>4 DEF Meant, WritesOnlyChosen
  <2>5. CASE session.device = "" /\ session.interactive
    <3>1. target = IF answer = 0 THEN 1 ELSE answer
      BY <2>1, <2>5 DEF Meant
    <3> DEFINE beside == IF answer = 0 THEN 1 ELSE answer
    <3>2. beside <= Len(Detachable(disks))
          /\ devices[target].name = NameOf(Detachable(disks)[beside])
      BY <2>2, <3>1
    <3> QED BY <2>2, <2>5, <3>2 DEF WritesOnlyChosen
  <2> QED BY <2>3, <2>4, <2>5
<1> QED BY <1>1, SessionInvariant, PTL

\* Of the mounts that were found at a point there are no more than the loop unmounts
\* there, and as many if lsblk shows no node twice.
LEMMA FoundOfTarget ==
    ASSUME Inv, target # 0, NEW p
    PROVE  LET there == PassedAt(p, Len(TargetPoints))
               found == {f \in Found : f.point = p} IN
           /\ IsFiniteSet(there) /\ IsFiniteSet(found)
           /\ Cardinality(found) <= Cardinality(there)
           /\ there # {} => found # {}
           /\ IsInjective(TargetNodes) => Cardinality(found) = Cardinality(there)
<1>1. /\ DiskOf(devices[target].name) \in Range(disks)
      /\ DiskOf(devices[target].name) \in Disks /\ listed \in Seq(MountEntries)
      /\ TargetPoints = PointsOf(TargetNodes, listed)
  BY TargetIs DEF Inv, TargetPoints, TargetNodes
<1>2. TargetNodes \in Seq(Nodes)
  BY <1>1 DEF TargetNodes, Disks
<1>3. \A e \in Range(listed), node \in Range(TargetNodes) : Matches(e, node) => e.node = node
  <2>1. CASE listed = << >>
    BY <2>1 DEF Range
  <2>2. CASE listed \in Tables
    <3>1. disks \in DiskSets
      BY DEF Inv, ChoiceInv
    <3> QED BY <1>1, <2>2, <3>1, NamesAssumption DEF TargetNodes
  <2> QED BY <2>1, <2>2 DEF Inv, TableInv
<1>4. Found = FoundIn(TargetNodes, listed)
  BY DEF Found, FoundIn
<1>5. PassedAt(p, Len(TargetPoints))
         = {k \in DOMAIN PointsOf(TargetNodes, listed) : PointsOf(TargetNodes, listed)[k] = p}
  <2>1. DOMAIN TargetPoints = 1..Len(TargetPoints)
    BY TargetPointsTyped DEF Inv
  <2> QED BY <1>1, <2>1 DEF PassedAt
<1> DEFINE nodes == TargetNodes
           table == listed
           there == {k \in DOMAIN PointsOf(nodes, table) : PointsOf(nodes, table)[k] = p}
           found == {f \in FoundIn(nodes, table) : f.point = p}
<1>6. /\ IsFiniteSet(there) /\ IsFiniteSet(found)
      /\ Cardinality(found) <= Cardinality(there)
      /\ there # {} => found # {}
      /\ IsInjective(nodes) => Cardinality(found) = Cardinality(there)
  BY <1>1, <1>2, <1>3, FoundCounted
<1>7. there = PassedAt(p, Len(TargetPoints))
  BY <1>5
<1>8. found = {f \in Found : f.point = p}
  BY <1>4
<1>9. nodes = TargetNodes
  OBVIOUS
<1> HIDE DEF nodes, table, there, found
<1> QED BY <1>6, <1>7, <1>8, <1>9

LEMMA TakenFinite == ASSUME Inv, NEW p PROVE IsFiniteSet(TakenAt(p))
<1>1. TakenAt(p) \in SUBSET Known
  BY DEF TakenAt, Taken, Known
<1> QED BY <1>1, KnownFinite DEF Inv

\* Whatever the tables of mounts, stacked and hidden ones included, and whatever is
\* mounted and unmounted after the listing: a mount that was found of the target is
\* still there when the copy begins only if another one of its point went in its
\* place.  A point is unmounted as often as a mount was found there.
THEOREM TargetIsUnmounted == Spec => []FlashedUnmounted
<1>1. Inv => FlashedUnmounted
  <2> SUFFICES ASSUME Inv, phase = "flashing", NEW f \in Found \cap Range(mounts)
               PROVE  \E e \in Taken \ Found : e.point = f.point
    BY DEF FlashedUnmounted
  <2> DEFINE p == f.point
             found == {x \in Found : x.point = p}
  <2>1. target # 0
    BY DEF Inv, TargetInv, Copying
  <2>2. Unmounted(Len(TargetPoints))
    BY <2>1 DEF Inv, UmountInv, Unmounted
  <2>3. Cardinality(TakenAt(p)) = Cardinality(PassedAt(p, Len(TargetPoints)))
    BY <2>2 DEF Unmounted
  <2>4. IsFiniteSet(found) /\ Cardinality(found) <= Cardinality(PassedAt(p, Len(TargetPoints)))
    BY <2>1, FoundOfTarget
  <2>5. f \in found /\ f \notin TakenAt(p)
    BY DEF TakenAt, Taken
  <2> SUFFICES ASSUME TakenAt(p) \subseteq found PROVE FALSE
    BY DEF TakenAt
  <2> HIDE DEF found
  <2>6. IsFiniteSet(TakenAt(p)) /\ Cardinality(TakenAt(p)) \in Nat
    BY TakenFinite, FS_CardinalityType
  <2>7. Cardinality(TakenAt(p) \cup {f}) = Cardinality(TakenAt(p)) + 1
    BY <2>5, <2>6, FS_AddElement
  <2>8. Cardinality(TakenAt(p) \cup {f}) <= Cardinality(found)
    BY <2>4, <2>5, FS_Subset
  <2>9. Cardinality(found) \in Nat /\ Cardinality(TakenAt(p) \cup {f}) \in Nat
    BY <2>4, <2>6, <2>7, FS_CardinalityType
  <2> QED BY <2>3, <2>4, <2>6, <2>7, <2>8, <2>9
<1> QED BY <1>1, SessionInvariant, PTL

\* Whatever the tables of mounts, and in every state: Flash takes a mount that it did
\* not find of the target only from the point of one it found, and instead of it,
\* unless lsblk shows a node of the target twice.
THEOREM OthersStayMounted == Spec => []OtherMountsKept
<1>1. Inv => OtherMountsKept
  <2> SUFFICES ASSUME Inv, target # 0, NEW e \in Taken \ Found
               PROVE  \E f \in Found :
                         f.point = e.point /\ (f \in Taken => ~IsInjective(TargetNodes))
    BY DEF OtherMountsKept
  <2> DEFINE p == e.point
             found == {x \in Found : x.point = p}
             there == PassedAt(p, Len(TargetPoints))
  <2>1. PICK n \in 0..Len(TargetPoints) : Unmounted(n)
    BY DEF Inv, UmountInv
  <2>2. Cardinality(TakenAt(p)) = Cardinality(PassedAt(p, n))
    BY <2>1 DEF Unmounted
  <2>3. /\ IsFiniteSet(there) /\ IsFiniteSet(found) /\ (there # {} => found # {})
        /\ IsInjective(TargetNodes) => Cardinality(found) = Cardinality(there)
    BY FoundOfTarget
  <2>4. PassedAt(p, n) \in SUBSET there
    <3>1. Len(TargetPoints) \in Nat
      BY TargetPointsTyped DEF Inv
    <3>2. 1..n \subseteq 1..Len(TargetPoints)
      BY <2>1, <3>1
    <3> QED BY <3>2 DEF PassedAt
  <2>5. Cardinality(PassedAt(p, n)) <= Cardinality(there) /\ IsFiniteSet(PassedAt(p, n))
    BY <2>3, <2>4, FS_Subset
  <2>6. IsFiniteSet(TakenAt(p)) /\ e \in TakenAt(p)
    BY TakenFinite DEF TakenAt
  <2> HIDE DEF found, there
  <2>7. found # {}
    <3>1. Cardinality(TakenAt(p)) # 0
      BY <2>6, FS_EmptySet
    <3>2. PassedAt(p, n) # {}
      BY <2>2, <3>1, FS_EmptySet
    <3> QED BY <2>3, <2>4, <3>2
  <2>8. CASE ~IsInjective(TargetNodes)
    BY <2>7, <2>8 DEF found
  <2>9. CASE IsInjective(TargetNodes)
    <3> SUFFICES ASSUME found \subseteq Taken PROVE FALSE
      BY <2>9 DEF found
    <3>1. found \in SUBSET TakenAt(p) /\ e \notin found
      BY DEF found, TakenAt
    <3>2. Cardinality(found \cup {e}) = Cardinality(found) + 1
      BY <2>3, <3>1, FS_AddElement
    <3>3. Cardinality(found \cup {e}) <= Cardinality(TakenAt(p))
      BY <2>6, <3>1, FS_Subset
    <3>4. Cardinality(found) \in Nat /\ Cardinality(TakenAt(p)) \in Nat
          /\ Cardinality(there) \in Nat
      BY <2>3, <2>6, FS_CardinalityType
    <3> QED BY <2>2, <2>3, <2>5, <2>9, <3>2, <3>3, <3>4
  <2> QED BY <2>8, <2>9
<1> QED BY <1>1, SessionInvariant, PTL

\* Whatever the directories hold: an image nobody named is the most recent one.
THEOREM AutoImageIsRight == Spec => []AutoImageIsMostRecent
BY SessionInvariant, PTL DEF Inv

\* Whatever the image and its size: a session that succeeds has written all of it,
\* or dropped the error of the copy, or not noticed the decompressor's.
THEOREM SuccessWritesAll == Spec => []SuccessIsWhole
<1>1. Inv => SuccessIsWhole
  BY DEF Inv, SuccessIsWhole, WholeInv, ImageInv
<1> QED BY <1>1, SessionInvariant, PTL

\* Whatever the image and the pipe: a session that is over has waited for its
\* decompressor and closed what it read from.
THEOREM NothingIsLeft == Spec => []NothingLeftRunning
<1>1. Inv => NothingLeftRunning
  <2> SUFFICES ASSUME Inv, phase = "returned", lane \notin {"none", "failed"}
               PROVE  child # "running" /\ (lane = "fast" => reaped) /\ I!ClosedForGood
    BY DEF NothingLeftRunning
  <2>1. closing = "closed"
    BY DEF Inv, PhaseInv
  <2>2. CASE lane = "fast"
    <3>1. reaped
      BY <2>1, <2>2 DEF Inv, ImageInv
    <3>2. child # "running"
      BY <3>1 DEF Inv, ImageInv
    <3> QED BY <2>2, <3>1, <3>2 DEF I!ClosedForGood
  <2>3. CASE lane # "fast"
    <3>1. file = "closed" /\ child = "none"
      BY <2>1, <2>3 DEF Inv, ImageInv, I!ImageTypeOK
    <3> QED BY <2>3, <3>1 DEF I!ClosedForGood
  <2> QED BY <2>2, <2>3
<1> QED BY <1>1, SessionInvariant, PTL

=============================================================================
