------------------------------ MODULE Devices ------------------------------
(***************************************************************************)
(* utils.GetDetachableDevices: what lsblk, udevadm and /proc/mounts say,   *)
(* joined into a list of devices with their mount points.  A disk has its  *)
(* nodes (itself, its partitions, what is mapped on them) in the preorder  *)
(* in which getMntPoints visits them.  The table of mounts is in the order *)
(* of the mounts; an entry knows its node, the code only its name.         *)
(***************************************************************************)
EXTENDS Places

\* The names a mount may have in the table: /dev/<node>, /dev/disk/by-uuid/<uuid>.
DevName(node) == <<"dev", node.name>>
UUIDName(uuid) == <<"uuid", uuid>>

\* lsblk prints ro and rm as a JSON string or a bool, depending on its version.
StringOrBool(raw) ==
    IF raw.type = "string" THEN raw.text \in {"1", "true", "True", "TRUE"}
                           ELSE raw.text = "true"

\* Whether the name of an entry is one of the node.
Matches(entry, node) ==
    \/ entry.name = DevName(node)
    \/ node.uuid # "" /\ entry.name = UUIDName(node.uuid)

\* The places of the entries of a node in the table.
Entries(node, table) == {i \in DOMAIN table : Matches(table[i], node)}

\* MountTable.Find: the point of the first entry of the node, and no other.
Find(node, table) ==
    table[CHOOSE i \in Entries(node, table) :
             \A j \in Entries(node, table) : i <= j].point

\* The points of those of the nodes that are in the table, one for each.
PointsOf(nodes, table) ==
    LET mounted == At(nodes, {i \in DOMAIN nodes : Entries(nodes[i], table) # {}}) IN
    [k \in DOMAIN mounted |-> Find(mounted[k], table)]

\* A listing that goes through the whole disk's entries, but not its partitions'.
DiskPoints(disk, table) == PointsOf(<< Head(disk.nodes) >>, table)

\* getMntPoints: at most one mount point per node.
MountPoints(disk, table) == PointsOf(disk.nodes, table)

\* udevadm is asked about a disk that does not say it is removable, or has no
\* model; if that fails the whole listing does.
AsksUdev(disk) == ~StringOrBool(disk.rm) \/ disk.model = ""

Removable(disk) ==
    \/ StringOrBool(disk.rm)
    \/ disk.udev \cap {"ID_DRIVE_FLASH_SD", "ID_DRIVE_MEDIA_FLASH_SD"} # {}

Detachable(disks) == At(disks, {i \in DOMAIN disks : Removable(disks[i])})

NameOf(disk) == Head(disk.nodes).name

Device(disk, points) == [name |-> NameOf(disk), points |-> points]

\* A listing that leaves no disk out.
AllDevices(disks, table) ==
    [i \in DOMAIN disks |-> Device(disks[i], MountPoints(disks[i], table))]

\* A listing that takes the mount points by the position among all disks.
ByPosition(disks, table) ==
    [i \in DOMAIN Detachable(disks) |->
        Device(Detachable(disks)[i], MountPoints(disks[i], table))]

DetachableDevices(disks, table) ==
    [i \in DOMAIN Detachable(disks) |->
        Device(Detachable(disks)[i], MountPoints(Detachable(disks)[i], table))]

\* unescape panics on a mount point with a double quote in it.
CannotUnescape(table) == \E i \in DOMAIN table : table[i].quoted
=============================================================================
