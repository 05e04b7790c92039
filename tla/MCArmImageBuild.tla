-------------------------- MODULE MCArmImageBuild --------------------------
(* Small instances of ArmImageBuild for TLC. *)
EXTENDS ArmImageBuild

CONSTANTS Skipped, TornSlice

\* Components in the order of their names: boot < dev < etc.
Boot     == <<1>>
Firmware == <<1, 1>>
Dev      == <<2>>
DevPts   == <<2, 1>>
EtcResolv == <<3, 1>>

\* The mounts of a Raspberry Pi image, /boot before /.
TwoMounts == <<Boot, Root>>
\* Nested mounts listed inside out, and a partition that is not mounted.
NestedMounts == <<Firmware, Skipped, Boot, Root>>
DevMounts == <<Dev, DevPts>>
OneExtra == <<Dev>>

\* All subsets of the partitions in order, and a torn slice.
AnyScan == {<< >>, <<1>>, <<2>>, <<1, 2>>, TornSlice}
NestedScan == {<<1, 2, 3, 4>>, <<1, 2, 3>>}
FullScan == {<<1, 2>>}
EmptyOrFullScan == {<< >>, <<1, 2>>}

AllConfigs == {c \in ConfigType : c.args => c.qemu}
SomeConfigs ==
    {[resize |-> FALSE, resolv |-> "delete", qemu |-> TRUE, args |-> TRUE],
     [resize |-> TRUE, resolv |-> "off", qemu |-> FALSE, args |-> FALSE]}
QemuConfig == {[resize |-> FALSE, resolv |-> "off", qemu |-> TRUE, args |-> FALSE]}
NativeConfig == {[resize |-> TRUE, resolv |-> "off", qemu |-> FALSE, args |-> FALSE]}

AllFaults ==
    {"download", "copy", "resize", "resizefs", "losetup", "readdir", "detach",
     "mkdir", "mount", "umount", "mountExtra", "umountExtra", "fuser", "slowExit",
     "resolvConf", "cp", "tempdir", "mv", "gcc", "remove", "register", "deregister",
     "provision", "linger", "scriptUmounts", "cancel"}
\* All but an umount or a losetup -d that fails although nothing is in its way.
EndFaults == AllFaults \ {"umount", "umountExtra", "detach"}
NoFaults == {}
RegisterFault == {"register"}
=============================================================================
