--------------------------- MODULE MCFlashSession ---------------------------
(* Small instances of FlashSession for TLC. *)
EXTENDS FlashSession

\* A disk of the host, a USB stick with two partitions, and an SD card that only
\* udevadm knows to be one.
Node(name, uuid) == [name |-> name, uuid |-> uuid]
Internal == [nodes |-> << Node("sda", "") >>, rm |-> [type |-> "bool", text |-> "false"],
             udev |-> {}, model |-> "Disk"]
Stick == [nodes |-> << Node("sdb", ""), Node("sdb1", "u1"), Node("sdb2", "u2") >>,
          rm |-> [type |-> "string", text |-> "1"], udev |-> {}, model |-> "Stick"]
Card == [nodes |-> << Node("mmc", ""), Node("mmc1", "") >>,
         rm |-> [type |-> "string", text |-> "0"], udev |-> {"ID_DRIVE_FLASH_SD"},
         model |-> ""]

\* A stick with a mirror on two more partitions, which lsblk shows below each of them.
Mirror == [Stick EXCEPT !.nodes = @ \o << Node("sdb3", ""), Node("md", "u3"),
                                          Node("sdb4", ""), Node("md", "u3") >>]

SomeDisks ==
    { << Internal, Stick, Card >>, << Internal, Mirror >>, << Internal >> }

Mount(id, node, point) ==
    [id |-> id, node |-> node, name |-> DevName(node), point |-> point, quoted |-> FALSE]
RootMount == Mount(1, Node("sda", ""), << >>)
Stick1 == Mount(2, Node("sdb1", "u1"), <<1>>)
Stick2 == Mount(3, Node("sdb2", "u2"), <<2>>)
Stick2Below == Mount(3, Node("sdb2", "u2"), <<1, 1>>)
Card1 == Mount(4, Node("mmc1", ""), <<3>>)
CardOver == Mount(4, Node("mmc1", ""), <<1>>)
Mirrored == Mount(2, Node("md", "u3"), <<1>>)
ByUUID == [Stick1 EXCEPT !.name = UUIDName("u1")]
Mapped == [Stick2 EXCEPT !.name = <<"mapper", "secret">>]

\* Everything mounted once; nested; by other names; one node twice; a mirror;
\* one point twice; a point that cannot be unescaped.
SomeTables ==
    { << RootMount, Stick1, Stick2, Card1 >>, << RootMount, Stick1, Stick2Below >>,
      << RootMount, ByUUID, Mapped, Card1 >>,
      << RootMount, Stick1, [Stick1 EXCEPT !.id = 5, !.point = <<4>>] >>,
      << RootMount, Mirrored >>,
      << RootMount, Stick1, CardOver >>,
      << RootMount, [Card1 EXCEPT !.quoted = TRUE] >> }
MoreMounts == { Mount(6, Node("mmc1", ""), <<1>>), Mount(6, Node("sdb2", "u2"), <<2>>) }

Raw(size) == [kind |-> "raw", size |-> size, good |-> size]
Packed(size, good) == [kind |-> "packed", size |-> size, good |-> good]
File(name, words, suffix, time, archive_) ==
    [name |-> name, words |-> words, suffix |-> suffix, time |-> time,
     archive |-> archive_]
\* A directory with three images of different ages, one damaged, and no output
\* directory; images in the output directory, found here and not; no image.
Pi == File("pi", {"raspios"}, ".img", 2, Packed(3, 3))
Default == File("image", {}, "", 3, Raw(2))
Damaged == File("kali", {"kali"}, ".xz", 1, Packed(2, 1))
Zipped == File("ubuntu", {"ubuntu"}, ".zip", 3, [kind |-> "zip", size |-> 2, good |-> 1])
Notes == File("notes", {}, ".txt", 9, Raw(1))
SomeDirectories ==
    { [here |-> << Default, Damaged, Notes, Pi >>, output |-> << >>],
      [here |-> << Damaged, Notes, Pi >>, output |-> << Pi >>],
      [here |-> << Pi, Zipped >>, output |-> << Default >>],
      [here |-> << Notes >>, output |-> << >>] }

Session(front, image, device, interactive) ==
    [front |-> front, files |-> 1, image |-> image, device |-> device,
     interactive |-> interactive, verify |-> TRUE]
SomeSessions ==
    { Session("command", "", "", TRUE), Session("command", "", "", FALSE),
      Session("command", "kali", "mmc", FALSE), Session("post", "pi", "sdb", TRUE),
      [Session("post", "pi", "sdb", FALSE) EXCEPT !.files = 2],
      Session("post", "pi", "sdb", FALSE) }

AllFaults ==
    { "match", "stat", "open", "which", "start", "child", "read", "lsblk", "udevadm",
      "umount", "userUmounts", "openDevice", "write", "cancel", "verify" }

\* A damaged image and one device, with nothing else going wrong.
OneSession == { Session("command", "kali", "sdb", FALSE) }
OneDirectory == { [here |-> << Damaged >>, output |-> << >>] }
OneStick == { << Internal, Stick >> }
MountedOnce == { << RootMount, Stick1 >> }
=============================================================================
