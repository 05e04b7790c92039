--------------------------- MODULE MCBuildInputs ---------------------------
(* Small instances of BuildInputs for TLC. *)
EXTENDS BuildInputs

CONSTANTS b1, b2

NativeHost == [arch |-> "arm64", path |-> {"qemu-arm-static", "qemu-aarch64-static"},
               embedded |-> {"qemu-arm-static"}]
EmbeddedHost == [arch |-> "amd64", path |-> {"my-qemu"},
                 embedded |-> {"qemu-arm-static", "qemu-aarch64-static"}]

Given(type, url, args, arch, binary) ==
    [type |-> type, url |-> url, mounts |-> << >>, args |-> args, required |-> FALSE,
     arch |-> arch, binary |-> binary, disableEmbedded |-> FALSE]
Plain == Given("", << {"raspios"} >>, << >>, "", "")

\* A type from the URL, given, wrong; no type at all, with mounts and arguments;
\* no URL; a strange architecture; a binary in the PATH, and one nowhere.
SomeRaws ==
    { Given("", << {"bone"} >>, << >>, "arm64", ""),
      Given("kali", << {} >>, << "-cpu" >>, "arm64", "my-qemu"),
      Given("windows", << {"kali", "ubuntu"} >>, << >>, "", ""),
      [Given("", << {} >>, << "-cpu" >>, "arm64", "") EXCEPT !.mounts = << "/" >>],
      Given("", << {} >>, << >>, "", ""),
      Given("beaglebone", << >>, << >>, "mips", "no-qemu"),
      [Plain EXCEPT !.disableEmbedded = TRUE] }

NoEntry == [empty |-> TRUE, start |-> 0, len |-> 0]
Part(start, len) == [empty |-> FALSE, start |-> start, len |-> len]

\* Units of 4 bytes, sectors of 2: an image of 3 units has 6 sectors.  The last
\* entry fills the image; there is room behind it; it is not the last on the disk;
\* one runs into another; there is none; no table.
SomeTables ==
    { << Part(1, 2), Part(3, 3), NoEntry, NoEntry >>,
      << Part(1, 2), NoEntry, Part(4, 1), NoEntry >>,
      << Part(3, 3), Part(1, 2), NoEntry, NoEntry >>,
      << Part(1, 3), Part(3, 3), NoEntry, NoEntry >>,
      [i \in 1..4 |-> NoEntry], NoTable }
OneTable == { << Part(1, 2), Part(3, 3), NoEntry, NoEntry >> }

\* Nothing, a legacy size, targets below, at and above the size, both, one that
\* is negative as an int64, and one that wraps.
Grow(extra_, target) == [extra |-> extra_, target |-> target]
SomeGrows ==
    { Grow(0, 0), Grow(5, 0), Grow(0, 8), Grow(0, 12), Grow(0, 15), Grow(3, 17),
      Grow(2, -1), Grow(0, 34), Grow(0, 44) }

RawImage == [kind |-> "raw", size |-> 3, good |-> 3]
SomeArchives ==
    { [kind |-> kind, size |-> 3, good |-> good] : kind \in {"zip", "packed"}, good \in {1, 3} }
        \cup {[kind |-> "zips", size |-> 3, good |-> 3]}

Request(raw_, host_, grow_, source_, archive_) ==
    [raw |-> raw_, host |-> host_, grow |-> grow_, source |-> source_, archive |-> archive_]
SomeRequests ==
    {Request(r, h, Grow(0, 15), t, RawImage) :
        r \in SomeRaws, h \in {NativeHost, EmbeddedHost}, t \in OneTable}
    \cup {Request(Plain, NativeHost, g, t, RawImage) : g \in SomeGrows, t \in SomeTables}
    \cup {Request(Plain, EmbeddedHost, Grow(0, 15), t, a) :
             t \in OneTable, a \in SomeArchives}

SomeImageFaults == {"open", "match", "stat", "which", "child", "read"}
SomeCacheFaults == {"cache", "extract", "crash"}
SomeFileFaults == {"create", "write", "cancel", "resize"}
=============================================================================
