----------------------------- MODULE ImageFile -----------------------------
(***************************************************************************)
(* The steps stepCopyImage and stepResizeLastPart: the downloaded image is *)
(* opened and copied to the output file, the file is grown, and then the   *)
(* last partition in its table.  Sizes are in bytes, a unit of ImageOpen   *)
(* has UnitBytes of them, and the table is in the first unit.              *)
(***************************************************************************)
EXTENDS Integers, Sequences, ImageOpen

CONSTANTS
    UnitBytes,   \* the bytes of a unit
    SectorSize,  \* 1 << SectorShift
    LbaBound,    \* 2^32: what does not fit in an entry of the table
    FileFaults   \* what may fail

ASSUME BytesAssumption ==
    /\ UnitBytes \in Nat \ {0} /\ SectorSize \in Nat \ {0} /\ LbaBound \in Nat \ {0}

VARIABLES
    grow,      \* the configured sizes, as int64
    source,    \* the table of partitions of the image
    stage,     \* where the build is
    size,      \* the size of the output file
    table,     \* the table in it
    extra,     \* the bytes the file grew by
    planned,   \* the table in memory
    failed,    \* the copy returned an error
    watcher    \* the goroutine that waits for an interrupt

outVars == <<size, table, extra, planned>>
buildVars == <<grow, source, stage, outVars, failed, watcher>>
inputVars == <<buildVars, imageVars>>

Entry == [empty : BOOLEAN, start : 0..(LbaBound - 1), len : 0..(LbaBound - 1)]
NoTable == << >>
MBRs == [1..4 -> Entry]

Stages == {"open", "create", "copying", "closing", "resize", "read", "write", "done",
           "halted"}

FileMayFail(call) == call \in FileFaults

FileInit ==
    /\ stage = "open" /\ size = 0 /\ table = NoTable /\ extra = 0 /\ planned = NoTable
    /\ failed = FALSE /\ watcher = "none"
    /\ NotOpened

-----------------------------------------------------------------------------
(* stepCopyImage *)

OpenSource ==
    /\ stage = "open" /\ Open
    /\ stage' = IF lane' = "failed" THEN "halted" ELSE "create"
    /\ UNCHANGED <<grow, source, outVars, failed, watcher>>

\* MkdirAll and Create; then the goroutine that watches for an interrupt starts.
CreateOutput ==
    /\ stage = "create"
    /\ \/ stage' = "copying" /\ watcher' = "polling" /\ failed' = failed
       \/ FileMayFail("create") /\ stage' = "closing" /\ failed' = TRUE /\ watcher' = watcher
    /\ UNCHANGED <<grow, source, outVars, imageVars>>

CopyToFile ==
    /\ stage = "copying" /\ ReadUnit
    /\ \/ /\ size' = size + UnitBytes /\ table' = (IF Misread THEN NoTable ELSE source)
          /\ UNCHANGED <<stage, failed>>
       \/ FileMayFail("write") /\ stage' = "closing" /\ failed' = TRUE
          /\ UNCHANGED <<size, table>>
    /\ UNCHANGED <<grow, source, extra, planned, watcher>>

\* A copy that drops the error, as flash does.
ErrorDropped == FALSE

CopyFailed == end' = "error"

CopyToFileEnds ==
    /\ stage = "copying" /\ stage' = "closing"
    /\ \/ ReadEnds /\ failed' = CopyFailed
       \/ FileMayFail("cancel") /\ failed' = TRUE /\ UNCHANGED imageVars
    /\ UNCHANGED <<grow, source, outVars, watcher>>

\* Nothing tells the watcher that the copy is over.
NotTold == FALSE

\* copy_progress has closed done.
Done == stage \notin {"open", "create", "copying"}

\* The break only leaves the select, so the watcher never cancels the copy: all
\* it does is to end.
WatcherEnds ==
    /\ watcher = "polling" /\ Done /\ watcher' = "gone"
    /\ UNCHANGED <<grow, source, stage, outVars, failed, imageVars>>

CloseSource ==
    /\ stage = "closing"
    /\ \/ closing = "no" /\ Close /\ stage' = stage
       \/ closing = "closed" /\ stage' = (IF failed THEN "halted" ELSE "resize")
          /\ UNCHANGED imageVars
    /\ UNCHANGED <<grow, source, outVars, failed, watcher>>

WaitForSource == Wait /\ UNCHANGED buildVars

-----------------------------------------------------------------------------
(* stepResizeLastPart *)

Growth == IF grow.target > 0 THEN grow.target - size ELSE grow.extra

\* A target below the size is an error, one at the size is nothing to do.
ResizeFile ==
    /\ stage = "resize"
    /\ \/ /\ \/ grow.extra <= 0 /\ grow.target <= 0
             \/ grow.target > 0 /\ grow.target = size
          /\ stage' = "done" /\ UNCHANGED outVars
       \/ /\ grow.extra > 0 \/ grow.target > 0
          /\ \/ grow.target > 0 /\ grow.target < size
             \/ FileMayFail("resize")
          /\ stage' = "halted" /\ UNCHANGED outVars
       \/ /\ IF grow.target > 0 THEN grow.target > size ELSE grow.extra > 0
          /\ stage' = "read" /\ extra' = Growth
          /\ size' = (IF grow.target > 0 THEN grow.target ELSE size + grow.extra)
          /\ UNCHANGED <<table, planned>>
    /\ UNCHANGED <<grow, source, failed, watcher, imageVars>>

Used(t) == {i \in DOMAIN t : ~t[i].empty}
EndOf(e) == e.start + e.len

\* mbr.Read: a signature, no partition beyond the bound, and none that starts
\* inside another one; two that start at the same sector pass.
Checks(t) ==
    /\ t # NoTable
    /\ \A l \in Used(t) :
          /\ EndOf(t[l]) < LbaBound
          /\ \A r \in Used(t) :
                ~(t[l].start > t[r].start /\ t[l].start < EndOf(t[r]))

\* A choice of the first partition that is not empty.
FirstUsed(t) == CHOOSE i \in Used(t) : \A j \in Used(t) : i <= j

\* The last entry of the table that is not empty.
LastUsed(t) == CHOOSE i \in Used(t) : \A j \in Used(t) : j <= i

\* A count of sectors that is rounded up.
RoundedUp(bytes) == ((bytes + SectorSize - 1) \div SectorSize) % LbaBound

ExtraSectors(bytes) == (bytes \div SectorSize) % LbaBound

\* An entry that is wider than 32 bits.
GrowWide(t, bytes) == [t EXCEPT ![LastUsed(t)].len = @ + bytes \div SectorSize]

GrowLast(t, bytes) ==
    [t EXCEPT ![LastUsed(t)].len = (@ + ExtraSectors(bytes)) % LbaBound]

ReadTable ==
    /\ stage = "read"
    /\ \/ /\ Checks(table) /\ Used(table) # {}
          /\ planned' = GrowLast(table, extra) /\ stage' = "write"
       \/ /\ ~Checks(table) \/ Used(table) = {} \/ FileMayFail("resize")
          /\ stage' = "halted" /\ planned' = planned
    /\ UNCHANGED <<grow, source, size, table, extra, failed, watcher, imageVars>>

\* The sector of the table is written whole or not at all.
WriteTable ==
    /\ stage = "write"
    /\ \/ table' = planned /\ stage' = "done"
       \/ FileMayFail("resize") /\ stage' = "halted" /\ table' = table
    /\ UNCHANGED <<grow, source, size, extra, planned, failed, watcher, imageVars>>

CopySteps ==
    OpenSource \/ CreateOutput \/ CopyToFile \/ CopyToFileEnds \/ CloseSource
               \/ WaitForSource
ResizeSteps == ResizeFile \/ ReadTable \/ WriteTable
FileSteps == CopySteps \/ ResizeSteps

UncompressSource == Decompressor /\ UNCHANGED buildVars
KillSource == ChildKilled /\ UNCHANGED buildVars

-----------------------------------------------------------------------------
(* Properties *)

FileTypeOK ==
    /\ ImageTypeOK
    /\ grow \in [extra : Int, target : Int] /\ source \in MBRs \cup {NoTable}
    /\ stage \in Stages /\ size \in Nat /\ extra \in Nat
    /\ table \in MBRs \cup {NoTable} /\ planned \in MBRs \cup {NoTable}
    /\ failed \in BOOLEAN /\ watcher \in {"none", "polling", "gone"}

FitsIn(t, bytes) == \A i \in Used(t) : EndOf(t[i]) * SectorSize <= bytes
Disjoint(t) ==
    \A i, j \in Used(t) :
       i # j => EndOf(t[i]) <= t[j].start \/ EndOf(t[j]) <= t[i].start

Copied == stage \in {"resize", "read", "write", "done"}

\* The image was copied whole and its partitions lie within it; the file has been
\* grown, but not beyond what an entry of the table can reach.
Before == archive.size * UnitBytes
Sound == taken = archive.size /\ FitsIn(source, Before)
Resized == stage = "done" /\ Before < size /\ size < LbaBound * SectorSize /\ Sound

\* The entry is the last one of the table that is not empty, and on the disk.
LastInBoth(i) ==
    i \in Used(source) /\ \A j \in Used(source) \ {i} :
                             j < i /\ source[j].start < source[i].start

\* The build goes on only with the whole image, unless the decompressor failed
\* unnoticed: every other error of the copy halts it.
CopiedIsWhole ==
    Copied => taken = archive.size \/ child = "failed" \/ Misread

\* Every partition lies within the file at every moment, wherever the resize is
\* broken off: the file grows first, by no less than its table will.
PartitionsInFile ==
    Sound /\ (Copied \/ (stage = "halted" /\ ~failed)) => FitsIn(table, size)

\* The last partition that is grown runs into no other one, if the last entry of
\* the table is the last one on the disk, and its sectors still fit in the entry.
GrownStaysDisjoint ==
    Resized /\ Disjoint(source) /\ (\E i \in DOMAIN source : LastInBoth(i)) =>
    Disjoint(table)

\* A last partition that filled the image fills the file again, but for less than
\* a sector, with the same proviso.
LastPartitionFills ==
    Resized => \A i \in DOMAIN source :
       LastInBoth(i) /\ EndOf(source[i]) * SectorSize = Before =>
       size - EndOf(table[i]) * SectorSize \in 0..(SectorSize - 1)

\* Both: the last partition takes the room that was added, and nobody else's.
LastTakesTheRoom == GrownStaysDisjoint /\ LastPartitionFills

-----------------------------------------------------------------------------
(* Why: the file and its table, step by step. *)

FileInv ==
    /\ taken \in Nat /\ size \in Nat /\ extra \in Nat /\ stage \in Stages
    /\ source \in MBRs \cup {NoTable} /\ grow.extra \in Int /\ grow.target \in Int
    /\ ~failed => size >= taken * UnitBytes
    /\ stage \in {"open", "create"} => taken = 0 /\ size = 0
    /\ stage \in {"open", "create", "copying"} => ~failed
    /\ Copied => ~failed
    /\ stage \in {"read", "write"} => size >= taken * UnitBytes + extra
    /\ stage = "write" => planned = GrowLast(source, extra) /\ Used(source) # {}
    /\ \/ table \in {NoTable, source}
       \/ /\ stage = "done" /\ size >= taken * UnitBytes + extra
          /\ table = GrowLast(source, extra) /\ Used(source) # {}
=============================================================================
