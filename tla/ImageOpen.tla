----------------------------- MODULE ImageOpen -----------------------------
(***************************************************************************)
(* imageOpener.Open, and the Read and Close of what it returns: a file, an *)
(* entry of a zip file, a decompressor of the Go library (the slow lane),  *)
(* or a child process that reads the file and writes to a pipe (the fast   *)
(* lane).  A component without a specification of its own: ImageFile and   *)
(* FlashSession read through it.                                           *)
(***************************************************************************)
EXTENDS Naturals

CONSTANTS
    PipeSize,  \* the units a pipe holds
    Faults     \* what may fail

ASSUME PipeAssumption == PipeSize \in Nat \ {0}

VARIABLES
    archive,   \* the file: its kind, the units of its image, and how many are good
    file,      \* the os.File
    lane,      \* what Open returned reads from
    child,     \* the decompressor process
    made,      \* the units the decompressor has written
    pipe,      \* those of them that are in the pipe
    readEnd,   \* our end of the pipe
    reaped,    \* the decompressor has been waited for
    taken,     \* the units read
    end,       \* what the last read returned, when it returned no data
    closing    \* where Close is

childVars == <<child, made, pipe>>
imageVars == <<archive, file, lane, childVars, readEnd, reaped, taken, end, closing>>

Archives == [kind : {"raw", "zip", "zips", "packed"}, size : Nat, good : Nat]

ImageMayFail(call) == call \in Faults

NotOpened ==
    /\ file = "none" /\ lane = "none" /\ child = "none" /\ made = 0 /\ pipe = 0
    /\ readEnd = "none" /\ reaped = FALSE /\ taken = 0 /\ end = "none" /\ closing = "no"

-----------------------------------------------------------------------------
(* Open *)

Opened(l, f) ==
    /\ lane' = l /\ file' = f
    /\ child' = (IF l = "fast" THEN "running" ELSE "none")
    /\ readEnd' = (IF l = "fast" THEN "open" ELSE "none")
    /\ UNCHANGED <<archive, made, pipe, reaped, taken, end, closing>>

\* An Open that failed leaves the file as f.
NotOpen(f) == Opened("failed", f)

\* The file type is taken from the first bytes; an error there is dropped, and
\* the file is then read as it is.
FileKind ==
    {archive.kind} \cup (IF ImageMayFail("match") THEN {"raw"} ELSE {})

\* The one path that forgets to close the file: its Stat failed.
OpenRaw == Opened("raw", "open") \/ (ImageMayFail("stat") /\ NotOpen("open"))

\* A damaged zip file may show it here, or only when it is read.
OpenZip ==
    \/ archive.kind = "zip" /\ Opened("zip", "open")
    \/ /\ archive.kind = "zips" \/ archive.good < archive.size \/ ImageMayFail("stat")
       /\ NotOpen("closed")

\* The fast lane if its command is there and starts, else the slow one, which
\* may find a bad header.
Uncompress ==
    \/ Opened("fast", "open")
    \/ /\ ImageMayFail("which") \/ ImageMayFail("start")
       /\ \/ Opened("slow", "open")
          \/ archive.good = 0 /\ archive.size > 0 /\ NotOpen("closed")

Open ==
    /\ lane = "none"
    /\ \/ ImageMayFail("open") /\ NotOpen("none")
       \/ \E kind \in FileKind :
             \/ kind = "raw" /\ OpenRaw
             \/ kind \in {"zip", "zips"} /\ OpenZip
             \/ kind = "packed" /\ Uncompress

-----------------------------------------------------------------------------
(* The decompressor *)

ChildWrites ==
    /\ child = "running" /\ readEnd = "open" /\ pipe < PipeSize /\ made < archive.good
    /\ made' = made + 1 /\ pipe' = pipe + 1
    /\ UNCHANGED <<archive, file, lane, child, readEnd, reaped, taken, end, closing>>

\* It ends at the end of the data, at damage, or at a write nobody will read.
ChildEnds ==
    /\ child = "running"
    /\ \/ made = archive.good
          /\ child' = IF archive.good = archive.size THEN "exited" ELSE "failed"
       \/ readEnd = "closed" /\ made < archive.good /\ child' = "failed"
    /\ UNCHANGED <<archive, file, lane, made, pipe, readEnd, reaped, taken, end, closing>>

\* A signal may end it at any time, but none has to come.
ChildKilled ==
    /\ child = "running" /\ ImageMayFail("child") /\ child' = "failed"
    /\ UNCHANGED <<archive, file, lane, made, pipe, readEnd, reaped, taken, end, closing>>

-----------------------------------------------------------------------------
(* Read *)

\* What the Go library can read of the file: damage shows only to who decompresses.
Readable == IF lane = "raw" THEN archive.size ELSE archive.good

\* A unit is there for the reader.
Ready ==
    \/ lane = "fast" /\ readEnd = "open" /\ pipe > 0
    \/ lane \in {"raw", "zip", "slow"} /\ file = "open" /\ taken < Readable

\* A reader that takes an empty pipe for the end of the data.
EmptyIsEnd ==
    IF lane = "fast" THEN readEnd = "open" /\ pipe = 0
                     ELSE file = "open" /\ taken = archive.size

\* The end of the data: all of it has been read, or the decompressor is gone.
AtEnd ==
    IF lane = "fast" THEN readEnd = "open" /\ pipe = 0 /\ child # "running"
                     ELSE file = "open" /\ taken = archive.size

\* The Go decompressors check the data; a closed file cannot be read.
Damaged ==
    IF lane = "fast" THEN readEnd = "closed"
                     ELSE file = "closed" \/ (taken = Readable /\ taken < archive.size)

ReadUnit ==
    /\ Ready
    /\ taken' = taken + 1 /\ pipe' = IF lane = "fast" THEN pipe - 1 ELSE pipe
    /\ UNCHANGED <<archive, file, lane, child, made, readEnd, reaped, end, closing>>

ReadEnds ==
    /\ lane \in {"raw", "zip", "slow", "fast"} /\ end = "none"
    /\ \/ AtEnd /\ end' = "eof"
       \/ (Damaged \/ ImageMayFail("read")) /\ end' = "error"
    /\ UNCHANGED <<archive, file, lane, childVars, readEnd, reaped, taken, closing>>

-----------------------------------------------------------------------------
(* Close, which callers may call again *)

\* A Close that waits for the decompressor before it closes the pipe.
KeepsPipe == readEnd' = IF closing = "waiting" THEN "closed" ELSE readEnd

ClosesPipe == readEnd' = "closed"

\* A Close that leaves the decompressor to itself.
NeverWaits == FALSE

MustWait == ~reaped

\* The closers of multiCloser, in order; then Wait, which returns at once the
\* second time.  On the fast lane the file itself is no closer.
Close ==
    /\ lane \in {"raw", "zip", "slow", "fast"} /\ closing # "waiting"
    /\ IF lane = "fast"
         THEN /\ ClosesPipe /\ file' = file
              /\ closing' = IF MustWait THEN "waiting" ELSE "closed"
         ELSE file' = "closed" /\ readEnd' = readEnd /\ closing' = "closed"
    /\ UNCHANGED <<archive, lane, childVars, reaped, taken, end>>

Wait ==
    /\ closing = "waiting" /\ child \in {"exited", "failed"}
    /\ closing' = "closed" /\ reaped' = TRUE
    /\ UNCHANGED <<archive, file, lane, childVars, readEnd, taken, end>>

Decompressor == ChildWrites \/ ChildEnds

-----------------------------------------------------------------------------

ImageTypeOK ==
    /\ archive \in Archives
    /\ file \in {"none", "open", "closed"}
    /\ lane \in {"none", "failed", "raw", "zip", "slow", "fast"}
    /\ child \in {"none", "running", "exited", "failed"}
    /\ lane = "fast" <=> child # "none"
    /\ pipe \in 0..PipeSize /\ taken \in Nat
    /\ readEnd \in {"none", "open", "closed"} /\ reaped \in BOOLEAN
    /\ made = (IF lane = "fast" THEN taken + pipe ELSE 0)
    /\ end \in {"none", "eof", "error"} /\ closing \in {"no", "waiting", "closed"}

\* A file that was taken for what it is not.
Misread == lane = "raw" /\ archive.kind # "raw"

\* A Close that is over has left no decompressor behind, and no file but the one
\* the fast lane gave to it.
ClosedForGood ==
    closing = "closed" => child # "running" /\ (file = "closed" \/ lane = "fast")
=============================================================================
