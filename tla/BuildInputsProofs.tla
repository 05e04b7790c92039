------------------------- MODULE BuildInputsProofs -------------------------
(***************************************************************************)
(* A build with its image file and its configuration uses the cache as     *)
(* QemuCache says, so what is proved there holds of it; and, for all       *)
(* sizes, its image is copied whole, its partitions lie in its file at     *)
(* every moment, and the last one takes the room that was added.           *)
(***************************************************************************)
EXTENDS BuildInputs, QemuCacheProofs

\* The builds of BuildInputs implement QemuCache.
THEOREM ImplementsCache == Spec => CacheSpec
<1>1. Init => CacheInit
      BY DEF Init
<1>2. [Next]_inputsVars => [CacheNext]_cacheVars
  <2> SUFFICES ASSUME [Next]_inputsVars PROVE [CacheNext]_cacheVars
      OBVIOUS
  <2>1. CASE PrepareMine
        BY <2>1, MineAssumption DEF PrepareMine, CacheNext
  <2>2. CASE MakeFile
        BY <2>2 DEF MakeFile
  <2>3. CASE InstallMine
        BY <2>3, MineAssumption DEF InstallMine, CacheNext
  <2>4. CASE Watch \/ Uncompressing \/ Killed
        BY <2>4 DEF Watch, Uncompressing, Killed
  <2>5. CASE OthersPrepare
        BY <2>5 DEF OthersPrepare, CacheNext
  <2>6. CASE CrashMine
        BY <2>6, MineAssumption DEF CrashMine, CacheNext
  <2>7. CASE Over \/ UNCHANGED inputsVars
        BY <2>7 DEF Over, inputsVars
  <2> QED BY <2>1, <2>2, <2>3, <2>4, <2>5, <2>6, <2>7 DEF Next, Alone
<1> QED BY <1>1, <1>2, PTL DEF Spec, CacheSpec

\* Hence what builds leave in the cache, and what they take from it, is whole
\* whatever the build does beside it.
THEOREM BuildBinaryWhole == Spec => []BinaryIsWhole
<1>1. CacheIsWhole /\ InstalledWhole => BinaryIsWhole
      BY DEF BinaryIsWhole
<1> QED BY <1>1, ImplementsCache, CacheWhole, InstallWhole, PTL

-----------------------------------------------------------------------------
(* The partitions lie in the file *)

\* A table with an entry that is used has a last one.
LEMMA LastUsedIsUsed ==
    ASSUME NEW t \in MBRs, Used(t) # {}
    PROVE  LastUsed(t) \in Used(t) /\ \A j \in Used(t) : j <= LastUsed(t)
<1>1. Used(t) \subseteq 1..4
      BY DEF Used, MBRs
<1>2. \E i \in Used(t) : \A j \in Used(t) : j <= i
  <2>1. CASE 4 \in Used(t)
        BY <2>1, <1>1
  <2>2. CASE 4 \notin Used(t) /\ 3 \in Used(t)
        BY <2>2, <1>1
  <2>3. CASE 4 \notin Used(t) /\ 3 \notin Used(t) /\ 2 \in Used(t)
        BY <2>3, <1>1
  <2>4. CASE 4 \notin Used(t) /\ 3 \notin Used(t) /\ 2 \notin Used(t)
        BY <2>4, <1>1
  <2> QED BY <2>1, <2>2, <2>3, <2>4
<1> QED BY <1>2 DEF LastUsed

\* The sectors a partition grows by take no more than the bytes.
LEMMA SectorsFit ==
    ASSUME NEW bytes \in Nat
    PROVE  /\ ExtraSectors(bytes) \in Nat
           /\ ExtraSectors(bytes) * SectorSize <= bytes
<1>1. SectorSize \in Nat \ {0} /\ LbaBound \in Nat \ {0}
      BY BytesAssumption
<1> DEFINE q == bytes \div SectorSize
<1>2. q \in Nat /\ q * SectorSize <= bytes
      BY <1>1
<1>3. q % LbaBound \in Nat /\ q % LbaBound <= q
      BY <1>1, <1>2
<1>4. (q % LbaBound) * SectorSize <= q * SectorSize
  <2> HIDE DEF q
  <2> QED BY <1>1, <1>2, <1>3
<1>5. (q % LbaBound) * SectorSize \in Nat /\ q * SectorSize \in Nat
  <2> HIDE DEF q
  <2> QED BY <1>1, <1>2, <1>3
<1>6. ExtraSectors(bytes) = q % LbaBound
      BY DEF ExtraSectors
<1> HIDE DEF q
<1> QED BY <1>2, <1>3, <1>4, <1>5, <1>6

\* A table whose last partition grows by no more than the file still fits in it.
LEMMA GrownFits ==
    ASSUME NEW t \in MBRs, Used(t) # {}, NEW bytes \in Nat, NEW b \in Nat,
           FitsIn(t, b), NEW s \in Nat, s >= b + bytes
    PROVE  FitsIn(GrowLast(t, bytes), s)
<1> DEFINE g == GrowLast(t, bytes)
           last == LastUsed(t)
           more == ExtraSectors(bytes)
<1>1. SectorSize \in Nat \ {0} /\ LbaBound \in Nat \ {0}
      BY BytesAssumption
<1>2. last \in Used(t) /\ last \in 1..4
      BY LastUsedIsUsed DEF Used, MBRs
<1>3. more \in Nat /\ more * SectorSize <= bytes
      BY SectorsFit
<1>4. \A i \in 1..4 : t[i].start \in Nat /\ t[i].len \in Nat /\ t[i] \in Entry
      BY <1>1 DEF MBRs, Entry
<1>5. /\ DOMAIN g = 1..4 /\ DOMAIN t = 1..4
      /\ \A i \in 1..4 : g[i].empty = t[i].empty /\ g[i].start = t[i].start
      /\ \A i \in 1..4 \ {last} : g[i].len = t[i].len
      /\ g[last].len = (t[last].len + more) % LbaBound
      BY <1>2, <1>4 DEF GrowLast, MBRs, Entry
<1> HIDE DEF g, last, more
<1>6. g[last].len \in Nat /\ g[last].len <= t[last].len + more
  <2>1. t[last].len + more \in Nat
        BY <1>2, <1>3, <1>4
  <2>2. \A x \in Nat : x % LbaBound \in Nat /\ x % LbaBound <= x
        BY <1>1
  <2> QED BY <1>5, <2>1, <2>2
<1>7. ASSUME NEW i \in 1..4, ~t[i].empty
      PROVE  (g[i].start + g[i].len) * SectorSize <= s
  <2>1. (t[i].start + t[i].len) * SectorSize <= b
        BY <1>5, <1>7 DEF FitsIn, EndOf, Used
  <2>2. CASE i # last
    <3>1. g[i].start = t[i].start /\ g[i].len = t[i].len
          BY <2>2, <1>5
    <3>2. (t[i].start + t[i].len) * SectorSize \in Nat
          BY <1>1, <1>4
    <3> QED BY <2>1, <3>1, <3>2
  <2>3. CASE i = last
    <3> DEFINE e == t[i].start + t[i].len
               n == g[i].start + g[i].len
    <3>1. e \in Nat /\ n \in Nat /\ n <= e + more
          BY <2>3, <1>3, <1>4, <1>5, <1>6
    <3>2. e * SectorSize <= b
          BY <2>1
    <3> HIDE DEF e, n
    <3>3. n * SectorSize <= (e + more) * SectorSize
          BY <3>1, <1>1, <1>3
    <3>4. (e + more) * SectorSize = e * SectorSize + more * SectorSize
          BY <3>1, <1>1, <1>3
    <3>5. n * SectorSize <= s
          BY <3>1, <3>2, <3>3, <3>4, <1>1, <1>3
    <3> QED BY <3>5 DEF n
  <2> QED BY <2>2, <2>3
<1>8. \A i \in Used(g) : i \in 1..4 /\ ~t[i].empty
      BY <1>5 DEF Used
<1>9. FitsIn(g, s)
      BY <1>7, <1>8 DEF FitsIn, EndOf
<1> QED BY <1>9 DEF g

\* Opening, and what the decompressor does, reads nothing.
LEMMA TakesNothing ==
    Open \/ Close \/ Wait \/ ReadEnds \/ Decompressor \/ ChildKilled => taken' = taken
BY DEF Open, OpenRaw, OpenZip, Uncompress, NotOpen, Opened, Close, Wait, ReadEnds,
       Decompressor, ChildWrites, ChildEnds, ChildKilled

\* There is no file yet.
LEMMA FileInitInv == Init => FileInv
<1> SUFFICES ASSUME Init PROVE FileInv
    OBVIOUS
<1>1. source \in MBRs \cup {NoTable} /\ grow.extra \in Int /\ grow.target \in Int
      BY RequestsAssumption DEF Init
<1>2. taken = 0 /\ size = 0 /\ extra = 0 /\ stage = "open" /\ ~failed /\ table = NoTable
      BY DEF Init, FileInit, NotOpened
<1>3. 0 * UnitBytes = 0
      BY BytesAssumption
<1> QED BY <1>1, <1>2, <1>3 DEF FileInv, Stages, Copied

\* The copy leaves a file of at least what was read, and the image's table.
LEMMA CopyKeeps == ASSUME FileInv, CopySteps PROVE FileInv'
<1> USE DEF FileInv, outVars, buildVars, imageVars, childVars
<1>1. UnitBytes \in Nat \ {0} /\ taken * UnitBytes \in Nat
      BY BytesAssumption
<1>2. CASE OpenSource
  <2>1. taken' = taken
        BY <1>2, TakesNothing DEF OpenSource
  <2> QED BY <1>2, <2>1 DEF OpenSource, Stages, Copied
<1>3. CASE CreateOutput
      BY <1>3 DEF CreateOutput, Stages, Copied
<1>4. CASE CopyToFile
  <2>1. taken' = taken + 1 /\ stage = "copying"
        BY <1>4 DEF CopyToFile, ReadUnit
  <2>2. (taken + 1) * UnitBytes = taken * UnitBytes + UnitBytes
        BY <1>1
  <2>3. CASE size' = size + UnitBytes /\ UNCHANGED <<stage, failed>>
    <3>1. size' >= taken' * UnitBytes /\ size' \in Nat
          BY <2>1, <2>2, <2>3, <1>1
    <3>2. table' \in {NoTable, source}
          BY <1>4, <2>1, <2>3 DEF CopyToFile
    <3> QED BY <1>4, <2>1, <2>3, <3>1, <3>2 DEF CopyToFile, Stages, Copied
  <2>4. CASE stage' = "closing" /\ failed' = TRUE /\ UNCHANGED <<size, table>>
        BY <1>4, <2>1, <2>4 DEF CopyToFile, Stages, Copied
  <2> QED BY <1>4, <2>3, <2>4 DEF CopyToFile
<1>5. CASE CopyToFileEnds
  <2>1. taken' = taken
        BY <1>5, TakesNothing DEF CopyToFileEnds
  <2> QED BY <1>5, <2>1 DEF CopyToFileEnds, Stages, Copied
<1>6. CASE CloseSource
  <2>1. taken' = taken
        BY <1>6, TakesNothing DEF CloseSource
  <2> QED BY <1>6, <2>1 DEF CloseSource, Stages, Copied
<1>7. CASE WaitForSource
  <2>1. taken' = taken
        BY <1>7, TakesNothing DEF WaitForSource
  <2> QED BY <1>7, <2>1 DEF WaitForSource, Stages, Copied
<1> QED BY <1>2, <1>3, <1>4, <1>5, <1>6, <1>7 DEF CopySteps

\* A file that was at least b long is at least e longer than that once it grew by e.
LEMMA GrowsBeyond ==
    ASSUME NEW a \in Nat, NEW b \in Nat, NEW e \in Nat, a >= b
    PROVE  a + e \in Nat /\ a + e >= b + e
OBVIOUS

\* The resize grows the file before the table.
LEMMA ResizeKeeps == ASSUME FileInv, ResizeSteps PROVE FileInv'
<1> USE DEF FileInv, outVars, imageVars, childVars
<1>1. UnitBytes \in Nat \ {0} /\ taken * UnitBytes \in Nat
      BY BytesAssumption
<1>2. CASE ResizeFile
  <2>1. CASE stage' # "read"
        BY <1>2, <2>1 DEF ResizeFile, Stages, Copied
  <2>2. CASE stage' = "read"
    <3>1. extra' \in Nat /\ size' = size + extra'
          BY <1>2, <2>2 DEF ResizeFile, Growth
    <3>2. size \in Nat /\ size >= taken * UnitBytes
          BY <1>2 DEF ResizeFile, Copied
    <3>3. size' \in Nat /\ size' >= taken * UnitBytes + extra'
          BY <1>1, <3>1, <3>2, GrowsBeyond
    <3> QED BY <1>1, <1>2, <2>2, <3>1, <3>2, <3>3 DEF ResizeFile, Stages, Copied
  <2> QED BY <2>1, <2>2
<1>3. CASE ReadTable
  <2>1. CASE stage' = "write"
    <3>1. table = source /\ Used(source) # {}
          BY <1>3, <2>1 DEF ReadTable, Checks
    <3> QED BY <1>3, <2>1, <3>1 DEF ReadTable, Stages, Copied
  <2>2. CASE stage' = "halted"
        BY <1>1, <1>3, <2>2 DEF ReadTable, Stages, Copied
  <2> QED BY <1>3, <2>1, <2>2 DEF ReadTable
<1>4. CASE WriteTable
  <2>1. CASE stage' = "done"
        BY <1>1, <1>4, <2>1 DEF WriteTable, Stages, Copied
  <2>2. CASE stage' = "halted"
        BY <1>1, <1>4, <2>2 DEF WriteTable, Stages, Copied
  <2> QED BY <1>4, <2>1, <2>2 DEF WriteTable
<1> QED BY <1>2, <1>3, <1>4 DEF ResizeSteps

\* Steps that leave the file alone keep the invariant.
LEMMA FileUnchanged ==
    ASSUME FileInv, taken' = taken,
           UNCHANGED <<grow, source, stage, outVars, failed>>
    PROVE  FileInv'
BY DEF FileInv, outVars, Copied

\* Every step of the build keeps the invariant.
LEMMA BuildKeepsFile == FileInv /\ [Next]_inputsVars => FileInv'
<1> SUFFICES ASSUME FileInv, [Next]_inputsVars PROVE FileInv'
    OBVIOUS
<1>1. CASE MakeFile
      BY <1>1, CopyKeeps, ResizeKeeps DEF MakeFile, FileSteps
<1>2. CASE Uncompressing \/ Killed
      BY <1>2, TakesNothing, FileUnchanged
         DEF Uncompressing, Killed, UncompressSource, KillSource, buildVars
<1>3. CASE Watch
      BY <1>3, FileUnchanged DEF Watch, WatcherEnds, imageVars, childVars
<1>4. CASE PrepareMine \/ InstallMine \/ OthersPrepare \/ CrashMine \/ Over
           \/ UNCHANGED inputsVars
      BY <1>4, FileUnchanged
         DEF PrepareMine, InstallMine, OthersPrepare, CrashMine, Over, inputsVars,
             inputVars, buildVars, imageVars, childVars
<1> QED BY <1>1, <1>2, <1>3, <1>4 DEF Next, Alone

\* The inductive invariant of the file holds in every behaviour.
THEOREM FileInvariant == Spec => []FileInv
BY FileInitInv, BuildKeepsFile, PTL DEF Spec

\* Wherever the build stands or was broken off after the copy, every partition of
\* the table in the file lies within the file, for every size of the image, of the
\* sectors and of the growth, wrapped or not (step_resize_last_partition.go:56-100).
THEOREM PartitionsStayInFile == Spec => []PartitionsInFile
<1>1. FileInv => PartitionsInFile
  <2> SUFFICES ASSUME FileInv, Sound, Copied \/ (stage = "halted" /\ ~failed)
               PROVE  FitsIn(table, size)
      BY DEF PartitionsInFile
  <2>1. /\ taken = archive.size /\ UnitBytes \in Nat /\ SectorSize \in Nat /\ taken \in Nat
        /\ LbaBound \in Nat
        BY BytesAssumption DEF Sound, FileInv
  <2> DEFINE b == taken * UnitBytes
  <2>2. b \in Nat /\ FitsIn(source, b)
        BY <2>1 DEF Sound, Before
  <2>3. size \in Nat /\ size >= b
        BY DEF FileInv, Copied
  <2> HIDE DEF b
  <2>4. CASE table = NoTable
        BY <2>4 DEF FitsIn, Used, NoTable
  <2>5. CASE table = source /\ source \in MBRs
    <3> SUFFICES ASSUME NEW i \in Used(source)
                 PROVE  EndOf(source[i]) * SectorSize <= size
        BY <2>5 DEF FitsIn
    <3>1. EndOf(source[i]) \in Nat
          BY <2>1, <2>5 DEF MBRs, Entry, EndOf, Used
    <3>2. EndOf(source[i]) * SectorSize \in Nat /\ EndOf(source[i]) * SectorSize <= b
          BY <2>1, <2>2, <3>1 DEF FitsIn
    <3> QED BY <2>2, <2>3, <3>2
  <2>6. CASE /\ size >= b + extra /\ table = GrowLast(source, extra)
             /\ Used(source) # {} /\ source \in MBRs
    <3>1. extra \in Nat
          BY DEF FileInv
    <3> QED BY <2>2, <2>3, <2>6, <3>1, GrownFits
  <2> QED BY <2>4, <2>5, <2>6 DEF FileInv, NoTable, Used, b
<1> QED BY <1>1, FileInvariant, PTL

-----------------------------------------------------------------------------
(* The image is copied whole *)

\* What has been read of the image, and where the copy is with it: data ends when
\* all of it was read, or when the decompressor failed; a copy that goes on has
\* met the end of the data and no error.
CopyInv ==
    /\ ImageTypeOK
    /\ child = "exited" => made = archive.good /\ archive.good = archive.size
    /\ end = "eof" => taken = archive.size \/ child = "failed"
    /\ stage = "open" => NotOpened
    /\ stage \in {"open", "create", "copying"} => end = "none"
    /\ (stage = "closing" \/ Copied) /\ ~failed => end = "eof"

\* What Open leaves.
LEMMA OpenEffect ==
    ASSUME Open
    PROVE  /\ lane' \in {"failed", "raw", "zip", "slow", "fast"}
           /\ file' \in {"none", "open", "closed"}
           /\ child' = (IF lane' = "fast" THEN "running" ELSE "none")
           /\ readEnd' = (IF lane' = "fast" THEN "open" ELSE "none")
           /\ UNCHANGED <<archive, made, pipe, reaped, taken, end, closing>>
<1>1. \E l \in {"failed", "raw", "zip", "slow", "fast"}, f \in {"none", "open", "closed"} :
         Opened(l, f)
  <2>1. CASE NotOpen("none")
        BY <2>1 DEF NotOpen
  <2>2. CASE OpenRaw
        BY <2>2 DEF OpenRaw, NotOpen
  <2>3. CASE OpenZip
        BY <2>3 DEF OpenZip, NotOpen
  <2>4. CASE Uncompress
        BY <2>4 DEF Uncompress, NotOpen
  <2> QED BY <2>1, <2>2, <2>3, <2>4 DEF Open
<1> QED BY <1>1 DEF Opened

\* Nothing has been opened when a build begins.
LEMMA CopyInit == Init => CopyInv
<1> SUFFICES ASSUME Init PROVE CopyInv
    OBVIOUS
<1>1. NotOpened /\ stage = "open"
      BY DEF Init, FileInit
<1>2. archive \in Archives
      BY RequestsAssumption DEF Init
<1>3. pipe \in 0..PipeSize /\ taken \in Nat /\ made = 0
      BY <1>1, PipeAssumption DEF NotOpened
<1>4. ImageTypeOK
      BY <1>1, <1>2, <1>3 DEF NotOpened, ImageTypeOK
<1>5. end = "none" /\ child = "none"
      BY <1>1 DEF NotOpened
<1> QED BY <1>1, <1>4, <1>5 DEF CopyInv, Copied

\* The decompressor ends at the end of the data, or it failed.
LEMMA DecompressorKeeps ==
    ASSUME CopyInv, Decompressor \/ ChildKilled, UNCHANGED buildVars PROVE CopyInv'
<1> USE DEF CopyInv, ImageTypeOK, buildVars
<1>1. PipeSize \in Nat
      BY PipeAssumption
<1>2. child = "running" /\ stage # "open" /\ lane = "fast"
      BY DEF Decompressor, ChildWrites, ChildEnds, ChildKilled, NotOpened
<1>3. CASE ChildWrites
  <2>1. made' = taken' + pipe' /\ pipe' \in 0..PipeSize
        BY <1>1, <1>2, <1>3 DEF ChildWrites
  <2> QED BY <1>2, <1>3, <2>1 DEF ChildWrites, Copied
<1>4. CASE ChildEnds
  <2>1. child' = "failed" \/ (child' = "exited" /\ made = archive.good /\ archive.good = archive.size)
        BY <1>4 DEF ChildEnds
  <2>2. UNCHANGED <<archive, file, lane, made, pipe, readEnd, reaped, taken, end, closing>>
        BY <1>4 DEF ChildEnds
  <2> QED BY <1>2, <2>1, <2>2 DEF Copied
<1>5. CASE ChildKilled
      BY <1>2, <1>5 DEF ChildKilled, Copied
<1> QED BY <1>3, <1>4, <1>5 DEF Decompressor

\* A unit that is read is none of those that are left in the pipe.
LEMMA ReadKeeps ==
    ASSUME CopyInv, ReadUnit PROVE ImageTypeOK'
<1> USE DEF CopyInv, ImageTypeOK, ReadUnit
<1>1. PipeSize \in Nat
      BY PipeAssumption
<1>2. CASE lane = "fast"
  <2>1. pipe > 0 /\ pipe' = pipe - 1 /\ taken' = taken + 1
        BY <1>2 DEF Ready
  <2>2. pipe' \in 0..PipeSize /\ taken' \in Nat /\ made = taken' + pipe'
        BY <1>1, <1>2, <2>1
  <2> QED BY <1>2, <2>2
<1>3. CASE lane # "fast"
      BY <1>3
<1> QED BY <1>2, <1>3

\* A read that says the data has ended, and what it then knows.
LEMMA EndKnown ==
    ASSUME CopyInv, ReadEnds
    PROVE  /\ ImageTypeOK'
           /\ end' \in {"eof", "error"}
           /\ end' = "eof" => taken = archive.size \/ child = "failed"
           /\ UNCHANGED <<archive, file, lane, childVars, readEnd, reaped, taken, closing>>
<1>1. UNCHANGED <<archive, file, lane, childVars, readEnd, reaped, taken, closing>>
      BY DEF ReadEnds
<1>2. end' \in {"eof", "error"} /\ (end' = "eof" => AtEnd)
      BY DEF ReadEnds
<1>3. ImageTypeOK'
      BY <1>1, <1>2 DEF CopyInv, ImageTypeOK, childVars
<1>4. ASSUME AtEnd PROVE taken = archive.size \/ child = "failed"
  <2>1. CASE lane = "fast"
    <3>1. pipe = 0 /\ child # "running" /\ child # "none" /\ made = taken + pipe /\ taken \in Nat
          BY <1>4, <2>1 DEF AtEnd, CopyInv, ImageTypeOK
    <3>2. child = "exited" => taken = archive.size
          BY <3>1 DEF CopyInv
    <3> QED BY <3>1, <3>2 DEF CopyInv, ImageTypeOK
  <2>2. CASE lane # "fast"
        BY <1>4, <2>2 DEF AtEnd
  <2> QED BY <2>1, <2>2
<1> QED BY <1>1, <1>2, <1>3, <1>4

\* The copy goes on only after the end of the data.
LEMMA CopyingKeeps == ASSUME CopyInv, FileInv, CopySteps PROVE CopyInv'
<1> USE DEF outVars, buildVars, imageVars, childVars
<1>1. CASE OpenSource
  <2>1. NotOpened /\ stage = "open" /\ stage' \in {"create", "halted"} /\ failed' = failed
        BY <1>1 DEF OpenSource, CopyInv
  <2>2. Open
        BY <1>1 DEF OpenSource
  <2>3. ImageTypeOK' /\ end' = "none" /\ child' # "exited"
    <3>1. PipeSize \in Nat
          BY PipeAssumption
    <3> QED BY <2>1, <2>2, <3>1, OpenEffect DEF CopyInv, ImageTypeOK, NotOpened
  <2> QED BY <2>1, <2>3 DEF CopyInv, Copied
<1>2. CASE CreateOutput
      BY <1>2 DEF CreateOutput, CopyInv, ImageTypeOK, Copied
<1>3. CASE CopyToFile
  <2>1. ReadUnit /\ stage = "copying" /\ ~failed /\ ImageTypeOK'
        BY <1>3, ReadKeeps DEF CopyToFile, FileInv
  <2>2. UNCHANGED <<archive, child, made, end>> /\ end = "none"
        BY <2>1 DEF ReadUnit, CopyInv
  <2>3. (stage' = "copying" /\ failed' = failed) \/ (stage' = "closing" /\ failed' = TRUE)
        BY <1>3, <2>1 DEF CopyToFile
  <2> QED BY <2>1, <2>2, <2>3 DEF CopyInv, Copied
<1>4. CASE CopyToFileEnds
  <2>1. stage = "copying" /\ stage' = "closing"
        BY <1>4 DEF CopyToFileEnds
  <2>2. CASE ReadEnds /\ failed' = CopyFailed
        BY <2>1, <2>2, EndKnown DEF CopyInv, CopyFailed, Copied
  <2>3. CASE failed' = TRUE /\ UNCHANGED imageVars
        BY <2>1, <2>3 DEF CopyInv, ImageTypeOK, Copied
  <2> QED BY <1>4, <2>2, <2>3 DEF CopyToFileEnds
<1>5. CASE CloseSource
  <2>1. /\ stage = "closing" /\ stage' \in {"closing", "halted", "resize"} /\ failed' = failed
        /\ stage' = "resize" => ~failed
        BY <1>5 DEF CloseSource
  <2>2. CASE Close
    <3>1. ImageTypeOK' /\ UNCHANGED <<archive, childVars, taken, end>>
      <4>1. UNCHANGED <<archive, lane, childVars, reaped, taken, end>>
            BY <2>2 DEF Close
      <4>2. file' \in {"none", "open", "closed"} /\ readEnd' \in {"none", "open", "closed"}
            BY <2>2 DEF Close, ClosesPipe, CopyInv, ImageTypeOK
      <4>3. closing' \in {"no", "waiting", "closed"}
            BY <2>2 DEF Close
      <4> QED BY <4>1, <4>2, <4>3 DEF CopyInv, ImageTypeOK
    <3> QED BY <2>1, <3>1 DEF CopyInv, Copied
  <2>3. CASE UNCHANGED imageVars
        BY <2>1, <2>3 DEF CopyInv, ImageTypeOK, Copied
  <2> QED BY <1>5, <2>2, <2>3 DEF CloseSource
<1>6. CASE WaitForSource
  <2>1. ImageTypeOK' /\ UNCHANGED <<archive, childVars, taken, end, stage, failed>>
        BY <1>6 DEF WaitForSource, Wait, CopyInv, ImageTypeOK
  <2>2. stage # "open"
        BY <1>6 DEF WaitForSource, Wait, CopyInv, NotOpened
  <2> QED BY <2>1, <2>2 DEF CopyInv, Copied
<1> QED BY <1>1, <1>2, <1>3, <1>4, <1>5, <1>6 DEF CopySteps

\* What leaves the image, the stage and the copy alone.
LEMMA CopyUnchanged ==
    ASSUME CopyInv, UNCHANGED <<imageVars, stage, failed>> PROVE CopyInv'
BY DEF CopyInv, ImageTypeOK, NotOpened, Copied, imageVars, childVars

\* Every step of the build keeps the invariant of the copy.
LEMMA BuildKeepsCopy == CopyInv /\ FileInv /\ [Next]_inputsVars => CopyInv'
<1> SUFFICES ASSUME CopyInv, FileInv, [Next]_inputsVars PROVE CopyInv'
    OBVIOUS
<1>1. CASE MakeFile
  <2>1. CASE ResizeSteps
    <3>1. UNCHANGED <<imageVars, failed>> /\ stage \in {"resize", "read", "write"}
          BY <2>1 DEF ResizeSteps, ResizeFile, ReadTable, WriteTable
    <3>2. stage' \in {"read", "write", "done", "halted"}
          BY <2>1 DEF ResizeSteps, ResizeFile, ReadTable, WriteTable
    <3> QED BY <3>1, <3>2 DEF CopyInv, ImageTypeOK, Copied, imageVars, childVars
  <2> QED BY <1>1, <2>1, CopyingKeeps DEF MakeFile, FileSteps
<1>2. CASE Uncompressing \/ Killed
      BY <1>2, DecompressorKeeps DEF Uncompressing, Killed, UncompressSource, KillSource
<1>3. CASE Watch
      BY <1>3, CopyUnchanged DEF Watch, WatcherEnds
<1>4. CASE PrepareMine \/ InstallMine \/ OthersPrepare \/ CrashMine \/ Over
           \/ UNCHANGED inputsVars
      BY <1>4, CopyUnchanged
         DEF PrepareMine, InstallMine, OthersPrepare, CrashMine, Over, inputsVars,
             inputVars, buildVars
<1> QED BY <1>1, <1>2, <1>3, <1>4 DEF Next, Alone

\* The inductive invariant of the copy holds in every behaviour.
THEOREM CopyInvariant == Spec => []CopyInv
BY CopyInit, BuildKeepsCopy, FileInvariant, PTL DEF Spec

\* A build that goes on after the copy has the whole image in its file, for every
\* size of the image and of the pipe, unless the decompressor failed, which nobody
\* asks: every error of the copy halts it (step_copy_image.go:55-98, image.go:79-166).
THEOREM CopyIsWhole == Spec => []CopiedIsWhole
<1>1. CopyInv /\ FileInv => CopiedIsWhole
      BY DEF CopyInv, FileInv, CopiedIsWhole
<1> QED BY <1>1, CopyInvariant, FileInvariant, PTL

-----------------------------------------------------------------------------
(* The last partition takes the room *)

\* The file has as many bytes as were copied and added, and a file that grew gets
\* the table that grew with it.
GrowInv ==
    /\ planned \in MBRs \cup {NoTable}
    /\ ~failed => size = taken * UnitBytes + extra
    /\ stage \in {"open", "create", "copying", "closing", "resize"} => extra = 0
    /\ stage = "done" /\ extra # 0 => table = GrowLast(source, extra)

\* A table stays one when its last partition grows.
LEMMA GrownIsTable ==
    ASSUME NEW t \in MBRs, NEW bytes \in Nat, Used(t) # {}
    PROVE  GrowLast(t, bytes) \in MBRs
<1>1. LbaBound \in Nat \ {0} /\ ExtraSectors(bytes) \in Nat
      BY BytesAssumption, SectorsFit
<1>2. LastUsed(t) \in 1..4
      BY LastUsedIsUsed DEF Used, MBRs
<1> DEFINE n == (t[LastUsed(t)].len + ExtraSectors(bytes)) % LbaBound
<1>3. t[LastUsed(t)] \in Entry
      BY <1>2 DEF MBRs
<1>4. t[LastUsed(t)].len \in Nat
      BY <1>1, <1>3 DEF Entry
<1>5. n \in 0..(LbaBound - 1)
      BY <1>1, <1>4
<1> HIDE DEF n
<1>6. [t[LastUsed(t)] EXCEPT !.len = n] \in Entry
      BY <1>3, <1>5 DEF Entry
<1>7. GrowLast(t, bytes) = [t EXCEPT ![LastUsed(t)] = [t[LastUsed(t)] EXCEPT !.len = n]]
      BY DEF GrowLast, n
<1> QED BY <1>2, <1>6, <1>7 DEF MBRs

\* The table of a build is one that was read, or none.
LEMMA TableTyped == FileInv => table \in MBRs \cup {NoTable}
<1>1. Used(NoTable) = {}
      BY DEF Used, NoTable
<1>2. FileInv /\ Used(source) # {} => GrowLast(source, extra) \in MBRs
      BY <1>1, GrownIsTable DEF FileInv
<1> QED BY <1>2 DEF FileInv

\* There is no file yet.
LEMMA GrowInit == Init => GrowInv
<1> SUFFICES ASSUME Init PROVE GrowInv
    OBVIOUS
<1>1. taken = 0 /\ size = 0 /\ extra = 0 /\ stage = "open" /\ planned = NoTable
      BY DEF Init, FileInit, NotOpened
<1>2. 0 * UnitBytes + 0 = 0
      BY BytesAssumption
<1> QED BY <1>1, <1>2 DEF GrowInv

\* Steps that leave the file alone keep the invariant.
LEMMA GrowUnchanged ==
    ASSUME GrowInv, taken' = taken, UNCHANGED <<source, stage, outVars, failed>>
    PROVE  GrowInv'
BY DEF GrowInv, outVars

\* The copy writes what it reads.
LEMMA CopyGrows == ASSUME GrowInv, FileInv, CopySteps PROVE GrowInv'
<1>1. CASE CopyToFile
  <2>1. /\ taken' = taken + 1 /\ stage = "copying" /\ extra' = extra /\ planned' = planned
        /\ extra = 0 /\ ~failed /\ source' = source
        BY <1>1 DEF CopyToFile, ReadUnit, GrowInv, FileInv
  <2>2. CASE size' = size + UnitBytes /\ UNCHANGED <<stage, failed>>
    <3>1. size = taken * UnitBytes + extra /\ taken \in Nat /\ UnitBytes \in Nat
          BY <2>1, BytesAssumption DEF GrowInv, FileInv
    <3>2. (taken + 1) * UnitBytes + 0 = taken * UnitBytes + 0 + UnitBytes
          BY <3>1
    <3>3. size' = taken' * UnitBytes + extra'
          BY <2>1, <2>2, <3>1, <3>2
    <3> QED BY <2>1, <2>2, <3>3 DEF GrowInv
  <2>3. CASE stage' = "closing" /\ failed' = TRUE
        BY <2>1, <2>3 DEF GrowInv
  <2> QED BY <1>1, <2>2, <2>3 DEF CopyToFile
<1>2. CASE OpenSource \/ CreateOutput \/ CopyToFileEnds \/ CloseSource \/ WaitForSource
  <2>1. taken' = taken
        BY <1>2, TakesNothing
           DEF OpenSource, CreateOutput, CopyToFileEnds, CloseSource, WaitForSource,
               imageVars
  <2>2. UNCHANGED <<source, outVars>>
        BY <1>2 DEF OpenSource, CreateOutput, CopyToFileEnds, CloseSource, WaitForSource,
                    buildVars
  <2>3. /\ stage' \in {"create", "copying", "closing", "resize", "halted"} \/ stage' = stage
        /\ stage \in {"open", "create", "copying", "closing"} \/ stage' = stage
        BY <1>2 DEF OpenSource, CreateOutput, CopyToFileEnds, CloseSource, WaitForSource,
                    buildVars
  <2>4. ~failed' => ~failed
        BY <1>2 DEF OpenSource, CreateOutput, CopyToFileEnds, CloseSource, WaitForSource,
                    buildVars, FileInv
  <2> QED BY <2>1, <2>2, <2>3, <2>4 DEF GrowInv, outVars
<1> QED BY <1>1, <1>2 DEF CopySteps

\* The table in memory grows by what the file grew by, and is then written.
LEMMA ResizeGrows == ASSUME GrowInv, FileInv, ResizeSteps PROVE GrowInv'
<1>1. UNCHANGED <<source, failed, taken>> /\ UnitBytes \in Nat /\ taken \in Nat
      BY BytesAssumption DEF ResizeSteps, ResizeFile, ReadTable, WriteTable, imageVars, FileInv
<1>2. CASE ResizeFile
  <2>1. stage = "resize" /\ extra = 0 /\ ~failed /\ size \in Nat
        BY <1>2 DEF ResizeFile, GrowInv, FileInv, Copied
  <2>2. CASE stage' \in {"done", "halted"} /\ UNCHANGED outVars
        BY <1>1, <2>1, <2>2 DEF GrowInv, outVars
  <2>3. CASE stage' = "read" /\ extra' = Growth /\ size' = size + extra' /\ planned' = planned
    <3>1. size = taken * UnitBytes + 0 /\ taken * UnitBytes \in Nat
          BY <1>1, <2>1 DEF GrowInv
    <3>2. size' = taken * UnitBytes + extra'
          BY <2>3, <3>1
    <3> QED BY <1>1, <2>1, <2>3, <3>2 DEF GrowInv
  <2>4. grow.extra \in Int /\ grow.target \in Int
        BY DEF FileInv
  <2>5. stage' = "read" => extra' = Growth /\ size' = size + extra' /\ planned' = planned
        BY <1>2, <2>1, <2>4 DEF ResizeFile, Growth
  <2>6. stage' = "read" \/ (stage' \in {"done", "halted"} /\ UNCHANGED outVars)
        BY <1>2 DEF ResizeFile
  <2> QED BY <2>2, <2>3, <2>5, <2>6
<1>3. CASE ReadTable
  <2>1. stage = "read" /\ stage' \in {"write", "halted"} /\ UNCHANGED <<size, table, extra>>
        BY <1>3 DEF ReadTable
  <2>2. planned' \in MBRs \cup {NoTable}
    <3>1. planned' = planned \/ (Checks(table) /\ Used(table) # {} /\ planned' = GrowLast(table, extra))
          BY <1>3 DEF ReadTable
    <3>2. Checks(table) => table # NoTable
          BY DEF Checks
    <3> QED BY <3>1, <3>2, TableTyped, GrownIsTable DEF GrowInv, FileInv
  <2> QED BY <1>1, <2>1, <2>2 DEF GrowInv
<1>4. CASE WriteTable
  <2>1. stage = "write" /\ UNCHANGED <<size, extra, planned>>
        BY <1>4 DEF WriteTable
  <2>2. stage' = "halted" \/ (stage' = "done" /\ table' = GrowLast(source, extra))
        BY <1>4 DEF WriteTable, FileInv
  <2> QED BY <1>1, <2>1, <2>2 DEF GrowInv
<1> QED BY <1>2, <1>3, <1>4 DEF ResizeSteps

\* Every step of the build keeps the invariant.
LEMMA BuildKeepsGrow == GrowInv /\ FileInv /\ [Next]_inputsVars => GrowInv'
<1> SUFFICES ASSUME GrowInv, FileInv, [Next]_inputsVars PROVE GrowInv'
    OBVIOUS
<1>1. CASE MakeFile
      BY <1>1, CopyGrows, ResizeGrows DEF MakeFile, FileSteps
<1>2. CASE Uncompressing \/ Killed
      BY <1>2, TakesNothing, GrowUnchanged
         DEF Uncompressing, Killed, UncompressSource, KillSource, buildVars
<1>3. CASE Watch
      BY <1>3, GrowUnchanged DEF Watch, WatcherEnds, imageVars
<1>4. CASE PrepareMine \/ InstallMine \/ OthersPrepare \/ CrashMine \/ Over
           \/ UNCHANGED inputsVars
      BY <1>4, GrowUnchanged
         DEF PrepareMine, InstallMine, OthersPrepare, CrashMine, Over, inputsVars,
             inputVars, buildVars, imageVars
<1> QED BY <1>1, <1>2, <1>3, <1>4 DEF Next, Alone

\* The inductive invariant of the growth holds in every behaviour.
THEOREM GrowInvariant == Spec => []GrowInv
BY GrowInit, BuildKeepsGrow, FileInvariant, PTL DEF Spec

\* Bytes that are added to whole sectors are whole sectors and less than one more.
LEMMA WholeSectors ==
    ASSUME NEW bytes \in Nat, NEW e \in Nat, NEW s \in Nat,
           s = e * SectorSize + bytes, s < LbaBound * SectorSize
    PROVE  /\ e + ExtraSectors(bytes) < LbaBound
           /\ s - (e + ExtraSectors(bytes)) * SectorSize \in 0..(SectorSize - 1)
<1>1. SectorSize \in Nat \ {0} /\ LbaBound \in Nat \ {0}
      BY BytesAssumption
<1> DEFINE q == bytes \div SectorSize
           r == bytes % SectorSize
<1>2. q \in Nat /\ r \in 0..(SectorSize - 1) /\ bytes = q * SectorSize + r
      BY <1>1
<1> HIDE DEF q, r
<1>3. (e + q) * SectorSize = e * SectorSize + q * SectorSize
      BY <1>1, <1>2
<1>4. (e + q) * SectorSize \in Nat /\ s = (e + q) * SectorSize + r
      BY <1>1, <1>2, <1>3
<1>5. e + q < LbaBound
  <2> SUFFICES ASSUME e + q >= LbaBound PROVE FALSE
      BY <1>1, <1>2
  <2>1. (e + q) * SectorSize >= LbaBound * SectorSize
        BY <1>1, <1>2
  <2>2. LbaBound * SectorSize \in Nat
        BY <1>1
  <2> QED BY <1>1, <1>2, <1>4, <2>1, <2>2
<1>6. ExtraSectors(bytes) = q
  <2>1. q < LbaBound
        BY <1>1, <1>2, <1>5
  <2>2. q % LbaBound = q
        BY <1>1, <1>2, <2>1
  <2> QED BY <2>2 DEF ExtraSectors, q
<1> QED BY <1>1, <1>2, <1>4, <1>5, <1>6

\* The file and the table of a build that grew them.
LEMMA GrownTable ==
    ASSUME GrowInv, FileInv, Resized
    PROVE  /\ table = GrowLast(source, extra) /\ extra \in Nat /\ size \in Nat
           /\ Before \in Nat /\ size = Before + extra
<1>1. stage = "done" /\ Before < size /\ taken = archive.size /\ ~failed
      BY DEF Resized, Sound, FileInv, Copied
<1>2. extra \in Nat /\ size \in Nat /\ taken \in Nat /\ UnitBytes \in Nat
      BY BytesAssumption DEF FileInv
<1>3. Before \in Nat /\ size = Before + extra
      BY <1>1, <1>2 DEF Before, GrowInv
<1>4. extra # 0
      BY <1>1, <1>2, <1>3
<1> QED BY <1>1, <1>2, <1>3, <1>4 DEF GrowInv

\* What the growth of a table changes: the length of its last entry.
LEMMA GrowsTheLast ==
    ASSUME NEW t \in MBRs, NEW bytes \in Nat, NEW i \in Used(t),
           \A j \in Used(t) \ {i} : j < i
    PROVE  /\ Used(GrowLast(t, bytes)) = Used(t) /\ i \in 1..4
           /\ \A j \in Used(t) : GrowLast(t, bytes)[j].start = t[j].start
           /\ \A j \in Used(t) \ {i} : GrowLast(t, bytes)[j] = t[j]
           /\ GrowLast(t, bytes)[i].len = (t[i].len + ExtraSectors(bytes)) % LbaBound
<1>1. Used(t) \subseteq 1..4 /\ DOMAIN t = 1..4 /\ \A j \in 1..4 : t[j] \in Entry
      BY DEF Used, MBRs
<1>2. LastUsed(t) = i
  <2>1. LastUsed(t) \in Used(t) /\ i <= LastUsed(t)
        BY LastUsedIsUsed
  <2> QED BY <1>1, <2>1
<1> DEFINE n == (t[i].len + ExtraSectors(bytes)) % LbaBound
           g == GrowLast(t, bytes)
<1>3. g = [t EXCEPT ![i] = [t[i] EXCEPT !.len = n]]
      BY <1>2 DEF GrowLast
<1> HIDE DEF n, g
<1>4. /\ DOMAIN g = 1..4 /\ \A j \in 1..4 \ {i} : g[j] = t[j]
      /\ g[i] = [t[i] EXCEPT !.len = n]
      BY <1>1, <1>3
<1>5. g[i].len = n /\ g[i].start = t[i].start /\ g[i].empty = t[i].empty
      BY <1>1, <1>4 DEF Entry
<1>6. Used(g) = Used(t)
      BY <1>1, <1>4, <1>5 DEF Used
<1> QED BY <1>1, <1>4, <1>5, <1>6 DEF n, g

\* Whoever starts before the last partition ends before it, so its growth reaches
\* nobody: for every table, and whether or not its length wraps.
LEMMA GrowthIsDisjoint ==
    ASSUME NEW t \in MBRs, NEW bytes \in Nat, NEW i \in Used(t), Disjoint(t),
           \A j \in Used(t) \ {i} : j < i /\ t[j].start < t[i].start
    PROVE  Disjoint(GrowLast(t, bytes))
<1> DEFINE g == GrowLast(t, bytes)
<1>1. /\ Used(g) = Used(t)
      /\ \A j \in Used(t) : g[j].start = t[j].start
      /\ \A j \in Used(t) \ {i} : g[j] = t[j]
      BY GrowsTheLast
<1> HIDE DEF g
<1>2. \A j \in Used(t) : t[j].start \in Nat /\ t[j].len \in Nat
      BY BytesAssumption DEF Used, MBRs, Entry
<1>3. ASSUME NEW j \in Used(t), j # i
      PROVE  EndOf(g[j]) <= g[i].start
  <2>1. EndOf(t[j]) <= t[i].start \/ EndOf(t[i]) <= t[j].start
        BY <1>3 DEF Disjoint
  <2>2. EndOf(t[i]) > t[j].start
        BY <1>2, <1>3 DEF EndOf
  <2>3. EndOf(t[i]) \in Nat
        BY <1>2 DEF EndOf
  <2> QED BY <1>1, <1>2, <1>3, <2>1, <2>2, <2>3
<1>4. ASSUME NEW j \in Used(t), NEW k \in Used(t), j # k
      PROVE  EndOf(g[j]) <= g[k].start \/ EndOf(g[k]) <= g[j].start
  <2>1. CASE j = i \/ k = i
        BY <1>3, <1>4, <2>1
  <2>2. CASE j # i /\ k # i
        BY <1>1, <1>4, <2>2 DEF Disjoint
  <2> QED BY <2>1, <2>2
<1> QED BY <1>1, <1>4 DEF Disjoint, g

\* The last partition that is grown fills the file, but for less than a sector, and
\* runs into no other one: for all sizes of the image, of the sectors and of the
\* growth that an entry of the table can hold (step_resize_last_partition.go:36-103).
THEOREM LastTakesItsRoom == Spec => []LastTakesTheRoom
<1>1. GrowInv /\ FileInv => GrownStaysDisjoint
  <2> SUFFICES ASSUME GrowInv, FileInv, Resized, Disjoint(source),
                      NEW i \in DOMAIN source, LastInBoth(i)
               PROVE  Disjoint(table)
      BY DEF GrownStaysDisjoint
  <2>1. table = GrowLast(source, extra) /\ extra \in Nat
        BY GrownTable
  <2>2. source \in MBRs
        BY DEF FileInv, NoTable
  <2>3. i \in Used(source) /\ \A j \in Used(source) \ {i} :
                                 j < i /\ source[j].start < source[i].start
        BY DEF LastInBoth
  <2> QED BY <2>1, <2>2, <2>3, GrowthIsDisjoint
<1>2. GrowInv /\ FileInv => LastPartitionFills
  <2> SUFFICES ASSUME GrowInv, FileInv, Resized, NEW i \in DOMAIN source, LastInBoth(i),
                      EndOf(source[i]) * SectorSize = Before
               PROVE  size - EndOf(table[i]) * SectorSize \in 0..(SectorSize - 1)
      BY DEF LastPartitionFills
  <2>1. /\ table = GrowLast(source, extra) /\ extra \in Nat /\ size \in Nat
        /\ size = Before + extra
        BY GrownTable
  <2>2. source \in MBRs
        BY DEF FileInv, NoTable
  <2>3. i \in Used(source) /\ \A j \in Used(source) \ {i} : j < i
        BY DEF LastInBoth
  <2>4. /\ table[i].start = source[i].start
        /\ table[i].len = (source[i].len + ExtraSectors(extra)) % LbaBound
        BY <2>1, <2>2, <2>3, GrowsTheLast
  <2>5. source[i].start \in Nat /\ source[i].len \in Nat /\ LbaBound \in Nat \ {0}
        BY <2>2, <2>3, BytesAssumption DEF Used, MBRs, Entry
  <2> DEFINE e == EndOf(source[i])
             more == ExtraSectors(extra)
  <2>6. e \in Nat /\ e = source[i].start + source[i].len
        BY <2>5 DEF EndOf
  <2>7. more \in Nat
        BY <2>1, SectorsFit
  <2>8. size < LbaBound * SectorSize
        BY DEF Resized
  <2>9. /\ e + more < LbaBound
        /\ size - (e + more) * SectorSize \in 0..(SectorSize - 1)
        BY <2>1, <2>6, <2>8, WholeSectors
  <2>10. table[i].len = (source[i].len + more) % LbaBound
         BY <2>4
  <2> HIDE DEF e, more
  <2>11. source[i].len + more \in 0..(LbaBound - 1)
         BY <2>5, <2>6, <2>7, <2>9
  <2>12. table[i].len = source[i].len + more
         BY <2>5, <2>10, <2>11
  <2>13. EndOf(table[i]) = source[i].start + (source[i].len + more)
         BY <2>4, <2>12 DEF EndOf
  <2>14. EndOf(table[i]) = e + more
         BY <2>5, <2>6, <2>7, <2>13
  <2> QED BY <2>9, <2>14
<1> QED BY <1>1, <1>2, GrowInvariant, FileInvariant, PTL DEF LastTakesTheRoom

-----------------------------------------------------------------------------
(* What was asked for *)

\* A build is about one request from its beginning to its end.
AskedInv ==
    /\ \E r \in Requests :
          raw = r.raw /\ host = r.host /\ grow = r.grow /\ source = r.source /\ archive = r.archive
    /\ failed \in BOOLEAN /\ watcher \in {"none", "polling", "gone"}

\* The steps of the file leave the image, its table and the growth as they were asked for.
LEMMA FileStepsKeep ==
    ASSUME failed \in BOOLEAN, watcher \in {"none", "polling", "gone"}, FileSteps
    PROVE  /\ UNCHANGED <<grow, source, archive>>
           /\ failed' \in BOOLEAN /\ watcher' \in {"none", "polling", "gone"}
<1> USE DEF buildVars, outVars, imageVars
<1>1. CASE OpenSource
      BY <1>1, OpenEffect DEF OpenSource
<1>2. CASE CreateOutput
      BY <1>2 DEF CreateOutput
<1>3. CASE CopyToFile
      BY <1>3 DEF CopyToFile, ReadUnit
<1>4. CASE CopyToFileEnds
      BY <1>4 DEF CopyToFileEnds, ReadEnds, CopyFailed
<1>5. CASE CloseSource
      BY <1>5 DEF CloseSource, Close
<1>6. CASE WaitForSource
      BY <1>6 DEF WaitForSource, Wait
<1>7. CASE ResizeSteps
      BY <1>7 DEF ResizeSteps, ResizeFile, ReadTable, WriteTable
<1> QED BY <1>1, <1>2, <1>3, <1>4, <1>5, <1>6, <1>7 DEF FileSteps, CopySteps

\* Every step of the build keeps what was asked for.
LEMMA AskedKept == AskedInv /\ [Next]_inputsVars => AskedInv'
<1> SUFFICES ASSUME AskedInv, [Next]_inputsVars PROVE AskedInv'
    OBVIOUS
<1>1. failed \in BOOLEAN /\ watcher \in {"none", "polling", "gone"}
      BY DEF AskedInv
<1>2. UNCHANGED <<raw, host>>
      BY DEF Next, Alone, PrepareMine, MakeFile, InstallMine, Watch, Uncompressing, Killed,
             OthersPrepare, CrashMine, Over, inputsVars, askedVars
<1>3. /\ UNCHANGED <<grow, source, archive>>
      /\ failed' \in BOOLEAN /\ watcher' \in {"none", "polling", "gone"}
  <2>1. CASE MakeFile
        BY <1>1, <2>1, FileStepsKeep DEF MakeFile
  <2>2. CASE Uncompressing \/ Killed
        BY <1>1, <2>2 DEF Uncompressing, Killed, UncompressSource, KillSource, Decompressor,
               ChildWrites, ChildEnds, ChildKilled, buildVars
  <2>3. CASE Watch
        BY <1>1, <2>3 DEF Watch, WatcherEnds, imageVars
  <2>4. CASE PrepareMine \/ InstallMine \/ OthersPrepare \/ CrashMine \/ Over
             \/ UNCHANGED inputsVars
        BY <1>1, <2>4 DEF PrepareMine, InstallMine, OthersPrepare, CrashMine, Over,
               inputsVars, inputVars, buildVars, imageVars
  <2> QED BY <2>1, <2>2, <2>3, <2>4 DEF Next, Alone
<1> QED BY <1>2, <1>3 DEF AskedInv

\* The state has its type, the cache's and the file's.
THEOREM TypeCorrect == Spec => []TypeOK
<1>1. Init => AskedInv
      BY DEF Init, FileInit, AskedInv
<1>2. CacheInv => CacheTypeOK
      BY DEF CacheInv
<1>3. AskedInv /\ CopyInv /\ FileInv /\ GrowInv => FileTypeOK
  <2> SUFFICES ASSUME AskedInv, CopyInv, FileInv, GrowInv PROVE FileTypeOK
      OBVIOUS
  <2>1. grow \in [extra : Int, target : Int]
        BY RequestsAssumption DEF AskedInv
  <2>2. failed \in BOOLEAN /\ watcher \in {"none", "polling", "gone"}
        BY DEF AskedInv
  <2>3. /\ source \in MBRs \cup {NoTable} /\ stage \in Stages /\ size \in Nat /\ extra \in Nat
        /\ planned \in MBRs \cup {NoTable}
        BY DEF FileInv, GrowInv
  <2>4. ImageTypeOK
        BY DEF CopyInv
  <2> QED BY <2>1, <2>2, <2>3, <2>4, TableTyped DEF FileTypeOK
<1>4. AskedInv /\ CacheTypeOK /\ FileTypeOK => TypeOK
      BY DEF AskedInv, TypeOK
<1> QED BY <1>1, <1>2, <1>3, <1>4, AskedKept, ImplementsCache, CacheInvariant,
           CopyInvariant, FileInvariant, GrowInvariant, PTL DEF Spec
=============================================================================
