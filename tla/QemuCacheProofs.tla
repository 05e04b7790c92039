-------------------------- MODULE QemuCacheProofs --------------------------
(***************************************************************************)
(* The binary in the cache, for any number of builds and any size: what    *)
(* nobody still writes is there.                                           *)
(***************************************************************************)
EXTENDS QemuCache, TLAPS

\* No build has begun: nothing is in the cache, and nobody relies on it.
LEMMA InitInv == CacheInit => CacheInv
<1> SUFFICES ASSUME CacheInit PROVE CacheInv
    OBVIOUS
<1> USE DEF CacheInit
<1>1. CacheTypeOK
  <2>1. pc \in [Builds -> Places]
        BY DEF Places
  <2>2. offset \in [Builds -> 0..Size]
        BY SizeAssumption
  <2>3. got \in [Builds -> SUBSET Chunks]
        OBVIOUS
  <2>4. exists \in BOOLEAN /\ cached \subseteq Chunks /\ broken \subseteq Builds
        /\ raced \subseteq Builds
        OBVIOUS
  <2> QED BY <2>1, <2>2, <2>3, <2>4 DEF CacheTypeOK
<1>2. MissingHasWriter /\ OnlyIfExists /\ UsersUndisturbed /\ CopiedSoFar
      BY DEF MissingHasWriter, OnlyIfExists, UsersUndisturbed, CopiedSoFar,
             Using, Extracting
<1> QED BY <1>1, <1>2 DEF CacheInv

\* The lookup of the binary touches no file.
LEMMA FindBinaryKeeps ==
    ASSUME CacheInv, NEW b \in Builds, FindBinary(b) PROVE CacheInv'
<1> USE DEF CacheInv, FindBinary, PrepareEnds, Goto, fileVars, historyVars
<1>1. CacheTypeOK'
      BY DEF CacheTypeOK, Places
<1>2. Extracting' = Extracting /\ Using \subseteq Using' /\ Using' \subseteq Using
      BY DEF CacheTypeOK, Extracting, Using
<1>3. MissingHasWriter' /\ OnlyIfExists'
      BY <1>2 DEF MissingHasWriter, OnlyIfExists
<1>4. UsersUndisturbed'
      BY <1>2 DEF CacheTypeOK, UsersUndisturbed, Using, Extracting
<1>5. CopiedSoFar'
      BY DEF CacheTypeOK, CopiedSoFar
<1> QED BY <1>1, <1>3, <1>4, <1>5

\* A build that finds the file while another one extracts it is noted as raced.
LEMMA StatCacheKeeps ==
    ASSUME CacheInv, NEW b \in Builds, StatCache(b) PROVE CacheInv'
<1> USE DEF CacheInv, StatCache, PrepareEnds, Goto, fileVars
<1>1. CacheTypeOK'
      BY DEF CacheTypeOK, Places
<1>2. Extracting' = Extracting
      BY DEF CacheTypeOK, Extracting
<1>3. MissingHasWriter' /\ OnlyIfExists'
      BY <1>2 DEF CacheTypeOK, MissingHasWriter, OnlyIfExists, Using
<1>4. UsersUndisturbed'
      BY <1>2 DEF CacheTypeOK, UsersUndisturbed, Using
<1>5. CopiedSoFar'
      BY DEF CacheTypeOK, CopiedSoFar
<1> QED BY <1>1, <1>3, <1>4, <1>5

\* A truncation takes all chunks away, but its build writes them all again.
LEMMA CreateCacheKeeps ==
    ASSUME CacheInv, NEW b \in Builds, CreateCache(b) PROVE CacheInv'
<1> USE DEF CacheInv, CreateCache, Goto, FirstOffset
<1>1. CacheTypeOK'
  <2>1. pc' \in [Builds -> Places]
        BY DEF CacheTypeOK, Places
  <2>2. offset' \in [Builds -> 0..Size]
        BY SizeAssumption DEF CacheTypeOK
  <2>3. exists' \in BOOLEAN /\ cached' \subseteq Chunks
        BY DEF CacheTypeOK, fileVars
  <2>4. raced' \subseteq Builds
        BY DEF CacheTypeOK, Using
  <2> QED BY <2>1, <2>2, <2>3, <2>4 DEF CacheTypeOK
<1>2. CASE pc'[b] = "extract"
  <2>1. /\ Extracting' = Extracting \cup {b} /\ offset'[b] = 0 /\ exists' /\ cached' = {}
        /\ pc' = [pc EXCEPT ![b] = "extract"] /\ Using \subseteq raced' \cup {b} /\ broken' = broken
        BY <1>2 DEF CacheTypeOK, Extracting, fileVars
  <2>2. MissingHasWriter' /\ OnlyIfExists'
        BY <2>1, <1>1 DEF CacheTypeOK, MissingHasWriter, OnlyIfExists, Chunks
  <2>3. UsersUndisturbed'
    <3> SUFFICES ASSUME NEW x \in Using' \ raced' PROVE Extracting' \subseteq {x}
        BY DEF UsersUndisturbed
    <3>1. x # b => x \in Using
          BY <2>1 DEF CacheTypeOK, Using
    <3>2. x = b
          BY <3>1, <2>1
    <3>3. Using \subseteq {b}
          BY <3>2, <1>2 DEF CacheTypeOK
    <3>4. \A y \in Extracting : y \in Using
          BY DEF CopiedSoFar, Extracting, Using
    <3> QED BY <2>1, <3>2, <3>3, <3>4
  <2>4. CopiedSoFar'
        BY <2>1, <1>2 DEF CacheTypeOK, CopiedSoFar
  <2> QED BY <1>1, <2>2, <2>3, <2>4
<1>3. CASE pc'[b] # "extract"
  <2>1. Extracting' = Extracting /\ Using' = Using
        BY <1>3 DEF CacheTypeOK, Extracting, Using
  <2>2. MissingHasWriter' /\ OnlyIfExists'
        BY <2>1, <1>3 DEF CacheTypeOK, MissingHasWriter, OnlyIfExists, fileVars
  <2>3. UNCHANGED <<lookup, offset, got, broken, raced>> /\ pc' = [pc EXCEPT ![b] = "refused"]
        BY <1>3 DEF CacheTypeOK
  <2>4. UsersUndisturbed'
        BY <2>1, <2>3 DEF CacheTypeOK, UsersUndisturbed
  <2>5. CopiedSoFar'
        BY <2>3 DEF CacheTypeOK, CopiedSoFar
  <2> QED BY <1>1, <2>2, <2>4, <2>5
<1> QED BY <1>2, <1>3

\* A chunk is written before its writer is past it.
LEMMA ExtractChunkKeeps ==
    ASSUME CacheInv, NEW b \in Builds, ExtractChunk(b) PROVE CacheInv'
<1> USE DEF CacheInv, ExtractChunk, historyVars
<1>1. offset[b] \in Nat /\ offset[b] + 1 \in Chunks
      BY SizeAssumption DEF CacheTypeOK, Chunks
<1>2. CacheTypeOK'
  <2>1. offset' \in [Builds -> 0..Size]
        BY <1>1 DEF CacheTypeOK, Chunks
  <2>2. cached' \subseteq Chunks
        BY <1>1 DEF CacheTypeOK
  <2> QED BY <2>1, <2>2 DEF CacheTypeOK
<1>3. Extracting' = Extracting /\ Using' = Using
      BY DEF Extracting, Using
<1>4. MissingHasWriter'
  <2> SUFFICES ASSUME exists, broken = {}, NEW c \in Chunks \ cached'
               PROVE  \E w \in Extracting : offset'[w] < c
      BY <1>3 DEF MissingHasWriter
  <2>1. PICK w \in Extracting : offset[w] < c
        BY DEF MissingHasWriter
  <2>2. w # b => offset'[w] < c
        BY <2>1 DEF CacheTypeOK
  <2>3. w = b => offset'[w] < c
        BY <2>1, <1>1 DEF CacheTypeOK, Chunks
  <2> QED BY <2>1, <2>2, <2>3
<1>5. OnlyIfExists'
      BY <1>3 DEF OnlyIfExists, Extracting
<1>6. UsersUndisturbed'
      BY <1>3 DEF UsersUndisturbed
<1>7. CopiedSoFar'
      BY DEF CopiedSoFar, CacheTypeOK
<1> QED BY <1>2, <1>4, <1>5, <1>6, <1>7

\* An extraction ends behind the last chunk, or is noted as broken.
LEMMA ExtractEndsKeeps ==
    ASSUME CacheInv, NEW b \in Builds, ExtractEnds(b) PROVE CacheInv'
<1> USE DEF CacheInv, ExtractEnds, PrepareEnds, Goto, fileVars
<1>1. CacheTypeOK'
      BY DEF CacheTypeOK, Places
<1>2. Extracting' = Extracting \ {b}
      BY DEF CacheTypeOK, Extracting
<1>3. MissingHasWriter'
  <2> SUFFICES ASSUME exists, broken' = {}, NEW c \in Chunks \ cached
               PROVE  \E w \in Extracting \ {b} : offset[w] < c
      BY <1>2 DEF MissingHasWriter
  <2>1. broken = {} /\ Extracted(b)
        BY DEF CacheTypeOK
  <2>2. PICK w \in Extracting : offset[w] < c
        BY <2>1 DEF MissingHasWriter
  <2>3. w # b
        BY <2>1, <2>2, SizeAssumption DEF Extracted, Chunks
  <2> QED BY <2>2, <2>3
<1>4. OnlyIfExists'
      BY <1>2 DEF CacheTypeOK, OnlyIfExists, Using
<1>5. b \in Extracting
      BY DEF Extracting
<1>6. UsersUndisturbed'
      BY <1>2, <1>5 DEF CacheTypeOK, UsersUndisturbed, Using, Extracting
<1>7. CopiedSoFar'
      BY DEF CacheTypeOK, CopiedSoFar
<1> QED BY <1>1, <1>3, <1>4, <1>6, <1>7

\* A build that dies while it extracts is noted as broken.
LEMMA CrashKeeps ==
    ASSUME CacheInv, NEW b \in Builds, Crash(b) PROVE CacheInv'
<1> USE DEF CacheInv, Crash, Goto, fileVars
<1>1. CacheTypeOK'
      BY DEF CacheTypeOK, Places
<1>2. Extracting' = Extracting \ {b} /\ Using' \subseteq Using
      BY DEF CacheTypeOK, Extracting, Using
<1>3. MissingHasWriter'
  <2> SUFFICES ASSUME exists, broken' = {}, NEW c \in Chunks \ cached
               PROVE  \E w \in Extracting \ {b} : offset[w] < c
      BY <1>2 DEF MissingHasWriter
  <2>1. broken = {} /\ b \notin Extracting
        BY DEF Extracting
  <2> QED BY <2>1 DEF MissingHasWriter
<1>4. OnlyIfExists'
      BY <1>2 DEF OnlyIfExists
<1>5. UsersUndisturbed'
      BY <1>2 DEF UsersUndisturbed
<1>6. broken' = {} => broken = {}
      OBVIOUS
<1>7. CopiedSoFar'
      BY <1>6 DEF CacheTypeOK, CopiedSoFar
<1> QED BY <1>1, <1>3, <1>4, <1>5, <1>7

\* A cp begins with nothing read.
LEMMA StartInstallKeeps ==
    ASSUME CacheInv, NEW b \in Builds, StartInstall(b) PROVE CacheInv'
<1> USE DEF CacheInv, StartInstall, Goto, fileVars, historyVars
<1>1. CacheTypeOK'
      BY SizeAssumption DEF CacheTypeOK, Places
<1>2. Extracting' = Extracting /\ Using' = Using /\ b \notin Extracting
      BY DEF CacheTypeOK, Extracting, Using
<1>3. MissingHasWriter'
      BY <1>2 DEF CacheTypeOK, MissingHasWriter
<1>4. OnlyIfExists' /\ UsersUndisturbed'
      BY <1>2 DEF OnlyIfExists, UsersUndisturbed
<1>5. got[b] = {} /\ offset'[b] = 0 /\ 1..0 = {}
      BY DEF CacheTypeOK, CopiedSoFar
<1>6. pc' = [pc EXCEPT ![b] = "install"] /\ \A x \in Builds \ {b} : offset'[x] = offset[x]
      BY DEF CacheTypeOK
<1>7. CopiedSoFar'
      BY <1>5, <1>6 DEF CacheTypeOK, CopiedSoFar
<1> QED BY <1>1, <1>3, <1>4, <1>7

\* An undisturbed cp reads a file in which no chunk is missing.
LEMMA InstallChunkKeeps ==
    ASSUME CacheInv, NEW b \in Builds, InstallChunk(b) PROVE CacheInv'
<1> USE DEF CacheInv, InstallChunk, fileVars, historyVars
<1> DEFINE there == IF lookup[b] = "path" THEN Chunks ELSE cached
<1>1. offset[b] \in Nat /\ offset[b] + 1 \in Chunks /\ there \subseteq Chunks
      BY SizeAssumption DEF CacheTypeOK, Chunks
<1>2. CacheTypeOK'
  <2>1. offset' \in [Builds -> 0..Size]
        BY <1>1 DEF CacheTypeOK, Chunks
  <2>2. got' \in [Builds -> SUBSET Chunks]
        BY <1>1 DEF CacheTypeOK
  <2> QED BY <2>1, <2>2 DEF CacheTypeOK
<1>3. Extracting' = Extracting /\ Using' = Using /\ b \notin Extracting
      BY DEF Extracting, Using
<1>4. MissingHasWriter'
      BY <1>3 DEF CacheTypeOK, MissingHasWriter, Extracting
<1>5. OnlyIfExists' /\ UsersUndisturbed'
      BY <1>3 DEF OnlyIfExists, UsersUndisturbed
<1>6. b \notin raced /\ broken = {} => there = Chunks
  <2> SUFFICES ASSUME b \notin raced, broken = {}, lookup[b] # "path" PROVE cached = Chunks
      OBVIOUS
  <2>1. b \in Using
        BY DEF CacheTypeOK, CopiedSoFar, Using
  <2>2. exists /\ Extracting = {}
        BY <2>1, <1>3 DEF OnlyIfExists, UsersUndisturbed
  <2> QED BY <2>2 DEF CacheTypeOK, MissingHasWriter
<1>7. b \notin raced /\ broken = {} => got'[b] = 1..offset'[b]
  <2> SUFFICES ASSUME b \notin raced, broken = {} PROVE got'[b] = 1..offset'[b]
      OBVIOUS
  <2>1. got[b] = 1..offset[b]
        BY DEF CopiedSoFar
  <2>2. got'[b] = got[b] \cup {offset[b] + 1}
        BY <1>6, <1>1 DEF CacheTypeOK
  <2>3. offset'[b] = offset[b] + 1
        BY DEF CacheTypeOK
  <2> HIDE DEF InstallChunk
  <2>4. (1..offset[b]) \cup {offset[b] + 1} = 1..(offset[b] + 1)
        BY <1>1
  <2> QED BY <2>1, <2>2, <2>3, <2>4
<1>8. CopiedSoFar'
      BY <1>7 DEF CacheTypeOK, CopiedSoFar
<1> QED BY <1>2, <1>4, <1>5, <1>8

\* An undisturbed cp ends at the end of the binary.
LEMMA InstallEndsKeeps ==
    ASSUME CacheInv, NEW b \in Builds, InstallEnds(b) PROVE CacheInv'
<1> USE DEF CacheInv, InstallEnds, Goto, fileVars, historyVars
<1>1. CacheTypeOK'
      BY DEF CacheTypeOK, Places
<1>2. Extracting' = Extracting /\ Using' \subseteq Using /\ b \notin Extracting
      BY DEF CacheTypeOK, Extracting, Using
<1>3. MissingHasWriter' /\ OnlyIfExists' /\ UsersUndisturbed'
      BY <1>2 DEF MissingHasWriter, OnlyIfExists, UsersUndisturbed
<1>4. b \notin raced /\ broken = {} => offset[b] = Size
  <2> SUFFICES ASSUME b \notin raced, broken = {} PROVE offset[b] = Size
      OBVIOUS
  <2>1. lookup[b] # "path" => cached = Chunks
    <3> SUFFICES ASSUME lookup[b] # "path" PROVE cached = Chunks
        OBVIOUS
    <3>1. b \in Using
          BY DEF CacheTypeOK, CopiedSoFar, Using
    <3>2. exists /\ Extracting = {}
          BY <3>1, <1>2 DEF OnlyIfExists, UsersUndisturbed
    <3> QED BY <3>2 DEF CacheTypeOK, MissingHasWriter
  <2>2. \A c \in Chunks : c <= offset[b]
        BY <2>1
  <2> QED BY <2>2, SizeAssumption DEF CacheTypeOK, Chunks
<1>5. CopiedSoFar'
      BY <1>4 DEF CacheTypeOK, CopiedSoFar
<1> QED BY <1>1, <1>3, <1>5

\* Every step of every build keeps the invariant.
LEMMA StepKeeps == CacheInv /\ [CacheNext]_cacheVars => CacheInv'
<1> SUFFICES ASSUME CacheInv, [CacheNext]_cacheVars PROVE CacheInv'
    OBVIOUS
<1>1. ASSUME NEW b \in Builds, Prepare(b) PROVE CacheInv'
      BY <1>1, FindBinaryKeeps, StatCacheKeeps, CreateCacheKeeps, ExtractChunkKeeps,
         ExtractEndsKeeps DEF Prepare
<1>2. ASSUME NEW b \in Builds, Install(b) PROVE CacheInv'
      BY <1>2, StartInstallKeeps, InstallChunkKeeps, InstallEndsKeeps DEF Install
<1>3. ASSUME NEW b \in Builds, Crash(b) PROVE CacheInv'
      BY <1>3, CrashKeeps
<1>4. CASE UNCHANGED cacheVars
      BY <1>4 DEF cacheVars, fileVars, historyVars, CacheInv, CacheTypeOK,
                  MissingHasWriter, OnlyIfExists, UsersUndisturbed, CopiedSoFar,
                  Extracting, Using
<1> QED BY <1>1, <1>2, <1>3, <1>4 DEF CacheNext

\* The inductive invariant holds in every behaviour.
THEOREM CacheInvariant == CacheSpec => []CacheInv
BY InitInv, StepKeeps, PTL DEF CacheSpec

\* The binary in the cache is whole once nobody extracts, for any number of builds
\* that extract over each other, if no extraction was cut short
\* (Prepare, builder.go:216-228).
THEOREM CacheWhole == CacheSpec => []CacheIsWhole
<1>1. CacheInv => CacheIsWhole
      BY DEF CacheInv, CacheTypeOK, MissingHasWriter, CacheIsWhole
<1> QED BY <1>1, CacheInvariant, PTL

\* A build that met no other extraction installs the whole binary.
THEOREM InstallWhole == CacheSpec => []InstalledWhole
<1>1. CacheInv => InstalledWhole
      BY DEF CacheInv, CopiedSoFar, InstalledWhole, Chunks
<1> QED BY <1>1, CacheInvariant, PTL
=============================================================================
