----------------------------- MODULE QemuCache -----------------------------
(***************************************************************************)
(* The end of Builder.Prepare, where builds look for their qemu: in the    *)
(* PATH, or in the cache of packer, which they fill with the embedded      *)
(* binary if it is not there; and the cp of stepQemuUserStatic that copies *)
(* it into the image.  Builds are processes that share the cache directory *)
(* and nothing else: there is no lock, and any of them may die.            *)
(***************************************************************************)
EXTENDS Naturals

CONSTANTS
    Builds,      \* the builds that use the same qemu binary
    Size,        \* the chunks of the binary
    CacheFaults  \* what may fail

ASSUME SizeAssumption == Size \in Nat \ {0}

VARIABLES
    lookup,   \* what a build's lookup finds: the binary in the PATH, nothing, or
              \* the embedded one
    valid,    \* the rest of the configuration has no errors
    pc,       \* where a build is
    offset,   \* the chunks a build has written to the cache, or cp has read of it
    exists,   \* the cache file exists
    cached,   \* the chunks in it
    got,      \* the chunks in the image
    broken,   \* history: the builds whose extraction was cut short
    raced     \* history: the builds that met the extraction of another one

fileVars == <<exists, cached>>
historyVars == <<broken, raced>>
cacheVars == <<lookup, valid, pc, offset, fileVars, got, historyVars>>

Chunks == 1..Size
Places == {"look", "stat", "create", "extract", "prepared", "refused", "crashed",
           "install", "installed"}

CacheMayFail(call) == call \in CacheFaults

CacheInit ==
    /\ lookup \in [Builds -> {"path", "nothing", "cache"}] /\ valid \in [Builds -> BOOLEAN]
    /\ pc = [b \in Builds |-> "look"] /\ offset = [b \in Builds |-> 0]
    /\ exists = FALSE /\ cached = {}
    /\ got = [b \in Builds |-> {}] /\ broken = {} /\ raced = {}

Goto(b, place) == pc' = [pc EXCEPT ![b] = place]

\* The errors that were collected are only looked at here.
PrepareEnds(b) == Goto(b, IF valid[b] THEN "prepared" ELSE "refused")

Extracting == {b \in Builds : pc[b] = "extract"}
\* The builds that rely on the cache file as it is.
Using == {b \in Builds : lookup[b] = "cache" /\ pc[b] \in {"extract", "prepared", "install"}}

-----------------------------------------------------------------------------
(* Prepare *)

FindBinary(b) ==
    /\ pc[b] = "look"
    /\ \/ lookup[b] = "path" /\ PrepareEnds(b)
       \/ lookup[b] = "nothing" /\ Goto(b, "refused")
       \/ lookup[b] = "cache" /\ Goto(b, "stat")
    /\ UNCHANGED <<lookup, valid, offset, fileVars, got, historyVars>>

\* A file in the cache is taken as it is.
StatCache(b) ==
    /\ pc[b] = "stat"
    /\ \/ exists /\ PrepareEnds(b)
          /\ raced' = IF Extracting = {} THEN raced ELSE raced \cup {b}
       \/ ~exists /\ Goto(b, "create") /\ raced' = raced
       \/ CacheMayFail("cache") /\ Goto(b, "refused") /\ raced' = raced
    /\ UNCHANGED <<lookup, valid, offset, fileVars, got, broken>>

\* An extraction that goes on where the file ended before it was truncated.
WhereItEnded == IF exists /\ cached # {} THEN 1 ELSE 0

FirstOffset == 0

\* O_CREATE|O_TRUNC: the file may be there by now.
CreateCache(b) ==
    /\ pc[b] = "create"
    /\ \/ /\ Goto(b, "extract") /\ offset' = [offset EXCEPT ![b] = FirstOffset]
          /\ exists' = TRUE /\ cached' = {}
          /\ raced' = IF Using \ {b} = {} THEN raced ELSE raced \cup Using \cup {b}
       \/ /\ CacheMayFail("cache") /\ Goto(b, "refused")
          /\ UNCHANGED <<offset, fileVars, raced>>
    /\ UNCHANGED <<lookup, valid, got, broken>>

ExtractChunk(b) ==
    /\ pc[b] = "extract" /\ offset[b] < Size
    /\ cached' = cached \cup {offset[b] + 1}
    /\ offset' = [offset EXCEPT ![b] = @ + 1]
    /\ UNCHANGED <<lookup, valid, pc, exists, got, historyVars>>

Extracted(b) == offset[b] = Size

\* The error of io.Copy is dropped: it may end anywhere.
ExtractEnds(b) ==
    /\ pc[b] = "extract"
    /\ \/ Extracted(b) /\ broken' = broken
       \/ CacheMayFail("extract") /\ offset[b] < Size /\ broken' = broken \cup {b}
    /\ PrepareEnds(b)
    /\ UNCHANGED <<lookup, valid, offset, fileVars, got, raced>>

Crash(b) ==
    /\ CacheMayFail("crash") /\ pc[b] \in {"stat", "create", "extract"}
    /\ Goto(b, "crashed")
    /\ broken' = IF pc[b] = "extract" THEN broken \cup {b} ELSE broken
    /\ UNCHANGED <<lookup, valid, offset, fileVars, got, raced>>

Prepare(b) ==
    FindBinary(b) \/ StatCache(b) \/ CreateCache(b) \/ ExtractChunk(b) \/ ExtractEnds(b)

-----------------------------------------------------------------------------
(* cp in the step stepQemuUserStatic *)

StartInstall(b) ==
    /\ pc[b] = "prepared" /\ Goto(b, "install")
    /\ offset' = [offset EXCEPT ![b] = 0]
    /\ UNCHANGED <<lookup, valid, fileVars, got, historyVars>>

\* The file may have been truncated, or have holes, by the time it is read.
InstallChunk(b) ==
    /\ pc[b] = "install"
    /\ offset' = [offset EXCEPT ![b] = @ + 1]
    /\ LET next == offset[b] + 1
           there == IF lookup[b] = "path" THEN Chunks ELSE cached IN
       /\ \E c \in there : c >= next
       /\ got' = [got EXCEPT ![b] = IF next \in there THEN @ \cup {next} ELSE @]
    /\ UNCHANGED <<lookup, valid, pc, fileVars, historyVars>>

InstallEnds(b) ==
    /\ pc[b] = "install"
    /\ \A c \in IF lookup[b] = "path" THEN Chunks ELSE cached : c <= offset[b]
    /\ Goto(b, "installed")
    /\ UNCHANGED <<lookup, valid, offset, fileVars, got, historyVars>>

Install(b) == StartInstall(b) \/ InstallChunk(b) \/ InstallEnds(b)

CacheNext == \E b \in Builds : Prepare(b) \/ Crash(b) \/ Install(b)

CacheSpec == CacheInit /\ [][CacheNext]_cacheVars

-----------------------------------------------------------------------------
(* Properties *)

CacheTypeOK ==
    /\ lookup \in [Builds -> {"path", "nothing", "cache"}] /\ valid \in [Builds -> BOOLEAN]
    /\ pc \in [Builds -> Places] /\ offset \in [Builds -> 0..Size]
    /\ exists \in BOOLEAN /\ cached \subseteq Chunks
    /\ got \in [Builds -> SUBSET Chunks]
    /\ broken \subseteq Builds /\ raced \subseteq Builds

\* Once nobody extracts, the binary in the cache is whole, however many builds
\* extracted it over each other, unless an extraction was cut short: that binary
\* stays.
CacheIsWhole ==
    exists /\ Extracting = {} /\ broken = {} => cached = Chunks

\* A build that met no other extraction puts the whole binary into the image,
\* unless it or one before it was cut short.
InstalledWhole ==
    \A b \in Builds :
       pc[b] = "installed" => got[b] = Chunks \/ b \in raced \/ broken # {}

\* Both: what the builds leave in the cache, and what they take from it.
BinaryIsWhole == CacheIsWhole /\ InstalledWhole

-----------------------------------------------------------------------------
(* Why: a chunk that is missing is still to be written by somebody. *)

MissingHasWriter ==
    exists /\ broken = {} =>
       \A c \in Chunks \ cached : \E b \in Extracting : offset[b] < c

OnlyIfExists ==
    /\ ~exists => cached = {} /\ Extracting = {}
    /\ \A b \in Using : exists

\* A build that relies on the cache and met no extraction is alone with it.
UsersUndisturbed == \A b \in Using \ raced : Extracting \subseteq {b}

CopiedSoFar ==
    \A b \in Builds :
       /\ pc[b] \in {"stat", "create", "extract"} => lookup[b] = "cache"
       /\ pc[b] \in {"prepared", "install"} => lookup[b] # "nothing"
       /\ pc[b] \notin {"install", "installed"} => got[b] = {}
       /\ pc[b] \in {"install", "installed"} /\ b \notin raced /\ broken = {} =>
             got[b] = 1..offset[b] /\ (pc[b] = "installed" => offset[b] = Size)

CacheInv ==
    /\ CacheTypeOK /\ MissingHasWriter /\ OnlyIfExists /\ UsersUndisturbed
    /\ CopiedSoFar
=============================================================================
