------------------------------ MODULE Flasher ------------------------------
(***************************************************************************)
(* flasher.Flash: copy an image to a device, hashing what is written when  *)
(* config.Verify is set, sync, and then read as many units back and        *)
(* compare the hashes.  Both copies are calls of CopyWithProgress; the     *)
(* goroutine of the first may still be at work while the second runs.      *)
(* A hash is modelled by the data hashed: md5 is taken to be injective.    *)
(***************************************************************************)
EXTENDS Naturals, Sequences, Functions

CONSTANTS
    Image,     \* the units of the image
    Capacity,  \* the units the device holds
    Chunk,     \* the size of io.Copy's buffer
    Old, Bad,  \* what the device held before; what a bad medium gives back
    NoResult,  \* an empty result channel
    Torn,      \* a hash summed in the middle of an update
    Nothing,   \* no units have landed: the write is not done
    Faults     \* what may fail

ASSUME FlasherAssumption ==
    /\ Image \in Seq(Range(Image)) /\ Capacity \in Nat /\ Chunk \in Nat \ {0}
    /\ {Old, Bad} \cap Range(Image) = {}
    /\ Torn \notin Seq(Range(Image) \cup {Old, Bad}) /\ Nothing \notin Nat
    /\ NoResult \notin [n : Nat, err : {"nil", "read", "write", "stopped"}]

VARIABLES
    verify,   \* config.Verify
    ctxDone,  \* the context is cancelled
    step,     \* where Flash is
    device,   \* the content of the device
    output,   \* the device is open for writing
    landed,   \* the units of a write of the first copy that are on the device
    hash,     \* what the checksummer of the first copy has been given
    sum,      \* FlashResult.Sum
    fCaller, fN, fErr, fCopier, fBuf, fCopyErr, fTotal, fDst, fCh, fLate,
    vCaller, vN, vErr, vCopier, vBuf, vCopyErr, vTotal, vDst, vCh, vLate

fVars == <<fCaller, fN, fErr, fCopier, fBuf, fCopyErr, fTotal, fDst, fCh, fLate>>
vVars == <<vCaller, vN, vErr, vCopier, vBuf, vCopyErr, vTotal, vDst, vCh, vLate>>
diskVars == <<device, output, landed>>
vars == <<verify, ctxDone, step, diskVars, hash, sum, fVars, vVars>>

MayFail(call) == call \in Faults

\* A verification that stops one unit short of what was written.
OneLess == IF fN = 0 THEN 0 ELSE fN - 1

\* LimitedReader.N: FlashResult.BytesWritten.
Limit == fN

Smaller(a, b) == IF a < b THEN a ELSE b

\* The copy of the image to the device, and that of the device to the hasher.
F == INSTANCE CopyWithProgress WITH Sources <- {Image}, src <- Image,
        caller <- fCaller, n <- fN, err <- fErr, copier <- fCopier, buf <- fBuf,
        copyErr <- fCopyErr, total <- fTotal, dst <- fDst, ch <- fCh, late <- fLate
V == INSTANCE CopyWithProgress WITH Sources <- {Image},
        src <- SubSeq(device, 1, Smaller(Limit, Capacity)),
        caller <- vCaller, n <- vN, err <- vErr, copier <- vCopier, buf <- vBuf,
        copyErr <- vCopyErr, total <- vTotal, dst <- vDst, ch <- vCh, late <- vLate

Init ==
    /\ verify \in BOOLEAN /\ ctxDone = FALSE /\ step = "start"
    /\ device = [i \in 1..Capacity |-> Old]
    /\ output = "closed" /\ landed = Nothing /\ hash = << >> /\ sum = << >>
    /\ F!Idle /\ V!Idle

Cancel ==
    /\ MayFail("cancel") /\ ~ctxDone /\ ctxDone' = TRUE
    /\ UNCHANGED <<verify, step, diskVars, hash, sum, fVars, vVars>>

-----------------------------------------------------------------------------
(* Flash and flash *)

\* No image, no device, the user's no, a failed umount, a device that does not open.
Refuse ==
    /\ step = "start" /\ MayFail("prepare") /\ step' = "failed"
    /\ UNCHANGED <<verify, ctxDone, diskVars, hash, sum, fVars, vVars>>

StartFlashing ==
    /\ step = "start" /\ step' = "flashing" /\ output' = "open" /\ F!Call
    /\ UNCHANGED <<verify, ctxDone, device, landed, hash, sum, vVars>>

FlashCaller ==
    /\ F!ReceiveResult \/ F!Interrupted \/ F!Stop
    /\ UNCHANGED <<verify, ctxDone, step, diskVars, hash, sum, vVars>>

\* Reads of the image, which is closed along with the device.
FlashReads ==
    /\ \/ F!Read \/ F!Tee \/ F!Count \/ F!Send
       \/ (MayFail("read") \/ output = "closed") /\ F!ReadFails
    /\ UNCHANGED <<verify, ctxDone, step, diskVars, hash, sum, vVars>>

\* Nothing lands of a write to a file that is closed already.
FlashWriteBegins ==
    /\ F!WriteBegins
    /\ landed' = IF output = "closed" THEN 0 ELSE landed
    /\ UNCHANGED <<verify, ctxDone, step, device, output, hash, sum, vVars>>

\* The device takes what it has room for; a medium that fails takes less.
DeviceTakes ==
    /\ fCopier = "writing" /\ landed = Nothing
    /\ LET at == Len(fDst)
           fits == Smaller(Len(fBuf), Capacity - at) IN
       \E k \in (IF MayFail("write") THEN 0..fits ELSE {fits}) :
          /\ landed' = k
          /\ device' = [i \in 1..Capacity |->
                          IF i \in (at + 1)..(at + k) THEN fBuf[i - at] ELSE device[i]]
    /\ UNCHANGED <<verify, ctxDone, step, output, hash, sum, fVars, vVars>>

\* The end of a write that leaves the mark of what has landed.
LeavesMark == landed' = landed

ClearsMark == landed' = Nothing

\* MultiWriter gives the hasher only what the device took whole.
FlashWriteEnds ==
    /\ landed # Nothing /\ F!WriteEnds(landed) /\ ClearsMark
    /\ hash' = IF verify /\ landed = Len(fBuf) THEN hash \o fBuf ELSE hash
    /\ UNCHANGED <<verify, ctxDone, step, device, output, sum, vVars>>

\* CopyWithProgress has returned; its error is dropped.  After an interruption the
\* copier may be updating the hash that is summed.
TakeSum ==
    /\ step = "flashing" /\ fCaller = "returned" /\ step' = "closing"
    /\ sum' \in IF verify /\ landed # Nothing THEN {hash, Torn} ELSE {hash}
    /\ UNCHANGED <<verify, ctxDone, diskVars, hash, fVars, vVars>>

\* The deferred Close of the device and of the image.
CloseOutput ==
    /\ step = "closing" /\ step' = "syncing" /\ output' = "closed"
    /\ UNCHANGED <<verify, ctxDone, device, landed, hash, sum, fVars, vVars>>

\* What was written reaches the medium, which may be bad.
Sync ==
    /\ step = "syncing" /\ step' = IF verify THEN "opening" ELSE "ok"
    /\ \E rotten \in (IF MayFail("media") THEN SUBSET (1..Capacity) ELSE {{}}) :
          device' = [i \in 1..Capacity |-> IF i \in rotten THEN Bad ELSE device[i]]
    /\ UNCHANGED <<verify, ctxDone, output, landed, hash, sum, fVars, vVars>>

-----------------------------------------------------------------------------
(* verify *)

StartVerifying ==
    /\ step = "opening"
    /\ \/ step' = "verifying" /\ V!Call
       \/ MayFail("open") /\ step' = "failed" /\ UNCHANGED vVars
    /\ UNCHANGED <<verify, ctxDone, diskVars, hash, sum, fVars>>

\* The hasher takes every write whole.
Verifies ==
    /\ \/ V!ReceiveResult \/ V!Interrupted \/ V!Stop \/ V!Read \/ V!Tee \/ V!Count
       \/ V!WriteBegins \/ V!WriteEnds(Len(vBuf)) \/ V!Send
       \/ (MayFail("reread") /\ V!ReadFails)
    /\ UNCHANGED <<verify, ctxDone, step, diskVars, hash, sum, fVars>>

\* A comparison of no more than the sizes.
SameSize == sum # Torn /\ Len(vDst) = Len(sum)

SameSum == vDst = sum

Judge ==
    /\ step = "verifying" /\ vCaller = "returned"
    /\ step' = IF vErr # "nil" THEN "failed" ELSE IF SameSum THEN "ok" ELSE "mismatch"
    /\ UNCHANGED <<verify, ctxDone, diskVars, hash, sum, fVars, vVars>>

\* Flash has returned; the copier of the first copy may have work left.
Over == step \in {"ok", "failed", "mismatch"} /\ UNCHANGED vars

Next ==
    \/ Cancel \/ Refuse \/ StartFlashing \/ FlashCaller \/ FlashReads
    \/ FlashWriteBegins \/ DeviceTakes \/ FlashWriteEnds
    \/ TakeSum \/ CloseOutput \/ Sync \/ StartVerifying \/ Verifies \/ Judge \/ Over

Spec == Init /\ [][Next]_vars

-----------------------------------------------------------------------------
(* Properties *)

TypeOK ==
    /\ verify \in BOOLEAN /\ ctxDone \in BOOLEAN
    /\ step \in {"start", "flashing", "closing", "syncing", "opening", "verifying",
                 "ok", "failed", "mismatch"}
    /\ device \in [1..Capacity -> Range(Image) \cup {Old, Bad}]
    /\ output \in {"open", "closed"} /\ landed \in 0..Chunk \cup {Nothing}
    /\ landed # Nothing => fCopier = "writing"
    /\ fDst \in Seq(Range(Image)) /\ vDst \in Seq(Range(Image) \cup {Old, Bad})
    /\ hash \in Seq(Range(Image)) /\ sum \in Seq(Range(Image)) \cup {Torn}

\* flash.go:105, "all seems well!": whatever fails, and whenever the flash is
\* interrupted, the device then starts with the part of the image that was hashed.
VerifiedIsIntact ==
    step = "ok" /\ verify =>
       \A i \in DOMAIN sum : device[i] = Image[i]

\* A verified flash whose copy ended without an error wrote the whole image, whatever
\* the medium did and whatever became of the first copy's goroutine.
VerifiedCopyIsWhole ==
    step = "ok" /\ verify /\ fErr = "nil" =>
       \A i \in DOMAIN Image : i <= Capacity /\ device[i] = Image[i]

\* The verification fails only if the copy or the medium did: every unit it reads
\* back was written by this copy.
NoFalseAlarm == step = "mismatch" => fErr # "nil" \/ Bad \in Range(device)

\* main.go:27: -verify is there to "verify that image was written".
VerifiedMeansWritten ==
    step = "ok" /\ verify =>
       \A i \in DOMAIN Image : i <= Capacity /\ device[i] = Image[i]
=============================================================================
