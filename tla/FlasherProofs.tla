--------------------------- MODULE FlasherProofs ---------------------------
(***************************************************************************)
(* Proofs about Flasher, for every image, device, buffer and set of        *)
(* faults: what a verification that reports success, or a mismatch, says   *)
(* of the device.  The first copy is a call of CopyWithProgress, so what   *)
(* CopyWithProgressProofs shows of a call is used of it as it stands.  The *)
(* second copy is not: while it reads the device, the goroutine of a first *)
(* copy that was interrupted may still change the device, that is the      *)
(* source of the second.                                                   *)
(***************************************************************************)
EXTENDS Flasher, SequenceTheorems, TLAPS

FP == INSTANCE CopyWithProgressProofs WITH Sources <- {Image}, src <- Image,
        caller <- fCaller, n <- fN, err <- fErr, copier <- fCopier, buf <- fBuf,
        copyErr <- fCopyErr, total <- fTotal, dst <- fDst, ch <- fCh, late <- fLate

-----------------------------------------------------------------------------
(* The inductive invariant *)

\* What a device can hold.
Units == Range(Image) \cup {Old, Bad}

\* What verify reads back: the units that were reported as written and fit.
Span == Smaller(Limit, Capacity)

Errors == {"nil", "read", "write", "stopped"}

\* Where the two copies stand for each step of Flash.
PlaceInv ==
    /\ step = "start" => fCaller = "idle"
    /\ step \notin {"start", "flashing", "failed"} => fCaller = "returned"
    /\ step \in {"start", "flashing", "closing", "syncing", "opening"} => vCaller = "idle"
    /\ vCaller # "idle" => fCaller = "returned"
    /\ step \in {"opening", "verifying"} => verify

\* What the first copy wrote is the image, or was spoiled by the medium; what has
\* landed of a write is in the buffer, and the device has room for it.
DeviceInv ==
    /\ Len(fDst) <= Capacity
    /\ \A i \in 1..Len(fDst) : device[i] \in {Image[i], Bad}
    /\ landed # Nothing =>
          /\ landed <= Len(fBuf) /\ Len(fDst) + landed <= Capacity
          /\ \A i \in (Len(fDst) + 1)..(Len(fDst) + landed) : device[i] \in {Image[i], Bad}

\* The hasher was given the start of the image: all that the device took, but for
\* the part of a write that was cut short.
HashInv ==
    /\ fCopier \notin {"send", "done"} => fCopyErr = "nil"
    /\ Len(hash) <= Len(Image) /\ \A i \in 1..Len(hash) : hash[i] = Image[i]
    /\ verify /\ fCopyErr # "write" => Len(hash) = Len(fDst)
    /\ ~verify => hash = << >>

\* The sum is torn or that of the start of the image; it is the hasher's when the
\* copy was not interrupted.
SumInv ==
    /\ sum # Torn => Len(sum) <= Len(Image) /\ \A i \in 1..Len(sum) : sum[i] = Image[i]
    /\ step \notin {"start", "flashing", "failed"} /\ fErr # "interrupted" => sum = hash

\* The types of the second copy, and an idle one holds nothing.
VerifyTypes ==
    /\ vCaller \in {"idle", "waiting", "leaving", "returned"}
    /\ vErr \in Errors \cup {"interrupted"}
    /\ vCopier \in {"idle", "read", "tee", "count", "write", "writing", "send", "done"}
    /\ vBuf \in Seq(Units) /\ Len(vBuf) <= Chunk /\ vDst \in Seq(Units)
    /\ vCopyErr \in Errors /\ vCh \in [n : Nat, err : Errors] \cup {NoResult}
    /\ vCaller = "idle" => vCopier = "idle" /\ vBuf = << >> /\ vDst = << >> /\ vCh = NoResult
    /\ vCopier \in {"read", "send", "done"} => vBuf = << >>

\* A unit that was read back from place i is still there, unless an interrupted
\* first copy has put its own there since.
Fresh(i, u) == u = device[i] \/ (fErr # "nil" /\ device[i] = Image[i])

\* The second copy reads the device from its start, to the end of the span when it
\* ends without an error; its result reaches the caller as it is.
VerifyInv ==
    /\ vCaller # "idle" => Len(vDst) + Len(vBuf) <= Span
    /\ \A i \in 1..Len(vDst) : Fresh(i, vDst[i])
    /\ \A i \in 1..Len(vBuf) : Fresh(Len(vDst) + i, vBuf[i])
    /\ vCopier \in {"send", "done"} /\ vCopyErr = "nil" => Len(vDst) = Span
    /\ vCh # NoResult => vCopier = "done" /\ vCh = [n |-> Len(vDst), err |-> vCopyErr]
    /\ vCaller \in {"leaving", "returned"} /\ vErr # "interrupted" =>
          vCopier = "done" /\ vErr = vCopyErr

\* The judgement is about a second copy that ended without an error, and that
\* nothing changes any more.
JudgeInv ==
    /\ step \in {"ok", "mismatch"} /\ verify => vCaller = "returned" /\ vErr = "nil"
    /\ step = "ok" /\ verify => vDst = sum
    /\ step = "mismatch" => verify /\ vDst # sum

FirstCopy == FP!TypeOK /\ FP!ResultInv

Inv ==
    /\ TypeOK /\ FirstCopy /\ PlaceInv /\ DeviceInv /\ HashInv /\ SumInv
    /\ VerifyTypes /\ VerifyInv /\ JudgeInv

-----------------------------------------------------------------------------
(* The first copy is a call of CopyWithProgress *)

\* What CopyWithProgress assumes of its constants holds of the first copy.
LEMMA FirstCopyAssumption == FP!CopyAssumption
BY FlasherAssumption DEF FP!CopyAssumption, FP!Range, Range

\* Every step of Flash is one of the first copy, or leaves it alone.
LEMMA FirstCopyMoves == TypeOK /\ [Next]_vars => [FP!Next]_(FP!vars)
<1> SUFFICES ASSUME TypeOK, [Next]_vars PROVE [FP!Next]_(FP!vars)
  OBVIOUS
<1> USE DEF FP!vars, FP!callerVars, FP!copierVars, F!callerVars, F!copierVars
<1>1. CASE StartFlashing
  BY <1>1 DEF StartFlashing, F!Call, FP!Next, FP!Caller, FP!Call
<1>2. CASE FlashCaller
  BY <1>2 DEF FlashCaller, F!ReceiveResult, F!Interrupted, F!Stop, F!Written,
     F!Interruptible, FP!ReceiveResult, FP!Interrupted, FP!Stop, FP!Written,
     FP!Interruptible, FP!Next, FP!Caller
<1>3. CASE FlashReads
  BY <1>3 DEF FlashReads, F!Read, F!Tee, F!Count, F!Send, F!ReadFails, F!Finish, F!Refuses,
     F!Stopped, F!Counted, F!HasRoom, F!Smaller, FP!Read, FP!Tee, FP!Count, FP!Send,
     FP!ReadFails, FP!Finish, FP!Refuses, FP!Stopped, FP!Counted, FP!HasRoom, FP!Smaller,
     FP!Next, FP!Copier
<1>4. CASE FlashWriteBegins
  BY <1>4 DEF FlashWriteBegins, F!WriteBegins, F!Stopped, FP!WriteBegins, FP!Stopped,
     FP!Next, FP!Copier
<1>5. CASE FlashWriteEnds
  <2>1. landed \in 0..Chunk /\ FP!WriteEnds(landed) /\ UNCHANGED <<Image, ctxDone>>
    BY <1>5 DEF FlashWriteEnds, TypeOK, F!WriteEnds, F!Finish, FP!WriteEnds, FP!Finish
  <2> QED BY <2>1 DEF FP!Next, FP!Copier
<1>6. CASE Cancel
  BY <1>6 DEF Cancel, fVars, FP!Next, FP!Cancel
<1>7. CASE Refuse \/ DeviceTakes \/ TakeSum \/ CloseOutput \/ Sync \/ StartVerifying
           \/ Verifies \/ Judge \/ UNCHANGED vars
  BY <1>7 DEF Refuse, DeviceTakes, TakeSum, CloseOutput, Sync, StartVerifying, Verifies,
     Judge, vars, fVars
<1> QED BY <1>1, <1>2, <1>3, <1>4, <1>5, <1>6, <1>7 DEF Next, Over

\* So what CopyWithProgress promises of its types and of its result holds of it.
LEMMA FirstCopyStep == TypeOK /\ FirstCopy /\ [Next]_vars => FirstCopy'
BY FirstCopyAssumption, FirstCopyMoves, FP!TypeStep, FP!ResultStep DEF FirstCopy

\* What the rest of the proof uses of the first copy.
LEMMA FirstCopyFacts ==
    ASSUME FirstCopy
    PROVE  /\ Image \in Seq(Range(Image)) /\ Len(Image) \in Nat
           /\ fBuf \in Seq(Range(Image)) /\ Len(fBuf) \in Nat /\ Len(fBuf) <= Chunk
           /\ fDst \in Seq(Range(Image)) /\ Len(fDst) \in Nat /\ fN \in Nat
           /\ Capacity \in Nat /\ Chunk \in Nat \ {0} /\ Span \in Nat
           /\ Span <= fN /\ Span <= Capacity /\ (fN <= Capacity => Span = fN)
           /\ fCaller = "idle" <=> fCopier = "idle"
           /\ fCopier \in {"idle", "read", "send", "done"} => fBuf = << >>
           /\ Len(fDst) + Len(fBuf) <= Len(Image)
           /\ \A i \in 1..Len(fDst) : fDst[i] = Image[i]
           /\ \A i \in 1..Len(fBuf) : fBuf[i] = Image[Len(fDst) + i]
           /\ fCopier = "done" /\ fCopyErr = "nil" => Len(fDst) = Len(Image)
           /\ fCaller = "returned" /\ fErr # "interrupted" =>
                 fCopier = "done" /\ fN = Len(fDst) /\ fErr = fCopyErr
<1>1. /\ Image \in Seq(Range(Image)) /\ Len(Image) \in Nat
      /\ Capacity \in Nat /\ Chunk \in Nat \ {0}
  BY FlasherAssumption
<1>2. /\ fBuf \in Seq(Range(Image)) /\ Len(fBuf) <= Chunk
      /\ fDst \in Seq(Range(Image)) /\ fN \in Nat
      /\ fCaller = "idle" <=> fCopier = "idle"
      /\ fCopier \in {"idle", "read", "send", "done"} => fBuf = << >>
  BY DEF FirstCopy, FP!TypeOK, FP!Range, Range
<1>3. Len(fBuf) \in Nat /\ Len(fDst) \in Nat
  BY <1>2
<1>4. /\ Span \in Nat /\ Span <= fN /\ Span <= Capacity
      /\ fN <= Capacity => Span = fN
  BY <1>1, <1>2 DEF Span, Limit, Smaller
<1>5. /\ Len(fDst) + Len(fBuf) <= Len(Image)
      /\ \A i \in 1..Len(fDst) : fDst[i] = Image[i]
      /\ \A i \in 1..Len(fBuf) : fBuf[i] = Image[Len(fDst) + i]
  BY DEF FirstCopy, FP!ResultInv
<1>6. /\ fCopier = "done" /\ fCopyErr = "nil" => Len(fDst) = Len(Image)
      /\ fCaller = "returned" /\ fErr # "interrupted" =>
            fCopier = "done" /\ fN = Len(fDst) /\ fErr = fCopyErr
  BY DEF FirstCopy, FP!ResultInv
<1> QED BY <1>1, <1>2, <1>3, <1>4, <1>5, <1>6

-----------------------------------------------------------------------------
(* The second copy *)

\* The source of the second copy: the start of the device.
Source == SubSeq(device, 1, Span)

LEMMA SourceIs ==
    ASSUME TypeOK, FirstCopy
    PROVE  Source \in Seq(Units) /\ Len(Source) = Span
           /\ \A i \in 1..Span : Source[i] = device[i]
<1>1. device \in Seq(Units) /\ Len(device) = Capacity
  <2>1. device \in [1..Capacity -> Units] /\ Capacity \in Nat
    BY FirstCopyFacts DEF TypeOK, Units
  <2>2. device \in Seq(Units)
    BY <2>1, SeqDef
  <2> QED BY <2>1, <2>2, LenProperties
<1>2. Span \in Nat /\ 0 + Span <= Len(device)
  BY <1>1, FirstCopyFacts
<1>3. /\ SubSeq(device, 0 + 1, 0 + Span) \in Seq(Units)
      /\ Len(SubSeq(device, 0 + 1, 0 + Span)) = Span
      /\ \A i \in 1..Span : SubSeq(device, 0 + 1, 0 + Span)[i] = device[0 + i]
  BY <1>1, <1>2, FirstCopyAssumption, FP!Cut
<1> QED BY <1>1, <1>3 DEF Source

\* A read of the device either ends the copy, or gives it the units that follow.
LEMMA ReadsBack ==
    ASSUME TypeOK, FirstCopy, VerifyTypes, V!Read
    PROVE  \/ /\ vBuf' = << >> /\ vCopier' = "send" /\ vCopyErr' = "nil"
              /\ Span <= Len(vDst)
           \/ /\ vBuf' \in Seq(Units) /\ Len(vBuf') <= Chunk /\ vBuf' # << >>
              /\ vCopier' = "tee" /\ vCopyErr' = vCopyErr
              /\ Len(vDst) + Len(vBuf') <= Span
              /\ \A i \in 1..Len(vBuf') : vBuf'[i] = device[Len(vDst) + i]
<1>0. /\ Source \in Seq(Units) /\ Len(Source) = Span /\ Span \in Nat
      /\ \A i \in 1..Span : Source[i] = device[i]
      /\ vDst \in Seq(Units) /\ Len(vDst) \in Nat /\ Chunk \in Nat \ {0}
  BY SourceIs, FirstCopyFacts DEF VerifyTypes
<1>1. Source = SubSeq(device, 1, Smaller(Limit, Capacity))
  BY DEF Source, Span
<1>2. CASE Span - Len(vDst) <= 0
  BY <1>0, <1>1, <1>2 DEF V!Read, V!Finish
<1>3. CASE Span - Len(vDst) > 0
  <2>1. ~(Len(Source) - Len(vDst) <= 0)
    BY <1>0, <1>3
  <2>2. \E k \in 1..V!Smaller(Chunk, Len(Source) - Len(vDst)) :
           /\ vBuf' = SubSeq(Source, Len(vDst) + 1, Len(vDst) + k)
           /\ vCopier' = "tee" /\ vCopyErr' = vCopyErr
    BY <1>1, <2>1 DEF V!Read
  <2>3. PICK k \in 1..V!Smaller(Chunk, Span - Len(vDst)) :
           /\ vBuf' = SubSeq(Source, Len(vDst) + 1, Len(vDst) + k)
           /\ vCopier' = "tee" /\ vCopyErr' = vCopyErr
    BY <1>0, <2>2
  <2>4. k \in Nat /\ 0 < k /\ k <= Chunk /\ Len(vDst) + k <= Span
    BY <1>0, <1>3 DEF V!Smaller
  <2>5. /\ vBuf' \in Seq(Units) /\ Len(vBuf') = k
        /\ \A i \in 1..k : vBuf'[i] = Source[Len(vDst) + i]
    <3> DEFINE cut == SubSeq(Source, Len(vDst) + 1, Len(vDst) + k)
    <3>1. Len(vDst) + k <= Len(Source)
      BY <1>0, <2>4
    <3>2. cut \in Seq(Units) /\ Len(cut) = k /\ \A i \in 1..k : cut[i] = Source[Len(vDst) + i]
      BY <1>0, <2>4, <3>1, FirstCopyAssumption, FP!Cut
    <3>3. vBuf' = cut
      BY <2>3
    <3> HIDE DEF cut
    <3> QED BY <3>2, <3>3
  <2>6. ASSUME NEW i \in 1..k PROVE Source[Len(vDst) + i] = device[Len(vDst) + i]
    <3>1. Len(vDst) + i \in 1..Span
      BY <1>0, <2>4
    <3> QED BY <1>0, <3>1
  <2>7. vBuf' # << >>
    BY <2>4, <2>5
  <2> QED BY <2>3, <2>4, <2>5, <2>6, <2>7
<1> QED BY <1>0, <1>2, <1>3

\* A write gives the hasher the whole buffer.
LEMMA Hashes ==
    ASSUME VerifyTypes, V!WriteEnds(Len(vBuf))
    PROVE  /\ vDst' \in Seq(Units) /\ Len(vDst') = Len(vDst) + Len(vBuf)
           /\ \A i \in 1..Len(vDst) : vDst'[i] = vDst[i]
           /\ \A i \in 1..Len(vBuf) : vDst'[Len(vDst) + i] = vBuf[i]
           /\ vBuf' = << >> /\ vCopier' = "read" /\ vCopyErr' = vCopyErr
<1>1. vBuf \in Seq(Units) /\ vDst \in Seq(Units) /\ Len(vBuf) \in Nat /\ Len(vDst) \in Nat
  BY DEF VerifyTypes
<1>2. SubSeq(vBuf, 1, Len(vBuf)) = vBuf
  BY <1>1
<1>3. /\ vDst' = vDst \o vBuf /\ vBuf' = << >> /\ vCopier' = "read"
      /\ vCopyErr' = vCopyErr
  BY <1>1, <1>2 DEF V!WriteEnds
<1>4. vDst \o vBuf \in Seq(Units) /\ Len(vDst \o vBuf) = Len(vDst) + Len(vBuf)
  BY <1>1, ConcatProperties
<1>5. \A i \in 1..(Len(vDst) + Len(vBuf)) : (vDst \o vBuf)[i] =
         IF i <= Len(vDst) THEN vDst[i] ELSE vBuf[i - Len(vDst)]
  BY <1>1, ConcatProperties
<1> QED BY <1>1, <1>3, <1>4, <1>5

\* The types of the second copy, while the first may still be at work.
LEMMA VerifyTypeStep == TypeOK /\ FirstCopy /\ VerifyTypes /\ [Next]_vars => VerifyTypes'
<1> SUFFICES ASSUME TypeOK, FirstCopy, VerifyTypes, [Next]_vars PROVE VerifyTypes'
  OBVIOUS
<1> USE DEF VerifyTypes, Errors, V!callerVars, V!copierVars
<1>0. Chunk \in Nat \ {0} /\ Len(<< >>) = 0 /\ << >> \in Seq(Units)
  BY FirstCopyFacts
<1>1. CASE UNCHANGED vVars
  BY <1>1 DEF vVars
<1>2. CASE V!Call
  BY <1>2 DEF V!Call
<1>3. CASE V!ReceiveResult \/ V!Interrupted \/ V!Stop
  BY <1>3 DEF V!ReceiveResult, V!Interrupted, V!Stop, VerifyInv
<1>4. CASE V!Read
  BY <1>0, <1>4, ReadsBack DEF V!Read
<1>5. CASE V!Tee \/ V!Count \/ V!WriteBegins \/ V!Send \/ V!ReadFails
  <2>1. UNCHANGED <<vCaller, vErr, vDst>> /\ vCaller # "idle"
    BY <1>5 DEF V!Tee, V!Count, V!WriteBegins, V!Send, V!ReadFails
  <2>2. CASE V!Tee \/ V!ReadFails
    <3>1. vCh' = vCh
      BY <2>2 DEF V!Tee, V!ReadFails
    <3>2. \/ vBuf' = << >> /\ vCopier' = "send" /\ vCopyErr' \in {"stopped", "read"}
          \/ vBuf' = vBuf /\ vCopier' = "count" /\ vCopyErr' = vCopyErr
      BY <2>2 DEF V!Tee, V!ReadFails, V!Finish
    <3>3. CASE vBuf' = << >> /\ vCopier' = "send" /\ vCopyErr' \in {"stopped", "read"}
      BY <1>0, <2>1, <3>1, <3>3
    <3>4. CASE vBuf' = vBuf /\ vCopier' = "count" /\ vCopyErr' = vCopyErr
      BY <2>1, <3>1, <3>4
    <3> QED BY <3>2, <3>3, <3>4
  <2>3. CASE V!Count \/ V!WriteBegins
    BY <1>0, <2>1, <2>3 DEF V!Count, V!WriteBegins
  <2>4. CASE V!Send
    <3>1. [n |-> Len(vDst), err |-> vCopyErr] \in [n : Nat, err : Errors]
      OBVIOUS
    <3> QED BY <1>0, <2>1, <2>4, <3>1 DEF V!Send
  <2> QED BY <1>5, <2>2, <2>3, <2>4
<1>6. CASE V!WriteEnds(Len(vBuf))
  <2>1. UNCHANGED <<vCaller, vErr, vCh>> /\ vCaller # "idle"
    BY <1>6 DEF V!WriteEnds
  <2>2. /\ vDst' \in Seq(Units) /\ vBuf' = << >> /\ vCopier' = "read"
        /\ vCopyErr' = vCopyErr
    BY <1>6, Hashes
  <2> QED BY <1>0, <2>1, <2>2
<1>7. QED
  BY <1>1, <1>2, <1>3, <1>4, <1>5, <1>6
  DEF Next, Cancel, Refuse, StartFlashing, FlashCaller, FlashReads, FlashWriteBegins,
      DeviceTakes, FlashWriteEnds, TakeSum, CloseOutput, Sync, StartVerifying, Verifies,
      Judge, Over, vars

-----------------------------------------------------------------------------
(* Type correctness *)

\* What lands of a write is units of the image, in their places.
LEMMA Lands ==
    ASSUME TypeOK, FirstCopy, DeviceInv, DeviceTakes
    PROVE  /\ fCopier = "writing" /\ landed' \in Nat /\ landed' <= Len(fBuf)
           /\ Len(fDst) + landed' <= Capacity
           /\ device' \in [1..Capacity -> Units]
           /\ \A i \in (Len(fDst) + 1)..(Len(fDst) + landed') : device'[i] = Image[i]
           /\ \A i \in 1..Capacity :
                 device'[i] = device[i] \/ (device'[i] = Image[i] /\ i > Len(fDst))
<1>0. /\ Len(fBuf) \in Nat /\ Len(fDst) \in Nat /\ Capacity \in Nat
      /\ Len(fDst) <= Capacity /\ fBuf \in Seq(Range(Image))
      /\ \A i \in 1..Len(fBuf) : fBuf[i] = Image[Len(fDst) + i]
  BY FirstCopyFacts DEF DeviceInv
<1> DEFINE fits == Smaller(Len(fBuf), Capacity - Len(fDst))
<1>1. fits \in Nat /\ fits <= Len(fBuf) /\ fits <= Capacity - Len(fDst)
  BY <1>0 DEF Smaller
<1>2. PICK k \in 0..fits :
         /\ landed' = k
         /\ device' = [i \in 1..Capacity |->
                         IF i \in (Len(fDst) + 1)..(Len(fDst) + k)
                         THEN fBuf[i - Len(fDst)] ELSE device[i]]
  BY <1>1 DEF DeviceTakes
<1>3. k \in Nat /\ k <= Len(fBuf) /\ Len(fDst) + k <= Capacity
  BY <1>0, <1>1
<1>4. ASSUME NEW i \in (Len(fDst) + 1)..(Len(fDst) + k)
      PROVE  /\ i \in 1..Capacity /\ i > Len(fDst)
             /\ fBuf[i - Len(fDst)] = Image[i] /\ fBuf[i - Len(fDst)] \in Units
  <2>1. i - Len(fDst) \in 1..Len(fBuf) /\ i = Len(fDst) + (i - Len(fDst))
    BY <1>0, <1>3
  <2> QED BY <1>0, <1>3, <2>1 DEF Units
<1>5. device' \in [1..Capacity -> Units]
  BY <1>2, <1>4 DEF TypeOK, Units
<1>6. fCopier = "writing"
  BY DEF DeviceTakes
<1> QED BY <1>2, <1>3, <1>4, <1>5, <1>6

\* Every step keeps the types, and only the write that is under way has landed units.
LEMMA TypeStep ==
    TypeOK /\ FirstCopy /\ VerifyTypes /\ DeviceInv /\ [Next]_vars => TypeOK'
<1> SUFFICES ASSUME TypeOK, FirstCopy, VerifyTypes, DeviceInv, [Next]_vars PROVE TypeOK'
  OBVIOUS
<1>0. /\ fBuf \in Seq(Range(Image)) /\ Len(fBuf) \in Nat /\ Len(fBuf) <= Chunk
      /\ fDst' \in Seq(Range(Image)) /\ vDst' \in Seq(Range(Image) \cup {Old, Bad})
      /\ Capacity \in Nat /\ Chunk \in Nat /\ Nothing \notin Nat
      /\ fCaller = "idle" <=> fCopier = "idle"
  BY FirstCopyFacts, FirstCopyStep, VerifyTypeStep, FlasherAssumption
  DEF FirstCopy, FP!TypeOK, FP!Range, Range, VerifyTypes, Units
<1> USE DEF TypeOK
<1>1. CASE Cancel \/ Refuse \/ CloseOutput \/ Judge \/ UNCHANGED vars
  BY <1>1 DEF Cancel, Refuse, CloseOutput, Judge, vars, diskVars, fVars, vVars
<1>2. CASE StartFlashing \/ FlashCaller
  BY <1>0, <1>2
  DEF StartFlashing, FlashCaller, F!Call, F!ReceiveResult, F!Interrupted, F!Stop,
      F!copierVars, diskVars, vVars
<1>3. CASE FlashReads
  <2>1. fCopier # "writing"
    BY <1>3 DEF FlashReads, F!Read, F!Tee, F!Count, F!Send, F!ReadFails
  <2> QED BY <1>0, <1>3, <2>1 DEF FlashReads, diskVars, vVars
<1>4. CASE FlashWriteBegins
  BY <1>0, <1>4 DEF FlashWriteBegins, F!WriteBegins, vVars
<1>5. CASE DeviceTakes
  <2>1. /\ landed' \in 0..Chunk /\ device' \in [1..Capacity -> Range(Image) \cup {Old, Bad}]
        /\ fCopier = "writing"
    BY <1>0, <1>5, Lands DEF Units
  <2> QED BY <1>0, <1>5, <2>1 DEF DeviceTakes, fVars, vVars
<1>6. CASE FlashWriteEnds
  <2>1. hash \o fBuf \in Seq(Range(Image))
    BY <1>0, ConcatProperties
  <2> QED BY <1>0, <1>6, <2>1 DEF FlashWriteEnds, ClearsMark, vVars
<1>7. CASE TakeSum
  <2>1. sum' \in {hash, Torn}
    BY <1>7 DEF TakeSum
  <2> QED BY <1>7, <2>1 DEF TakeSum, diskVars, fVars, vVars
<1>8. CASE Sync
  <2>1. device' \in [1..Capacity -> Range(Image) \cup {Old, Bad}]
    BY <1>8 DEF Sync
  <2> QED BY <1>8, <2>1 DEF Sync, fVars, vVars
<1>9. CASE StartVerifying \/ Verifies
  BY <1>0, <1>9 DEF StartVerifying, Verifies, diskVars, fVars
<1> QED BY <1>1, <1>2, <1>3, <1>4, <1>5, <1>6, <1>7, <1>8, <1>9 DEF Next, Over

-----------------------------------------------------------------------------
(* Where the two copies stand, and what is on the device *)

LEMMA PlaceStep == PlaceInv /\ VerifyTypes /\ FirstCopy /\ [Next]_vars => PlaceInv'
<1> SUFFICES ASSUME PlaceInv, VerifyTypes, FirstCopy, [Next]_vars PROVE PlaceInv'
  OBVIOUS
<1> USE DEF PlaceInv
<1>0. fCaller = "idle" <=> fCopier = "idle"
  BY FirstCopyFacts
<1>1. CASE Cancel \/ Refuse \/ DeviceTakes \/ TakeSum \/ CloseOutput \/ Sync \/ Judge
           \/ UNCHANGED vars
  BY <1>1 DEF Cancel, Refuse, DeviceTakes, TakeSum, CloseOutput, Sync, Judge, vars, fVars,
     vVars
<1>2. CASE StartFlashing
  BY <1>2 DEF StartFlashing, F!Call, vVars
<1>3. CASE FlashCaller
  BY <1>3 DEF FlashCaller, F!ReceiveResult, F!Interrupted, F!Stop, vVars
<1>4. CASE FlashReads \/ FlashWriteBegins \/ FlashWriteEnds
  BY <1>0, <1>4
  DEF FlashReads, FlashWriteBegins, FlashWriteEnds, F!Read, F!Tee, F!Count, F!Send,
      F!ReadFails, F!WriteBegins, F!WriteEnds, F!callerVars, vVars
<1>5. CASE StartVerifying
  BY <1>5 DEF StartVerifying, V!Call, fVars, vVars
<1>6. CASE Verifies
  <2>1. vCaller # "idle" /\ UNCHANGED <<step, verify, fCaller>>
    BY <1>6
    DEF Verifies, V!ReceiveResult, V!Interrupted, V!Stop, V!Read, V!Tee, V!Count,
        V!WriteBegins, V!WriteEnds, V!Send, V!ReadFails, VerifyTypes, fVars
  <2> QED BY <2>1
<1> QED BY <1>1, <1>2, <1>3, <1>4, <1>5, <1>6 DEF Next, Over

LEMMA DeviceStep == TypeOK /\ FirstCopy /\ DeviceInv /\ [Next]_vars => DeviceInv'
<1> SUFFICES ASSUME TypeOK, FirstCopy, DeviceInv, [Next]_vars PROVE DeviceInv'
  OBVIOUS
<1>0. /\ Len(fBuf) \in Nat /\ Len(fDst) \in Nat /\ Capacity \in Nat
      /\ fBuf \in Seq(Range(Image)) /\ fDst \in Seq(Range(Image))
  BY FirstCopyFacts
<1>1. CASE Cancel \/ Refuse \/ TakeSum \/ CloseOutput \/ StartVerifying \/ Verifies \/ Judge
           \/ UNCHANGED vars
  BY <1>1
  DEF Cancel, Refuse, TakeSum, CloseOutput, StartVerifying, Verifies, Judge, vars, fVars,
      diskVars, DeviceInv
<1>2. CASE StartFlashing \/ FlashCaller
  BY <1>2
  DEF StartFlashing, FlashCaller, F!Call, F!ReceiveResult, F!Interrupted, F!Stop,
      F!copierVars, diskVars, DeviceInv
<1>3. CASE FlashReads
  <2>1. fCopier # "writing" /\ UNCHANGED <<fDst, device, landed>>
    BY <1>3 DEF FlashReads, F!Read, F!Tee, F!Count, F!Send, F!ReadFails, diskVars
  <2> QED BY <2>1 DEF TypeOK, DeviceInv
<1>4. CASE FlashWriteBegins
  <2>1. landed = Nothing /\ landed' \in {0, Nothing} /\ UNCHANGED <<fBuf, fDst, device>>
    BY <1>4 DEF FlashWriteBegins, F!WriteBegins, TypeOK
  <2> QED BY <1>0, <2>1 DEF DeviceInv
<1>5. CASE DeviceTakes
  <2>1. UNCHANGED <<fBuf, fDst>>
    BY <1>5 DEF DeviceTakes, fVars
  <2>2. ASSUME NEW i \in 1..Len(fDst) PROVE device'[i] \in {Image[i], Bad}
    <3>1. i \in 1..Capacity
      BY <1>0 DEF DeviceInv
    <3> QED BY <1>5, <3>1, Lands DEF DeviceInv
  <2>3. /\ landed' <= Len(fBuf) /\ Len(fDst) + landed' <= Capacity
        /\ \A i \in (Len(fDst) + 1)..(Len(fDst) + landed') : device'[i] = Image[i]
    BY <1>5, Lands
  <2> QED BY <2>1, <2>2, <2>3 DEF DeviceInv
<1>6. CASE FlashWriteEnds
  <2>1. /\ landed # Nothing /\ landed \in Nat /\ landed <= Len(fBuf) /\ landed' = Nothing
        /\ fDst' = fDst \o SubSeq(fBuf, 1, landed) /\ device' = device
    BY <1>6 DEF FlashWriteEnds, ClearsMark, F!WriteEnds, TypeOK, DeviceInv
  <2>2. Len(fDst') = Len(fDst) + landed
    BY <1>0, <2>1
  <2> QED BY <1>0, <2>1, <2>2 DEF DeviceInv
<1>7. CASE Sync
  <2>1. \A i \in 1..Capacity : device'[i] \in {device[i], Bad}
    BY <1>7 DEF Sync
  <2>2. UNCHANGED <<landed, fBuf, fDst>>
    BY <1>7 DEF Sync, fVars
  <2>3. ASSUME landed # Nothing PROVE landed \in Nat
    BY <2>3 DEF TypeOK
  <2> QED BY <1>0, <2>1, <2>2, <2>3 DEF DeviceInv
<1> QED BY <1>1, <1>2, <1>3, <1>4, <1>5, <1>6, <1>7 DEF Next, Over

-----------------------------------------------------------------------------
(* What was hashed *)

LEMMA HashStep ==
    TypeOK /\ FirstCopy /\ DeviceInv /\ HashInv /\ [Next]_vars => HashInv'
<1> SUFFICES ASSUME TypeOK, FirstCopy, DeviceInv, HashInv, [Next]_vars PROVE HashInv'
  OBVIOUS
<1>0. /\ Len(fBuf) \in Nat /\ Len(fDst) \in Nat /\ Len(Image) \in Nat
      /\ fBuf \in Seq(Range(Image)) /\ fDst \in Seq(Range(Image))
      /\ hash \in Seq(Range(Image)) /\ Len(hash) \in Nat
      /\ Len(fDst) + Len(fBuf) <= Len(Image)
      /\ \A i \in 1..Len(fBuf) : fBuf[i] = Image[Len(fDst) + i]
      /\ fCaller = "idle" <=> fCopier = "idle"
  BY FirstCopyFacts DEF TypeOK
<1>1. CASE Cancel \/ Refuse \/ DeviceTakes \/ TakeSum \/ CloseOutput \/ Sync \/ StartVerifying
           \/ Verifies \/ Judge \/ UNCHANGED vars
  BY <1>1
  DEF Cancel, Refuse, DeviceTakes, TakeSum, CloseOutput, Sync, StartVerifying, Verifies,
      Judge, vars, fVars, HashInv
<1>2. CASE StartFlashing \/ FlashCaller
  <2>1. /\ UNCHANGED <<fCopyErr, fDst, hash, verify>>
        /\ fCopier' = fCopier \/ fCopier = "idle"
    BY <1>0, <1>2
    DEF StartFlashing, FlashCaller, F!Call, F!ReceiveResult, F!Interrupted, F!Stop,
        F!copierVars
  <2> QED BY <2>1 DEF HashInv
<1>3. CASE FlashReads
  <2>1. /\ UNCHANGED <<fDst, hash, verify>>
        /\ \/ fCopyErr' = fCopyErr
           \/ /\ fCopyErr' \in {"nil", "read", "stopped"} /\ fCopier' = "send"
              /\ fCopier \notin {"send", "done"}
        /\ fCopier \in {"send", "done"} => fCopier' \in {"send", "done"}
    BY <1>3
    DEF FlashReads, F!Read, F!Tee, F!Count, F!Send, F!ReadFails, F!Finish
  <2> QED BY <2>1 DEF HashInv
<1>4. CASE FlashWriteBegins
  BY <1>4 DEF FlashWriteBegins, F!WriteBegins, HashInv
<1>5. CASE FlashWriteEnds
  <2>1. /\ landed \in Nat /\ landed <= Len(fBuf) /\ fCopyErr = "nil" /\ verify' = verify
        /\ fDst' = fDst \o SubSeq(fBuf, 1, landed)
        /\ hash' = IF verify /\ landed = Len(fBuf) THEN hash \o fBuf ELSE hash
        /\ IF landed < Len(fBuf) THEN fCopyErr' = "write" /\ fCopier' = "send"
                                 ELSE fCopyErr' = "nil" /\ fCopier' = "read"
    BY <1>5 DEF FlashWriteEnds, F!WriteEnds, F!Finish, TypeOK, DeviceInv, HashInv
  <2>2. Len(fDst') = Len(fDst) + landed
    BY <1>0, <2>1
  <2>3. CASE verify /\ landed = Len(fBuf)
    <3>1. Len(hash) = Len(fDst) /\ hash' = hash \o fBuf
      BY <2>1, <2>3 DEF HashInv
    <3>2. /\ Len(hash \o fBuf) = Len(hash) + Len(fBuf)
          /\ \A i \in 1..(Len(hash) + Len(fBuf)) : (hash \o fBuf)[i] =
                IF i <= Len(hash) THEN hash[i] ELSE fBuf[i - Len(hash)]
      BY <1>0, ConcatProperties
    <3>3. ASSUME NEW i \in 1..(Len(hash) + Len(fBuf)) PROVE hash'[i] = Image[i]
      <4>1. hash'[i] = IF i <= Len(hash) THEN hash[i] ELSE fBuf[i - Len(hash)]
        BY <3>1, <3>2
      <4>2. CASE i <= Len(hash)
        BY <1>0, <4>1, <4>2 DEF HashInv
      <4>3. CASE ~(i <= Len(hash))
        <5>1. i - Len(hash) \in 1..Len(fBuf) /\ Len(fDst) + (i - Len(hash)) = i
          BY <1>0, <3>1, <3>2, <4>3
        <5> QED BY <1>0, <4>1, <4>3, <5>1
      <4> QED BY <4>2, <4>3
    <3> QED BY <1>0, <2>1, <2>2, <2>3, <3>1, <3>2, <3>3 DEF HashInv
  <2>4. CASE ~(verify /\ landed = Len(fBuf))
    <3>1. hash' = hash /\ (verify => fCopyErr' = "write" /\ fCopier' = "send")
      BY <1>0, <2>1, <2>4
    <3> QED BY <2>1, <3>1 DEF HashInv
  <2> QED BY <2>3, <2>4
<1> QED BY <1>1, <1>2, <1>3, <1>4, <1>5 DEF Next, Over

\* The sum of a copy that was not interrupted is the hash, and neither changes.
LEMMA SumStep ==
    TypeOK /\ FirstCopy /\ PlaceInv /\ HashInv /\ SumInv /\ [Next]_vars => SumInv'
<1> SUFFICES ASSUME TypeOK, FirstCopy, PlaceInv, HashInv, SumInv, [Next]_vars PROVE SumInv'
  OBVIOUS
<1>0. /\ fCaller = "returned" /\ fErr # "interrupted" => fCopier = "done"
      /\ fCaller = "idle" <=> fCopier = "idle"
  BY FirstCopyFacts
<1>1. CASE Cancel \/ Refuse \/ DeviceTakes \/ CloseOutput \/ Sync \/ StartVerifying
           \/ Verifies \/ Judge \/ UNCHANGED vars
  BY <1>1
  DEF Cancel, Refuse, DeviceTakes, CloseOutput, Sync, StartVerifying, Verifies, Judge, vars,
      fVars, SumInv
<1>2. CASE StartFlashing
  BY <1>2 DEF StartFlashing, SumInv
<1>3. CASE FlashCaller
  BY <1>3
  DEF FlashCaller, F!ReceiveResult, F!Interrupted, F!Stop, SumInv, PlaceInv
<1>4. CASE FlashReads \/ FlashWriteBegins
  BY <1>4
  DEF FlashReads, F!Read, F!Tee, F!Count, F!Send, F!ReadFails, F!callerVars,
      FlashWriteBegins, F!WriteBegins, SumInv
<1>5. CASE FlashWriteEnds
  <2>1. UNCHANGED <<sum, step, fErr>> /\ fCopier # "done"
    BY <1>5 DEF FlashWriteEnds, F!WriteEnds, F!callerVars
  <2> QED BY <1>0, <2>1 DEF SumInv, PlaceInv
<1>6. CASE TakeSum
  <2>1. sum' \in {hash, Torn} /\ UNCHANGED <<hash, fErr, fCopier>>
    BY <1>6 DEF TakeSum, fVars
  <2>2. fErr # "interrupted" => sum' = hash
    BY <1>0, <1>6 DEF TakeSum, TypeOK
  <2> QED BY <2>1, <2>2 DEF SumInv, HashInv
<1> QED BY <1>1, <1>2, <1>3, <1>4, <1>5, <1>6 DEF Next, Over

-----------------------------------------------------------------------------
(* What was read back *)

\* What may change of the device while the second copy is under way.
LEMMA DeviceMoves ==
    ASSUME TypeOK, FirstCopy, PlaceInv, DeviceInv, [Next]_vars, vCaller # "idle"
    PROVE  /\ UNCHANGED <<fN, fErr>>
           /\ \A i \in 1..Capacity :
                 \/ device'[i] = device[i]
                 \/ fErr # "nil" /\ device'[i] = Image[i]
<1>0. /\ fCaller = "returned" /\ step \notin {"start", "flashing", "closing", "syncing"}
      /\ fErr # "interrupted" => fCopier = "done"
  BY FirstCopyFacts DEF PlaceInv
<1>1. CASE DeviceTakes
  <2>1. fErr = "interrupted" /\ UNCHANGED <<fN, fErr>>
    BY <1>0, <1>1 DEF DeviceTakes, fVars
  <2>2. \A i \in 1..Capacity : device'[i] = device[i] \/ device'[i] = Image[i]
    BY <1>1, Lands
  <2> QED BY <2>1, <2>2
<1>2. CASE ~DeviceTakes
  BY <1>0, <1>2
  DEF Next, Cancel, Refuse, StartFlashing, FlashCaller, FlashReads, FlashWriteBegins,
      FlashWriteEnds, TakeSum, CloseOutput, Sync, StartVerifying, Verifies, Judge, Over,
      F!ReceiveResult, F!Interrupted, F!Stop, F!Read, F!Tee, F!Count, F!Send, F!ReadFails,
      F!WriteBegins, F!WriteEnds, F!callerVars, fVars, diskVars, vars
<1> QED BY <1>1, <1>2

\* A unit is fresh in the next state.
NextFresh(i, u) == u = device'[i] \/ (fErr' # "nil" /\ device'[i] = Image[i])

\* What was read back stays fresh, whatever the first copy still does.
LEMMA FreshStep ==
    ASSUME TypeOK, FirstCopy, PlaceInv, DeviceInv, [Next]_vars, vCaller # "idle"
    PROVE  /\ Span' = Span
           /\ \A i \in 1..Span : \A u : Fresh(i, u) => NextFresh(i, u)
<1>1. Span \in Nat /\ Span <= Capacity /\ Capacity \in Nat
  BY FirstCopyFacts
<1>2. \A i \in 1..Span : i \in 1..Capacity
  BY <1>1
<1>3. Span' = Span
  BY DeviceMoves DEF Span, Limit
<1> QED BY <1>2, <1>3, DeviceMoves DEF Fresh, NextFresh

\* A second copy that has begun: its steps keep what it read in place, and end it at
\* the end of the span.
LEMMA VerifyMoves ==
    ASSUME TypeOK, FirstCopy, PlaceInv, DeviceInv, VerifyTypes, VerifyInv, [Next]_vars,
           vCaller # "idle"
    PROVE  VerifyInv'
<1>0. /\ Span \in Nat /\ Len(vDst) \in Nat /\ Len(vBuf) \in Nat /\ Len(<< >>) = 0
      /\ Len(vDst) + Len(vBuf) <= Span /\ Span' = Span
  BY FirstCopyFacts, FreshStep DEF VerifyTypes, VerifyInv
<1>1. \A i \in 1..Len(vDst) : NextFresh(i, vDst[i])
  <2>1. \A i \in 1..Len(vDst) : i \in 1..Span
    BY <1>0
  <2> QED BY <2>1, FreshStep DEF VerifyInv
<1>2. \A i \in 1..Len(vBuf) : NextFresh(Len(vDst) + i, vBuf[i])
  <2>1. \A i \in 1..Len(vBuf) : Len(vDst) + i \in 1..Span
    BY <1>0
  <2> QED BY <2>1, FreshStep DEF VerifyInv
<1> USE DEF VerifyInv, Fresh, NextFresh, V!callerVars, V!copierVars
<1>3. CASE UNCHANGED vVars
  BY <1>0, <1>1, <1>2, <1>3 DEF vVars
<1>4. CASE V!ReceiveResult
  BY <1>0, <1>1, <1>2, <1>4 DEF V!ReceiveResult
<1>5. CASE V!Interrupted \/ V!Stop
  BY <1>0, <1>1, <1>2, <1>5 DEF V!Interrupted, V!Stop
<1>6. CASE V!Read /\ UNCHANGED <<diskVars, fVars>>
  <2>1. UNCHANGED <<vDst, vCh, vCaller, vErr, device, fErr>> /\ vCopier = "read"
    BY <1>6 DEF V!Read, diskVars, fVars
  <2>2. CASE /\ vBuf' = << >> /\ vCopier' = "send" /\ vCopyErr' = "nil"
             /\ Span <= Len(vDst)
    BY <1>0, <1>1, <2>1, <2>2
  <2>3. CASE /\ vBuf' \in Seq(Units) /\ vCopier' = "tee"
             /\ Len(vDst) + Len(vBuf') <= Span
             /\ \A i \in 1..Len(vBuf') : vBuf'[i] = device[Len(vDst) + i]
    BY <1>0, <1>1, <2>1, <2>3
  <2> QED BY <1>6, <2>2, <2>3, ReadsBack
<1>7. CASE V!Tee \/ V!ReadFails
  <2>1. UNCHANGED <<vDst, vCh, vCaller, vErr>> /\ vCopier \in {"tee", "read"}
    BY <1>7 DEF V!Tee, V!ReadFails
  <2>2. \/ vBuf' = << >> /\ vCopier' = "send" /\ vCopyErr' # "nil"
        \/ vBuf' = vBuf /\ vCopier' = "count"
    BY <1>7 DEF V!Tee, V!ReadFails, V!Finish
  <2>3. CASE vBuf' = << >> /\ vCopier' = "send" /\ vCopyErr' # "nil"
    BY <1>0, <1>1, <2>1, <2>3
  <2>4. CASE vBuf' = vBuf /\ vCopier' = "count"
    BY <1>0, <1>1, <1>2, <2>1, <2>4
  <2> QED BY <2>2, <2>3, <2>4
<1>8. CASE V!Count \/ V!WriteBegins
  BY <1>0, <1>1, <1>2, <1>8 DEF V!Count, V!WriteBegins
<1>9. CASE V!WriteEnds(Len(vBuf))
  <2>1. /\ UNCHANGED <<vCh, vCaller, vErr>> /\ vCopier = "writing"
    BY <1>9 DEF V!WriteEnds
  <2>2. /\ Len(vDst') = Len(vDst) + Len(vBuf)
        /\ \A i \in 1..Len(vDst) : vDst'[i] = vDst[i]
        /\ \A i \in 1..Len(vBuf) : vDst'[Len(vDst) + i] = vBuf[i]
        /\ vBuf' = << >> /\ vCopier' = "read"
    BY <1>9, Hashes
  <2>3. ASSUME NEW i \in 1..(Len(vDst) + Len(vBuf)) PROVE NextFresh(i, vDst'[i])
    <3>1. CASE i \in 1..Len(vDst)
      BY <1>1, <2>2, <3>1
    <3>2. CASE i \notin 1..Len(vDst)
      <4>1. i - Len(vDst) \in 1..Len(vBuf) /\ Len(vDst) + (i - Len(vDst)) = i
        BY <1>0, <3>2
      <4> QED BY <1>2, <2>2, <4>1
    <3> QED BY <3>1, <3>2
  <2> QED BY <1>0, <2>1, <2>2, <2>3
<1>10. CASE V!Send
  <2>1. /\ UNCHANGED <<vDst, vBuf, vCopyErr, vCaller, vErr>>
        /\ vCopier = "send" /\ vCopier' = "done"
        /\ vCh' = [n |-> Len(vDst), err |-> vCopyErr]
    BY <1>10 DEF V!Send
  <2> QED BY <1>0, <1>1, <1>2, <2>1
<1>11. QED
  BY <1>3, <1>4, <1>5, <1>6, <1>7, <1>8, <1>9, <1>10
  DEF Next, Cancel, Refuse, StartFlashing, FlashCaller, FlashReads, FlashWriteBegins,
      DeviceTakes, FlashWriteEnds, TakeSum, CloseOutput, Sync, StartVerifying, Verifies,
      Judge, Over, vars, V!Call

\* Before that there is nothing of it.
LEMMA VerifyStep ==
    TypeOK /\ FirstCopy /\ PlaceInv /\ DeviceInv /\ VerifyTypes /\ VerifyInv /\ [Next]_vars
       => VerifyInv'
<1> SUFFICES ASSUME TypeOK, FirstCopy, PlaceInv, DeviceInv, VerifyTypes, VerifyInv,
                    [Next]_vars, vCaller = "idle"
             PROVE  VerifyInv'
  BY VerifyMoves
<1>1. Span' \in Nat
  <2>1. fN' \in Nat /\ Capacity \in Nat
    BY FirstCopyStep, FlasherAssumption DEF FirstCopy, FP!TypeOK
  <2> QED BY <2>1 DEF Span, Limit, Smaller
<1>2. UNCHANGED vVars \/ V!Call
  BY DEF VerifyTypes, Next, Cancel, Refuse, StartFlashing, FlashCaller, FlashReads,
         FlashWriteBegins, DeviceTakes, FlashWriteEnds, TakeSum, CloseOutput, Sync,
         StartVerifying, Verifies, Judge, Over, V!ReceiveResult, V!Interrupted, V!Stop,
         V!Read, V!Tee, V!Count, V!WriteBegins, V!WriteEnds, V!Send, V!ReadFails, vars
<1>3. /\ vDst' = << >> /\ vBuf' = << >> /\ vCh' = NoResult
      /\ vCopier' \in {"idle", "read"} /\ vCaller' \in {"idle", "waiting"}
  BY <1>2 DEF VerifyTypes, V!Call, vVars
<1> QED BY <1>1, <1>3 DEF VerifyInv

-----------------------------------------------------------------------------
(* What the judgement is about *)

\* Nothing that was compared changes any more.
LEMMA JudgeStep ==
    TypeOK /\ FirstCopy /\ PlaceInv /\ VerifyTypes /\ VerifyInv /\ JudgeInv /\ [Next]_vars
       => JudgeInv'
<1> SUFFICES ASSUME TypeOK, FirstCopy, PlaceInv, VerifyTypes, VerifyInv, JudgeInv, [Next]_vars
             PROVE  JudgeInv'
  OBVIOUS
<1>1. CASE Judge
  BY <1>1 DEF Judge, JudgeInv, SameSum, PlaceInv, vVars
<1>2. CASE Sync
  BY <1>2 DEF Sync, JudgeInv
<1>3. CASE Verifies
  <2>1. UNCHANGED <<step, verify, sum>>
    BY <1>3 DEF Verifies
  <2>2. ASSUME vCaller = "returned", vErr = "nil" PROVE UNCHANGED <<vCaller, vErr, vDst>>
    <3>1. vCopier = "done"
      BY <2>2 DEF VerifyInv
    <3> QED
      BY <1>3, <2>2, <3>1
      DEF Verifies, V!ReceiveResult, V!Interrupted, V!Stop, V!Read, V!Tee, V!Count,
          V!WriteBegins, V!WriteEnds, V!Send, V!ReadFails
  <2> QED BY <2>1, <2>2 DEF JudgeInv
<1>4. CASE \/ Cancel \/ Refuse \/ StartFlashing \/ FlashCaller \/ FlashReads
           \/ FlashWriteBegins \/ DeviceTakes \/ FlashWriteEnds \/ TakeSum \/ CloseOutput
           \/ StartVerifying \/ UNCHANGED vars
  BY <1>4
  DEF Cancel, Refuse, StartFlashing, FlashCaller, FlashReads, FlashWriteBegins, DeviceTakes,
      FlashWriteEnds, TakeSum, CloseOutput, StartVerifying, vars, vVars, JudgeInv
<1> QED BY <1>1, <1>2, <1>3, <1>4 DEF Next, Over

LEMMA Start == Init => Inv
<1> SUFFICES ASSUME Init PROVE Inv
  OBVIOUS
<1>0. /\ Image \in Seq(Range(Image)) /\ Capacity \in Nat /\ Chunk \in Nat \ {0}
      /\ Len(<< >>) = 0 /\ Len(Image) \in Nat
  BY FlasherAssumption
<1> USE DEF Init, F!Idle, V!Idle
<1>1. TypeOK
  <2>1. /\ hash \in Seq(Range(Image)) /\ sum \in Seq(Range(Image))
        /\ fDst \in Seq(Range(Image)) /\ vDst \in Seq(Range(Image) \cup {Old, Bad})
    OBVIOUS
  <2>2. device \in [1..Capacity -> Range(Image) \cup {Old, Bad}]
    OBVIOUS
  <2> QED BY <2>1, <2>2 DEF TypeOK
<1>2. FirstCopy
  <2>1. fBuf \in Seq(FP!Range(Image)) /\ fDst \in Seq(FP!Range(Image)) /\ Len(fBuf) <= Chunk
    BY <1>0
  <2>2. FP!TypeOK
    BY <1>0, <2>1 DEF FP!TypeOK
  <2>3. FP!ResultInv
    BY <1>0 DEF FP!ResultInv
  <2> QED BY <2>2, <2>3 DEF FirstCopy
<1>3. PlaceInv /\ JudgeInv
  BY DEF PlaceInv, JudgeInv
<1>4. DeviceInv /\ HashInv /\ SumInv
  BY <1>0 DEF DeviceInv, HashInv, SumInv
<1>5. VerifyTypes
  <2>1. vBuf \in Seq(Units) /\ Len(vBuf) <= Chunk /\ vDst \in Seq(Units)
    BY <1>0
  <2> QED BY <2>1 DEF VerifyTypes, Errors
<1>6. VerifyInv
  <2>1. /\ vCaller = "idle" /\ vCopier = "idle" /\ Len(vDst) = 0 /\ Len(vBuf) = 0
        /\ vCh = NoResult
    BY <1>0
  <2> QED BY <2>1 DEF VerifyInv
<1> QED BY <1>1, <1>2, <1>3, <1>4, <1>5, <1>6 DEF Inv

-----------------------------------------------------------------------------
(* The theorems *)

\* The inductive invariant holds in every state of a flash.
THEOREM FlashInvariant == Spec => []Inv
<1>1. Inv /\ [Next]_vars => Inv'
  BY TypeStep, FirstCopyStep, PlaceStep, DeviceStep, HashStep, SumStep, VerifyTypeStep,
     VerifyStep, JudgeStep
  DEF Inv
<1> QED BY <1>1, Start, PTL DEF Spec

\* Type correctness of a flash, and only a write that is under way has landed units.
THEOREM TypeCorrect == Spec => []TypeOK
<1>1. Inv => TypeOK
  BY DEF Inv
<1> QED BY <1>1, FlashInvariant, PTL

\* A success was judged of a sum that is that of the start of the image, as long as
\* the span of the device that was read back.
LEMMA Verified ==
    ASSUME Inv, step = "ok", verify
    PROVE  /\ Len(sum) = Span /\ DOMAIN sum = 1..Span
           /\ \A i \in 1..Span : sum[i] = Image[i] /\ Fresh(i, sum[i])
<1>1. /\ vCaller = "returned" /\ vErr = "nil" /\ vDst = sum
      /\ vDst \in Seq(Units)
  BY DEF Inv, JudgeInv, VerifyTypes
<1>2. sum # Torn
  BY <1>1, FlasherAssumption DEF Units
<1>3. vCopier = "done" /\ vCopyErr = "nil"
  BY <1>1 DEF Inv, VerifyInv
<1>4. Len(vDst) = Span /\ \A i \in 1..Span : Fresh(i, vDst[i])
  BY <1>3 DEF Inv, VerifyInv
<1>5. \A i \in 1..Span : sum[i] = Image[i]
  BY <1>1, <1>2, <1>4 DEF Inv, SumInv
<1> QED BY <1>1, <1>4, <1>5

\* flash.go:105: however the flash was interrupted, and whatever a late write of its
\* first copy did meanwhile, a verification that succeeds means that the device now
\* starts with the part of the image that was hashed.
THEOREM VerifiedFlashIsIntact == Spec => []VerifiedIsIntact
<1>1. Inv => VerifiedIsIntact
  <2> SUFFICES ASSUME Inv, step = "ok", verify, NEW i \in DOMAIN sum
               PROVE  device[i] = Image[i]
    BY DEF VerifiedIsIntact
  <2> QED BY Verified DEF Fresh
<1> QED BY <1>1, FlashInvariant, PTL

\* A copy that ended without an error gave the hasher the whole image, and the device
\* has it all but for what the medium spoiled.
LEMMA WholeCopy ==
    ASSUME Inv, step \notin {"start", "flashing", "failed"}, verify, fErr = "nil"
    PROVE  /\ sum = hash /\ Len(sum) = Len(Image) /\ fN = Len(Image)
           /\ Len(Image) <= Capacity
           /\ \A i \in 1..Len(Image) : sum[i] = Image[i] /\ device[i] \in {Image[i], Bad}
<1>1. fCaller = "returned"
  BY DEF Inv, PlaceInv
<1>2. fCopier = "done" /\ fN = Len(fDst) /\ fCopyErr = "nil" /\ Len(fDst) = Len(Image)
  BY <1>1, FirstCopyFacts DEF Inv
<1>3. sum = hash /\ Len(hash) = Len(Image) /\ \A i \in 1..Len(hash) : hash[i] = Image[i]
  BY <1>2 DEF Inv, SumInv, HashInv
<1> QED BY <1>2, <1>3 DEF Inv, DeviceInv

\* A verified flash whose copy ended without an error wrote the whole image.
THEOREM VerifiedFlashIsWhole == Spec => []VerifiedCopyIsWhole
<1>1. Inv => VerifiedCopyIsWhole
  <2> SUFFICES ASSUME Inv, step = "ok", verify, fErr = "nil", NEW i \in DOMAIN Image
               PROVE  i <= Capacity /\ device[i] = Image[i]
    BY DEF VerifiedCopyIsWhole
  <2>1. Len(sum) = Len(Image) /\ Len(Image) <= Capacity /\ fN = Len(Image)
    BY WholeCopy
  <2>2. /\ Image \in Seq(Range(Image)) /\ Len(Image) \in Nat /\ Capacity \in Nat
        /\ (fN <= Capacity => Span = fN)
    BY FirstCopyFacts DEF Inv
  <2>3. i \in 1..Span /\ i <= Capacity
    BY <2>1, <2>2
  <2> QED BY <2>3, Verified DEF Fresh
<1> QED BY <1>1, FlashInvariant, PTL

\* The verification reports a mismatch only when the copy was interrupted or failed,
\* or the medium gave back something else than it was given.
THEOREM MismatchHasACause == Spec => []NoFalseAlarm
<1>1. Inv => NoFalseAlarm
  <2> SUFFICES ASSUME Inv, step = "mismatch", fErr = "nil", Bad \notin Range(device)
               PROVE  FALSE
    BY DEF NoFalseAlarm
  <2>1. verify /\ vDst # sum /\ vCaller = "returned" /\ vErr = "nil"
    BY DEF Inv, JudgeInv
  <2>2. vCopier = "done" /\ vCopyErr = "nil" /\ Len(vDst) = Span
    BY <2>1 DEF Inv, VerifyInv
  <2>3. /\ Len(sum) = Len(Image) /\ fN = Len(Image) /\ Len(Image) <= Capacity
        /\ \A i \in 1..Len(Image) : sum[i] = Image[i] /\ device[i] \in {Image[i], Bad}
        /\ sum = hash
    BY <2>1, WholeCopy
  <2>4. /\ Len(Image) \in Nat /\ Capacity \in Nat /\ Span = Len(Image)
        /\ vDst \in Seq(Units) /\ sum \in Seq(Range(Image))
        /\ device \in [1..Capacity -> Units]
    BY <2>3, FirstCopyFacts DEF Inv, VerifyTypes, TypeOK, Units
  <2>5. ASSUME NEW i \in 1..Len(Image) PROVE vDst[i] = sum[i]
    <3>1. i \in 1..Capacity /\ i \in 1..Span
      BY <2>3, <2>4
    <3>2. device[i] # Bad
      BY <2>4, <3>1 DEF Range
    <3>3. vDst[i] = device[i]
      BY <2>2, <3>1 DEF Inv, VerifyInv, Fresh
    <3> QED BY <2>3, <3>2, <3>3
  <2>6. vDst \in Seq(Units) /\ sum \in Seq(Units)
    BY <2>4 DEF Units
  <2>7. vDst = sum
    BY <2>2, <2>3, <2>4, <2>5, <2>6, SeqEqual
  <2> QED BY <2>1, <2>7
<1> QED BY <1>1, FlashInvariant, PTL
=============================================================================
