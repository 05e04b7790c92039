----------------------- MODULE CopyWithProgressProofs -----------------------
(***************************************************************************)
(* Proofs about CopyWithProgress, for every size of the buffer and every   *)
(* source: its types, the bound on late writes, and what it returns.       *)
(***************************************************************************)
EXTENDS CopyWithProgress, SequenceTheorems, TLAPS

\* What the caller's and the copier's steps leave alone.
Same == UNCHANGED <<src, ctxDone>>

\* A sequence of units of the source, cut: its length and its units.
LEMMA Cut ==
    ASSUME NEW S, NEW s \in Seq(S), NEW i \in Nat, NEW k \in Nat,
           i + k <= Len(s)
    PROVE  /\ SubSeq(s, i + 1, i + k) \in Seq(S)
           /\ Len(SubSeq(s, i + 1, i + k)) = k
           /\ \A j \in 1..k : SubSeq(s, i + 1, i + k)[j] = s[i + j]
<1>1. \A j \in (i + 1)..(i + k) : s[j] \in S
  OBVIOUS
<1>2. SubSeq(s, i + 1, i + k) \in Seq(S)
  BY <1>1, SubSeqProperties
<1>3. QED
  BY <1>2, SubSeqProperties

\* The smaller of two naturals is a natural, and not above either.
LEMMA SmallerIs ==
    ASSUME NEW a \in Nat, NEW b \in Nat
    PROVE  Smaller(a, b) \in Nat /\ Smaller(a, b) <= a /\ Smaller(a, b) <= b
BY DEF Smaller

\* What a read puts in the buffer: units of the source, at most Chunk, at least one.
LEMMA ReadUnits ==
    ASSUME TypeOK, copier = "read", Len(src) - Len(dst) > 0,
           NEW k \in 1..Smaller(Chunk, Len(src) - Len(dst))
    PROVE  LET units == SubSeq(src, Len(dst) + 1, Len(dst) + k) IN
           /\ units \in Seq(Range(src)) /\ Len(units) = k
           /\ k <= Chunk /\ k > 0 /\ Len(dst) + k <= Len(src)
           /\ \A j \in 1..k : units[j] = src[Len(dst) + j]
<1>1. src \in Seq(Range(src)) /\ dst \in Seq(Range(src)) /\ Chunk \in Nat
  BY CopyAssumption DEF TypeOK
<1>2. Len(src) \in Nat /\ Len(dst) \in Nat
  BY <1>1
<1>3. k \in Nat /\ k > 0 /\ k <= Chunk /\ k <= Len(src) - Len(dst)
  <2>1. Len(src) - Len(dst) \in Nat
    BY <1>2
  <2>2. /\ Smaller(Chunk, Len(src) - Len(dst)) \in Nat
        /\ Smaller(Chunk, Len(src) - Len(dst)) <= Chunk
        /\ Smaller(Chunk, Len(src) - Len(dst)) <= Len(src) - Len(dst)
    BY <1>1, <2>1, SmallerIs
  <2>3. QED
    BY <1>1, <2>1, <2>2
<1>4. QED
  BY <1>1, <1>2, <1>3, Cut

\* What a write adds to the destination.
LEMMA WriteUnits ==
    ASSUME TypeOK, NEW k \in 0..Len(buf)
    PROVE  LET more == dst \o SubSeq(buf, 1, k) IN
           /\ more \in Seq(Range(src)) /\ Len(more) = Len(dst) + k
           /\ \A j \in 1..Len(dst) : more[j] = dst[j]
           /\ \A j \in 1..k : more[Len(dst) + j] = buf[j]
<1>1. buf \in Seq(Range(src)) /\ dst \in Seq(Range(src)) /\ Len(buf) \in Nat
  BY DEF TypeOK
<1>2. /\ SubSeq(buf, 0 + 1, 0 + k) \in Seq(Range(src))
      /\ Len(SubSeq(buf, 0 + 1, 0 + k)) = k
      /\ \A j \in 1..k : SubSeq(buf, 0 + 1, 0 + k)[j] = buf[0 + j]
  BY <1>1, Cut, k \in Nat, 0 + k <= Len(buf)
<1>3. /\ SubSeq(buf, 1, k) \in Seq(Range(src)) /\ Len(SubSeq(buf, 1, k)) = k
      /\ \A j \in 1..k : SubSeq(buf, 1, k)[j] = buf[j]
  BY <1>2
<1>4. /\ Len(dst \o SubSeq(buf, 1, k)) = Len(dst) + k
      /\ dst \o SubSeq(buf, 1, k) \in Seq(Range(src))
      /\ \A j \in 1..(Len(dst) + k) : (dst \o SubSeq(buf, 1, k))[j] =
             IF j <= Len(dst) THEN dst[j] ELSE SubSeq(buf, 1, k)[j - Len(dst)]
  BY <1>1, <1>3, ConcatProperties
<1>5. QED
  BY <1>1, <1>3, <1>4

-----------------------------------------------------------------------------
(* Type correctness *)

\* Every state of a call has its types, and there are units in the buffer exactly
\* between a read and the end of the write.
LEMMA TypeStep == TypeOK /\ [Next]_vars => TypeOK'
<1> SUFFICES ASSUME TypeOK, [Next]_vars PROVE TypeOK'
  OBVIOUS
<1> USE DEF TypeOK
<1>0. Chunk \in Nat /\ Len(dst) \in Nat /\ Len(buf) \in Nat /\ Len(src) \in Nat
  BY CopyAssumption
<1>1. CASE Call /\ Same
  BY <1>1 DEF Call, Same
<1>2. CASE ReceiveResult /\ Same
  <2>1. ch \in [n : Nat, err : {"nil", "read", "write", "stopped"}]
    BY <1>2 DEF ReceiveResult
  <2>2. n' \in Nat /\ err' \in {"nil", "read", "write", "stopped"}
    BY <1>2, <2>1 DEF ReceiveResult, Written
  <2>3. QED
    BY <1>2, <2>2 DEF ReceiveResult, Same, copierVars
<1>3. CASE Interrupted /\ Same
  BY <1>3 DEF Interrupted, Same, copierVars
<1>4. CASE Stop /\ Same
  BY <1>4 DEF Stop, Same, copierVars
<1>5. CASE Read /\ Same
  <2>1. CASE Len(src) - Len(dst) <= 0
    BY <1>5, <2>1 DEF Read, Same, callerVars, Finish
  <2>2. CASE Len(src) - Len(dst) > 0
    <3>1. PICK k \in 1..Smaller(Chunk, Len(src) - Len(dst)) :
             /\ buf' = SubSeq(src, Len(dst) + 1, Len(dst) + k)
             /\ copier' = "tee" /\ UNCHANGED copyErr
      BY <1>0, <1>5, <2>2 DEF Read
    <3>2. buf' \in Seq(Range(src)) /\ Len(buf') = k /\ k <= Chunk /\ k > 0
      BY <1>5, <2>2, <3>1, ReadUnits DEF Read
    <3>3. buf' # << >>
      BY <3>2
    <3>4. QED
      BY <1>5, <3>1, <3>2, <3>3 DEF Read, Same, callerVars
  <2>3. QED
    BY <1>0, <2>1, <2>2
<1>6. CASE ReadFails /\ Same
  BY <1>0, <1>6 DEF ReadFails, Same, callerVars, Finish
<1>7. CASE Tee /\ Same
  <2>1. CASE Refuses
    BY <1>0, <1>7, <2>1 DEF Tee, Same, callerVars, Finish
  <2>2. CASE ~Refuses
    BY <1>0, <1>7, <2>2 DEF Tee, Same, callerVars
  <2>3. QED
    BY <2>1, <2>2
<1>8. CASE Count /\ Same
  BY <1>0, <1>8 DEF Count, Same, callerVars, Counted
<1>9. CASE WriteBegins /\ Same
  BY <1>9 DEF WriteBegins, Same, callerVars
<1>10. ASSUME NEW k \in 0..Chunk, WriteEnds(k), Same PROVE TypeOK'
  <2>1. dst' \in Seq(Range(src))
    BY <1>10, WriteUnits DEF WriteEnds
  <2>2. CASE k < Len(buf)
    BY <1>0, <1>10, <2>1, <2>2 DEF WriteEnds, Same, callerVars, Finish
  <2>3. CASE ~(k < Len(buf))
    BY <1>0, <1>10, <2>1, <2>3 DEF WriteEnds, Same, callerVars
  <2>4. QED
    BY <2>2, <2>3
<1>11. CASE Send /\ Same
  BY <1>0, <1>11 DEF Send, Same, callerVars
<1>12. CASE Cancel
  BY <1>12 DEF Cancel, callerVars, copierVars
<1>13. CASE UNCHANGED vars
  BY <1>13 DEF vars, callerVars, copierVars
<1>14. CASE Hang /\ Same
  BY <1>0, <1>14 DEF Hang, Same, callerVars
<1>15. QED
  BY <1>1, <1>2, <1>3, <1>4, <1>5, <1>6, <1>7, <1>8, <1>9, <1>10, <1>11, <1>12, <1>13,
     <1>14
  DEF Next, Caller, Copier, Over, Same

\* Type correctness of a call, whatever its source and its buffer.
THEOREM TypeCorrect == Spec => []TypeOK
<1>1. Init => TypeOK
  <2> SUFFICES ASSUME Init PROVE TypeOK
    OBVIOUS
  <2>1. Chunk \in Nat /\ src \in Sources /\ Len(<< >>) = 0
    BY CopyAssumption DEF Init
  <2>2. buf \in Seq(Range(src)) /\ dst \in Seq(Range(src)) /\ Len(buf) <= Chunk
    BY <2>1 DEF Init, Idle
  <2>3. QED
    BY <2>1, <2>2 DEF Init, Idle, TypeOK
<1>2. QED
  BY <1>1, TypeStep, PTL DEF Spec

-----------------------------------------------------------------------------
(* What the call returns *)

\* What the destination has taken is the start of the source, and what is in the
\* buffer follows it; a copier that ended without an error copied everything; the
\* channel and the caller have the copier's result, and none before it ended.
ResultInv ==
    /\ Len(dst) + Len(buf) <= Len(src)
    /\ \A j \in 1..Len(dst) : dst[j] = src[j]
    /\ \A j \in 1..Len(buf) : buf[j] = src[Len(dst) + j]
    /\ copier \in {"send", "done"} /\ copyErr = "nil" => Len(dst) = Len(src)
    /\ ch # NoResult => copier = "done" /\ ch = [n |-> Len(dst), err |-> copyErr]
    /\ caller \in {"leaving", "returned"} /\ err # "interrupted" =>
          copier = "done" /\ n = Len(dst) /\ err = copyErr

\* Each step of the copier keeps what it has copied a prefix of the source, and the
\* caller passes the result on as it is.
LEMMA ResultStep == TypeOK /\ ResultInv /\ [Next]_vars => ResultInv'
<1> SUFFICES ASSUME TypeOK, ResultInv, [Next]_vars PROVE ResultInv'
  OBVIOUS
<1>0. /\ Chunk \in Nat /\ Len(dst) \in Nat /\ Len(buf) \in Nat /\ Len(src) \in Nat
      /\ Len(<< >>) = 0
  BY CopyAssumption DEF TypeOK
<1>1. CASE Call /\ Same
  BY <1>1 DEF Call, Same, TypeOK, ResultInv
<1>2. CASE ReceiveResult /\ Same
  <2>1. ch = [n |-> Len(dst), err |-> copyErr] /\ copier = "done"
    BY <1>2 DEF ReceiveResult, ResultInv
  <2>2. n' = Len(dst) /\ err' = copyErr
    BY <1>2, <2>1 DEF ReceiveResult, Written
  <2>3. QED
    BY <1>2, <2>1, <2>2 DEF ReceiveResult, Same, copierVars, ResultInv
<1>3. CASE Interrupted /\ Same
  BY <1>3 DEF Interrupted, Same, copierVars, ResultInv
<1>4. CASE Stop /\ Same
  BY <1>4 DEF Stop, Same, copierVars, ResultInv
<1>5. CASE Read /\ Same
  <2>1. CASE Len(src) - Len(dst) <= 0
    BY <1>0, <1>5, <2>1 DEF Read, Same, callerVars, Finish, ResultInv
  <2>2. CASE Len(src) - Len(dst) > 0
    <3>1. PICK k \in 1..Smaller(Chunk, Len(src) - Len(dst)) :
             /\ buf' = SubSeq(src, Len(dst) + 1, Len(dst) + k)
             /\ copier' = "tee" /\ UNCHANGED copyErr
      BY <1>0, <1>5, <2>2 DEF Read
    <3>2. /\ Len(buf') = k /\ Len(dst) + k <= Len(src)
          /\ \A j \in 1..k : buf'[j] = src[Len(dst) + j]
      BY <1>5, <2>2, <3>1, ReadUnits DEF Read
    <3>3. QED
      BY <1>0, <1>5, <3>1, <3>2 DEF Read, Same, callerVars, ResultInv
  <2>3. QED
    BY <1>0, <2>1, <2>2
<1>6. CASE (ReadFails \/ Tee) /\ Same
  BY <1>0, <1>6 DEF ReadFails, Tee, Same, callerVars, Finish, ResultInv
<1>7. CASE (Count \/ WriteBegins) /\ Same
  BY <1>7 DEF Count, WriteBegins, Same, callerVars, ResultInv
<1>8. ASSUME NEW k \in 0..Chunk, WriteEnds(k), Same PROVE ResultInv'
  <2>1. k \in 0..Len(buf) /\ k \in Nat /\ copier = "writing"
    BY <1>8 DEF WriteEnds
  <2>2. /\ Len(dst') = Len(dst) + k
        /\ \A j \in 1..Len(dst) : dst'[j] = dst[j]
        /\ \A j \in 1..k : dst'[Len(dst) + j] = buf[j]
    BY <1>8, <2>1, WriteUnits DEF WriteEnds
  <2>3. \A j \in 1..(Len(dst) + k) : dst'[j] = src[j]
    <3>1. \A j \in 1..Len(dst) : dst'[j] = src[j]
      BY <2>2 DEF ResultInv
    <3>2. ASSUME NEW j \in 1..k PROVE dst'[Len(dst) + j] = src[Len(dst) + j]
      <4>1. j \in 1..Len(buf)
        BY <1>0, <2>1
      <4>2. buf[j] = src[Len(dst) + j] /\ dst'[Len(dst) + j] = buf[j]
        BY <2>2, <4>1 DEF ResultInv
      <4>3. QED
        BY <4>2
    <3>3. \A j \in 1..(Len(dst) + k) :
             j \in 1..Len(dst) \/ (j - Len(dst) \in 1..k /\ j = Len(dst) + (j - Len(dst)))
      BY <1>0, <2>1
    <3>4. QED
      BY <3>1, <3>2, <3>3
  <2>4. Len(buf') = 0 /\ Len(dst') \in Nat
    BY <1>0, <1>8, <2>1, <2>2 DEF WriteEnds, Finish
  <2>5. copier' \in {"send", "done"} => copyErr' = "write"
    BY <1>8 DEF WriteEnds, Finish
  <2>6. QED
    BY <1>0, <1>8, <2>1, <2>2, <2>3, <2>4, <2>5
    DEF WriteEnds, Same, callerVars, ResultInv
<1>9. CASE Send /\ Same
  BY <1>9 DEF Send, Same, callerVars, ResultInv
<1>10. CASE Cancel
  BY <1>10 DEF Cancel, callerVars, copierVars, ResultInv
<1>11. CASE UNCHANGED vars
  BY <1>11 DEF vars, callerVars, copierVars, ResultInv
<1>12. CASE Hang /\ Same
  BY <1>12 DEF Hang, Same, callerVars, ResultInv
<1>13. QED
  BY <1>1, <1>2, <1>3, <1>4, <1>5, <1>6, <1>7, <1>8, <1>9, <1>10, <1>11, <1>12
  DEF Next, Caller, Copier, Over, Same

\* A call that was not interrupted reports exactly what the destination took; if
\* it reports no error the destination holds the whole source.
THEOREM ResultCorrect == Spec => []ResultIsExact
<1>1. Init => ResultInv
  BY CopyAssumption DEF Init, Idle, ResultInv
<1>2. TypeOK /\ ResultInv => ResultIsExact
  <2> SUFFICES ASSUME TypeOK, ResultInv, caller \in {"leaving", "returned"},
                      err # "interrupted"
               PROVE  n = Len(dst) /\ (err = "nil" => dst = src)
    BY DEF ResultIsExact
  <2>1. copier = "done" /\ n = Len(dst) /\ err = copyErr
    BY DEF ResultInv
  <2>2. ASSUME err = "nil" PROVE dst = src
    <3>1. Len(dst) = Len(src) /\ \A j \in 1..Len(dst) : dst[j] = src[j]
      BY <2>1, <2>2 DEF ResultInv
    <3>2. dst \in Seq(Range(src)) /\ src \in Seq(Range(src))
      BY CopyAssumption DEF TypeOK
    <3>3. QED
      BY <3>1, <3>2, SeqEqual
  <2>3. QED
    BY <2>1, <2>2
<1>3. QED
  BY <1>1, <1>2, ResultStep, TypeStep, TypeCorrect, PTL DEF Spec

-----------------------------------------------------------------------------
(* A stopped copy writes at most once more *)

\* Once a write has begun after the return, none is under way any more that the
\* ProgressWriter has yet to refuse.
LateInv ==
    \/ late = 0
    \/ late = 1 /\ caller = "returned" /\ copier \notin {"count", "write"}

\* A step that is not Tee or WriteBegins brings no chunk nearer to a write.
LEMMA LateStep == LateInv /\ [Next]_vars => LateInv'
<1> SUFFICES ASSUME LateInv, [Next]_vars PROVE LateInv'
  OBVIOUS
<1> USE DEF LateInv
<1>1. CASE Call \/ ReceiveResult \/ Interrupted \/ Stop
  BY <1>1 DEF Call, ReceiveResult, Interrupted, Stop, copierVars
<1>2. CASE Read
  BY <1>2 DEF Read, callerVars, Finish
<1>3. CASE Tee
  BY <1>3 DEF Tee, callerVars, Finish, Refuses, Stopped
<1>4. CASE WriteBegins
  BY <1>4 DEF WriteBegins, callerVars, Stopped
<1>5. CASE ReadFails \/ Count \/ Send \/ Hang
  BY <1>5 DEF ReadFails, Count, Send, Hang, callerVars, Finish
<1>6. ASSUME NEW k \in 0..Chunk, WriteEnds(k) PROVE LateInv'
  BY <1>6 DEF WriteEnds, callerVars, Finish
<1>7. CASE Cancel \/ UNCHANGED vars
  BY <1>7 DEF Cancel, vars, callerVars, copierVars
<1>8. QED
  BY <1>1, <1>2, <1>3, <1>4, <1>5, <1>6, <1>7 DEF Next, Caller, Copier, Over

\* copy.go:26: after CopyWithProgress has returned, its goroutine begins at most
\* one more write, however long it goes on and whatever the source still holds.
THEOREM StopIsPrompt == Spec => []OneLateWrite
<1>1. Init => LateInv
  BY DEF Init, Idle, LateInv
<1>2. LateInv => OneLateWrite
  BY DEF LateInv, OneLateWrite
<1>3. QED
  BY <1>1, <1>2, LateStep, PTL DEF Spec

-----------------------------------------------------------------------------
(* What an interrupted call reports *)

\* The counter is ahead of the destination by the chunk in flight, and by what is
\* left of the last chunk once a write has failed.
CountInv ==
    /\ copier \in {"write", "writing"} => total = Len(dst) + Len(buf)
    /\ copier \in {"idle", "read", "tee", "count"} => total = Len(dst)
    /\ total <= Len(dst) + Chunk
    /\ err = "interrupted" => n <= Len(dst) + Chunk

\* The counter moves only at Count, the destination only at the end of a write.
LEMMA CountStep == TypeOK /\ CountInv /\ [Next]_vars => CountInv'
<1> SUFFICES ASSUME TypeOK, CountInv, [Next]_vars PROVE CountInv'
  OBVIOUS
<1>0. /\ Chunk \in Nat /\ Len(dst) \in Nat /\ Len(buf) \in Nat /\ Len(buf) <= Chunk
      /\ total \in Nat /\ n \in Nat
      /\ caller = "idle" <=> copier = "idle"
  BY CopyAssumption DEF TypeOK
<1>1. CASE Call
  BY <1>0, <1>1 DEF Call, CountInv
<1>2. CASE ReceiveResult
  <2>1. ch # NoResult /\ ch.err # "interrupted"
    BY <1>2 DEF ReceiveResult, TypeOK
  <2>2. QED
    BY <1>2, <2>1 DEF ReceiveResult, copierVars, CountInv
<1>3. CASE Interrupted \/ Stop
  BY <1>0, <1>3 DEF Interrupted, Stop, copierVars, CountInv
<1>4. CASE Read
  BY <1>4 DEF Read, callerVars, Finish, CountInv
<1>5. CASE ReadFails \/ Tee \/ WriteBegins \/ Send \/ Hang
  BY <1>5 DEF ReadFails, Tee, WriteBegins, Send, Hang, callerVars, Finish, CountInv
<1>6. CASE Count
  BY <1>0, <1>6 DEF Count, Counted, callerVars, CountInv
<1>7. ASSUME NEW k \in 0..Chunk, WriteEnds(k) PROVE CountInv'
  <2>1. /\ k \in 0..Len(buf) /\ k \in Nat /\ total = Len(dst) + Len(buf)
        /\ Len(dst') = Len(dst) + k
    BY <1>7, WriteUnits DEF WriteEnds, CountInv
  <2>2. /\ copier' = "send" \/ (copier' = "read" /\ k = Len(buf))
        /\ total' = total /\ n' = n /\ err' = err
    BY <1>0, <1>7, <2>1 DEF WriteEnds, Finish, callerVars
  <2>3. QED
    BY <1>0, <2>1, <2>2 DEF CountInv
<1>8. CASE Cancel \/ UNCHANGED vars
  BY <1>8 DEF Cancel, vars, callerVars, copierVars, CountInv
<1>9. QED
  BY <1>1, <1>2, <1>3, <1>4, <1>5, <1>6, <1>7, <1>8 DEF Next, Caller, Copier, Over

\* What an interrupted call reports exceeds what the destination has taken by at
\* most one chunk, whatever the interleaving of the counter and the writes.
THEOREM CountCorrect == Spec => []CountIsClose
<1>1. Init => CountInv
  BY CopyAssumption DEF Init, Idle, CountInv
<1>2. CountInv => CountIsClose
  BY DEF CountInv, CountIsClose
<1>3. QED
  BY <1>1, <1>2, CountStep, TypeCorrect, PTL DEF Spec
=============================================================================
