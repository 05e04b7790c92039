-------------------------- MODULE CopyWithProgress --------------------------
(***************************************************************************)
(* utils.CopyWithProgress: a goroutine, the copier, runs io.Copy from a    *)
(* source, through a TeeReader that feeds the ProgressWriter, to a         *)
(* destination.  The caller waits for its result or for the context,       *)
(* whichever comes first, and then stops the ProgressWriter, which is all  *)
(* that ever stops the copier.  The reports at each tick only read the     *)
(* counter and are left out.  Data is a sequence of units; a read or a     *)
(* write moves at most Chunk of them.                                      *)
(***************************************************************************)
EXTENDS Naturals, Sequences, Functions

CONSTANTS
    Chunk,    \* the size of io.Copy's buffer
    Sources,  \* the sources considered
    NoResult  \* the result channel is empty

ASSUME CopyAssumption ==
    /\ Chunk \in Nat \ {0}
    /\ \A s \in Sources : s \in Seq(Range(s))
    /\ NoResult \notin [n : Nat, err : {"nil", "read", "write", "stopped"}]

VARIABLES
    src,      \* what the source holds
    ctxDone,  \* the context is cancelled
    caller,   \* where CopyWithProgress itself is
    n, err,   \* what it returns
    copier,   \* where the goroutine is
    buf,      \* the units it has read and not yet written
    copyErr,  \* the error io.Copy returns
    total,    \* ProgressWriter.totalData
    dst,      \* what the destination has taken
    ch,       \* the result channel
    late      \* history: writes the copier began after the call returned

callerVars == <<caller, n, err>>
copierVars == <<copier, buf, copyErr, total, dst, late>>
vars == <<src, ctxDone, callerVars, copierVars, ch>>

Smaller(a, b) == IF a < b THEN a ELSE b

Idle ==
    /\ caller = "idle" /\ n = 0 /\ err = "nil"
    /\ copier = "idle" /\ buf = << >> /\ copyErr = "nil"
    /\ total = 0 /\ dst = << >> /\ ch = NoResult /\ late = 0

-----------------------------------------------------------------------------
(* The copier *)

\* ProgressWriter.done: set by the deferred Stop of the caller.
Stopped == caller = "returned"

\* An end of io.Copy that leaves the last units in the buffer.
KeepsBuffer(e) == copyErr' = e /\ copier' = "send" /\ buf' = buf

Finish(e) == copyErr' = e /\ copier' = "send" /\ buf' = << >>

\* A read of the source returns some units, the end, or an error.
Read ==
    /\ copier = "read"
    /\ LET left == Len(src) - Len(dst) IN
         IF left <= 0 THEN Finish("nil")
         ELSE \E k \in 1..Smaller(Chunk, left) :
                /\ buf' = SubSeq(src, Len(dst) + 1, Len(dst) + k)
                /\ copier' = "tee" /\ UNCHANGED copyErr
    /\ UNCHANGED <<callerVars, total, dst, ch, late>>

ReadFails ==
    /\ copier = "read" /\ Finish("read")
    /\ UNCHANGED <<callerVars, total, dst, ch, late>>

\* A ProgressWriter without the check of done.
NeverRefuses == FALSE

\* ProgressWriter.Write refuses data once it is stopped, ...
Refuses == Stopped

Tee ==
    /\ copier = "tee"
    /\ IF Refuses THEN Finish("stopped")
                  ELSE copier' = "count" /\ UNCHANGED <<buf, copyErr>>
    /\ UNCHANGED <<callerVars, total, dst, ch, late>>

\* A counter of the room in the buffer, not of the data in it.
CountsRoom == total + Chunk

\* ... and otherwise counts it: a second atomic access.
Counted == total + Len(buf)

Count ==
    /\ copier = "count" /\ total' = Counted /\ copier' = "write"
    /\ UNCHANGED <<callerVars, buf, copyErr, dst, ch, late>>

WriteBegins ==
    /\ copier = "write" /\ copier' = "writing"
    /\ late' = IF Stopped THEN late + 1 ELSE late
    /\ UNCHANGED <<callerVars, buf, copyErr, total, dst, ch>>

\* The destination takes the first k units; less than all of them is an error.
WriteEnds(k) ==
    /\ copier = "writing" /\ k \in 0..Len(buf)
    /\ dst' = dst \o SubSeq(buf, 1, k)
    /\ IF k < Len(buf) THEN Finish("write")
                       ELSE copier' = "read" /\ buf' = << >> /\ UNCHANGED copyErr
    /\ UNCHANGED <<callerVars, total, ch, late>>

\* The source or the destination never answers.
Hang ==
    /\ copier \in {"read", "writing"} /\ copier' = "hung"
    /\ UNCHANGED <<callerVars, buf, copyErr, total, dst, ch, late>>

\* A channel without a buffer: the send waits for the caller.
Unbuffered == caller = "waiting"

\* The channel has room for one result.
HasRoom == ch = NoResult

Send ==
    /\ copier = "send" /\ HasRoom
    /\ ch' = [n |-> Len(dst), err |-> copyErr] /\ copier' = "done"
    /\ UNCHANGED <<callerVars, buf, copyErr, total, dst, late>>

-----------------------------------------------------------------------------
(* The caller *)

Call ==
    /\ caller = "idle" /\ caller' = "waiting" /\ copier' = "read"
    /\ UNCHANGED <<n, err, buf, copyErr, total, dst, ch, late>>

\* A caller that returns the counter, as it does when it is interrupted.
CountedInstead(res) == total

Written(res) == res.n

ReceiveResult ==
    /\ caller = "waiting" /\ ch # NoResult
    /\ caller' = "leaving" /\ n' = Written(ch) /\ err' = ch.err /\ ch' = NoResult
    /\ UNCHANGED copierVars

\* A caller that waits for the copier before it looks at the context.
WaitsForCopier == ctxDone /\ copier = "done"

Interruptible == ctxDone

\* TotalData is read before the deferred Stop runs.
Interrupted ==
    /\ caller = "waiting" /\ Interruptible
    /\ caller' = "leaving" /\ n' = total /\ err' = "interrupted"
    /\ UNCHANGED <<copierVars, ch>>

Stop ==
    /\ caller = "leaving" /\ caller' = "returned"
    /\ UNCHANGED <<n, err, copierVars, ch>>

Caller == Call \/ ReceiveResult \/ Interrupted \/ Stop
Copier == Read \/ ReadFails \/ Tee \/ Count \/ WriteBegins
          \/ (\E k \in 0..Chunk : WriteEnds(k)) \/ Send

-----------------------------------------------------------------------------
(* The specification of one call, whatever the source and the destination do *)

Init == src \in Sources /\ ctxDone = FALSE /\ Idle

Cancel == ~ctxDone /\ ctxDone' = TRUE /\ UNCHANGED <<src, callerVars, copierVars, ch>>

\* After the call, nothing need happen any more.
Over == caller = "returned" /\ copier \in {"done", "hung"} /\ UNCHANGED vars

Next == ((Caller \/ Copier \/ Hang) /\ UNCHANGED <<src, ctxDone>>) \/ Cancel \/ Over

\* Both goroutines are scheduled; what hangs is explicit.
Spec ==
    /\ Init /\ [][Next]_vars
    /\ WF_vars((ReceiveResult \/ Interrupted \/ Stop) /\ UNCHANGED <<src, ctxDone>>)
    /\ WF_vars(Copier /\ UNCHANGED <<src, ctxDone>>)

-----------------------------------------------------------------------------
(* Properties *)

TypeOK ==
    /\ src \in Sources /\ ctxDone \in BOOLEAN
    /\ caller \in {"idle", "waiting", "leaving", "returned"}
    /\ n \in Nat /\ err \in {"nil", "read", "write", "stopped", "interrupted"}
    /\ copier \in {"idle", "read", "tee", "count", "write", "writing", "send", "done",
                  "hung"}
    /\ caller = "idle" <=> copier = "idle"
    /\ buf \in Seq(Range(src)) /\ Len(buf) <= Chunk
    /\ copier \in {"tee", "count", "write", "writing"} => buf # << >>
    /\ copier \in {"idle", "read", "send", "done"} => buf = << >>
    /\ copyErr \in {"nil", "read", "write", "stopped"}
    /\ total \in Nat /\ dst \in Seq(Range(src)) /\ late \in Nat
    /\ ch \in [n : Nat, err : {"nil", "read", "write", "stopped"}] \cup {NoResult}

\* copy.go:26: the deferred Stop "will cancel the Copy if still in progress when
\* we leave the function".  A chunk already past the check of done is written
\* after the return; a second one never is.
OneLateWrite == late <= 1

\* What a call that was interrupted reports as copied exceeds what the
\* destination has taken by at most the chunk in flight.
CountIsClose == err = "interrupted" => n <= Len(dst) + Chunk

\* A call that was not interrupted reports exactly what the destination took, and
\* without an error it took the whole source.
ResultIsExact ==
    caller \in {"leaving", "returned"} /\ err # "interrupted" =>
       n = Len(dst) /\ (err = "nil" => dst = src)

\* A cancelled call returns, even when the source or the destination hangs.
CancelReturns == ctxDone /\ caller = "waiting" ~> caller = "returned"

\* The goroutine does not outlive the call for good, unless a read or a write does:
\* its result has a place in the channel though nobody receives it.
CopierEnds == caller = "returned" ~> copier \in {"done", "hung"}
=============================================================================
