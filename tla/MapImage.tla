------------------------------ MODULE MapImage ------------------------------
(***************************************************************************)
(* The scan in stepMapImage.Run, once losetup has attached the image: a    *)
(* goroutine lists /dev until it sees partitions of the loop device, while *)
(* Run waits for them for at most a minute.  Both use the variable         *)
(* partitions, without a lock: after the minute Run reads it while the     *)
(* goroutine may be in the middle of an append.  ArmImageBuild takes what  *)
(* may be left in the state bag from here (its constant ScanResults).      *)
(***************************************************************************)
EXTENDS Naturals, Sequences, SequencesExt, Places

CONSTANTS
    ListOrders, \* orders the names of the partitions 1..n may have in /dev
    Torn,       \* a slice header read in the middle of an append
    NoResult,   \* no "partitions" in the state bag
    ReadDirMayFail

ASSUME ListAssumption ==
    /\ \A o \in ListOrders : o \in Seq(Nat) /\ IsInjective(o) /\ Range(o) = 1..Len(o)
    /\ Torn \notin Seq(Nat) /\ NoResult \notin Seq(Nat) \cup {Torn}
    /\ ReadDirMayFail \in BOOLEAN

VARIABLES
    order,       \* the partition numbers in the order of their names
    nodes,       \* the partition nodes the kernel has made so far
    scanner,     \* where the scanning goroutine is
    listing,     \* the entries of the listing it has not appended yet
    partitions,  \* the variable the goroutine and Run share
    cancelled,   \* cancel() has been called
    run,         \* where Run is
    result,      \* the value Run puts in the state bag
    action       \* what Run returns

vars == <<order, nodes, scanner, listing, partitions, cancelled, run, result, action>>

Numbers == Range(order)

Init ==
    /\ order \in ListOrders
    /\ nodes = {} /\ scanner = "select" /\ listing = << >> /\ partitions = << >>
    /\ cancelled = FALSE /\ run = "waiting" /\ result = NoResult /\ action = "none"

-----------------------------------------------------------------------------
(* The kernel and the goroutine *)

NodeAppears ==
    /\ \E n \in Numbers \ nodes : nodes' = nodes \cup {n}
    /\ UNCHANGED <<order, scanner, listing, partitions, cancelled, run, result, action>>

\* The select of the loop takes ctx.Done when it is ready, else default.
ScannerStops ==
    /\ scanner = "select" /\ cancelled /\ scanner' = "done"
    /\ UNCHANGED <<order, nodes, listing, partitions, cancelled, run, result, action>>

\* A listing without partitions is followed by another at once.
ReadDir ==
    /\ scanner = "select" /\ ~cancelled
    /\ listing' = At(order, {i \in DOMAIN order : order[i] \in nodes})
    /\ scanner' = IF listing' = << >> THEN "select" ELSE "append"
    /\ UNCHANGED <<order, nodes, partitions, cancelled, run, result, action>>

\* The Cleanup the goroutine calls finds no "partitions" and does nothing.
ReadDirFails ==
    /\ ReadDirMayFail /\ scanner = "select" /\ ~cancelled /\ scanner' = "sendHalt"
    /\ UNCHANGED <<order, nodes, listing, partitions, cancelled, run, result, action>>

AppendBegins ==
    /\ scanner = "append" /\ scanner' = "writing"
    /\ UNCHANGED <<order, nodes, listing, partitions, cancelled, run, result, action>>

\* A scanner that lists again until it has as many partitions as it expects.
CollectsMore(rest, found) ==
    IF rest # << >> THEN "append"
    ELSE IF Len(found) < Len(order) THEN "select" ELSE "send"

\* A scanner that does not notice the end of the listing.
NeverEnds(rest, found) == "append"

\* After an entry: the next one, or the end of the listing.
AfterEntry(rest, found) == IF rest # << >> THEN "append" ELSE "send"

AppendEnds ==
    /\ scanner = "writing"
    /\ partitions' = Append(partitions, Head(listing)) /\ listing' = Tail(listing)
    /\ scanner' = AfterEntry(listing', partitions')
    /\ UNCHANGED <<order, nodes, cancelled, run, result, action>>

-----------------------------------------------------------------------------
(* Run *)

Returns(value, act) == run' = "returned" /\ result' = value /\ action' = act

\* The order of the names in /dev: p1, p10, p2.
AsListed(found) == found

\* sort.Slice by partition number; one listing has no partition twice.
ByNumber(found) == InOrder(Range(found))

ReceivePartitions ==
    /\ run = "waiting" /\ scanner = "send" /\ scanner' = "done"
    /\ partitions' = ByNumber(partitions) /\ Returns(partitions', "continue")
    /\ UNCHANGED <<order, nodes, listing, cancelled>>

ReceiveHalt ==
    /\ run = "waiting" /\ scanner = "sendHalt" /\ scanner' = "done"
    /\ Returns(NoResult, "halt")
    /\ UNCHANGED <<order, nodes, listing, partitions, cancelled>>

\* A select without the time.After case.
WaitsForever == FALSE

\* A minute has passed; the goroutine is told to stop, but not waited for.
TimedOut == run = "waiting"

Timeout ==
    /\ TimedOut /\ run' = "timedOut" /\ cancelled' = TRUE
    /\ UNCHANGED <<order, nodes, scanner, listing, partitions, result, action>>

\* Run reads partitions without synchronisation.
PutUnsynchronised ==
    /\ run = "timedOut"
    /\ \/ Returns(partitions, "continue")
       \/ scanner = "writing" /\ Returns(Append(partitions, Head(listing)), "continue")
       \/ scanner = "writing" /\ Returns(Torn, "continue")
    /\ UNCHANGED <<order, nodes, scanner, listing, partitions, cancelled>>

\* Nobody receives from the goroutine any more: it may be stuck for good.
Over == run = "returned" /\ UNCHANGED vars

Scanner == ScannerStops \/ ReadDir \/ ReadDirFails \/ AppendBegins \/ AppendEnds
Run == ReceivePartitions \/ ReceiveHalt \/ Timeout \/ PutUnsynchronised

Next == NodeAppears \/ Scanner \/ Run \/ Over

\* The timer fires: Run goes on whatever the goroutine does.
Spec == Init /\ [][Next]_vars /\ WF_vars(Run)

-----------------------------------------------------------------------------
(* Properties *)

Ordered(seq) == \A i, j \in DOMAIN seq : i < j => seq[i] < seq[j]

TypeOK ==
    /\ order \in ListOrders
    /\ nodes \subseteq Numbers
    /\ scanner \in {"select", "append", "writing", "send", "sendHalt", "done"}
    /\ listing \in Seq(Numbers) /\ partitions \in Seq(Numbers)
    /\ scanner \in {"append", "writing"} <=> listing # << >>
    /\ cancelled \in BOOLEAN /\ run \in {"waiting", "timedOut", "returned"}
    /\ result \in Seq(Numbers) \cup {Torn, NoResult}
    /\ action \in {"none", "continue", "halt"}

\* Partitions that came through the channel are some, of those that exist, in
\* the order of their numbers, whatever the order of their names.
ReceivedInOrder ==
    result # NoResult /\ ~cancelled =>
       result # << >> /\ Range(result) \subseteq nodes /\ Ordered(result)

\* Where names sort like numbers, a list as long as the partition table is the
\* partition table, even one read after the minute: the length check of
\* stepMountImage is enough to refuse every other list but a torn one.
FullMeansAll ==
    /\ Ordered(order) /\ result \notin {NoResult, Torn} /\ Len(result) = Len(order)
    => result = order

\* Run returns, partitions or not.
RunReturns == <>(run = "returned")

\* step_map_image.go:52: the goroutine is to "look for all partitions".
AllPartitionsFound ==
    action = "continue" /\ ~cancelled => Range(result) = Numbers
=============================================================================
