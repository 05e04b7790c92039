--------------------------- MODULE MapImageProofs ---------------------------
(***************************************************************************)
(* MapImage, for any number of partitions and any order of their names:    *)
(* whatever the scanning goroutine and Run do to the variable they share,  *)
(* what Run leaves in the state bag is torn or a part of one listing.      *)
(***************************************************************************)
EXTENDS MapImage, PlacesProofs

\* Parts of a listing: partitions that exist, and in the order of their numbers
\* wherever the names are.
Listed(seq) == seq \in Seq(nodes) /\ (Ordered(order) => Ordered(seq))

\* What has been appended, and what is still to be, are parts of one listing, the
\* second one after the first.
ScanInv ==
    /\ Listed(partitions) /\ Listed(listing)
    /\ Ordered(order) =>
          \A i \in DOMAIN partitions, j \in DOMAIN listing : partitions[i] < listing[j]
    /\ scanner \in {"select", "sendHalt"} => partitions = << >>
    /\ scanner = "send" => partitions # << >>

\* What Run has put in the state bag: nothing yet, something from the channel, or
\* something it has read by itself.
RunInv ==
    /\ run \in {"waiting", "timedOut"} => result = NoResult
    /\ run = "waiting" => ~cancelled
    /\ run = "timedOut" => cancelled
    /\ result \in {Torn, NoResult} \/ Listed(result)
    /\ ~cancelled /\ result # NoResult => result # << >> /\ Listed(result) /\ Ordered(result)

Inv == TypeOK /\ ScanInv /\ RunInv
-----------------------------------------------------------------------------
(* The lists *)

LEMMA OrderIs ==
    ASSUME order \in ListOrders
    PROVE  /\ order \in Seq(Nat) /\ Len(order) \in Nat /\ Numbers = 1..Len(order)
           /\ order \in Seq(Numbers) /\ DOMAIN order = 1..Len(order)
<1>1. order \in Seq(Nat) /\ Range(order) = 1..Len(order)
  BY ListAssumption
<1>2. \A i \in DOMAIN order : order[i] \in Range(order)
  BY DEF Range
<1> QED BY <1>1, <1>2 DEF Numbers

LEMMA EmptyIsListed == Listed(<< >>)
BY DEF Listed, Ordered

\* A list of some nodes is a list of more of them.
LEMMA MoreNodes ==
    ASSUME NEW T, nodes \subseteq T, NEW s \in Seq(nodes)
    PROVE  s \in Seq(T)
OBVIOUS

\* What ReadDir lists.
LEMMA ListingIs ==
    ASSUME order \in ListOrders
    PROVE  Listed(At(order, {i \in DOMAIN order : order[i] \in nodes}))
<1> DEFINE places == {i \in DOMAIN order : order[i] \in nodes}
           n == Cardinality(places)
           s == At(order, places)
<1>1. places \in SUBSET DOMAIN order /\ \A i \in places : order[i] \in nodes
  OBVIOUS
<1>2. order \in Seq(Nat) /\ DOMAIN order \in SUBSET Nat
  BY OrderIs
<1> HIDE DEF places
<1>3. /\ IsFiniteSet(places) /\ n \in Nat /\ s \in Seq(Nat) /\ Len(s) = n
      /\ \A k \in 1..n : InOrder(places)[k] \in places /\ s[k] = order[InOrder(places)[k]]
  BY <1>1, <1>2, AtIs
<1>4. \A i, j \in 1..n : i < j => InOrder(places)[i] < InOrder(places)[j]
  BY <1>1, <1>2, <1>3, InOrderIs
<1>5. s \in Seq(nodes)
  <2>1. \A k \in 1..n : s[k] \in nodes
    BY <1>1, <1>3
  <2> HIDE DEF n, s
  <2> QED BY <1>3, <2>1
<1>6. ASSUME Ordered(order) PROVE Ordered(s)
  <2>1. DOMAIN s = 1..n
    BY <1>3
  <2> QED BY <1>1, <1>3, <1>4, <1>6, <2>1 DEF Ordered
<1> QED BY <1>5, <1>6 DEF Listed, places

\* What the sort returns.
LEMMA SortedIs ==
    ASSUME order \in ListOrders, nodes \subseteq Numbers,
           NEW found \in Seq(nodes), found # << >>
    PROVE  /\ ByNumber(found) \in Seq(nodes) /\ Ordered(ByNumber(found))
           /\ ByNumber(found) # << >>
<1> DEFINE R == Range(found)
           n == Cardinality(R)
<1>1. R \subseteq nodes /\ found[1] \in R
  BY EmptySeq DEF Range
<1>2. R \in SUBSET Nat /\ IsFiniteSet(R)
  <2>1. R \subseteq 1..Len(order) /\ Len(order) \in Nat
    BY <1>1, OrderIs
  <2>2. IsFiniteSet(1..Len(order))
    BY <2>1, FS_Interval
  <2> QED BY <2>1, <2>2, FS_Subset
<1> HIDE DEF R
<1>3. /\ n \in Nat /\ InOrder(R) \in [1..n -> R]
      /\ \A i, j \in 1..n : i < j => InOrder(R)[i] < InOrder(R)[j]
      /\ \A m \in R : \E i \in 1..n : InOrder(R)[i] = m
  BY <1>2, InOrderIs
<1>4. n # 0
  BY <1>1, <1>3
<1>5. InOrder(R) \in Seq(nodes) /\ DOMAIN InOrder(R) = 1..n /\ InOrder(R) # << >>
  BY <1>1, <1>3, <1>4
<1> QED BY <1>3, <1>5 DEF ByNumber, Ordered, R

\* An increasing list of n of the numbers from 1 to n is all of them.
LEMMA AllInOrder ==
    ASSUME NEW n \in Nat, NEW f \in [1..n -> 1..n], \A i, j \in 1..n : i < j => f[i] < f[j]
    PROVE  \A k \in 1..n : f[k] = k
<1> DEFINE Up == {k \in Nat : k \in 1..n => f[k] >= k}
           Down == {k \in Nat : n - k \in 1..n => f[n - k] <= n - k}
<1>1. Up = Nat
  <2>1. 0 \in Up
    OBVIOUS
  <2>2. ASSUME NEW k \in Up PROVE k + 1 \in Up
    <3> SUFFICES ASSUME k + 1 \in 1..n PROVE f[k + 1] >= k + 1
      OBVIOUS
    <3>1. CASE k = 0
      BY <3>1
    <3>2. CASE k # 0
      <4>1. k \in 1..n /\ f[k] >= k /\ f[k] < f[k + 1]
        BY <3>2
      <4> QED BY <4>1
    <3> QED BY <3>1, <3>2
  <2> HIDE DEF Up
  <2>3. Up \in SUBSET Nat
    BY DEF Up
  <2> QED BY <2>1, <2>2, <2>3, Counting
<1>2. Down = Nat
  <2>1. 0 \in Down
    OBVIOUS
  <2>2. ASSUME NEW k \in Down PROVE k + 1 \in Down
    <3> SUFFICES ASSUME n - (k + 1) \in 1..n PROVE f[n - (k + 1)] <= n - (k + 1)
      OBVIOUS
    <3>1. n - k \in 1..n /\ f[n - k] <= n - k /\ n - (k + 1) < n - k
      OBVIOUS
    <3>2. f[n - (k + 1)] < f[n - k]
      BY <3>1
    <3>3. f[n - (k + 1)] \in Nat /\ f[n - k] \in Nat
      BY <3>1
    <3> QED BY <3>1, <3>2, <3>3
  <2> HIDE DEF Down
  <2>3. Down \in SUBSET Nat
    BY DEF Down
  <2> QED BY <2>1, <2>2, <2>3, Counting
<1>3. ASSUME NEW k \in 1..n PROVE f[k] = k
  <2>1. k \in Up /\ n - (n - k) = k
    BY <1>1
  <2>3. n - k \in Down
    <3>1. n - k \in Nat
      OBVIOUS
    <3> HIDE DEF Down
    <3> QED BY <3>1, <1>2
  <2>2. f[k] >= k /\ f[k] <= k /\ f[k] \in Nat
    BY <2>1, <2>3
  <2> QED BY <2>2
<1> QED BY <1>3

\* Moving the head of what is left to the end of what has been appended.
LEMMA Appended ==
    ASSUME nodes \subseteq Nat, Listed(partitions), Listed(listing), listing # << >>,
           Ordered(order) =>
              \A i \in DOMAIN partitions, j \in DOMAIN listing : partitions[i] < listing[j]
    PROVE  LET longer == Append(partitions, Head(listing)) IN
           /\ Listed(longer) /\ Listed(Tail(listing)) /\ longer # << >>
           /\ Ordered(order) =>
                 \A i \in DOMAIN longer, j \in DOMAIN Tail(listing) : longer[i] < Tail(listing)[j]
<1> DEFINE longer == Append(partitions, Head(listing))
           m == Len(partitions)
           n == Len(listing)
<1>1. /\ partitions \in Seq(nodes) /\ listing \in Seq(nodes) /\ m \in Nat /\ n \in Nat
      /\ n # 0 /\ DOMAIN partitions = 1..m /\ DOMAIN listing = 1..n
      /\ 1 \in DOMAIN listing /\ Head(listing) = listing[1]
  BY EmptySeq DEF Listed
<1>2. /\ longer \in Seq(nodes) /\ DOMAIN longer = 1..(m + 1) /\ longer # << >>
      /\ \A i \in 1..m : longer[i] = partitions[i]
      /\ longer[m + 1] = listing[1]
  BY <1>1
<1>3. /\ Tail(listing) \in Seq(nodes) /\ DOMAIN Tail(listing) = 1..(n - 1)
      /\ \A j \in 1..(n - 1) : Tail(listing)[j] = listing[j + 1]
  BY <1>1
<1> HIDE DEF longer, m, n
<1>4. ASSUME Ordered(order)
      PROVE  /\ Ordered(longer) /\ Ordered(Tail(listing))
             /\ \A i \in DOMAIN longer, j \in DOMAIN Tail(listing) : longer[i] < Tail(listing)[j]
  <2>1. /\ \A i, j \in 1..m : i < j => partitions[i] < partitions[j]
        /\ \A i, j \in 1..n : i < j => listing[i] < listing[j]
        /\ \A i \in 1..m, j \in 1..n : partitions[i] < listing[j]
    BY <1>1, <1>4 DEF Listed, Ordered
  <2>2. Ordered(longer)
    <3> SUFFICES ASSUME NEW i \in 1..(m + 1), NEW j \in 1..(m + 1), i < j
                 PROVE  longer[i] < longer[j]
      BY <1>2 DEF Ordered
    <3>1. i \in 1..m /\ (j \in 1..m \/ j = m + 1)
      BY <1>1
    <3> QED BY <1>1, <1>2, <2>1, <3>1
  <2>3. Ordered(Tail(listing))
    <3> SUFFICES ASSUME NEW i \in 1..(n - 1), NEW j \in 1..(n - 1), i < j
                 PROVE  Tail(listing)[i] < Tail(listing)[j]
      BY <1>3 DEF Ordered
    <3>1. i + 1 \in 1..n /\ j + 1 \in 1..n /\ i + 1 < j + 1
      BY <1>1
    <3> QED BY <1>3, <2>1, <3>1
  <2>4. ASSUME NEW i \in 1..(m + 1), NEW j \in 1..(n - 1)
        PROVE  longer[i] < Tail(listing)[j]
    <3>1. j + 1 \in 1..n /\ 1 < j + 1 /\ (i \in 1..m \/ i = m + 1)
      BY <1>1
    <3> QED BY <1>1, <1>2, <1>3, <2>1, <3>1
  <2> QED BY <1>2, <1>3, <2>2, <2>3, <2>4
<1> QED BY <1>2, <1>3, <1>4 DEF Listed, longer

-----------------------------------------------------------------------------
(* The steps *)

LEMMA InvInit == ASSUME Init PROVE Inv
<1>1. /\ order \in ListOrders /\ nodes = {} /\ scanner = "select" /\ listing = << >>
      /\ partitions = << >> /\ run = "waiting" /\ result = NoResult /\ action = "none"
  BY DEF Init
<1>2. cancelled \in BOOLEAN /\ ~cancelled
  BY DEF Init
<1>3. TypeOK
  BY <1>1, <1>2 DEF TypeOK
<1>4. ScanInv
  BY <1>1, EmptyIsListed DEF ScanInv
<1>5. RunInv
  BY <1>1, <1>2 DEF RunInv
<1> QED BY <1>3, <1>4, <1>5 DEF Inv

\* A step keeps the invariant: the kernel's, each of the goroutine's, each of Run's.
LEMMA InvKept == ASSUME Inv, [Next]_vars PROVE Inv'
<1>0. /\ order \in ListOrders /\ nodes \subseteq Numbers /\ Numbers \subseteq Nat
      /\ order \in Seq(Nat) /\ cancelled \in BOOLEAN
  BY OrderIs DEF Inv, TypeOK
<1>1. CASE NodeAppears
  <2>1. PICK n \in Numbers : nodes' = nodes \cup {n}
    BY <1>1 DEF NodeAppears
  <2>2. UNCHANGED <<order, scanner, listing, partitions, cancelled, run, result, action>>
    BY <1>1 DEF NodeAppears
  <2>3. \A s \in Seq(nodes) : s \in Seq(nodes')
    BY <2>1
  <2>4. TypeOK'
    BY <1>0, <2>1, <2>2 DEF Inv, TypeOK, Numbers
  <2>5. ScanInv'
    BY <2>2, <2>3 DEF Inv, ScanInv, Listed, Ordered
  <2>6. RunInv'
    BY <2>2, <2>3 DEF Inv, RunInv, Listed, Ordered
  <2> QED BY <2>4, <2>5, <2>6 DEF Inv
<1>2. CASE ScannerStops \/ ReadDirFails
  <2>1. /\ UNCHANGED <<order, nodes, listing, partitions, cancelled, run, result, action>>
        /\ scanner = "select" /\ scanner' \in {"done", "sendHalt"}
    BY <1>2 DEF ScannerStops, ReadDirFails
  <2>2. TypeOK'
    BY <2>1 DEF Inv, TypeOK, Numbers
  <2>3. ScanInv' /\ RunInv'
    BY <2>1 DEF Inv, ScanInv, RunInv, Listed, Ordered
  <2> QED BY <2>2, <2>3 DEF Inv
<1>3. CASE ReadDir
  <2>1. /\ UNCHANGED <<order, nodes, partitions, cancelled, run, result, action>>
        /\ scanner = "select" /\ listing' = At(order, {i \in DOMAIN order : order[i] \in nodes})
        /\ scanner' = IF listing' = << >> THEN "select" ELSE "append"
    BY <1>3 DEF ReadDir
  <2>2. Listed(listing') /\ listing' \in Seq(nodes)
    BY <1>0, <2>1, ListingIs DEF Listed
  <2>3. partitions = << >>
    BY <2>1 DEF Inv, ScanInv
  <2>4. TypeOK'
    <3>1. listing' \in Seq(Numbers)
      BY <1>0, <2>2, MoreNodes
    <3> QED BY <2>1, <3>1 DEF Inv, TypeOK, Numbers
  <2>5. ScanInv'
    BY <2>1, <2>2, <2>3 DEF Inv, ScanInv, Listed, Ordered
  <2>6. RunInv'
    BY <2>1 DEF Inv, RunInv, Listed, Ordered
  <2> QED BY <2>4, <2>5, <2>6 DEF Inv
<1>4. CASE AppendBegins
  <2>1. /\ UNCHANGED <<order, nodes, listing, partitions, cancelled, run, result, action>>
        /\ scanner = "append" /\ scanner' = "writing"
    BY <1>4 DEF AppendBegins
  <2>2. TypeOK'
    BY <2>1 DEF Inv, TypeOK, Numbers
  <2>3. ScanInv' /\ RunInv'
    BY <2>1 DEF Inv, ScanInv, RunInv, Listed, Ordered
  <2> QED BY <2>2, <2>3 DEF Inv
<1>5. CASE AppendEnds
  <2>1. /\ UNCHANGED <<order, nodes, cancelled, run, result, action>>
        /\ scanner = "writing"
        /\ partitions' = Append(partitions, Head(listing)) /\ listing' = Tail(listing)
        /\ scanner' = IF listing' # << >> THEN "append" ELSE "send"
    BY <1>5 DEF AppendEnds, AfterEntry
  <2>2. listing # << >> /\ listing \in Seq(nodes) /\ partitions \in Seq(nodes)
    BY <2>1 DEF Inv, TypeOK, ScanInv, Listed
  <2>3. /\ Listed(partitions') /\ Listed(listing') /\ partitions' # << >>
        /\ Ordered(order) =>
              \A i \in DOMAIN partitions', j \in DOMAIN listing' : partitions'[i] < listing'[j]
    BY <1>0, <2>1, <2>2, Appended DEF Inv, ScanInv
  <2>4. TypeOK'
    <3>1. listing' \in Seq(Numbers) /\ partitions' \in Seq(Numbers)
      BY <1>0, <2>3, MoreNodes DEF Listed
    <3> QED BY <2>1, <3>1 DEF Inv, TypeOK, Numbers
  <2>5. ScanInv'
    BY <2>1, <2>3 DEF ScanInv, Listed, Ordered
  <2>6. RunInv'
    BY <2>1 DEF Inv, RunInv, Listed, Ordered
  <2> QED BY <2>4, <2>5, <2>6 DEF Inv
<1>6. CASE ReceivePartitions
  <2>1. /\ UNCHANGED <<order, nodes, listing, cancelled>>
        /\ run = "waiting" /\ scanner = "send" /\ scanner' = "done" /\ run' = "returned"
        /\ partitions' = ByNumber(partitions) /\ result' = partitions' /\ action' = "continue"
    BY <1>6 DEF ReceivePartitions, Returns
  <2>2. partitions \in Seq(nodes) /\ partitions # << >>
    BY <2>1 DEF Inv, ScanInv, Listed
  <2>3. partitions' \in Seq(nodes) /\ Ordered(partitions') /\ partitions' # << >>
    BY <1>0, <2>1, <2>2, SortedIs
  <2>4. listing = << >>
    BY <2>1 DEF Inv, TypeOK
  <2>5. TypeOK'
    <3>1. partitions' \in Seq(Numbers)
      BY <1>0, <2>3, MoreNodes
    <3> QED BY <2>1, <3>1 DEF Inv, TypeOK, Numbers
  <2>6. ScanInv'
    BY <2>1, <2>3, <2>4 DEF Inv, ScanInv, Listed, Ordered
  <2>7. RunInv'
    BY <2>1, <2>3 DEF Inv, RunInv, Listed, Ordered
  <2> QED BY <2>5, <2>6, <2>7 DEF Inv
<1>7. CASE ReceiveHalt
  <2>1. /\ UNCHANGED <<order, nodes, listing, partitions, cancelled>>
        /\ run = "waiting" /\ scanner = "sendHalt" /\ scanner' = "done" /\ run' = "returned"
        /\ result' = NoResult /\ action' = "halt"
    BY <1>7 DEF ReceiveHalt, Returns
  <2>2. TypeOK'
    BY <2>1 DEF Inv, TypeOK, Numbers
  <2>3. ScanInv' /\ RunInv'
    BY <2>1 DEF Inv, ScanInv, RunInv, Listed, Ordered
  <2> QED BY <2>2, <2>3 DEF Inv
<1>8. CASE Timeout
  <2>1. /\ UNCHANGED <<order, nodes, scanner, listing, partitions, result, action>>
        /\ run = "waiting" /\ run' = "timedOut" /\ cancelled'
        /\ cancelled' \in BOOLEAN
    BY <1>8 DEF Timeout, TimedOut
  <2>2. TypeOK'
    BY <2>1 DEF Inv, TypeOK, Numbers
  <2>3. ScanInv'
    BY <2>1 DEF Inv, ScanInv, Listed, Ordered
  <2>4. RunInv'
    BY <2>1 DEF Inv, RunInv, Listed, Ordered
  <2> QED BY <2>2, <2>3, <2>4 DEF Inv
<1>9. CASE PutUnsynchronised
  <2>1. /\ UNCHANGED <<order, nodes, scanner, listing, partitions, cancelled>>
        /\ run = "timedOut" /\ run' = "returned" /\ action' = "continue"
        /\ \/ result' = partitions
           \/ scanner = "writing" /\ result' = Append(partitions, Head(listing))
           \/ result' = Torn
    BY <1>9 DEF PutUnsynchronised, Returns
  <2>2. cancelled
    BY <2>1 DEF Inv, RunInv
  <2>3. result' = Torn \/ Listed(result')
    <3>1. CASE scanner = "writing" /\ result' = Append(partitions, Head(listing))
      <4>1. listing # << >> /\ listing \in Seq(nodes) /\ partitions \in Seq(nodes)
        BY <3>1 DEF Inv, TypeOK, ScanInv, Listed
      <4> QED BY <1>0, <3>1, <4>1, Appended DEF Inv, ScanInv
    <3> QED BY <2>1, <3>1 DEF Inv, ScanInv
  <2>4. TypeOK'
    <3>1. result' \in Seq(Numbers) \cup {Torn, NoResult}
      BY <1>0, <2>3, MoreNodes DEF Listed
    <3> QED BY <2>1, <3>1 DEF Inv, TypeOK, Numbers
  <2>5. ScanInv'
    BY <2>1 DEF Inv, ScanInv, Listed, Ordered
  <2>6. RunInv'
    BY <2>1, <2>2, <2>3 DEF RunInv, Listed, Ordered
  <2> QED BY <2>4, <2>5, <2>6 DEF Inv
<1>10. CASE UNCHANGED vars
  BY <1>10 DEF vars, Inv, TypeOK, ScanInv, RunInv, Numbers, Listed, Ordered
<1> QED BY <1>1, <1>2, <1>3, <1>4, <1>5, <1>6, <1>7, <1>8, <1>9, <1>10
       DEF Next, Scanner, Run, Over

-----------------------------------------------------------------------------
(* The theorems *)

\* However the goroutine, Run, the kernel and the clock interleave: what is shared is
\* a part of one listing.
THEOREM ScanInvariant == Spec => []Inv
<1>1. Init => Inv
  BY InvInit
<1>2. Inv /\ [Next]_vars => Inv'
  BY InvKept
<1> QED BY <1>1, <1>2, PTL DEF Spec

\* Whatever the order of the names: the type of every variable.
THEOREM TypeCorrect == Spec => []TypeOK
<1>1. Inv => TypeOK
  BY DEF Inv
<1> QED BY <1>1, ScanInvariant, PTL

\* However many partitions there are and whatever the order of their names: what
\* comes through the channel is in the order of the numbers.
THEOREM ReceivedSorted == Spec => []ReceivedInOrder
<1>1. Inv => ReceivedInOrder
  BY DEF Inv, RunInv, ReceivedInOrder, Listed, Range
<1> QED BY <1>1, ScanInvariant, PTL

\* However many partitions there are: a result as long as the partition table is the
\* partition table, even one that Run has read beside the goroutine.
THEOREM FullResultIsAll == Spec => []FullMeansAll
<1>1. Inv => FullMeansAll
  <2> SUFFICES ASSUME Inv, Ordered(order), result \notin {NoResult, Torn},
                      Len(result) = Len(order)
               PROVE  result = order
    BY DEF FullMeansAll
  <2> DEFINE n == Len(order)
  <2>1. /\ n \in Nat /\ Numbers = 1..n /\ order \in Seq(1..n) /\ DOMAIN order = 1..n
    BY OrderIs DEF Inv, TypeOK
  <2>2. Listed(result)
    BY DEF Inv, RunInv
  <2>3. result \in Seq(nodes) /\ Ordered(result) /\ nodes \subseteq 1..n
    BY <2>1, <2>2 DEF Listed, Inv, TypeOK
  <2> HIDE DEF n
  <2>4. result \in Seq(1..n) /\ Len(result) = n
    BY <2>3, MoreNodes DEF n
  <2>5. result \in [1..n -> 1..n] /\ order \in [1..n -> 1..n]
    BY <2>1, <2>4
  <2>6. \A k \in 1..n : result[k] = k
    <3>1. \A i, j \in 1..n : i < j => result[i] < result[j]
      BY <2>3, <2>5 DEF Ordered
    <3> QED BY <2>1, <2>5, <3>1, AllInOrder
  <2>7. \A k \in 1..n : order[k] = k
    <3>1. \A i, j \in 1..n : i < j => order[i] < order[j]
      BY <2>5 DEF Ordered
    <3> QED BY <2>1, <2>5, <3>1, AllInOrder
  <2>8. result = [k \in 1..n |-> k] /\ order = [k \in 1..n |-> k]
    <3> HIDE DEF n
    <3>1. result = [k \in 1..n |-> result[k]] /\ order = [k \in 1..n |-> order[k]]
      BY <2>5
    <3>2. [k \in 1..n |-> result[k]] = [k \in 1..n |-> k]
      BY <2>6
    <3>3. [k \in 1..n |-> order[k]] = [k \in 1..n |-> k]
      BY <2>7
    <3> QED BY <3>1, <3>2, <3>3
  <2> QED BY <2>8
<1> QED BY <1>1, ScanInvariant, PTL

=====
