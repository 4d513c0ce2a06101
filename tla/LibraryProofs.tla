---------------------------- MODULE LibraryProofs ----------------------------
(***************************************************************************)
(* Proofs about the parts of the package that stand by themselves: the     *)
(* binary search finds its target for every size of the integers, the      *)
(* periodic caller keeps its interval for every interval and every number  *)
(* of loops, the message reader joins the pieces of a header, is a channel *)
(* of messages, loses no byte and reads the streams it is made for,        *)
(* whatever the messages, segments and reads, and a segment and an address *)
(* are read back as they were written.                                     *)
(***************************************************************************)
EXTENDS MessageReader, Segment, Address, BinarySearch, PeriodicCaller,
        NaturalsInduction, WellFoundedInduction, SequenceTheorems, TLAPS

-----------------------------------------------------------------------------
(* BinarySearchCallback *)

(* The midpoint that the callback is given lies between the bounds.        *)
LEMMA MidBetween ==
    ASSUME SearchTypeOK, start <= end
    PROVE  Mid \in start..end
  <1>1. /\ start \in Nat /\ end \in Nat
    BY MaxUintAssumption DEF SearchTypeOK
  <1>2. \A n \in Nat : n \div 2 \in Nat /\ n \div 2 <= n
    OBVIOUS
  <1>3. end - start \in Nat
    BY <1>1
  <1> QED
    BY <1>1, <1>2, <1>3 DEF Mid

(* The search starts with the whole range.                                 *)
LEMMA SearchInitOK ==
    ASSUME SearchInit
    PROVE  SearchInv
  BY MaxUintAssumption DEF SearchInit, SearchInv, SearchTypeOK, BoundsOK, SearchCorrect, Wraps

(* Every call of the callback keeps a target of the range between the      *)
(* bounds.                                                                 *)
LEMMA SearchStepOK ==
    ASSUME SearchInv, [SearchNext]_searchVars
    PROVE  SearchInv'
  <1> USE MaxUintAssumption
  <1>1. CASE UNCHANGED searchVars
    BY <1>1 DEF SearchInv, SearchTypeOK, BoundsOK, SearchCorrect, Wraps, searchVars
  <1>2. ASSUME Calls
        PROVE  /\ Mid \in start..end /\ Mid \in 0..MaxUint
               /\ start \in 0..MaxUint /\ end \in 0..MaxUint
    BY <1>2, MidBetween DEF Calls, SearchInv, SearchTypeOK
  <1>3. CASE Below
    <2>1. SearchTypeOK'
      BY <1>2, <1>3 DEF Below, inputs, Dec, SearchInv, SearchTypeOK
    <2>2. BoundsOK'
      BY <1>2, <1>3 DEF Below, Calls, inputs, Dec, SearchInv, SearchTypeOK, BoundsOK, Wraps
    <2>3. SearchCorrect'
      BY <1>2, <1>3 DEF Below, Calls, inputs, SearchInv, SearchTypeOK, BoundsOK, SearchCorrect, Wraps
    <2> QED
      BY <2>1, <2>2, <2>3 DEF SearchInv
  <1>4. CASE Above
    <2>1. SearchTypeOK'
      BY <1>2, <1>4 DEF Above, inputs, Inc, SearchInv, SearchTypeOK
    <2>2. BoundsOK'
      BY <1>2, <1>4 DEF Above, Calls, inputs, Inc, SearchInv, SearchTypeOK, BoundsOK, Wraps
    <2>3. SearchCorrect'
      BY <1>2, <1>4 DEF Above, Calls, inputs, SearchInv, SearchTypeOK, BoundsOK, SearchCorrect, Wraps
    <2> QED
      BY <2>1, <2>2, <2>3 DEF SearchInv
  <1>5. CASE Found
    BY <1>2, <1>5 DEF Found, Calls, inputs, SearchInv, SearchTypeOK, BoundsOK, SearchCorrect, Wraps
  <1>6. CASE CallbackFails
    BY <1>2, <1>6 DEF CallbackFails, Calls, inputs, SearchInv, SearchTypeOK, BoundsOK, SearchCorrect, Wraps
  <1>7. CASE NoMatch
    BY <1>7 DEF NoMatch, inputs, SearchInv, SearchTypeOK, BoundsOK, SearchCorrect, Wraps
  <1> QED
    BY <1>1, <1>3, <1>4, <1>5, <1>6, <1>7 DEF SearchNext, SearchStep

(* The inductive invariant of BinarySearchCallback holds for unsigned      *)
(* integers of every size.                                                 *)
THEOREM SearchInvHolds == SearchSpec => []SearchInv
  BY SearchInitOK, SearchStepOK, PTL DEF SearchSpec

(* The callback is only called with values of the range, and a search that *)
(* ends without an error has found the target or the target is not in the  *)
(* range, unless a bound wraps around.                                     *)
THEOREM SearchIsCorrect == SearchSpec => []SearchCorrect
  <1>1. SearchInv => SearchCorrect
    BY DEF SearchInv
  <1> QED
    BY <1>1, SearchInvHolds, PTL

-----------------------------------------------------------------------------
(* PeriodicCaller *)

(* lastCallTime is never older than the last begin of the action.          *)
Ages ==
    /\ age \in 0..Interval /\ since \in 0..Interval
    /\ age <= since

(* The ages keep their order in every step.                                *)
LEMMA AgesStepOK ==
    ASSUME Ages, [CallerNext]_callerVars
    PROVE  Ages'
  <1> USE IntervalAssumption DEF Ages
  <1>1. CASE UNCHANGED callerVars
    BY <1>1 DEF callerVars
  <1>2. CASE TimePasses
    BY <1>2 DEF TimePasses, Older
  <1>3. CASE Postpone
    BY <1>3 DEF Postpone, BeginAction, NoAction
  <1>4. CASE Stop
    BY <1>4 DEF Stop
  <1>5. ASSUME NEW l \in Loop, Start(l)
        PROVE  Ages'
    BY <1>5 DEF Start
  <1>6. ASSUME NEW l \in Loop, LoopTicks(l)
        PROVE  Ages'
    BY <1>6 DEF LoopTicks, Due, BeginAction, NoAction
  <1>7. ASSUME NEW l \in Loop, LoopReturns(l)
        PROVE  Ages'
    BY <1>7 DEF LoopReturns
  <1> QED
    BY <1>1, <1>2, <1>3, <1>4, <1>5, <1>6, <1>7 DEF CallerNext

(* A step that begins the action finds the interval over and the caller    *)
(* not stopped.                                                            *)
LEMMA BeginsSpaced ==
    ASSUME Ages, CallerNext, calls' # calls
    PROVE  since = Interval /\ ~stopped
  <1>1. age = Interval /\ ~stopped
    BY DEF CallerNext, TimePasses, Postpone, Stop, Start, LoopTicks, LoopReturns, Due, NoAction
  <1> QED
    BY <1>1, IntervalAssumption DEF Ages

(* Whatever Postpone, the loops and Stop do and in whichever order: two    *)
(* begins of the action are an interval apart, and none comes after Stop.  *)
THEOREM CallsAreSpaced == CallerSpec => SpacedCalls
  <1>1. CallerInit => Ages
    BY IntervalAssumption DEF CallerInit, Ages
  <1>2. Ages /\ [CallerNext]_callerVars => Ages'
    BY AgesStepOK
  <1>3. Ages /\ [CallerNext]_callerVars
          => [calls' # calls => since = Interval /\ ~stopped]_callerVars
    BY BeginsSpaced
  <1> QED
    BY <1>1, <1>2, <1>3, PTL DEF CallerSpec, SpacedCalls

-----------------------------------------------------------------------------
(* MessageReader: pieces that follow one another *)

(* A set of natural numbers has a least element: induction over the length *)
(* of a sequence looks for the first index that goes wrong.                *)
LEMMA LeastIndex ==
    ASSUME NEW T, T \subseteq Nat, T # {}
    PROVE  \E x \in T : \A y \in T : x <= y
<1>. DEFINE R == OpToRel(<, Nat)
<1>1. \A x, y \in Nat : x < y => <<x, y>> \in R
    BY DEF OpToRel
<1>2. IsWellFoundedOn(R, Nat)
    BY NatLessThanWellFounded
<1>. HIDE DEF R
<1>3. PICK x \in T : \A y \in T : <<y, x>> \notin R
    BY <1>2, WFMin
<1>4. \A y \in T : ~(y < x) /\ y \in Nat /\ x \in Nat
    BY <1>1, <1>3
<1>5. \A y \in T : x <= y
    BY <1>4
<1>. QED BY <1>5

(* Sequences can be joined one after the other.                            *)
LEMMA JoinsExist ==
    ASSUME NEW n \in Nat, NEW a \in [1..n -> Seq(Byte)]
    PROVE  \E g \in [0..n -> Seq(Byte)] :
               g[0] = <<>> /\ \A i \in 1..n : g[i] = g[i - 1] \o a[i]
<1>. DEFINE Upto(g, k) == g[0] = <<>> /\ \A i \in 1..k : g[i] = g[i - 1] \o a[i]
            T == {k \in 0..n : ~\E g \in [0..k -> Seq(Byte)] : Upto(g, k)}
<1>1. SUFFICES ASSUME T # {} PROVE FALSE
    BY n \in 0..n
<1>2. PICK k \in T : \A j \in T : k <= j
  <2>. HIDE DEF Upto
  <2>1. T \subseteq Nat
      OBVIOUS
  <2>. HIDE DEF T
  <2>. QED BY <1>1, <2>1, LeastIndex
<1>3. CASE k = 0
  <2>1. [i \in 0..0 |-> <<>>] \in [0..0 -> Seq(Byte)] /\ Upto([i \in 0..0 |-> <<>>], 0)
      OBVIOUS
  <2>. QED BY <1>3, <2>1
<1>4. CASE k # 0
  <2>1. k \in 1..n /\ k - 1 \in 0..n /\ k - 1 \notin T
    <3>. HIDE DEF Upto
    <3>1. k \in 0..n
        BY <1>2
    <3>. HIDE DEF T
    <3>. QED BY <1>2, <1>4, <3>1
  <2>2. PICK g \in [0..(k - 1) -> Seq(Byte)] : Upto(g, k - 1)
      BY <2>1, Zenon
  <2>. DEFINE next == g[k - 1] \o a[k]
              h == [i \in 0..k |-> IF i = k THEN next ELSE g[i]]
  <2>3. g[k - 1] \in Seq(Byte) /\ a[k] \in Seq(Byte)
    <3>. HIDE DEF Upto, T
    <3>1. k - 1 \in 0..(k - 1)
        BY <2>1
    <3>. QED BY <2>1, <3>1
  <2>4. next \in Seq(Byte)
      BY <2>3, ConcatProperties
  <2>. HIDE DEF next
  <2>5. h \in [0..k -> Seq(Byte)]
      BY <2>1, <2>2, <2>4
  <2>6. h[0] = <<>>
      BY <2>1, <2>2
  <2>7. ASSUME NEW i \in 1..k PROVE h[i] = h[i - 1] \o a[i]
    <3>1. h[i - 1] = g[i - 1]
        BY <2>1
    <3>2. CASE i = k
      <4>1. h[k] = next
          BY <2>1
      <4>. QED BY <3>1, <3>2, <4>1, Zenon DEF next
    <3>3. CASE i # k
      <4>1. i \in 1..(k - 1) /\ i \in 0..k /\ h[i] = g[i]
          BY <2>1, <3>3
      <4>2. g[i] = g[i - 1] \o a[i]
          BY <2>2, <4>1
      <4>. QED BY <3>1, <4>1, <4>2
    <3>. QED BY <3>2, <3>3
  <2>. HIDE DEF h
  <2>8. \E f \in [0..k -> Seq(Byte)] : Upto(f, k)
      BY <2>5, <2>6, <2>7
  <2>. QED BY <2>8
<1>. QED BY <1>3, <1>4

(* What the joined pieces are: each join is the one before it, with the    *)
(* next piece behind it.                                                   *)
LEMMA JoinsAre ==
    ASSUME NEW ps \in Seq(Seq(Byte))
    PROVE  /\ Len(ps) \in Nat /\ \A i \in 1..Len(ps) : ps[i] \in Seq(Byte)
           /\ \A i \in 0..Len(ps) : Joins(ps)[i] \in Seq(Byte)
           /\ Joins(ps)[0] = <<>>
           /\ \A i \in 1..Len(ps) : Joins(ps)[i] = Joins(ps)[i - 1] \o ps[i]
<1>. DEFINE n == Len(ps)
            join[i \in 0..n] == IF i = 0 THEN <<>> ELSE join[i - 1] \o ps[i]
<1>1. n \in Nat /\ ps \in [1..n -> Seq(Byte)]
    BY LenProperties
<1>2. Joins(ps) = join
    BY DEF Joins
<1>. HIDE DEF n
<1>3. PICK g \in [0..n -> Seq(Byte)] : g[0] = <<>> /\ \A i \in 1..n : g[i] = g[i - 1] \o ps[i]
  <2>. HIDE DEF join
  <2>1. n \in Nat
      BY <1>1
  <2>2. ps \in [1..n -> Seq(Byte)]
      BY <1>1
  <2>. QED BY <2>1, <2>2, JoinsExist
<1>4. \A i \in 0..n : g[i] = IF i = 0 THEN <<>> ELSE g[i - 1] \o ps[i]
  <2>1. \A i \in 0..n : i = 0 \/ i \in 1..n
      BY <1>1
  <2>. QED BY <1>3, <2>1, Zenon
<1>5. g = [i \in 0..n |-> IF i = 0 THEN <<>> ELSE g[i - 1] \o ps[i]]
  <2>1. g = [i \in 0..n |-> g[i]]
      OBVIOUS
  <2>. QED BY <1>4, <2>1
<1>6. join = [i \in 0..n |-> IF i = 0 THEN <<>> ELSE join[i - 1] \o ps[i]]
    BY <1>5, Zenon
<1>. HIDE DEF join
<1>7. \A i \in 0..n : join[i] = IF i = 0 THEN <<>> ELSE join[i - 1] \o ps[i]
    BY <1>6, Zenon
<1>. DEFINE T == {i \in 0..n : join[i] # g[i]}
<1>8. T = {}
  <2>1. SUFFICES ASSUME T # {} PROVE FALSE
      OBVIOUS
  <2>2. PICK k \in T : \A j \in T : k <= j
    <3>1. T \subseteq Nat
        BY <1>1
    <3>. HIDE DEF T
    <3>. QED BY <2>1, <3>1, LeastIndex
  <2>3. k # 0
      BY <1>1, <1>3, <1>7
  <2>4. k \in 0..n /\ k - 1 \in 0..n /\ ~(k <= k - 1)
      BY <1>1, <2>3
  <2>5. join[k - 1] = g[k - 1]
      BY <2>2, <2>4
  <2>6. join[k] = g[k]
      BY <1>4, <1>7, <2>3, <2>4, <2>5, Zenon
  <2>. QED BY <2>2, <2>6
<1>9. \A i \in 0..n : join[i] = g[i]
    BY <1>8
<1>10. \A i \in 1..n : i \in 0..n /\ i - 1 \in 0..n
    BY <1>1
<1>. QED
  <2>1. \A i \in 1..n : ps[i] \in Seq(Byte)
      BY <1>1
  <2>2. \A i \in 0..n : join[i] \in Seq(Byte)
      BY <1>9
  <2>3. join[0] = <<>>
      BY <1>1, <1>7
  <2>4. \A i \in 1..n : join[i] = join[i - 1] \o ps[i]
      BY <1>3, <1>9, <1>10
  <2>. QED BY <1>1, <1>2, <2>1, <2>2, <2>3, <2>4 DEF n

(* The places of the bytes of two sequences when they are joined.          *)
LEMMA ConcatBytes ==
    ASSUME NEW a \in Seq(Byte), NEW b \in Seq(Byte), NEW c, c = a \o b
    PROVE  /\ c \in Seq(Byte)
           /\ Len(a) \in Nat /\ Len(b) \in Nat /\ Len(c) = Len(a) + Len(b)
           /\ \A p \in 1..Len(a) : c[p] = a[p]
           /\ \A p \in 1..Len(b) : c[Len(a) + p] = b[p]
<1>. DEFINE m == Len(a)
            n == Len(b)
<1>1. m \in Nat /\ n \in Nat
    BY LenProperties
<1>2. c \in Seq(Byte) /\ Len(c) = m + n
    BY ConcatProperties
<1>3. \A p \in 1..(m + n) : c[p] = IF p <= m THEN a[p] ELSE b[p - m]
    BY ConcatProperties
<1>. HIDE DEF m, n
<1>4. \A p \in 1..m : p \in 1..(m + n) /\ p <= m
    BY <1>1
<1>5. \A p \in 1..n : m + p \in 1..(m + n) /\ ~(m + p <= m) /\ (m + p) - m = p
    BY <1>1
<1>6. \A p \in 1..m : c[p] = a[p]
    BY <1>3, <1>4
<1>7. \A p \in 1..n : c[m + p] = b[p]
    BY <1>3, <1>5
<1>. QED BY <1>1, <1>2, <1>6, <1>7 DEF m, n

(* A join is longer than the one before it by a piece, and its other bytes *)
(* are the same.                                                           *)
LEMMA JoinStep ==
    ASSUME NEW ps \in Seq(Seq(Byte)), NEW i \in 1..Len(ps)
    PROVE  /\ Len(Joins(ps)[i - 1]) \in Nat /\ Len(ps[i]) \in Nat
           /\ Len(Joins(ps)[i]) = Len(Joins(ps)[i - 1]) + Len(ps[i])
           /\ \A p \in 1..Len(Joins(ps)[i - 1]) : Joins(ps)[i][p] = Joins(ps)[i - 1][p]
           /\ \A p \in 1..Len(ps[i]) : Joins(ps)[i][Len(Joins(ps)[i - 1]) + p] = ps[i][p]
<1>1. PICK a : a = Joins(ps)[i - 1]
    OBVIOUS
<1>2. PICK b : b = ps[i]
    OBVIOUS
<1>3. PICK c : c = Joins(ps)[i]
    OBVIOUS
<1>4. /\ Len(ps) \in Nat /\ \A j \in 1..Len(ps) : ps[j] \in Seq(Byte)
      /\ \A j \in 0..Len(ps) : Joins(ps)[j] \in Seq(Byte)
      /\ \A j \in 1..Len(ps) : Joins(ps)[j] = Joins(ps)[j - 1] \o ps[j]
    BY JoinsAre
<1>5. a \in Seq(Byte)
    BY <1>1, <1>4, i - 1 \in 0..Len(ps)
<1>6. b \in Seq(Byte)
    BY <1>2, <1>4
<1>7. c = a \o b
    BY <1>1, <1>2, <1>3, <1>4
<1>8. /\ Len(a) \in Nat /\ Len(b) \in Nat /\ Len(c) = Len(a) + Len(b)
      /\ \A p \in 1..Len(a) : c[p] = a[p]
      /\ \A p \in 1..Len(b) : c[Len(a) + p] = b[p]
    BY <1>5, <1>6, <1>7, ConcatBytes
<1>. QED BY <1>1, <1>2, <1>3, <1>8

(* Bytes joined earlier keep their places.                                 *)
LEMMA JoinsGrow ==
    ASSUME NEW ps \in Seq(Seq(Byte)), NEW i \in 0..Len(ps), NEW k \in 0..Len(ps), i <= k
    PROVE  /\ Len(Joins(ps)[i]) \in Nat /\ Len(Joins(ps)[k]) \in Nat
           /\ Len(Joins(ps)[i]) <= Len(Joins(ps)[k])
           /\ \A p \in 1..Len(Joins(ps)[i]) : Joins(ps)[k][p] = Joins(ps)[i][p]
<1>. DEFINE J == Joins(ps)
            n == Len(ps)
            Keeps(h) == Len(J[i]) <= Len(J[h]) /\ \A p \in 1..Len(J[i]) : J[h][p] = J[i][p]
            T == {h \in i..n : ~Keeps(h)}
<1>1. /\ n \in Nat
      /\ \A h \in 0..n : J[h] \in Seq(Byte)
      /\ \A h \in 1..n : ps[h] \in Seq(Byte) /\ J[h] = J[h - 1] \o ps[h]
    BY JoinsAre
<1>2. \A h \in 0..n : Len(J[h]) \in Nat
    BY <1>1, LenProperties
<1>. HIDE DEF J, n
<1>3. i \in 0..n /\ k \in 0..n
    BY DEF n
<1>4. T = {}
  <2>1. SUFFICES ASSUME T # {} PROVE FALSE
      OBVIOUS
  <2>2. PICK h \in T : \A j \in T : h <= j
    <3>. HIDE DEF Keeps
    <3>1. T \subseteq Nat
        BY <1>1, <1>3
    <3>. HIDE DEF T
    <3>. QED BY <2>1, <3>1, LeastIndex
  <2>3. h \in i..n /\ ~Keeps(h)
      BY <2>2
  <2>4. h # i
    <3>1. Keeps(i)
        BY <1>2, <1>3
    <3>. QED BY <2>3, <3>1
  <2>5. h \in 1..n /\ h - 1 \in i..n /\ h - 1 \in 0..n /\ ~(h <= h - 1)
      BY <1>1, <1>3, <2>3, <2>4
  <2>6. Keeps(h - 1)
    <3>. HIDE DEF Keeps
    <3>. QED BY <2>2, <2>5
  <2>7. J[h - 1] \in Seq(Byte) /\ ps[h] \in Seq(Byte)
      BY <1>1, <2>5
  <2>8. /\ Len(J[h]) = Len(J[h - 1]) + Len(ps[h]) /\ Len(ps[h]) \in Nat
        /\ \A p \in 1..Len(J[h - 1]) : J[h][p] = J[h - 1][p]
    <3>. HIDE DEF Keeps, T
    <3>. QED BY <2>5, JoinStep DEF J, n
  <2>9. Keeps(h)
    <3>1. \A x, y, z \in Nat : x <= y => x <= y + z /\ \A p \in 1..x : p \in 1..y
        OBVIOUS
    <3>2. Len(J[i]) \in Nat /\ Len(J[h - 1]) \in Nat
        BY <1>2, <1>3, <2>5
    <3>3. Len(J[i]) <= Len(J[h]) /\ \A p \in 1..Len(J[i]) : p \in 1..Len(J[h - 1])
        BY <2>6, <2>8, <3>1, <3>2
    <3>. QED BY <2>6, <2>8, <3>3
  <2>. QED BY <2>3, <2>9
<1>5. k \in i..n
    BY <1>1, <1>3
<1>6. Keeps(k)
  <2>. HIDE DEF Keeps
  <2>. QED BY <1>4, <1>5
<1>. QED BY <1>2, <1>3, <1>6 DEF J

(* Where a piece is among the joined bytes.                                *)
LEMMA PieceInJoin ==
    ASSUME NEW ps \in Seq(Seq(Byte)), NEW i \in 1..Len(ps)
    PROVE  \A j \in 1..Len(ps[i]) : Join(ps)[Len(Joins(ps)[i - 1]) + j] = ps[i][j]
<1>. DEFINE J == Joins(ps)
            n == Len(ps)
<1>1. n \in Nat
    BY JoinsAre
<1>2. i \in 1..n /\ i \in 0..n /\ n \in 0..n /\ i - 1 \in 0..n /\ i <= n
    BY <1>1
<1>3. /\ Len(J[i - 1]) \in Nat /\ Len(ps[i]) \in Nat /\ Len(J[i]) = Len(J[i - 1]) + Len(ps[i])
      /\ \A p \in 1..Len(ps[i]) : J[i][Len(J[i - 1]) + p] = ps[i][p]
    BY JoinStep
<1>4. \A p \in 1..Len(J[i]) : J[n][p] = J[i][p]
    BY <1>2, JoinsGrow
<1>5. Join(ps) = J[n]
    BY DEF Join
<1>. HIDE DEF J, n
<1>6. ASSUME NEW j \in 1..Len(ps[i]) PROVE Join(ps)[Len(J[i - 1]) + j] = ps[i][j]
  <2>1. \A x, y \in Nat : \A p \in 1..y : x + p \in 1..(x + y)
      OBVIOUS
  <2>2. Len(J[i - 1]) + j \in 1..Len(J[i])
      BY <1>3, <2>1
  <2>. QED BY <1>3, <1>4, <1>5, <2>2
<1>. QED BY <1>6 DEF J

-----------------------------------------------------------------------------
(* MessageReader: segments and payloads in what was sent *)

(* Every joined byte belongs to a piece.                                   *)
LEMMA PlaceInJoin ==
    ASSUME NEW ps \in Seq(Seq(Byte)), NEW p \in 1..Len(Join(ps))
    PROVE  \E i \in 1..Len(ps) : Len(Joins(ps)[i - 1]) < p /\ p <= Len(Joins(ps)[i])
<1>. DEFINE J == Joins(ps)
            n == Len(ps)
            T == {i \in 0..n : p <= Len(J[i])}
<1>1. /\ n \in Nat /\ \A i \in 0..n : J[i] \in Seq(Byte)
      /\ J[0] = <<>> /\ Join(ps) = J[n]
    BY JoinsAre DEF Join
<1>2. \A i \in 0..n : Len(J[i]) \in Nat
    BY <1>1, LenProperties
<1>3. Len(J[0]) = 0 /\ p \in 1..Len(J[n])
    BY <1>1
<1>. HIDE DEF J, n
<1>4. PICK i \in T : \A j \in T : i <= j
  <2>1. T \subseteq Nat
      BY <1>1
  <2>2. n \in T
      BY <1>1, <1>2, <1>3
  <2>. HIDE DEF T
  <2>. QED BY <2>1, <2>2, LeastIndex
<1>5. i \in 0..n /\ p <= Len(J[i]) /\ p \in Nat /\ 1 <= p
    BY <1>1, <1>2, <1>3
<1>6. i # 0
    BY <1>3, <1>5
<1>7. i \in 1..n /\ i - 1 \in 0..n /\ i - 1 \notin T
    BY <1>1, <1>4, <1>5, <1>6
<1>8. Len(J[i - 1]) < p
    BY <1>2, <1>5, <1>7
<1>. QED BY <1>5, <1>7, <1>8 DEF J, n

(* What the node sent, with the headers and without, and how far its first *)
(* segments go without.                                                    *)
Whole == Bytes(segs)
Body == Join(segs)
BodyEnd(i) == Len(Joins(segs)[i])

(* The payloads in what was sent.                                          *)
LEMMA BodyIs ==
    ASSUME segs \in Seq(Seq(Byte))
    PROVE  /\ Len(segs) \in Nat /\ Body \in Seq(Byte) /\ Len(Body) \in Nat
           /\ BodyEnd(0) = 0 /\ BodyEnd(Len(segs)) = Len(Body)
           /\ \A i \in 0..Len(segs) : BodyEnd(i) \in Nat /\ BodyEnd(i) <= Len(Body)
           /\ \A i \in 1..Len(segs) :
                /\ segs[i] \in Seq(Byte) /\ Len(segs[i]) \in Nat
                /\ BodyEnd(i) = BodyEnd(i - 1) + Len(segs[i])
                /\ \A j \in 1..Len(segs[i]) : Body[BodyEnd(i - 1) + j] = segs[i][j]
<1>1. /\ Len(segs) \in Nat /\ \A i \in 1..Len(segs) : segs[i] \in Seq(Byte)
      /\ \A i \in 0..Len(segs) : Joins(segs)[i] \in Seq(Byte)
      /\ Joins(segs)[0] = <<>>
    BY JoinsAre
<1>2. Len(segs) \in 0..Len(segs)
    BY <1>1
<1>3. Body \in Seq(Byte) /\ BodyEnd(0) = 0 /\ BodyEnd(Len(segs)) = Len(Body)
    BY <1>1, <1>2 DEF Body, Join, BodyEnd
<1>4. Len(Body) \in Nat
    BY <1>3, LenProperties
<1>5. \A i \in 0..Len(segs) : BodyEnd(i) \in Nat /\ BodyEnd(i) <= Len(Body)
  <2>1. \A i \in 0..Len(segs) : i <= Len(segs)
      BY <1>1
  <2>. QED BY <1>2, <1>3, <2>1, JoinsGrow DEF BodyEnd
<1>6. \A i \in 1..Len(segs) : Len(segs[i]) \in Nat /\ BodyEnd(i) = BodyEnd(i - 1) + Len(segs[i])
    BY JoinStep DEF BodyEnd
<1>7. \A i \in 1..Len(segs) : \A j \in 1..Len(segs[i]) : Body[BodyEnd(i - 1) + j] = segs[i][j]
    BY PieceInJoin DEF Body, BodyEnd
<1>. QED BY <1>1, <1>3, <1>4, <1>5, <1>6, <1>7

(* A header of a segment says how long its payload is.                     *)
LEMMA HeaderIs ==
    ASSUME NEW s \in Seq(Byte)
    PROVE  /\ Header(s) \in Seq(Byte) /\ Len(Header(s)) = 8
           /\ \A k \in 1..8 : Header(s)[k] = <<0, Len(s)>>
<1>1. Len(s) \in Nat
    BY LenProperties
<1>2. <<0, Len(s)>> \in Byte
    BY <1>1 DEF Byte
<1>3. PICK b : b = <<0, Len(s)>>
    OBVIOUS
<1>4. b \in Byte /\ Header(s) = [i \in 1..8 |-> b]
    BY <1>2, <1>3 DEF Header, HeaderSize
<1>5. Header(s) \in [1..8 -> Byte]
    BY <1>4
<1>6. 8 \in Nat
    OBVIOUS
<1>7. Seq(Byte) = UNION {[1..m -> Byte] : m \in Nat}
    BY SeqDef
<1>8. Header(s) \in Seq(Byte)
    BY <1>5, <1>6, <1>7, Zenon
<1>9. Len(Header(s)) = 8
  <2>1. DOMAIN Header(s) = 1..8
      BY <1>4
  <2>. QED BY <1>8, <2>1, LenProperties
<1>. QED BY <1>3, <1>4, <1>8, <1>9

(* A segment on the wire is its header and its payload.                    *)
LEMMA FramesAre ==
    ASSUME segs \in Seq(Seq(Byte))
    PROVE  /\ Frames(segs) \in Seq(Seq(Byte)) /\ Len(Frames(segs)) = Len(segs)
           /\ \A i \in 1..Len(segs) :
                /\ Len(Frames(segs)[i]) = 8 + Len(segs[i])
                /\ \A k \in 1..8 : Frames(segs)[i][k] = <<0, Len(segs[i])>>
                /\ \A j \in 1..Len(segs[i]) : Frames(segs)[i][8 + j] = segs[i][j]
<1>. DEFINE n == Len(segs)
            F == Frames(segs)
<1>1. n \in Nat /\ \A i \in 1..n : segs[i] \in Seq(Byte)
    BY BodyIs
<1>2. F = [i \in 1..n |-> Header(segs[i]) \o segs[i]]
    BY DEF Frames
<1>. HIDE DEF n, F
<1>3. ASSUME NEW i \in 1..n
      PROVE  /\ F[i] \in Seq(Byte)
             /\ Len(F[i]) = 8 + Len(segs[i])
             /\ \A k \in 1..8 : F[i][k] = <<0, Len(segs[i])>>
             /\ \A j \in 1..Len(segs[i]) : F[i][8 + j] = segs[i][j]
  <2>1. PICK s : s = segs[i]
      OBVIOUS
  <2>2. PICK c : c = F[i]
      OBVIOUS
  <2>3. PICK h : h = Header(s)
      OBVIOUS
  <2>4. s \in Seq(Byte)
      BY <1>1, <2>1
  <2>5. h \in Seq(Byte) /\ Len(h) = 8 /\ \A k \in 1..8 : h[k] = <<0, Len(s)>>
      BY <2>3, <2>4, HeaderIs
  <2>6. h \in Seq(Byte)
      BY <2>5
  <2>7. c = h \o s
      BY <1>2, <2>1, <2>2, <2>3
  <2>8. /\ c \in Seq(Byte) /\ Len(c) = Len(h) + Len(s)
        /\ \A p \in 1..Len(h) : c[p] = h[p]
        /\ \A p \in 1..Len(s) : c[Len(h) + p] = s[p]
      BY <2>4, <2>6, <2>7, ConcatBytes
  <2>9. /\ c \in Seq(Byte) /\ Len(c) = 8 + Len(s)
        /\ \A p \in 1..8 : c[p] = <<0, Len(s)>>
        /\ \A p \in 1..Len(s) : c[8 + p] = s[p]
      BY <2>5, <2>8
  <2>. QED BY <2>1, <2>2, <2>9
<1>4. F \in [1..n -> Seq(Byte)]
    BY <1>2, <1>3
<1>5. F \in Seq(Seq(Byte))
  <2>1. Seq(Seq(Byte)) = UNION {[1..m -> Seq(Byte)] : m \in Nat}
      BY SeqDef
  <2>. QED BY <1>1, <1>4, <2>1, Zenon
<1>6. Len(F) = n
  <2>1. DOMAIN F = 1..n
      BY <1>2
  <2>. QED BY <1>1, <1>5, <2>1, LenProperties
<1>. QED BY <1>3, <1>5, <1>6 DEF n, F

(* The segments in what was sent.                                          *)
LEMMA WholeIs ==
    ASSUME segs \in Seq(Seq(Byte))
    PROVE  /\ Whole \in Seq(Byte) /\ Len(Whole) \in Nat
           /\ WireEnd(0) = 0 /\ WireEnd(Len(segs)) = Len(Whole)
           /\ \A i \in 0..Len(segs) : WireEnd(i) \in Nat /\ WireEnd(i) <= Len(Whole)
           /\ \A i \in 1..Len(segs) :
                /\ WireEnd(i) = WireEnd(i - 1) + 8 + Len(segs[i])
                /\ \A k \in 1..8 : Whole[WireEnd(i - 1) + k] = <<0, Len(segs[i])>>
                /\ \A j \in 1..Len(segs[i]) : Whole[WireEnd(i - 1) + 8 + j] = segs[i][j]
<1>. DEFINE n == Len(segs)
            F == Frames(segs)
<1>1. F \in Seq(Seq(Byte))
    BY FramesAre
<1>2. /\ Len(F) = n
      /\ \A i \in 1..n :
           /\ Len(F[i]) = 8 + Len(segs[i])
           /\ \A k \in 1..8 : F[i][k] = <<0, Len(segs[i])>>
           /\ \A j \in 1..Len(segs[i]) : F[i][8 + j] = segs[i][j]
    BY FramesAre
<1>3. n \in Nat /\ \A i \in 1..n : Len(segs[i]) \in Nat
    BY BodyIs
<1>4. Whole = Joins(F)[n]
    BY <1>2 DEF Whole, Bytes, Join
<1>5. \A i \in 0..n : Joins(F)[i] \in Seq(Byte)
  <2>. HIDE DEF F
  <2>. QED BY <1>1, <1>2, JoinsAre
<1>6. Joins(F)[0] = <<>>
  <2>. HIDE DEF F
  <2>. QED BY <1>1, JoinsAre
<1>7. Whole \in Seq(Byte) /\ WireEnd(0) = 0 /\ WireEnd(n) = Len(Whole)
    BY <1>3, <1>4, <1>5, <1>6 DEF WireEnd
<1>8. Len(Whole) \in Nat
    BY <1>7, LenProperties
<1>9. \A i \in 0..n : WireEnd(i) \in Nat /\ WireEnd(i) <= Len(Whole)
  <2>1. \A i \in 0..n : i <= n /\ n \in 0..n
      BY <1>3
  <2>2. \A i \in 0..n : Len(Joins(F)[i]) \in Nat /\ Len(Joins(F)[i]) <= Len(Joins(F)[n])
    <3>. HIDE DEF F, n
    <3>. QED BY <1>1, <1>2, <2>1, JoinsGrow
  <2>. QED BY <1>4, <2>2 DEF WireEnd
<1>10. ASSUME NEW i \in 1..n
       PROVE  /\ WireEnd(i) = WireEnd(i - 1) + 8 + Len(segs[i])
              /\ \A k \in 1..8 : Whole[WireEnd(i - 1) + k] = <<0, Len(segs[i])>>
              /\ \A j \in 1..Len(segs[i]) : Whole[WireEnd(i - 1) + 8 + j] = segs[i][j]
  <2>1. /\ Len(Joins(F)[i - 1]) \in Nat
        /\ Len(Joins(F)[i]) = Len(Joins(F)[i - 1]) + Len(F[i])
    <3>. HIDE DEF F, n
    <3>1. i \in 1..Len(F)
        BY <1>2
    <3>. QED BY <1>1, <3>1, JoinStep
  <2>2. \A j \in 1..Len(F[i]) : Join(F)[Len(Joins(F)[i - 1]) + j] = F[i][j]
    <3>. HIDE DEF F, n
    <3>1. i \in 1..Len(F)
        BY <1>2
    <3>. QED BY <1>1, <3>1, PieceInJoin
  <2>3. Whole = Join(F)
      BY DEF Whole, Bytes
  <2>4. PICK e : e = WireEnd(i - 1)
      OBVIOUS
  <2>5. PICK l : l = Len(segs[i])
      OBVIOUS
  <2>6. /\ e \in Nat /\ l \in Nat /\ WireEnd(i) = e + (8 + l)
        /\ \A j \in 1..(8 + l) : Whole[e + j] = F[i][j]
      BY <1>2, <1>3, <2>1, <2>2, <2>3, <2>4, <2>5 DEF WireEnd
  <2>7. \A k \in 1..8 : Whole[e + k] = <<0, l>>
    <3>1. \A k \in 1..8 : k \in 1..(8 + l)
        BY <2>6
    <3>. HIDE DEF F
    <3>. QED BY <1>2, <2>5, <2>6, <3>1
  <2>8. \A j \in 1..l : Whole[e + 8 + j] = segs[i][j]
    <3>1. \A j \in 1..l : 8 + j \in 1..(8 + l) /\ e + (8 + j) = e + 8 + j
        BY <2>6
    <3>2. \A j \in 1..l : F[i][8 + j] = segs[i][j]
      <4>. HIDE DEF F
      <4>. QED BY <1>2, <2>5
    <3>. HIDE DEF F
    <3>. QED BY <2>6, <3>1, <3>2
  <2>9. WireEnd(i) = e + 8 + l
      BY <2>6
  <2>. QED BY <2>4, <2>5, <2>7, <2>8, <2>9
<1>. QED BY <1>7, <1>8, <1>9, <1>10

-----------------------------------------------------------------------------
(* MessageReader: parts of what was sent *)

(* s is the part of t behind its first n bytes.                            *)
IsSlice(s, t, n) ==
    /\ n \in Nat /\ n + Len(s) <= Len(t)
    /\ \A j \in 1..Len(s) : s[j] = t[n + j]

(* The first bytes of a sequence.                                          *)
LEMMA HeadOfBytes ==
    ASSUME NEW s \in Seq(Byte), NEW k \in Nat, k <= Len(s)
    PROVE  /\ SubSeq(s, 1, k) \in Seq(Byte) /\ Len(SubSeq(s, 1, k)) = k
           /\ \A j \in 1..k : SubSeq(s, 1, k)[j] = s[j]
<1>1. Len(s) \in Nat /\ \A j \in 1..Len(s) : s[j] \in Byte
    BY LenProperties, ElementOfSeq
<1>2. 1 \in Int /\ k \in Int /\ \A j \in 1..k : s[j] \in Byte
    BY <1>1
<1>3. PICK h : h = SubSeq(s, 1, k)
    OBVIOUS
<1>4. /\ h \in Seq(Byte) /\ Len(h) = (IF 1 <= k THEN k - 1 + 1 ELSE 0)
      /\ \A j \in 1..(k - 1 + 1) : h[j] = s[1 + j - 1]
    BY <1>2, <1>3, SubSeqProperties
<1>5. k - 1 + 1 = k /\ \A j \in 1..k : 1 + j - 1 = j
    OBVIOUS
<1>6. h \in Seq(Byte) /\ Len(h) = k /\ \A j \in 1..k : h[j] = s[j]
    BY <1>4, <1>5
<1>. QED BY <1>3, <1>6

(* What is left of a sequence without its first bytes.                     *)
LEMMA RestOfBytes ==
    ASSUME NEW s \in Seq(Byte), NEW k \in Nat, k <= Len(s)
    PROVE  /\ From(s, k + 1) \in Seq(Byte) /\ Len(From(s, k + 1)) = Len(s) - k
           /\ \A j \in 1..(Len(s) - k) : From(s, k + 1)[j] = s[k + j]
<1>1. Len(s) \in Nat /\ \A j \in 1..Len(s) : s[j] \in Byte
    BY LenProperties, ElementOfSeq
<1>2. PICK m \in Int : m = Len(s)
    BY <1>1
<1>3. PICK l \in Int : l = k + 1
    OBVIOUS
<1>4. \A j \in l..m : s[j] \in Byte
    BY <1>1, <1>2, <1>3
<1>5. PICK r : r = From(s, k + 1)
    OBVIOUS
<1>6. r = SubSeq(s, l, m)
    BY <1>2, <1>3, <1>5 DEF From
<1>7. /\ r \in Seq(Byte) /\ Len(r) = (IF l <= m THEN m - l + 1 ELSE 0)
      /\ \A j \in 1..(m - l + 1) : r[j] = s[l + j - 1]
    BY <1>4, <1>6, SubSeqProperties
<1>8. m - l + 1 = m - k /\ \A j \in 1..(m - k) : l + j - 1 = k + j
    BY <1>3
<1>9. k <= m
    BY <1>2
<1>10. Len(r) = m - k /\ \A j \in 1..(m - k) : r[j] = s[k + j]
    BY <1>3, <1>7, <1>8, <1>9
<1>. QED BY <1>2, <1>5, <1>7, <1>10

(* The first bytes of a part are a part.                                   *)
LEMMA SliceHead ==
    ASSUME NEW s, Len(s) \in Nat, NEW t, Len(t) \in Nat, NEW n, IsSlice(s, t, n),
           NEW h, NEW k \in Nat, k <= Len(s), Len(h) = k, \A j \in 1..k : h[j] = s[j]
    PROVE  IsSlice(h, t, n)
<1>1. n \in Nat /\ n + Len(s) <= Len(t) /\ \A j \in 1..Len(s) : s[j] = t[n + j]
    BY DEF IsSlice
<1>2. n + k <= Len(t) /\ \A j \in 1..k : j \in 1..Len(s)
    BY <1>1
<1>. QED BY <1>1, <1>2 DEF IsSlice

(* And so is what is left.                                                 *)
LEMMA SliceRest ==
    ASSUME NEW s, Len(s) \in Nat, NEW t, Len(t) \in Nat, NEW n, IsSlice(s, t, n),
           NEW r, NEW k \in Nat, k <= Len(s), Len(r) = Len(s) - k,
           \A j \in 1..(Len(s) - k) : r[j] = s[k + j]
    PROVE  IsSlice(r, t, n + k)
<1>1. PICK m \in Nat : m = Len(s)
    OBVIOUS
<1>2. n \in Nat /\ n + m <= Len(t) /\ \A j \in 1..m : s[j] = t[n + j]
    BY <1>1 DEF IsSlice
<1>3. k <= m /\ Len(r) = m - k
    BY <1>1
<1>4. \A j \in 1..(m - k) : k + j \in 1..m /\ n + (k + j) = n + k + j
    BY <1>2, <1>3
<1>5. n + k \in Nat /\ (n + k) + (m - k) <= Len(t)
    BY <1>2, <1>3
<1>6. \A j \in 1..(m - k) : r[j] = t[n + k + j]
    BY <1>1, <1>2, <1>4
<1>. QED BY <1>3, <1>5, <1>6 DEF IsSlice

(* Two parts that follow one another are a part.                           *)
LEMMA SliceJoined ==
    ASSUME NEW a \in Seq(Byte), NEW b \in Seq(Byte), NEW c, c = a \o b,
           NEW t, Len(t) \in Nat, NEW n, IsSlice(a, t, n), NEW k, k = n + Len(a), IsSlice(b, t, k)
    PROVE  IsSlice(c, t, n)
<1>. DEFINE x == Len(a)
            y == Len(b)
<1>1. /\ x \in Nat /\ y \in Nat /\ Len(c) = x + y
      /\ \A p \in 1..x : c[p] = a[p]
      /\ \A p \in 1..y : c[x + p] = b[p]
    BY ConcatBytes
<1>2. /\ n \in Nat /\ k + y <= Len(t) /\ k = n + x
      /\ \A j \in 1..x : a[j] = t[n + j]
      /\ \A j \in 1..y : b[j] = t[k + j]
    BY DEF IsSlice
<1>. HIDE DEF x, y
<1>3. n + (x + y) <= Len(t)
    BY <1>1, <1>2
<1>4. ASSUME NEW j \in 1..(x + y) PROVE c[j] = t[n + j]
  <2>1. CASE j <= x
      BY <1>1, <1>2, <2>1
  <2>2. CASE ~(j <= x)
    <3>1. PICK i \in 1..y : j = x + i
      <4>1. j - x \in 1..y /\ j = x + (j - x)
          BY <1>1, <2>2
      <4>. QED BY <4>1
    <3>2. k + i = n + j
      <4>1. \A u, v, w \in Nat : (u + v) + w = u + (v + w)
          OBVIOUS
      <4>2. i \in Nat
          BY <1>1
      <4>3. k = n + x /\ j = x + i
          BY <1>2, <3>1
      <4>4. n \in Nat /\ x \in Nat
          BY <1>1, <1>2
      <4>5. (n + x) + i = n + (x + i)
          BY <4>1, <4>2, <4>4
      <4>. QED BY <4>3, <4>5
    <3>. QED BY <1>1, <1>2, <3>1, <3>2
  <2>. QED BY <2>1, <2>2
<1>. QED BY <1>1, <1>2, <1>3, <1>4 DEF IsSlice

(* Nothing is a part everywhere.                                           *)
LEMMA EmptySlice ==
    ASSUME NEW t, Len(t) \in Nat, NEW n \in 0..Len(t)
    PROVE  IsSlice(<<>>, t, n)
<1>1. Len(<<>>) = 0 /\ n \in Nat /\ n + 0 <= Len(t)
    OBVIOUS
<1>. QED BY <1>1 DEF IsSlice

(* A part of the same length is all there is.                              *)
LEMMA WholeSlice ==
    ASSUME NEW s \in Seq(Byte), NEW t \in Seq(Byte), IsSlice(s, t, 0), Len(s) = Len(t)
    PROVE  s = t
<1>. DEFINE m == Len(t)
<1>1. m \in Nat /\ s \in [1..m -> Byte] /\ t \in [1..m -> Byte]
    BY LenProperties
<1>2. \A j \in 1..m : s[j] = t[0 + j]
    BY DEF IsSlice
<1>. HIDE DEF m
<1>3. \A j \in 1..m : s[j] = t[j]
    BY <1>1, <1>2
<1>. QED BY <1>1, <1>3

-----------------------------------------------------------------------------
(* MessageReader: the bytes at hand *)

(* The buffers hold bytes, and the payload of a segment does not grow past *)
(* its length.                                                             *)
BuffersOK ==
    /\ wire \in Seq(Byte) /\ data \in Seq(Byte)
    /\ partial \in Seq(Byte) /\ buffer \in Seq(Byte)
    /\ length \in Nat /\ Len(buffer) <= length

(* Where the bytes at hand are in what was sent.                           *)
DataAt == Len(Whole) - Len(wire) - Len(data)
HeaderAt == DataAt - Len(partial)

(* The bytes the reader was not given yet, those of the current read and   *)
(* the kept header follow one another up to the end of what was sent.      *)
(* They begin with segment s + 1, or behind the part of its payload that   *)
(* is in the buffer.                                                       *)
FramesOK(s) ==
    /\ IsSlice(wire, Whole, Len(Whole) - Len(wire))
    /\ IsSlice(data, Whole, DataAt)
    /\ IsSlice(partial, Whole, HeaderAt)
    /\ IF mode = "read" /\ buffer # <<>>
         THEN /\ s < Len(segs) /\ partial = <<>>
              /\ length = Len(segs[s + 1]) /\ Len(buffer) < length
              /\ IsSlice(buffer, segs[s + 1], 0)
              /\ HeaderAt = WireEnd(s) + 8 + Len(buffer)
         ELSE HeaderAt = WireEnd(s)

(* The places of the bytes that a segment takes.                           *)
LEMMA FillPlaces ==
    ASSUME NEW n \in Nat, NEW x \in Nat, NEW y \in Nat, NEW f \in Nat, f <= y, x + f <= n,
           NEW v \in Nat, NEW w \in Nat, NEW u \in Nat, NEW e \in Nat,
           e = v + 8 + x, e + y = w - u
    PROVE  /\ \A p \in 1..f : p \in 1..y /\ x + p \in 1..n /\ e + p = v + 8 + (x + p)
           /\ w - u - (y - f) = e + f /\ e + f \in 0..w /\ e + f = v + 8 + (x + f)
  OBVIOUS

(* A segment that is filled goes on, or is complete with its own payload.  *)
LEMMA FillFrames ==
    ASSUME BuffersOK, segs \in Seq(Seq(Byte)), NEW s \in 0..Len(segs), s < Len(segs),
           NEW body \in Seq(Byte), body # <<>>, mode = "read",
           IsSlice(wire, Whole, Len(Whole) - Len(wire)),
           IsSlice(body, Whole, WireEnd(s) + 8 + Len(buffer)),
           WireEnd(s) + 8 + Len(buffer) + Len(body) = Len(Whole) - Len(wire),
           IsSlice(buffer, segs[s + 1], 0), Len(buffer) <= Len(segs[s + 1]),
           Fill(body, Len(segs[s + 1])), partial' = <<>>
    PROVE  \/ mode' = "read" /\ pending' = pending /\ FramesOK(s)'
           \/ /\ mode' = IF batching THEN "blocks" ELSE "messages"
              /\ pending' = IF batching THEN pending \o segs[s + 1] ELSE segs[s + 1]
              /\ FramesOK(s + 1)'
<1>1. /\ wire \in Seq(Byte) /\ buffer \in Seq(Byte)
      /\ Len(wire) \in Nat /\ Len(buffer) \in Nat /\ Len(body) \in Nat
    BY LenProperties DEF BuffersOK
<1>2. PICK seg : seg = segs[s + 1]
    OBVIOUS
<1>3. /\ Len(segs) \in Nat /\ s + 1 \in 1..Len(segs) /\ s + 1 - 1 = s /\ s \in 0..Len(segs)
      /\ s + 1 \in 0..Len(segs)
    BY BodyIs
<1>4. seg \in Seq(Byte) /\ Len(seg) \in Nat
    BY <1>2, <1>3, BodyIs
<1>5. /\ WireEnd(s) \in Nat /\ WireEnd(s + 1) = WireEnd(s) + 8 + Len(seg)
      /\ Len(Whole) \in Nat /\ WireEnd(s + 1) <= Len(Whole)
    BY <1>2, <1>3, WholeIs
<1>6. Len(body) # 0
    BY EmptySeq
<1>. DEFINE n == Len(seg)
            x == Len(buffer)
            y == Len(body)
            fill == IF n - x > y THEN y ELSE n - x
            piece == SubSeq(body, 1, fill)
            rest == From(body, fill + 1)
            full == buffer \o piece
<1>7. /\ length' = n /\ buffer' = full /\ data' = rest
      /\ IF Len(full) = n
           THEN /\ pending' = (IF batching THEN pending \o full ELSE full)
                /\ mode' = (IF batching THEN "blocks" ELSE "messages")
           ELSE pending' = pending /\ mode' = mode
      /\ segs' = segs /\ wire' = wire
    BY <1>2 DEF Fill, streamVars
<1>8. n \in Nat /\ x \in Nat /\ y \in Nat /\ x <= n /\ y # 0
    BY <1>1, <1>2, <1>4, <1>6
<1>9. fill \in Nat /\ fill <= y /\ x + fill <= n /\ (x + fill # n => fill = y)
    BY <1>8
<1>. HIDE DEF fill, full
<1>10. /\ piece \in Seq(Byte) /\ Len(piece) = fill
       /\ \A j \in 1..fill : piece[j] = body[j]
    BY <1>9, HeadOfBytes
<1>11. /\ rest \in Seq(Byte) /\ Len(rest) = y - fill
       /\ \A j \in 1..(y - fill) : rest[j] = body[fill + j]
    BY <1>9, RestOfBytes
<1>. HIDE DEF piece, rest
<1>12. PICK v \in Nat, w \in Nat, u \in Nat, e \in Nat :
            /\ v = WireEnd(s) /\ w = Len(Whole) /\ u = Len(wire)
            /\ e = v + 8 + x /\ e + y = w - u
            /\ WireEnd(s + 1) = v + 8 + n /\ WireEnd(s + 1) <= w
  <2>1. WireEnd(s) + 8 + x \in Nat
      BY <1>5, <1>8, SMTT(40)
  <2>. QED BY <1>1, <1>5, <2>1
<1>13. IsSlice(body, Whole, e)
    BY <1>12
<1>. HIDE DEF n, x, y
<1>14. /\ \A p \in 1..fill : p \in 1..y /\ x + p \in 1..n /\ e + p = v + 8 + (x + p)
       /\ w - u - (y - fill) = e + fill /\ e + fill \in 0..w /\ e + fill = v + 8 + (x + fill)
  <2>1. n \in Nat /\ x \in Nat /\ y \in Nat /\ fill \in Nat
      BY <1>8, <1>9
  <2>2. fill <= y /\ x + fill <= n
      BY <1>9
  <2>3. e = v + 8 + x /\ e + y = w - u
      BY <1>12
  <2>. QED BY <2>1, <2>2, <2>3, FillPlaces
<1>15. IsSlice(rest, Whole, e + fill)
    BY <1>5, <1>8, <1>9, <1>11, <1>13, SliceRest DEF y
<1>16. IsSlice(full, seg, 0) /\ full \in Seq(Byte) /\ Len(full) = x + fill
  <2>1. full = buffer \o piece
      BY DEF full
  <2>2. /\ full \in Seq(Byte) /\ Len(full) = x + fill
        /\ \A p \in 1..x : full[p] = buffer[p]
        /\ \A p \in 1..fill : full[x + p] = piece[p]
    <3>1. buffer \in Seq(Byte)
        BY <1>1
    <3>2. piece \in Seq(Byte)
        BY <1>10
    <3>3. /\ full \in Seq(Byte) /\ Len(full) = Len(buffer) + Len(piece)
          /\ \A p \in 1..Len(buffer) : full[p] = buffer[p]
          /\ \A p \in 1..Len(piece) : full[Len(buffer) + p] = piece[p]
        BY <2>1, <3>1, <3>2, ConcatBytes
    <3>. QED BY <1>10, <3>3 DEF x
  <2>3. \A p \in 1..x : buffer[p] = seg[p]
    <3>1. \A p \in 1..x : buffer[p] = seg[0 + p]
        BY <1>2 DEF IsSlice, x
    <3>2. \A p \in 1..x : 0 + p = p
        OBVIOUS
    <3>. QED BY <3>1, <3>2
  <2>4. ASSUME NEW p \in 1..fill PROVE piece[p] = seg[x + p]
    <3>1. p \in 1..y /\ x + p \in 1..n /\ e + p = v + 8 + (x + p)
        BY <1>14
    <3>2. body[p] = Whole[e + p]
        BY <1>13, <3>1 DEF IsSlice, y
    <3>3. Whole[v + 8 + (x + p)] = seg[x + p]
      <4>1. \A j \in 1..Len(segs[s + 1]) : Whole[WireEnd(s + 1 - 1) + 8 + j] = segs[s + 1][j]
          BY <1>3, WholeIs, SMTT(40)
      <4>. QED BY <1>2, <1>3, <1>12, <3>1, <4>1 DEF n
    <3>. QED BY <1>10, <3>1, <3>2, <3>3
  <2>5. ASSUME NEW j \in 1..(x + fill) PROVE full[j] = seg[0 + j]
    <3>1. 0 + j = j
        BY <1>8, <1>9
    <3>2. CASE j <= x
        BY <1>8, <1>9, <2>2, <2>3, <3>1, <3>2, SMTT(40)
    <3>3. CASE ~(j <= x)
      <4>1. PICK p \in 1..fill : j = x + p
        <5>1. j - x \in 1..fill /\ j = x + (j - x)
            BY <1>8, <1>9, <3>3
        <5>. QED BY <5>1
      <4>. QED BY <2>2, <2>4, <3>1, <4>1
    <3>. QED BY <3>2, <3>3
  <2>6. 0 \in Nat /\ 0 + (x + fill) <= n
      BY <1>8, <1>9
  <2>. QED BY <2>2, <2>5, <2>6 DEF IsSlice, n
<1>17. /\ Whole' = Whole /\ WireEnd(s)' = WireEnd(s) /\ WireEnd(s + 1)' = WireEnd(s + 1)
       /\ segs'[s + 1] = seg /\ Len(segs') = Len(segs)
    BY <1>2, <1>7 DEF Whole, WireEnd
<1>18. DataAt' = e + fill /\ HeaderAt' = e + fill
  <2>1. /\ DataAt' = Len(Whole) - Len(wire) - Len(rest)
        /\ HeaderAt' = DataAt' - Len(<<>>)
      BY <1>7, <1>17 DEF DataAt, HeaderAt
  <2>2. DataAt' = w - u - (y - fill)
      BY <1>11, <1>12, <2>1
  <2>3. Len(<<>>) = 0
      OBVIOUS
  <2>4. DataAt' = e + fill
      BY <1>14, <2>2
  <2>. QED BY <1>9, <2>1, <2>3, <2>4, SMTT(40)
<1>19. /\ IsSlice(wire', Whole', Len(Whole') - Len(wire'))
       /\ IsSlice(data', Whole', DataAt')
       /\ IsSlice(partial', Whole', HeaderAt')
  <2>1. e + fill \in 0..Len(Whole)
      BY <1>12, <1>14
  <2>2. IsSlice(<<>>, Whole, e + fill)
      BY <1>5, <2>1, EmptySlice
  <2>. QED BY <1>7, <1>15, <1>17, <1>18, <2>2
<1>20. CASE Len(full) # n
  <2>1. mode' = "read" /\ pending' = pending
      BY <1>7, <1>20
  <2>2. fill = y /\ Len(full) # 0 /\ Len(full) < n
      BY <1>8, <1>9, <1>16, <1>20
  <2>3. buffer' # <<>>
      BY <1>7, <2>2
  <2>4. e + fill = WireEnd(s) + 8 + Len(full)
      BY <1>12, <1>16, <1>14
  <2>5. FramesOK(s)'
      BY <1>7, <1>16, <1>17, <1>18, <1>19, <2>2, <2>3, <2>4 DEF FramesOK, n
  <2>. QED BY <2>1, <2>5
<1>21. CASE Len(full) = n
  <2>1. full = seg
    <3>1. full \in Seq(Byte)
        BY <1>16
    <3>. QED BY <1>4, <1>16, <1>21, <3>1, WholeSlice DEF n
  <2>2. /\ mode' = (IF batching THEN "blocks" ELSE "messages")
        /\ pending' = (IF batching THEN pending \o seg ELSE seg)
      BY <1>7, <1>21, <2>1
  <2>3. mode' # "read"
      BY <2>2
  <2>4. e + fill = WireEnd(s + 1)
      BY <1>12, <1>16, <1>21, <1>14
  <2>5. FramesOK(s + 1)'
      BY <1>17, <1>18, <1>19, <2>3, <2>4 DEF FramesOK
  <2>. QED BY <1>2, <2>2, <2>5
<1>. QED BY <1>20, <1>21

(* A read is given the bytes that come next.                               *)
LEMMA ReadFrames ==
    ASSUME BuffersOK, segs \in Seq(Seq(Byte)), NEW s \in 0..Len(segs), FramesOK(s),
           NEW n \in 1..Len(wire), Read(n)
    PROVE  FramesOK(s)'
<1>1. wire \in Seq(Byte) /\ Len(wire) \in Nat /\ Len(Whole) \in Nat /\ Len(partial) \in Nat
    BY LenProperties, WholeIs DEF BuffersOK
<1>2. /\ data = <<>> /\ data' = SubSeq(wire, 1, n) /\ wire' = From(wire, n + 1)
      /\ segs' = segs /\ partial' = partial /\ buffer' = buffer /\ length' = length /\ mode' = mode
    BY DEF Read, streamVars, readerVars
<1>3. n \in Nat /\ n <= Len(wire)
    BY <1>1
<1>4. data' \in Seq(Byte) /\ Len(data') = n /\ \A j \in 1..n : data'[j] = wire[j]
    BY <1>1, <1>2, <1>3, HeadOfBytes
<1>5. /\ wire' \in Seq(Byte) /\ Len(wire') = Len(wire) - n
      /\ \A j \in 1..(Len(wire) - n) : wire'[j] = wire[n + j]
    BY <1>1, <1>2, <1>3, RestOfBytes
<1>6. Whole' = Whole /\ WireEnd(s)' = WireEnd(s)
    BY <1>2 DEF Whole, WireEnd
<1>7. /\ IsSlice(wire, Whole, Len(Whole) - Len(wire)) /\ IsSlice(partial, Whole, HeaderAt)
      /\ Len(Whole) - Len(wire) \in Nat
    BY DEF FramesOK, IsSlice
<1>8. PICK w \in Nat, u \in Nat, k \in Nat, e \in Nat :
         w = Len(Whole) /\ u = Len(wire) /\ k = Len(partial) /\ e = w - u
    BY <1>1, <1>7
<1>9. IsSlice(data', Whole, e) /\ IsSlice(wire', Whole, e + n)
  <2>1. IsSlice(wire, Whole, e)
      BY <1>7, <1>8
  <2>2. IsSlice(data', Whole, e)
      BY <1>1, <1>3, <1>4, <2>1, SliceHead
  <2>3. IsSlice(wire', Whole, e + n)
      BY <1>1, <1>3, <1>5, <2>1, SliceRest
  <2>. QED BY <2>2, <2>3
<1>10. Len(Whole') - Len(wire') = e + n /\ DataAt' = e /\ HeaderAt' = HeaderAt
  <2>1. \A a, b, c, d \in Nat : d = a - b /\ c <= b =>
           a - (b - c) = d + c /\ a - (b - c) - c = d /\ a - b - 0 = d
      OBVIOUS
  <2>2. w - (u - n) = e + n /\ w - (u - n) - n = e /\ w - u - 0 = e
      BY <1>3, <1>8, <2>1
  <2>3. Len(Whole') = w /\ Len(wire') = u - n /\ Len(data') = n /\ Len(data) = 0
      BY <1>2, <1>4, <1>5, <1>6, <1>8
  <2>4. DataAt = e /\ DataAt' = e
      BY <1>8, <2>2, <2>3 DEF DataAt
  <2>5. HeaderAt' = HeaderAt
      BY <1>2, <2>4 DEF HeaderAt
  <2>. QED BY <2>2, <2>3, <2>4, <2>5
<1>. QED BY <1>2, <1>6, <1>7, <1>9, <1>10 DEF FramesOK

(* A kept header is followed by what is kept with it.                      *)
LEMMA KeepFrames ==
    ASSUME BuffersOK, segs \in Seq(Seq(Byte)), NEW s \in 0..Len(segs), FramesOK(s), KeepHeader
    PROVE  FramesOK(s)'
<1>1. /\ partial \in Seq(Byte) /\ data \in Seq(Byte)
      /\ Len(wire) \in Nat /\ Len(data) \in Nat /\ Len(Whole) \in Nat /\ Len(partial) \in Nat
    BY LenProperties, WholeIs DEF BuffersOK
<1>2. /\ buffer = <<>> /\ data' = <<>> /\ partial' = partial \o data /\ wire' = wire
      /\ segs' = segs /\ buffer' = buffer /\ length' = length /\ mode' = mode
    BY DEF KeepHeader, AtHeader, streamVars
<1>3. Whole' = Whole /\ WireEnd(s)' = WireEnd(s)
    BY <1>2 DEF Whole, WireEnd
<1>4. /\ IsSlice(wire, Whole, Len(Whole) - Len(wire)) /\ IsSlice(data, Whole, DataAt)
      /\ IsSlice(partial, Whole, HeaderAt) /\ HeaderAt = WireEnd(s)
      /\ HeaderAt \in Nat /\ DataAt \in Nat
    BY <1>2 DEF FramesOK, IsSlice
<1>5. /\ partial' \in Seq(Byte) /\ Len(partial') = Len(partial) + Len(data)
  <2>1. partial \in Seq(Byte)
      BY <1>1
  <2>2. data \in Seq(Byte)
      BY <1>1
  <2>. QED BY <1>2, <2>1, <2>2, ConcatBytes
<1>6. PICK w \in Nat, u \in Nat, k \in Nat, d \in Nat :
         w = Len(Whole) /\ u = Len(wire) /\ k = Len(partial) /\ d = Len(data)
    BY <1>1
<1>7. DataAt = w - u - d /\ HeaderAt = w - u - d - k /\ DataAt = HeaderAt + k
  <2>1. \A a, b, c, e \in Nat : a - b - c = (a - b - c - e) + e
      OBVIOUS
  <2>2. DataAt = w - u - d /\ HeaderAt = w - u - d - k
      BY <1>6 DEF DataAt, HeaderAt
  <2>. QED BY <2>1, <2>2
<1>8. IsSlice(partial', Whole, HeaderAt)
  <2>1. DataAt = HeaderAt + Len(partial)
      BY <1>6, <1>7
  <2>2. partial \in Seq(Byte)
      BY <1>1
  <2>3. data \in Seq(Byte)
      BY <1>1
  <2>. QED BY <1>1, <1>2, <1>4, <2>1, <2>2, <2>3, SliceJoined
<1>9. HeaderAt' = HeaderAt /\ DataAt' = w - u /\ w - u \in 0..w
  <2>1. \A a, b, c, e \in Nat : a - b - c - e \in Nat =>
           a - b - 0 - (e + c) = a - b - c - e /\ a - b - 0 = a - b /\ a - b \in 0..a
      OBVIOUS
  <2>2. w - u - d - k \in Nat
      BY <1>4, <1>7
  <2>3. w - u - 0 - (k + d) = w - u - d - k /\ w - u - 0 = w - u /\ w - u \in 0..w
      BY <2>1, <2>2
  <2>4. Len(data') = 0 /\ Len(partial') = k + d /\ Len(Whole') = w /\ Len(wire') = u
      BY <1>2, <1>3, <1>5, <1>6
  <2>. QED BY <1>7, <2>3, <2>4 DEF DataAt, HeaderAt
<1>10. IsSlice(data', Whole, DataAt')
  <2>1. Len(Whole) \in Nat /\ DataAt' \in 0..Len(Whole)
      BY <1>6, <1>9
  <2>2. IsSlice(<<>>, Whole, DataAt')
      BY <2>1, EmptySlice
  <2>. QED BY <1>2, <2>2
<1>. QED BY <1>2, <1>3, <1>4, <1>8, <1>9, <1>10 DEF FramesOK

(* A step of a loop that decodes leaves the bytes that are still to come.  *)
LEMMA DecodeFrames ==
    ASSUME NEW s, FramesOK(s), mode # "read", UNCHANGED <<segs, wire, data, partial>>,
           mode' # "read" \/ buffer' = <<>>
    PROVE  FramesOK(s)'
<1>1. Whole' = Whole /\ WireEnd(s)' = WireEnd(s)
    BY DEF Whole, WireEnd
<1>2. DataAt' = DataAt /\ HeaderAt' = HeaderAt
    BY <1>1 DEF DataAt, HeaderAt
<1>. QED BY <1>1, <1>2 DEF FramesOK

(* Segment s + 1 goes on, or its payload is what is decoded next.          *)
Fills(s) ==
    \/ mode' = "read" /\ pending' = pending /\ FramesOK(s)'
    \/ /\ mode' = IF batching THEN "blocks" ELSE "messages"
       /\ pending' = IF batching THEN pending \o segs[s + 1] ELSE segs[s + 1]
       /\ FramesOK(s + 1)'

(* The header that is read, in one piece or two, is that of the next       *)
(* segment.                                                                *)
LEMMA HeaderFrames ==
    ASSUME BuffersOK, segs \in Seq(Seq(Byte)), NEW s \in 0..Len(segs), FramesOK(s), ReadHeader
    PROVE  s < Len(segs) /\ Fills(s)
<1>1. /\ partial \in Seq(Byte) /\ data \in Seq(Byte)
      /\ Len(wire) \in Nat /\ Len(data) \in Nat /\ Len(Whole) \in Nat /\ Len(partial) \in Nat
    BY LenProperties, WholeIs DEF BuffersOK
<1>2. /\ mode = "read" /\ buffer = <<>> /\ Len(data) > 8 /\ Len(partial) <= 8 /\ partial' = <<>>
      /\ Fill(AfterHeader, (partial \o data)[1][2])
    BY <1>1 DEF ReadHeader, AtHeader, IsLoneHeader, HeaderSize
<1>3. /\ IsSlice(wire, Whole, Len(Whole) - Len(wire)) /\ IsSlice(data, Whole, DataAt)
      /\ IsSlice(partial, Whole, HeaderAt) /\ HeaderAt = WireEnd(s)
      /\ HeaderAt \in Nat /\ DataAt \in Nat
    BY <1>2 DEF FramesOK, IsSlice
<1>4. PICK w \in Nat, u \in Nat, k \in Nat, d \in Nat, h \in Nat :
         /\ w = Len(Whole) /\ u = Len(wire) /\ k = Len(partial) /\ d = Len(data)
         /\ h = WireEnd(s)
    BY <1>1, <1>3
<1>5. w - u - d - k = h /\ w - u - d = DataAt /\ d > 8 /\ k <= 8
    BY <1>2, <1>3, <1>4 DEF DataAt, HeaderAt
<1>6. /\ w - u - d = h + k /\ h < w /\ 8 - k \in Nat /\ 8 - k <= d /\ d - (8 - k) # 0
      /\ (h + k) + (8 - k) = h + 8 + 0 /\ h + 8 + 0 + (d - (8 - k)) = w - u
      /\ 8 + 1 - k = (8 - k) + 1 /\ 1 \in 1..(k + d)
  <2>1. \A a, b, c, e, f \in Nat : a - b - c - e = f /\ c > 8 /\ e <= 8 =>
           /\ a - b - c = f + e /\ f < a /\ 8 - e \in Nat /\ 8 - e <= c /\ c - (8 - e) # 0
           /\ (f + e) + (8 - e) = f + 8 + 0 /\ f + 8 + 0 + (c - (8 - e)) = a - b
           /\ 8 + 1 - e = (8 - e) + 1 /\ 1 \in 1..(e + c)
      OBVIOUS
  <2>. QED BY <1>5, <2>1
<1>7. s < Len(segs)
  <2>1. Len(segs) \in Nat /\ WireEnd(Len(segs)) = Len(Whole)
      BY BodyIs, WholeIs
  <2>2. s # Len(segs)
      BY <1>4, <1>6, <2>1
  <2>. QED BY <2>1, <2>2
<1>8. (partial \o data)[1][2] = Len(segs[s + 1])
  <2>1. PICK c : c = partial \o data
      OBVIOUS
  <2>2. partial \in Seq(Byte)
      BY <1>1
  <2>3. data \in Seq(Byte)
      BY <1>1
  <2>4. DataAt = HeaderAt + Len(partial)
      BY <1>3, <1>4, <1>5, <1>6
  <2>5. IsSlice(c, Whole, HeaderAt)
      BY <1>1, <1>3, <2>1, <2>2, <2>3, <2>4, SliceJoined
  <2>6. Len(c) = k + d
      BY <1>4, <2>1, <2>2, <2>3, ConcatBytes
  <2>7. c[1] = Whole[h + 1]
    <3>1. 1 \in 1..Len(c)
        BY <1>6, <2>6
    <3>2. \A j \in 1..Len(c) : c[j] = Whole[HeaderAt + j]
        BY <2>5 DEF IsSlice
    <3>3. c[1] = Whole[HeaderAt + 1]
        BY <3>1, <3>2
    <3>. QED BY <1>3, <1>4, <3>3
  <2>8. PICK i \in 1..Len(segs) : i = s + 1 /\ i - 1 = s
    <3>1. Len(segs) \in Nat
        BY BodyIs
    <3>2. \A n \in Nat : \A i \in 0..n : i < n => i + 1 \in 1..n /\ i + 1 - 1 = i
        OBVIOUS
    <3>. QED BY <1>7, <3>1, <3>2
  <2>9. \A j \in 1..8 : Whole[WireEnd(i - 1) + j] = <<0, Len(segs[i])>>
      BY WholeIs
  <2>10. 1 \in 1..8
      OBVIOUS
  <2>11. Whole[WireEnd(i - 1) + 1] = <<0, Len(segs[i])>>
      BY <2>9, <2>10
  <2>12. c[1] = <<0, Len(segs[i])>>
      BY <1>4, <2>7, <2>8, <2>11
  <2>13. c[1][2] = Len(segs[i])
      BY <2>12
  <2>. QED BY <2>1, <2>8, <2>13
<1>9. PICK body : body = AfterHeader
    OBVIOUS
<1>10. /\ body \in Seq(Byte) /\ Len(body) = d - (8 - k)
       /\ \A j \in 1..(d - (8 - k)) : body[j] = data[(8 - k) + j]
  <2>1. PICK f \in Nat : f = 8 - k
      BY <1>6
  <2>2. body = From(data, f + 1) /\ f <= Len(data)
      BY <1>4, <1>6, <1>9, <2>1 DEF AfterHeader, HeaderSize
  <2>3. data \in Seq(Byte)
      BY <1>1
  <2>4. /\ body \in Seq(Byte) /\ Len(body) = Len(data) - f
        /\ \A j \in 1..(Len(data) - f) : body[j] = data[f + j]
      BY <2>2, <2>3, RestOfBytes
  <2>. QED BY <1>4, <2>1, <2>4
<1>11. IsSlice(body, Whole, h + 8 + 0)
  <2>1. PICK f \in Nat : f = 8 - k
      BY <1>6
  <2>2. /\ Len(body) = Len(data) - f /\ f <= Len(data)
        /\ \A j \in 1..(Len(data) - f) : body[j] = data[f + j]
      BY <1>4, <1>6, <1>10, <2>1
  <2>3. IsSlice(body, Whole, DataAt + f)
      BY <1>1, <1>3, <2>2, SliceRest
  <2>. QED BY <1>5, <1>6, <2>1, <2>3
<1>12. body # <<>> /\ body \in Seq(Byte)
    BY <1>6, <1>10
<1>13. Len(buffer) = 0
    BY <1>2
<1>14. IsSlice(buffer, segs[s + 1], 0) /\ Len(buffer) <= Len(segs[s + 1])
  <2>1. s + 1 \in 1..Len(segs)
    <3>1. Len(segs) \in Nat
        BY BodyIs
    <3>. QED BY <1>7, <3>1
  <2>2. Len(segs[s + 1]) \in Nat
      BY <2>1, BodyIs
  <2>3. 0 \in 0..Len(segs[s + 1])
      BY <2>2
  <2>4. IsSlice(<<>>, segs[s + 1], 0)
      BY <2>2, <2>3, EmptySlice
  <2>. QED BY <1>2, <1>13, <2>2, <2>4
<1>15. IsSlice(body, Whole, WireEnd(s) + 8 + Len(buffer))
    BY <1>4, <1>11, <1>13
<1>16. WireEnd(s) + 8 + Len(buffer) + Len(body) = Len(Whole) - Len(wire)
    BY <1>4, <1>6, <1>10, <1>13
<1>17. Fill(body, Len(segs[s + 1]))
    BY <1>2, <1>8, <1>9
<1>18. body \in Seq(Byte)
    BY <1>12
<1>19. Fills(s)
    BY <1>2, <1>3, <1>7, <1>12, <1>14, <1>15, <1>16, <1>17, <1>18, FillFrames DEF Fills
<1>. QED BY <1>7, <1>19

(* The payload goes on with the bytes that follow those in the buffer.     *)
LEMMA PayloadFrames ==
    ASSUME BuffersOK, segs \in Seq(Seq(Byte)), NEW s \in 0..Len(segs), FramesOK(s), ReadPayload
    PROVE  s < Len(segs) /\ Fills(s)
<1>1. /\ data \in Seq(Byte) /\ Len(wire) \in Nat /\ Len(data) \in Nat /\ Len(Whole) \in Nat
      /\ Len(buffer) \in Nat
    BY LenProperties, WholeIs DEF BuffersOK
<1>2. mode = "read" /\ data # <<>> /\ buffer # <<>> /\ partial' = partial /\ Fill(data, length)
    BY DEF ReadPayload
<1>3. /\ IsSlice(wire, Whole, Len(Whole) - Len(wire)) /\ IsSlice(data, Whole, DataAt)
      /\ s < Len(segs) /\ partial = <<>> /\ length = Len(segs[s + 1]) /\ Len(buffer) < length
      /\ IsSlice(buffer, segs[s + 1], 0) /\ HeaderAt = WireEnd(s) + 8 + Len(buffer)
    BY <1>2 DEF FramesOK
<1>4. HeaderAt = DataAt
  <2>1. Len(partial) = 0 /\ DataAt \in Nat
      BY <1>3 DEF IsSlice
  <2>. QED BY <2>1 DEF HeaderAt
<1>5. IsSlice(data, Whole, WireEnd(s) + 8 + Len(buffer))
    BY <1>3, <1>4
<1>6. WireEnd(s) + 8 + Len(buffer) + Len(data) = Len(Whole) - Len(wire)
  <2>1. \A a, b, c \in Nat : a - b - c + c = a - b
      OBVIOUS
  <2>2. DataAt + Len(data) = Len(Whole) - Len(wire)
      BY <1>1, <2>1 DEF DataAt
  <2>. QED BY <1>3, <1>4, <2>2
<1>7. Len(buffer) <= Len(segs[s + 1])
  <2>1. length \in Nat
      BY DEF BuffersOK
  <2>. QED BY <1>1, <1>3, <2>1
<1>8. Fill(data, Len(segs[s + 1])) /\ partial' = <<>>
    BY <1>2, <1>3
<1>9. data \in Seq(Byte)
    BY <1>1
<1>10. Fills(s)
    BY <1>2, <1>3, <1>5, <1>6, <1>7, <1>8, <1>9, FillFrames DEF Fills
<1>. QED BY <1>3, <1>10

-----------------------------------------------------------------------------
(* MessageReader: the pending bytes and the stream *)

(* What is known of the stream, in terms of its payload bytes.             *)
LEMMA StreamIs ==
    ASSUME IsStream(sent, segs)
    PROVE  /\ sent \in Seq(DOMAIN Size) /\ Len(sent) \in Nat /\ segs \in Seq(Seq(Byte))
           /\ \A i \in 1..Len(sent) : Size[sent[i]] \in Nat /\ Size[sent[i]] >= 2
           /\ \A i \in 1..Len(Body) :
                /\ Body[i][1] \in 1..Len(sent) /\ Body[i][2] \in 1..Size[sent[Body[i][1]]]
                /\ Body[i][2] = 1 => Begun(Body, i - 1) = 1..(Body[i][1] - 1)
                /\ Body[i][2] # 1 => \E j \in 1..(i - 1) : Body[j] = <<Body[i][1], Body[i][2] - 1>>
                /\ \A j \in 1..Len(Body) : Body[i] = Body[j] => i = j
           /\ Begun(Body, Len(Body)) = 1..Len(sent)
<1>1. sent \in Seq(DOMAIN Size) /\ segs \in Seq(Seq(Byte)) /\ Begun(Body, Len(Body)) = 1..Len(sent)
    BY DEF IsStream, Body
<1>2. Len(sent) \in Nat /\ \A i \in 1..Len(sent) : sent[i] \in DOMAIN Size
    BY <1>1, LenProperties, ElementOfSeq
<1>3. \A i \in 1..Len(sent) : Size[sent[i]] \in Nat /\ Size[sent[i]] >= 2
  <2>1. \A k \in DOMAIN Size : Size[k] \in Nat /\ Size[k] >= 2
      BY SizeAssumption
  <2>. QED BY <1>2, <2>1
<1>4. \A i \in 1..Len(Body) :
          /\ Body[i][1] \in 1..Len(sent) /\ Body[i][2] \in 1..Size[sent[Body[i][1]]]
          /\ Body[i][2] = 1 => Begun(Body, i - 1) = 1..(Body[i][1] - 1)
          /\ Body[i][2] # 1 => \E j \in 1..(i - 1) : Body[j] = <<Body[i][1], Body[i][2] - 1>>
          /\ \A j \in 1..Len(Body) : Body[i] = Body[j] => i = j
  <2>1. Body = Join(segs)
      BY DEF Body
  <2>. QED BY <2>1, Zenon DEF IsStream
<1>. QED BY <1>1, <1>2, <1>3, <1>4

(* In a segment the bytes follow one another.                              *)
LEMMA SegmentFollows ==
    ASSUME IsStream(sent, segs), NEW i \in 1..Len(segs),
           NEW p \in Nat, BodyEnd(i - 1) < p, p < BodyEnd(i)
    PROVE  Follows(sent, Body[p], Body[p + 1])
<1>1. segs \in Seq(Seq(Byte))
    BY StreamIs
<1>2. /\ BodyEnd(i) = BodyEnd(i - 1) + Len(segs[i]) /\ Len(segs[i]) \in Nat
      /\ \A j \in 1..Len(segs[i]) : Body[BodyEnd(i - 1) + j] = segs[i][j]
    BY <1>1, BodyIs
<1>3. BodyEnd(i - 1) \in Nat
  <2>1. Len(segs) \in Nat
      BY <1>1, BodyIs
  <2>2. i - 1 \in 0..Len(segs)
      BY <2>1
  <2>. QED BY <1>1, <2>2, BodyIs
<1>4. PICK e \in Nat, n \in Nat : e = BodyEnd(i - 1) /\ n = Len(segs[i])
    BY <1>2, <1>3
<1>5. e < p /\ p < e + n
    BY <1>2, <1>4
<1>6. PICK j \in 1..(n - 1) : p = e + j
  <2>1. p - e \in 1..(n - 1) /\ p = e + (p - e)
      BY <1>5
  <2>. QED BY <2>1
<1>7. j \in 1..n /\ j + 1 \in 1..n /\ p + 1 = e + (j + 1)
    BY <1>6
<1>8. Body[p] = segs[i][j] /\ Body[p + 1] = segs[i][j + 1]
  <2>1. \A k \in 1..n : Body[e + k] = segs[i][k]
      BY <1>2, <1>4
  <2>. QED BY <1>6, <1>7, <2>1
<1>9. Follows(sent, segs[i][j], segs[i][j + 1])
  <2>1. j \in 1..(Len(segs[i]) - 1)
      BY <1>4
  <2>. QED BY <2>1 DEF IsStream
<1>. QED BY <1>8, <1>9

(* Where the bytes to decode are in the payload that was sent.             *)
PendingAt(s) == BodyEnd(s) - Len(pending)

(* They end with segment s, and outside a batch they are of that segment.  *)
PendingOK(s) ==
    /\ pending \in Seq(Byte) /\ IsSlice(pending, Body, PendingAt(s))
    /\ mode = "read" => out = <<>> /\ (~batching => pending = <<>>)
    /\ mode = "messages" => ~batching /\ s > 0 /\ BodyEnd(s - 1) <= PendingAt(s)
    /\ mode = "blocks" => batching /\ s > 0

(* When all bytes of a message are decoded, the messages begun so far are  *)
(* those up to it.                                                         *)
LEMMA MessageTaken ==
    ASSUME IsStream(sent, segs), NEW s \in 0..Len(segs), PendingOK(s),
           pending # <<>>, Complete, Intact
    PROVE  /\ First \in 1..Len(sent) /\ FirstSize \in Nat /\ FirstSize >= 2
           /\ PendingAt(s) \in Nat /\ PendingAt(s) + FirstSize \in Nat
           /\ PendingAt(s) + FirstSize <= BodyEnd(s)
           /\ \A k \in 1..FirstSize : Body[PendingAt(s) + k] = <<First, k>>
           /\ Begun(Body, PendingAt(s)) = 1..(First - 1)
           /\ Begun(Body, PendingAt(s) + FirstSize) = 1..First
<1>1. segs \in Seq(Seq(Byte))
    BY StreamIs
<1>2. pending \in Seq(Byte) /\ Len(pending) \in Nat /\ Len(pending) # 0 /\ IsSlice(pending, Body, PendingAt(s))
    BY LenProperties, EmptySeq DEF PendingOK
<1>3. BodyEnd(s) \in Nat /\ BodyEnd(s) <= Len(Body) /\ Len(Body) \in Nat
    BY <1>1, BodyIs
<1>4. PICK a \in Nat, l \in Nat, e \in Nat, w \in Nat :
         a = PendingAt(s) /\ l = Len(pending) /\ e = BodyEnd(s) /\ w = Len(Body)
    BY <1>2, <1>3 DEF IsSlice
<1>5. a = e - l /\ e <= w /\ l # 0
    BY <1>2, <1>3, <1>4 DEF PendingAt
<1>6. \A j \in 1..l : pending[j] = Body[a + j]
    BY <1>2, <1>4 DEF IsSlice
<1>7. PICK m : m = First
    OBVIOUS
<1>8. a + 1 \in 1..w /\ a + 1 - 1 = a /\ 1 \in 1..l
    BY <1>5
<1>9. m \in 1..Len(sent) /\ Body[a + 1][1] = m
  <2>1. Body[a + 1][1] = m
      BY <1>6, <1>7, <1>8 DEF First
  <2>. QED BY <1>4, <1>8, <2>1, StreamIs
<1>10. PICK z \in Nat : z = FirstSize /\ z >= 2 /\ z <= l
  <2>1. FirstSize = Size[sent[m]]
      BY <1>7 DEF FirstSize, FirstKind
  <2>2. FirstSize \in Nat /\ FirstSize >= 2
      BY <1>9, <2>1, StreamIs
  <2>. QED BY <1>4, <2>2 DEF Complete
<1>11. ASSUME NEW k \in 1..z PROVE Body[a + k] = <<m, k>>
  <2>1. pending[k] = <<m, k>>
      BY <1>7, <1>10 DEF Intact
  <2>2. k \in 1..l
      BY <1>10
  <2>. QED BY <1>6, <2>1, <2>2
<1>12. Body[a + 1] = <<m, 1>>
    BY <1>10, <1>11
<1>13. Begun(Body, a) = 1..(m - 1)
  <2>1. Body[a + 1][2] = 1
      BY <1>12
  <2>2. Begun(Body, a + 1 - 1) = 1..(Body[a + 1][1] - 1)
      BY <1>4, <1>8, <2>1, StreamIs, SMTT(40)
  <2>. QED BY <1>8, <1>9, <2>2
<1>14. Begun(Body, a + z) = 1..m
  <2>1. Begun(Body, a + z) = Begun(Body, a) \cup {m}
    <3>1. ASSUME NEW i \in 1..(a + z), Body[i][2] = 1
          PROVE  Body[i][1] \in Begun(Body, a) \cup {m}
      <4>1. CASE i <= a
        <5>1. i \in 1..a
            BY <4>1
        <5>. QED BY <3>1, <5>1 DEF Begun
      <4>2. CASE ~(i <= a)
        <5>1. PICK k \in 1..z : i = a + k
          <6>1. i - a \in 1..z /\ i = a + (i - a)
              BY <4>2
          <6>. QED BY <6>1
        <5>2. Body[i] = <<m, k>>
            BY <1>11, <5>1
        <5>. QED BY <5>2
      <4>. QED BY <4>1, <4>2
    <3>2. ASSUME NEW i \in 1..a, Body[i][2] = 1
          PROVE  Body[i][1] \in Begun(Body, a + z)
      <4>1. i \in 1..(a + z)
          OBVIOUS
      <4>. QED BY <3>2, <4>1 DEF Begun
    <3>3. m \in Begun(Body, a + z)
      <4>1. a + 1 \in 1..(a + z)
          BY <1>10
      <4>2. Body[a + 1][2] = 1 /\ Body[a + 1][1] = m
          BY <1>12
      <4>. QED BY <4>1, <4>2 DEF Begun
    <3>. QED BY <3>1, <3>2, <3>3 DEF Begun
  <2>2. \A n \in Nat : \A i \in 1..n : 1..(i - 1) \cup {i} = 1..i
      OBVIOUS
  <2>3. Len(sent) \in Nat
      BY StreamIs
  <2>. QED BY <1>9, <1>13, <2>1, <2>2, <2>3
<1>15. a + z \in Nat /\ a + z <= e
    BY <1>5, <1>10
<1>. QED BY <1>4, <1>7, <1>9, <1>10, <1>11, <1>13, <1>14, <1>15

(* A message that begins in its segment and is complete is all there.      *)
LEMMA IntactInSegment ==
    ASSUME IsStream(sent, segs), NEW s \in 0..Len(segs), PendingOK(s), mode = "messages",
           pending # <<>>, Aligned, Complete
    PROVE  Intact
<1>1. segs \in Seq(Seq(Byte))
    BY StreamIs
<1>2. /\ pending \in Seq(Byte) /\ Len(pending) \in Nat /\ Len(pending) # 0
      /\ IsSlice(pending, Body, PendingAt(s)) /\ s > 0 /\ BodyEnd(s - 1) <= PendingAt(s)
    BY LenProperties, EmptySeq DEF PendingOK
<1>3. Len(segs) \in Nat /\ BodyEnd(s) \in Nat /\ BodyEnd(s) <= Len(Body) /\ Len(Body) \in Nat
    BY <1>1, BodyIs
<1>4. s \in 1..Len(segs) /\ s - 1 \in 0..Len(segs)
    BY <1>2, <1>3
<1>5. BodyEnd(s - 1) \in Nat
    BY <1>1, <1>4, BodyIs
<1>6. PICK a \in Nat, l \in Nat, e \in Nat, d \in Nat :
         a = PendingAt(s) /\ l = Len(pending) /\ e = BodyEnd(s) /\ d = BodyEnd(s - 1)
    BY <1>2, <1>3, <1>5 DEF IsSlice
<1>7. a = e - l /\ d <= a /\ l # 0
    BY <1>2, <1>3, <1>6 DEF PendingAt
<1>8. \A j \in 1..l : pending[j] = Body[a + j] /\ pending[j] \in Byte
    BY <1>2, <1>6, ElementOfSeq DEF IsSlice
<1>9. PICK m : m = First
    OBVIOUS
<1>10. pending[1] = <<m, 1>>
  <2>1. 1 \in 1..l
      BY <1>7
  <2>2. pending[1] \in Byte /\ pending[1][1] = m /\ pending[1][2] = 1
      BY <1>8, <1>9, <2>1 DEF First, Aligned
  <2>. QED BY <2>2 DEF Byte
<1>11. m \in 1..Len(sent)
  <2>1. 1 \in 1..l /\ a + 1 \in 1..Len(Body)
      BY <1>3, <1>6, <1>7, SMTT(40)
  <2>2. Body[a + 1][1] = m
      BY <1>8, <1>10, <2>1
  <2>. QED BY <2>1, <2>2, StreamIs
<1>12. PICK z \in Nat : z = FirstSize /\ z = Size[sent[m]] /\ z >= 2 /\ z <= l
  <2>1. FirstSize = Size[sent[m]]
      BY <1>9 DEF FirstSize, FirstKind
  <2>2. FirstSize \in Nat /\ FirstSize >= 2
      BY <1>11, <2>1, StreamIs
  <2>. QED BY <1>6, <2>1, <2>2 DEF Complete
<1>. DEFINE T == {k \in 1..z : pending[k] # <<m, k>>}
<1>13. T = {}
  <2>1. SUFFICES ASSUME T # {} PROVE FALSE
      OBVIOUS
  <2>2. PICK k \in T : \A j \in T : k <= j
    <3>1. T \subseteq Nat
        OBVIOUS
    <3>. HIDE DEF T
    <3>. QED BY <2>1, <3>1, LeastIndex
  <2>3. k \in 1..z /\ pending[k] # <<m, k>>
      OBVIOUS
  <2>4. k # 1
      BY <1>10, <2>3
  <2>5. k - 1 \in 1..z /\ ~(k <= k - 1) /\ k - 1 < z /\ k \in 1..l /\ k - 1 \in 1..l
      BY <1>12, <2>3, <2>4
  <2>6. pending[k - 1] = <<m, k - 1>>
      BY <2>2, <2>5
  <2>7. PICK p \in Nat : p = a + (k - 1) /\ p + 1 = a + k /\ d < p /\ p < e
    <3>1. a + (k - 1) \in Nat /\ a + (k - 1) + 1 = a + k /\ d < a + (k - 1) /\ a + (k - 1) < e
        BY <1>7, <2>5
    <3>. QED BY <3>1
  <2>8. Follows(sent, Body[p], Body[p + 1])
      BY <1>4, <1>6, <2>7, SegmentFollows
  <2>9. Body[p] = <<m, k - 1>> /\ Body[p + 1] = pending[k]
      BY <1>8, <2>5, <2>6, <2>7
  <2>10. Body[p][1] = m /\ Body[p][2] = k - 1
      BY <2>9
  <2>11. Body[p][2] < Size[sent[Body[p][1]]]
      BY <1>12, <2>5, <2>10
  <2>12. Body[p + 1] = <<Body[p][1], Body[p][2] + 1>>
      BY <2>8, <2>11 DEF Follows
  <2>13. k - 1 + 1 = k
      BY <2>3
  <2>14. pending[k] = <<m, k>>
      BY <2>9, <2>10, <2>12, <2>13
  <2>. QED BY <2>3, <2>14
<1>14. \A k \in 1..z : pending[k] = <<m, k>>
    BY <1>13
<1>. QED BY <1>9, <1>12, <1>14 DEF Intact

(* What is left behind a message follows it in what was sent.              *)
LEMMA RestIsPending ==
    ASSUME IsStream(sent, segs), NEW s \in 0..Len(segs), PendingOK(s), segs' = segs,
           NEW z \in Nat, z <= Len(pending), pending' = From(pending, z + 1)
    PROVE  /\ pending' \in Seq(Byte) /\ PendingAt(s)' = PendingAt(s) + z
           /\ IsSlice(pending', Body', PendingAt(s)')
           /\ Body' = Body /\ BodyEnd(s)' = BodyEnd(s) /\ BodyEnd(s - 1)' = BodyEnd(s - 1)
<1>1. segs \in Seq(Seq(Byte))
    BY StreamIs
<1>2. pending \in Seq(Byte) /\ Len(pending) \in Nat /\ IsSlice(pending, Body, PendingAt(s))
    BY LenProperties DEF PendingOK
<1>3. BodyEnd(s) \in Nat /\ Len(Body) \in Nat /\ PendingAt(s) \in Nat
    BY <1>1, <1>2, BodyIs DEF IsSlice
<1>4. /\ pending' \in Seq(Byte) /\ Len(pending') = Len(pending) - z
      /\ \A j \in 1..(Len(pending) - z) : pending'[j] = pending[z + j]
    BY <1>2, RestOfBytes
<1>5. IsSlice(pending', Body, PendingAt(s) + z)
    BY <1>2, <1>3, <1>4, SliceRest
<1>6. Body' = Body /\ BodyEnd(s)' = BodyEnd(s) /\ BodyEnd(s - 1)' = BodyEnd(s - 1)
    BY DEF Body, BodyEnd
<1>7. PendingAt(s)' = PendingAt(s) + z
  <2>1. \A e, l, k \in Nat : e - (l - k) = (e - l) + k
      OBVIOUS
  <2>2. PendingAt(s)' = BodyEnd(s) - (Len(pending) - z)
      BY <1>4, <1>6 DEF PendingAt
  <2>3. BodyEnd(s) - (Len(pending) - z) = (BodyEnd(s) - Len(pending)) + z
      BY <1>2, <1>3, <2>1
  <2>. QED BY <2>2, <2>3 DEF PendingAt
<1>. QED BY <1>4, <1>5, <1>6, <1>7

-----------------------------------------------------------------------------
(* MessageReader: the order of the messages *)

(* The last of some messages, 0 when there are none.                       *)
LastOf(ms) == IF ms = <<>> THEN 0 ELSE ms[Len(ms)]

(* The last message was a BatchDone: what follows it may be skipped.       *)
Skips == got # <<>> /\ sent[LastOf(got)] = "BatchDone"

(* These messages are the next ones, without a gap.                        *)
Run(ms) ==
    /\ ms \in Seq(1..Len(sent))
    /\ \A i \in 1..Len(ms) : ms[i] = ms[1] + i - 1
    /\ ms # <<>> => ms[1] = LastOf(got) + 1 \/ (ms[1] > LastOf(got) /\ Skips)

(* The last message that was decoded.                                      *)
LastOut == IF out = <<>> THEN LastOf(got) ELSE LastOf(out)

(* In what was decoded or skipped, the messages up to the last one begin,  *)
(* and no other unless something was skipped.                              *)
OrderOK(s) ==
    \/ Begun(Body, PendingAt(s)) = 1..LastOut
    \/ out = <<>> /\ Skips /\ 1..LastOf(got) \subseteq Begun(Body, PendingAt(s))

(* What was returned and what is decoded are messages of the stream.       *)
GotOK == got \in Seq(1..Len(sent)) /\ Run(out)

(* The last message of a sequence is one of them.                          *)
LEMMA LastIs ==
    ASSUME NEW n \in Nat, NEW ms \in Seq(1..n)
    PROVE  LastOf(ms) \in Nat /\ (ms # <<>> => LastOf(ms) \in 1..n /\ Len(ms) \in Nat \ {0})
<1>1. Len(ms) \in Nat /\ (ms # <<>> => Len(ms) # 0)
    BY LenProperties, EmptySeq
<1>2. ASSUME ms # <<>> PROVE ms[Len(ms)] \in 1..n
  <2>1. Len(ms) \in 1..Len(ms)
      BY <1>1, <1>2
  <2>. QED BY <2>1, ElementOfSeq
<1>. QED BY <1>1, <1>2 DEF LastOf

(* The message that the pending bytes begin with is the next one.          *)
LEMMA NextInOrder ==
    ASSUME Len(sent) \in Nat, GotOK, NEW s, OrderOK(s),
           NEW m \in 1..Len(sent), Begun(Body, PendingAt(s)) = 1..(m - 1)
    PROVE  /\ out # <<>> => m = LastOf(out) + 1
           /\ out = <<>> => m = LastOf(got) + 1 \/ (m > LastOf(got) /\ Skips)
<1>1. LastOf(got) \in Nat /\ LastOf(out) \in Nat
    BY LastIs DEF GotOK, Run
<1>2. \A a \in Nat, b \in 1..Len(sent) : 1..a = 1..(b - 1) => b = a + 1
  <2>1. SUFFICES ASSUME NEW a \in Nat, NEW b \in 1..Len(sent), 1..a = 1..(b - 1), b # a + 1 PROVE FALSE
      OBVIOUS
  <2>2. CASE a < b - 1
    <3>1. b - 1 \in 1..(b - 1) /\ b - 1 \notin 1..a
        BY <2>2
    <3>. QED BY <2>1, <3>1
  <2>3. CASE b - 1 < a
    <3>1. a \in 1..a /\ a \notin 1..(b - 1)
        BY <2>3
    <3>. QED BY <2>1, <3>1
  <2>4. a < b - 1 \/ b - 1 < a
      BY <2>1
  <2>. QED BY <2>2, <2>3, <2>4
<1>3. \A a \in Nat, b \in 1..Len(sent) : 1..a \subseteq 1..(b - 1) => b > a
  <2>1. SUFFICES ASSUME NEW a \in Nat, NEW b \in 1..Len(sent), 1..a \subseteq 1..(b - 1), ~(b > a) PROVE FALSE
      OBVIOUS
  <2>2. a \in 1..a /\ a \notin 1..(b - 1)
      BY <2>1
  <2>. QED BY <2>1, <2>2
<1>. QED BY <1>1, <1>2, <1>3 DEF OrderOK, LastOut

(* A run goes on with the next message.                                    *)
LEMMA RunAppend ==
    ASSUME Len(sent) \in Nat, GotOK, NEW m \in 1..Len(sent),
           out # <<>> => m = LastOf(out) + 1,
           out = <<>> => m = LastOf(got) + 1 \/ (m > LastOf(got) /\ Skips),
           NEW ms, ms = Append(out, m)
    PROVE  Run(ms) /\ ms # <<>> /\ LastOf(ms) = m /\ Len(ms) = Len(out) + 1
<1>1. PICK n \in Nat : n = Len(out)
    BY LenProperties DEF GotOK, Run
<1>2. out \in Seq(1..Len(sent)) /\ \A i \in 1..n : out[i] = out[1] + i - 1
    BY <1>1 DEF GotOK, Run
<1>3. /\ ms \in Seq(1..Len(sent)) /\ ms # <<>> /\ Len(ms) = n + 1
      /\ \A i \in 1..n : ms[i] = out[i]
      /\ ms[n + 1] = m
    BY <1>1, <1>2, AppendProperties
<1>4. LastOf(ms) = m
    BY <1>3 DEF LastOf
<1>5. CASE n = 0
  <2>1. out = <<>>
      BY <1>1, <1>2, <1>5, EmptySeq
  <2>2. ms[1] = m /\ \A i \in 1..Len(ms) : i = 1
      BY <1>3, <1>5
  <2>3. \A i \in 1..Len(ms) : ms[i] = ms[1] + i - 1
      BY <2>2
  <2>. QED BY <1>1, <1>3, <1>4, <2>1, <2>2, <2>3 DEF Run
<1>6. CASE n # 0
  <2>1. out # <<>> /\ 1 \in 1..n /\ n \in 1..n
      BY <1>1, <1>6
  <2>2. ms[1] = out[1] /\ out[1] \in Nat /\ m = out[n] + 1 /\ out[n] = out[1] + n - 1
    <3>1. out[1] \in 1..Len(sent)
        BY <1>1, <1>2, <2>1, ElementOfSeq
    <3>. QED BY <1>1, <1>2, <1>3, <2>1, <3>1 DEF LastOf
  <2>3. ASSUME NEW i \in 1..Len(ms) PROVE ms[i] = ms[1] + i - 1
    <3>1. CASE i \in 1..n
        BY <1>2, <1>3, <2>2, <3>1
    <3>2. CASE i = n + 1
      <4>1. \A a, b \in Nat : (a + b - 1) + 1 = a + (b + 1) - 1
          OBVIOUS
      <4>2. (out[1] + n - 1) + 1 = out[1] + (n + 1) - 1
          BY <2>2, <4>1
      <4>. QED BY <1>3, <2>2, <3>2, <4>2
    <3>. QED BY <1>3, <3>1, <3>2
  <2>4. ms[1] = LastOf(got) + 1 \/ (ms[1] > LastOf(got) /\ Skips)
      BY <2>1, <2>2 DEF GotOK, Run
  <2>. QED BY <1>1, <1>3, <1>4, <2>3, <2>4 DEF Run
<1>. QED BY <1>5, <1>6

(* What the last message is when messages are returned.                    *)
LEMMA RunReturned ==
    ASSUME Len(sent) \in Nat, GotOK, NEW ms, Run(ms), got' = got \o ms
    PROVE  /\ got' \in Seq(1..Len(sent)) /\ Len(got') = Len(got) + Len(ms)
           /\ ms = <<>> => got' = got
           /\ ms # <<>> => got' # <<>> /\ LastOf(got') = LastOf(ms)
<1>1. got \in Seq(1..Len(sent)) /\ ms \in Seq(1..Len(sent))
    BY DEF GotOK, Run
<1>2. PICK k \in Nat, n \in Nat : k = Len(got) /\ n = Len(ms)
    BY <1>1, LenProperties
<1>3. /\ got' \in Seq(1..Len(sent)) /\ Len(got') = k + n
      /\ \A i \in 1..(k + n) : got'[i] = IF i <= k THEN got[i] ELSE ms[i - k]
  <2>1. got \in Seq(1..Len(sent))
      BY <1>1
  <2>2. ms \in Seq(1..Len(sent))
      BY <1>1
  <2>. QED BY <1>2, <2>1, <2>2, ConcatProperties
<1>4. ms = <<>> => got' = got
    BY <1>1, ConcatEmptySeq
<1>5. ASSUME ms # <<>> PROVE got' # <<>> /\ LastOf(got') = LastOf(ms)
  <2>1. n # 0
      BY <1>1, <1>2, <1>5, EmptySeq
  <2>2. k + n \in 1..(k + n) /\ ~(k + n <= k) /\ k + n - k = n /\ k + n # 0
      BY <2>1
  <2>3. got'[k + n] = ms[n]
      BY <1>3, <2>2
  <2>4. got' # <<>>
      BY <1>3, <2>2
  <2>. QED BY <1>2, <1>3, <1>5, <2>3, <2>4 DEF LastOf
<1>. QED BY <1>2, <1>3, <1>4, <1>5

(* Returning a run is a step of the channel.                               *)
LEMMA ReturnDelivers ==
    ASSUME sent \in Seq(DOMAIN Size), GotOK, NEW ms, Run(ms), ~Failed, ~Failed',
           got' = got \o ms, sent' = sent
    PROVE  [Channel!ChannelNext]_(Channel!channelVars)
<1>1. Failed' = Failed /\ Len(sent) \in Nat /\ DOMAIN sent = 1..Len(sent)
    BY LenProperties DEF Failed
<1>2. CASE ms = <<>>
  <2>1. got' = got
      BY <1>1, <1>2, RunReturned
  <2>. QED BY <1>1, <2>1 DEF Channel!channelVars
<1>3. CASE ms # <<>>
  <2>1. ms \in Seq(1..Len(sent)) /\ \A i \in 1..Len(ms) : ms[i] = ms[1] + i - 1
      BY DEF Run
  <2>2. PICK n \in Nat : n = Len(ms) /\ n # 0
      BY <1>3, <2>1, LenProperties, EmptySeq
  <2>3. 1 \in 1..n /\ n \in 1..n
      BY <2>2
  <2>4. ms[1] \in 1..Len(sent) /\ ms[n] \in 1..Len(sent)
      BY <2>1, <2>2, <2>3, ElementOfSeq
  <2>5. ms[n] = ms[1] + n - 1
      BY <2>1, <2>2, <2>3
  <2>6. ms[1] <= ms[n] /\ ms[n] + 1 - ms[1] = n
      BY <2>2, <2>4, <2>5
  <2>7. ms = [i \in 1..n |-> ms[1] + i - 1]
    <3>1. ms \in [1..n -> 1..Len(sent)]
        BY <2>1, <2>2, LenProperties
    <3>2. ms = [i \in 1..n |-> ms[i]]
        BY <3>1
    <3>. QED BY <2>1, <2>2, <3>2
  <2>8. Channel!LastGot = LastOf(got) /\ Channel!MaySkip = Skips
      BY DEF Channel!LastGot, Channel!MaySkip, LastOf, Skips
  <2>9. Channel!Deliver(ms[1], ms[n])
      BY <1>1, <1>3, <2>6, <2>7, <2>8 DEF Channel!Deliver, Run
  <2>10. Channel!ChannelNext
      BY <1>1, <2>4, <2>6, <2>9 DEF Channel!ChannelNext
  <2>. QED BY <2>10
<1>. QED BY <1>2, <1>3

-----------------------------------------------------------------------------
(* MessageReader: the buffers *)

(* A segment takes no more bytes than belong to it.                        *)
LEMMA FillOK ==
    ASSUME BuffersOK, NEW body \in Seq(Byte), NEW n \in Nat, Len(buffer) <= n,
           Fill(body, n), partial' \in Seq(Byte)
    PROVE  BuffersOK' /\ mode' \in {mode, "blocks", "messages"}
<1>. DEFINE fill == IF n - Len(buffer) > Len(body) THEN Len(body) ELSE n - Len(buffer)
            piece == SubSeq(body, 1, fill)
<1>1. buffer \in Seq(Byte) /\ Len(buffer) \in Nat /\ Len(body) \in Nat /\ wire' \in Seq(Byte)
    BY LenProperties DEF BuffersOK, Fill
<1>2. fill \in Nat /\ fill <= Len(body) /\ Len(buffer) + fill <= n
    BY <1>1
<1>3. /\ length' = n /\ buffer' = buffer \o piece /\ data' = From(body, fill + 1)
      /\ mode' \in {mode, "blocks", "messages"}
    BY DEF Fill
<1>. HIDE DEF fill
<1>4. piece \in Seq(Byte) /\ Len(piece) = fill
    BY <1>1, <1>2, HeadOfBytes
<1>. HIDE DEF piece
<1>5. buffer' \in Seq(Byte) /\ Len(buffer') = Len(buffer) + fill
    BY <1>1, <1>3, <1>4, ConcatProperties
<1>6. data' \in Seq(Byte)
    BY <1>2, <1>3, RestOfBytes
<1>7. length' \in Nat /\ Len(buffer') <= length'
    BY <1>1, <1>2, <1>3, <1>5
<1>. QED BY <1>1, <1>3, <1>5, <1>6, <1>7 DEF BuffersOK

(* Every step keeps the bytes where they belong.                           *)
LEMMA ReaderStepOK ==
    ASSUME BuffersOK, [Next]_vars
    PROVE  BuffersOK'
<1>1. ASSUME NEW n \in 1..Len(wire), Read(n) PROVE BuffersOK'
  <2>1. wire \in Seq(Byte) /\ Len(wire) \in Nat
      BY LenProperties DEF BuffersOK
  <2>2. n \in Nat /\ n <= Len(wire)
      BY <2>1
  <2>3. SubSeq(wire, 1, n) \in Seq(Byte)
      BY <2>1, <2>2, HeadOfBytes
  <2>4. From(wire, n + 1) \in Seq(Byte)
      BY <2>1, <2>2, RestOfBytes
  <2>. QED BY <1>1, <2>3, <2>4 DEF Read, BuffersOK, readerVars
<1>2. ASSUME KeepHeader PROVE BuffersOK'
  <2>1. /\ partial \in Seq(Byte) /\ data \in Seq(Byte)
        /\ Len(partial) \in Nat /\ Len(data) \in Nat /\ Len(data) <= 8
      BY <1>2, LenProperties DEF BuffersOK, KeepHeader, IsLoneHeader, HeaderSize
  <2>2. partial' \in Seq(Byte) /\ Len(partial') = Len(partial) + Len(data)
      BY <1>2, <2>1, ConcatProperties DEF KeepHeader
  <2>3. BuffersOK'
      BY <1>2, <2>2 DEF KeepHeader, BuffersOK
  <2>. QED BY <2>3
<1>3. ASSUME Panic PROVE BuffersOK'
    BY <1>3 DEF Panic, BuffersOK
<1>4. ASSUME ReadHeader PROVE BuffersOK'
  <2>. DEFINE n == (partial \o data)[1][2]
  <2>1. /\ partial \in Seq(Byte) /\ data \in Seq(Byte) /\ data # <<>> /\ buffer = <<>>
        /\ Len(partial) \in Nat /\ Len(data) \in Nat /\ Len(partial) <= 8 /\ Len(data) > 8
        /\ partial' = <<>> /\ Fill(AfterHeader, n) /\ mode = "read"
    <3>1. partial \in Seq(Byte) /\ data \in Seq(Byte) /\ Len(partial) \in Nat /\ Len(data) \in Nat
        BY LenProperties DEF BuffersOK
    <3>2. /\ data # <<>> /\ buffer = <<>> /\ mode = "read" /\ partial' = <<>> /\ Fill(AfterHeader, n)
          /\ Len(partial) <= 8 /\ Len(data) > 8
        BY <1>4, <3>1 DEF ReadHeader, AtHeader, IsLoneHeader, HeaderSize
    <3>. QED BY <3>1, <3>2
  <2>2. Len(data) # 0
      BY <2>1, EmptySeq
  <2>3. partial \o data \in Seq(Byte) /\ Len(partial \o data) = Len(partial) + Len(data)
      BY <2>1, ConcatProperties
  <2>4. 1 \in 1..Len(partial \o data)
      BY <2>1, <2>2, <2>3
  <2>5. (partial \o data)[1] \in Byte
      BY <2>3, <2>4, ElementOfSeq
  <2>6. n \in Nat
      BY <2>5 DEF Byte
  <2>. HIDE DEF n
  <2>7. PICK k \in Nat : k <= Len(data) /\ HeaderSize + 1 - Len(partial) = k + 1
    <3>1. 8 - Len(partial) \in Nat /\ 8 - Len(partial) <= Len(data) /\ 8 + 1 - Len(partial) = (8 - Len(partial)) + 1
        BY <2>1
    <3>. QED BY <3>1 DEF HeaderSize
  <2>8. AfterHeader \in Seq(Byte)
    <3>1. AfterHeader = From(data, k + 1)
        BY <2>7 DEF AfterHeader
    <3>2. data \in Seq(Byte)
        BY <2>1
    <3>. QED BY <2>7, <3>1, <3>2, RestOfBytes
  <2>9. Len(buffer) <= n /\ <<>> \in Seq(Byte) /\ Len(<<>>) = 0
      BY <2>1, <2>6
  <2>10. BuffersOK' /\ mode' \in {mode, "blocks", "messages"}
      BY <2>1, <2>6, <2>8, <2>9, FillOK
  <2>. QED BY <2>10
<1>5. ASSUME ReadPayload PROVE BuffersOK'
  <2>1. /\ data \in Seq(Byte) /\ length \in Nat /\ Len(buffer) <= length
        /\ partial' = partial /\ partial' \in Seq(Byte) /\ Fill(data, length)
        /\ mode = "read"
      BY <1>5 DEF BuffersOK, ReadPayload, Fill
  <2>2. BuffersOK' /\ mode' \in {mode, "blocks", "messages"}
      BY <2>1, FillOK
  <2>. QED BY <2>2
<1>6. ASSUME UNCHANGED DecodeVars, UNCHANGED <<buffer, length>>,
             mode' \in {mode, "error", "garbled"}
      PROVE  BuffersOK'
    BY <1>6 DEF DecodeVars, BuffersOK
<1>7. ASSUME UNCHANGED DecodeVars, NEW ms, Return(ms) PROVE BuffersOK'
  <2>1. <<>> \in Seq(Byte) /\ Len(<<>>) = 0
      OBVIOUS
  <2>. QED BY <1>7, <2>1 DEF DecodeVars, Return, BuffersOK
<1>8. CASE NextMessage \/ NextBlock
    BY <1>6, <1>8 DEF NextMessage, NextBlock
<1>9. CASE NextStartBatch \/ MessagesDone
    BY <1>7, <1>9 DEF NextStartBatch, MessagesDone
<1>10. CASE NextBatchDone \/ BlocksDone
    BY <1>7, <1>10 DEF NextBatchDone, BlocksDone
<1>11. CASE MessageCut \/ NotABlock \/ Garbled
    BY <1>6, <1>11 DEF MessageCut, NotABlock, Garbled
<1>12. CASE UNCHANGED vars
    BY <1>6, <1>12 DEF vars, readerVars, streamVars, DecodeVars
<1>. QED BY <1>1, <1>2, <1>3, <1>4, <1>5, <1>8, <1>9, <1>10, <1>11, <1>12 DEF Next

-----------------------------------------------------------------------------
(* MessageReader: the steps, and the channel *)

(* What a step of the reader is, seen from the payload.  No payload is     *)
(* complete yet, *)
Waits(s) ==
    /\ mode = "read" /\ mode' = "read" /\ FramesOK(s)'
    /\ UNCHANGED <<sent, segs, pending, out, got, batching, dropped>>

(* segment s + 1 is complete, *)
Arrives(s) ==
    /\ mode = "read" /\ s < Len(segs) /\ FramesOK(s + 1)'
    /\ mode' = IF batching THEN "blocks" ELSE "messages"
    /\ pending' = IF batching THEN pending \o segs[s + 1] ELSE segs[s + 1]
    /\ UNCHANGED <<sent, segs, out, got, batching, dropped>>

(* a message is decoded, *)
Decodes ==
    /\ mode # "read" /\ mode' = mode /\ pending # <<>> /\ Complete /\ Intact
    /\ FirstKind # "StartBatch" /\ (mode = "blocks" => FirstKind = "Block")
    /\ Take
    /\ UNCHANGED <<sent, segs, got, batching, dropped>>

(* a batch starts, *)
Starts ==
    /\ mode = "messages" /\ mode' = "read" /\ pending # <<>> /\ Complete /\ Intact
    /\ FirstKind = "StartBatch" /\ batching' = TRUE
    /\ pending' = From(pending, FirstSize + 1)
    /\ got' = got \o Append(out, First) /\ out' = <<>>
    /\ UNCHANGED <<sent, segs, dropped>>

(* a batch ends, *)
Ends ==
    /\ mode = "blocks" /\ mode' = "read" /\ pending # <<>> /\ Complete /\ Intact
    /\ FirstKind = "BatchDone" /\ batching' = FALSE
    /\ pending' = <<>> /\ dropped' = dropped \cup Range(From(pending, FirstSize + 1))
    /\ got' = got \o Append(out, First) /\ out' = <<>>
    /\ UNCHANGED <<sent, segs>>

(* the segment is decoded, *)
Returns ==
    /\ mode # "read" /\ mode' = "read"
    /\ mode = "messages" => pending = <<>>
    /\ mode = "blocks" /\ pending # <<>> => StartsWith("Block") /\ ~Complete
    /\ got' = got \o out /\ out' = <<>>
    /\ UNCHANGED <<sent, segs, batching, pending, dropped>>

(* or the reader fails.                                                    *)
Fails == Panic \/ MessageCut \/ NotABlock \/ Garbled

(* There are no other steps.                                               *)
LEMMA StepKinds ==
    ASSUME BuffersOK, IsStream(sent, segs), mode \in {"read", "messages", "blocks"},
           NEW s \in 0..Len(segs), FramesOK(s), PendingOK(s), Next
    PROVE  \/ Waits(s) \/ Arrives(s)
           \/ (Decodes \/ Starts \/ Ends \/ Returns) /\ FramesOK(s)'
           \/ Fails
<1>1. segs \in Seq(Seq(Byte))
    BY StreamIs
<1>2. ASSUME NEW n \in 1..Len(wire), Read(n) PROVE Waits(s)
  <2>1. FramesOK(s)'
      BY <1>1, <1>2, ReadFrames
  <2>. QED BY <1>2, <2>1 DEF Waits, Read, streamVars, readerVars
<1>3. ASSUME KeepHeader PROVE Waits(s)
  <2>1. FramesOK(s)'
      BY <1>1, <1>3, KeepFrames
  <2>. QED BY <1>3, <2>1 DEF Waits, KeepHeader, AtHeader, streamVars
<1>4. ASSUME mode = "read", s < Len(segs), Fills(s), UNCHANGED <<sent, segs, batching, out, got, dropped>>
      PROVE  Waits(s) \/ Arrives(s)
    BY <1>4 DEF Waits, Arrives, Fills
<1>5. ASSUME ReadHeader PROVE Waits(s) \/ Arrives(s)
  <2>1. s < Len(segs) /\ Fills(s)
      BY <1>1, <1>5, HeaderFrames
  <2>2. mode = "read" /\ UNCHANGED <<sent, segs, batching, out, got, dropped>>
      BY <1>5 DEF ReadHeader, AtHeader, Fill, streamVars
  <2>. QED BY <1>4, <2>1, <2>2
<1>6. ASSUME ReadPayload PROVE Waits(s) \/ Arrives(s)
  <2>1. s < Len(segs) /\ Fills(s)
      BY <1>1, <1>6, PayloadFrames
  <2>2. mode = "read" /\ UNCHANGED <<sent, segs, batching, out, got, dropped>>
      BY <1>6 DEF ReadPayload, Fill, streamVars
  <2>. QED BY <1>4, <2>1, <2>2
<1>7. ASSUME UNCHANGED DecodeVars, mode # "read", mode' # "read" \/ buffer' = <<>>
      PROVE  FramesOK(s)' /\ UNCHANGED <<sent, segs>>
  <2>1. UNCHANGED <<sent, segs, wire, data, partial>>
      BY <1>7 DEF DecodeVars, streamVars
  <2>. QED BY <1>7, <2>1, DecodeFrames
<1>8. ASSUME NextMessage PROVE Decodes /\ FramesOK(s)'
  <2>1. Intact
      BY <1>8, IntactInSegment DEF NextMessage
  <2>. QED BY <1>7, <1>8, <2>1 DEF NextMessage, Decodes
<1>9. ASSUME NextStartBatch PROVE Starts /\ FramesOK(s)'
  <2>1. Intact
      BY <1>9, IntactInSegment DEF NextStartBatch
  <2>. QED BY <1>7, <1>9, <2>1 DEF NextStartBatch, Starts, Return
<1>10. ASSUME MessagesDone PROVE Returns /\ FramesOK(s)'
    BY <1>7, <1>10 DEF MessagesDone, Returns, Return
<1>11. ASSUME NextBlock PROVE Decodes /\ FramesOK(s)'
    BY <1>7, <1>11 DEF NextBlock, Decodes, StartsWith
<1>12. ASSUME NextBatchDone PROVE Ends /\ FramesOK(s)'
  <2>1. FirstKind = "BatchDone" /\ Len(pending) >= 2 /\ \A k \in 1..2 : pending[k] = <<First, k>>
      BY <1>12 DEF NextBatchDone, StartsWith
  <2>2. FirstSize = 2
      BY <2>1, SizeAssumption DEF FirstSize
  <2>3. Complete /\ Intact
      BY <2>1, <2>2 DEF Complete, Intact
  <2>. QED BY <1>7, <1>12, <2>1, <2>3 DEF NextBatchDone, Ends, Return
<1>13. ASSUME BlocksDone PROVE Returns /\ FramesOK(s)'
    BY <1>7, <1>13 DEF BlocksDone, Returns, Return
<1>. QED BY <1>2, <1>3, <1>5, <1>6, <1>8, <1>9, <1>10, <1>11, <1>12, <1>13 DEF Next, Fails

(* The bytes at hand begin with segment s + 1, the pending bytes end with  *)
(* segment s, and the messages come in order.                              *)
InPlace(s) == FramesOK(s) /\ PendingOK(s) /\ OrderOK(s)

(* The inductive invariant of the refinement: until the reader fails,      *)
(* everything is in its place.                                             *)
ChannelInv ==
    /\ IsStream(sent, segs) /\ BuffersOK
    /\ ~Failed =>
         /\ mode \in {"read", "messages", "blocks"} /\ GotOK
         /\ \E s \in 0..Len(segs) : InPlace(s)

(* The pending bytes stay in their place when a segment arrives.           *)
LEMMA ArrivesPending ==
    ASSUME IsStream(sent, segs), NEW s \in 0..Len(segs), PendingOK(s), Arrives(s)
    PROVE  /\ s + 1 \in 0..Len(segs) /\ PendingOK(s + 1)'
           /\ PendingAt(s + 1)' = PendingAt(s) /\ Body' = Body
           /\ BodyEnd(s)' = BodyEnd(s)
<1>1. segs \in Seq(Seq(Byte))
    BY StreamIs
<1>2. Len(segs) \in Nat
    BY <1>1, BodyIs
<1>3. PICK i \in 1..Len(segs) : i = s + 1 /\ i - 1 = s /\ i \in 0..Len(segs) /\ i > 0
  <2>1. s < Len(segs)
      BY DEF Arrives
  <2>2. \A n \in Nat : \A j \in 0..n : j < n =>
           j + 1 \in 1..n /\ j + 1 - 1 = j /\ j + 1 \in 0..n /\ j + 1 > 0
      OBVIOUS
  <2>. QED BY <1>2, <2>1, <2>2
<1>4. PICK seg : seg = segs[i]
    OBVIOUS
<1>5. /\ seg \in Seq(Byte) /\ Len(seg) \in Nat /\ BodyEnd(i) = BodyEnd(s) + Len(seg)
      /\ \A j \in 1..Len(seg) : Body[BodyEnd(s) + j] = seg[j]
    BY <1>1, <1>3, <1>4, BodyIs
<1>6. BodyEnd(s) \in Nat /\ BodyEnd(i) \in Nat /\ BodyEnd(i) <= Len(Body) /\ Len(Body) \in Nat
    BY <1>1, <1>3, BodyIs
<1>7. /\ pending \in Seq(Byte) /\ Len(pending) \in Nat /\ IsSlice(pending, Body, PendingAt(s))
      /\ PendingAt(s) \in Nat /\ out = <<>> /\ (~batching => pending = <<>>)
    BY LenProperties DEF PendingOK, IsSlice, Arrives
<1>8. /\ mode' = (IF batching THEN "blocks" ELSE "messages") /\ batching' = batching
      /\ pending' = (IF batching THEN pending \o seg ELSE seg) /\ segs' = segs /\ out' = out
    BY <1>3, <1>4 DEF Arrives
<1>9. Body' = Body /\ BodyEnd(s)' = BodyEnd(s) /\ BodyEnd(i)' = BodyEnd(i)
    BY <1>8 DEF Body, BodyEnd
<1>10. PICK e \in Nat, n \in Nat, l \in Nat, a \in Nat :
          /\ e = BodyEnd(s) /\ n = Len(seg) /\ l = Len(pending) /\ a = PendingAt(s)
          /\ a = e - l /\ BodyEnd(i) = e + n
    BY <1>5, <1>6, <1>7 DEF PendingAt
<1>11. IsSlice(seg, Body, e)
    BY <1>5, <1>6, <1>10 DEF IsSlice
<1>12. CASE batching
  <2>1. pending' = pending \o seg
      BY <1>8, <1>12
  <2>2. pending \in Seq(Byte)
      BY <1>7
  <2>3. seg \in Seq(Byte)
      BY <1>5
  <2>4. pending' \in Seq(Byte) /\ Len(pending') = l + n
    <3>1. pending' \in Seq(Byte) /\ Len(pending') = Len(pending) + Len(seg)
        BY <2>1, <2>2, <2>3, ConcatBytes
    <3>. QED BY <1>10, <3>1
  <2>5. e = a + Len(pending)
      BY <1>10, SMTT(40)
  <2>6. IsSlice(pending, Body, a) /\ Len(Body) \in Nat
      BY <1>6, <1>7, <1>10
  <2>7. IsSlice(pending', Body, a)
      BY <1>11, <2>1, <2>2, <2>3, <2>5, <2>6, SliceJoined
  <2>8. PendingAt(i)' = a
    <3>1. \A x, y, z, u \in Nat : u = x - y => (x + z) - (y + z) = u
        OBVIOUS
    <3>2. (e + n) - (l + n) = a
        BY <1>10, <3>1
    <3>. QED BY <1>9, <1>10, <2>4, <3>2 DEF PendingAt
  <2>9. PendingOK(i)'
      BY <1>3, <1>8, <1>9, <1>12, <2>4, <2>7, <2>8 DEF PendingOK
  <2>. QED BY <1>3, <1>9, <1>10, <2>8, <2>9
<1>13. CASE ~batching
  <2>1. pending' = seg /\ l = 0
      BY <1>7, <1>8, <1>10, <1>13
  <2>2. PendingAt(i)' = e /\ a = e
    <3>1. \A x, y \in Nat : (x + y) - y = x /\ x - 0 = x
        OBVIOUS
    <3>. QED BY <1>9, <1>10, <2>1, <3>1 DEF PendingAt
  <2>3. BodyEnd(i - 1)' = e
      BY <1>3, <1>9, <1>10
  <2>4. PendingOK(i)'
      BY <1>3, <1>5, <1>8, <1>9, <1>11, <1>13, <2>1, <2>2, <2>3 DEF PendingOK
  <2>. QED BY <1>3, <1>9, <1>10, <2>2, <2>4
<1>. QED BY <1>12, <1>13

(* More messages have begun in more bytes.                                 *)
LEMMA BegunGrows ==
    ASSUME NEW i \in Nat, NEW k \in Nat, i <= k
    PROVE  Begun(Body, i) \subseteq Begun(Body, k)
<1>1. \A j \in 1..i : j \in 1..k
    OBVIOUS
<1>. QED BY <1>1 DEF Begun

(* A message is decoded in order.                                          *)
LEMMA DecodesInOrder ==
    ASSUME IsStream(sent, segs), GotOK, NEW s \in 0..Len(segs), PendingOK(s), OrderOK(s), Decodes
    PROVE  GotOK' /\ PendingOK(s)' /\ OrderOK(s)'
<1>1. Len(sent) \in Nat
    BY StreamIs
<1>2. /\ mode # "read" /\ mode' = mode /\ pending # <<>> /\ Complete /\ Intact
      /\ out' = Append(out, First) /\ pending' = From(pending, FirstSize + 1)
      /\ sent' = sent /\ segs' = segs /\ got' = got /\ batching' = batching
    BY DEF Decodes, Take
<1>3. /\ First \in 1..Len(sent) /\ FirstSize \in Nat /\ PendingAt(s) \in Nat
      /\ Begun(Body, PendingAt(s)) = 1..(First - 1)
      /\ Begun(Body, PendingAt(s) + FirstSize) = 1..First
    BY <1>2, MessageTaken
<1>4. /\ out # <<>> => First = LastOf(out) + 1
      /\ out = <<>> => First = LastOf(got) + 1 \/ (First > LastOf(got) /\ Skips)
    BY <1>1, <1>3, NextInOrder
<1>5. Run(out') /\ out' # <<>> /\ LastOf(out') = First
    BY <1>1, <1>2, <1>3, <1>4, RunAppend
<1>6. GotOK'
    BY <1>2, <1>5 DEF GotOK, Run, LastOf, Skips
<1>7. FirstSize <= Len(pending)
    BY <1>2, <1>3 DEF Complete
<1>8. /\ pending' \in Seq(Byte) /\ PendingAt(s)' = PendingAt(s) + FirstSize
      /\ IsSlice(pending', Body', PendingAt(s)')
      /\ Body' = Body /\ BodyEnd(s - 1)' = BodyEnd(s - 1)
    BY <1>2, <1>3, <1>7, RestIsPending
<1>9. ASSUME mode' = "messages" PROVE BodyEnd(s - 1)' <= PendingAt(s)' /\ s > 0 /\ ~batching'
  <2>1. BodyEnd(s - 1) <= PendingAt(s) /\ s > 0 /\ ~batching
      BY <1>2, <1>9 DEF PendingOK
  <2>2. BodyEnd(s - 1) \in Nat
    <3>1. segs \in Seq(Seq(Byte))
        BY StreamIs
    <3>2. Len(segs) \in Nat
        BY <3>1, BodyIs
    <3>3. s - 1 \in 0..Len(segs)
        BY <2>1, <3>2
    <3>. QED BY <3>1, <3>3, BodyIs
  <2>3. \A x, y, z \in Nat : x <= y => x <= y + z
      OBVIOUS
  <2>4. BodyEnd(s - 1) <= PendingAt(s) + FirstSize
      BY <1>3, <2>1, <2>2, <2>3
  <2>. QED BY <1>2, <1>8, <2>1, <2>4
<1>10. PendingOK(s)'
    BY <1>2, <1>8, <1>9 DEF PendingOK
<1>11. OrderOK(s)'
  <2>1. LastOut' = First
      BY <1>5 DEF LastOut, LastOf
  <2>2. Begun(Body', PendingAt(s)') = 1..LastOut'
      BY <1>3, <1>8, <2>1
  <2>. QED BY <2>2 DEF OrderOK
<1>. QED BY <1>6, <1>10, <1>11

(* What is returned with a message comes in order.                         *)
LEMMA LastInOrder ==
    ASSUME IsStream(sent, segs), GotOK, NEW s \in 0..Len(segs), PendingOK(s), OrderOK(s),
           pending # <<>>, Complete, Intact, got' = got \o Append(out, First), out' = <<>>, sent' = sent
    PROVE  /\ GotOK' /\ Run(Append(out, First)) /\ LastOut' = First /\ got' # <<>> /\ LastOf(got)' = First
           /\ Len(got') = Len(got) + Len(out) + 1
<1>1. Len(sent) \in Nat
    BY StreamIs
<1>2. First \in 1..Len(sent) /\ Begun(Body, PendingAt(s)) = 1..(First - 1)
    BY MessageTaken
<1>3. /\ out # <<>> => First = LastOf(out) + 1
      /\ out = <<>> => First = LastOf(got) + 1 \/ (First > LastOf(got) /\ Skips)
    BY <1>1, <1>2, NextInOrder
<1>4. PICK ms : ms = Append(out, First)
    OBVIOUS
<1>5. Run(ms) /\ ms # <<>> /\ LastOf(ms) = First /\ Len(ms) = Len(out) + 1
    BY <1>1, <1>2, <1>3, <1>4, RunAppend
<1>6. got' \in Seq(1..Len(sent)) /\ got' # <<>> /\ LastOf(got') = First /\ Len(got') = Len(got) + Len(ms)
    BY <1>1, <1>4, <1>5, RunReturned
<1>7. Len(got') = Len(got) + Len(out) + 1
  <2>1. Len(got) \in Nat /\ Len(out) \in Nat
      BY LenProperties DEF GotOK, Run
  <2>. QED BY <1>5, <1>6, <2>1
<1>8. Run(out)'
  <2>1. <<>> \in Seq(1..Len(sent)) /\ Len(<<>>) = 0
      BY EmptySeq
  <2>. QED BY <2>1 DEF Run
<1>. QED BY <1>4, <1>5, <1>6, <1>7, <1>8 DEF GotOK, LastOut, LastOf

(* A batch starts in order.                                                *)
LEMMA StartsInOrder ==
    ASSUME IsStream(sent, segs), GotOK, NEW s \in 0..Len(segs), PendingOK(s), OrderOK(s), Starts
    PROVE  GotOK' /\ PendingOK(s)' /\ OrderOK(s)' /\ Run(Append(out, First))
<1>1. /\ mode' = "read" /\ pending # <<>> /\ Complete /\ Intact /\ batching' = TRUE
      /\ got' = got \o Append(out, First) /\ out' = <<>> /\ pending' = From(pending, FirstSize + 1)
      /\ sent' = sent /\ segs' = segs
    BY DEF Starts
<1>2. GotOK' /\ Run(Append(out, First)) /\ LastOut' = First
    BY <1>1, LastInOrder
<1>3. FirstSize \in Nat /\ Begun(Body, PendingAt(s) + FirstSize) = 1..First
    BY <1>1, MessageTaken
<1>4. FirstSize <= Len(pending)
    BY <1>1, <1>3 DEF Complete
<1>5. /\ pending' \in Seq(Byte) /\ PendingAt(s)' = PendingAt(s) + FirstSize
      /\ IsSlice(pending', Body', PendingAt(s)') /\ Body' = Body
    BY <1>1, <1>3, <1>4, RestIsPending
<1>6. PendingOK(s)'
    BY <1>1, <1>5 DEF PendingOK
<1>7. OrderOK(s)'
    BY <1>2, <1>3, <1>5 DEF OrderOK
<1>. QED BY <1>2, <1>6, <1>7

(* A batch ends in order; what is behind it is skipped.                    *)
LEMMA EndsInOrder ==
    ASSUME IsStream(sent, segs), GotOK, NEW s \in 0..Len(segs), PendingOK(s), OrderOK(s), Ends
    PROVE  /\ GotOK' /\ PendingOK(s)' /\ OrderOK(s)' /\ Run(Append(out, First))
           /\ PendingAt(s)' = BodyEnd(s)
<1>1. /\ mode' = "read" /\ pending # <<>> /\ Complete /\ Intact /\ batching' = FALSE
      /\ got' = got \o Append(out, First) /\ out' = <<>> /\ pending' = <<>>
      /\ sent' = sent /\ segs' = segs /\ FirstKind = "BatchDone"
    BY DEF Ends
<1>2. GotOK' /\ Run(Append(out, First)) /\ got' # <<>> /\ LastOf(got)' = First
    BY <1>1, LastInOrder
<1>3. /\ FirstSize \in Nat /\ Begun(Body, PendingAt(s) + FirstSize) = 1..First
      /\ PendingAt(s) + FirstSize \in Nat /\ PendingAt(s) + FirstSize <= BodyEnd(s)
    BY <1>1, MessageTaken
<1>4. BodyEnd(s) \in Nat /\ BodyEnd(s) <= Len(Body) /\ Len(Body) \in Nat
  <2>1. segs \in Seq(Seq(Byte))
      BY StreamIs
  <2>. QED BY <2>1, BodyIs
<1>5. Body' = Body /\ PendingAt(s)' = BodyEnd(s)
  <2>1. Body' = Body /\ BodyEnd(s)' = BodyEnd(s)
      BY <1>1 DEF Body, BodyEnd
  <2>2. PendingAt(s)' = BodyEnd(s) - 0
      BY <1>1, <2>1 DEF PendingAt
  <2>. QED BY <1>4, <2>1, <2>2
<1>6. PendingOK(s)'
  <2>1. BodyEnd(s) \in 0..Len(Body)
      BY <1>4
  <2>2. IsSlice(<<>>, Body, BodyEnd(s)) /\ <<>> \in Seq(Byte)
      BY <1>4, <2>1, EmptySlice
  <2>. QED BY <1>1, <1>5, <2>2 DEF PendingOK
<1>7. OrderOK(s)'
  <2>1. 1..First \subseteq Begun(Body, BodyEnd(s))
      BY <1>3, <1>4, BegunGrows
  <2>2. Skips'
      BY <1>1, <1>2 DEF Skips, FirstKind
  <2>. QED BY <1>1, <1>2, <1>5, <2>1, <2>2 DEF OrderOK
<1>. QED BY <1>2, <1>5, <1>6, <1>7

(* The messages of a segment are returned in order.                        *)
LEMMA ReturnsInOrder ==
    ASSUME IsStream(sent, segs), GotOK, NEW s \in 0..Len(segs), PendingOK(s), OrderOK(s), Returns,
           mode \in {"messages", "blocks"}
    PROVE  /\ GotOK' /\ PendingOK(s)' /\ OrderOK(s)' /\ LastOut' = LastOut /\ PendingAt(s)' = PendingAt(s)
           /\ Len(got') = Len(got) + Len(out)
<1>1. Len(sent) \in Nat
    BY StreamIs
<1>2. /\ mode' = "read" /\ got' = got \o out /\ out' = <<>> /\ pending' = pending
      /\ sent' = sent /\ segs' = segs /\ batching' = batching
      /\ mode = "messages" => pending = <<>>
    BY DEF Returns
<1>3. Run(out)
    BY DEF GotOK
<1>4. /\ got' \in Seq(1..Len(sent)) /\ Len(got') = Len(got) + Len(out)
      /\ out = <<>> => got' = got
      /\ out # <<>> => got' # <<>> /\ LastOf(got') = LastOf(out)
    BY <1>1, <1>2, <1>3, RunReturned
<1>5. GotOK'
  <2>1. <<>> \in Seq(1..Len(sent)) /\ Len(<<>>) = 0
      BY EmptySeq
  <2>. QED BY <1>2, <1>4, <2>1 DEF GotOK, Run
<1>6. Body' = Body /\ BodyEnd(s)' = BodyEnd(s) /\ PendingAt(s)' = PendingAt(s)
    BY <1>2 DEF Body, BodyEnd, PendingAt
<1>7. PendingOK(s)'
    BY <1>2, <1>6 DEF PendingOK
<1>8. LastOut' = LastOut
    BY <1>2, <1>4 DEF LastOut, LastOf
<1>9. OrderOK(s)'
  <2>1. CASE Begun(Body, PendingAt(s)) = 1..LastOut
      BY <1>6, <1>8, <2>1 DEF OrderOK
  <2>2. CASE out = <<>> /\ Skips /\ 1..LastOf(got) \subseteq Begun(Body, PendingAt(s))
    <3>1. got' = got /\ LastOf(got)' = LastOf(got) /\ Skips'
        BY <1>2, <1>4, <2>2 DEF LastOf, Skips
    <3>. QED BY <1>2, <1>6, <2>2, <3>1 DEF OrderOK
  <2>. QED BY <2>1, <2>2 DEF OrderOK
<1>. QED BY <1>4, <1>5, <1>6, <1>7, <1>8, <1>9

(* A step keeps the bytes in their places and the messages in order.       *)
LEMMA StepsInPlace ==
    ASSUME BuffersOK, IsStream(sent, segs), GotOK, mode \in {"read", "messages", "blocks"},
           NEW s \in 0..Len(segs), InPlace(s), Next
    PROVE  \/ Waits(s) /\ InPlace(s)' /\ GotOK'
           \/ Arrives(s) /\ s + 1 \in 0..Len(segs) /\ InPlace(s + 1)' /\ GotOK'
           \/ (Decodes \/ Starts \/ Ends \/ Returns) /\ InPlace(s)' /\ GotOK'
           \/ Fails
<1>1. FramesOK(s) /\ PendingOK(s) /\ OrderOK(s)
    BY DEF InPlace
<1>2. CASE Waits(s)
  <2>1. mode' = mode /\ FramesOK(s)' /\ UNCHANGED <<sent, segs, pending, out, got, batching>>
      BY <1>2 DEF Waits
  <2>2. GotOK' /\ PendingOK(s)' /\ OrderOK(s)'
      BY <1>1, <2>1 DEF GotOK, Run, LastOf, Skips, PendingOK, OrderOK, PendingAt, Body, BodyEnd, LastOut
  <2>. QED BY <1>2, <2>1, <2>2 DEF InPlace
<1>3. CASE Arrives(s)
  <2>1. FramesOK(s + 1)' /\ UNCHANGED <<sent, segs, out, got>>
      BY <1>3 DEF Arrives
  <2>2. /\ s + 1 \in 0..Len(segs) /\ PendingOK(s + 1)'
        /\ PendingAt(s + 1)' = PendingAt(s) /\ Body' = Body
      BY <1>1, <1>3, ArrivesPending
  <2>3. GotOK' /\ OrderOK(s + 1)'
      BY <1>1, <2>1, <2>2 DEF GotOK, Run, LastOf, Skips, OrderOK, LastOut
  <2>. QED BY <1>3, <2>1, <2>2, <2>3 DEF InPlace
<1>4. CASE Decodes /\ FramesOK(s)'
  <2>1. GotOK' /\ PendingOK(s)' /\ OrderOK(s)'
      BY <1>1, <1>4, DecodesInOrder
  <2>. QED BY <1>4, <2>1 DEF InPlace
<1>5. CASE (Starts \/ Ends) /\ FramesOK(s)'
  <2>1. GotOK' /\ PendingOK(s)' /\ OrderOK(s)'
      BY <1>1, <1>5, StartsInOrder, EndsInOrder
  <2>. QED BY <1>5, <2>1 DEF InPlace
<1>6. CASE Returns /\ FramesOK(s)'
  <2>1. mode \in {"messages", "blocks"}
      BY <1>6 DEF Returns
  <2>2. GotOK' /\ PendingOK(s)' /\ OrderOK(s)'
      BY <1>1, <1>6, <2>1, ReturnsInOrder
  <2>. QED BY <1>6, <2>2 DEF InPlace
<1>. QED BY <1>1, <1>2, <1>3, <1>4, <1>5, <1>6, StepKinds

(* A step that fails returns nothing.                                      *)
LEMMA FailsReturnNothing ==
    ASSUME Fails
    PROVE  UNCHANGED <<sent, segs, got, overrun>> /\ mode' \in {"error", "panic", "garbled"} /\ Failed'
<1>1. UNCHANGED <<sent, segs, got, overrun>> /\ mode' \in {"error", "panic", "garbled"}
    BY DEF Fails, Panic, MessageCut, NotABlock, Garbled, DecodeVars, streamVars
<1>. QED BY <1>1 DEF Failed

(* A reader that failed does nothing more.                                 *)
LEMMA FailedStops ==
    ASSUME Next
    PROVE  ~Failed
  BY DEF Failed, Next, Read, KeepHeader, Panic, ReadHeader, ReadPayload, AtHeader,
         NextMessage, NextStartBatch, MessagesDone, MessageCut,
         NextBlock, NextBatchDone, BlocksDone, NotABlock, Garbled

(* Nothing moves in a step that changes nothing.                           *)
LEMMA StaysInPlace ==
    ASSUME UNCHANGED vars, NEW s
    PROVE  InPlace(s)' <=> InPlace(s)
<1>1. UNCHANGED <<sent, segs, wire, data, partial, buffer, length, batching, pending, out, got, mode>>
    BY DEF vars, streamVars, readerVars
<1>2. FramesOK(s)' <=> FramesOK(s)
    BY <1>1 DEF FramesOK, DataAt, HeaderAt, Whole, WireEnd
<1>3. (PendingOK(s)' <=> PendingOK(s)) /\ (OrderOK(s)' <=> OrderOK(s))
    BY <1>1 DEF PendingOK, OrderOK, PendingAt, Body, BodyEnd, LastOut, LastOf, Skips
<1>. QED BY <1>2, <1>3 DEF InPlace

(* Every step keeps the order, and is a step of the channel.               *)
LEMMA ChannelStepOK ==
    ASSUME ChannelInv, [Next]_vars
    PROVE  ChannelInv' /\ [Channel!ChannelNext]_(Channel!channelVars)
<1>1. CASE UNCHANGED vars
  <2>1. UNCHANGED <<sent, segs, wire, data, partial, buffer, length, batching, pending, out, got, mode, overrun>>
      BY <1>1 DEF vars, streamVars, readerVars
  <2>2. ChannelInv'
    <3>1. IsStream(sent, segs)' /\ BuffersOK'
        BY <2>1 DEF ChannelInv, BuffersOK
    <3>2. Failed' = Failed /\ (GotOK <=> GotOK')
        BY <2>1 DEF Failed, GotOK, Run, LastOf, Skips
    <3>3. \A s : InPlace(s)' <=> InPlace(s)
        BY <1>1, StaysInPlace
    <3>. QED BY <2>1, <3>1, <3>2, <3>3 DEF ChannelInv
  <2>. QED BY <2>1, <2>2 DEF Channel!channelVars, Failed
<1>2. CASE Next
  <2>1. ~Failed
      BY <1>2, FailedStops
  <2>2. /\ IsStream(sent, segs) /\ BuffersOK /\ GotOK
        /\ mode \in {"read", "messages", "blocks"}
      BY <2>1 DEF ChannelInv
  <2>3. PICK s \in 0..Len(segs) : InPlace(s)
      BY <2>1 DEF ChannelInv
  <2>4. BuffersOK' /\ sent \in Seq(DOMAIN Size)
      BY <2>2, ReaderStepOK, StreamIs
  <2>5. ASSUME sent' = sent, segs' = segs, GotOK', NEW i \in 0..Len(segs), InPlace(i)',
               mode' \in {"read", "messages", "blocks"}
        PROVE  ChannelInv'
      BY <2>2, <2>4, <2>5 DEF ChannelInv
  <2>6. ~Failed' <=> mode' \notin {"error", "panic", "garbled"}
      BY DEF Failed
  <2>7. CASE Waits(s) /\ InPlace(s)' /\ GotOK'
    <3>1. mode' = mode /\ mode = "read" /\ UNCHANGED <<sent, segs, got>>
        BY <2>7 DEF Waits
    <3>2. UNCHANGED Channel!channelVars
        BY <3>1 DEF Channel!channelVars, Failed
    <3>. QED BY <2>5, <2>7, <3>1, <3>2
  <2>8. CASE Arrives(s) /\ s + 1 \in 0..Len(segs) /\ InPlace(s + 1)' /\ GotOK'
    <3>1. mode' \in {"blocks", "messages"} /\ UNCHANGED <<sent, segs, got>>
        BY <2>8 DEF Arrives
    <3>2. UNCHANGED Channel!channelVars
        BY <2>1, <3>1 DEF Channel!channelVars, Failed
    <3>. QED BY <2>5, <2>8, <3>1, <3>2
  <2>9. CASE Decodes /\ InPlace(s)' /\ GotOK'
    <3>1. UNCHANGED <<sent, segs, got>> /\ mode' = mode
        BY <2>9 DEF Decodes
    <3>2. UNCHANGED Channel!channelVars
        BY <3>1 DEF Channel!channelVars, Failed
    <3>. QED BY <2>2, <2>5, <2>9, <3>1, <3>2
  <2>10. CASE (Starts \/ Ends) /\ InPlace(s)' /\ GotOK'
    <3>1. Run(Append(out, First))
        BY <2>2, <2>3, <2>10, StartsInOrder, EndsInOrder DEF InPlace
    <3>2. UNCHANGED <<sent, segs>> /\ mode' = "read" /\ got' = got \o Append(out, First)
        BY <2>10 DEF Starts, Ends
    <3>3. ~Failed'
        BY <2>6, <3>2
    <3>4. [Channel!ChannelNext]_(Channel!channelVars)
        BY <2>1, <2>2, <2>4, <3>1, <3>2, <3>3, ReturnDelivers
    <3>. QED BY <2>5, <2>10, <3>2, <3>4
  <2>11. CASE Returns /\ InPlace(s)' /\ GotOK'
    <3>1. UNCHANGED <<sent, segs>> /\ mode' = "read" /\ got' = got \o out
        BY <2>11 DEF Returns
    <3>2. ~Failed' /\ Run(out)
        BY <2>2, <2>6, <3>1 DEF GotOK
    <3>3. [Channel!ChannelNext]_(Channel!channelVars)
        BY <2>1, <2>2, <2>4, <3>1, <3>2, ReturnDelivers
    <3>. QED BY <2>5, <2>11, <3>1, <3>3
  <2>12. CASE Fails
    <3>1. UNCHANGED <<sent, segs, got>> /\ Failed'
        BY <2>12, FailsReturnNothing
    <3>2. ChannelInv'
        BY <2>2, <2>4, <3>1 DEF ChannelInv
    <3>3. Failed' = TRUE
        BY <3>1 DEF Failed
    <3>4. Channel!Fail
        BY <2>1, <3>1, <3>3 DEF Channel!Fail
    <3>. QED BY <3>2, <3>4 DEF Channel!ChannelNext
  <2>. QED BY <1>2, <2>2, <2>3, <2>7, <2>8, <2>9, <2>10, <2>11, <2>12, StepsInPlace
<1>. QED BY <1>1, <1>2

(* The reader begins with nothing read.                                    *)
LEMMA ChannelInitOK ==
    ASSUME Init
    PROVE  ChannelInv /\ InPlace(0) /\ 0 \in 0..Len(segs) /\ PendingAt(0) = 0 /\ Channel!ChannelInit
<1>1. IsStream(sent, segs)
    BY WireAssumption DEF Init
<1>2. segs \in Seq(Seq(Byte)) /\ Len(sent) \in Nat
    BY <1>1, StreamIs
<1>3. /\ Len(segs) \in Nat /\ Len(Body) \in Nat /\ BodyEnd(0) = 0
      /\ Len(Whole) \in Nat /\ WireEnd(0) = 0 /\ Whole \in Seq(Byte)
    BY <1>2, BodyIs, WholeIs
<1>4. <<>> \in Seq(Byte) /\ Len(<<>>) = 0 /\ <<>> \in Seq(1..Len(sent))
    BY EmptySeq
<1>5. /\ wire = Whole /\ data = <<>> /\ partial = <<>> /\ buffer = <<>> /\ length = 0
      /\ batching = FALSE /\ pending = <<>> /\ out = <<>> /\ got = <<>> /\ mode = "read" /\ overrun = FALSE
    BY DEF Init, Whole
<1>6. BuffersOK
    BY <1>3, <1>4, <1>5 DEF BuffersOK
<1>7. 0 \in 0..Len(segs) /\ 0 \in 0..Len(Body) /\ 0 \in 0..Len(Whole)
    BY <1>3
<1>8. FramesOK(0)
  <2>1. Len(Whole) - Len(wire) = 0 /\ DataAt = 0 /\ HeaderAt = 0
    <3>1. \A n \in Nat : n - n = 0 /\ n - n - 0 = 0 /\ 0 - 0 = 0
        OBVIOUS
    <3>2. Len(Whole) - Len(wire) = 0
        BY <1>3, <1>5, <3>1
    <3>3. DataAt = 0
        BY <1>3, <1>4, <1>5, <3>1 DEF DataAt
    <3>. QED BY <1>4, <1>5, <3>1, <3>2, <3>3 DEF HeaderAt
  <2>2. IsSlice(<<>>, Whole, 0)
      BY <1>3, <1>7, EmptySlice
  <2>3. IsSlice(wire, Whole, 0)
      BY <1>3, <1>5 DEF IsSlice
  <2>. QED BY <1>3, <1>5, <2>1, <2>2, <2>3 DEF FramesOK
<1>9. PendingAt(0) = 0
    BY <1>3, <1>4, <1>5 DEF PendingAt
<1>10. PendingOK(0)
  <2>1. IsSlice(<<>>, Body, 0)
      BY <1>3, <1>7, EmptySlice
  <2>. QED BY <1>4, <1>5, <1>9, <2>1 DEF PendingOK
<1>11. OrderOK(0)
  <2>1. Begun(Body, 0) = {} /\ 1..0 = {}
      BY DEF Begun
  <2>. QED BY <1>5, <1>9, <2>1 DEF OrderOK, LastOut, LastOf
<1>12. GotOK
    BY <1>4, <1>5 DEF GotOK, Run
<1>. QED BY <1>1, <1>5, <1>6, <1>7, <1>8, <1>9, <1>10, <1>11, <1>12 DEF ChannelInv, InPlace, Channel!ChannelInit, Failed

(* The places of the bytes and the order of the messages are kept.         *)
THEOREM ChannelInvHolds == Spec => []ChannelInv
  BY ChannelInitOK, ChannelStepOK, PTL DEF Spec

(* Whatever the segments, the sizes of the messages and the reads: the     *)
(* reader implements the channel.                                          *)
THEOREM ReaderIsAChannel == Spec => ChannelSpec
<1>1. ChannelInv /\ [Next]_vars => [Channel!ChannelNext]_(Channel!channelVars)
    BY ChannelStepOK
<1>2. Init => Channel!ChannelInit
    BY ChannelInitOK
<1>. QED BY <1>1, <1>2, ChannelInvHolds, PTL DEF Spec, ChannelSpec, Channel!ChannelSpec

-----------------------------------------------------------------------------
(* MessageReader: every byte is kept *)

(* The first n payload bytes.                                              *)
Took(n) == {Body[i] : i \in 1..n}

(* What is decoded so far is in a message or was skipped, and what was     *)
(* skipped is in no message.                                               *)
KeptOK(s) ==
    /\ Took(PendingAt(s)) = MessageBytes(got) \cup MessageBytes(out) \cup dropped
    /\ dropped \cap (MessageBytes(got) \cup MessageBytes(out)) = {}

(* Until the reader fails, nothing is lost.                                *)
KeptInv == ~Failed => \E s \in 0..Len(segs) : InPlace(s) /\ KeptOK(s)

(* No message has no bytes,                                                *)
LEMMA BytesOfNone == MessageBytes(<<>>) = {}
<1>1. DOMAIN <<>> = {}
    OBVIOUS
<1>. QED BY <1>1 DEF MessageBytes, Range

(* two sequences of messages have the bytes of both,                       *)
LEMMA BytesOfBoth ==
    ASSUME NEW a \in Seq(1..Len(sent)), NEW b \in Seq(1..Len(sent)), NEW c, c = a \o b
    PROVE  MessageBytes(c) = MessageBytes(a) \cup MessageBytes(b)
<1>1. /\ c \in Seq(1..Len(sent)) /\ Len(a) \in Nat /\ Len(b) \in Nat /\ Len(c) = Len(a) + Len(b)
      /\ \A i \in 1..(Len(a) + Len(b)) : c[i] = IF i <= Len(a) THEN a[i] ELSE b[i - Len(a)]
    BY ConcatProperties
<1>2. DOMAIN a = 1..Len(a) /\ DOMAIN b = 1..Len(b) /\ DOMAIN c = 1..(Len(a) + Len(b))
    BY <1>1, LenProperties
<1>3. PICK x \in Nat, y \in Nat : x = Len(a) /\ y = Len(b)
    BY <1>1
<1>4. Range(c) = Range(a) \cup Range(b)
  <2>1. ASSUME NEW i \in 1..(x + y) PROVE c[i] \in Range(a) \cup Range(b)
    <3>1. CASE i <= x
      <4>1. i \in 1..x /\ c[i] = a[i]
          BY <1>1, <1>3, <3>1
      <4>. QED BY <1>2, <1>3, <4>1 DEF Range
    <3>2. CASE ~(i <= x)
      <4>1. i - x \in 1..y /\ c[i] = b[i - x]
          BY <1>1, <1>3, <3>2
      <4>. QED BY <1>2, <1>3, <4>1 DEF Range
    <3>. QED BY <3>1, <3>2
  <2>2. ASSUME NEW i \in 1..x PROVE a[i] \in Range(c)
    <3>1. i \in 1..(x + y) /\ c[i] = a[i]
        BY <1>1, <1>3
    <3>. QED BY <1>2, <1>3, <3>1 DEF Range
  <2>3. ASSUME NEW i \in 1..y PROVE b[i] \in Range(c)
    <3>1. x + i \in 1..(x + y) /\ ~(x + i <= x) /\ (x + i) - x = i
        OBVIOUS
    <3>2. c[x + i] = IF x + i <= x THEN a[x + i] ELSE b[(x + i) - x]
        BY <1>1, <1>3, <3>1
    <3>3. c[x + i] = b[i]
        BY <3>1, <3>2
    <3>. QED BY <1>2, <1>3, <3>1, <3>3 DEF Range
  <2>4. Range(c) = {c[i] : i \in 1..(x + y)} /\ Range(a) = {a[i] : i \in 1..x} /\ Range(b) = {b[i] : i \in 1..y}
      BY <1>2, <1>3 DEF Range
  <2>5. Range(c) \subseteq Range(a) \cup Range(b)
      BY <2>1, <2>4, Zenon
  <2>6. Range(a) \subseteq Range(c) /\ Range(b) \subseteq Range(c)
      BY <2>2, <2>3, <2>4, Zenon
  <2>. QED BY <2>5, <2>6, Zenon
<1>. QED BY <1>4, Zenon DEF MessageBytes

(* and one more message adds its bytes.                                    *)
LEMMA BytesOfNext ==
    ASSUME NEW a \in Seq(1..Len(sent)), NEW m \in 1..Len(sent), NEW c, c = Append(a, m)
    PROVE  /\ c \in Seq(1..Len(sent))
           /\ MessageBytes(c) = MessageBytes(a) \cup {<<m, k>> : k \in 1..Size[sent[m]]}
<1>1. /\ c \in Seq(1..Len(sent)) /\ Len(a) \in Nat /\ Len(c) = Len(a) + 1
      /\ \A i \in 1..Len(a) : c[i] = a[i]
      /\ c[Len(a) + 1] = m
    BY AppendProperties
<1>2. DOMAIN a = 1..Len(a) /\ DOMAIN c = 1..(Len(a) + 1)
    BY <1>1, LenProperties
<1>3. PICK x \in Nat : x = Len(a)
    BY <1>1
<1>4. Range(c) = Range(a) \cup {m}
  <2>1. \A i \in 1..(x + 1) : i \in 1..x \/ i = x + 1
      OBVIOUS
  <2>2. \A i \in 1..x : i \in 1..(x + 1)
      OBVIOUS
  <2>3. x + 1 \in 1..(x + 1)
      OBVIOUS
  <2>. QED BY <1>1, <1>2, <1>3, <2>1, <2>2, <2>3 DEF Range
<1>5. {m} \X (1..Size[sent[m]]) = {<<m, k>> : k \in 1..Size[sent[m]]}
    OBVIOUS
<1>6. MessageBytes(c) = MessageBytes(a) \cup ({m} \X (1..Size[sent[m]]))
    BY <1>4, Zenon DEF MessageBytes
<1>. QED BY <1>1, <1>5, <1>6

(* More bytes are other bytes.                                             *)
LEMMA TookMore ==
    ASSUME IsStream(sent, segs), NEW a \in Nat, NEW z \in Nat, a + z <= Len(Body)
    PROVE  /\ Took(a + z) = Took(a) \cup {Body[a + k] : k \in 1..z}
           /\ Took(a) \cap {Body[a + k] : k \in 1..z} = {}
<1>1. \A i \in 1..(a + z) : i \in 1..a \/ \E k \in 1..z : i = a + k
  <2>1. ASSUME NEW i \in 1..(a + z), i \notin 1..a PROVE i - a \in 1..z /\ i = a + (i - a)
      BY <2>1
  <2>. QED BY <2>1
<1>2. \A k \in 1..z : a + k \in 1..(a + z)
    OBVIOUS
<1>3. \A i \in 1..a : i \in 1..(a + z)
    OBVIOUS
<1>4. Took(a + z) = Took(a) \cup {Body[a + k] : k \in 1..z}
    BY <1>1, <1>2, <1>3 DEF Took
<1>5. Len(Body) \in Nat
  <2>1. segs \in Seq(Seq(Byte))
      BY StreamIs
  <2>. QED BY <2>1, BodyIs
<1>6. ASSUME NEW i \in 1..a, NEW k \in 1..z PROVE Body[i] # Body[a + k]
  <2>1. i \in 1..Len(Body) /\ a + k \in 1..Len(Body) /\ i # a + k
      BY <1>5
  <2>. QED BY <2>1, StreamIs
<1>. QED BY <1>4, <1>6 DEF Took

(* The bytes of the message that is decoded next.                          *)
FirstBytes == {<<First, k>> : k \in 1..Size[sent[First]]}

(* They are the next bytes, and other bytes than those before.             *)
LEMMA FirstIsNew ==
    ASSUME IsStream(sent, segs), NEW s \in 0..Len(segs), PendingOK(s),
           pending # <<>>, Complete, Intact
    PROVE  /\ Took(PendingAt(s) + FirstSize) = Took(PendingAt(s)) \cup FirstBytes
           /\ Took(PendingAt(s)) \cap FirstBytes = {}
<1>1. /\ FirstSize \in Nat /\ PendingAt(s) \in Nat /\ PendingAt(s) + FirstSize \in Nat
      /\ PendingAt(s) + FirstSize <= BodyEnd(s)
      /\ \A k \in 1..FirstSize : Body[PendingAt(s) + k] = <<First, k>>
    BY MessageTaken
<1>2. BodyEnd(s) \in Nat /\ BodyEnd(s) <= Len(Body) /\ Len(Body) \in Nat
  <2>1. segs \in Seq(Seq(Byte))
      BY StreamIs
  <2>. QED BY <2>1, BodyIs
<1>3. PICK a \in Nat, z \in Nat : a = PendingAt(s) /\ z = FirstSize
    BY <1>1
<1>4. a + z <= Len(Body)
    BY <1>1, <1>2, <1>3
<1>5. /\ Took(a + z) = Took(a) \cup {Body[a + k] : k \in 1..z}
      /\ Took(a) \cap {Body[a + k] : k \in 1..z} = {}
    BY <1>4, TookMore
<1>6. {Body[a + k] : k \in 1..z} = FirstBytes
    BY <1>1, <1>3 DEF FirstBytes, FirstSize, FirstKind
<1>. QED BY <1>3, <1>5, <1>6

(* What a sequence of bytes holds is what it holds in the payload.         *)
LEMMA SliceBytes ==
    ASSUME NEW q \in Seq(Byte), NEW a, IsSlice(q, Body, a)
    PROVE  Range(q) = {Body[a + k] : k \in 1..Len(q)}
<1>1. DOMAIN q = 1..Len(q)
    BY LenProperties
<1>. QED BY <1>1 DEF Range, IsSlice

(* A message that is decoded is kept.                                      *)
LEMMA DecodesKept ==
    ASSUME IsStream(sent, segs), GotOK, NEW s \in 0..Len(segs), PendingOK(s), KeptOK(s), Decodes
    PROVE  KeptOK(s)'
<1>1. /\ pending # <<>> /\ Complete /\ Intact
      /\ out' = Append(out, First) /\ pending' = From(pending, FirstSize + 1)
      /\ sent' = sent /\ segs' = segs /\ got' = got /\ dropped' = dropped
    BY DEF Decodes, Take
<1>2. First \in 1..Len(sent) /\ FirstSize \in Nat
    BY <1>1, MessageTaken
<1>3. FirstSize <= Len(pending)
    BY <1>1, <1>2 DEF Complete
<1>4. PendingAt(s)' = PendingAt(s) + FirstSize /\ Body' = Body
    BY <1>1, <1>2, <1>3, RestIsPending
<1>5. /\ Took(PendingAt(s) + FirstSize) = Took(PendingAt(s)) \cup FirstBytes
      /\ Took(PendingAt(s)) \cap FirstBytes = {}
    BY <1>1, FirstIsNew
<1>6. out \in Seq(1..Len(sent))
    BY DEF GotOK, Run
<1>7. MessageBytes(out') = MessageBytes(out) \cup FirstBytes
    BY <1>1, <1>2, <1>6, BytesOfNext DEF FirstBytes
<1>8. MessageBytes(out)' = MessageBytes(out') /\ MessageBytes(got)' = MessageBytes(got)
    BY <1>1 DEF MessageBytes
<1>9. Took(PendingAt(s))' = Took(PendingAt(s) + FirstSize)
    BY <1>4 DEF Took
<1>. QED BY <1>1, <1>5, <1>7, <1>8, <1>9 DEF KeptOK

(* What is returned with a message is kept.                                *)
LEMMA LastKept ==
    ASSUME IsStream(sent, segs), GotOK, NEW s \in 0..Len(segs), PendingOK(s),
           pending # <<>>, Complete, Intact, got' = got \o Append(out, First), out' = <<>>, sent' = sent
    PROVE  /\ MessageBytes(got)' = MessageBytes(got) \cup MessageBytes(out) \cup FirstBytes
           /\ MessageBytes(out)' = {}
<1>1. First \in 1..Len(sent)
    BY MessageTaken
<1>2. out \in Seq(1..Len(sent)) /\ got \in Seq(1..Len(sent))
    BY DEF GotOK, Run
<1>3. PICK ms : ms = Append(out, First)
    OBVIOUS
<1>4. ms \in Seq(1..Len(sent)) /\ MessageBytes(ms) = MessageBytes(out) \cup FirstBytes
    BY <1>1, <1>2, <1>3, BytesOfNext DEF FirstBytes
<1>5. MessageBytes(got') = MessageBytes(got) \cup MessageBytes(ms)
  <2>1. got' = got \o ms
      BY <1>3
  <2>. QED BY <1>2, <1>4, <2>1, BytesOfBoth
<1>6. MessageBytes(got)' = MessageBytes(got') /\ MessageBytes(out)' = MessageBytes(<<>>)
    BY DEF MessageBytes
<1>. QED BY <1>4, <1>5, <1>6, BytesOfNone

(* The message that starts a batch is kept.                                *)
LEMMA StartsKept ==
    ASSUME IsStream(sent, segs), GotOK, NEW s \in 0..Len(segs), PendingOK(s), KeptOK(s), Starts
    PROVE  KeptOK(s)'
<1>1. /\ pending # <<>> /\ Complete /\ Intact
      /\ got' = got \o Append(out, First) /\ out' = <<>> /\ pending' = From(pending, FirstSize + 1)
      /\ sent' = sent /\ segs' = segs /\ dropped' = dropped
    BY DEF Starts
<1>2. FirstSize \in Nat
    BY <1>1, MessageTaken
<1>3. FirstSize <= Len(pending)
    BY <1>1, <1>2 DEF Complete
<1>4. PendingAt(s)' = PendingAt(s) + FirstSize /\ Body' = Body
    BY <1>1, <1>2, <1>3, RestIsPending
<1>5. /\ Took(PendingAt(s) + FirstSize) = Took(PendingAt(s)) \cup FirstBytes
      /\ Took(PendingAt(s)) \cap FirstBytes = {}
    BY <1>1, FirstIsNew
<1>6. /\ MessageBytes(got)' = MessageBytes(got) \cup MessageBytes(out) \cup FirstBytes
      /\ MessageBytes(out)' = {}
    BY <1>1, LastKept
<1>7. Took(PendingAt(s))' = Took(PendingAt(s) + FirstSize)
    BY <1>4 DEF Took
<1>. QED BY <1>1, <1>5, <1>6, <1>7 DEF KeptOK

(* The message that ends a batch is kept, and what is behind it is what is *)
(* skipped.                                                                *)
LEMMA EndsKept ==
    ASSUME IsStream(sent, segs), GotOK, NEW s \in 0..Len(segs), PendingOK(s), KeptOK(s), Ends,
           PendingAt(s)' = BodyEnd(s)
    PROVE  KeptOK(s)'
<1>. DEFINE rest == From(pending, FirstSize + 1)
<1>1. /\ pending # <<>> /\ Complete /\ Intact
      /\ got' = got \o Append(out, First) /\ out' = <<>>
      /\ sent' = sent /\ segs' = segs /\ dropped' = dropped \cup Range(rest)
    BY DEF Ends
<1>2. /\ FirstSize \in Nat /\ PendingAt(s) \in Nat
      /\ PendingAt(s) + FirstSize \in Nat /\ PendingAt(s) + FirstSize <= BodyEnd(s)
    BY <1>1, MessageTaken
<1>3. FirstSize <= Len(pending)
    BY <1>1, <1>2 DEF Complete
<1>4. BodyEnd(s) \in Nat /\ BodyEnd(s) <= Len(Body) /\ Len(Body) \in Nat
  <2>1. segs \in Seq(Seq(Byte))
      BY StreamIs
  <2>. QED BY <2>1, BodyIs
<1>5. pending \in Seq(Byte) /\ Len(pending) \in Nat /\ IsSlice(pending, Body, PendingAt(s))
    BY LenProperties DEF PendingOK
<1>6. /\ rest \in Seq(Byte) /\ Len(rest) = Len(pending) - FirstSize
      /\ \A j \in 1..(Len(pending) - FirstSize) : rest[j] = pending[FirstSize + j]
    BY <1>2, <1>3, <1>5, RestOfBytes
<1>. HIDE DEF rest
<1>7. IsSlice(rest, Body, PendingAt(s) + FirstSize)
    BY <1>2, <1>3, <1>4, <1>5, <1>6, SliceRest
<1>8. PICK e \in Nat, b \in Nat, r \in Nat :
         e = BodyEnd(s) /\ b = PendingAt(s) + FirstSize /\ r = Len(rest) /\ b + r = e
  <2>1. Len(rest) \in Nat
      BY <1>6, LenProperties
  <2>2. PendingAt(s) = BodyEnd(s) - Len(pending)
      BY DEF PendingAt
  <2>3. \A x, y, z \in Nat : (x - y) + z + (y - z) = x
      OBVIOUS
  <2>4. PendingAt(s) + FirstSize + Len(rest) = BodyEnd(s)
      BY <1>2, <1>4, <1>5, <1>6, <2>2, <2>3
  <2>. QED BY <1>2, <1>4, <2>1, <2>4
<1>9. Range(rest) = {Body[b + k] : k \in 1..r}
    BY <1>6, <1>7, <1>8, SliceBytes, SMTT(40)
<1>10. Took(b + r) = Took(b) \cup Range(rest) /\ Took(b) \cap Range(rest) = {}
  <2>1. b + r <= Len(Body)
      BY <1>4, <1>8
  <2>. QED BY <1>9, <2>1, TookMore
<1>11. /\ Took(b) = Took(PendingAt(s)) \cup FirstBytes
       /\ Took(PendingAt(s)) \cap FirstBytes = {}
    BY <1>1, <1>8, FirstIsNew
<1>12. /\ MessageBytes(got)' = MessageBytes(got) \cup MessageBytes(out) \cup FirstBytes
       /\ MessageBytes(out)' = {}
    BY <1>1, LastKept
<1>13. Took(PendingAt(s))' = Took(b + r)
  <2>1. Body' = Body
      BY <1>1 DEF Body
  <2>2. PendingAt(s)' = b + r
      BY <1>8
  <2>. QED BY <2>1, <2>2 DEF Took
<1>. QED BY <1>1, <1>10, <1>11, <1>12, <1>13 DEF KeptOK

(* What is returned is kept.                                               *)
LEMMA ReturnsKept ==
    ASSUME GotOK, NEW s \in 0..Len(segs), KeptOK(s), Returns, PendingAt(s)' = PendingAt(s)
    PROVE  KeptOK(s)'
<1>1. got' = got \o out /\ out' = <<>> /\ sent' = sent /\ segs' = segs /\ dropped' = dropped
    BY DEF Returns
<1>2. out \in Seq(1..Len(sent)) /\ got \in Seq(1..Len(sent))
    BY DEF GotOK, Run
<1>3. MessageBytes(got') = MessageBytes(got) \cup MessageBytes(out)
    BY <1>1, <1>2, BytesOfBoth
<1>4. MessageBytes(got)' = MessageBytes(got') /\ MessageBytes(out)' = MessageBytes(<<>>)
    BY <1>1 DEF MessageBytes
<1>5. Took(PendingAt(s))' = Took(PendingAt(s))
    BY <1>1 DEF Took, Body
<1>. QED BY <1>1, <1>3, <1>4, <1>5, BytesOfNone DEF KeptOK

(* Every step keeps every byte.                                            *)
LEMMA KeptStepOK ==
    ASSUME ChannelInv, KeptInv, [Next]_vars
    PROVE  KeptInv'
<1>1. ASSUME NEW s \in 0..Len(segs), KeptOK(s), UNCHANGED <<sent, segs, got, out, dropped>>,
             NEW i, PendingAt(i)' = PendingAt(s)
      PROVE  KeptOK(i)'
  <2>1. MessageBytes(got)' = MessageBytes(got) /\ MessageBytes(out)' = MessageBytes(out)
      BY <1>1 DEF MessageBytes
  <2>2. Took(PendingAt(i))' = Took(PendingAt(s))
      BY <1>1 DEF Took, Body
  <2>. QED BY <1>1, <2>1, <2>2 DEF KeptOK
<1>2. CASE UNCHANGED vars
  <2>1. UNCHANGED <<sent, segs, pending, got, out, dropped, mode>>
      BY <1>2 DEF vars, streamVars, readerVars
  <2>2. \A s : PendingAt(s)' = PendingAt(s)
      BY <2>1 DEF PendingAt, BodyEnd
  <2>3. \A s : InPlace(s) => InPlace(s)'
      BY <1>2, StaysInPlace
  <2>4. Failed' = Failed /\ segs' = segs
      BY <2>1 DEF Failed
  <2>. QED BY <1>1, <2>1, <2>2, <2>3, <2>4 DEF KeptInv
<1>3. CASE Next
  <2>1. ~Failed
      BY <1>3, FailedStops
  <2>2. /\ IsStream(sent, segs) /\ BuffersOK /\ GotOK
        /\ mode \in {"read", "messages", "blocks"}
      BY <2>1 DEF ChannelInv
  <2>3. PICK s \in 0..Len(segs) : InPlace(s) /\ KeptOK(s)
      BY <2>1 DEF KeptInv
  <2>4. PendingOK(s) /\ OrderOK(s)
      BY <2>3 DEF InPlace
  <2>5. ASSUME segs' = segs, NEW i \in 0..Len(segs), InPlace(i)', KeptOK(i)'
        PROVE  KeptInv'
      BY <2>5 DEF KeptInv
  <2>6. CASE Waits(s) /\ InPlace(s)' /\ GotOK'
    <3>1. UNCHANGED <<sent, segs, pending, got, out, dropped>>
        BY <2>6 DEF Waits
    <3>2. PendingAt(s)' = PendingAt(s)
        BY <3>1 DEF PendingAt, BodyEnd
    <3>3. KeptOK(s)'
        BY <1>1, <2>3, <3>1, <3>2
    <3>. QED BY <2>5, <2>6, <3>1, <3>3
  <2>7. CASE Arrives(s) /\ s + 1 \in 0..Len(segs) /\ InPlace(s + 1)' /\ GotOK'
    <3>1. UNCHANGED <<sent, segs, got, out, dropped>>
        BY <2>7 DEF Arrives
    <3>2. PendingAt(s + 1)' = PendingAt(s)
        BY <2>2, <2>4, <2>7, ArrivesPending
    <3>3. KeptOK(s + 1)'
        BY <1>1, <2>3, <3>1, <3>2
    <3>. QED BY <2>5, <2>7, <3>1, <3>3
  <2>8. CASE Decodes /\ InPlace(s)' /\ GotOK'
    <3>1. KeptOK(s)' /\ segs' = segs
        BY <2>2, <2>3, <2>4, <2>8, DecodesKept DEF Decodes
    <3>. QED BY <2>5, <2>8, <3>1
  <2>9. CASE Starts /\ InPlace(s)' /\ GotOK'
    <3>1. KeptOK(s)' /\ segs' = segs
        BY <2>2, <2>3, <2>4, <2>9, StartsKept DEF Starts
    <3>. QED BY <2>5, <2>9, <3>1
  <2>10. CASE Ends /\ InPlace(s)' /\ GotOK'
    <3>1. PendingAt(s)' = BodyEnd(s)
        BY <2>2, <2>4, <2>10, EndsInOrder
    <3>2. KeptOK(s)' /\ segs' = segs
        BY <2>2, <2>3, <2>4, <2>10, <3>1, EndsKept DEF Ends
    <3>. QED BY <2>5, <2>10, <3>2
  <2>11. CASE Returns /\ InPlace(s)' /\ GotOK'
    <3>1. mode \in {"messages", "blocks"} /\ segs' = segs
        BY <2>2, <2>11 DEF Returns
    <3>2. PendingAt(s)' = PendingAt(s)
        BY <2>2, <2>4, <2>11, <3>1, ReturnsInOrder
    <3>3. KeptOK(s)'
        BY <2>2, <2>3, <2>11, <3>2, ReturnsKept
    <3>. QED BY <2>5, <2>11, <3>1, <3>3
  <2>12. CASE Fails
    <3>1. Failed'
        BY <2>12, FailsReturnNothing
    <3>. QED BY <3>1 DEF KeptInv
  <2>. QED BY <1>3, <2>2, <2>3, <2>6, <2>7, <2>8, <2>9, <2>10, <2>11, <2>12, StepsInPlace
<1>. QED BY <1>2, <1>3

-----------------------------------------------------------------------------
(* MessageReader: the places of the payload bytes *)

(* Payload byte p is byte j of segment i, and byte q of what was sent.     *)
Place(q, p, i, j) ==
    /\ i \in 1..Len(segs) /\ j \in 1..Len(segs[i])
    /\ q = WireEnd(i - 1) + 8 + j /\ p = BodyEnd(i - 1) + j
    /\ q \in 1..Len(Whole) /\ p \in 1..Len(Body) /\ Whole[q] = Body[p]

(* A byte of a segment has a place.                                        *)
LEMMA PlaceIs ==
    ASSUME segs \in Seq(Seq(Byte)), NEW i \in 1..Len(segs), NEW j \in 1..Len(segs[i])
    PROVE  Place(WireEnd(i - 1) + 8 + j, BodyEnd(i - 1) + j, i, j)
<1>1. Len(segs) \in Nat
    BY BodyIs
<1>2. i - 1 \in 0..Len(segs) /\ i \in 0..Len(segs)
    BY <1>1
<1>3. /\ BodyEnd(i - 1) \in Nat /\ BodyEnd(i) = BodyEnd(i - 1) + Len(segs[i]) /\ BodyEnd(i) <= Len(Body)
      /\ Len(segs[i]) \in Nat /\ Len(Body) \in Nat /\ Body[BodyEnd(i - 1) + j] = segs[i][j]
    BY <1>2, BodyIs
<1>4. /\ WireEnd(i - 1) \in Nat /\ WireEnd(i) = WireEnd(i - 1) + 8 + Len(segs[i]) /\ WireEnd(i) <= Len(Whole)
      /\ Len(Whole) \in Nat /\ Whole[WireEnd(i - 1) + 8 + j] = segs[i][j]
    BY <1>2, WholeIs
<1>5. \A x, n, w \in Nat : \A k \in 1..n : x + n <= w => x + k \in 1..w
    OBVIOUS
<1>6. \A x, n, w \in Nat : \A k \in 1..n : x + 8 + n <= w => x + 8 + k \in 1..w
    OBVIOUS
<1>7. BodyEnd(i - 1) + j \in 1..Len(Body)
    BY <1>3, <1>5
<1>8. WireEnd(i - 1) + 8 + j \in 1..Len(Whole)
    BY <1>3, <1>4, <1>6
<1>. QED BY <1>3, <1>4, <1>7, <1>8 DEF Place

(* Later segments end later.                                               *)
LEMMA EndsGrow ==
    ASSUME segs \in Seq(Seq(Byte)), NEW i \in 0..Len(segs), NEW k \in 0..Len(segs), i <= k
    PROVE  BodyEnd(i) <= BodyEnd(k) /\ WireEnd(i) <= WireEnd(k)
<1>1. BodyEnd(i) <= BodyEnd(k)
    BY JoinsGrow DEF BodyEnd
<1>2. Frames(segs) \in Seq(Seq(Byte)) /\ Len(Frames(segs)) = Len(segs)
    BY FramesAre
<1>3. PICK fs \in Seq(Seq(Byte)) : fs = Frames(segs)
    BY <1>2
<1>4. Len(Joins(fs)[i]) <= Len(Joins(fs)[k])
    BY <1>2, <1>3, JoinsGrow
<1>. QED BY <1>1, <1>3, <1>4 DEF WireEnd

(* A byte is in a segment when both its places are.                        *)
LEMMA PlaceInSegment ==
    ASSUME segs \in Seq(Seq(Byte)), NEW q, NEW p, NEW i, NEW j, Place(q, p, i, j), NEW s \in 0..Len(segs)
    PROVE  /\ q \in Nat /\ p \in Nat
           /\ i <= s => q <= WireEnd(s) /\ p <= BodyEnd(s)
           /\ ~(i <= s) => q > WireEnd(s) /\ p > BodyEnd(s)
<1>1. /\ i \in 1..Len(segs) /\ j \in 1..Len(segs[i])
      /\ q = WireEnd(i - 1) + 8 + j /\ p = BodyEnd(i - 1) + j
    BY DEF Place
<1>2. Len(segs) \in Nat
    BY BodyIs
<1>3. i - 1 \in 0..Len(segs) /\ i \in 0..Len(segs) /\ i \in Nat /\ s \in Nat
    BY <1>1, <1>2
<1>4. /\ BodyEnd(i - 1) \in Nat /\ BodyEnd(i) = BodyEnd(i - 1) + Len(segs[i]) /\ Len(segs[i]) \in Nat
      /\ BodyEnd(s) \in Nat
    BY <1>1, <1>3, BodyIs
<1>5. WireEnd(i - 1) \in Nat /\ WireEnd(i) = WireEnd(i - 1) + 8 + Len(segs[i]) /\ WireEnd(s) \in Nat
    BY <1>1, <1>3, WholeIs
<1>6. PICK n \in Nat, b \in Nat, w \in Nat, x \in Nat, y \in Nat :
         /\ n = Len(segs[i]) /\ b = BodyEnd(i - 1) /\ w = WireEnd(i - 1)
         /\ x = BodyEnd(s) /\ y = WireEnd(s)
    BY <1>4, <1>5
<1>7. j \in 1..n /\ q = w + 8 + j /\ p = b + j
    BY <1>1, <1>6
<1>8. ASSUME i <= s PROVE q <= y /\ p <= x
  <2>1. b + n <= x /\ w + 8 + n <= y
      BY <1>3, <1>4, <1>5, <1>6, <1>8, EndsGrow
  <2>. QED BY <1>7, <2>1
<1>9. ASSUME ~(i <= s) PROVE q > y /\ p > x
  <2>1. s <= i - 1
      BY <1>3, <1>9
  <2>2. x <= b /\ y <= w
      BY <1>3, <1>6, <2>1, EndsGrow
  <2>. QED BY <1>7, <2>2
<1>10. q \in Nat /\ p \in Nat
    BY <1>7
<1>. QED BY <1>6, <1>8, <1>9, <1>10

(* The payload bytes come in the order in which they are sent.             *)
LEMMA PlaceOrder ==
    ASSUME segs \in Seq(Seq(Byte)),
           NEW q, NEW p, NEW i, NEW j, Place(q, p, i, j),
           NEW r, NEW t, NEW k, NEW l, Place(r, t, k, l)
    PROVE  q <= r <=> p <= t
<1>1. /\ i \in 1..Len(segs) /\ k \in 1..Len(segs)
      /\ q = WireEnd(i - 1) + 8 + j /\ p = BodyEnd(i - 1) + j
      /\ r = WireEnd(k - 1) + 8 + l /\ t = BodyEnd(k - 1) + l
      /\ j \in 1..Len(segs[i]) /\ l \in 1..Len(segs[k])
    BY DEF Place
<1>2. Len(segs) \in Nat
    BY BodyIs
<1>3. /\ i - 1 \in 0..Len(segs) /\ k - 1 \in 0..Len(segs) /\ i \in 0..Len(segs) /\ k \in 0..Len(segs)
      /\ i \in Nat /\ k \in Nat
    BY <1>1, <1>2, SMTT(40)
<1>4. /\ q \in Nat /\ p \in Nat /\ r \in Nat /\ t \in Nat
      /\ BodyEnd(i) \in Nat /\ BodyEnd(k) \in Nat /\ WireEnd(i) \in Nat /\ WireEnd(k) \in Nat
      /\ BodyEnd(i - 1) \in Nat /\ WireEnd(i - 1) \in Nat
  <2>1. q \in Nat /\ p \in Nat
      BY <1>3, PlaceInSegment
  <2>2. r \in Nat /\ t \in Nat
      BY <1>3, PlaceInSegment
  <2>. QED BY <1>3, <2>1, <2>2, BodyIs, WholeIs
<1>5. CASE i = k
  <2>1. j \in Nat /\ l \in Nat
    <3>1. Len(segs[i]) \in Nat /\ Len(segs[k]) \in Nat
        BY <1>1, BodyIs
    <3>. QED BY <1>1, <3>1
  <2>2. PICK x \in Nat, y \in Nat : x = WireEnd(i - 1) /\ y = BodyEnd(i - 1)
      BY <1>4
  <2>3. q = x + 8 + j /\ p = y + j /\ r = x + 8 + l /\ t = y + l
      BY <1>1, <1>5, <2>2
  <2>. QED BY <2>1, <2>3
<1>6. CASE i < k
  <2>1. q <= WireEnd(i) /\ p <= BodyEnd(i)
      BY <1>3, PlaceInSegment
  <2>2. ~(k <= i)
      BY <1>3, <1>6
  <2>3. r > WireEnd(i) /\ t > BodyEnd(i)
      BY <1>3, <2>2, PlaceInSegment
  <2>. QED BY <1>4, <2>1, <2>3
<1>7. CASE k < i
  <2>1. r <= WireEnd(k) /\ t <= BodyEnd(k)
      BY <1>3, PlaceInSegment
  <2>2. ~(i <= k)
      BY <1>3, <1>7
  <2>3. q > WireEnd(k) /\ p > BodyEnd(k)
      BY <1>3, <2>2, PlaceInSegment
  <2>. QED BY <1>4, <2>1, <2>3
<1>. QED BY <1>3, <1>5, <1>6, <1>7

(* Every payload byte that was sent has a place,                           *)
LEMMA WholePlace ==
    ASSUME segs \in Seq(Seq(Byte)), NEW q \in 1..Len(Whole), Whole[q][1] # 0
    PROVE  \E p, i, j : Place(q, p, i, j)
<1>1. Frames(segs) \in Seq(Seq(Byte)) /\ Len(Frames(segs)) = Len(segs)
    BY FramesAre
<1>2. PICK fs \in Seq(Seq(Byte)) : fs = Frames(segs)
    BY <1>1
<1>3. Whole = Join(fs)
    BY <1>2 DEF Whole, Bytes
<1>4. PICK i \in 1..Len(segs) : WireEnd(i - 1) < q /\ q <= WireEnd(i)
  <2>1. \E i \in 1..Len(fs) : Len(Joins(fs)[i - 1]) < q /\ q <= Len(Joins(fs)[i])
      BY <1>3, PlaceInJoin
  <2>. QED BY <1>1, <1>2, <2>1 DEF WireEnd
<1>5. Len(segs) \in Nat
    BY BodyIs
<1>6. i - 1 \in 0..Len(segs)
    BY <1>5
<1>7. /\ WireEnd(i - 1) \in Nat /\ WireEnd(i) = WireEnd(i - 1) + 8 + Len(segs[i])
      /\ \A k \in 1..8 : Whole[WireEnd(i - 1) + k] = <<0, Len(segs[i])>> /\ Len(Whole) \in Nat
    BY <1>6, WholeIs
<1>8. Len(segs[i]) \in Nat
    BY BodyIs
<1>9. PICK w \in Nat, n \in Nat : w = WireEnd(i - 1) /\ n = Len(segs[i])
    BY <1>7, <1>8
<1>10. q \in Nat /\ w < q /\ q <= w + 8 + n
    BY <1>4, <1>7, <1>9
<1>11. ~(q <= w + 8)
  <2>1. SUFFICES ASSUME q <= w + 8 PROVE FALSE
      OBVIOUS
  <2>2. PICK k \in 1..8 : q = w + k
    <3>1. q - w \in 1..8 /\ q = w + (q - w)
        BY <1>10, <2>1
    <3>. QED BY <3>1
  <2>3. Whole[q] = <<0, n>>
      BY <1>7, <1>9, <2>2
  <2>. QED BY <2>3
<1>12. PICK j \in 1..n : q = w + 8 + j
  <2>1. q - w - 8 \in 1..n /\ q = w + 8 + (q - w - 8)
      BY <1>10, <1>11
  <2>. QED BY <2>1
<1>13. Place(w + 8 + j, BodyEnd(i - 1) + j, i, j)
    BY <1>9, PlaceIs
<1>. QED BY <1>12, <1>13

(* and so has every byte of the payloads.                                  *)
LEMMA BodyPlace ==
    ASSUME segs \in Seq(Seq(Byte)), NEW p \in 1..Len(Body)
    PROVE  \E q, i, j : Place(q, p, i, j)
<1>1. PICK i \in 1..Len(segs) : BodyEnd(i - 1) < p /\ p <= BodyEnd(i)
    BY PlaceInJoin DEF Body, BodyEnd
<1>2. Len(segs) \in Nat /\ Len(Body) \in Nat
    BY BodyIs
<1>3. i - 1 \in 0..Len(segs)
    BY <1>2
<1>4. PICK b \in Nat, n \in Nat : b = BodyEnd(i - 1) /\ n = Len(segs[i]) /\ BodyEnd(i) = b + n
    BY <1>3, BodyIs
<1>5. PICK j \in 1..n : p = b + j
  <2>1. p - b \in 1..n /\ p = b + (p - b)
      BY <1>1, <1>2, <1>4, SMTT(40)
  <2>. QED BY <2>1
<1>6. Place(WireEnd(i - 1) + 8 + j, b + j, i, j)
    BY <1>4, PlaceIs
<1>. QED BY <1>5, <1>6

(* The payload bytes between two places of what was sent.                  *)
Sent(x, y) == {Whole[q] : q \in {r \in (x + 1)..y : Whole[r][1] # 0}}

(* They are all different.                                                 *)
LEMMA SentOnce ==
    ASSUME IsStream(sent, segs), NEW q \in 1..Len(Whole), NEW r \in 1..Len(Whole),
           Whole[q] = Whole[r], Whole[q][1] # 0
    PROVE  q = r
<1>1. segs \in Seq(Seq(Byte))
    BY StreamIs
<1>2. Len(Whole) \in Nat
    BY <1>1, WholeIs
<1>3. PICK p, i, j : Place(q, p, i, j)
    BY <1>1, WholePlace
<1>4. PICK t, k, l : Place(r, t, k, l)
    BY <1>1, WholePlace
<1>5. p \in 1..Len(Body) /\ t \in 1..Len(Body) /\ Body[p] = Body[t]
    BY <1>3, <1>4 DEF Place
<1>6. p = t /\ p \in Nat
    BY <1>5, StreamIs
<1>7. q <= r /\ r <= q
  <2>1. q <= r <=> p <= t
      BY <1>1, <1>3, <1>4, PlaceOrder
  <2>2. r <= q <=> t <= p
      BY <1>1, <1>3, <1>4, PlaceOrder
  <2>. QED BY <1>6, <2>1, <2>2
<1>. QED BY <1>2, <1>7

(* What is sent before a place is not sent after it.                       *)
LEMMA SentSplit ==
    ASSUME IsStream(sent, segs), NEW x \in Nat, NEW y \in Nat, NEW z \in Nat,
           x <= y, y <= z, z <= Len(Whole)
    PROVE  Sent(x, z) = Sent(x, y) \cup Sent(y, z) /\ Sent(x, y) \cap Sent(y, z) = {}
<1>1. (x + 1)..z = (x + 1)..y \cup (y + 1)..z
    OBVIOUS
<1>2. Len(Whole) \in Nat
  <2>1. segs \in Seq(Seq(Byte))
      BY StreamIs
  <2>. QED BY <2>1, WholeIs
<1>3. ASSUME NEW q \in (x + 1)..y, NEW r \in (y + 1)..z, Whole[q][1] # 0 PROVE Whole[q] # Whole[r]
  <2>1. q \in 1..Len(Whole) /\ r \in 1..Len(Whole) /\ q # r
      BY <1>2
  <2>. QED BY <1>3, <2>1, SentOnce
<1>4. Sent(x, z) = Sent(x, y) \cup Sent(y, z)
    BY <1>1, Zenon DEF Sent
<1>. QED BY <1>3, <1>4 DEF Sent

(* The payload of a part of what was sent.                                 *)
LEMMA SentSlice ==
    ASSUME NEW b \in Seq(Byte), NEW n \in Nat, IsSlice(b, Whole, n)
    PROVE  Payload(b) = Sent(n, n + Len(b))
<1>1. DOMAIN b = 1..Len(b) /\ Len(b) \in Nat
    BY LenProperties
<1>2. PICK l \in Nat : l = Len(b)
    BY <1>1
<1>3. \A j \in 1..l : b[j] = Whole[n + j]
    BY <1>2 DEF IsSlice
<1>4. ASSUME NEW j \in 1..l PROVE n + j \in (n + 1)..(n + l)
    OBVIOUS
<1>5. ASSUME NEW q \in (n + 1)..(n + l) PROVE \E j \in 1..l : q = n + j
  <2>1. q - n \in 1..l /\ q = n + (q - n)
      OBVIOUS
  <2>. QED BY <2>1
<1>6. Range(b) = {b[j] : j \in 1..l}
    BY <1>1, <1>2 DEF Range
<1>7. ASSUME NEW c \in Payload(b) PROVE c \in Sent(n, n + l)
  <2>1. PICK j \in 1..l : c = b[j] /\ c[1] # 0
      BY <1>6 DEF Payload
  <2>. QED BY <1>3, <1>4, <2>1 DEF Sent
<1>8. ASSUME NEW c \in Sent(n, n + l) PROVE c \in Payload(b)
  <2>1. PICK q \in (n + 1)..(n + l) : c = Whole[q] /\ c[1] # 0
      BY DEF Sent
  <2>2. PICK j \in 1..l : q = n + j
      BY <1>5
  <2>. QED BY <1>3, <1>6, <2>1, <2>2 DEF Payload
<1>. QED BY <1>2, <1>7, <1>8

(* With the first segments, their payloads are sent.                       *)
LEMMA SentSegments ==
    ASSUME IsStream(sent, segs), NEW s \in 0..Len(segs)
    PROVE  Sent(0, WireEnd(s)) = Took(BodyEnd(s))
<1>1. segs \in Seq(Seq(Byte))
    BY StreamIs
<1>2. /\ Len(segs) \in Nat /\ BodyEnd(s) \in Nat /\ BodyEnd(s) <= Len(Body) /\ Len(Body) \in Nat
      /\ WireEnd(s) \in Nat /\ WireEnd(s) <= Len(Whole) /\ Len(Whole) \in Nat
    BY <1>1, BodyIs, WholeIs
<1>3. ASSUME NEW q \in (0 + 1)..WireEnd(s), Whole[q][1] # 0 PROVE Whole[q] \in Took(BodyEnd(s))
  <2>1. q \in 1..Len(Whole) /\ q <= WireEnd(s)
      BY <1>2
  <2>2. PICK p, i, j : Place(q, p, i, j)
      BY <1>1, <1>3, <2>1, WholePlace
  <2>3. p \in Nat /\ p <= BodyEnd(s)
    <3>1. ~(i <= s) => q > WireEnd(s)
        BY <1>1, <2>2, PlaceInSegment
    <3>2. i <= s
        BY <1>2, <2>1, <3>1
    <3>. QED BY <1>1, <2>2, <3>2, PlaceInSegment
  <2>4. p \in 1..BodyEnd(s) /\ Whole[q] = Body[p]
      BY <1>2, <2>2, <2>3 DEF Place
  <2>. QED BY <2>4 DEF Took
<1>4. ASSUME NEW p \in 1..BodyEnd(s) PROVE Body[p] \in Sent(0, WireEnd(s))
  <2>1. p \in 1..Len(Body) /\ p <= BodyEnd(s)
      BY <1>2
  <2>2. PICK q, i, j : Place(q, p, i, j)
      BY <1>1, <2>1, BodyPlace
  <2>3. q \in Nat /\ q <= WireEnd(s)
    <3>1. ~(i <= s) => p > BodyEnd(s)
        BY <1>1, <2>2, PlaceInSegment
    <3>2. i <= s
        BY <1>2, <2>1, <3>1
    <3>. QED BY <1>1, <2>2, <3>2, PlaceInSegment
  <2>4. q \in (0 + 1)..WireEnd(s) /\ Whole[q] = Body[p]
      BY <1>2, <2>2, <2>3 DEF Place
  <2>5. Body[p][1] # 0
    <3>1. Body[p][1] \in 1..Len(sent) /\ Len(sent) \in Nat
        BY <2>1, StreamIs
    <3>. QED BY <3>1
  <2>. QED BY <2>4, <2>5 DEF Sent
<1>. QED BY <1>3, <1>4 DEF Sent, Took

(* Between two reads the payload so far is in the messages and buffers.    *)
LEMMA KeptIsConserved ==
    ASSUME IsStream(sent, segs), BuffersOK, NEW s \in 0..Len(segs), InPlace(s), KeptOK(s),
           mode = "read", data = <<>>
    PROVE  Conserved
<1>. DEFINE G == MessageBytes(got)
            P == Payload(partial)
            B == Range(buffer)
            N == Range(pending)
            D == dropped
            W == Len(Whole) - Len(wire)
<1>1. segs \in Seq(Seq(Byte))
    BY StreamIs
<1>2. /\ Whole \in Seq(Byte) /\ Len(Whole) \in Nat /\ WireEnd(s) \in Nat /\ WireEnd(s) <= Len(Whole)
      /\ Len(segs) \in Nat /\ BodyEnd(s) \in Nat /\ BodyEnd(s) <= Len(Body) /\ Len(Body) \in Nat
    BY <1>1, WholeIs, BodyIs
<1>3. /\ wire \in Seq(Byte) /\ partial \in Seq(Byte) /\ buffer \in Seq(Byte) /\ pending \in Seq(Byte)
      /\ Len(wire) \in Nat /\ Len(partial) \in Nat /\ Len(buffer) \in Nat /\ Len(pending) \in Nat
    BY LenProperties DEF BuffersOK, InPlace, PendingOK
<1>4. /\ IsSlice(wire, Whole, W) /\ IsSlice(partial, Whole, HeaderAt) /\ HeaderAt = W - Len(partial)
      /\ W \in Nat /\ HeaderAt \in Nat
  <2>1. /\ IsSlice(wire, Whole, W) /\ IsSlice(partial, Whole, HeaderAt) /\ HeaderAt = W - 0 - Len(partial)
      BY DEF InPlace, FramesOK, HeaderAt, DataAt
  <2>2. W \in Nat /\ HeaderAt \in Nat
      BY <2>1 DEF IsSlice
  <2>. QED BY <1>3, <2>1, <2>2
<1>5. Payload(Whole) = Sent(0, Len(Whole)) /\ Payload(wire) = Sent(W, Len(Whole))
  <2>1. IsSlice(Whole, Whole, 0)
      BY <1>2 DEF IsSlice
  <2>2. Payload(Whole) = Sent(0, 0 + Len(Whole))
      BY <1>2, <2>1, SentSlice
  <2>3. Payload(wire) = Sent(W, W + Len(wire))
      BY <1>3, <1>4, SentSlice
  <2>4. 0 + Len(Whole) = Len(Whole) /\ W + Len(wire) = Len(Whole)
      BY <1>2, <1>3
  <2>. QED BY <2>2, <2>3, <2>4
<1>. HIDE DEF W
<1>6. W <= Len(Whole) /\ 0 <= W
    BY <1>3, <1>4 DEF IsSlice
<1>7. Payload(Whole) \ Payload(wire) = Sent(0, W)
  <2>1. Sent(0, Len(Whole)) = Sent(0, W) \cup Sent(W, Len(Whole)) /\ Sent(0, W) \cap Sent(W, Len(Whole)) = {}
      BY <1>2, <1>4, <1>6, SentSplit
  <2>. QED BY <1>5, <2>1
<1>8. Took(BodyEnd(s)) = G \cup D \cup N /\ G \cap D = {} /\ (G \cup D) \cap N = {}
  <2>1. IsSlice(pending, Body, PendingAt(s)) /\ PendingAt(s) \in Nat /\ out = <<>>
      BY DEF InPlace, PendingOK, IsSlice
  <2>2. PICK a \in Nat, l \in Nat : a = PendingAt(s) /\ l = Len(pending) /\ a + l = BodyEnd(s)
    <3>1. \A x, y \in Nat : (x - y) + y = x
        OBVIOUS
    <3>2. PendingAt(s) + Len(pending) = BodyEnd(s)
        BY <1>2, <1>3, <3>1 DEF PendingAt
    <3>. QED BY <1>3, <2>1, <3>2
  <2>3. N = {Body[a + k] : k \in 1..l}
      BY <1>3, <2>1, <2>2, SliceBytes
  <2>4. Took(a + l) = Took(a) \cup N /\ Took(a) \cap N = {}
    <3>1. a + l <= Len(Body)
        BY <1>2, <2>2
    <3>. QED BY <2>3, <3>1, TookMore
  <2>5. Took(a) = G \cup D /\ D \cap G = {}
    <3>1. MessageBytes(out) = {}
        BY <2>1, BytesOfNone
    <3>. QED BY <2>2, <3>1 DEF KeptOK
  <2>. QED BY <2>2, <2>4, <2>5
<1>9. Sent(0, W) = Took(BodyEnd(s)) \cup P \cup B /\ Took(BodyEnd(s)) \cap (P \cup B) = {} /\ P \cap B = {}
  <2>1. Sent(0, WireEnd(s)) = Took(BodyEnd(s))
      BY SentSegments
  <2>2. Payload(<<>>) = {} /\ Range(<<>>) = {}
    <3>1. DOMAIN <<>> = {}
        OBVIOUS
    <3>. QED BY <3>1 DEF Payload, Range
  <2>3. ASSUME WireEnd(s) <= W
        PROVE  /\ Sent(0, W) = Sent(0, WireEnd(s)) \cup Sent(WireEnd(s), W)
               /\ Sent(0, WireEnd(s)) \cap Sent(WireEnd(s), W) = {}
    <3>1. 0 <= WireEnd(s) /\ 0 \in Nat
        BY <1>2
    <3>. QED BY <1>2, <1>4, <1>6, <2>3, <3>1, SentSplit
  <2>4. CASE buffer = <<>>
    <3>1. HeaderAt = WireEnd(s)
        BY <2>4 DEF InPlace, FramesOK
    <3>2. WireEnd(s) + Len(partial) = W /\ WireEnd(s) <= W
        BY <1>2, <1>3, <1>4, <3>1
    <3>3. P = Sent(WireEnd(s), W)
      <4>1. IsSlice(partial, Whole, WireEnd(s))
          BY <1>4, <3>1
      <4>2. P = Sent(WireEnd(s), WireEnd(s) + Len(partial))
          BY <1>2, <1>3, <4>1, SentSlice
      <4>. QED BY <3>2, <4>2
    <3>4. B = {}
        BY <2>2, <2>4
    <3>. QED BY <2>1, <2>3, <3>2, <3>3, <3>4
  <2>5. CASE buffer # <<>>
    <3>1. /\ s < Len(segs) /\ partial = <<>> /\ Len(buffer) < length /\ length = Len(segs[s + 1])
          /\ IsSlice(buffer, segs[s + 1], 0) /\ HeaderAt = WireEnd(s) + 8 + Len(buffer)
        BY <2>5 DEF InPlace, FramesOK
    <3>2. P = {} /\ W = WireEnd(s) + 8 + Len(buffer)
      <4>1. Len(partial) = 0
          BY <3>1
      <4>. QED BY <1>4, <2>2, <3>1, <4>1
    <3>3. PICK i \in 1..Len(segs) : i = s + 1 /\ i - 1 = s
        BY <1>2, <3>1
    <3>4. /\ \A k \in 1..8 : Whole[WireEnd(s) + k] = <<0, Len(segs[i])>>
          /\ \A j \in 1..Len(segs[i]) : Whole[WireEnd(s) + 8 + j] = segs[i][j]
      <4>1. /\ \A k \in 1..8 : Whole[WireEnd(i - 1) + k] = <<0, Len(segs[i])>>
            /\ \A j \in 1..Len(segs[i]) : Whole[WireEnd(i - 1) + 8 + j] = segs[i][j]
          BY <1>1, WholeIs
      <4>2. i - 1 = s
          BY <3>3
      <4>. QED BY <4>1, <4>2, Zenon
    <3>5. PICK v \in Nat, n \in Nat : v = WireEnd(s) /\ n = Len(buffer) /\ W = v + 8 + n
        BY <1>2, <1>3, <3>2
    <3>6. /\ Sent(v, W) = Sent(v, v + 8) \cup Sent(v + 8, W)
          /\ v <= W
      <4>1. v <= v + 8 /\ v + 8 <= W /\ v + 8 \in Nat /\ v <= W
          BY <3>5
      <4>. QED BY <1>4, <1>6, <4>1, SentSplit
    <3>7. Sent(v, v + 8) = {}
      <4>1. ASSUME NEW q \in (v + 1)..(v + 8) PROVE Whole[q][1] = 0
        <5>1. PICK k \in 1..8 : q = v + k
          <6>1. q - v \in 1..8 /\ q = v + (q - v)
              OBVIOUS
          <6>. QED BY <6>1
        <5>2. Whole[q] = <<0, Len(segs[i])>>
            BY <3>4, <3>5, <5>1
        <5>. QED BY <5>2
      <4>. QED BY <4>1 DEF Sent
    <3>8. \A j \in 1..n : buffer[j] = Whole[(v + 8) + j] /\ buffer[j] = segs[i][j] /\ j \in 1..Len(segs[i])
      <4>1. \A j \in 1..n : buffer[j] = segs[i][0 + j]
          BY <3>1, <3>3, <3>5 DEF IsSlice
      <4>2. Len(segs[i]) \in Nat /\ n < Len(segs[i])
          BY <1>1, <3>1, <3>3, <3>5, BodyIs
      <4>3. \A j \in 1..n : 0 + j = j /\ j \in 1..Len(segs[i])
          BY <4>2
      <4>4. v = WireEnd(s)
          BY <3>5
      <4>5. SUFFICES ASSUME NEW j \in 1..n
                     PROVE  buffer[j] = Whole[(v + 8) + j] /\ buffer[j] = segs[i][j] /\ j \in 1..Len(segs[i])
          OBVIOUS
      <4>6. j \in 1..Len(segs[i]) /\ 0 + j = j
          BY <4>3
      <4>7. buffer[j] = segs[i][j]
          BY <4>1, <4>6, Zenon
      <4>8. Whole[(v + 8) + j] = segs[i][j]
          BY <3>4, <4>4, <4>6, Zenon
      <4>. QED BY <4>6, <4>7, <4>8, Zenon
    <3>9. Payload(buffer) = Sent(v + 8, W)
      <4>1. IsSlice(buffer, Whole, v + 8)
          BY <1>6, <3>5, <3>8 DEF IsSlice
      <4>2. Payload(buffer) = Sent(v + 8, v + 8 + Len(buffer))
          BY <1>3, <4>1, SentSlice
      <4>. QED BY <3>5, <4>2
    <3>10. Payload(buffer) = B
      <4>1. ASSUME NEW j \in 1..n PROVE buffer[j][1] # 0
        <5>1. Place(WireEnd(i - 1) + 8 + j, BodyEnd(i - 1) + j, i, j)
            BY <1>1, <3>8, PlaceIs
        <5>2. PICK p : p = BodyEnd(i - 1) + j
            OBVIOUS
        <5>3. p \in 1..Len(Body) /\ Body[p] = Whole[(v + 8) + j]
            BY <3>3, <3>5, <5>1, <5>2 DEF Place
        <5>4. Body[p][1] \in 1..Len(sent) /\ Len(sent) \in Nat
            BY <5>3, StreamIs
        <5>5. Body[p][1] # 0
            BY <5>4
        <5>. QED BY <3>8, <5>3, <5>5
      <4>2. DOMAIN buffer = 1..n
          BY <1>3, <3>5, LenProperties
      <4>. QED BY <4>1, <4>2 DEF Payload, Range
    <3>. QED BY <2>1, <2>3, <3>2, <3>5, <3>6, <3>7, <3>9, <3>10
  <2>. QED BY <2>4, <2>5
<1>10. /\ DOMAIN Kept = 1..5
       /\ Kept[1] = G /\ Kept[2] = P /\ Kept[3] = B /\ Kept[4] = N /\ Kept[5] = D
    BY DEF Kept
<1>11. UNION Range(Kept) = G \cup P \cup B \cup N \cup D
  <2>1. Range(Kept) = {Kept[1], Kept[2], Kept[3], Kept[4], Kept[5]}
    <3>1. \A i \in 1..5 : i = 1 \/ i = 2 \/ i = 3 \/ i = 4 \/ i = 5
        OBVIOUS
    <3>2. 1 \in 1..5 /\ 2 \in 1..5 /\ 3 \in 1..5 /\ 4 \in 1..5 /\ 5 \in 1..5
        OBVIOUS
    <3>. QED BY <1>10, <3>1, <3>2, Zenon DEF Range
  <2>. HIDE DEF G, P, B, N, D
  <2>. QED BY <1>10, <2>1
<1>. HIDE DEF G, P, B, N, D
<1>12. Payload(Whole) \ Payload(wire) = UNION Range(Kept)
    BY <1>7, <1>8, <1>9, <1>11
<1>13. ASSUME NEW i \in DOMAIN Kept, NEW j \in DOMAIN Kept, i # j PROVE Kept[i] \cap Kept[j] = {}
  <2>1. /\ G \cap P = {} /\ G \cap B = {} /\ G \cap N = {} /\ G \cap D = {} /\ P \cap B = {}
        /\ P \cap N = {} /\ P \cap D = {} /\ B \cap N = {} /\ B \cap D = {} /\ N \cap D = {}
      BY <1>8, <1>9
  <2>2. i \in 1..5 /\ j \in 1..5
      BY <1>10
  <2>3. i = 1 \/ i = 2 \/ i = 3 \/ i = 4 \/ i = 5
      BY <2>2
  <2>4. j = 1 \/ j = 2 \/ j = 3 \/ j = 4 \/ j = 5
      BY <2>2
  <2>. QED BY <1>10, <1>13, <2>1, <2>3, <2>4
<1>. QED BY <1>12, <1>13 DEF Conserved, Whole

(* Whatever the segments and the reads: between two reads no payload byte  *)
(* is lost and none is kept twice.                                         *)
THEOREM PayloadIsConserved == Spec => []Conserved
<1>1. Init => KeptInv
  <2>1. SUFFICES ASSUME Init PROVE KeptInv
      OBVIOUS
  <2>2. InPlace(0) /\ 0 \in 0..Len(segs) /\ PendingAt(0) = 0
      BY <2>1, ChannelInitOK
  <2>3. got = <<>> /\ out = <<>> /\ dropped = {}
      BY <2>1 DEF Init
  <2>4. Took(0) = {} /\ MessageBytes(got) = {} /\ MessageBytes(out) = {}
    <3>1. 1..0 = {}
        OBVIOUS
    <3>2. Took(0) = {}
        BY <3>1 DEF Took
    <3>. QED BY <2>3, <3>2, BytesOfNone
  <2>. QED BY <2>2, <2>3, <2>4 DEF KeptInv, KeptOK
<1>2. ChannelInv /\ KeptInv /\ [Next]_vars => KeptInv'
    BY KeptStepOK
<1>3. ChannelInv /\ KeptInv => Conserved
  <2>1. SUFFICES ASSUME ChannelInv, KeptInv, mode = "read", data = <<>> PROVE Conserved
      BY DEF Conserved
  <2>2. ~Failed
      BY <2>1 DEF Failed
  <2>3. IsStream(sent, segs) /\ BuffersOK
      BY <2>1 DEF ChannelInv
  <2>4. PICK s \in 0..Len(segs) : InPlace(s) /\ KeptOK(s)
      BY <2>1, <2>2 DEF KeptInv
  <2>. QED BY <2>1, <2>3, <2>4, KeptIsConserved
<1>. QED BY <1>1, <1>2, <1>3, ChannelInvHolds, PTL DEF Spec

-----------------------------------------------------------------------------
(* MessageReader: headers in pieces *)

(* A kept header and the read that meets it.  No header is too long unless *)
(* a read went past the end of one, and then one is, or is about to be.    *)
(* When nothing is left to read at the end of segment s, that segment had  *)
(* a payload: the bytes behind its header came with the header.            *)
PiecesOK(s) ==
    /\ ~overrun =>
         /\ Len(partial) <= 8
         /\ partial # <<>> /\ data # <<>> /\ Len(data) <= 8 => Len(partial) + Len(data) <= 8
    /\ overrun => \/ Len(partial) > 8
                  \/ /\ partial # <<>> /\ data # <<>>
                     /\ Len(data) <= 8 /\ Len(partial) + Len(data) > 8
    /\ data = <<>> /\ partial = <<>> /\ (mode # "read" \/ buffer = <<>>) /\ s # 0 => segs[s] # <<>>

PiecesInv ==
    /\ ~overrun => Len(partial) <= 8 /\ mode # "panic"
    /\ ~Failed => \E s \in 0..Len(segs) : InPlace(s) /\ PiecesOK(s)

(* The header that a place is in, or right behind, is found from any       *)
(* segment.                                                                *)
LEMMA HeaderOf ==
    ASSUME segs \in Seq(Seq(Byte)), NEW s \in 0..Len(segs), NEW i \in 0..(Len(segs) - 1),
           NEW at \in Nat, WireEnd(i) < at, at <= WireEnd(i) + 8
    PROVE  (i < s => at <= WireEnd(s)) /\ (i > s => WireEnd(s + 1) < at)
<1>1. Len(segs) \in Nat
    BY BodyIs
<1>2. i \in Nat /\ s \in Nat /\ i + 1 \in 1..Len(segs) /\ i + 1 \in 0..Len(segs) /\ i \in 0..Len(segs)
    BY <1>1
<1>3. PICK k \in 1..Len(segs) : k = i + 1 /\ k - 1 = i /\ k \in 0..Len(segs)
    BY <1>2
<1>4. WireEnd(i) \in Nat /\ WireEnd(k) \in Nat /\ WireEnd(s) \in Nat
    BY <1>2, <1>3, WholeIs
<1>5. WireEnd(k) = WireEnd(i) + 8 + Len(segs[k]) /\ Len(segs[k]) \in Nat
    BY <1>3, WholeIs, BodyIs
<1>6. ASSUME i < s PROVE at <= WireEnd(s)
  <2>1. k <= s
      BY <1>2, <1>3, <1>6
  <2>2. WireEnd(k) <= WireEnd(s)
      BY <1>3, <2>1, EndsGrow
  <2>3. PICK u \in Nat, v \in Nat, w \in Nat, l \in Nat :
           u = WireEnd(i) /\ v = WireEnd(k) /\ w = WireEnd(s) /\ l = Len(segs[k])
      BY <1>4, <1>5
  <2>4. at <= u + 8 /\ v = u + 8 + l /\ v <= w
      BY <1>5, <2>2, <2>3
  <2>5. at <= w
      BY <2>4
  <2>. QED BY <2>3, <2>5
<1>7. ASSUME i > s PROVE WireEnd(s + 1) < at
  <2>1. PICK t \in 0..Len(segs) : t = s + 1 /\ t <= i
    <3>1. s + 1 \in 0..Len(segs) /\ s + 1 <= i
        BY <1>1, <1>2, <1>7
    <3>. QED BY <3>1
  <2>2. WireEnd(t) <= WireEnd(i) /\ WireEnd(t) \in Nat
      BY <1>2, <2>1, EndsGrow, WholeIs
  <2>. QED BY <1>4, <2>1, <2>2
<1>. QED BY <1>6, <1>7

(* Behind its header a segment has payload only.                           *)
LEMMA NoHeaderIn ==
    ASSUME segs \in Seq(Seq(Byte)), NEW s \in 0..Len(segs), s < Len(segs),
           NEW at \in Nat, WireEnd(s) + 8 < at, at <= WireEnd(s + 1), NEW i \in 0..(Len(segs) - 1)
    PROVE  ~(WireEnd(i) < at /\ at <= WireEnd(i) + 8)
<1>1. SUFFICES ASSUME WireEnd(i) < at, at <= WireEnd(i) + 8 PROVE FALSE
    OBVIOUS
<1>2. Len(segs) \in Nat
    BY BodyIs
<1>3. s \in Nat /\ i \in Nat /\ s + 1 \in 0..Len(segs)
    BY <1>2
<1>4. WireEnd(s) \in Nat /\ WireEnd(s + 1) \in Nat
    BY <1>3, WholeIs
<1>5. (i < s => at <= WireEnd(s)) /\ (i > s => WireEnd(s + 1) < at)
    BY <1>1, HeaderOf
<1>6. i = s
    BY <1>3, <1>4, <1>5
<1>. QED BY <1>1, <1>4, <1>6

(* A read goes past the end of a header exactly when the reader has kept   *)
(* too much of one for it.                                                 *)
LEMMA ReadPieces ==
    ASSUME BuffersOK, segs \in Seq(Seq(Byte)), NEW s \in 0..Len(segs), FramesOK(s), PiecesOK(s),
           NEW n \in 1..Len(wire), Read(n)
    PROVE  PiecesOK(s)'
<1>1. /\ wire \in Seq(Byte) /\ Len(wire) \in Nat /\ Len(partial) \in Nat /\ Len(buffer) \in Nat
      /\ Len(Whole) \in Nat /\ n \in Nat /\ n # 0 /\ n <= Len(wire)
    BY LenProperties, WholeIs DEF BuffersOK
<1>2. /\ mode = "read" /\ data = <<>> /\ Len(data) = 0 /\ data' = SubSeq(wire, 1, n)
      /\ partial' = partial /\ buffer' = buffer /\ segs' = segs /\ mode' = mode
      /\ overrun' = (overrun \/ Overruns(n))
    BY DEF Read, streamVars, readerVars
<1>3. Len(data') = n /\ data' # <<>>
  <2>1. Len(data') = n
      BY <1>1, <1>2, HeadOfBytes
  <2>. QED BY <1>1, <1>2, <2>1
<1>4. WireEnd(s) \in Nat /\ WireEnd(s) <= Len(Whole) /\ Len(segs) \in Nat /\ WireEnd(Len(segs)) = Len(Whole)
    BY WholeIs, BodyIs
<1>5. PICK at \in Nat : at = Len(Whole) - Len(wire) /\ at < Len(Whole)
  <2>1. Len(wire) <= Len(Whole)
    <3>1. Len(Whole) - Len(wire) \in Nat
        BY DEF FramesOK, IsSlice
    <3>. QED BY <1>1, <3>1
  <2>2. Len(Whole) - Len(wire) \in Nat /\ Len(Whole) - Len(wire) < Len(Whole)
      BY <1>1, <2>1
  <2>. QED BY <2>2
<1>6. HeaderAt = at - Len(partial)
    BY <1>1, <1>2, <1>5 DEF HeaderAt, DataAt
<1>7. Overruns(n) <=> \E i \in 0..(Len(segs) - 1) :
         /\ WireEnd(i) < at /\ at <= WireEnd(i) + 8 /\ n <= 8 /\ at + n > WireEnd(i) + 8
    BY <1>5 DEF Overruns, Whole, HeaderSize
<1>8. CASE partial # <<>>
  <2>1. Len(partial) # 0 /\ buffer = <<>>
      BY <1>2, <1>8, EmptySeq DEF FramesOK, BuffersOK
  <2>2. at = WireEnd(s) + Len(partial)
    <3>1. HeaderAt = WireEnd(s)
        BY <2>1 DEF FramesOK
    <3>. QED BY <1>1, <1>4, <1>6, <3>1
  <2>3. s \in 0..(Len(segs) - 1) /\ s + 1 \in 1..Len(segs) /\ s + 1 - 1 = s
    <3>1. s # Len(segs)
        BY <1>1, <1>4, <1>5, <2>2
    <3>. QED BY <1>4, <3>1
  <2>4. CASE overrun
    <3>1. Len(partial) > 8
        BY <1>2, <2>4 DEF PiecesOK
    <3>. QED BY <1>2, <1>3, <1>8, <2>4, <3>1 DEF PiecesOK
  <2>5. CASE ~overrun
    <3>1. Len(partial) <= 8
        BY <2>5 DEF PiecesOK
    <3>2. Overruns(n) => n <= 8 /\ Len(partial) + n > 8
      <4>1. SUFFICES ASSUME NEW i \in 0..(Len(segs) - 1), WireEnd(i) < at, at <= WireEnd(i) + 8,
                            n <= 8, at + n > WireEnd(i) + 8
                     PROVE  Len(partial) + n > 8
          BY <1>7
      <4>2. (i < s => at <= WireEnd(s)) /\ (i > s => WireEnd(s + 1) < at)
          BY <4>1, HeaderOf
      <4>3. WireEnd(s + 1) = WireEnd(s) + 8 + Len(segs[s + 1]) /\ Len(segs[s + 1]) \in Nat
        <5>1. PICK t \in 1..Len(segs) : t = s + 1 /\ t - 1 = s
            BY <2>3
        <5>. QED BY <5>1, WholeIs, BodyIs
      <4>4. i = s
        <5>1. i \in Nat /\ s \in Nat
            BY <1>4
        <5>2. PICK v \in Nat, p \in Nat, l \in Nat :
                 v = WireEnd(s) /\ p = Len(partial) /\ l = Len(segs[s + 1])
            BY <1>1, <1>4, <4>3
        <5>3. p # 0 /\ p <= 8 /\ at = v + p /\ WireEnd(s + 1) = v + 8 + l
            BY <2>1, <2>2, <3>1, <4>3, <5>2
        <5>4. ~(at <= v) /\ ~(v + 8 + l < at)
            BY <5>3
        <5>5. ~(i < s) /\ ~(i > s)
            BY <4>2, <5>2, <5>3, <5>4
        <5>. QED BY <5>1, <5>5
      <4>. QED BY <1>1, <1>4, <2>2, <4>1, <4>4
    <3>3. n <= 8 /\ Len(partial) + n > 8 => Overruns(n)
      <4>1. SUFFICES ASSUME n <= 8, Len(partial) + n > 8 PROVE Overruns(n)
          OBVIOUS
      <4>2. WireEnd(s) < at /\ at <= WireEnd(s) + 8 /\ at + n > WireEnd(s) + 8
          BY <1>1, <1>4, <2>1, <2>2, <3>1, <4>1
      <4>. QED BY <1>7, <2>3, <4>1, <4>2
    <3>4. overrun' <=> n <= 8 /\ Len(partial) + n > 8
        BY <1>2, <2>5, <3>2, <3>3, Zenon
    <3>5. CASE n <= 8 /\ Len(partial) + n > 8
        BY <1>2, <1>3, <1>8, <3>4, <3>5 DEF PiecesOK
    <3>6. CASE ~(n <= 8 /\ Len(partial) + n > 8)
      <4>1. n <= 8 => Len(partial) + n <= 8
          BY <1>1, <3>6
      <4>. QED BY <1>2, <1>3, <1>8, <3>1, <3>4, <3>6, <4>1 DEF PiecesOK
    <3>. QED BY <3>5, <3>6
  <2>. QED BY <2>4, <2>5
<1>9. CASE partial = <<>>
  <2>1. Len(partial) = 0 /\ at = HeaderAt
      BY <1>1, <1>5, <1>6, <1>9
  <2>2. ~overrun
      BY <1>2, <1>9, <2>1 DEF PiecesOK
  <2>3. ASSUME NEW i \in 0..(Len(segs) - 1), WireEnd(i) < at, at <= WireEnd(i) + 8 PROVE FALSE
    <3>1. CASE buffer # <<>>
      <4>1. /\ s < Len(segs) /\ length = Len(segs[s + 1]) /\ Len(buffer) < length
            /\ at = WireEnd(s) + 8 + Len(buffer)
          BY <1>2, <2>1, <3>1 DEF FramesOK
      <4>2. Len(buffer) # 0
          BY <3>1, EmptySeq DEF BuffersOK
      <4>3. WireEnd(s + 1) = WireEnd(s) + 8 + Len(segs[s + 1]) /\ Len(segs[s + 1]) \in Nat
        <5>1. PICK t \in 1..Len(segs) : t = s + 1 /\ t - 1 = s
          <6>1. s + 1 \in 1..Len(segs) /\ s + 1 - 1 = s
              BY <1>4, <4>1
          <6>. QED BY <6>1
        <5>. QED BY <5>1, WholeIs, BodyIs
      <4>4. WireEnd(s) + 8 < at /\ at <= WireEnd(s + 1)
        <5>1. PICK v \in Nat, b \in Nat, l \in Nat :
                 v = WireEnd(s) /\ b = Len(buffer) /\ l = Len(segs[s + 1])
            BY <1>1, <1>4, <4>3
        <5>2. b # 0 /\ b < l /\ at = v + 8 + b /\ WireEnd(s + 1) = v + 8 + l
            BY <4>1, <4>2, <4>3, <5>1
        <5>3. v + 8 < v + 8 + b /\ v + 8 + b <= v + 8 + l
            BY <5>2
        <5>. QED BY <5>1, <5>2, <5>3
      <4>. QED BY <2>3, <4>1, <4>4, NoHeaderIn
    <3>2. CASE buffer = <<>> /\ s = 0
      <4>1. at = 0
          BY <2>1, <3>2, WholeIs DEF FramesOK
      <4>2. i \in 0..Len(segs)
          BY <1>4
      <4>3. WireEnd(i) \in Nat
          BY <4>2, WholeIs
      <4>. QED BY <2>3, <4>1, <4>3
    <3>3. CASE buffer = <<>> /\ s # 0
      <4>1. segs[s] # <<>> /\ at = WireEnd(s)
          BY <1>2, <1>9, <2>1, <3>3 DEF PiecesOK, FramesOK
      <4>2. PICK r \in 0..Len(segs) : r = s - 1 /\ r + 1 = s /\ r < Len(segs) /\ s \in 1..Len(segs)
        <5>1. s - 1 \in 0..Len(segs) /\ s - 1 + 1 = s /\ s - 1 < Len(segs) /\ s \in 1..Len(segs)
            BY <1>4, <3>3
        <5>. QED BY <5>1
      <4>3. WireEnd(s) = WireEnd(r) + 8 + Len(segs[s]) /\ segs[s] \in Seq(Byte) /\ Len(segs[s]) \in Nat
          BY <4>2, WholeIs, BodyIs
      <4>4. Len(segs[s]) # 0
          BY <4>1, <4>3, EmptySeq
      <4>5. WireEnd(r) \in Nat
          BY <4>2, WholeIs
      <4>6. WireEnd(r) + 8 < at /\ at <= WireEnd(r + 1)
        <5>1. PICK u \in Nat, l \in Nat : u = WireEnd(r) /\ l = Len(segs[s])
            BY <4>3, <4>5
        <5>2. at = u + 8 + l /\ l # 0
            BY <4>1, <4>3, <4>4, <5>1
        <5>3. u + 8 < at
            BY <5>2
        <5>4. WireEnd(r + 1) = at
            BY <4>1, <4>2
        <5>. QED BY <5>1, <5>2, <5>3, <5>4
      <4>. QED BY <2>3, <4>2, <4>6, NoHeaderIn
    <3>. QED BY <3>1, <3>2, <3>3
  <2>4. ~Overruns(n)
      BY <1>7, <2>3
  <2>. QED BY <1>2, <1>3, <1>9, <2>1, <2>2, <2>4 DEF PiecesOK
<1>. QED BY <1>8, <1>9

(* What is kept of a header is too long exactly when the read was.         *)
LEMMA KeepPieces ==
    ASSUME BuffersOK, NEW s, PiecesOK(s), KeepHeader
    PROVE  PiecesOK(s)'
<1>1. /\ partial \in Seq(Byte) /\ data \in Seq(Byte) /\ Len(partial) \in Nat /\ Len(data) \in Nat
    BY LenProperties DEF BuffersOK
<1>2. /\ data # <<>> /\ Len(data) <= 8 /\ partial' = partial \o data /\ data' = <<>>
      /\ overrun' = overrun
    BY DEF KeepHeader, AtHeader, IsLoneHeader, HeaderSize
<1>3. Len(partial') = Len(partial) + Len(data)
    BY <1>1, <1>2, ConcatBytes
<1>4. Len(data) # 0
    BY <1>1, <1>2, EmptySeq
<1>5. Len(partial') # 0 /\ partial' # <<>>
    BY <1>1, <1>3, <1>4
<1>6. partial = <<>> => Len(partial) = 0
    OBVIOUS
<1>7. ~overrun => Len(partial') <= 8
    BY <1>1, <1>2, <1>3, <1>6 DEF PiecesOK
<1>8. overrun => Len(partial') > 8
    BY <1>1, <1>3 DEF PiecesOK
<1>. QED BY <1>2, <1>5, <1>7, <1>8 DEF PiecesOK

(* A header that is read is no longer kept, and was not too long.          *)
LEMMA FillPieces ==
    ASSUME BuffersOK, BuffersOK', segs \in Seq(Seq(Byte)), NEW s \in 0..Len(segs), FramesOK(s), PiecesOK(s),
           ReadHeader \/ ReadPayload, NEW t \in 0..Len(segs), t = s \/ t = s + 1, FramesOK(t)'
    PROVE  PiecesOK(t)'
<1>1. /\ Len(wire) \in Nat /\ Len(data) \in Nat /\ Len(partial) \in Nat /\ Len(buffer) \in Nat
      /\ Len(Whole) \in Nat /\ WireEnd(s) \in Nat /\ WireEnd(t) \in Nat /\ Len(segs) \in Nat
    BY LenProperties, WholeIs, BodyIs DEF BuffersOK
<1>2. mode = "read" /\ partial' = <<>> /\ UNCHANGED <<segs, wire, overrun>>
  <2>1. ASSUME NEW body, NEW n, Fill(body, n) PROVE UNCHANGED <<segs, wire, overrun>>
      BY <2>1, Zenon DEF Fill, streamVars
  <2>2. CASE ReadHeader
      BY <2>1, <2>2 DEF ReadHeader, AtHeader
  <2>3. CASE ReadPayload
    <3>1. partial = <<>>
        BY <2>3 DEF ReadPayload, FramesOK
    <3>. QED BY <2>1, <2>3, <3>1 DEF ReadPayload
  <2>. QED BY <2>2, <2>3
<1>3. ~overrun /\ WireEnd(s) + 8 < Len(Whole) - Len(wire)
  <2>1. CASE ReadHeader
    <3>1. buffer = <<>> /\ Len(partial) <= 8 /\ Len(data) > 8
        BY <1>1, <2>1 DEF ReadHeader, AtHeader, IsLoneHeader, HeaderSize
    <3>2. ~overrun
        BY <1>1, <3>1 DEF PiecesOK
    <3>3. WireEnd(s) = Len(Whole) - Len(wire) - Len(data) - Len(partial)
        BY <3>1 DEF FramesOK, HeaderAt, DataAt
    <3>. QED BY <1>1, <3>1, <3>2, <3>3
  <2>2. CASE ReadPayload
    <3>1. data # <<>> /\ buffer # <<>> /\ partial = <<>> /\ HeaderAt = WireEnd(s) + 8 + Len(buffer)
        BY <1>2, <2>2 DEF ReadPayload, FramesOK
    <3>2. Len(buffer) # 0 /\ Len(partial) = 0
        BY <3>1, EmptySeq DEF BuffersOK
    <3>3. ~overrun
        BY <3>1, <3>2 DEF PiecesOK
    <3>4. Len(Whole) - Len(wire) - Len(data) - 0 = WireEnd(s) + 8 + Len(buffer)
        BY <3>1, <3>2 DEF HeaderAt, DataAt
    <3>. QED BY <1>1, <3>2, <3>3, <3>4
  <2>. QED BY <2>1, <2>2
<1>4. ASSUME data' = <<>>, mode' # "read" \/ buffer' = <<>> PROVE segs'[t] # <<>>
  <2>1. HeaderAt' = WireEnd(t)
    <3>1. HeaderAt' = WireEnd(t)'
        BY <1>4 DEF FramesOK
    <3>2. WireEnd(t)' = WireEnd(t)
        BY <1>2 DEF WireEnd
    <3>. QED BY <3>1, <3>2
  <2>2. HeaderAt' = Len(Whole) - Len(wire)
    <3>1. Whole' = Whole /\ Len(data') = 0 /\ Len(partial') = 0
        BY <1>2, <1>4 DEF Whole
    <3>2. HeaderAt' = Len(Whole) - Len(wire) - 0 - 0
        BY <1>2, <3>1 DEF HeaderAt, DataAt
    <3>. QED BY <1>1, <3>2
  <2>3. WireEnd(s) + 8 < WireEnd(t)
      BY <1>3, <2>1, <2>2
  <2>4. t = s + 1
      BY <1>1, <2>3
  <2>5. t \in 1..Len(segs) /\ t - 1 = s
      BY <1>1, <2>4
  <2>6. WireEnd(t) = WireEnd(s) + 8 + Len(segs[t])
      BY <2>5, WholeIs
  <2>7. Len(segs[t]) # 0
      BY <1>1, <2>3, <2>6
  <2>. QED BY <1>2, <2>7
<1>. QED BY <1>2, <1>3, <1>4 DEF PiecesOK

(* A step that decodes reads nothing.                                      *)
LEMMA ReadsOrDecodes ==
    ASSUME Next
    PROVE  \/ \E n \in 1..Len(wire) : Read(n)
           \/ KeepHeader \/ ReadHeader \/ ReadPayload \/ Fails
           \/ mode # "read" /\ UNCHANGED DecodeVars
  BY DEF Next, Fails, NextMessage, NextStartBatch, MessagesDone, NextBlock, NextBatchDone, BlocksDone

(* Every step keeps what is known of the kept header.                      *)
LEMMA PiecesStepOK ==
    ASSUME ChannelInv, PiecesInv, [Next]_vars
    PROVE  PiecesInv'
<1>1. CASE UNCHANGED vars
  <2>1. UNCHANGED <<segs, data, partial, buffer, mode, overrun>>
      BY <1>1 DEF vars, streamVars, readerVars
  <2>2. \A s : (InPlace(s)' <=> InPlace(s)) /\ (PiecesOK(s)' <=> PiecesOK(s))
    <3>1. SUFFICES ASSUME NEW s PROVE (InPlace(s)' <=> InPlace(s)) /\ (PiecesOK(s)' <=> PiecesOK(s))
        OBVIOUS
    <3>2. PiecesOK(s)' <=> PiecesOK(s)
        BY <2>1 DEF PiecesOK
    <3>. QED BY <1>1, <3>2, StaysInPlace
  <2>. QED BY <2>1, <2>2 DEF PiecesInv, Failed
<1>2. CASE Next
  <2>1. ~Failed
      BY <1>2, FailedStops
  <2>2. /\ IsStream(sent, segs) /\ BuffersOK /\ GotOK
        /\ mode \in {"read", "messages", "blocks"}
      BY <2>1 DEF ChannelInv
  <2>3. segs \in Seq(Seq(Byte)) /\ BuffersOK'
      BY <1>2, <2>2, StreamIs, ReaderStepOK
  <2>4. PICK s \in 0..Len(segs) : InPlace(s) /\ PiecesOK(s)
      BY <2>1 DEF PiecesInv
  <2>5. FramesOK(s)
      BY <2>4 DEF InPlace
  <2>6. ASSUME NEW i \in 0..Len(segs), InPlace(i)', PiecesOK(i)', segs' = segs, mode' # "panic"
        PROVE  PiecesInv'
      BY <2>6 DEF PiecesInv, PiecesOK
  <2>7. CASE Waits(s) /\ InPlace(s)'
    <3>1. mode = "read" /\ mode' = "read" /\ segs' = segs /\ FramesOK(s)'
        BY <2>7 DEF Waits
    <3>2. ~Fails
        BY <3>1, FailsReturnNothing
    <3>3. PiecesOK(s)'
        BY <1>2, <2>2, <2>3, <2>4, <2>5, <3>1, <3>2, ReadsOrDecodes, ReadPieces, KeepPieces, FillPieces
    <3>. QED BY <2>6, <2>7, <3>1, <3>3
  <2>8. CASE Arrives(s) /\ s + 1 \in 0..Len(segs) /\ InPlace(s + 1)'
    <3>1. mode = "read" /\ mode' \in {"blocks", "messages"} /\ segs' = segs
        BY <2>8 DEF Arrives
    <3>2. ReadHeader \/ ReadPayload
      <4>1. ~Fails
          BY <3>1, FailsReturnNothing
      <4>2. \A n : Read(n) => mode' = mode
          BY DEF Read, readerVars
      <4>3. KeepHeader => mode' = mode
          BY DEF KeepHeader
      <4>. QED BY <1>2, <3>1, <4>1, <4>2, <4>3, ReadsOrDecodes
    <3>3. PICK t \in 0..Len(segs) : t = s + 1 /\ InPlace(t)'
        BY <2>8
    <3>4. FramesOK(t)'
        BY <3>3 DEF InPlace
    <3>5. PiecesOK(t)'
        BY <2>2, <2>3, <2>4, <2>5, <3>2, <3>3, <3>4, FillPieces
    <3>. QED BY <2>6, <3>1, <3>3, <3>5
  <2>9. CASE (Decodes \/ Starts \/ Ends \/ Returns) /\ InPlace(s)'
    <3>1. mode # "read" /\ segs' = segs /\ mode' \in {mode, "read"}
        BY <2>9 DEF Decodes, Starts, Ends, Returns
    <3>2. mode' # "panic"
        BY <2>2, <3>1
    <3>3. UNCHANGED DecodeVars
      <4>1. ~Fails
          BY <2>2, <3>1, FailsReturnNothing
      <4>2. \A n : ~Read(n)
          BY <3>1 DEF Read
      <4>. QED BY <1>2, <3>1, <4>1, <4>2, ReadsOrDecodes DEF KeepHeader, ReadHeader, ReadPayload, AtHeader
    <3>4. PiecesOK(s)'
        BY <2>4, <3>1, <3>3 DEF PiecesOK, DecodeVars
    <3>. QED BY <2>6, <2>9, <3>1, <3>2, <3>4
  <2>10. CASE Fails
    <3>1. Failed' /\ overrun' = overrun /\ partial' = partial
      <4>1. partial' = partial
          BY <2>10 DEF Fails, Panic, MessageCut, NotABlock, Garbled, DecodeVars
      <4>. QED BY <2>10, <4>1, FailsReturnNothing
    <3>2. ASSUME mode' = "panic" PROVE overrun
      <4>1. Panic
          BY <2>10, <3>2 DEF Fails, MessageCut, NotABlock, Garbled
      <4>2. Len(partial) \in Nat /\ Len(partial) > 8
          BY <2>2, <4>1, LenProperties DEF Panic, BuffersOK, HeaderSize
      <4>. QED BY <2>4, <4>2 DEF PiecesOK
    <3>. QED BY <3>1, <3>2 DEF PiecesInv
  <2>. QED BY <1>2, <2>2, <2>4, <2>7, <2>8, <2>9, <2>10, StepsInPlace
<1>. QED BY <1>1, <1>2

(* A header may come in pieces, of any sizes, from any segments: while no  *)
(* read of at most eight bytes goes past the end of a header that it       *)
(* begins inside of or right behind, the reader does not panic; and after  *)
(* such a read it holds more than a header between two reads.              *)
THEOREM HeadersAreJoined == Spec => []HeaderInPieces
<1>1. Init => PiecesInv
  <2>1. SUFFICES ASSUME Init PROVE PiecesInv
      OBVIOUS
  <2>2. InPlace(0) /\ 0 \in 0..Len(segs)
      BY <2>1, ChannelInitOK
  <2>3. data = <<>> /\ partial = <<>> /\ Len(partial) = 0 /\ ~overrun /\ mode = "read"
      BY <2>1 DEF Init
  <2>4. PiecesOK(0)
      BY <2>3 DEF PiecesOK
  <2>. QED BY <2>2, <2>3, <2>4 DEF PiecesInv
<1>2. ChannelInv /\ PiecesInv /\ [Next]_vars => PiecesInv'
    BY PiecesStepOK
<1>3. PiecesInv => HeaderInPieces
  <2>1. SUFFICES ASSUME PiecesInv, overrun, mode = "read", data = <<>> PROVE Len(partial) > 8
      BY DEF PiecesInv, HeaderInPieces, HeaderSize
  <2>2. ~Failed
      BY <2>1 DEF Failed
  <2>3. PICK s \in 0..Len(segs) : PiecesOK(s)
      BY <2>1, <2>2 DEF PiecesInv
  <2>. QED BY <2>1, <2>3 DEF PiecesOK
<1>. QED BY <1>1, <1>2, <1>3, ChannelInvHolds, PTL DEF Spec

-----------------------------------------------------------------------------
(* MessageReader: streams the reader is made for *)

(* The last byte of a segment, in a stream the reader is made for.         *)
LEMMA CutIs ==
    ASSUME IsStream(sent, segs), CutsOnlyBlocks, NEW i \in 1..Len(segs), NEW p, p = BodyEnd(i)
    PROVE  /\ BodyEnd(i - 1) \in Nat /\ p \in 1..Len(Body) /\ BodyEnd(i - 1) < p
           /\ Body[p][2] < Size[sent[Body[p][1]]] =>
                /\ sent[Body[p][1]] = "Block" /\ InBatch(Body[p][1]) /\ Body[p][2] >= 2
                /\ p < Len(Body) /\ Body[p + 1] = <<Body[p][1], Body[p][2] + 1>>
<1>1. segs \in Seq(Seq(Byte))
    BY StreamIs
<1>2. Len(segs) \in Nat /\ DOMAIN segs = 1..Len(segs) /\ Len(Body) \in Nat
    BY <1>1, BodyIs, LenProperties
<1>3. i - 1 \in 0..Len(segs) /\ i \in 0..Len(segs)
    BY <1>2
<1>4. PICK seg : seg = segs[i]
    OBVIOUS
<1>5. /\ seg \in Seq(Byte) /\ Len(seg) \in Nat /\ BodyEnd(i - 1) \in Nat
      /\ p = BodyEnd(i - 1) + Len(seg) /\ p <= Len(Body)
      /\ \A j \in 1..Len(seg) : Body[BodyEnd(i - 1) + j] = seg[j]
    BY <1>1, <1>3, <1>4, BodyIs
<1>6. PICK last : last = seg[Len(seg)]
    OBVIOUS
<1>7. /\ seg # <<>>
      /\ last[2] < Size[sent[last[1]]] =>
           /\ sent[last[1]] = "Block" /\ InBatch(last[1]) /\ last[2] >= 2
           /\ i < Len(segs) /\ segs[i + 1][1] = <<last[1], last[2] + 1>>
    BY <1>2, <1>4, <1>6 DEF CutsOnlyBlocks
<1>8. Len(seg) # 0 /\ Len(seg) \in 1..Len(seg)
    BY <1>5, <1>7, EmptySeq
<1>9. Body[p] = last
    BY <1>5, <1>6, <1>8
<1>10. p \in 1..Len(Body) /\ BodyEnd(i - 1) < p
    BY <1>2, <1>5, <1>8
<1>11. ASSUME i < Len(segs) PROVE p < Len(Body) /\ Body[p + 1] = segs[i + 1][1]
  <2>1. PICK k \in 1..Len(segs) : k = i + 1 /\ k - 1 = i /\ k \in 0..Len(segs)
      BY <1>2, <1>11
  <2>2. PICK nxt : nxt = segs[k]
      OBVIOUS
  <2>3. /\ nxt \in Seq(Byte) /\ Len(nxt) \in Nat /\ BodyEnd(k) = p + Len(nxt) /\ BodyEnd(k) <= Len(Body)
        /\ \A j \in 1..Len(nxt) : Body[p + j] = nxt[j]
      BY <1>1, <2>1, <2>2, BodyIs
  <2>4. nxt # <<>>
      BY <1>2, <2>1, <2>2 DEF CutsOnlyBlocks
  <2>5. Len(nxt) # 0 /\ 1 \in 1..Len(nxt)
      BY <2>3, <2>4, EmptySeq
  <2>. QED BY <1>2, <1>10, <2>1, <2>2, <2>3, <2>5
<1>. QED BY <1>5, <1>7, <1>9, <1>10, <1>11

(* The segment of a byte.                                                  *)
LEMMA SegmentOf ==
    ASSUME IsStream(sent, segs), NEW p \in 1..Len(Body)
    PROVE  \E i \in 1..Len(segs) : BodyEnd(i - 1) < p /\ p <= BodyEnd(i)
<1>1. segs \in Seq(Seq(Byte))
    BY StreamIs
<1>. QED BY <1>1, PlaceInJoin DEF Body, BodyEnd

(* In such a stream the bytes follow one another.                          *)
LEMMA RegularFollows ==
    ASSUME IsStream(sent, segs), CutsOnlyBlocks
    PROVE  \A p \in 1..Len(Body) : p < Len(Body) => Follows(sent, Body[p], Body[p + 1])
<1>. DEFINE T == {p \in 1..Len(Body) : p < Len(Body) /\ ~Follows(sent, Body[p], Body[p + 1])}
<1>1. SUFFICES ASSUME T # {} PROVE FALSE
    OBVIOUS
<1>2. Len(Body) \in Nat /\ Len(segs) \in Nat
  <2>1. segs \in Seq(Seq(Byte))
      BY StreamIs
  <2>. QED BY <2>1, BodyIs
<1>3. PICK p \in T : \A q \in T : p <= q
  <2>1. T \subseteq Nat
      BY <1>2
  <2>. HIDE DEF T
  <2>. QED BY <1>1, <2>1, LeastIndex
<1>4. p \in 1..Len(Body) /\ p < Len(Body) /\ ~Follows(sent, Body[p], Body[p + 1]) /\ p \in Nat /\ p + 1 \in 1..Len(Body)
    BY <1>2, <1>3
<1>5. ASSUME NEW j \in 1..Len(Body), j < p PROVE Follows(sent, Body[j], Body[j + 1])
  <2>1. j \notin T
      BY <1>2, <1>3, <1>5
  <2>. QED BY <1>2, <1>4, <1>5, <2>1
<1>. HIDE DEF T
<1>6. PICK i \in 1..Len(segs) : BodyEnd(i - 1) < p /\ p <= BodyEnd(i)
    BY <1>4, SegmentOf
<1>7. BodyEnd(i) \in Nat
  <2>1. segs \in Seq(Seq(Byte)) /\ i \in 0..Len(segs)
      BY <1>2, StreamIs
  <2>. QED BY <2>1, BodyIs
<1>8. p = BodyEnd(i)
  <2>1. ~(p < BodyEnd(i))
      BY <1>4, <1>6, SegmentFollows
  <2>. QED BY <1>4, <1>6, <1>7, <2>1
<1>9. PICK m \in 1..Len(sent), z \in Nat : m = Body[p][1] /\ z = Size[sent[m]] /\ Body[p][2] \in 1..z
    BY <1>4, StreamIs
<1>10. ~(Body[p][2] < z)
  <2>1. SUFFICES ASSUME Body[p][2] < Size[sent[Body[p][1]]] PROVE FALSE
      BY <1>9
  <2>2. Body[p + 1] = <<Body[p][1], Body[p][2] + 1>>
      BY <1>8, <2>1, CutIs
  <2>. QED BY <1>4, <2>1, <2>2 DEF Follows
<1>11. Body[p + 1][2] # 1
    BY <1>4, <1>9, <1>10 DEF Follows
<1>12. PICK n, y, k : n = Body[p + 1][1] /\ k = Body[p + 1][2] /\ y = Size[sent[n]]
    OBVIOUS
<1>13. n \in 1..Len(sent) /\ y \in Nat /\ k \in 1..y /\ \E j \in 1..p : Body[j] = <<n, k - 1>>
  <2>1. PICK q \in 1..Len(Body) : q = p + 1 /\ q - 1 = p
      BY <1>4
  <2>2. n = Body[q][1] /\ k = Body[q][2] /\ k # 1
      BY <1>11, <1>12, <2>1
  <2>3. n \in 1..Len(sent) /\ k \in 1..y
      BY <1>12, <2>2, StreamIs, SMTT(40)
  <2>4. y \in Nat
      BY <1>12, <2>3, StreamIs
  <2>5. \E j \in 1..(q - 1) : Body[j] = <<n, k - 1>>
      BY <2>2, StreamIs
  <2>. QED BY <2>1, <2>3, <2>4, <2>5
<1>14. PICK j \in 1..p : Body[j] = <<n, k - 1>>
    BY <1>13
<1>15. Body[j][1] = n /\ Body[j][2] = k - 1 /\ Body[j][2] < Size[sent[Body[j][1]]]
    BY <1>12, <1>13, <1>14, SMTT(40)
<1>16. j \in 1..Len(Body) /\ j <= p /\ j \in Nat
    BY <1>2, <1>4
<1>17. j # p
  <2>1. SUFFICES ASSUME j = p PROVE FALSE
      OBVIOUS
  <2>. QED BY <1>9, <1>10, <1>15, <2>1
<1>18. Follows(sent, Body[j], Body[j + 1])
    BY <1>4, <1>5, <1>16, <1>17
<1>19. Body[j + 1] = <<n, k - 1 + 1>>
    BY <1>15, <1>18 DEF Follows
<1>20. Body[p + 1] = <<n, k>>
  <2>1. Body \in Seq(Byte)
    <3>1. segs \in Seq(Seq(Byte))
        BY StreamIs
    <3>. QED BY <3>1, BodyIs
  <2>2. Body[p + 1] \in Byte
      BY <1>4, <2>1, ElementOfSeq
  <2>. QED BY <1>12, <2>2 DEF Byte
<1>21. Body[j + 1] = Body[p + 1]
  <2>1. k - 1 + 1 = k
      BY <1>13
  <2>. QED BY <1>19, <1>20, <2>1
<1>22. j + 1 \in 1..Len(Body) /\ j + 1 # p + 1
    BY <1>2, <1>4, <1>16, <1>17
<1>. QED BY <1>4, <1>21, <1>22, StreamIs

(* Behind the end of a message another one begins, and its bytes follow.   *)
LEMMA MessageRuns ==
    ASSUME IsStream(sent, segs), CutsOnlyBlocks, NEW a \in Nat, a < Len(Body),
           a = 0 \/ Body[a][2] = Size[sent[Body[a][1]]]
    PROVE  \E m \in 1..Len(sent) :
              /\ Begun(Body, a) = 1..(m - 1)
              /\ \A k \in 1..Size[sent[m]] : a + k <= Len(Body) => Body[a + k] = <<m, k>>
<1>1. Len(Body) \in Nat /\ Body \in Seq(Byte)
  <2>1. segs \in Seq(Seq(Byte))
      BY StreamIs
  <2>. QED BY <2>1, BodyIs
<1>2. a + 1 \in 1..Len(Body) /\ a + 1 - 1 = a
    BY <1>1
<1>3. Body[a + 1][2] = 1
  <2>1. CASE a = 0
    <3>1. PICK q \in 1..Len(Body) : q = a + 1 /\ q - 1 = 0
        BY <1>2, <2>1
    <3>2. 1..(q - 1) = {}
        BY <3>1
    <3>3. Body[q][2] # 1 => \E j \in 1..(q - 1) : Body[j] = <<Body[q][1], Body[q][2] - 1>>
        BY StreamIs
    <3>. QED BY <3>1, <3>2, <3>3
  <2>2. CASE a # 0
    <3>1. a \in 1..Len(Body)
        BY <1>1, <2>2
    <3>2. Follows(sent, Body[a], Body[a + 1])
        BY <3>1, RegularFollows
    <3>3. Body[a][1] \in 1..Len(sent) /\ Body[a][2] = Size[sent[Body[a][1]]] /\ Size[sent[Body[a][1]]] \in Nat
        BY <2>2, <3>1, StreamIs
    <3>4. ~(Body[a][2] < Size[sent[Body[a][1]]])
        BY <3>3
    <3>. QED BY <3>2, <3>4 DEF Follows
  <2>. QED BY <2>1, <2>2
<1>4. PICK m \in 1..Len(sent) : m = Body[a + 1][1] /\ Begun(Body, a) = 1..(m - 1)
    BY <1>2, <1>3, StreamIs
<1>5. PICK z \in Nat : z = Size[sent[m]]
    BY StreamIs
<1>6. Body[a + 1] = <<m, 1>>
  <2>1. Body[a + 1] \in Byte
      BY <1>1, <1>2, ElementOfSeq
  <2>. QED BY <1>3, <1>4, <2>1 DEF Byte
<1>. DEFINE T == {k \in 1..z : a + k <= Len(Body) /\ Body[a + k] # <<m, k>>}
<1>7. T = {}
  <2>1. SUFFICES ASSUME T # {} PROVE FALSE
      OBVIOUS
  <2>2. PICK k \in T : \A q \in T : k <= q
    <3>1. T \subseteq Nat
        OBVIOUS
    <3>. HIDE DEF T
    <3>. QED BY <2>1, <3>1, LeastIndex
  <2>3. k \in 1..z /\ a + k <= Len(Body) /\ Body[a + k] # <<m, k>>
      OBVIOUS
  <2>4. k # 1
      BY <1>6, <2>3
  <2>5. PICK h \in 1..z : k = h + 1
    <3>1. k - 1 \in 1..z /\ k = (k - 1) + 1
        BY <2>3, <2>4
    <3>. QED BY <3>1
  <2>6. /\ a + h \in 1..Len(Body) /\ a + h < Len(Body) /\ a + h + 1 = a + k /\ h < z /\ ~(k <= h)
        /\ a + h <= Len(Body)
      BY <1>1, <2>3, <2>5
  <2>7. h \notin T
      BY <2>2, <2>6
  <2>8. Body[a + h] = <<m, h>>
      BY <2>6, <2>7
  <2>9. Follows(sent, Body[a + h], Body[a + h + 1])
      BY <2>6, RegularFollows
  <2>10. Body[a + h + 1] = <<m, h + 1>>
      BY <1>5, <2>6, <2>8, <2>9 DEF Follows
  <2>. QED BY <2>3, <2>5, <2>6, <2>10
<1>8. \A k \in 1..z : a + k <= Len(Body) => Body[a + k] = <<m, k>>
    BY <1>7
<1>. QED BY <1>4, <1>5, <1>8

(* What a message leaves of a batch.                                       *)
LEMMA BatchNext ==
    ASSUME NEW m \in Nat
    PROVE  /\ m > 0 /\ sent[m] = "StartBatch" => InBatch(m + 1)
           /\ m > 0 /\ sent[m] = "BatchDone" => ~InBatch(m + 1)
           /\ m > 0 /\ sent[m] # "StartBatch" /\ InBatch(m + 1) => InBatch(m)
<1>1. m + 1 - 1 = m
    OBVIOUS
<1>2. ASSUME m > 0, sent[m] = "StartBatch" PROVE InBatch(m + 1)
  <2>1. m \in 1..m /\ (m + 1)..m = {}
      BY <1>2
  <2>. QED BY <1>1, <1>2, <2>1 DEF InBatch
<1>3. ASSUME m > 0, InBatch(m + 1)
      PROVE  \E b \in 1..m : /\ sent[b] = "StartBatch"
                             /\ \A d \in (b + 1)..m : sent[d] # "BatchDone"
    BY <1>1, <1>3 DEF InBatch
<1>4. ASSUME m > 0, sent[m] = "BatchDone", InBatch(m + 1) PROVE FALSE
  <2>1. PICK b \in 1..m : sent[b] = "StartBatch" /\ \A d \in (b + 1)..m : sent[d] # "BatchDone"
      BY <1>3, <1>4
  <2>2. b # m
      BY <1>4, <2>1
  <2>3. m \in (b + 1)..m
      BY <2>1, <2>2
  <2>. QED BY <1>4, <2>1, <2>3
<1>5. ASSUME m > 0, sent[m] # "StartBatch", InBatch(m + 1) PROVE InBatch(m)
  <2>1. PICK b \in 1..m : sent[b] = "StartBatch" /\ \A d \in (b + 1)..m : sent[d] # "BatchDone"
      BY <1>3, <1>5
  <2>2. b # m
      BY <1>5, <2>1
  <2>3. b \in 1..(m - 1) /\ \A d \in (b + 1)..(m - 1) : d \in (b + 1)..m
      BY <2>1, <2>2
  <2>. QED BY <2>1, <2>3 DEF InBatch
<1>. QED BY <1>2, <1>4, <1>5

(* A batch goes on until it is done.                                       *)
LEMMA BatchGoesOn ==
    ASSUME NEW m \in Nat, NEW n \in Nat, m <= n, InBatch(m), \A d \in m..(n - 1) : sent[d] # "BatchDone"
    PROVE  InBatch(n)
<1>1. PICK b \in 1..(m - 1) : sent[b] = "StartBatch" /\ \A d \in (b + 1)..(m - 1) : sent[d] # "BatchDone"
    BY DEF InBatch
<1>2. b \in 1..(n - 1) /\ \A d \in (b + 1)..(n - 1) : d \in (b + 1)..(m - 1) \/ d \in m..(n - 1)
    OBVIOUS
<1>3. \A d \in (b + 1)..(n - 1) : sent[d] # "BatchDone"
    BY <1>1, <1>2
<1>. QED BY <1>1, <1>2, <1>3 DEF InBatch

(* The segment with the last byte of a message.                            *)
LEMMA EndsInIs ==
    ASSUME IsStream(sent, segs), NEW i \in 1..Len(segs), NEW p \in Nat,
           BodyEnd(i - 1) < p, p <= BodyEnd(i), NEW m, Body[p] = <<m, Size[sent[m]]>>
    PROVE  EndsIn(m) = i
<1>1. segs \in Seq(Seq(Byte))
    BY StreamIs
<1>2. Len(segs) \in Nat /\ DOMAIN segs = 1..Len(segs)
    BY <1>1, BodyIs, LenProperties
<1>3. i - 1 \in 0..Len(segs) /\ i \in 0..Len(segs)
    BY <1>2
<1>4. PICK b : b = <<m, Size[sent[m]]>>
    OBVIOUS
<1>5. PICK e \in Nat, n \in Nat :
         /\ e = BodyEnd(i - 1) /\ n = Len(segs[i]) /\ BodyEnd(i) = e + n /\ e + n <= Len(Body)
         /\ \A j \in 1..n : Body[e + j] = segs[i][j]
  <2>1. BodyEnd(i - 1) \in Nat /\ BodyEnd(i) <= Len(Body) /\ Len(segs[i]) \in Nat
      BY <1>1, <1>3, BodyIs
  <2>2. BodyEnd(i) = BodyEnd(i - 1) + Len(segs[i]) /\ \A j \in 1..Len(segs[i]) : Body[BodyEnd(i - 1) + j] = segs[i][j]
      BY <1>1, BodyIs
  <2>. QED BY <2>1, <2>2
<1>6. p \in 1..Len(Body)
  <2>1. Len(Body) \in Nat
      BY <1>1, BodyIs
  <2>. QED BY <1>5, <2>1
<1>7. b \in Range(segs[i])
  <2>1. PICK j \in 1..n : p = e + j
    <3>1. p - e \in 1..n /\ p = e + (p - e)
        BY <1>5, SMTT(40)
    <3>. QED BY <3>1
  <2>2. segs[i][j] = b
      BY <1>4, <1>5, <2>1
  <2>3. DOMAIN segs[i] = 1..n
    <3>1. segs[i] \in Seq(Byte)
        BY <1>1, BodyIs
    <3>. QED BY <1>5, <3>1, LenProperties
  <2>. QED BY <2>2, <2>3 DEF Range
<1>8. ASSUME NEW k \in DOMAIN segs, b \in Range(segs[k]) PROVE k = i
  <2>1. k \in 1..Len(segs) /\ k \in Nat /\ i \in Nat
      BY <1>2
  <2>2. PICK j \in 1..Len(segs[k]) : segs[k][j] = b
    <3>1. segs[k] \in Seq(Byte)
        BY <1>1, <2>1, BodyIs
    <3>2. DOMAIN segs[k] = 1..Len(segs[k])
        BY <3>1, LenProperties
    <3>. QED BY <1>8, <3>2 DEF Range
  <2>3. PICK q, t : q = WireEnd(k - 1) + 8 + j /\ t = BodyEnd(k - 1) + j
      OBVIOUS
  <2>4. Place(q, t, k, j)
      BY <1>1, <2>1, <2>3, PlaceIs
  <2>5. Body[t] = b
      BY <1>1, <2>1, <2>2, <2>3, BodyIs
  <2>6. t \in 1..Len(Body)
      BY <2>4 DEF Place
  <2>7. t = p
      BY <1>4, <1>6, <2>5, <2>6, StreamIs
  <2>8. ~(k <= i) => p > BodyEnd(i)
      BY <1>1, <1>3, <2>4, <2>7, PlaceInSegment
  <2>9. k <= i - 1 => p <= BodyEnd(i - 1)
      BY <1>1, <1>3, <2>4, <2>7, PlaceInSegment
  <2>10. k <= i /\ ~(k <= i - 1)
      BY <1>5, <2>8, <2>9, SMTT(40)
  <2>. QED BY <2>1, <2>10
<1>9. EndsIn(m) = CHOOSE k \in DOMAIN segs : b \in Range(segs[k])
    BY <1>4 DEF EndsIn
<1>10. i \in DOMAIN segs
    BY <1>2
<1>. QED BY <1>7, <1>8, <1>9, <1>10

(* The kind of the message a payload byte is of.                           *)
KindAt(i) == sent[Body[i][1]]

(* In a stream the reader is made for, nothing is skipped: the messages    *)
(* that begin in what was decoded are those that came out, the last of     *)
(* them is complete, and the reader is in a batch when the stream is.      *)
(* What waits for the next segment is of blocks.                           *)
RegularOK(s) ==
    /\ Begun(Body, PendingAt(s)) = 1..LastOut
    /\ Len(got) + Len(out) = LastOut
    /\ batching <=> InBatch(LastOut + 1)
    /\ PendingAt(s) = 0 \/ Body[PendingAt(s)][2] = Size[KindAt(PendingAt(s))]
    /\ mode = "read" /\ batching => \A i \in (PendingAt(s) + 1)..BodyEnd(s) : KindAt(i) = "Block"
    /\ mode = "blocks" => \A i \in (PendingAt(s) + 1)..BodyEnd(s - 1) : KindAt(i) = "Block"

(* The pending bytes begin with the next message.                          *)
LEMMA NextMessageIs ==
    ASSUME IsStream(sent, segs), CutsOnlyBlocks, GotOK, NEW s \in 0..Len(segs),
           PendingOK(s), RegularOK(s), pending # <<>>
    PROVE  /\ First = LastOut + 1 /\ First \in 1..Len(sent) /\ LastOut \in Nat /\ Aligned
           /\ \A k \in 1..FirstSize : k <= Len(pending) =>
                 pending[k] = <<First, k>> /\ Body[PendingAt(s) + k] = <<First, k>>
<1>1. segs \in Seq(Seq(Byte)) /\ Len(sent) \in Nat
    BY StreamIs
<1>2. pending \in Seq(Byte) /\ Len(pending) \in Nat /\ Len(pending) # 0 /\ IsSlice(pending, Body, PendingAt(s))
    BY LenProperties, EmptySeq DEF PendingOK
<1>3. Len(Body) \in Nat
    BY <1>1, BodyIs
<1>4. PICK a \in Nat, l \in Nat : a = PendingAt(s) /\ l = Len(pending) /\ l # 0 /\ a + l <= Len(Body)
    BY <1>2 DEF IsSlice
<1>5. \A j \in 1..l : pending[j] = Body[a + j]
    BY <1>2, <1>4 DEF IsSlice
<1>6. a = 0 \/ Body[a][2] = Size[sent[Body[a][1]]]
    BY <1>4 DEF RegularOK, KindAt
<1>7. a < Len(Body)
    BY <1>3, <1>4
<1>8. PICK m \in 1..Len(sent) :
          /\ Begun(Body, a) = 1..(m - 1)
          /\ \A k \in 1..Size[sent[m]] : a + k <= Len(Body) => Body[a + k] = <<m, k>>
    BY <1>6, <1>7, MessageRuns
<1>9. PICK z \in Nat : z = Size[sent[m]] /\ z >= 2
    BY StreamIs
<1>10. ASSUME NEW k \in 1..z, k <= l PROVE pending[k] = <<m, k>> /\ Body[a + k] = <<m, k>>
  <2>1. k \in 1..l /\ a + k <= Len(Body)
      BY <1>3, <1>4, <1>10
  <2>. QED BY <1>5, <1>8, <1>9, <2>1
<1>11. pending[1] = <<m, 1>>
    BY <1>4, <1>9, <1>10, SMTT(40)
<1>12. First = m /\ Aligned
    BY <1>11 DEF First, Aligned
<1>13. LastOut \in Nat
    BY <1>1, LastIs DEF LastOut, GotOK, Run
<1>14. m = LastOut + 1
  <2>1. m - 1 \in Nat /\ 1..(m - 1) = 1..LastOut
      BY <1>1, <1>4, <1>8 DEF RegularOK
  <2>2. \A x, y \in Nat : 1..x = 1..y => x = y
    <3>1. SUFFICES ASSUME NEW x \in Nat, NEW y \in Nat, 1..x = 1..y PROVE x <= y
        OBVIOUS
    <3>2. CASE x = 0
        BY <3>2
    <3>3. CASE x # 0
      <4>1. x \in 1..x
          BY <3>3
      <4>2. x \in 1..y
          BY <3>1, <4>1
      <4>. QED BY <4>2
    <3>. QED BY <3>2, <3>3
  <2>3. m - 1 = LastOut
      BY <1>13, <2>1, <2>2
  <2>. QED BY <1>1, <1>13, <2>3
<1>15. FirstSize = z
    BY <1>9, <1>12 DEF FirstSize, FirstKind
<1>. QED BY <1>4, <1>10, <1>12, <1>13, <1>14, <1>15

(* A message that is not complete at the end of a segment is a block, cut  *)
(* after its first two bytes.                                              *)
LEMMA IncompleteIs ==
    ASSUME IsStream(sent, segs), CutsOnlyBlocks, GotOK, NEW s \in 1..Len(segs),
           PendingOK(s), RegularOK(s), pending # <<>>, ~Complete
    PROVE  FirstKind = "Block" /\ InBatch(First) /\ Len(pending) >= 2
<1>1. segs \in Seq(Seq(Byte)) /\ Len(sent) \in Nat
    BY StreamIs
<1>2. Len(segs) \in Nat
    BY <1>1, BodyIs
<1>3. s \in 0..Len(segs)
    BY <1>2
<1>4. /\ First \in 1..Len(sent)
      /\ \A k \in 1..FirstSize : k <= Len(pending) => Body[PendingAt(s) + k] = <<First, k>>
    BY <1>3, NextMessageIs
<1>5. PICK l \in Nat, e \in Nat : l = Len(pending) /\ l # 0 /\ e = BodyEnd(s) /\ PendingAt(s) = e - l /\ e - l \in Nat
  <2>1. Len(pending) \in Nat /\ Len(pending) # 0 /\ PendingAt(s) \in Nat
      BY LenProperties, EmptySeq DEF PendingOK, IsSlice
  <2>2. BodyEnd(s) \in Nat
      BY <1>1, <1>3, BodyIs
  <2>. QED BY <2>1, <2>2 DEF PendingAt
<1>6. PICK z \in Nat : z = FirstSize
    BY <1>4, StreamIs DEF FirstSize, FirstKind
<1>7. l < z
    BY <1>5, <1>6 DEF Complete
<1>8. Body[e] = <<First, l>>
  <2>1. l \in 1..z /\ l <= l /\ (e - l) + l = e
      BY <1>5, <1>7
  <2>. QED BY <1>4, <1>5, <1>6, <2>1
<1>9. Body[e][1] = First /\ Body[e][2] = l /\ l < Size[sent[First]]
    BY <1>6, <1>7, <1>8 DEF FirstSize, FirstKind
<1>10. Body[e][2] < Size[sent[Body[e][1]]]
    BY <1>9
<1>11. sent[Body[e][1]] = "Block" /\ InBatch(Body[e][1]) /\ Body[e][2] >= 2
    BY <1>5, <1>10, CutIs
<1>. QED BY <1>5, <1>9, <1>11 DEF FirstKind

(* The reader does not fail on such a stream.                              *)
LEMMA RegularNeverFails ==
    ASSUME IsStream(sent, segs), Regular, BuffersOK, HeaderInPieces, ~overrun, GotOK, NEW s \in 0..Len(segs),
           PendingOK(s), RegularOK(s)
    PROVE  ~Fails
<1>1. CutsOnlyBlocks /\ OneProtocolInBatch
    BY DEF Regular
<1>2. ASSUME Panic PROVE FALSE
  <2>1. Len(partial) \in Nat /\ Len(partial) > HeaderSize
      BY <1>2, LenProperties DEF Panic, BuffersOK
  <2>2. Len(partial) <= HeaderSize
      BY DEF HeaderInPieces
  <2>. QED BY <2>1, <2>2 DEF HeaderSize
<1>3. Len(segs) \in Nat
  <2>1. segs \in Seq(Seq(Byte))
      BY StreamIs
  <2>. QED BY <2>1, BodyIs
<1>4. mode \in {"messages", "blocks"} => s \in 1..Len(segs)
    BY <1>3 DEF PendingOK
<1>5. ASSUME MessageCut PROVE FALSE
  <2>1. mode = "messages" /\ pending # <<>> /\ ~Complete
      BY <1>5 DEF MessageCut
  <2>2. InBatch(First) /\ First = LastOut + 1
      BY <1>1, <1>4, <2>1, IncompleteIs, NextMessageIs
  <2>3. batching
      BY <2>2 DEF RegularOK
  <2>. QED BY <2>1, <2>3 DEF PendingOK
<1>6. ASSUME NotABlock PROVE FALSE
  <2>1. mode = "blocks" /\ pending # <<>> /\ ~StartsWith("Block") /\ ~StartsWith("BatchDone")
      BY <1>6 DEF NotABlock
  <2>2. /\ First = LastOut + 1 /\ First \in 1..Len(sent)
        /\ \A k \in 1..FirstSize : k <= Len(pending) => pending[k] = <<First, k>>
      BY <1>1, <2>1, NextMessageIs
  <2>3. InBatch(First)
      BY <2>1, <2>2 DEF PendingOK, RegularOK
  <2>4. FirstKind \in {"Block", "BatchDone"}
    <3>1. DOMAIN sent = 1..Len(sent)
        BY StreamIs, LenProperties
    <3>. QED BY <1>1, <2>2, <2>3, <3>1 DEF OneProtocolInBatch, FirstKind
  <2>5. FirstSize \in Nat /\ FirstSize >= 2
      BY <2>2, StreamIs DEF FirstSize, FirstKind
  <2>6. Len(pending) \in Nat
      BY LenProperties DEF PendingOK
  <2>7. Len(pending) >= 2
    <3>1. CASE Complete
        BY <2>5, <2>6, <3>1 DEF Complete
    <3>2. CASE ~Complete
        BY <1>1, <1>4, <2>1, <3>2, IncompleteIs
    <3>. QED BY <3>1, <3>2
  <2>8. \A k \in 1..2 : pending[k] = <<First, k>>
    <3>1. \A k \in 1..2 : k \in 1..FirstSize /\ k <= Len(pending)
        BY <2>5, <2>6, <2>7
    <3>. QED BY <2>2, <3>1
  <2>. QED BY <2>1, <2>4, <2>7, <2>8 DEF StartsWith
<1>7. ASSUME Garbled PROVE FALSE
  <2>1. pending # <<>> /\ (~Aligned \/ (Complete /\ ~Intact))
      BY <1>7 DEF Garbled
  <2>2. /\ First \in 1..Len(sent) /\ Aligned
        /\ \A k \in 1..FirstSize : k <= Len(pending) => pending[k] = <<First, k>>
      BY <1>1, <2>1, NextMessageIs
  <2>3. FirstSize \in Nat /\ FirstSize >= 2
      BY <2>2, StreamIs DEF FirstSize, FirstKind
  <2>4. Len(pending) \in Nat
      BY LenProperties DEF PendingOK
  <2>5. Complete => \A k \in 1..FirstSize : k <= Len(pending)
      BY <2>3, <2>4 DEF Complete
  <2>. QED BY <2>1, <2>2, <2>5 DEF Intact
<1>. QED BY <1>2, <1>5, <1>6, <1>7 DEF Fails

(* A message that is decoded leaves the reader at the end of a message.    *)
LEMMA TakenIsRegular ==
    ASSUME IsStream(sent, segs), CutsOnlyBlocks, GotOK, NEW s \in 0..Len(segs),
           PendingOK(s), RegularOK(s), pending # <<>>, Complete, Intact
    PROVE  /\ First = LastOut + 1 /\ First \in 1..Len(sent) /\ First \in Nat /\ First > 0
           /\ FirstSize \in Nat /\ FirstSize >= 2 /\ FirstSize <= Len(pending)
           /\ PendingAt(s) \in Nat /\ PendingAt(s) + FirstSize \in 1..Len(Body)
           /\ PendingAt(s) + FirstSize <= BodyEnd(s)
           /\ \A k \in 1..FirstSize : Body[PendingAt(s) + k] = <<First, k>>
           /\ Begun(Body, PendingAt(s) + FirstSize) = 1..First
           /\ Body[PendingAt(s) + FirstSize][2] = Size[KindAt(PendingAt(s) + FirstSize)]
<1>1. First = LastOut + 1
    BY NextMessageIs
<1>2. /\ First \in 1..Len(sent) /\ FirstSize \in Nat /\ FirstSize >= 2 /\ PendingAt(s) \in Nat
      /\ PendingAt(s) + FirstSize <= BodyEnd(s)
      /\ \A k \in 1..FirstSize : Body[PendingAt(s) + k] = <<First, k>>
      /\ Begun(Body, PendingAt(s) + FirstSize) = 1..First
    BY MessageTaken
<1>3. First \in Nat /\ First > 0
  <2>1. Len(sent) \in Nat
      BY StreamIs
  <2>. QED BY <1>2, <2>1
<1>4. PendingAt(s) + FirstSize \in 1..Len(Body)
  <2>1. segs \in Seq(Seq(Byte))
      BY StreamIs
  <2>2. BodyEnd(s) \in Nat /\ BodyEnd(s) <= Len(Body) /\ Len(Body) \in Nat
      BY <2>1, BodyIs
  <2>. QED BY <1>2, <2>2
<1>5. Body[PendingAt(s) + FirstSize] = <<First, FirstSize>>
  <2>1. FirstSize \in 1..FirstSize
      BY <1>2
  <2>. QED BY <1>2, <2>1
<1>6. FirstSize <= Len(pending)
    BY <1>2 DEF Complete
<1>. QED BY <1>1, <1>2, <1>3, <1>4, <1>5, <1>6, SMTT(40) DEF KindAt, FirstSize, FirstKind

(* Fewer bytes are of blocks if more of them are.                          *)
LEMMA FewerBlocks ==
    ASSUME NEW a \in Nat, NEW z \in Nat, NEW e, \A i \in (a + 1)..e : KindAt(i) = "Block", e \in Int
    PROVE  \A i \in (a + z + 1)..e : KindAt(i) = "Block"
<1>1. \A i \in (a + z + 1)..e : i \in (a + 1)..e
    OBVIOUS
<1>. QED BY <1>1

(* A message is decoded.                                                   *)
LEMMA DecodesRegular ==
    ASSUME IsStream(sent, segs), Regular, GotOK, NEW s \in 0..Len(segs),
           PendingOK(s), OrderOK(s), RegularOK(s), Decodes, mode \in {"messages", "blocks"}
    PROVE  RegularOK(s)'
<1>1. CutsOnlyBlocks
    BY DEF Regular
<1>2. /\ mode' = mode /\ pending # <<>> /\ Complete /\ Intact
      /\ FirstKind # "StartBatch" /\ (mode = "blocks" => FirstKind = "Block")
      /\ out' = Append(out, First) /\ pending' = From(pending, FirstSize + 1)
      /\ sent' = sent /\ segs' = segs /\ got' = got /\ batching' = batching
    BY DEF Decodes, Take
<1>3. PICK a, z, m : a = PendingAt(s) /\ z = FirstSize /\ m = First
    OBVIOUS
<1>4. /\ m = LastOut + 1 /\ m \in 1..Len(sent) /\ m \in Nat /\ m > 0 /\ a \in Nat /\ z \in Nat /\ z <= Len(pending)
      /\ Begun(Body, a + z) = 1..m /\ Body[a + z][2] = Size[KindAt(a + z)]
    BY <1>1, <1>2, <1>3, TakenIsRegular
<1>5. /\ PendingAt(s)' = a + z /\ Body' = Body /\ BodyEnd(s)' = BodyEnd(s) /\ BodyEnd(s - 1)' = BodyEnd(s - 1)
    BY <1>2, <1>3, <1>4, RestIsPending
<1>6. Len(sent) \in Nat /\ Len(got) \in Nat /\ Len(out) \in Nat
    BY StreamIs, LenProperties DEF GotOK, Run
<1>7. LastOf(out') = m /\ out' # <<>> /\ Len(out') = Len(out) + 1
  <2>1. out \in Seq(1..Len(sent)) /\ out' = Append(out, m)
      BY <1>2, <1>3 DEF GotOK, Run
  <2>2. /\ out' \in Seq(1..Len(sent)) /\ Len(out') = Len(out) + 1 /\ out'[Len(out) + 1] = m
      BY <1>4, <2>1, AppendProperties
  <2>3. out' # <<>>
      BY <1>6, <2>2
  <2>. QED BY <2>2, <2>3 DEF LastOf
<1>8. LastOut' = m
    BY <1>7 DEF LastOut, LastOf
<1>9. \A i : KindAt(i)' = KindAt(i)
    BY <1>2, <1>5 DEF KindAt
<1>10. Len(got)' + Len(out)' = LastOut'
    BY <1>2, <1>4, <1>6, <1>7, <1>8 DEF RegularOK
<1>11. batching' <=> InBatch(LastOut + 1)'
  <2>1. InBatch(LastOut + 1)' <=> InBatch(m + 1)
      BY <1>2, <1>8 DEF InBatch
  <2>2. batching <=> InBatch(m)
      BY <1>4 DEF RegularOK
  <2>3. CASE mode = "blocks"
    <3>1. batching /\ sent[m] = "Block"
        BY <1>2, <1>3, <2>3 DEF PendingOK, FirstKind
    <3>2. InBatch(m + 1)
      <4>1. m <= m + 1 /\ m + 1 \in Nat /\ \A d \in m..(m + 1 - 1) : d = m
          BY <1>4
      <4>. QED BY <1>4, <2>2, <3>1, <4>1, BatchGoesOn
    <3>. QED BY <1>2, <2>1, <3>1, <3>2
  <2>4. CASE mode = "messages"
    <3>1. ~batching /\ sent[m] # "StartBatch"
        BY <1>2, <1>3, <2>4 DEF PendingOK, FirstKind
    <3>2. ~InBatch(m + 1)
        BY <1>4, <2>2, <3>1, BatchNext
    <3>. QED BY <1>2, <2>1, <3>1, <3>2
  <2>. QED BY <2>3, <2>4
<1>12. mode' # "read"
    BY <1>2
<1>13. mode' = "blocks" => \A i \in (PendingAt(s) + 1)'..BodyEnd(s - 1)' : KindAt(i)' = "Block"
  <2>1. SUFFICES ASSUME mode = "blocks" PROVE \A i \in (a + z + 1)..BodyEnd(s - 1) : KindAt(i) = "Block"
      BY <1>2, <1>5, <1>9
  <2>2. \A i \in (a + 1)..BodyEnd(s - 1) : KindAt(i) = "Block"
      BY <1>3, <2>1 DEF RegularOK
  <2>3. BodyEnd(s - 1) \in Nat
    <3>1. segs \in Seq(Seq(Byte)) /\ s > 0
        BY <2>1, StreamIs DEF PendingOK
    <3>2. Len(segs) \in Nat
        BY <3>1, BodyIs
    <3>3. s - 1 \in 0..Len(segs)
        BY <3>1, <3>2
    <3>. QED BY <3>1, <3>3, BodyIs
  <2>. QED BY <1>4, <2>2, <2>3, FewerBlocks
<1>. QED BY <1>4, <1>5, <1>8, <1>9, <1>10, <1>11, <1>12, <1>13 DEF RegularOK

(* What is returned with the last message.                                 *)
LEMMA LastRegular ==
    ASSUME IsStream(sent, segs), CutsOnlyBlocks, GotOK, NEW s \in 0..Len(segs),
           PendingOK(s), OrderOK(s), RegularOK(s), pending # <<>>, Complete, Intact,
           got' = got \o Append(out, First), out' = <<>>, sent' = sent
    PROVE  LastOut' = First /\ Len(got)' + Len(out)' = LastOut'
<1>1. LastOut' = First /\ Len(got') = Len(got) + Len(out) + 1
    BY LastInOrder
<1>2. First = LastOut + 1
    BY TakenIsRegular
<1>3. Len(got) \in Nat /\ Len(out) \in Nat /\ Len(got) + Len(out) = LastOut
    BY LenProperties DEF GotOK, Run, RegularOK
<1>. QED BY <1>1, <1>2, <1>3

(* Behind a StartBatch its segment has only blocks.                        *)
LEMMA BatchInSegment ==
    ASSUME IsStream(sent, segs), Regular, NEW s \in 1..Len(segs), NEW e \in Nat,
           e \in 1..Len(Body), BodyEnd(s - 1) < e, e <= BodyEnd(s),
           NEW m \in 1..Len(sent), Body[e] = <<m, Size[sent[m]]>>, sent[m] = "StartBatch",
           Begun(Body, e) = 1..m
    PROVE  \A i \in (e + 1)..BodyEnd(s) : KindAt(i) = "Block"
<1>. DEFINE T == {i \in (e + 1)..BodyEnd(s) : KindAt(i) # "Block"}
<1>1. SUFFICES ASSUME T # {} PROVE FALSE
    OBVIOUS
<1>2. segs \in Seq(Seq(Byte)) /\ Len(sent) \in Nat
    BY StreamIs
<1>3. Len(segs) \in Nat /\ Len(Body) \in Nat
    BY <1>2, BodyIs
<1>4. s \in 0..Len(segs) /\ s - 1 \in 0..Len(segs)
    BY <1>3
<1>5. BodyEnd(s) \in Nat /\ BodyEnd(s) <= Len(Body) /\ BodyEnd(s - 1) \in Nat
    BY <1>2, <1>4, BodyIs
<1>6. PICK p \in T : \A q \in T : p <= q
  <2>1. T \subseteq Nat
      BY <1>5
  <2>. HIDE DEF T
  <2>. QED BY <1>1, <2>1, LeastIndex
<1>7. p \in (e + 1)..BodyEnd(s) /\ KindAt(p) # "Block" /\ p \in Nat /\ p \in 1..Len(Body)
    BY <1>3, <1>5, <1>6
<1>8. ASSUME NEW i \in (e + 1)..(p - 1) PROVE KindAt(i) = "Block"
  <2>1. i \notin T /\ i \in (e + 1)..BodyEnd(s)
      BY <1>5, <1>6, <1>7
  <2>. QED BY <2>1
<1>. HIDE DEF T
<1>9. CutsOnlyBlocks /\ OneProtocolInBatch /\ BatchDoneEndsSegment
    BY DEF Regular
<1>10. PICK n : n = Body[p][1]
    OBVIOUS
<1>11. n \in 1..Len(sent) /\ sent[n] # "Block" /\ Body[p][2] \in 1..Size[sent[n]]
    BY <1>7, <1>10, StreamIs DEF KindAt
<1>12. Body[p][2] = 1
  <2>1. PICK q \in 1..Len(Body) : p = q + 1 /\ q < Len(Body) /\ q >= e /\ q \in Nat
    <3>1. p - 1 \in 1..Len(Body) /\ p = (p - 1) + 1 /\ p - 1 < Len(Body) /\ p - 1 >= e /\ p - 1 \in Nat
        BY <1>3, <1>7
    <3>. QED BY <3>1
  <2>2. Follows(sent, Body[q], Body[p])
      BY <1>9, <2>1, RegularFollows
  <2>3. ~(Body[q][2] < Size[sent[Body[q][1]]])
    <3>1. CASE q = e
      <4>1. Body[q][1] = m /\ Body[q][2] = Size[sent[m]] /\ Size[sent[m]] \in Nat
          BY <3>1, StreamIs
      <4>. QED BY <4>1
    <3>2. CASE q # e
      <4>1. q \in (e + 1)..(p - 1)
          BY <1>7, <2>1, <3>2
      <4>2. sent[Body[q][1]] = "Block"
          BY <1>8, <4>1 DEF KindAt
      <4>3. Body[q][1] # n
          BY <1>11, <4>2
      <4>. QED BY <1>10, <2>2, <4>3 DEF Follows
    <3>. QED BY <3>1, <3>2
  <2>. QED BY <2>2, <2>3 DEF Follows
<1>13. Begun(Body, p - 1) = 1..(n - 1)
    BY <1>7, <1>10, <1>12, StreamIs
<1>14. ASSUME NEW d \in (m + 1)..(n - 1) PROVE sent[d] = "Block"
  <2>1. d \in 1..(n - 1) /\ d \notin 1..m
      BY <1>2, <1>11, SMTT(40)
  <2>2. PICK i \in 1..(p - 1) : Body[i][2] = 1 /\ Body[i][1] = d
      BY <1>13, <2>1 DEF Begun
  <2>3. ~(i \in 1..e)
      BY <2>1, <2>2 DEF Begun
  <2>4. i \in (e + 1)..(p - 1)
      BY <1>7, <2>3
  <2>. QED BY <1>8, <2>2, <2>4 DEF KindAt
<1>15. m < n
  <2>1. m \in Begun(Body, p - 1)
    <3>1. m \in Begun(Body, e)
        BY <1>2
    <3>2. \A i \in 1..e : i \in 1..(p - 1)
        BY <1>7
    <3>. QED BY <3>1, <3>2 DEF Begun
  <2>. QED BY <1>2, <1>11, <1>13, <2>1
<1>16. InBatch(n)
  <2>1. m \in 1..(n - 1)
      BY <1>2, <1>11, <1>15
  <2>. QED BY <1>14, <2>1 DEF InBatch
<1>17. sent[n] = "BatchDone"
  <2>1. DOMAIN sent = 1..Len(sent)
      BY StreamIs, LenProperties
  <2>. QED BY <1>9, <1>11, <1>16, <2>1 DEF OneProtocolInBatch
<1>18. Size[sent[n]] = 2
    BY <1>17, SizeAssumption
<1>19. p # BodyEnd(s)
  <2>1. SUFFICES ASSUME p = BodyEnd(s) PROVE FALSE
      OBVIOUS
  <2>2. Body[p][2] < Size[sent[Body[p][1]]]
      BY <1>10, <1>12, <1>18
  <2>3. sent[Body[p][1]] = "Block"
      BY <1>9, <2>1, <2>2, CutIs
  <2>. QED BY <1>10, <1>11, <2>3
<1>20. Body[p + 1] = <<n, 2>> /\ p + 1 \in Nat /\ BodyEnd(s - 1) < p + 1 /\ p + 1 <= BodyEnd(s)
  <2>1. p < BodyEnd(s) /\ p < Len(Body)
      BY <1>3, <1>5, <1>7, <1>19
  <2>2. Follows(sent, Body[p], Body[p + 1])
      BY <1>7, <1>9, <2>1, RegularFollows
  <2>3. Body[p][2] < Size[sent[Body[p][1]]]
      BY <1>10, <1>12, <1>18
  <2>4. Body[p + 1] = <<n, 1 + 1>>
      BY <1>10, <1>12, <2>2, <2>3 DEF Follows
  <2>. QED BY <1>5, <1>7, <2>1, <2>4, SMTT(40)
<1>21. EndsIn(n) = s
    BY <1>18, <1>20, EndsInIs
<1>22. EndsIn(m) = s
    BY EndsInIs
<1>23. EndsIn(m) # EndsIn(n)
  <2>1. DOMAIN sent = 1..Len(sent)
      BY StreamIs, LenProperties
  <2>2. m \in 1..(n - 1)
      BY <1>2, <1>11, <1>15
  <2>. QED BY <1>9, <1>11, <1>17, <2>1, <2>2 DEF BatchDoneEndsSegment
<1>. QED BY <1>21, <1>22, <1>23

(* A batch starts.                                                         *)
LEMMA StartsRegular ==
    ASSUME IsStream(sent, segs), Regular, GotOK, NEW s \in 0..Len(segs),
           PendingOK(s), OrderOK(s), RegularOK(s), Starts
    PROVE  RegularOK(s)'
<1>1. CutsOnlyBlocks
    BY DEF Regular
<1>2. /\ mode = "messages" /\ mode' = "read" /\ pending # <<>> /\ Complete /\ Intact /\ batching' = TRUE
      /\ got' = got \o Append(out, First) /\ out' = <<>> /\ pending' = From(pending, FirstSize + 1)
      /\ sent' = sent /\ segs' = segs /\ FirstKind = "StartBatch"
    BY DEF Starts
<1>3. PICK a, z, m : a = PendingAt(s) /\ z = FirstSize /\ m = First
    OBVIOUS
<1>4. /\ m \in 1..Len(sent) /\ m \in Nat /\ m > 0 /\ a \in Nat /\ z \in Nat /\ z >= 2 /\ z <= Len(pending)
      /\ a + z \in 1..Len(Body) /\ a + z <= BodyEnd(s) /\ \A k \in 1..z : Body[a + k] = <<m, k>>
      /\ Begun(Body, a + z) = 1..m /\ Body[a + z][2] = Size[KindAt(a + z)]
    BY <1>1, <1>2, <1>3, TakenIsRegular
<1>5. PendingAt(s)' = a + z /\ Body' = Body /\ BodyEnd(s)' = BodyEnd(s)
    BY <1>2, <1>3, <1>4, RestIsPending
<1>6. LastOut' = m /\ Len(got)' + Len(out)' = LastOut'
    BY <1>1, <1>2, <1>3, LastRegular
<1>7. batching' <=> InBatch(LastOut + 1)'
  <2>1. sent[m] = "StartBatch"
      BY <1>2, <1>3 DEF FirstKind
  <2>2. InBatch(m + 1)
      BY <1>4, <2>1, BatchNext
  <2>. QED BY <1>2, <1>6, <2>2 DEF InBatch
<1>8. \A i : KindAt(i)' = KindAt(i)
    BY <1>2, <1>5 DEF KindAt
<1>9. \A i \in (a + z + 1)..BodyEnd(s) : KindAt(i) = "Block"
  <2>1. segs \in Seq(Seq(Byte)) /\ s > 0 /\ BodyEnd(s - 1) <= a
      BY <1>2, <1>3, StreamIs DEF PendingOK
  <2>2. Len(segs) \in Nat
      BY <2>1, BodyIs
  <2>3. s \in 1..Len(segs) /\ s - 1 \in 0..Len(segs)
      BY <2>1, <2>2
  <2>4. BodyEnd(s - 1) \in Nat
      BY <2>1, <2>3, BodyIs
  <2>5. PICK e \in Nat : e = a + z
      BY <1>4
  <2>6. BodyEnd(s - 1) < e /\ e <= BodyEnd(s) /\ e \in 1..Len(Body) /\ Begun(Body, e) = 1..m
      BY <1>4, <2>1, <2>4, <2>5
  <2>7. Body[e] = <<m, Size[sent[m]]>>
    <3>1. z \in 1..z
        BY <1>4
    <3>. QED BY <1>3, <1>4, <2>5, <3>1 DEF FirstSize, FirstKind
  <2>8. sent[m] = "StartBatch"
      BY <1>2, <1>3 DEF FirstKind
  <2>9. \A i \in (e + 1)..BodyEnd(s) : KindAt(i) = "Block"
      BY <1>4, <2>3, <2>6, <2>7, <2>8, BatchInSegment
  <2>. QED BY <2>5, <2>9
<1>. QED BY <1>2, <1>4, <1>5, <1>6, <1>7, <1>8, <1>9 DEF RegularOK

(* A batch ends, with its segment.                                         *)
LEMMA EndsRegular ==
    ASSUME IsStream(sent, segs), Regular, GotOK, NEW s \in 0..Len(segs),
           PendingOK(s), OrderOK(s), RegularOK(s), Ends, PendingAt(s)' = BodyEnd(s)
    PROVE  RegularOK(s)'
<1>1. CutsOnlyBlocks /\ BatchDoneEndsSegment
    BY DEF Regular
<1>2. /\ mode = "blocks" /\ mode' = "read" /\ pending # <<>> /\ Complete /\ Intact /\ batching' = FALSE
      /\ got' = got \o Append(out, First) /\ out' = <<>>
      /\ sent' = sent /\ segs' = segs /\ FirstKind = "BatchDone"
    BY DEF Ends
<1>3. PICK a, z, m : a = PendingAt(s) /\ z = FirstSize /\ m = First
    OBVIOUS
<1>4. /\ m \in 1..Len(sent) /\ m \in Nat /\ m > 0 /\ a \in Nat /\ z \in Nat /\ z >= 2
      /\ a + z \in 1..Len(Body) /\ a + z <= BodyEnd(s) /\ \A k \in 1..z : Body[a + k] = <<m, k>>
      /\ Begun(Body, a + z) = 1..m /\ Body[a + z][2] = Size[KindAt(a + z)]
    BY <1>1, <1>2, <1>3, TakenIsRegular
<1>5. sent[m] = "BatchDone" /\ z = Size["BatchDone"] /\ z = Size[sent[m]]
    BY <1>2, <1>3 DEF FirstKind, FirstSize
<1>6. segs \in Seq(Seq(Byte)) /\ s > 0
    BY <1>2, StreamIs DEF PendingOK
<1>7. Len(segs) \in Nat /\ Len(Body) \in Nat
    BY <1>6, BodyIs
<1>8. s \in 1..Len(segs) /\ s - 1 \in 0..Len(segs)
    BY <1>6, <1>7
<1>9. BodyEnd(s) \in Nat /\ BodyEnd(s - 1) \in Nat
    BY <1>6, <1>8, BodyIs
<1>10. PICK p \in Nat : p = a + z
    BY <1>4
<1>11. Body[p] = <<m, z>>
  <2>1. z \in 1..z
      BY <1>4
  <2>. QED BY <1>4, <1>10, <2>1
<1>12. PICK i \in 1..Len(segs) : BodyEnd(i - 1) < p /\ p <= BodyEnd(i)
    BY <1>4, <1>10, SegmentOf
<1>13. EndsIn(m) = i
    BY <1>5, <1>11, <1>12, EndsInIs
<1>14. p = BodyEnd(i)
  <2>1. DOMAIN sent = 1..Len(sent)
      BY StreamIs, LenProperties
  <2>2. segs[i][Len(segs[i])] = <<m, z>>
      BY <1>1, <1>4, <1>5, <1>13, <2>1 DEF BatchDoneEndsSegment
  <2>3. PICK q : q = BodyEnd(i)
      OBVIOUS
  <2>4. q \in 1..Len(Body) /\ BodyEnd(i - 1) < q /\ BodyEnd(i - 1) \in Nat
      BY <1>1, <2>3, CutIs
  <2>5. /\ q = BodyEnd(i - 1) + Len(segs[i]) /\ Len(segs[i]) \in Nat
        /\ \A j \in 1..Len(segs[i]) : Body[BodyEnd(i - 1) + j] = segs[i][j]
      BY <1>6, <2>3, BodyIs
  <2>6. Len(segs[i]) \in 1..Len(segs[i])
      BY <1>7, <2>4, <2>5
  <2>7. Body[q] = Body[p]
      BY <1>11, <2>2, <2>5, <2>6
  <2>. QED BY <1>4, <1>10, <2>3, <2>4, <2>7, StreamIs
<1>15. p = BodyEnd(s)
  <2>1. i \in Nat /\ s \in Nat /\ i \in 0..Len(segs) /\ s \in 0..Len(segs)
      BY <1>7, <1>8
  <2>2. ~(i <= s - 1)
    <3>1. SUFFICES ASSUME i <= s - 1 PROVE FALSE
        OBVIOUS
    <3>2. BodyEnd(i) <= BodyEnd(s - 1)
        BY <1>6, <1>8, <2>1, <3>1, EndsGrow
    <3>3. a + 1 \in (a + 1)..BodyEnd(s - 1)
        BY <1>4, <1>9, <1>10, <1>14, <3>2
    <3>4. KindAt(a + 1) = "Block"
        BY <1>2, <1>3, <3>3 DEF RegularOK
    <3>5. Body[a + 1] = <<m, 1>>
        BY <1>4
    <3>. QED BY <1>5, <3>4, <3>5 DEF KindAt
  <2>3. s <= i
      BY <2>1, <2>2
  <2>4. BodyEnd(s) <= BodyEnd(i)
      BY <1>6, <2>1, <2>3, EndsGrow
  <2>. QED BY <1>4, <1>9, <1>10, <1>14, <2>4
<1>16. PendingAt(s)' = a + z /\ Body' = Body
    BY <1>2, <1>10, <1>15 DEF Body
<1>17. LastOut' = m /\ Len(got)' + Len(out)' = LastOut'
    BY <1>1, <1>2, <1>3, LastRegular
<1>18. batching' <=> InBatch(LastOut + 1)'
  <2>1. ~InBatch(m + 1)
      BY <1>4, <1>5, BatchNext
  <2>. QED BY <1>2, <1>17, <2>1 DEF InBatch
<1>19. \A j : KindAt(j)' = KindAt(j)
    BY <1>2, <1>16 DEF KindAt
<1>. QED BY <1>2, <1>4, <1>16, <1>17, <1>18, <1>19 DEF RegularOK

(* What a segment leaves of a message is of a block.                       *)
LEMMA ReturnsRegular ==
    ASSUME IsStream(sent, segs), Regular, GotOK, NEW s \in 0..Len(segs),
           PendingOK(s), OrderOK(s), RegularOK(s), Returns, mode \in {"messages", "blocks"},
           PendingAt(s)' = PendingAt(s), LastOut' = LastOut, Len(got') = Len(got) + Len(out)
    PROVE  RegularOK(s)'
<1>1. CutsOnlyBlocks
    BY DEF Regular
<1>2. /\ mode' = "read" /\ out' = <<>> /\ sent' = sent /\ segs' = segs /\ batching' = batching
      /\ mode = "blocks" /\ pending # <<>> => StartsWith("Block") /\ ~Complete
    BY DEF Returns
<1>3. Body' = Body /\ BodyEnd(s)' = BodyEnd(s) /\ \A i : KindAt(i)' = KindAt(i)
    BY <1>2 DEF Body, BodyEnd, KindAt
<1>4. Len(got)' + Len(out)' = LastOut'
  <2>1. Len(got) \in Nat /\ Len(out) \in Nat
      BY LenProperties DEF GotOK, Run
  <2>2. Len(out') = 0
      BY <1>2
  <2>. QED BY <2>1, <2>2 DEF RegularOK
<1>5. InBatch(LastOut + 1)' <=> InBatch(LastOut + 1)
    BY <1>2 DEF InBatch
<1>6. ASSUME batching PROVE \A i \in (PendingAt(s) + 1)..BodyEnd(s) : KindAt(i) = "Block"
  <2>1. mode = "blocks"
      BY <1>6 DEF PendingOK
  <2>2. BodyEnd(s) \in Nat /\ Len(pending) \in Nat /\ PendingAt(s) \in Nat /\ pending \in Seq(Byte)
    <3>1. segs \in Seq(Seq(Byte))
        BY StreamIs
    <3>. QED BY <3>1, BodyIs, LenProperties DEF PendingOK, IsSlice
  <2>3. PICK a \in Nat, l \in Nat, e \in Nat : a = PendingAt(s) /\ l = Len(pending) /\ e = BodyEnd(s) /\ e = a + l
    <3>1. \A x, y \in Nat : x = (x - y) + y
        OBVIOUS
    <3>. QED BY <2>2, <3>1 DEF PendingAt
  <2>4. CASE pending = <<>>
    <3>1. l = 0
        BY <2>3, <2>4
    <3>2. (a + 1)..e = {}
        BY <2>3, <3>1
    <3>. QED BY <2>3, <3>2
  <2>5. CASE pending # <<>>
    <3>1. FirstKind = "Block" /\ ~Complete
        BY <1>2, <2>1, <2>5 DEF StartsWith
    <3>2. /\ First \in 1..Len(sent)
          /\ \A k \in 1..FirstSize : k <= l => Body[a + k] = <<First, k>>
        BY <1>1, <2>3, <2>5, NextMessageIs
    <3>3. FirstSize \in Nat /\ l < FirstSize
      <4>1. FirstSize \in Nat
          BY <3>2, StreamIs DEF FirstSize, FirstKind
      <4>. QED BY <2>3, <3>1, <4>1 DEF Complete
    <3>4. ASSUME NEW i \in (a + 1)..e PROVE KindAt(i) = "Block"
      <4>1. PICK k \in 1..l : i = a + k
        <5>1. i - a \in 1..l /\ i = a + (i - a)
            BY <2>3
        <5>. QED BY <5>1
      <4>2. k \in 1..FirstSize /\ k <= l
          BY <2>3, <3>3
      <4>3. Body[i] = <<First, k>>
          BY <3>2, <4>1, <4>2
      <4>. QED BY <3>1, <4>3 DEF KindAt, FirstKind
    <3>. QED BY <2>3, <3>4
  <2>. QED BY <2>4, <2>5
<1>. QED BY <1>2, <1>3, <1>4, <1>5, <1>6 DEF RegularOK

(* On such a stream the reader does not fail, and nothing is skipped.      *)
RegularInv ==
    Regular /\ ~overrun => ~Failed /\ \E s \in 0..Len(segs) : InPlace(s) /\ RegularOK(s)

(* The stream stays what it is, and a read that overran a header is not    *)
(* forgotten.                                                              *)
LEMMA StreamStays ==
    ASSUME Next
    PROVE  UNCHANGED <<sent, segs>> /\ (~overrun' => ~overrun)
<1>1. ASSUME NEW n \in 1..Len(wire), Read(n) PROVE UNCHANGED <<sent, segs>> /\ (~overrun' => ~overrun)
  <2>1. overrun' = (overrun \/ Overruns(n))
      BY <1>1 DEF Read
  <2>2. ~overrun' => ~overrun
      BY <2>1, Zenon
  <2>. QED BY <1>1, <2>2 DEF Read, streamVars
<1>2. ASSUME KeepHeader PROVE UNCHANGED <<sent, segs, overrun>>
    BY <1>2 DEF KeepHeader, streamVars
<1>3. ASSUME NEW body, NEW n, Fill(body, n) PROVE UNCHANGED <<sent, segs, overrun>>
    BY <1>3, Zenon DEF Fill, streamVars
<1>4. CASE Panic \/ MessageCut \/ NotABlock \/ Garbled
    BY <1>4 DEF Panic, MessageCut, NotABlock, Garbled, DecodeVars, streamVars
<1>5. CASE NextMessage \/ NextStartBatch \/ MessagesDone
    BY <1>5 DEF NextMessage, NextStartBatch, MessagesDone, DecodeVars, streamVars
<1>6. CASE NextBlock \/ NextBatchDone \/ BlocksDone
    BY <1>6 DEF NextBlock, NextBatchDone, BlocksDone, DecodeVars, streamVars
<1>7. ASSUME UNCHANGED <<sent, segs, overrun>> PROVE UNCHANGED <<sent, segs>> /\ (~overrun' => ~overrun)
    BY <1>7
<1>8. CASE ReadHeader \/ ReadPayload
    BY <1>3, <1>7, <1>8 DEF ReadHeader, ReadPayload
<1>. QED BY <1>1, <1>2, <1>4, <1>5, <1>6, <1>7, <1>8 DEF Next

(* Whether a stream is regular depends on nothing else.                    *)
LEMMA RegularStays ==
    ASSUME UNCHANGED <<sent, segs>>
    PROVE  Regular' <=> Regular
  BY DEF Regular, CutsOnlyBlocks, OneProtocolInBatch, BatchesAreDone, BatchDoneEndsSegment, InBatch, EndsIn

(* Every step keeps what is known of a stream the reader is made for.      *)
LEMMA RegularStepOK ==
    ASSUME ChannelInv, HeaderInPieces, RegularInv, [Next]_vars
    PROVE  RegularInv'
<1>1. SUFFICES ASSUME Regular', ~overrun' PROVE ~Failed' /\ \E s \in 0..Len(segs') : InPlace(s)' /\ RegularOK(s)'
    BY DEF RegularInv
<1>2. ASSUME NEW s, RegularOK(s), UNCHANGED <<sent, segs, got, out, batching, pending, mode>>
      PROVE  RegularOK(s)'
    BY <1>2 DEF RegularOK, PendingAt, Body, BodyEnd, LastOut, LastOf, InBatch, KindAt
<1>3. CASE UNCHANGED vars
  <2>1. UNCHANGED <<sent, segs, got, out, batching, pending, mode, overrun>>
      BY <1>3 DEF vars, streamVars, readerVars
  <2>2. Regular /\ ~overrun /\ Failed' = Failed
      BY <1>1, <2>1, RegularStays DEF Failed
  <2>3. PICK s \in 0..Len(segs) : InPlace(s) /\ RegularOK(s) /\ ~Failed
      BY <2>2 DEF RegularInv
  <2>4. InPlace(s)' /\ RegularOK(s)'
      BY <1>2, <1>3, <2>1, <2>3, StaysInPlace
  <2>. QED BY <2>1, <2>2, <2>3, <2>4
<1>4. CASE Next
  <2>1. UNCHANGED <<sent, segs>> /\ ~overrun
      BY <1>1, <1>4, StreamStays
  <2>2. Regular
      BY <1>1, <2>1, RegularStays
  <2>3. ~Failed
      BY <1>4, FailedStops
  <2>4. /\ IsStream(sent, segs) /\ BuffersOK /\ GotOK
        /\ mode \in {"read", "messages", "blocks"}
      BY <2>3 DEF ChannelInv
  <2>5. PICK s \in 0..Len(segs) : InPlace(s) /\ RegularOK(s)
      BY <2>1, <2>2 DEF RegularInv
  <2>6. PendingOK(s) /\ OrderOK(s)
      BY <2>5 DEF InPlace
  <2>7. ~Failed' <=> mode' \notin {"error", "panic", "garbled"}
      BY DEF Failed
  <2>8. ASSUME NEW i \in 0..Len(segs), InPlace(i)', RegularOK(i)', mode' \in {"read", "messages", "blocks"}
        PROVE  ~Failed' /\ \E k \in 0..Len(segs') : InPlace(k)' /\ RegularOK(k)'
      BY <2>1, <2>7, <2>8
  <2>9. CASE Waits(s) /\ InPlace(s)' /\ GotOK'
    <3>1. mode' = mode /\ UNCHANGED <<sent, segs, got, out, batching, pending>>
        BY <2>9 DEF Waits
    <3>2. RegularOK(s)'
        BY <1>2, <2>5, <3>1
    <3>. QED BY <2>4, <2>8, <2>9, <3>1, <3>2
  <2>10. CASE Arrives(s) /\ s + 1 \in 0..Len(segs) /\ InPlace(s + 1)' /\ GotOK'
    <3>1. /\ mode = "read" /\ mode' = (IF batching THEN "blocks" ELSE "messages")
          /\ UNCHANGED <<sent, segs, got, out, batching>>
        BY <2>10 DEF Arrives
    <3>2. /\ PendingAt(s + 1)' = PendingAt(s) /\ Body' = Body /\ BodyEnd(s)' = BodyEnd(s)
        BY <2>4, <2>6, <2>10, ArrivesPending
    <3>3. LastOut' = LastOut /\ (InBatch(LastOut + 1)' <=> InBatch(LastOut + 1)) /\ \A i : KindAt(i)' = KindAt(i)
        BY <3>1, <3>2 DEF LastOut, LastOf, InBatch, KindAt
    <3>4. PICK t : t = s + 1 /\ t - 1 = s
        OBVIOUS
    <3>5. mode' = "blocks" => \A i \in (PendingAt(t)' + 1)..BodyEnd(t - 1)' : KindAt(i)' = "Block"
        BY <2>5, <3>1, <3>2, <3>3, <3>4 DEF RegularOK
    <3>6. RegularOK(t)'
        BY <2>5, <3>1, <3>2, <3>3, <3>4, <3>5 DEF RegularOK
    <3>. QED BY <2>8, <2>10, <3>1, <3>4, <3>6
  <2>11. CASE Decodes /\ InPlace(s)' /\ GotOK'
    <3>1. mode' = mode /\ mode \in {"messages", "blocks"}
        BY <2>4, <2>11 DEF Decodes
    <3>2. RegularOK(s)'
        BY <2>2, <2>4, <2>5, <2>6, <2>11, <3>1, DecodesRegular
    <3>. QED BY <2>8, <2>11, <3>1, <3>2
  <2>12. CASE Starts /\ InPlace(s)' /\ GotOK'
    <3>1. mode' = "read"
        BY <2>12 DEF Starts
    <3>2. RegularOK(s)'
        BY <2>2, <2>4, <2>5, <2>6, <2>12, StartsRegular
    <3>. QED BY <2>8, <2>12, <3>1, <3>2
  <2>13. CASE Ends /\ InPlace(s)' /\ GotOK'
    <3>1. mode' = "read"
        BY <2>13 DEF Ends
    <3>2. PendingAt(s)' = BodyEnd(s)
        BY <2>4, <2>6, <2>13, EndsInOrder
    <3>3. RegularOK(s)'
        BY <2>2, <2>4, <2>5, <2>6, <2>13, <3>2, EndsRegular
    <3>. QED BY <2>8, <2>13, <3>1, <3>3
  <2>14. CASE Returns /\ InPlace(s)' /\ GotOK'
    <3>1. mode' = "read" /\ mode \in {"messages", "blocks"}
        BY <2>4, <2>14 DEF Returns
    <3>2. PendingAt(s)' = PendingAt(s) /\ LastOut' = LastOut /\ Len(got') = Len(got) + Len(out)
        BY <2>4, <2>6, <2>14, <3>1, ReturnsInOrder
    <3>3. RegularOK(s)'
        BY <2>2, <2>4, <2>5, <2>6, <2>14, <3>1, <3>2, ReturnsRegular
    <3>. QED BY <2>8, <2>14, <3>1, <3>3
  <2>15. ~Fails
      BY <2>1, <2>2, <2>4, <2>5, <2>6, RegularNeverFails
  <2>. QED BY <1>4, <2>4, <2>5, <2>9, <2>10, <2>11, <2>12, <2>13, <2>14, <2>15, StepsInPlace
<1>. QED BY <1>3, <1>4

(* When all bytes are read, all messages are returned.                     *)
LEMMA AllIsReturned ==
    ASSUME IsStream(sent, segs), Regular, BuffersOK, GotOK, NEW s \in 0..Len(segs), InPlace(s), RegularOK(s),
           mode = "read", data = <<>>, wire = <<>>, partial = <<>>
    PROVE  Len(got) = Len(sent)
<1>1. segs \in Seq(Seq(Byte)) /\ Len(sent) \in Nat
    BY StreamIs
<1>2. /\ Len(segs) \in Nat /\ Len(Whole) \in Nat /\ WireEnd(s) \in Nat /\ WireEnd(Len(segs)) = Len(Whole)
      /\ BodyEnd(Len(segs)) = Len(Body) /\ Len(Body) \in Nat
    BY <1>1, BodyIs, WholeIs
<1>3. HeaderAt = Len(Whole)
  <2>1. Len(<<>>) = 0
      OBVIOUS
  <2>2. HeaderAt = Len(Whole) - 0 - 0 - 0
      BY <2>1 DEF HeaderAt, DataAt
  <2>. QED BY <1>2, <2>2
<1>4. ASSUME s < Len(segs) PROVE FALSE
  <2>1. PICK i \in 1..Len(segs) : i = s + 1 /\ i - 1 = s /\ i \in 0..Len(segs)
      BY <1>2, <1>4
  <2>2. WireEnd(i) = WireEnd(s) + 8 + Len(segs[i]) /\ WireEnd(i) <= Len(Whole) /\ Len(segs[i]) \in Nat
      BY <1>1, <2>1, WholeIs, BodyIs
  <2>3. Len(buffer) \in Nat
      BY LenProperties DEF BuffersOK
  <2>4. CASE buffer = <<>>
    <3>1. HeaderAt = WireEnd(s)
        BY <2>4 DEF InPlace, FramesOK
    <3>. QED BY <1>2, <1>3, <2>2, <3>1
  <2>5. CASE buffer # <<>>
    <3>1. length = Len(segs[i]) /\ Len(buffer) < length /\ HeaderAt = WireEnd(s) + 8 + Len(buffer)
        BY <2>1, <2>5 DEF InPlace, FramesOK
    <3>. QED BY <1>2, <1>3, <2>2, <2>3, <3>1
  <2>. QED BY <2>4, <2>5
<1>5. s = Len(segs) /\ BodyEnd(s) = Len(Body)
    BY <1>2, <1>4
<1>6. out = <<>> /\ Len(pending) \in Nat /\ pending \in Seq(Byte) /\ (~batching => pending = <<>>)
      /\ PendingAt(s) \in Nat
    BY LenProperties DEF InPlace, PendingOK, IsSlice
<1>7. LastOut \in Nat /\ Len(got) = LastOut
  <2>1. LastOut \in Nat
      BY <1>1, LastIs DEF LastOut, GotOK, Run
  <2>2. Len(got) \in Nat /\ Len(out) = 0 /\ Len(got) + Len(out) = LastOut
      BY <1>6, LenProperties DEF GotOK, RegularOK
  <2>. QED BY <2>1, <2>2
<1>8. PICK a \in Nat : a = PendingAt(s) /\ a = Len(Body) - Len(pending)
    BY <1>5, <1>6 DEF PendingAt
<1>9. Begun(Body, a) = 1..LastOut /\ Begun(Body, Len(Body)) = 1..Len(sent)
    BY <1>8, StreamIs DEF RegularOK
<1>10. LastOut <= Len(sent)
  <2>1. Begun(Body, a) \subseteq Begun(Body, Len(Body))
    <3>1. a <= Len(Body)
        BY <1>2, <1>6, <1>8
    <3>. QED BY <1>2, <3>1, BegunGrows
  <2>2. CASE LastOut = 0
      BY <1>1, <2>2
  <2>3. CASE LastOut # 0
    <3>1. LastOut \in 1..LastOut
        BY <1>7, <2>3
    <3>2. LastOut \in 1..Len(sent)
        BY <1>9, <2>1, <3>1
    <3>. QED BY <1>1, <3>2
  <2>. QED BY <2>2, <2>3
<1>11. ~(LastOut < Len(sent))
  <2>1. SUFFICES ASSUME LastOut < Len(sent) PROVE FALSE
      OBVIOUS
  <2>2. ASSUME NEW d \in (LastOut + 1)..Len(sent) PROVE \E i \in (a + 1)..Len(Body) : Body[i][1] = d
    <3>1. d \in 1..Len(sent) /\ d \notin 1..LastOut
        BY <1>1, <1>7
    <3>2. PICK i \in 1..Len(Body) : Body[i][2] = 1 /\ Body[i][1] = d
        BY <1>9, <3>1 DEF Begun
    <3>3. i \notin 1..a
        BY <1>9, <3>1, <3>2 DEF Begun
    <3>4. i \in (a + 1)..Len(Body)
        BY <1>2, <3>3
    <3>. QED BY <3>2, <3>4
  <2>3. pending # <<>>
    <3>1. Len(sent) \in (LastOut + 1)..Len(sent)
        BY <1>1, <1>7, <2>1
    <3>2. (a + 1)..Len(Body) # {}
        BY <2>2, <3>1
    <3>3. Len(pending) # 0
        BY <1>2, <1>6, <1>8, <3>2
    <3>. QED BY <3>3
  <2>4. batching
      BY <1>6, <2>3
  <2>5. \A i \in (a + 1)..Len(Body) : KindAt(i) = "Block"
      BY <1>5, <1>8, <2>4 DEF RegularOK
  <2>6. InBatch(LastOut + 1)
      BY <2>4 DEF RegularOK
  <2>7. \A d \in (LastOut + 1)..Len(sent) : sent[d] # "BatchDone"
      BY <2>2, <2>5 DEF KindAt
  <2>8. InBatch(Len(sent) + 1)
    <3>1. /\ LastOut + 1 \in Nat /\ Len(sent) + 1 \in Nat /\ LastOut + 1 <= Len(sent) + 1
          /\ Len(sent) + 1 - 1 = Len(sent)
        BY <1>1, <1>7, <2>1
    <3>. QED BY <2>6, <2>7, <3>1, BatchGoesOn
  <2>. QED BY <2>8 DEF Regular, BatchesAreDone
<1>. QED BY <1>1, <1>7, <1>10, <1>11

(* Whatever the messages, their sizes and the reads: on a stream that it   *)
(* is made for the reader never fails, unless a read overruns a header,    *)
(* and with all the bytes it has returned all the messages.                *)
THEOREM RegularStreamsAreRead == Spec => []RegularIsRead
<1>1. Init => RegularInv
  <2>1. SUFFICES ASSUME Init, Regular PROVE RegularInv
      BY DEF RegularInv
  <2>2. InPlace(0) /\ 0 \in 0..Len(segs) /\ PendingAt(0) = 0
      BY <2>1, ChannelInitOK
  <2>3. got = <<>> /\ out = <<>> /\ batching = FALSE /\ mode = "read"
      BY <2>1 DEF Init
  <2>4. LastOut = 0 /\ Len(got) + Len(out) = 0
      BY <2>3 DEF LastOut, LastOf
  <2>5. Begun(Body, 0) = {} /\ 1..0 = {}
      BY DEF Begun
  <2>6. ~InBatch(0 + 1)
      BY DEF InBatch
  <2>7. RegularOK(0)
      BY <2>2, <2>3, <2>4, <2>5, <2>6 DEF RegularOK
  <2>. QED BY <2>2, <2>3, <2>7 DEF RegularInv, Failed
<1>2. ChannelInv /\ HeaderInPieces /\ RegularInv /\ [Next]_vars => RegularInv'
    BY RegularStepOK
<1>3. ChannelInv /\ RegularInv => RegularIsRead
  <2>1. SUFFICES ASSUME ChannelInv, RegularInv, Regular, ~overrun PROVE RegularIsRead
      BY DEF RegularIsRead
  <2>2. ~Failed
      BY <2>1 DEF RegularInv
  <2>3. IsStream(sent, segs) /\ BuffersOK /\ GotOK
      BY <2>1, <2>2 DEF ChannelInv
  <2>4. PICK s \in 0..Len(segs) : InPlace(s) /\ RegularOK(s)
      BY <2>1 DEF RegularInv
  <2>. QED BY <2>1, <2>2, <2>3, <2>4, AllIsReturned DEF RegularIsRead
<1>. QED BY <1>1, <1>2, <1>3, ChannelInvHolds, HeadersAreJoined, PTL DEF Spec

-----------------------------------------------------------------------------
(* Segments *)

(* The sending and the receiving table agree, up to the accepted version.  *)
LEMMA TablesAgree ==
    ASSUME NEW t \in Sendable
    PROVE  LET p == MessageProtocolMap[t]
               sub == MessageSubprotocolMap[t]
           IN  /\ sub \in Nat
               /\ ProtocolToMessage(p, sub) = t \/ t = "AcceptVersionNtN"
               /\ t = "AcceptVersionNtN" => ProtocolToMessage(p, sub) = "AcceptVersionNtC"
<1>. DEFINE p == MessageProtocolMap[t]
            i == CHOOSE j \in DOMAIN SentKinds[p] : SentKinds[p][j] = t
<1>1. p \in DOMAIN SentKinds /\ t \in Range(SentKinds[p])
    BY DEF MessageProtocolMap, Sendable
<1>2. MessageSubprotocolMap[t] = i - 1
    BY DEF MessageSubprotocolMap
<1>. HIDE DEF p
<1>3. i \in DOMAIN SentKinds[p] /\ SentKinds[p][i] = t
    BY <1>1 DEF Range
<1>. HIDE DEF i
<1>4. p \in {"Handshake", "ChainSync", "BlockFetch", "KeepAlive"}
    BY <1>1 DEF SentKinds
<1>5. CASE p = "Handshake"
    BY <1>2, <1>3, <1>5 DEF SentKinds, ProtocolToMessage, ProtocolMessageMap, p
<1>6. CASE p = "ChainSync"
    BY <1>2, <1>3, <1>6 DEF SentKinds, ProtocolToMessage, ProtocolMessageMap, ChainSyncKinds, p
<1>7. CASE p = "BlockFetch"
    BY <1>2, <1>3, <1>7 DEF SentKinds, ProtocolToMessage, ProtocolMessageMap, BlockFetchKinds, p
<1>8. CASE p = "KeepAlive"
    BY <1>2, <1>3, <1>8 DEF SentKinds, ProtocolToMessage, ProtocolMessageMap, KeepAliveKinds, p
<1>. QED BY <1>4, <1>5, <1>6, <1>7, <1>8

(* The client's accepted version cannot be sent.                           *)
LEMMA ClientVersionNotSent == "AcceptVersionNtC" \notin Sendable
<1>1. ASSUME NEW p \in DOMAIN SentKinds, "AcceptVersionNtC" \in Range(SentKinds[p]) PROVE FALSE
  <2>1. PICK i \in DOMAIN SentKinds[p] : SentKinds[p][i] = "AcceptVersionNtC"
      BY <1>1 DEF Range
  <2>2. p \in {"Handshake", "ChainSync", "BlockFetch", "KeepAlive"}
      BY DEF SentKinds
  <2>. QED BY <2>1, <2>2 DEF SentKinds, ChainSyncKinds, BlockFetchKinds, KeepAliveKinds
<1>. QED BY <1>1 DEF Sendable

SegmentMessage == [type : Sendable, sub : Nat, content : Content]

SegmentTypeOK ==
    /\ messages \in Seq(SegmentMessage) /\ payload \in Seq(SegmentMessage)
    /\ declared \in Nat /\ marshals \in Nat

(* All messages of a segment are of its protocol.                          *)
OneProtocol == \A i \in 1..Len(messages) : MessageProtocolMap[messages[i].type] = protocol

(* After one call of MarshalDataItem the payload is the messages there     *)
(* were at that time.                                                      *)
PayloadIsPrefix ==
    /\ marshals = 0 => payload = <<>> /\ declared = 0 /\ decoded = <<>>
    /\ marshals = 1 => /\ Len(payload) <= Len(messages) /\ declared = Len(payload) % PayloadSpan
                       /\ \A i \in 1..Len(payload) : payload[i] = messages[i]

(* What Messages returned, and what the table holds since: the content of  *)
(* the last message of each type.                                          *)
DecodedIsRead ==
    decoded # <<>> /\ marshals = 1 /\ Len(payload) < PayloadSpan =>
        /\ DOMAIN decoded = 1..Len(payload)
        /\ \A i \in 1..Len(payload) :
              /\ decoded[i] = ProtocolToMessage(protocol, payload[i].sub)
              /\ \/ table[decoded[i]] = payload[i].content
                 \/ \E j \in 1..Len(payload) : j # i /\ decoded[j] = decoded[i]

SegmentInv == SegmentTypeOK /\ OneProtocol /\ PayloadIsPrefix /\ DecodedIsRead

(* A segment begins empty.                                                 *)
LEMMA SegmentInitOK == SegmentInit => SegmentInv
<1>1. <<>> \in Seq(SegmentMessage) /\ Len(<<>>) = 0
    OBVIOUS
<1>. QED BY <1>1 DEF SegmentInit, SegmentInv, SegmentTypeOK, OneProtocol, PayloadIsPrefix, DecodedIsRead

(* AddMessage takes only messages of the segment's protocol, and leaves    *)
(* those that were marshalled alone.                                       *)
LEMMA AddMessageOK ==
    ASSUME SegmentInv, NEW t \in Types, NEW c \in Content, NEW sub \in Numbers(t), AddMessage(t, sub, c)
    PROVE  SegmentInv'
<1>. DEFINE m == [type |-> t, sub |-> sub, content |-> c]
<1>1. t \in Sendable /\ sub \in Nat
    BY TablesAgree DEF AddMessage, Numbers
<1>2. m \in SegmentMessage
    BY <1>1 DEF SegmentMessage
<1>3. messages \in Seq(SegmentMessage) /\ messages' = Append(messages, m) /\ Len(messages) \in Nat
    BY LenProperties DEF SegmentInv, SegmentTypeOK, AddMessage
<1>4. m.type = t
    OBVIOUS
<1>. HIDE DEF m
<1>5. /\ messages' \in Seq(SegmentMessage) /\ Len(messages') = Len(messages) + 1
      /\ \A i \in 1..Len(messages) : messages'[i] = messages[i]
      /\ messages'[Len(messages) + 1] = m
    BY <1>2, <1>3, AppendProperties
<1>6. UNCHANGED <<payload, declared, marshals, decoded, table>> /\ protocol' = MessageProtocolMap[t]
    BY DEF AddMessage
<1>7. SegmentTypeOK'
    BY <1>5, <1>6 DEF SegmentInv, SegmentTypeOK
<1>8. messages = <<>> \/ protocol' = protocol
    BY DEF AddMessage
<1>9. ASSUME NEW i \in 1..Len(messages') PROVE MessageProtocolMap[messages'[i].type] = protocol'
  <2>1. CASE i = Len(messages) + 1
      BY <1>4, <1>5, <1>6, <2>1
  <2>2. CASE i # Len(messages) + 1
    <3>1. i \in 1..Len(messages)
        BY <1>3, <1>5, <2>2
    <3>2. messages # <<>>
        BY <1>3, <3>1
    <3>. QED BY <1>5, <1>8, <3>1, <3>2 DEF SegmentInv, OneProtocol
  <2>. QED BY <2>1, <2>2
<1>10. PayloadIsPrefix'
  <2>1. ASSUME marshals = 1
        PROVE  /\ Len(payload) <= Len(messages') /\ declared = Len(payload) % PayloadSpan
               /\ \A i \in 1..Len(payload) : payload[i] = messages'[i]
    <3>1. Len(payload) \in Nat
        BY LenProperties DEF SegmentInv, SegmentTypeOK
    <3>2. /\ Len(payload) <= Len(messages) /\ declared = Len(payload) % PayloadSpan
          /\ \A i \in 1..Len(payload) : payload[i] = messages[i]
        BY <2>1 DEF SegmentInv, PayloadIsPrefix
    <3>3. \A i \in 1..Len(payload) : i \in 1..Len(messages)
        BY <1>3, <3>1, <3>2
    <3>. QED BY <1>3, <1>5, <3>1, <3>2, <3>3
  <2>. QED BY <1>6, <2>1 DEF SegmentInv, PayloadIsPrefix
<1>11. DecodedIsRead'
  <2>1. CASE protocol' = protocol
      BY <1>6, <2>1 DEF SegmentInv, DecodedIsRead
  <2>2. CASE messages = <<>>
    <3>1. marshals = 1 => 1..Len(payload) = {}
      <4>1. Len(payload) \in Nat /\ Len(messages) = 0
          BY <2>2, LenProperties DEF SegmentInv, SegmentTypeOK
      <4>. QED BY <4>1 DEF SegmentInv, PayloadIsPrefix
    <3>2. DecodedIsRead
        BY DEF SegmentInv
    <3>. QED BY <1>6, <3>1, <3>2 DEF DecodedIsRead
  <2>. QED BY <1>8, <2>1, <2>2
<1>. QED BY <1>7, <1>9, <1>10, <1>11 DEF SegmentInv, OneProtocol

(* MarshalDataItem appends the messages to the payload there is.           *)
LEMMA MarshalOK ==
    ASSUME SegmentInv, MarshalDataItem
    PROVE  SegmentInv'
<1>1. /\ messages \in Seq(SegmentMessage) /\ payload \in Seq(SegmentMessage) /\ marshals \in Nat
      /\ Len(messages) \in Nat /\ Len(payload) \in Nat
    BY LenProperties DEF SegmentInv, SegmentTypeOK
<1>2. /\ marshals' = marshals + 1 /\ payload' = payload \o messages
      /\ declared' = Len(payload') % PayloadSpan
      /\ UNCHANGED <<protocol, messages, decoded, table>>
    BY DEF MarshalDataItem
<1>3. payload' \in Seq(SegmentMessage) /\ Len(payload') = Len(payload) + Len(messages)
    BY <1>1, <1>2, ConcatProperties
<1>4. declared' \in Nat
    BY <1>1, <1>2, <1>3, SegmentAssumption
<1>5. marshals' # 0 /\ (marshals' = 1 => marshals = 0) /\ marshals' \in Nat
    BY <1>1, <1>2
<1>6. ASSUME marshals' = 1 PROVE payload' = messages /\ decoded' = <<>>
  <2>1. payload = <<>> /\ decoded = <<>>
      BY <1>5, <1>6 DEF SegmentInv, PayloadIsPrefix
  <2>2. <<>> \o messages = messages
      BY <1>1, ConcatEmptySeq
  <2>. QED BY <1>2, <2>1, <2>2
<1>7. PayloadIsPrefix'
    BY <1>1, <1>2, <1>5, <1>6 DEF PayloadIsPrefix
<1>8. SegmentTypeOK' /\ OneProtocol'
    BY <1>1, <1>2, <1>3, <1>4, <1>5 DEF SegmentInv, SegmentTypeOK, OneProtocol
<1>9. DecodedIsRead'
    BY <1>6 DEF DecodedIsRead
<1>. QED BY <1>7, <1>8, <1>9 DEF SegmentInv

(* Messages decodes the whole payload when its length fits the field.      *)
LEMMA MessagesOK ==
    ASSUME SegmentInv, Messages
    PROVE  SegmentInv'
<1>1. UNCHANGED <<protocol, messages, payload, declared, marshals>>
    BY DEF Messages
<1>2. /\ payload \in Seq(SegmentMessage) /\ Len(payload) \in Nat
    BY LenProperties DEF SegmentInv, SegmentTypeOK
<1>3. SegmentTypeOK' /\ OneProtocol'
    BY <1>1 DEF SegmentInv, SegmentTypeOK, OneProtocol
<1>4. PayloadIsPrefix'
  <2>1. marshals # 0
    <3>1. SUFFICES ASSUME marshals = 0 PROVE Received = <<>>
        BY DEF Messages
    <3>2. SubSeq(<<>>, 1, 0) = <<>>
        BY SubSeqEmpty
    <3>. QED BY <3>1, <3>2 DEF SegmentInv, PayloadIsPrefix, Received
  <2>. QED BY <1>1, <2>1 DEF SegmentInv, PayloadIsPrefix
<1>5. ASSUME marshals = 1, Len(payload) < PayloadSpan PROVE DecodedIsRead'
  <2>1. declared = Len(payload)
    <3>1. \A a, b \in Nat : a < b => a % b = a
        OBVIOUS
    <3>2. PayloadSpan \in Nat /\ declared = Len(payload) % PayloadSpan
        BY <1>5, SegmentAssumption DEF SegmentInv, PayloadIsPrefix
    <3>. QED BY <1>2, <1>5, <3>1, <3>2
  <2>2. Received = payload
      BY <1>2, <2>1, SubSeqFull DEF Received
  <2>. DEFINE n == Len(payload)
  <2>3. DOMAIN payload = 1..n
      BY <1>2, LenProperties
  <2>4. /\ decoded' = [i \in 1..n |-> ProtocolToMessage(protocol, payload[i].sub)]
        /\ \A i \in 1..n : Known(protocol, payload[i].sub)
        /\ table' = [t \in ReadTypes |->
                       LET last == {i \in 1..n : decoded'[i] = t /\ \A j \in 1..n : j > i => decoded'[j] # t}
                       IN  IF last = {} THEN table[t] ELSE payload[CHOOSE i \in last : TRUE].content]
      BY <2>2, <2>3 DEF Messages
  <2>. HIDE DEF n
  <2>5. ASSUME NEW i \in 1..n, \A j \in 1..n : decoded'[j] = decoded'[i] => j = i
        PROVE  table'[decoded'[i]] = payload[i].content
    <3>. DEFINE t == decoded'[i]
                last == {k \in 1..n : decoded'[k] = t /\ \A j \in 1..n : j > k => decoded'[j] # t}
    <3>1. t \in ReadTypes
      <4>1. decoded'[i] = ProtocolToMessage(protocol, payload[i].sub) /\ Known(protocol, payload[i].sub)
          BY <2>4
      <4>. QED BY <4>1 DEF Known, ProtocolToMessage, ReadTypes, Range
    <3>2. n \in Nat
        BY <1>2 DEF n
    <3>3. last = {i}
        BY <2>5, <3>2
    <3>4. table'[t] = IF last = {} THEN table[t] ELSE payload[CHOOSE k \in last : TRUE].content
        BY <2>4, <3>1, Zenon
    <3>. HIDE DEF last, t
    <3>5. (CHOOSE k \in last : TRUE) = i
        BY <3>3
    <3>. QED BY <3>3, <3>4, <3>5 DEF t
  <2>6. DOMAIN decoded' = 1..n /\ \A i \in 1..n : decoded'[i] = ProtocolToMessage(protocol, payload[i].sub)
      BY <2>4
  <2>7. \A i \in 1..n : \/ table'[decoded'[i]] = payload[i].content
                        \/ \E j \in 1..n : j # i /\ decoded'[j] = decoded'[i]
      BY <2>5
  <2>. QED BY <1>1, <2>6, <2>7 DEF DecodedIsRead, n
<1>6. DecodedIsRead'
    BY <1>1, <1>5 DEF DecodedIsRead
<1>. QED BY <1>3, <1>4, <1>6 DEF SegmentInv

(* The inductive invariant gives the round trip: two messages that are     *)
(* read as one type are of one type.                                       *)
LEMMA SegmentInvSuffices == SegmentInv => SegmentRoundTrip
<1>1. SUFFICES ASSUME SegmentInv, decoded # <<>>, marshals = 1, Len(payload) < PayloadSpan,
                      \A i \in DOMAIN decoded : messages[i].sub = MessageSubprotocolMap[messages[i].type],
                      NEW i \in DOMAIN decoded
               PROVE  /\ decoded[i] = messages[i].type \/ messages[i].type = "AcceptVersionNtN"
                      /\ \/ table[decoded[i]] = messages[i].content
                         \/ \E j \in DOMAIN decoded : j # i /\ messages[j].type = messages[i].type
    BY DEF SegmentRoundTrip
<1>. DEFINE n == Len(payload)
<1>2. n \in Nat /\ Len(messages) \in Nat /\ n <= Len(messages) /\ messages \in Seq(SegmentMessage)
    BY <1>1, LenProperties DEF SegmentInv, SegmentTypeOK, PayloadIsPrefix
<1>3. /\ DOMAIN decoded = 1..n
      /\ \A k \in 1..n : /\ decoded[k] = ProtocolToMessage(protocol, payload[k].sub)
                         /\ \/ table[decoded[k]] = payload[k].content
                            \/ \E j \in 1..n : j # k /\ decoded[j] = decoded[k]
    BY <1>1 DEF SegmentInv, DecodedIsRead
<1>4. \A k \in 1..n : payload[k] = messages[k]
    BY <1>1 DEF SegmentInv, PayloadIsPrefix
<1>. HIDE DEF n
<1>5. ASSUME NEW k \in 1..n
      PROVE  /\ messages[k].type \in Sendable
             /\ decoded[k] = messages[k].type \/ messages[k].type = "AcceptVersionNtN"
             /\ messages[k].type = "AcceptVersionNtN" => decoded[k] = "AcceptVersionNtC"
  <2>1. k \in 1..Len(messages)
      BY <1>2
  <2>2. messages[k] \in SegmentMessage
      BY <1>2, <2>1, ElementOfSeq
  <2>3. messages[k].type \in Sendable
      BY <2>2 DEF SegmentMessage
  <2>4. protocol = MessageProtocolMap[messages[k].type]
      BY <1>1, <2>1 DEF SegmentInv, OneProtocol
  <2>5. decoded[k] = ProtocolToMessage(MessageProtocolMap[messages[k].type],
                                       MessageSubprotocolMap[messages[k].type])
      BY <1>1, <1>3, <1>4, <2>4
  <2>. QED BY <2>3, <2>5, TablesAgree
<1>6. ASSUME NEW j \in 1..n, j # i, decoded[j] = decoded[i]
      PROVE  messages[j].type = messages[i].type
    BY <1>1, <1>3, <1>5, <1>6, ClientVersionNotSent
<1>7. decoded[i] = messages[i].type \/ messages[i].type = "AcceptVersionNtN"
    BY <1>1, <1>3, <1>5
<1>8. table[decoded[i]] = messages[i].content \/ \E j \in DOMAIN decoded : j # i /\ messages[j].type = messages[i].type
    BY <1>1, <1>3, <1>4, <1>6
<1>. QED BY <1>7, <1>8

(* The tables agree: numbered messages come back with type and content     *)
(* when the segment was marshalled once and its payload fits the length    *)
(* field, for every width of that field and any number of messages.        *)
THEOREM SegmentsAreReadBack == SegmentSpec => []SegmentRoundTrip
<1>1. SegmentInv /\ [SegmentNext]_segmentVars => SegmentInv'
  <2>1. SUFFICES ASSUME SegmentInv, [SegmentNext]_segmentVars PROVE SegmentInv'
      OBVIOUS
  <2>2. CASE UNCHANGED segmentVars
      BY <2>1, <2>2 DEF segmentVars, SegmentInv, SegmentTypeOK, OneProtocol, PayloadIsPrefix, DecodedIsRead
  <2>. QED BY <2>1, <2>2, AddMessageOK, MarshalOK, MessagesOK DEF SegmentNext
<1>. QED BY <1>1, SegmentInitOK, SegmentInvSuffices, PTL DEF SegmentSpec

-----------------------------------------------------------------------------
(* Addresses *)

(* The bits of half a header: of its type, or of its network.              *)
Bit == {0, 1}

Half == {s \in Seq(Bit) : Len(s) = 4}

(* toBytes undoes fromBytes.                                               *)
LEMMA ByteOfBits ==
    ASSUME NEW u \in Seq(Bit), Len(u) = 8
    PROVE  ToBytes(FromBytes(u)) = u
  <1>1. \A i \in 1..Len(u) : u[i] \in Bit
    BY ElementOfSeq
  <1> DEFINE x == FromBytes(u)
  <1>2. PICK a \in Bit, b \in Bit, c \in Bit, d \in Bit :
          u[1] = a /\ u[2] = b /\ u[3] = c /\ u[4] = d
    <2>1. u[1] \in Bit /\ u[2] \in Bit /\ u[3] \in Bit /\ u[4] \in Bit
      BY <1>1
    <2> QED
      BY <2>1, Zenon
  <1>3. PICK e \in Bit, f \in Bit, g \in Bit, h \in Bit :
          u[5] = e /\ u[6] = f /\ u[7] = g /\ u[8] = h
    <2>1. u[5] \in Bit /\ u[6] \in Bit /\ u[7] \in Bit /\ u[8] \in Bit
      BY <1>1
    <2> QED
      BY <2>1, Zenon
  <1>4. x = 128 * a + 64 * b + 32 * c + 16 * d + 8 * e + 4 * f + 2 * g + h
    BY <1>2, <1>3 DEF FromBytes
  <1> HIDE DEF x
  <1>5. /\ (x \div 128) % 2 = a
        /\ (x \div 64) % 2 = b
        /\ (x \div 32) % 2 = c
        /\ (x \div 16) % 2 = d
    BY <1>4 DEF Bit
  <1>6. /\ (x \div 8) % 2 = e
        /\ (x \div 4) % 2 = f
        /\ (x \div 2) % 2 = g
        /\ (x \div 1) % 2 = h
    BY <1>4 DEF Bit
  <1>7. /\ ToBytes(x) = [i \in 1..8 |-> ToBytes(x)[i]]
        /\ \A i \in 1..8 : ToBytes(x)[i] = (x \div BitValue[i]) % 2
    BY DEF ToBytes
  <1>8. \A i \in 1..8 : ToBytes(x)[i] = u[i]
    BY <1>2, <1>3, <1>5, <1>6, <1>7 DEF BitValue
  <1>9. u = [i \in 1..8 |-> u[i]]
    OBVIOUS
  <1> QED
    BY <1>7, <1>8, <1>9 DEF x

(* A header that is made of two halves has them.                           *)
LEMMA HalvesOfByte ==
    ASSUME NEW s \in Half, NEW t \in Half
    PROVE  /\ SubSeq(ToBytes(FromBytes(s \o t)), 1, 4) = s
           /\ SubSeq(ToBytes(FromBytes(s \o t)), 5, 8) = t
  <1>1. s \in Seq(Bit) /\ t \in Seq(Bit) /\ Len(s) = 4 /\ Len(t) = 4
    BY DEF Half
  <1>2. PICK u : u = s \o t
    OBVIOUS
  <1>3. /\ u \in Seq(Bit) /\ Len(u) = 8
        /\ \A i \in 1..4 : u[i] = s[i]
        /\ \A i \in 5..8 : u[i] = t[i - 4]
    <2>1. /\ u \in Seq(Bit) /\ Len(u) = Len(s) + Len(t)
          /\ \A i \in 1..(Len(s) + Len(t)) : u[i] = IF i <= Len(s) THEN s[i] ELSE t[i - Len(s)]
      BY <1>1, <1>2, ConcatProperties
    <2> QED
      BY <1>1, <2>1
  <1>4. \A i \in 1..8 : u[i] \in Bit
    BY <1>3, ElementOfSeq
  <1>5. SubSeq(u, 1, 4) = s
    <2>1. /\ SubSeq(u, 1, 4) \in Seq(Bit) /\ Len(SubSeq(u, 1, 4)) = 4
          /\ \A i \in 1..4 : SubSeq(u, 1, 4)[i] = u[i]
      BY <1>4, SubSeqProperties
    <2> QED
      BY <1>1, <1>3, <2>1, SeqEqual
  <1>6. SubSeq(u, 5, 8) = t
    <2>1. /\ SubSeq(u, 5, 8) \in Seq(Bit) /\ Len(SubSeq(u, 5, 8)) = 4
          /\ \A i \in 1..4 : SubSeq(u, 5, 8)[i] = u[i + 4]
      BY <1>4, SubSeqProperties
    <2>2. \A i \in 1..4 : u[i + 4] = t[i]
      BY <1>3
    <2> QED
      BY <1>1, <2>1, <2>2, SeqEqual
  <1>7. ToBytes(FromBytes(u)) = u
    BY <1>3, ByteOfBits
  <1> QED
    BY <1>2, <1>5, <1>6, <1>7, Zenon

(* Four bits are a half.                                                   *)
LEMMA HalfOf ==
    ASSUME NEW a \in Bit, NEW b \in Bit, NEW c \in Bit, NEW d \in Bit
    PROVE  <<a, b, c, d>> \in Half
  BY DEF Half

(* AddressTypeMap has ten different halves.                                *)
LEMMA TypesDiffer ==
    /\ \A typ \in AddressType : AddressHeaderType(typ) \in Half
    /\ \A typ, other \in AddressType :
          AddressHeaderType(typ) = AddressHeaderType(other) => typ = other
  <1> DEFINE n(typ) == AddressHeaderType(typ)
             code(typ) == 8 * n(typ)[1] + 4 * n(typ)[2] + 2 * n(typ)[3] + n(typ)[4]
  <1>1. \A typ \in AddressType : AddressHeaderType(typ) \in Half
    <2>1. /\ <<0, 0, 0, 0>> \in Half /\ <<0, 0, 0, 1>> \in Half
          /\ <<0, 0, 1, 0>> \in Half /\ <<0, 0, 1, 1>> \in Half
          /\ <<0, 1, 0, 0>> \in Half /\ <<0, 1, 0, 1>> \in Half
          /\ <<0, 1, 1, 0>> \in Half /\ <<0, 1, 1, 1>> \in Half
          /\ <<1, 1, 1, 0>> \in Half /\ <<1, 1, 1, 1>> \in Half
      BY HalfOf, Zenon DEF Bit
    <2> QED
      BY <2>1 DEF AddressType, AddressHeaderType, AddressTypeMap
  <1>2. \A typ \in AddressType : code(typ) = IF typ < 8 THEN typ ELSE typ + 6
    BY DEF AddressType, AddressHeaderType, AddressTypeMap
  <1>3. ASSUME NEW typ \in AddressType, NEW other \in AddressType, n(typ) = n(other)
        PROVE  typ = other
    <2>1. code(typ) = code(other)
      BY <1>3
    <2> HIDE DEF code
    <2> QED
      BY <1>2, <2>1 DEF AddressType
  <1> QED
    BY <1>1, <1>3

(* EncodeAddress's header has the bits of its type, then of its network.   *)
LEMMA EncodedHeader ==
    ASSUME NEW key, NEW net \in Network, NEW typ \in AddressType
    PROVE  LET header == EncodeAddress(key, net, typ).header
           IN  /\ SubSeq(ToBytes(header), 1, 4) = AddressHeaderType(typ)
               /\ SubSeq(ToBytes(header), 5, 8) = HeaderNetworks[HeaderNetwork(net)]
  <1>1. PICK low : low = SubSeq(ToBytes(0), 5, 8)
    OBVIOUS
  <1>2. low \in Half
    <2>1. ToBytes(0) \in Seq(Bit) /\ Len(ToBytes(0)) = 8
      BY DEF ToBytes, BitValue, Bit
    <2>2. low \in Seq(Bit) /\ Len(low) = 4
      BY <1>1, <2>1, SubSeqProperties
    <2> QED
      BY <2>2 DEF Half
  <1>3. AddressHeaderType(typ) \in Half
    BY TypesDiffer
  <1>4. HeaderNetworks[HeaderNetwork(net)] \in Half
    <2>1. <<0, 0, 0, 0>> \in Half /\ <<0, 0, 0, 1>> \in Half
      BY HalfOf, Zenon DEF Bit
    <2> QED
      BY <2>1 DEF HeaderNetworks, HeaderNetwork
  <1>5. SubSeq(ToBytes(SetType(0, typ)), 1, 4) = AddressHeaderType(typ)
    BY <1>1, <1>2, <1>3, HalvesOfByte, Zenon DEF SetType
  <1>6. EncodeAddress(key, net, typ).header = SetNetwork(SetType(0, typ), HeaderNetwork(net))
    BY DEF EncodeAddress
  <1>7. EncodeAddress(key, net, typ).header
          = FromBytes(AddressHeaderType(typ) \o HeaderNetworks[HeaderNetwork(net)])
    BY <1>5, <1>6, Zenon DEF SetNetwork
  <1>8. LET header == FromBytes(AddressHeaderType(typ) \o HeaderNetworks[HeaderNetwork(net)])
        IN  /\ SubSeq(ToBytes(header), 1, 4) = AddressHeaderType(typ)
            /\ SubSeq(ToBytes(header), 5, 8) = HeaderNetworks[HeaderNetwork(net)]
    BY <1>3, <1>4, HalvesOfByte
  <1> QED
    BY <1>7, <1>8, Zenon

(* So its type and its network are the ones that it was encoded from.      *)
LEMMA EncodedIsRead ==
    ASSUME NEW key, NEW net \in Network, NEW typ \in AddressType
    PROVE  /\ TypesOf(EncodeAddress(key, net, typ).header) = {typ}
           /\ NetworksOf(EncodeAddress(key, net, typ).header) = {HeaderNetwork(net)}
  <1> DEFINE header == EncodeAddress(key, net, typ).header
  <1>1. /\ SubSeq(ToBytes(header), 1, 4) = AddressHeaderType(typ)
        /\ SubSeq(ToBytes(header), 5, 8) = HeaderNetworks[HeaderNetwork(net)]
    BY EncodedHeader
  <1> HIDE DEF header
  <1>2. TypesOf(header) = {typ}
    BY <1>1, TypesDiffer DEF TypesOf
  <1>3. NetworksOf(header) = {HeaderNetwork(net)}
    <2>1. HeaderNetworks["Testnet"] # HeaderNetworks["Mainnet"]
      BY DEF HeaderNetworks
    <2>2. DOMAIN HeaderNetworks = {"Testnet", "Mainnet"} /\ HeaderNetwork(net) \in {"Testnet", "Mainnet"}
      BY DEF HeaderNetworks, HeaderNetwork
    <2> QED
      BY <1>1, <2>1, <2>2 DEF NetworksOf
  <1> QED
    BY <1>2, <1>3 DEF header

(* What the variables are between two calls: the string was written from   *)
(* encodedBy, and the address was read from the string, on a network that  *)
(* takes its prefix.                                                       *)
AddressInv ==
    /\ string # NoAddress =>
          \E key \in Key, net \in Network, typ \in AddressType :
            /\ encodedBy = [key |-> key, net |-> net, typ |-> typ]
            /\ string = Bech32String(EncodeAddress(key, net, typ), net)
    /\ parsed # NoAddress =>
          /\ string # NoAddress
          /\ \E net \in Network :
                parsed = [net |-> net, addr |-> string.addr] /\ Accepts(string, net)

(* Every call keeps it.                                                    *)
LEMMA AddressInvHolds == AddressSpec => []AddressInv
  <1>1. AddressInit => AddressInv
    BY DEF AddressInit, AddressInv
  <1>2. AddressInv /\ [AddressNext]_addressVars => AddressInv'
    <2> SUFFICES ASSUME AddressInv, [AddressNext]_addressVars PROVE AddressInv'
      OBVIOUS
    <2>1. ASSUME NEW key \in Key, NEW net \in Network, NEW typ \in AddressType,
                 PubkeyToAddress(key, net, typ)
          PROVE  AddressInv'
      BY <2>1 DEF PubkeyToAddress, AddressInv
    <2>2. ASSUME NEW net \in Network, DecodeAddress(net)
          PROVE  AddressInv'
      BY <2>2 DEF DecodeAddress, AddressInv, Accepts
    <2>3. CASE UNCHANGED addressVars
      BY <2>3 DEF addressVars, AddressInv, Accepts
    <2> QED
      BY <2>1, <2>2, <2>3 DEF AddressNext
  <1> QED
    BY <1>1, <1>2, PTL DEF AddressSpec

(* Networks whose headers are alike and that take each other's prefixes    *)
(* are one network.                                                        *)
LEMMA NetworkIsTold ==
    ASSUME NEW net \in Network, NEW other \in Network,
           HeaderNetwork(other) = HeaderNetwork(net),
           AddressPrefix[net] \in {AddressPrefix[other], DelegationPrefix[other]}
    PROVE  other = net
  BY DEF Network, HeaderNetwork, AddressPrefix, DelegationPrefix

(* AddressRoundTrip for every set of keys.                                 *)
THEOREM AddressesAreReadBack == AddressSpec => []AddressRoundTrip
  <1>1. ASSUME AddressInv, parsed # NoAddress
        PROVE  /\ parsed.addr.hash = encodedBy.key
               /\ TypesOf(parsed.addr.header) = {encodedBy.typ}
               /\ IsForNetwork(parsed.addr.header, parsed.net) <=> parsed.net = encodedBy.net
    <2>1. PICK key \in Key, net \in Network, typ \in AddressType :
             /\ encodedBy = [key |-> key, net |-> net, typ |-> typ]
             /\ string = Bech32String(EncodeAddress(key, net, typ), net)
      BY <1>1 DEF AddressInv
    <2>2. PICK read \in Network :
             parsed = [net |-> read, addr |-> string.addr] /\ Accepts(string, read)
      BY <1>1 DEF AddressInv
    <2>3. /\ encodedBy.key = key /\ encodedBy.net = net /\ encodedBy.typ = typ
          /\ parsed.net = read
      BY <2>1, <2>2
    <2>4. string.addr = EncodeAddress(key, net, typ) /\ string.prefix = AddressPrefix[net]
      BY <2>1 DEF Bech32String
    <2>5. parsed.addr = EncodeAddress(key, net, typ)
      BY <2>2, <2>4
    <2>6. EncodeAddress(key, net, typ).hash = key
      BY DEF EncodeAddress
    <2>7. /\ TypesOf(parsed.addr.header) = {typ}
          /\ NetworksOf(parsed.addr.header) = {HeaderNetwork(net)}
      <3>1. /\ TypesOf(EncodeAddress(key, net, typ).header) = {typ}
            /\ NetworksOf(EncodeAddress(key, net, typ).header) = {HeaderNetwork(net)}
        BY EncodedIsRead, ZenonT(60)
      <3> QED
        BY <2>5, <3>1, Zenon
    <2>8. AddressPrefix[net] \in {AddressPrefix[read], DelegationPrefix[read]}
      BY <2>2, <2>4 DEF Accepts
    <2>9. HeaderNetwork(read) = HeaderNetwork(net) <=> read = net
      BY <2>8, NetworkIsTold
    <2> QED
      <3>1. IsForNetwork(parsed.addr.header, read) <=> HeaderNetwork(read) = HeaderNetwork(net)
        BY <2>7 DEF IsForNetwork
      <3>2. parsed.addr.hash = encodedBy.key
        BY <2>3, <2>5, <2>6, Zenon
      <3>3. TypesOf(parsed.addr.header) = {encodedBy.typ}
        BY <2>3, <2>7, Zenon
      <3> QED
        BY <2>3, <2>9, <3>1, <3>2, <3>3, Zenon
  <1>2. AddressInv => AddressRoundTrip
    BY <1>1 DEF AddressRoundTrip
  <1> QED
    BY <1>2, AddressInvHolds, PTL
=============================================================================
