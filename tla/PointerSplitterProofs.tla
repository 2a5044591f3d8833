------------------------ MODULE PointerSplitterProofs ------------------------
(***************************************************************************)
(* Theorems about PointerSplitter, for every set of pointers and every      *)
(* allocation unit.                                                         *)
(***************************************************************************)
EXTENDS PointerSplitter, CommonLemmas, FiniteSetTheorems

(* Calls and devices that leave the list alone.                              *)
LEMMA ListUntouched ==
  ASSUME TypeOK, UNCHANGED listVars,
         signal' \in BOOLEAN, ready' \in BOOLEAN, moves' \in 0..MaxMoves
  PROVE  TypeOK'
BY DEF TypeOK, listVars, Dev

(* A device that is started is appended, into an array that has room.        *)
LEMMA StartKeepsType ==
  ASSUME TypeOK, NEW d \in Dev, Start(d)
  PROVE  TypeOK'
<1>1. /\ d \in Dev \ opened /\ opened' = opened \cup {d}
      /\ UNCHANGED <<kind, signal, ready, moves>>
  BY DEF Start, deviceVars
<1>2. /\ Append(list, d) \in Seq(Dev)
      /\ Len(Append(list, d)) = Len(list) + 1
      /\ Elems(Append(list, d)) = Elems(list) \cup {d}
      /\ Distinct(Append(list, d))
  BY <1>1, AppendElems DEF TypeOK
<1>3. CASE list' = Append(list, d) /\ capacity' = GrownCount(list, capacity, AllocUnit)
  <2>1. Len(list) \in Nat
    BY LenProperties DEF TypeOK
  <2>2. capacity' \in Nat /\ Len(list) + 1 <= capacity'
    BY <1>3, <2>1, BoundAssumption DEF TypeOK, GrownCount
  <2>3. QED BY <1>1, <1>2, <1>3, <2>2 DEF TypeOK, Dev
<1>4. CASE UNCHANGED <<list, capacity>>
  BY <1>1, <1>4 DEF TypeOK, Dev
<1>5. QED BY <1>3, <1>4 DEF Start

(* A device that is stopped is removed, if it was listed.                    *)
LEMMA StopKeepsType ==
  ASSUME TypeOK, NEW d \in Dev, Stop(d)
  PROVE  TypeOK'
<1>1. /\ opened' = opened \ {d}
      /\ UNCHANGED <<kind, capacity, signal, ready, moves>>
      /\ list' = IF d \in Elems(list) THEN Deleted(list, IndexOf(list, d)) ELSE list
  BY DEF Stop, deviceVars
<1>2. CASE d \in Elems(list)
  <2>1. IndexOf(list, d) \in DOMAIN list /\ list[IndexOf(list, d)] = d
    BY <1>2 DEF Elems, IndexOf
  <2>2. /\ list' \in Seq(Dev)
        /\ Len(list') = Len(list) - 1
        /\ Distinct(list') /\ Elems(list') = Elems(list) \ {d}
    BY <1>1, <1>2, <2>1, DeletedIsSeq, DeletedElems DEF TypeOK
  <2>3. Len(list) \in Nat
    BY LenProperties DEF TypeOK
  <2>4. QED BY <1>1, <2>2, <2>3 DEF TypeOK, Dev
<1>3. CASE d \notin Elems(list)
  BY <1>1, <1>3 DEF TypeOK, Dev
<1>4. QED BY <1>2, <1>3

LEMMA NextKeepsType == TypeOK /\ [Next]_vars => TypeOK'
<1> SUFFICES ASSUME TypeOK, [Next]_vars PROVE TypeOK'
  OBVIOUS
<1>1. /\ signal \in BOOLEAN /\ ready \in BOOLEAN /\ moves \in 0..MaxMoves
      /\ MaxMoves \in Nat
  BY BoundAssumption DEF TypeOK
<1>2. CASE Poll
  <2>1. UNCHANGED <<listVars, moves>> /\ signal' \in BOOLEAN /\ ready' \in BOOLEAN
    BY <1>1, <1>2 DEF Poll, WaitForInput, deviceVars
  <2>2. QED BY <1>1, <2>1, ListUntouched
<1>3. CASE Read
  <2>1. UNCHANGED <<listVars, moves>> /\ signal' = FALSE /\ ready' = FALSE
    BY <1>3 DEF Read, GetState
  <2>2. QED BY <1>1, <2>1, ListUntouched
<1>4. CASE Others
  <2>1. UNCHANGED <<listVars, moves, ready>> /\ signal' = FALSE
    BY <1>4 DEF Others, GetState, Reset
  <2>2. QED BY <1>1, <2>1, ListUntouched
<1>5. ASSUME NEW d \in Dev, Start(d) \/ Stop(d) PROVE TypeOK'
  BY <1>5, StartKeepsType, StopKeepsType
<1>6. ASSUME NEW d \in Dev, NEW b \in Buttons, Press(d, b) PROVE TypeOK'
  <2>1. UNCHANGED <<listVars, signal, ready>> /\ moves' \in 0..MaxMoves
    BY <1>1, <1>6 DEF Press
  <2>2. QED BY <1>1, <2>1, ListUntouched
<1>7. ASSUME NEW d \in SimpleDev, NEW x \in Axes, NEW step \in {-1, 1}, Move(d, x, step)
      PROVE TypeOK'
  <2>1. UNCHANGED <<listVars, signal, ready>> /\ moves' \in 0..MaxMoves
    BY <1>1, <1>7 DEF Move
  <2>2. QED BY <1>1, <2>1, ListUntouched
<1>8. ASSUME NEW d \in AbsoluteDev, NEW x \in Axes, NEW place \in 0..VirtualSide, Point(d, x, place)
      PROVE TypeOK'
  <2>1. UNCHANGED <<listVars, signal, ready>> /\ moves' \in 0..MaxMoves
    BY <1>1, <1>8 DEF Point
  <2>2. QED BY <1>1, <2>1, ListUntouched
<1>9. CASE UNCHANGED vars
  <2>1. UNCHANGED <<listVars, signal, ready, moves>>
    BY <1>9 DEF vars, deviceVars
  <2>2. QED BY <1>1, <2>1, ListUntouched
<1>10. QED BY <1>2, <1>3, <1>4, <1>5, <1>6, <1>7, <1>8, <1>9 DEF Next

(* Both pointer lists hold open devices, each once, and never more than      *)
(* their array has room for, also after a device for which the array could   *)
(* not grow (ConSplitterSimplePointerAddDevice, ...DeleteDevice).            *)
THEOREM PointerTypes == Spec => []TypeOK
<1>1. ASSUME Init PROVE TypeOK
  <2>1. /\ kind \in {"Simple", "Absolute"}
        /\ opened = {} /\ list = <<>> /\ capacity = AllocUnit
        /\ signal = FALSE /\ ready = FALSE /\ moves = 0
    BY <1>1 DEF Init
  <2>2. list \in Seq(Dev) /\ Elems(list) = {} /\ Distinct(list) /\ Len(list) = 0
    BY <2>1, EmptyElems, EmptySeq
  <2>3. capacity \in Nat /\ Len(list) <= capacity /\ moves \in 0..MaxMoves
    BY <2>1, <2>2, BoundAssumption
  <2>4. QED BY <2>1, <2>2, <2>3 DEF TypeOK
<1>2. QED BY <1>1, NextKeepsType, PTL DEF Spec

-----------------------------------------------------------------------------
(* Sums                                                                      *)

(* s is the function that SumOf(v) defines, for a v of n numbers.            *)
IsSum(s, v, n) == s = [i \in 0..n |-> IF i = 0 THEN 0 ELSE s[i - 1] + v[i]]

LEMMA SumUnfolded ==
  ASSUME NEW v, NEW n \in Nat, Len(v) = n
  PROVE  \E s : IsSum(s, v, n) /\ SumOf(v) = s[n]
<1> DEFINE T == {k \in Nat : \E s : IsSum(s, v, k)}
<1>1. 0 \in T
  <2> DEFINE s == [i \in 0..0 |-> 0]
  <2>1. s = [i \in 0..0 |-> IF i = 0 THEN 0 ELSE s[i - 1] + v[i]]
    OBVIOUS
  <2> HIDE DEF s
  <2>2. IsSum(s, v, 0)
    BY <2>1 DEF IsSum
  <2> QED BY <2>2
<1>2. ASSUME NEW k \in Nat, k \in T PROVE k + 1 \in T
  <2>1. PICK s : IsSum(s, v, k)
    BY <1>2
  <2> DEFINE a == [i \in 0..k + 1 |-> IF i \in 0..k THEN s[i] ELSE s[k] + v[i]]
  <2>2. ASSUME NEW i \in 0..k + 1 PROVE a[i] = IF i = 0 THEN 0 ELSE a[i - 1] + v[i]
    <3>1. CASE i = 0
      BY <2>1, <3>1 DEF IsSum
    <3>2. CASE i \in 1..k
      BY <2>1, <3>2 DEF IsSum
    <3>3. CASE i = k + 1
      BY <3>3
    <3> QED BY <3>1, <3>2, <3>3
  <2>3. a = [i \in 0..k + 1 |-> IF i = 0 THEN 0 ELSE a[i - 1] + v[i]]
    BY <2>2
  <2> HIDE DEF a
  <2>4. IsSum(a, v, k + 1)
    BY <2>3 DEF IsSum
  <2> QED BY <2>4
<1> HIDE DEF T
<1>3. n \in T
  BY <1>1, <1>2, SetInduction
<1>4. \E s : IsSum(s, v, n)
  BY <1>3 DEF T
<1>5. IsSum(CHOOSE s : IsSum(s, v, n), v, n)
  BY <1>4
<1>6. SumOf(v) = (CHOOSE s : IsSum(s, v, n))[n]
  BY DEF SumOf, IsSum
<1> QED BY <1>5, <1>6

(* Its values one by one.                                                    *)
LEMMA SumStep ==
  ASSUME NEW v, NEW n \in Nat, NEW s, IsSum(s, v, n)
  PROVE  s[0] = 0 /\ \A i \in Nat : i + 1 \in 0..n => s[i + 1] = s[i] + v[i + 1]
<1>1. \A i \in 0..n : s[i] = IF i = 0 THEN 0 ELSE s[i - 1] + v[i]
  BY DEF IsSum
<1>2. ASSUME NEW i \in Nat, i + 1 \in 0..n PROVE s[i + 1] = s[i] + v[i + 1]
  <2>1. i + 1 # 0 /\ (i + 1) - 1 = i
    OBVIOUS
  <2> QED BY <1>1, <1>2, <2>1
<1>3. 0 \in 0..n
  OBVIOUS
<1> QED BY <1>1, <1>2, <1>3

(* A sum of integers is one; when the numbers differ only at k, the sums      *)
(* differ as the numbers at k do.                                            *)
LEMMA SumDiffers ==
  ASSUME NEW n \in Nat, NEW v \in [1..n -> Int], NEW w \in [1..n -> Int],
         NEW k \in 1..n, \A i \in 1..n : i # k => v[i] = w[i]
  PROVE  /\ SumOf(v) \in Int
         /\ SumOf(w) = SumOf(v) + (w[k] - v[k])
<1>1. Len(v) = n /\ Len(w) = n
  OBVIOUS
<1>2. PICK s : IsSum(s, v, n) /\ SumOf(v) = s[n]
  BY <1>1, SumUnfolded
<1>3. PICK t : IsSum(t, w, n) /\ SumOf(w) = t[n]
  BY <1>1, SumUnfolded
<1> DEFINE T == {i \in Nat : i \in 0..n => /\ s[i] \in Int /\ t[i] \in Int
                                         /\ t[i] = s[i] + IF i < k THEN 0 ELSE w[k] - v[k]}
<1>4. 0 \in T
  <2>1. s[0] = 0 /\ t[0] = 0 /\ 0 < k
    BY <1>2, <1>3, SumStep
  <2> QED BY <2>1
<1>5. ASSUME NEW i \in Nat, i \in T PROVE i + 1 \in T
  <2> SUFFICES ASSUME i + 1 \in 0..n
               PROVE  /\ s[i + 1] \in Int /\ t[i + 1] \in Int
                      /\ t[i + 1] = s[i + 1] + IF i + 1 < k THEN 0 ELSE w[k] - v[k]
    OBVIOUS
  <2>1. i \in 0..n /\ i + 1 \in 1..n /\ v[i + 1] \in Int /\ w[i + 1] \in Int
    OBVIOUS
  <2>2. s[i + 1] = s[i] + v[i + 1] /\ t[i + 1] = t[i] + w[i + 1]
    BY <1>2, <1>3, SumStep
  <2>3. /\ s[i] \in Int /\ t[i] \in Int
        /\ t[i] = s[i] + IF i < k THEN 0 ELSE w[k] - v[k]
    BY <1>5, <2>1
  <2>4. v[k] \in Int /\ w[k] \in Int /\ (i + 1 # k => v[i + 1] = w[i + 1])
    BY <2>1
  <2>5. CASE i + 1 < k
    <3>1. i < k /\ v[i + 1] = w[i + 1]
      BY <2>4, <2>5
    <3> QED BY <2>1, <2>2, <2>3, <2>5, <3>1
  <2>6. CASE i + 1 = k
    <3>1. i < k /\ ~(i + 1 < k)
      BY <2>6
    <3>2. t[i] = s[i]
      BY <2>3, <3>1
    <3>3. s[i + 1] = s[i] + v[k] /\ t[i + 1] = s[i] + w[k]
      BY <2>2, <2>6, <3>2
    <3>4. s[i] \in Int
      BY <2>3
    <3> HIDE DEF T
    <3> QED BY <2>4, <3>1, <3>3, <3>4
  <2>7. CASE i + 1 > k
    <3>1. ~(i < k) /\ ~(i + 1 < k) /\ v[i + 1] = w[i + 1]
      BY <2>4, <2>7
    <3> QED BY <2>1, <2>2, <2>3, <2>4, <3>1
  <2> QED BY <2>5, <2>6, <2>7
<1> HIDE DEF T
<1>6. n \in T
  BY <1>4, <1>5, SetInduction
<1>7. n \in 0..n /\ ~(n < k)
  OBVIOUS
<1>8. s[n] \in Int /\ t[n] = s[n] + (w[k] - v[k])
  BY <1>6, <1>7 DEF T
<1> QED BY <1>2, <1>3, <1>8

(* A sum of zeroes.                                                          *)
LEMMA SumOfZeroes ==
  ASSUME NEW n \in Nat, NEW v \in [1..n -> Int], \A i \in 1..n : v[i] = 0
  PROVE  SumOf(v) = 0
<1>1. Len(v) = n
  OBVIOUS
<1>2. PICK s : IsSum(s, v, n) /\ SumOf(v) = s[n]
  BY <1>1, SumUnfolded
<1> DEFINE T == {i \in Nat : i \in 0..n => s[i] = 0}
<1>3. 0 \in T
  BY <1>2, SumStep
<1>4. ASSUME NEW i \in Nat, i \in T PROVE i + 1 \in T
  <2> SUFFICES ASSUME i + 1 \in 0..n PROVE s[i + 1] = 0
    OBVIOUS
  <2>1. s[i + 1] = s[i] + v[i + 1]
    BY <1>2, SumStep
  <2>2. i \in 0..n /\ i + 1 \in 1..n
    OBVIOUS
  <2> QED BY <1>4, <2>1, <2>2
<1> HIDE DEF T
<1>5. n \in T
  BY <1>3, <1>4, SetInduction
<1> QED BY <1>2, <1>5 DEF T

(* A sum of natural numbers grows as it goes.                                *)
LEMMA SumGrows ==
  ASSUME NEW n \in Nat, NEW v \in [1..n -> Nat], NEW s, IsSum(s, v, n)
  PROVE  \A i \in 0..n : s[i] \in Nat /\ s[i] <= s[n]
<1> DEFINE T == {k \in Nat : k <= n => \A i \in 0..k : s[i] \in Nat /\ s[i] <= s[k]}
<1>1. s[0] = 0 /\ \A i \in Nat : i + 1 \in 0..n => s[i + 1] = s[i] + v[i + 1]
  BY SumStep
<1>2. 0 \in T
  BY <1>1
<1>3. ASSUME NEW k \in Nat, k \in T PROVE k + 1 \in T
  <2> SUFFICES ASSUME k + 1 <= n
               PROVE  \A i \in 0..k + 1 : s[i] \in Nat /\ s[i] <= s[k + 1]
    OBVIOUS
  <2>1. \A i \in 0..k : s[i] \in Nat /\ s[i] <= s[k]
    BY <1>3
  <2>2. k + 1 \in 1..n /\ v[k + 1] \in Nat
    OBVIOUS
  <2>3. s[k + 1] = s[k] + v[k + 1] /\ s[k] \in Nat
    BY <1>1, <2>1, <2>2
  <2>4. s[k + 1] \in Nat /\ s[k] <= s[k + 1]
    BY <2>2, <2>3
  <2>5. ASSUME NEW i \in 0..k + 1 PROVE s[i] \in Nat /\ s[i] <= s[k + 1]
    <3>1. CASE i = k + 1
      BY <2>4, <3>1
    <3>2. CASE i # k + 1
      <4>1. i \in 0..k
        BY <3>2
      <4> QED BY <2>1, <2>3, <2>4, <4>1
    <3> QED BY <3>1, <3>2
  <2> QED BY <2>5
<1> HIDE DEF T
<1>4. n \in T
  BY <1>2, <1>3, SetInduction
<1> QED BY <1>4 DEF T

(* SetToSeq lists the simple pointers, each once.                            *)
LEMMA AllOnce ==
  ASSUME NEW all, all = SetToSeq(SimpleDev)
  PROVE  \E n \in Nat : /\ Len(all) = n /\ all \in [1..n -> SimpleDev]
                        /\ \A i, j \in 1..n : all[i] = all[j] => i = j
                        /\ \A d \in SimpleDev : \E i \in 1..n : all[i] = d
<1> DEFINE n == Cardinality(SimpleDev)
           P(f) == f \in [1..n -> SimpleDev] /\ IsInjective(f)
<1>1. IsFiniteSet(SimpleDev)
  BY DevAssumption, FS_Subset
<1>2. n \in Nat /\ ExistsBijection(1..n, SimpleDev)
  BY <1>1, FS_CardinalityType
<1>3. PICK f : f \in Bijection(1..n, SimpleDev)
  BY <1>2 DEF ExistsBijection
<1>4. P(f)
  BY <1>3 DEF Bijection, Injection, IsInjective
<1>5. all = CHOOSE g \in [1..n -> SimpleDev] : IsInjective(g)
  BY DEF SetToSeq
<1>6. P(all)
  BY <1>4, <1>5
<1>7. all \in Injection(1..n, SimpleDev)
  BY <1>6 DEF Injection, IsInjective
<1>8. Cardinality(1..n) = n
  BY <1>2, FS_Interval
<1>9. all \in Surjection(1..n, SimpleDev)
  BY <1>1, <1>7, <1>8, FS_Injection
<1>10. \A d \in SimpleDev : \E i \in 1..n : all[i] = d
  BY <1>9 DEF Surjection
<1>11. \A i, j \in 1..n : all[i] = all[j] => i = j
  BY <1>6 DEF IsInjective
<1> HIDE DEF n
<1>12. Len(all) = n
  BY <1>2, <1>6
<1> QED BY <1>2, <1>6, <1>10, <1>11, <1>12

(* The sum over the simple pointers of what g gives each.                    *)
Total(g) == LET all == SetToSeq(SimpleDev) IN SumOf([i \in 1..Len(all) |-> g[all[i]]])

LEMMA TotalDiffers ==
  ASSUME NEW g \in [SimpleDev -> Int], NEW h \in [SimpleDev -> Int],
         NEW d \in SimpleDev, \A e \in SimpleDev : e # d => g[e] = h[e]
  PROVE  Total(g) \in Int /\ Total(h) = Total(g) + (h[d] - g[d])
<1> DEFINE all == SetToSeq(SimpleDev)
<1>1. PICK n \in Nat : /\ Len(all) = n /\ all \in [1..n -> SimpleDev]
                       /\ \A i, j \in 1..n : all[i] = all[j] => i = j
                       /\ \A e \in SimpleDev : \E i \in 1..n : all[i] = e
  BY AllOnce
<1> DEFINE v == [i \in 1..n |-> g[all[i]]]
           w == [i \in 1..n |-> h[all[i]]]
<1>2. Total(g) = SumOf(v) /\ Total(h) = SumOf(w)
  BY <1>1 DEF Total
<1> HIDE DEF all
<1>3. PICK k \in 1..n : all[k] = d
  BY <1>1
<1>4. v \in [1..n -> Int] /\ w \in [1..n -> Int]
  BY <1>1
<1>5. \A i \in 1..n : i # k => v[i] = w[i]
  BY <1>1, <1>3
<1>6. v[k] = g[d] /\ w[k] = h[d]
  BY <1>3
<1> HIDE DEF v, w
<1>7. SumOf(v) \in Int /\ SumOf(w) = SumOf(v) + (w[k] - v[k])
  BY <1>4, <1>5, SumDiffers
<1> QED BY <1>2, <1>6, <1>7

(* What is zero of each is zero in all.                                      *)
LEMMA TotalOfZeroes ==
  ASSUME NEW g \in [SimpleDev -> Int], \A d \in SimpleDev : g[d] = 0
  PROVE  Total(g) = 0
<1> DEFINE all == SetToSeq(SimpleDev)
<1>1. PICK n \in Nat : Len(all) = n /\ all \in [1..n -> SimpleDev]
  BY AllOnce
<1> DEFINE v == [i \in 1..n |-> g[all[i]]]
<1>2. Total(g) = SumOf(v)
  BY <1>1 DEF Total
<1> HIDE DEF all
<1>3. v \in [1..n -> Int] /\ \A i \in 1..n : v[i] = 0
  BY <1>1
<1> HIDE DEF v
<1> QED BY <1>2, <1>3, SumOfZeroes

-----------------------------------------------------------------------------
(* The loop over the list                                                    *)

(* What the loop holds after i devices, from what it held before: m.         *)
LoopAt(read, m, i) ==
  IF i = 0 THEN [state |-> Still, buttons |-> {}]
  ELSE IF list[i] \notin read THEN m[i - 1]
  ELSE IF kind = "Simple" THEN MergeSimple(m[i - 1], list[i])
                          ELSE MergeAbsolute(m[i - 1], list[i])

IsLoop(m, read, n) == m = [i \in 0..n |-> LoopAt(read, m, i)]

LEMMA MergedUnfolded ==
  ASSUME NEW read, Len(list) \in Nat
  PROVE  \E m : IsLoop(m, read, Len(list)) /\ Merged(read) = m[Len(list)]
<1> DEFINE T == {k \in Nat : \E m : IsLoop(m, read, k)}
           n == Len(list)
<1>1. 0 \in T
  <2> DEFINE m == [i \in 0..0 |-> [state |-> Still, buttons |-> {}]]
  <2>1. m = [i \in 0..0 |-> LoopAt(read, m, i)]
    <3>1. \A i \in 0..0 : m[i] = LoopAt(read, m, i)
      BY DEF LoopAt
    <3> QED BY <3>1
  <2> HIDE DEF m
  <2>2. IsLoop(m, read, 0)
    BY <2>1 DEF IsLoop
  <2> QED BY <2>2
<1>2. ASSUME NEW k \in Nat, k \in T PROVE k + 1 \in T
  <2>1. PICK m : IsLoop(m, read, k)
    BY <1>2
  <2>2. m = [i \in 0..k |-> LoopAt(read, m, i)]
    BY <2>1 DEF IsLoop
  <2> DEFINE a == [i \in 0..k + 1 |-> IF i \in 0..k THEN m[i] ELSE LoopAt(read, m, i)]
  <2>3. ASSUME NEW i \in 0..k + 1 PROVE a[i] = LoopAt(read, a, i)
    <3>1. a[i] = LoopAt(read, m, i)
      BY <2>2
    <3>2. i # 0 => i - 1 \in 0..k /\ a[i - 1] = m[i - 1]
      OBVIOUS
    <3> HIDE DEF a
    <3> QED BY <3>1, <3>2 DEF LoopAt
  <2>4. a = [i \in 0..k + 1 |-> LoopAt(read, a, i)]
    BY <2>3
  <2> HIDE DEF a
  <2>5. IsLoop(a, read, k + 1)
    BY <2>4 DEF IsLoop
  <2> QED BY <2>5
<1> HIDE DEF T
<1>3. n \in T
  BY <1>1, <1>2, SetInduction
<1>4. \E m : IsLoop(m, read, n)
  BY <1>3 DEF T
<1>5. IsLoop(CHOOSE m : IsLoop(m, read, n), read, n)
  BY <1>4
<1>6. Merged(read) = (CHOOSE m : IsLoop(m, read, n))[n]
  BY DEF Merged, IsLoop, LoopAt
<1> QED BY <1>5, <1>6

(* Its values one by one.                                                    *)
LEMMA LoopStep ==
  ASSUME NEW n \in Nat, NEW read, NEW m, IsLoop(m, read, n)
  PROVE  /\ m[0] = [state |-> Still, buttons |-> {}]
         /\ \A i \in Nat : i + 1 \in 0..n =>
              m[i + 1] = IF list[i + 1] \notin read THEN m[i]
                         ELSE IF kind = "Simple" THEN MergeSimple(m[i], list[i + 1])
                                                 ELSE MergeAbsolute(m[i], list[i + 1])
<1>1. \A i \in 0..n : m[i] = LoopAt(read, m, i)
  BY DEF IsLoop
<1>2. ASSUME NEW i \in Nat, i + 1 \in 0..n PROVE m[i + 1] = LoopAt(read, m, i + 1)
  BY <1>1, <1>2
<1>3. ASSUME NEW i \in Nat PROVE i + 1 # 0 /\ (i + 1) - 1 = i
  OBVIOUS
<1>4. 0 \in 0..n
  OBVIOUS
<1> QED BY <1>1, <1>2, <1>3, <1>4 DEF LoopAt

-----------------------------------------------------------------------------
(* Motions and positions are whole numbers                                   *)

LEMMA QuotientInt ==
  ASSUME NEW a \in Int, NEW b \in Nat \ {0}
  PROVE  Quotient(a, b) \in Int
BY DEF Quotient

(* What an INT32 holds of a number, and of one that fits.                    *)
LEMMA SignedInt ==
  ASSUME NEW n \in Int
  PROVE  Signed32(n) \in Int
<1> DEFINE h == Half
<1>1. h \in Nat \ {0}
  BY ScaleAssumption
<1> HIDE DEF h
<1>2. ((n + h) % (2 * h)) - h \in Int
  BY <1>1
<1> QED BY <1>2 DEF Signed32, h

LEMMA SignedFits ==
  ASSUME NEW n \in Int, Magnitude(n) < Half
  PROVE  Signed32(n) = n
<1> DEFINE h == Half
<1>1. h \in Nat \ {0} /\ -h < n /\ n < h
  BY ScaleAssumption DEF Magnitude
<1> HIDE DEF h
<1>2. (n + h) % (2 * h) = n + h
  <2> DEFINE a == n + h
             b == 2 * h
  <2>1. a \in Nat /\ b \in Nat /\ a < b
    BY <1>1
  <2> HIDE DEF a, b
  <2>2. a % b = a
    BY <2>1
  <2> QED BY <2>2 DEF a, b
<1>3. ((n + h) % (2 * h)) - h = n
  BY <1>1, <1>2
<1> QED BY <1>3 DEF Signed32, h

LEMMA ProductInt ==
  ASSUME NEW d \in SimpleDev, NEW x \in Axes, NEW at \in [Axes -> Int]
  PROVE  Resolution[d][x] \in Nat /\ at[x] * VirtualSide \in Int
<1>1. VirtualSide \in Int /\ at[x] \in Int
  BY ScaleAssumption
<1>2. Resolution[d][x] \in Nat
  BY ScaleAssumption
<1> QED BY <1>1, <1>2

(* The motion of a device in the virtual pointer's units, as the code has it *)
(* and as it is.                                                             *)
LEMMA ScaledInt ==
  ASSUME NEW d \in SimpleDev, NEW at \in [Axes -> Int]
  PROVE  Scaled(d, at) \in [Axes -> Int]
<1> SUFFICES ASSUME NEW x \in Axes PROVE Scaled(d, at)[x] \in Int
  BY DEF Scaled
<1>1. Resolution[d][x] \in Nat /\ Signed32(at[x] * VirtualSide) \in Int
  BY ProductInt, SignedInt
<1> QED BY <1>1, QuotientInt DEF Scaled

LEMMA InVirtualInt ==
  ASSUME NEW d \in SimpleDev, NEW at \in [Axes -> Int]
  PROVE  InVirtual(d, at) \in [Axes -> Int]
<1> SUFFICES ASSUME NEW x \in Axes PROVE InVirtual(d, at)[x] \in Int
  BY DEF InVirtual
<1>1. Resolution[d][x] \in Nat /\ at[x] * VirtualSide \in Int
  BY ProductInt
<1> QED BY <1>1, QuotientInt DEF InVirtual

(* They are the same for a motion that fits.                                 *)
LEMMA ScaledFits ==
  ASSUME NEW d \in SimpleDev, NEW at \in [Axes -> Int], NEW x \in Axes,
         Magnitude(at[x] * VirtualSide) < Half
  PROVE  Scaled(d, at)[x] = InVirtual(d, at)[x]
<1>1. Signed32(at[x] * VirtualSide) = at[x] * VirtualSide
  BY ProductInt, SignedFits
<1> QED BY <1>1 DEF Scaled, InVirtual

(* A UINT64 is a number, and never more than what it holds the low bits of.  *)
LEMMA UnsignedFits ==
  ASSUME NEW n \in Int
  PROVE  Unsigned64(n) \in Nat /\ (n \in Nat => Unsigned64(n) <= n)
<1> DEFINE w == 4 * Half * Half
<1>1. w \in Nat \ {0}
  <2>1. Half \in Nat \ {0}
    BY ScaleAssumption
  <2>2. Half * Half \in Nat /\ Half * Half > 0
    BY <2>1
  <2>3. w = 4 * (Half * Half)
    BY <2>1
  <2> QED BY <2>2, <2>3
<1>2. Unsigned64(n) = n % w
  BY DEF Unsigned64
<1> HIDE DEF w
<1>3. n % w \in Nat /\ (n \in Nat => n % w <= n)
  BY <1>1
<1> QED BY <1>2, <1>3

(* The position of a device in the virtual pointer's units, on an axis that  *)
(* it has.                                                                   *)
LEMMA RescaledInt ==
  ASSUME NEW d \in AbsoluteDev, NEW x \in Axes, Side[d][x] # <<0, 0>>, device[d].at[x] \in Int
  PROVE  Rescaled(d, x) \in Int
<1>1. /\ Side[d][x] \in Nat \X Nat /\ Side[d][x][1] < Side[d][x][2]
      /\ VirtualSide \in Nat
  BY ScaleAssumption
<1>2. /\ Unsigned64(device[d].at[x] * VirtualSide) \in Int
      /\ Side[d][x][2] - Side[d][x][1] \in Nat \ {0}
  <2>1. device[d].at[x] * VirtualSide \in Int
    BY <1>1
  <2> QED BY <1>1, <2>1, UnsignedFits
<1> DEFINE p == Unsigned64(device[d].at[x] * VirtualSide)
           q == Side[d][x][2] - Side[d][x][1]
<1>3. Rescaled(d, x) = p \div q
  BY DEF Rescaled
<1> HIDE DEF p, q
<1>4. p \div q \in Int
  BY <1>2 DEF p, q
<1> QED BY <1>3, <1>4

(* What the variables hold.                                                  *)
Report  == [news : BOOLEAN, buttons : SUBSET Buttons, at : [Axes -> Int]]
Numbers ==
  /\ device \in [Dev -> Report]
  /\ moved \in [SimpleDev -> [Axes -> Int]]
  /\ told \in [Axes -> Int] /\ dropped \in [Axes -> Int] /\ ret \in [Axes -> Int]

LEMMA StillInt == Still \in [Axes -> Int]
BY DEF Still

(* So does the loop of GetState, at every device.                            *)
LEMMA LoopInt ==
  ASSUME TypeOK, Numbers, NEW read, NEW m, IsLoop(m, read, Len(list))
  PROVE  \A i \in 0..Len(list) : m[i].state \in [Axes -> Int]
<1> DEFINE T == {i \in Nat : i \in 0..Len(list) => m[i].state \in [Axes -> Int]}
<1>1. Len(list) \in Nat /\ \A i \in 1..Len(list) : list[i] \in Dev
  BY DEF TypeOK
<1>2. 0 \in T
  <2>1. m[0] = [state |-> Still, buttons |-> {}]
    BY <1>1, LoopStep
  <2> QED BY <2>1, StillInt
<1>3. ASSUME NEW i \in Nat, i \in T PROVE i + 1 \in T
  <2> SUFFICES ASSUME i + 1 \in 0..Len(list) PROVE m[i + 1].state \in [Axes -> Int]
    OBVIOUS
  <2>1. i \in 0..Len(list) /\ i + 1 \in 1..Len(list) /\ list[i + 1] \in Dev
    BY <1>1
  <2>2. m[i].state \in [Axes -> Int]
    BY <1>3, <2>1
  <2>3. m[i + 1] = IF list[i + 1] \notin read THEN m[i]
                   ELSE IF kind = "Simple" THEN MergeSimple(m[i], list[i + 1])
                                           ELSE MergeAbsolute(m[i], list[i + 1])
    BY <1>1, LoopStep
  <2>4. device[list[i + 1]].at \in [Axes -> Int]
    BY <2>1 DEF Numbers, Report
  <2>5. CASE m[i + 1] = m[i]
    BY <2>2, <2>5
  <2>6. CASE kind = "Simple" /\ m[i + 1] = MergeSimple(m[i], list[i + 1])
    <3>1. Scaled(list[i + 1], device[list[i + 1]].at) \in [Axes -> Int]
      BY <2>1, <2>4, <2>6, ScaledInt DEF Dev
    <3>2. ASSUME NEW x \in Axes
          PROVE  Signed32(m[i].state[x] + Scaled(list[i + 1], device[list[i + 1]].at)[x]) \in Int
      <4>1. m[i].state[x] + Scaled(list[i + 1], device[list[i + 1]].at)[x] \in Int
        BY <2>2, <3>1
      <4> QED BY <4>1, SignedInt
    <3> QED BY <2>6, <3>2 DEF MergeSimple
  <2>7. CASE kind # "Simple" /\ m[i + 1] = MergeAbsolute(m[i], list[i + 1])
    <3>1. ASSUME NEW x \in Axes, Side[list[i + 1]][x] # <<0, 0>>
          PROVE  Rescaled(list[i + 1], x) \in Int
      BY <2>1, <2>4, <2>7, <3>1, RescaledInt DEF Dev
    <3> QED BY <2>2, <2>7, <3>1 DEF MergeAbsolute
  <2> QED BY <2>3, <2>5, <2>6, <2>7
<1> HIDE DEF T
<1>4. \A i \in Nat : i \in T
  BY <1>2, <1>3, SetInduction
<1>5. ASSUME NEW i \in 0..Len(list) PROVE m[i].state \in [Axes -> Int]
  <2>1. i \in Nat
    BY <1>1
  <2> QED BY <1>4, <2>1 DEF T
<1> QED BY <1>5

(* After a call, the devices whose state was returned or dropped are at rest. *)
LEMMA EmptiedNumbers ==
  ASSUME Numbers, NEW D
  PROVE  /\ Emptied(D) \in [Dev -> Report]
         /\ \A d \in Dev : Emptied(D)[d].at = IF d \in D /\ kind = "Simple" THEN Still ELSE device[d].at
<1> SUFFICES ASSUME NEW d \in Dev
             PROVE  /\ Emptied(D)[d] \in Report
                    /\ Emptied(D)[d].at = IF d \in D /\ kind = "Simple" THEN Still ELSE device[d].at
  BY DEF Emptied
<1>1. device[d] \in Report
  BY DEF Numbers
<1>2. CASE d \notin D
  BY <1>1, <1>2 DEF Emptied
<1>3. CASE d \in D
  <2> DEFINE r == [device[d] EXCEPT !.news = FALSE, !.at = IF kind = "Simple" THEN Still ELSE @]
  <2>1. Emptied(D)[d] = r
    BY <1>3 DEF Emptied
  <2>2. r \in Report /\ r.at = IF kind = "Simple" THEN Still ELSE device[d].at
    BY <1>1, StillInt DEF Report
  <2> QED BY <1>3, <2>1, <2>2
<1> QED BY <1>2, <1>3

LEMMA GetStateNumbers ==
  ASSUME TypeOK, Numbers, NEW F, GetState(F)
  PROVE  Numbers'
<1> DEFINE read  == {d \in Elems(list) \ F : device[d].news}
           state == Merged(read).state
           fails == Elems(list) \cap F # {}
<1>1. /\ device' = Emptied(read) /\ ret' = state /\ moved' = moved /\ kind' = kind
      /\ told' = IF kind = "Simple" /\ ~fails THEN Plus(told, state) ELSE told
      /\ dropped' = IF kind = "Simple" /\ fails THEN Plus(dropped, state) ELSE dropped
  BY DEF GetState, listVars
<1> HIDE DEF read, fails
<1>2. Len(list) \in Nat
  BY DEF TypeOK
<1>3. PICK m : IsLoop(m, read, Len(list)) /\ Merged(read) = m[Len(list)]
  BY <1>2, MergedUnfolded
<1>4. state \in [Axes -> Int]
  <2>1. Len(list) \in 0..Len(list)
    BY <1>2
  <2> QED BY <1>3, <2>1, LoopInt
<1> HIDE DEF state
<1>5. Emptied(read) \in [Dev -> Report]
  BY EmptiedNumbers
<1>6. told' \in [Axes -> Int] /\ dropped' \in [Axes -> Int]
  BY <1>1, <1>4 DEF Plus, Numbers
<1>7. Dev' = Dev
  BY <1>1 DEF Dev
<1> QED BY <1>1, <1>4, <1>5, <1>6, <1>7 DEF Numbers

LEMMA ResetNumbers ==
  ASSUME TypeOK, Numbers, NEW F, Reset(F)
  PROVE  Numbers'
<1> DEFINE done == Elems(list) \ F
<1>1. /\ device' = Emptied(done) /\ UNCHANGED <<kind, told, dropped, exact, ret>>
      /\ moved' = [d \in SimpleDev |-> IF d \notin done THEN moved[d]
                                       ELSE [x \in Axes |-> moved[d][x] - device[d].at[x]]]
  BY DEF Reset, listVars, readVars
<1>2. Emptied(done) \in [Dev -> Report]
  BY EmptiedNumbers
<1>3. Dev' = Dev
  BY <1>1 DEF Dev
<1>4. moved' \in [SimpleDev -> [Axes -> Int]]
  <2> SUFFICES ASSUME NEW d \in SimpleDev PROVE moved'[d] \in [Axes -> Int]
    BY <1>1
  <2>1. moved[d] \in [Axes -> Int]
    BY DEF Numbers
  <2>2. CASE d \in done
    <3>1. d \in Dev
      BY <2>2 DEF TypeOK, Elems
    <3>2. device[d].at \in [Axes -> Int]
      BY <3>1 DEF Numbers, Report
    <3> QED BY <1>1, <2>1, <2>2, <3>2
  <2>3. CASE d \notin done
    BY <1>1, <2>1, <2>3
  <2> QED BY <2>2, <2>3
<1> QED BY <1>1, <1>2, <1>3, <1>4 DEF Numbers

LEMMA NextKeepsNumbers == TypeOK /\ Numbers /\ [Next]_vars => Numbers'
<1> SUFFICES ASSUME TypeOK, Numbers, [Next]_vars PROVE Numbers'
  OBVIOUS
<1>1. ASSUME UNCHANGED <<kind, device, moved, told, dropped, exact, ret>> PROVE Numbers'
  BY <1>1 DEF Numbers, Dev
<1>2. CASE Poll
  <2>1. UNCHANGED <<kind, device, moved, told, dropped, exact, ret>>
    BY <1>2 DEF Poll, WaitForInput, listVars, deviceVars, readVars
  <2> QED BY <1>1, <2>1
<1>3. CASE Read
  BY <1>3, GetStateNumbers DEF Read
<1>4. CASE Others
  BY <1>4, GetStateNumbers, ResetNumbers DEF Others
<1>5. ASSUME NEW d \in Dev, Start(d) \/ Stop(d) PROVE Numbers'
  <2>1. UNCHANGED <<kind, device, moved, told, dropped, exact, ret>>
    BY <1>5 DEF Start, Stop, listVars, deviceVars, readVars
  <2> QED BY <1>1, <2>1
<1>6. ASSUME NEW d \in Dev, NEW b \in Buttons, Press(d, b) PROVE Numbers'
  <2>1. /\ device' = [device EXCEPT ![d].news = TRUE, ![d].buttons = SymDiff(@, {b})]
        /\ UNCHANGED <<kind, moved, told, dropped, exact, ret>>
    BY <1>6 DEF Press, listVars, readVars
  <2>2. device' \in [Dev -> Report]
    BY <2>1 DEF Numbers, Report, SymDiff
  <2> QED BY <2>1, <2>2 DEF Numbers, Dev
<1>7. ASSUME NEW d \in SimpleDev, NEW x \in Axes, NEW step \in {-1, 1}, Move(d, x, step)
      PROVE Numbers'
  <2>1. /\ device' = [device EXCEPT ![d].news = TRUE, ![d].at[x] = @ + step]
        /\ moved' = [moved EXCEPT ![d][x] = @ + step]
        /\ UNCHANGED <<kind, told, dropped, exact, ret>>
    BY <1>7 DEF Move, listVars, readVars
  <2>2. device' \in [Dev -> Report]
    <3>1. DOMAIN device = Dev /\ \A e \in Dev : device[e] \in Report
      BY DEF Numbers
    <3>2. step \in Int
      OBVIOUS
    <3>3. ASSUME NEW r \in Report
          PROVE  [r EXCEPT !.news = TRUE, !.at[x] = @ + step] \in Report
      <4>1. r.at \in [Axes -> Int] /\ r.at[x] + step \in Int
        BY <3>2 DEF Report
      <4>2. [r.at EXCEPT ![x] = @ + step] \in [Axes -> Int]
        BY <4>1
      <4> QED BY <4>2 DEF Report
    <3> QED BY <2>1, <3>1, <3>3
  <2>3. moved' \in [SimpleDev -> [Axes -> Int]]
    <3>1. step \in Int
      OBVIOUS
    <3> QED BY <2>1, <3>1 DEF Numbers
  <2> QED BY <2>1, <2>2, <2>3 DEF Numbers, Dev
<1>8. ASSUME NEW d \in AbsoluteDev, NEW x \in Axes, NEW place \in 0..VirtualSide, Point(d, x, place)
      PROVE Numbers'
  <2>1. /\ device' = [device EXCEPT ![d].news = TRUE, ![d].at[x] = place]
        /\ UNCHANGED <<kind, moved, told, dropped, exact, ret>>
    BY <1>8 DEF Point, listVars, readVars
  <2>2. device' \in [Dev -> Report]
    <3>1. DOMAIN device = Dev /\ \A e \in Dev : device[e] \in Report
      BY DEF Numbers
    <3>2. place \in Int
      BY ScaleAssumption
    <3>3. ASSUME NEW r \in Report
          PROVE  [r EXCEPT !.news = TRUE, !.at[x] = place] \in Report
      BY <3>2 DEF Report
    <3> QED BY <2>1, <3>1, <3>3
  <2> QED BY <2>1, <2>2 DEF Numbers, Dev
<1>9. CASE UNCHANGED vars
  <2>1. UNCHANGED <<kind, device, moved, told, dropped, exact, ret>>
    BY <1>9 DEF vars, listVars, deviceVars, readVars
  <2> QED BY <1>1, <2>1
<1> QED BY <1>2, <1>3, <1>4, <1>5, <1>6, <1>7, <1>8, <1>9 DEF Next

LEMMA InitNumbers == Init => Numbers
<1> SUFFICES ASSUME Init PROVE Numbers
  OBVIOUS
<1>1. \A d \in AbsoluteDev, x \in Axes : Side[d][x][1] \in Int
  <2> SUFFICES ASSUME NEW d \in AbsoluteDev, NEW x \in Axes PROVE Side[d][x][1] \in Int
    OBVIOUS
  <2>1. Side[d][x] \in Nat \X Nat
    BY ScaleAssumption
  <2> QED BY <2>1
<1>2. device = [d \in Dev |-> [news |-> FALSE, buttons |-> {},
       at |-> IF kind = "Simple" THEN Still ELSE [x \in Axes |-> Side[d][x][1]]]]
  BY DEF Init
<1>3. device \in [Dev -> Report]
  <2> SUFFICES ASSUME NEW d \in Dev PROVE device[d] \in Report
    BY <1>2
  <2>1. CASE kind = "Simple"
    BY <1>2, <2>1, StillInt DEF Report
  <2>2. CASE kind # "Simple"
    <3>1. [x \in Axes |-> Side[d][x][1]] \in [Axes -> Int]
      BY <1>1, <2>2 DEF Dev
    <3> QED BY <1>2, <2>2, <3>1 DEF Report
  <2> QED BY <2>1, <2>2
<1> QED BY <1>3, StillInt DEF Init, Numbers

(* They always do.                                                           *)
LEMMA NumbersAlways == Spec => []Numbers
<1>1. Spec => []TypeOK
  BY PointerTypes
<1>2. QED BY <1>1, InitNumbers, NextKeepsNumbers, PTL DEF Spec

-----------------------------------------------------------------------------
(* The motion of the simple pointers                                         *)

(* The resolution of every simple pointer divides the virtual one.           *)
ResolutionsDivide ==
  \A d \in SimpleDev, x \in Axes :
    Resolution[d][x] # 0 => \E k \in Nat : VirtualSide = k * Resolution[d][x]

(* Then scaling loses nothing: it multiplies.                                *)
LEMMA InVirtualTimes ==
  ASSUME ResolutionsDivide, NEW d \in SimpleDev, NEW x \in Axes
  PROVE  \E k \in Nat : \A at \in [Axes -> Int] : InVirtual(d, at)[x] = at[x] * k
<1> DEFINE r == Resolution[d][x]
<1>1. r \in Nat
  BY ScaleAssumption
<1>2. CASE r = 0
  <2>1. \A at \in [Axes -> Int] : InVirtual(d, at)[x] = at[x] * 0
    BY <1>2 DEF InVirtual
  <2> QED BY <2>1
<1>3. CASE r # 0
  <2>1. PICK k \in Nat : VirtualSide = k * r
    BY <1>3 DEF ResolutionsDivide
  <2>2. ASSUME NEW at \in [Axes -> Int] PROVE InVirtual(d, at)[x] = at[x] * k
    <3> DEFINE a == at[x]
               n == a * k
    <3>1. a \in Int /\ n \in Int /\ r \in Nat \ {0}
      BY <1>1, <1>3
    <3>2. InVirtual(d, at)[x] = Quotient(a * VirtualSide, r)
      BY <1>3 DEF InVirtual
    <3> HIDE DEF a, r
    <3>3. a * VirtualSide = n * r /\ -(n * r) = (-n) * r
      BY <2>1, <3>1
    <3> HIDE DEF n
    <3>4. (n * r) \div r = n /\ ((-n) * r) \div r = -n
      BY <3>1
    <3>5. Quotient(n * r, r) = n
      BY <3>1, <3>3, <3>4 DEF Quotient
    <3> QED BY <3>2, <3>3, <3>5 DEF n, a
  <2> QED BY <2>2
<1> QED BY <1>2, <1>3

(* No motion is none in any units.                                           *)
LEMMA InVirtualStill ==
  ASSUME NEW d \in SimpleDev, NEW x \in Axes
  PROVE  InVirtual(d, Still)[x] = 0
<1>1. Resolution[d][x] \in Nat /\ VirtualSide \in Nat
  BY ScaleAssumption
<1>2. Still[x] * VirtualSide = 0
  BY <1>1 DEF Still
<1> QED BY <1>1, <1>2 DEF InVirtual, Quotient

(* What has been read of each device on an axis: all that it moved but what  *)
(* it still holds.                                                           *)
Given(dev, mov, x) ==
  [d \in SimpleDev |-> InVirtual(d, mov[d])[x] - InVirtual(d, dev[d].at)[x]]

Conserved ==
  exact /\ kind = "Simple" => \A x \in Axes : told[x] + dropped[x] = Total(Given(device, moved, x))

LEMMA ConservedMeans == Conserved => MotionIsConserved
<1> SUFFICES ASSUME Conserved, exact, kind = "Simple", NEW x \in Axes
             PROVE  LET all == SetToSeq(SimpleDev)
                    IN told[x] + dropped[x] =
                         SumOf([i \in 1..Len(all) |-> InVirtual(all[i], moved[all[i]])[x]
                                                     - InVirtual(all[i], device[all[i]].at)[x]])
  BY DEF MotionIsConserved, MotionAddsUp
<1> DEFINE all == SetToSeq(SimpleDev)
           g   == Given(device, moved, x)
<1>1. told[x] + dropped[x] = SumOf([i \in 1..Len(all) |-> g[all[i]]])
  BY DEF Conserved, Total
<1>2. PICK n \in Nat : Len(all) = n /\ all \in [1..n -> SimpleDev]
  BY AllOnce
<1> HIDE DEF all
<1>3. \A i \in 1..Len(all) : all[i] \in SimpleDev
  BY <1>2
<1>4. [i \in 1..Len(all) |-> g[all[i]]]
        = [i \in 1..Len(all) |-> InVirtual(all[i], moved[all[i]])[x]
                                - InVirtual(all[i], device[all[i]].at)[x]]
  BY <1>3 DEF Given
<1> QED BY <1>1, <1>4 DEF all

LEMMA GivenInt ==
  ASSUME NEW dev, NEW mov, \A d \in SimpleDev : dev[d].at \in [Axes -> Int] /\ mov[d] \in [Axes -> Int],
         NEW x \in Axes
  PROVE  Given(dev, mov, x) \in [SimpleDev -> Int]
<1> SUFFICES ASSUME NEW d \in SimpleDev
             PROVE  InVirtual(d, mov[d])[x] - InVirtual(d, dev[d].at)[x] \in Int
  BY DEF Given
<1>1. InVirtual(d, mov[d]) \in [Axes -> Int] /\ InVirtual(d, dev[d].at) \in [Axes -> Int]
  BY InVirtualInt
<1> QED BY <1>1

LEMMA TotalInt ==
  ASSUME NEW g \in [SimpleDev -> Int]
  PROVE  Total(g) \in Int
<1>1. CASE SimpleDev = {}
  <2>1. Total(g) = 0
    BY <1>1, TotalOfZeroes
  <2> QED BY <2>1
<1>2. CASE SimpleDev # {}
  <2>1. PICK d \in SimpleDev : TRUE
    BY <1>2
  <2>2. Total(g) \in Int /\ Total(g) = Total(g) + (g[d] - g[d])
    BY <2>1, TotalDiffers
  <2> QED BY <2>2
<1> QED BY <1>1, <1>2

(* A motion that a device makes and holds, or that it forgets, is not given.  *)
LEMMA GivenKept ==
  ASSUME ResolutionsDivide, NEW dev, NEW mov, NEW dev2, NEW mov2, NEW x \in Axes,
         \A d \in SimpleDev : /\ dev[d].at \in [Axes -> Int] /\ mov[d] \in [Axes -> Int]
                              /\ dev2[d].at \in [Axes -> Int] /\ mov2[d] \in [Axes -> Int]
                              /\ mov2[d][x] - dev2[d].at[x] = mov[d][x] - dev[d].at[x]
  PROVE  Given(dev2, mov2, x) = Given(dev, mov, x)
<1> SUFFICES ASSUME NEW d \in SimpleDev
             PROVE  InVirtual(d, mov2[d])[x] - InVirtual(d, dev2[d].at)[x]
                      = InVirtual(d, mov[d])[x] - InVirtual(d, dev[d].at)[x]
  BY DEF Given
<1>1. PICK k \in Nat : \A at \in [Axes -> Int] : InVirtual(d, at)[x] = at[x] * k
  BY InVirtualTimes
<1>2. /\ InVirtual(d, mov2[d])[x] = mov2[d][x] * k /\ InVirtual(d, dev2[d].at)[x] = dev2[d].at[x] * k
      /\ InVirtual(d, mov[d])[x] = mov[d][x] * k /\ InVirtual(d, dev[d].at)[x] = dev[d].at[x] * k
  BY <1>1
<1>3. ASSUME NEW a \in Int, NEW b \in Int, NEW a2 \in Int, NEW b2 \in Int, a2 - b2 = a - b
      PROVE  a2 * k - b2 * k = a * k - b * k
  <2>1. a2 * k - b2 * k = (a2 - b2) * k /\ a * k - b * k = (a - b) * k
    OBVIOUS
  <2> QED BY <1>3, <2>1
<1>4. /\ mov2[d][x] \in Int /\ dev2[d].at[x] \in Int /\ mov[d][x] \in Int /\ dev[d].at[x] \in Int
      /\ mov2[d][x] - dev2[d].at[x] = mov[d][x] - dev[d].at[x]
  OBVIOUS
<1> QED BY <1>2, <1>3, <1>4

(* While what is read fits, no product and no sum of the loop wraps: the     *)
(* magnitudes read so far bound what the loop holds.                         *)
LEMMA LoopIsExact ==
  ASSUME TypeOK, Numbers, kind = "Simple", NEW x \in Axes, NEW read, Fits(read),
         NEW m, IsLoop(m, read, Len(list))
  PROVE  \A i \in Nat : i + 1 \in 0..Len(list) =>
           m[i + 1].state[x] = m[i].state[x] +
             IF list[i + 1] \in read
             THEN InVirtual(list[i + 1], device[list[i + 1]].at)[x] ELSE 0
<1> DEFINE n == Len(list)
           I(d) == InVirtual(d, device[d].at)[x]
           v == [i \in 1..n |-> IF list[i] \in read THEN Magnitude(I(list[i])) ELSE 0]
<1>1. /\ n \in Nat /\ \A i \in 1..n : /\ list[i] \in SimpleDev
                                       /\ device[list[i]].at \in [Axes -> Int]
  <2>1. \A i \in 1..n : list[i] \in SimpleDev
    BY DEF TypeOK, Dev
  <2>2. \A d \in SimpleDev : device[d].at \in [Axes -> Int]
    BY DEF Numbers, Report, Dev
  <2> QED BY <2>1, <2>2 DEF TypeOK
<1>2. \A i \in 1..n : I(list[i]) \in Int
  BY <1>1, InVirtualInt
<1>3. /\ \A d \in read : Magnitude(device[d].at[x] * VirtualSide) < Half
      /\ SumOf(v) < Half
  BY DEF Fits
<1>4. v \in [1..n -> Nat] /\ Len(v) = n
  <2>1. \A i \in 1..n : Magnitude(I(list[i])) \in Nat
    <3> HIDE DEF I
    <3> QED BY <1>2 DEF Magnitude
  <2> HIDE DEF I
  <2> QED BY <1>1, <2>1
<1>5. \A i \in 1..n : v[i] = IF list[i] \in read THEN Magnitude(I(list[i])) ELSE 0
  OBVIOUS
<1> HIDE DEF v
<1>6. PICK s : IsSum(s, v, n) /\ SumOf(v) = s[n]
  BY <1>1, <1>4, SumUnfolded
<1>7. \A i \in 0..n : s[i] \in Nat /\ s[i] <= s[n]
  BY <1>1, <1>4, <1>6, SumGrows
<1>8. \A i \in 0..n : m[i].state \in [Axes -> Int]
  BY LoopInt
<1> HIDE DEF I
<1> DEFINE Bounded(i) == Magnitude(m[i].state[x]) <= s[i]
           Adds(i) == m[i + 1].state[x] = m[i].state[x] + IF list[i + 1] \in read THEN I(list[i + 1]) ELSE 0
<1>9. ASSUME NEW i \in Nat, i + 1 \in 0..n, Bounded(i) PROVE Adds(i) /\ Bounded(i + 1)
  <2> DEFINE d == list[i + 1]
             a == m[i].state[x]
             b == I(d)
             c == m[i + 1].state[x]
  <2>1. i \in 0..n /\ i + 1 \in 1..n /\ d \in SimpleDev /\ a \in Int /\ b \in Int
    <3>1. i \in 0..n /\ i + 1 \in 1..n
      BY <1>1, <1>9
    <3> QED BY <1>1, <1>2, <1>8, <3>1
  <2>2. m[i + 1] = IF d \notin read THEN m[i] ELSE MergeSimple(m[i], d)
    BY <1>1, <1>9, LoopStep
  <2>3. s[i + 1] = s[i] + IF d \in read THEN Magnitude(b) ELSE 0
    <3>1. s[i + 1] = s[i] + v[i + 1]
      BY <1>1, <1>6, <1>9, SumStep
    <3> QED BY <1>5, <2>1, <3>1
  <2>4. s[i] \in Nat /\ s[i + 1] \in Nat /\ s[i + 1] < Half
    <3>1. s[i + 1] <= s[n] /\ s[i] \in Nat /\ s[i + 1] \in Nat /\ s[n] \in Nat
      BY <1>1, <1>7, <2>1
    <3>2. s[n] < Half /\ Half \in Nat
      BY <1>3, <1>6, ScaleAssumption
    <3> QED BY <3>1, <3>2
  <2>5. CASE d \notin read
    <3>1. c = a /\ s[i + 1] = s[i]
      BY <2>2, <2>3, <2>4, <2>5
    <3> HIDE DEF a, b, c, d, I
    <3>2. c = a + (IF d \in read THEN b ELSE 0) /\ Magnitude(c) <= s[i + 1]
      BY <1>9, <2>1, <2>5, <3>1 DEF a
    <3> QED BY <3>2 DEF a, b, c, d
  <2>6. CASE d \in read
    <3>1. Scaled(d, device[d].at)[x] = b
      <4>1. /\ device[d].at \in [Axes -> Int]
            /\ Magnitude(device[d].at[x] * VirtualSide) < Half
        BY <1>1, <1>3, <2>1, <2>6
      <4> QED BY <2>1, <4>1, ScaledFits DEF I
    <3>2. c = Signed32(a + b)
      BY <2>2, <2>6, <3>1 DEF MergeSimple
    <3>3. s[i + 1] = s[i] + Magnitude(b) /\ Magnitude(a) <= s[i]
      BY <1>9, <2>3, <2>6
    <3> HIDE DEF a, b, c, d, I
    <3>4. Magnitude(a + b) <= s[i + 1] /\ Half \in Nat /\ Magnitude(a + b) \in Int /\ a + b \in Int
      BY <2>1, <2>4, <3>3, ScaleAssumption DEF Magnitude
    <3>5. Magnitude(a + b) < Half
      BY <2>4, <3>4
    <3>6. c = a + b
      BY <3>2, <3>4, <3>5, SignedFits
    <3>7. c = a + (IF d \in read THEN b ELSE 0) /\ Magnitude(c) <= s[i + 1]
      BY <2>6, <3>4, <3>6
    <3> QED BY <3>7 DEF a, b, c, d
  <2> QED BY <2>5, <2>6
<1>10. Bounded(0)
  <2>1. m[0].state[x] = 0
    BY <1>1, LoopStep DEF Still
  <2>2. s[0] \in Nat
    BY <1>1, <1>7
  <2> QED BY <2>1, <2>2 DEF Magnitude
<1> DEFINE T == {i \in Nat : i \in 0..n => Bounded(i)}
<1>11. 0 \in T
  BY <1>10
<1>12. ASSUME NEW i \in Nat, i \in T PROVE i + 1 \in T
  <2> HIDE DEF Bounded, Adds
  <2> SUFFICES ASSUME i + 1 \in 0..n PROVE Bounded(i + 1)
    OBVIOUS
  <2>1. i \in 0..n
    BY <1>1
  <2> QED BY <1>9, <1>12, <2>1
<1> HIDE DEF T
<1>13. \A i \in Nat : i \in T
  BY <1>11, <1>12, SetInduction
<1>14. ASSUME NEW i \in Nat, i + 1 \in 0..n PROVE Adds(i)
  <2> HIDE DEF Bounded, Adds
  <2>1. i \in 0..n /\ i \in T
    BY <1>1, <1>13, <1>14
  <2> QED BY <1>9, <1>14, <2>1 DEF T
<1> QED BY <1>14 DEF I

(* GetState gives exactly what it takes from the devices that it reads.      *)
LEMMA MergedGives ==
  ASSUME TypeOK, Numbers, kind = "Simple", NEW x \in Axes, NEW read \in SUBSET Elems(list),
         Fits(read)
  PROVE  Total(Given(Emptied(read), moved, x)) = Total(Given(device, moved, x)) + Merged(read).state[x]
<1> DEFINE n == Len(list)
           S(d) == InVirtual(d, device[d].at)[x]
           Seen(i) == {list[q] : q \in 1..i}
           G(i) == [d \in SimpleDev |-> InVirtual(d, moved[d])[x] - (IF d \in read /\ d \in Seen(i) THEN 0 ELSE S(d))]
<1>1. /\ n \in Nat /\ Distinct(list) /\ DOMAIN list = 1..n /\ Dev = SimpleDev
      /\ \A i \in 1..n : list[i] \in SimpleDev
  BY DEF TypeOK, Dev
<1>2. PICK m : IsLoop(m, read, n) /\ Merged(read) = m[n]
  BY <1>1, MergedUnfolded
<1>3. \A d \in SimpleDev : /\ device[d].at \in [Axes -> Int] /\ moved[d] \in [Axes -> Int]
                           /\ S(d) \in Int /\ InVirtual(d, moved[d])[x] \in Int
  <2> SUFFICES ASSUME NEW d \in SimpleDev
               PROVE  /\ device[d].at \in [Axes -> Int] /\ moved[d] \in [Axes -> Int]
                      /\ S(d) \in Int /\ InVirtual(d, moved[d])[x] \in Int
    OBVIOUS
  <2>1. device[d].at \in [Axes -> Int] /\ moved[d] \in [Axes -> Int]
    BY <1>1 DEF Numbers, Report
  <2>2. InVirtual(d, device[d].at) \in [Axes -> Int] /\ InVirtual(d, moved[d]) \in [Axes -> Int]
    BY <2>1, InVirtualInt
  <2> QED BY <2>1, <2>2
<1>4. \A i \in 0..n : m[i].state \in [Axes -> Int]
  BY <1>2, LoopInt
<1>5. G(0) = Given(device, moved, x)
  <2>1. Seen(0) = {}
    OBVIOUS
  <2> QED BY <2>1 DEF Given
<1>6. G(n) = Given(Emptied(read), moved, x)
  <2>1. Seen(n) = Elems(list)
    BY <1>1 DEF Elems
  <2>2. ASSUME NEW d \in SimpleDev
        PROVE  InVirtual(d, Emptied(read)[d].at)[x] = IF d \in read THEN 0 ELSE S(d)
    <3>1. Emptied(read)[d].at = IF d \in read THEN Still ELSE device[d].at
      BY <1>1, EmptiedNumbers
    <3> QED BY <3>1, InVirtualStill
  <2>3. \A d \in SimpleDev : d \in read => d \in Seen(n)
    BY <2>1
  <2> QED BY <2>2, <2>3 DEF Given
<1>7. \A i \in Nat : G(i) \in [SimpleDev -> Int]
  BY <1>3
<1> DEFINE T == {i \in Nat : i \in 0..n => Total(G(i)) = Total(G(0)) + m[i].state[x]}
<1>8. 0 \in T
  <2>1. m[0].state[x] = 0
    BY <1>1, <1>2, LoopStep DEF Still
  <2>2. Total(G(0)) \in Int
    BY <1>7, TotalInt
  <2> QED BY <2>1, <2>2
<1>9. ASSUME NEW i \in Nat, i \in T PROVE i + 1 \in T
  <2> SUFFICES ASSUME i + 1 \in 0..n PROVE Total(G(i + 1)) = Total(G(0)) + m[i + 1].state[x]
    OBVIOUS
  <2> DEFINE d == list[i + 1]
             g == G(i)
             h == G(i + 1)
  <2>1. i \in 0..n /\ i + 1 \in 1..n /\ d \in SimpleDev
    BY <1>1
  <2>2. Total(g) = Total(G(0)) + m[i].state[x]
    BY <1>9, <2>1
  <2>3. m[i + 1].state[x] = m[i].state[x] + IF d \in read THEN S(d) ELSE 0
    <3> HIDE DEF T, G
    <3> QED BY <1>2, LoopIsExact
  <2>4. m[i].state \in [Axes -> Int] /\ Total(G(0)) \in Int
    BY <1>4, <1>7, <2>1, TotalInt
  <2>5. d \notin Seen(i)
    BY <1>1, <2>1 DEF Distinct
  <2>6. Seen(i + 1) = Seen(i) \cup {d}
    <3>1. 1..i + 1 = (1..i) \cup {i + 1}
      OBVIOUS
    <3> QED BY <3>1
  <2>7. g \in [SimpleDev -> Int] /\ h \in [SimpleDev -> Int]
    <3> HIDE DEF T, G
    <3>1. i + 1 \in Nat
      OBVIOUS
    <3> QED BY <1>7, <3>1
  <2>8. \A e \in SimpleDev : e # d => g[e] = h[e]
    BY <2>6
  <2>9. h[d] - g[d] = IF d \in read THEN S(d) ELSE 0
    <3>1. d \in SimpleDev /\ d \in Seen(i + 1)
      BY <2>1, <2>6
    <3>2. S(d) \in Int /\ InVirtual(d, moved[d])[x] \in Int
      BY <1>3, <3>1
    <3> HIDE DEF T, S, Seen
    <3>3. g[d] = InVirtual(d, moved[d])[x] - S(d)
      BY <2>5, <3>1
    <3>4. h[d] = InVirtual(d, moved[d])[x] - (IF d \in read THEN 0 ELSE S(d))
      BY <3>1
    <3> HIDE DEF d, g, h
    <3> QED BY <3>2, <3>3, <3>4
  <2> HIDE DEF g, h
  <2>10. Total(g) \in Int /\ Total(h) = Total(g) + (h[d] - g[d])
    BY <2>1, <2>7, <2>8, TotalDiffers
  <2>11. CASE d \notin read
    BY <2>2, <2>3, <2>4, <2>9, <2>10, <2>11 DEF h
  <2>12. CASE d \in read
    <3>1. m[i + 1].state[x] = m[i].state[x] + S(d)
      BY <2>3, <2>12
    <3>2. S(d) \in Int /\ m[i].state[x] \in Int
      BY <1>3, <2>1, <2>4
    <3> QED BY <2>2, <2>4, <2>9, <2>10, <2>12, <3>1, <3>2 DEF h
  <2> QED BY <2>11, <2>12
<1> HIDE DEF T
<1>10. n \in T
  BY <1>1, <1>8, <1>9, SetInduction
<1>11. Total(G(n)) = Total(G(0)) + m[n].state[x]
  BY <1>1, <1>10 DEF T
<1> QED BY <1>2, <1>5, <1>6, <1>11

LEMMA GetStateConserves ==
  ASSUME TypeOK, Numbers, Conserved, NEW F, GetState(F)
  PROVE  Conserved'
<1> DEFINE read  == {d \in Elems(list) \ F : device[d].news}
           state == Merged(read).state
           fails == Elems(list) \cap F # {}
<1>1. /\ device' = Emptied(read) /\ moved' = moved /\ kind' = kind
      /\ told' = IF kind = "Simple" /\ ~fails THEN Plus(told, state) ELSE told
      /\ dropped' = IF kind = "Simple" /\ fails THEN Plus(dropped, state) ELSE dropped
      /\ exact' = (exact /\ Fits(read))
  BY DEF GetState, listVars
<1>2. Len(list) \in Nat /\ read \in SUBSET Elems(list)
  BY DEF TypeOK
<1> HIDE DEF read, fails
<1>3. PICK m : IsLoop(m, read, Len(list)) /\ Merged(read) = m[Len(list)]
  BY <1>2, MergedUnfolded
<1>4. state \in [Axes -> Int]
  <2>1. Len(list) \in 0..Len(list)
    BY <1>2
  <2> QED BY <1>3, <2>1, LoopInt
<1> SUFFICES ASSUME exact, Fits(read), kind = "Simple", NEW x \in Axes
             PROVE  told'[x] + dropped'[x] = Total(Given(device', moved', x))
  BY <1>1 DEF Conserved
<1>5. Total(Given(Emptied(read), moved, x)) = Total(Given(device, moved, x)) + state[x]
  BY <1>2, MergedGives
<1>6. told[x] + dropped[x] = Total(Given(device, moved, x))
  BY DEF Conserved
<1> HIDE DEF state
<1>7. told[x] \in Int /\ dropped[x] \in Int /\ state[x] \in Int
  BY <1>4 DEF Numbers
<1>8. told'[x] + dropped'[x] = told[x] + dropped[x] + state[x]
  <2>1. CASE fails
    <3>1. told'[x] = told[x] /\ dropped'[x] = dropped[x] + state[x]
      BY <1>1, <2>1 DEF Plus
    <3> QED BY <1>7, <3>1
  <2>2. CASE ~fails
    <3>1. told'[x] = told[x] + state[x] /\ dropped'[x] = dropped[x]
      BY <1>1, <2>2 DEF Plus
    <3> QED BY <1>7, <3>1
  <2> QED BY <2>1, <2>2
<1> QED BY <1>1, <1>5, <1>6, <1>8

LEMMA ResetConserves ==
  ASSUME ResolutionsDivide, TypeOK, Numbers, Conserved, NEW F, Reset(F)
  PROVE  Conserved'
<1> DEFINE done == Elems(list) \ F
<1>1. /\ device' = Emptied(done) /\ UNCHANGED <<kind, told, dropped, exact>>
      /\ moved' = [d \in SimpleDev |-> IF d \notin done THEN moved[d]
                                       ELSE [x \in Axes |-> moved[d][x] - device[d].at[x]]]
  BY DEF Reset, listVars, readVars
<1>2. \A d \in Dev : Emptied(done)[d].at = IF d \in done /\ kind = "Simple" THEN Still ELSE device[d].at
  BY EmptiedNumbers
<1> HIDE DEF done
<1> SUFFICES ASSUME exact, kind = "Simple", NEW x \in Axes
             PROVE  Given(device', moved', x) = Given(device, moved, x)
  BY <1>1 DEF Conserved
<1>3. ASSUME NEW d \in SimpleDev
      PROVE  /\ device[d].at \in [Axes -> Int] /\ moved[d] \in [Axes -> Int]
             /\ device'[d].at \in [Axes -> Int] /\ moved'[d] \in [Axes -> Int]
             /\ moved'[d][x] - device'[d].at[x] = moved[d][x] - device[d].at[x]
  <2>1. device[d].at \in [Axes -> Int] /\ moved[d] \in [Axes -> Int]
    BY DEF Numbers, Report, Dev
  <2>2. device'[d].at = IF d \in done THEN Still ELSE device[d].at
    BY <1>1, <1>2 DEF Dev
  <2>3. CASE d \notin done
    BY <1>1, <2>1, <2>2, <2>3
  <2>4. CASE d \in done
    <3>1. moved'[d] = [y \in Axes |-> moved[d][y] - device[d].at[y]] /\ device'[d].at = Still
      BY <1>1, <2>2, <2>4
    <3> QED BY <2>1, <3>1, StillInt DEF Still
  <2> QED BY <2>3, <2>4
<1> QED BY <1>3, GivenKept

LEMMA MoveConserves ==
  ASSUME ResolutionsDivide, TypeOK, Numbers, Numbers', Conserved,
         NEW d \in SimpleDev, NEW x \in Axes, NEW step \in {-1, 1}, Move(d, x, step)
  PROVE  Conserved'
<1>1. /\ device' = [device EXCEPT ![d].news = TRUE, ![d].at[x] = @ + step]
      /\ moved' = [moved EXCEPT ![d][x] = @ + step]
      /\ kind = "Simple" /\ UNCHANGED <<kind, told, dropped, exact>>
  BY DEF Move, listVars, readVars
<1> SUFFICES ASSUME NEW y \in Axes
             PROVE  Given(device', moved', y) = Given(device, moved, y)
  BY <1>1 DEF Conserved
<1>2. ASSUME NEW e \in SimpleDev
      PROVE  /\ device[e].at \in [Axes -> Int] /\ moved[e] \in [Axes -> Int]
             /\ device'[e].at \in [Axes -> Int] /\ moved'[e] \in [Axes -> Int]
             /\ moved'[e][y] - device'[e].at[y] = moved[e][y] - device[e].at[y]
  <2>1. /\ device[e].at \in [Axes -> Int] /\ moved[e] \in [Axes -> Int]
        /\ device'[e].at \in [Axes -> Int] /\ moved'[e] \in [Axes -> Int]
    BY <1>1 DEF Numbers, Report, Dev
  <2>2. device \in [SimpleDev -> Report] /\ moved \in [SimpleDev -> [Axes -> Int]]
    BY <1>1 DEF Numbers, Dev
  <2>3. CASE e = d /\ y = x
    <3>1. device'[e].at[y] = device[e].at[y] + step
      BY <1>1, <2>1, <2>2, <2>3 DEF Report
    <3>2. moved'[e][y] = moved[e][y] + step
      BY <1>1, <2>1, <2>2, <2>3
    <3>3. step \in Int /\ device[e].at[y] \in Int /\ moved[e][y] \in Int
      BY <2>1
    <3> QED BY <2>1, <3>1, <3>2, <3>3
  <2>4. CASE ~(e = d /\ y = x)
    <3>1. device'[e].at[y] = device[e].at[y]
      BY <1>1, <2>1, <2>2, <2>4 DEF Report
    <3>2. moved'[e][y] = moved[e][y]
      BY <1>1, <2>1, <2>2, <2>4
    <3> QED BY <2>1, <3>1, <3>2
  <2> QED BY <2>3, <2>4
<1> QED BY <1>2, GivenKept

LEMMA NextConserves ==
  ASSUME ResolutionsDivide
  PROVE  TypeOK /\ Numbers /\ Numbers' /\ Conserved /\ [Next]_vars => Conserved'
<1> SUFFICES ASSUME TypeOK, Numbers, Numbers', Conserved, [Next]_vars PROVE Conserved'
  OBVIOUS
<1>1. ASSUME UNCHANGED <<kind, device, moved, told, dropped, exact>> PROVE Conserved'
  BY <1>1 DEF Conserved
<1>2. CASE Poll
  <2>1. UNCHANGED <<kind, device, moved, told, dropped, exact>>
    BY <1>2 DEF Poll, WaitForInput, listVars, deviceVars, readVars
  <2> QED BY <1>1, <2>1
<1>3. CASE Read
  BY <1>3, GetStateConserves DEF Read
<1>4. CASE Others
  BY <1>4, GetStateConserves, ResetConserves DEF Others
<1>5. ASSUME NEW d \in Dev, Start(d) \/ Stop(d) PROVE Conserved'
  <2>1. UNCHANGED <<kind, device, moved, told, dropped, exact>>
    BY <1>5 DEF Start, Stop, listVars, deviceVars, readVars
  <2> QED BY <1>1, <2>1
<1>6. ASSUME NEW d \in Dev, NEW b \in Buttons, Press(d, b) PROVE Conserved'
  <2>1. /\ device' = [device EXCEPT ![d].news = TRUE, ![d].buttons = SymDiff(@, {b})]
        /\ UNCHANGED <<kind, moved, told, dropped, exact>>
    BY <1>6 DEF Press, listVars, readVars
  <2>2. ASSUME NEW e \in Dev PROVE device'[e].at = device[e].at
    <3>1. device[e] \in Report /\ DOMAIN device = Dev
      BY DEF Numbers
    <3>2. device'[e] = IF e = d THEN [device[e] EXCEPT !.news = TRUE, !.buttons = SymDiff(@, {b})]
                               ELSE device[e]
      BY <2>1, <3>1
    <3>3. [device[e] EXCEPT !.news = TRUE, !.buttons = SymDiff(@, {b})].at = device[e].at
      BY <3>1 DEF Report
    <3> QED BY <3>2, <3>3
  <2>3. ASSUME kind = "Simple", NEW x \in Axes
        PROVE  Given(device', moved', x) = Given(device, moved, x)
    <3>1. \A e \in SimpleDev : device'[e].at = device[e].at
      BY <2>2, <2>3 DEF Dev
    <3>2. \A e \in SimpleDev : InVirtual(e, moved'[e])[x] - InVirtual(e, device'[e].at)[x]
                                = InVirtual(e, moved[e])[x] - InVirtual(e, device[e].at)[x]
      BY <2>1, <3>1
    <3> QED BY <3>2 DEF Given
  <2> QED BY <2>1, <2>3 DEF Conserved
<1>7. ASSUME NEW d \in SimpleDev, NEW x \in Axes, NEW step \in {-1, 1}, Move(d, x, step)
      PROVE Conserved'
  BY <1>7, MoveConserves
<1>8. ASSUME NEW d \in AbsoluteDev, NEW x \in Axes, NEW place \in 0..VirtualSide, Point(d, x, place)
      PROVE Conserved'
  <2>1. kind = "Absolute" /\ kind' = kind
    BY <1>8 DEF Point, listVars
  <2> QED BY <2>1 DEF Conserved
<1>9. CASE UNCHANGED vars
  <2>1. UNCHANGED <<kind, device, moved, told, dropped, exact>>
    BY <1>9 DEF vars, listVars, deviceVars, readVars
  <2> QED BY <1>1, <2>1
<1> QED BY <1>2, <1>3, <1>4, <1>5, <1>6, <1>7, <1>8, <1>9 DEF Next

(* No motion of any number of simple pointers is lost or told twice,         *)
(* however they are started, stopped, reset, read and fail, when their       *)
(* resolutions divide the virtual one, as the scaling of GetState demands,   *)
(* and no motion that is read is too large for its INT32 arithmetic.         *)
THEOREM MotionConservation ==
  ASSUME ResolutionsDivide
  PROVE  Spec => []MotionIsConserved
<1>1. Init => Conserved
  <2> SUFFICES ASSUME Init, kind = "Simple", NEW x \in Axes
               PROVE  told[x] + dropped[x] = Total(Given(device, moved, x))
    BY DEF Conserved
  <2>1. told[x] = 0 /\ dropped[x] = 0
    BY DEF Init, Still
  <2>2. \A d \in SimpleDev : moved[d] = Still /\ device[d].at = Still
    BY DEF Init, Dev
  <2>3. Given(device, moved, x) \in [SimpleDev -> Int]
    BY <2>2, StillInt, GivenInt
  <2>4. \A d \in SimpleDev : Given(device, moved, x)[d] = 0
    BY <2>2, InVirtualStill DEF Given
  <2>5. Total(Given(device, moved, x)) = 0
    BY <2>3, <2>4, TotalOfZeroes
  <2> QED BY <2>1, <2>5
<1> QED BY <1>1, NumbersAlways, PointerTypes, NextConserves, ConservedMeans, PTL DEF Spec

-----------------------------------------------------------------------------
(* The position of the absolute pointers                                     *)

(* AbsoluteMin of every absolute pointer is 0.                               *)
SidesFromZero == \A d \in AbsoluteDev, x \in Axes : Side[d][x][1] = 0

(* Every device points inside its own range, and the virtual one inside its. *)
Placed ==
  kind = "Absolute" =>
    /\ \A d \in AbsoluteDev, x \in Axes :
         Side[d][x][1] <= device[d].at[x] /\ device[d].at[x] <= Side[d][x][2]
    /\ \A x \in Axes : ret[x] \in 0..VirtualSide

(* A position in a range from 0 is rescaled into the virtual range.          *)
LEMMA RescaledInRange ==
  ASSUME SidesFromZero, NEW d \in AbsoluteDev, NEW x \in Axes, Side[d][x] # <<0, 0>>,
         device[d].at[x] \in Int,
         Side[d][x][1] <= device[d].at[x], device[d].at[x] <= Side[d][x][2]
  PROVE  Rescaled(d, x) \in 0..VirtualSide
<1> DEFINE a == device[d].at[x]
           h == Side[d][x][2]
<1>1. /\ Side[d][x] \in Nat \X Nat /\ Side[d][x][1] < Side[d][x][2]
      /\ Side[d][x][1] = 0 /\ VirtualSide \in Nat
  BY ScaleAssumption DEF SidesFromZero
<1>2. h \in Nat \ {0} /\ a \in Nat /\ a <= h /\ Side[d][x][2] - Side[d][x][1] = h
  BY <1>1
<1>3. Rescaled(d, x) = Unsigned64(a * VirtualSide) \div h
  BY <1>2 DEF Rescaled
<1> HIDE DEF a, h
<1>4. a * VirtualSide <= h * VirtualSide /\ a * VirtualSide \in Nat /\ h * VirtualSide \in Nat
  BY <1>1, <1>2
<1>5. Unsigned64(a * VirtualSide) \div h <= VirtualSide /\ Unsigned64(a * VirtualSide) \div h \in Nat
  <2> DEFINE p == Unsigned64(a * VirtualSide)
  <2>1. p \in Nat /\ p <= h * VirtualSide
    <3>1. p \in Nat /\ p <= a * VirtualSide
      BY <1>4, UnsignedFits
    <3> HIDE DEF p
    <3> QED BY <1>4, <3>1
  <2> HIDE DEF p
  <2>2. p \div h \in Nat /\ p \div h <= VirtualSide
    BY <1>1, <1>2, <2>1
  <2> QED BY <2>2 DEF p
<1> QED BY <1>1, <1>3, <1>5

LEMMA GetStatePlaces ==
  ASSUME SidesFromZero, TypeOK, Numbers, Placed, NEW F, GetState(F)
  PROVE  Placed'
<1> DEFINE read  == {d \in Elems(list) \ F : device[d].news}
           n     == Len(list)
<1>1. device' = Emptied(read) /\ ret' = Merged(read).state /\ kind' = kind
  BY DEF GetState, listVars
<1> HIDE DEF read
<1> SUFFICES ASSUME kind = "Absolute" PROVE Placed'
  BY <1>1 DEF Placed
<1>2. \A d \in AbsoluteDev : device'[d].at = device[d].at
  BY <1>1, EmptiedNumbers DEF Dev
<1>3. n \in Nat /\ \A i \in 1..n : list[i] \in AbsoluteDev
  BY DEF TypeOK, Dev
<1>4. PICK m : IsLoop(m, read, n) /\ Merged(read) = m[n]
  BY <1>3, MergedUnfolded
<1> DEFINE T == {i \in Nat : i \in 0..n => \A x \in Axes : m[i].state[x] \in 0..VirtualSide}
<1>5. 0 \in T
  <2>1. m[0].state = Still /\ VirtualSide \in Nat
    BY <1>3, <1>4, LoopStep, ScaleAssumption
  <2> QED BY <2>1 DEF Still
<1>6. ASSUME NEW i \in Nat, i \in T PROVE i + 1 \in T
  <2> SUFFICES ASSUME i + 1 \in 0..n, NEW x \in Axes PROVE m[i + 1].state[x] \in 0..VirtualSide
    OBVIOUS
  <2> DEFINE d == list[i + 1]
  <2>1. i \in 0..n /\ d \in AbsoluteDev
    BY <1>3
  <2>2. \A y \in Axes : m[i].state[y] \in 0..VirtualSide
    BY <1>6, <2>1
  <2>3. m[i + 1] = IF d \notin read THEN m[i] ELSE MergeAbsolute(m[i], d)
    <3> HIDE DEF T
    <3>1. \A j \in Nat : j + 1 \in 0..n =>
            m[j + 1] = IF list[j + 1] \notin read THEN m[j]
                       ELSE IF kind = "Simple" THEN MergeSimple(m[j], list[j + 1])
                                               ELSE MergeAbsolute(m[j], list[j + 1])
      BY <1>3, <1>4, LoopStep
    <3> QED BY <3>1
  <2>4. ASSUME Side[d][x] # <<0, 0>> PROVE Rescaled(d, x) \in 0..VirtualSide
    <3>1. /\ device[d].at[x] \in Int
          /\ Side[d][x][1] <= device[d].at[x] /\ device[d].at[x] <= Side[d][x][2]
      BY <2>1 DEF Placed, Numbers, Report, Dev
    <3> QED BY <2>1, <2>4, <3>1, RescaledInRange
  <2> HIDE DEF T, d
  <2> QED BY <2>2, <2>3, <2>4 DEF MergeAbsolute
<1> HIDE DEF T
<1>7. n \in T
  BY <1>3, <1>5, <1>6, SetInduction
<1>8. \A x \in Axes : ret'[x] \in 0..VirtualSide
  BY <1>1, <1>3, <1>4, <1>7 DEF T
<1> QED BY <1>1, <1>2, <1>8 DEF Placed

LEMMA NextPlaces ==
  ASSUME SidesFromZero
  PROVE  TypeOK /\ Numbers /\ Placed /\ [Next]_vars => Placed'
<1> SUFFICES ASSUME TypeOK, Numbers, Placed, [Next]_vars PROVE Placed'
  OBVIOUS
<1>1. ASSUME kind' = kind, \A d \in Dev : device'[d].at = device[d].at, ret' = ret PROVE Placed'
  BY <1>1 DEF Placed, Dev
<1>2. CASE Poll
  <2>1. UNCHANGED <<kind, device, ret>>
    BY <1>2 DEF Poll, WaitForInput, listVars, deviceVars
  <2> QED BY <1>1, <2>1
<1>3. CASE Read
  BY <1>3, GetStatePlaces DEF Read
<1>4. ASSUME NEW F, Reset(F) PROVE Placed'
  <2>1. device' = Emptied(Elems(list) \ F) /\ UNCHANGED <<kind, ret>>
    BY <1>4 DEF Reset, listVars
  <2>2. \A d \in Dev : kind = "Absolute" => device'[d].at = device[d].at
    BY <2>1, EmptiedNumbers
  <2> QED BY <2>1, <2>2 DEF Placed, Dev
<1>5. CASE Others
  BY <1>4, <1>5, GetStatePlaces DEF Others
<1>6. ASSUME NEW d \in Dev, Start(d) \/ Stop(d) PROVE Placed'
  <2>1. UNCHANGED <<kind, device, ret>>
    BY <1>6 DEF Start, Stop, listVars, deviceVars
  <2> QED BY <1>1, <2>1
<1>7. ASSUME NEW d \in Dev, NEW b \in Buttons, Press(d, b) PROVE Placed'
  <2>1. /\ device' = [device EXCEPT ![d].news = TRUE, ![d].buttons = SymDiff(@, {b})]
        /\ UNCHANGED <<kind, ret>>
    BY <1>7 DEF Press, listVars
  <2>2. ASSUME NEW e \in Dev PROVE device'[e].at = device[e].at
    <3>1. device[e] \in Report /\ DOMAIN device = Dev
      BY DEF Numbers
    <3>2. device'[e] = IF e = d THEN [device[e] EXCEPT !.news = TRUE, !.buttons = SymDiff(@, {b})]
                               ELSE device[e]
      BY <2>1, <3>1
    <3>3. [device[e] EXCEPT !.news = TRUE, !.buttons = SymDiff(@, {b})].at = device[e].at
      BY <3>1 DEF Report
    <3> QED BY <3>2, <3>3
  <2> QED BY <1>1, <2>1, <2>2
<1>8. ASSUME NEW d \in SimpleDev, NEW x \in Axes, NEW step \in {-1, 1}, Move(d, x, step)
      PROVE Placed'
  <2>1. kind = "Simple" /\ kind' = kind
    BY <1>8 DEF Move, listVars
  <2> QED BY <2>1 DEF Placed
<1>9. ASSUME NEW d \in AbsoluteDev, NEW x \in Axes, NEW place \in 0..VirtualSide, Point(d, x, place)
      PROVE Placed'
  <2>1. /\ device' = [device EXCEPT ![d].news = TRUE, ![d].at[x] = place]
        /\ Side[d][x][1] <= place /\ place <= Side[d][x][2]
        /\ kind = "Absolute" /\ UNCHANGED <<kind, ret>>
    BY <1>9 DEF Point, listVars
  <2> SUFFICES ASSUME NEW e \in AbsoluteDev, NEW y \in Axes
               PROVE  Side[e][y][1] <= device'[e].at[y] /\ device'[e].at[y] <= Side[e][y][2]
    BY <2>1 DEF Placed
  <2>2. device[e] \in Report /\ DOMAIN device = AbsoluteDev
    BY <2>1 DEF Numbers, Dev
  <2>3. device'[e] = IF e = d THEN [device[e] EXCEPT !.news = TRUE, !.at[x] = place]
                             ELSE device[e]
    BY <2>1, <2>2
  <2>4. [device[e] EXCEPT !.news = TRUE, !.at[x] = place].at = [device[e].at EXCEPT ![x] = place]
    BY <2>2 DEF Report
  <2>5. device[e].at \in [Axes -> Int]
    BY <2>2 DEF Report
  <2>6. device'[e].at[y] = IF e = d /\ y = x THEN place ELSE device[e].at[y]
    BY <2>3, <2>4, <2>5
  <2>7. Side[e][y][1] <= device[e].at[y] /\ device[e].at[y] <= Side[e][y][2]
    BY <2>1 DEF Placed
  <2> QED BY <2>1, <2>6, <2>7
<1>10. CASE UNCHANGED vars
  <2>1. UNCHANGED <<kind, device, ret>>
    BY <1>10 DEF vars, listVars, deviceVars
  <2> QED BY <1>1, <2>1
<1> QED BY <1>2, <1>3, <1>5, <1>6, <1>7, <1>8, <1>9, <1>10 DEF Next

(* Whatever absolute pointers are merged, the position that the virtual one  *)
(* reports is in the range of its mode, when their ranges begin at 0: the    *)
(* lower end, which GetState does not subtract, is what the proof needs.     *)
THEOREM PositionRange ==
  ASSUME SidesFromZero
  PROVE  Spec => []PositionIsInRange
<1>1. Init => Placed
  <2> SUFFICES ASSUME Init, kind = "Absolute" PROVE Placed
    BY DEF Placed
  <2>1. /\ ret = Still /\ VirtualSide \in Nat
        /\ \A d \in AbsoluteDev, x \in Axes : device[d].at[x] = Side[d][x][1]
    BY ScaleAssumption DEF Init, Dev
  <2>2. ASSUME NEW d \in AbsoluteDev, NEW x \in Axes
        PROVE  Side[d][x][1] <= device[d].at[x] /\ device[d].at[x] <= Side[d][x][2]
    <3>1. Side[d][x] \in Nat \X Nat /\ (Side[d][x] = <<0, 0>> \/ Side[d][x][1] < Side[d][x][2])
      BY ScaleAssumption
    <3> QED BY <2>1, <3>1
  <2> QED BY <2>1, <2>2 DEF Placed, Still
<1>2. Placed => PositionIsInRange
  BY DEF Placed, PositionIsInRange
<1> QED BY <1>1, <1>2, NumbersAlways, PointerTypes, NextPlaces, PTL DEF Spec

=============================================================================
