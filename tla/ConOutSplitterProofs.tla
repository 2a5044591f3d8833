------------------------ MODULE ConOutSplitterProofs ------------------------
(***************************************************************************)
(* Proofs about the two virtual text consoles, for any consoles and any     *)
(* lists of modes: the map of the virtual modes stays sound, nothing that   *)
(* all consoles have is missing from it, ConOut and StdErr offer the same   *)
(* modes where the scan finds a shared console, and as long as nothing      *)
(* fails or leaves the consoles of a splitter are in its mode.  The         *)
(* argument follows the code: the rows that are kept keep their order       *)
(* (Nth), so each step of a call keeps the tables in order (ConsoleOK);     *)
(* what is listed is open; and the order of the rows is that of the first   *)
(* console's modes, which makes a virtual mode's size that of one mode      *)
(* only.                                                                    *)
(***************************************************************************)
EXTENDS ConOutSplitter, CommonLemmas, FiniteSetTheorems

-----------------------------------------------------------------------------
(* The members of a set of modes in their order                              *)

(* By the member that Nth names.                                             *)
LEMMA NthMember ==
  ASSUME NEW S \in SUBSET Nat, IsFiniteSet(S), NEW k \in 0..Cardinality(S) - 1
  PROVE  Nth(S, k) \in S /\ Cardinality(Below(S, Nth(S, k))) = k
<1>1. k \in Nat /\ k < Cardinality(S)
  BY FS_CardinalityType
<1>2. \E m \in S : Cardinality({l \in S : l < m}) = k
  BY <1>1, NthExists DEF Below
<1> QED BY <1>2 DEF Nth, Below

(* Each member has its place, and the places keep the order.                 *)
LEMMA NthOrder ==
  ASSUME NEW S \in SUBSET Nat, IsFiniteSet(S)
  PROVE  /\ \A j, k \in 0..Cardinality(S) - 1 : j < k => Nth(S, j) < Nth(S, k)
         /\ \A m \in S : /\ Cardinality(Below(S, m)) \in 0..Cardinality(S) - 1
                         /\ Nth(S, Cardinality(Below(S, m))) = m
<1>1. ASSUME NEW j \in 0..Cardinality(S) - 1, NEW k \in 0..Cardinality(S) - 1, j < k
      PROVE  Nth(S, j) < Nth(S, k)
  <2> DEFINE a == Nth(S, j)
             b == Nth(S, k)
  <2>1. /\ a \in S /\ Cardinality(Below(S, a)) = j
        /\ b \in S /\ Cardinality(Below(S, b)) = k
    BY NthMember
  <2> HIDE DEF a, b
  <2>2. ~(b < a)
    <3>1. ASSUME b < a PROVE FALSE
      <4>1. k \in Nat /\ j \in Nat /\ k < j
        BY <2>1, <3>1, BelowGrows
      <4> QED BY <1>1, <4>1
    <3> QED BY <3>1
  <2>3. a # b
    BY <1>1, <2>1
  <2>4. a \in Int /\ b \in Int
    BY <2>1
  <2>5. a < b
    BY <2>2, <2>3, <2>4
  <2> QED BY <2>5 DEF a, b
<1>2. ASSUME NEW m \in S
      PROVE  /\ Cardinality(Below(S, m)) \in 0..Cardinality(S) - 1
             /\ Nth(S, Cardinality(Below(S, m))) = m
  <2>1. /\ Below(S, m) \in SUBSET S /\ m \notin Below(S, m)
        /\ IsFiniteSet(Below(S, m)) /\ Cardinality(S) \in Nat
    BY FS_Subset, FS_CardinalityType DEF Below
  <2>2. /\ Cardinality(Below(S, m)) \in Nat /\ Cardinality(Below(S, m)) <= Cardinality(S)
        /\ Cardinality(Below(S, m)) # Cardinality(S)
    BY <2>1, FS_Subset, FS_CardinalityType
  <2>3. Cardinality(Below(S, m)) \in 0..Cardinality(S) - 1
    BY <2>1, <2>2
  <2> DEFINE o == Nth(S, Cardinality(Below(S, m)))
  <2>4. o \in S /\ Cardinality(Below(S, o)) = Cardinality(Below(S, m))
    BY <2>3, NthMember
  <2> HIDE DEF o
  <2>5. ~(o < m) /\ ~(m < o)
    <3>1. ASSUME o < m PROVE FALSE
      BY <2>2, <2>4, <3>1, BelowGrows
    <3>2. ASSUME m < o PROVE FALSE
      BY <2>2, <2>4, <3>2, BelowGrows
    <3> QED BY <3>1, <3>2
  <2>6. o \in Int /\ m \in Int
    BY <2>4
  <2>7. o = m
    BY <2>5, <2>6
  <2> QED BY <2>3, <2>7 DEF o
<1> QED BY <1>1, <1>2

(* Mode 0, and mode 1 if there is more than one, keep their numbers when     *)
(* they are kept.                                                            *)
LEMMA NthFirstTwo ==
  ASSUME NEW S \in SUBSET Nat, IsFiniteSet(S), 0 \in S, 1 \in S \/ S = {0}
  PROVE  /\ Cardinality(S) \in Nat \ {0}
         /\ Nth(S, 0) = 0
         /\ 1 \in S => 1 < Cardinality(S) /\ Nth(S, 1) = 1
         /\ \A k \in 0..Cardinality(S) - 1 : k >= 2 => Nth(S, k) >= 2
         /\ \A m \in S : m >= 2 => Cardinality(Below(S, m)) >= 2
<1>1. Cardinality(S) \in Nat \ {0}
  BY FS_EmptySet, FS_CardinalityType
<1>2. Below(S, 0) = {} /\ Cardinality(Below(S, 0)) = 0
  <2>1. Below(S, 0) = {}
    <3>1. \A l \in S : l \in Nat /\ ~(l < 0)
      OBVIOUS
    <3> QED BY <3>1 DEF Below
  <2> QED BY <2>1, FS_EmptySet
<1>3. Nth(S, 0) = 0
  BY <1>2, NthOrder
<1>4. ASSUME 1 \in S PROVE Cardinality(Below(S, 1)) = 1
  <2>1. Below(S, 1) = {0}
    <3>1. \A l \in S : l \in Nat /\ (l < 1 <=> l = 0)
      OBVIOUS
    <3> QED BY <3>1 DEF Below
  <2> QED BY <2>1, FS_Singleton
<1>5. ASSUME 1 \in S PROVE 1 < Cardinality(S) /\ Nth(S, 1) = 1
  BY <1>1, <1>4, <1>5, NthOrder
<1>6. ASSUME NEW k \in 0..Cardinality(S) - 1, k >= 2 PROVE Nth(S, k) >= 2
  <2> DEFINE a == Nth(S, k)
  <2>1. a \in S /\ 0 < k /\ k \in Nat
    BY <1>1, <1>6, NthMember
  <2>2. 0 \in 0..Cardinality(S) - 1 /\ Nth(S, 0) < a
    BY <1>1, <1>6, <2>1, NthOrder
  <2>3. CASE 1 \in S
    <3>1. 1 \in 0..Cardinality(S) - 1 /\ 1 < k /\ Nth(S, 1) < a
      BY <1>1, <1>5, <1>6, <2>1, <2>3, NthOrder
    <3> HIDE DEF a
    <3>2. a \in Nat /\ 1 < a
      BY <1>5, <2>1, <2>3, <3>1
    <3>3. a >= 2
      BY <3>2
    <3> QED BY <3>3 DEF a
  <2>4. CASE S = {0}
    BY <1>3, <2>1, <2>2, <2>4
  <2> QED BY <2>3, <2>4
<1>7. ASSUME NEW m \in S, m >= 2 PROVE Cardinality(Below(S, m)) >= 2
  <2>1. m # 0 /\ m \in Nat /\ 1 < m
    BY <1>7
  <2>2. 1 \in S
    BY <2>1
  <2>3. Cardinality(Below(S, m)) \in Nat /\ Cardinality(Below(S, 1)) < Cardinality(Below(S, m))
    BY <2>1, <2>2, BelowGrows
  <2> QED BY <1>4, <2>2, <2>3
<1> QED BY <1>1, <1>3, <1>5, <1>6, <1>7

-----------------------------------------------------------------------------
(* A splitter and its tables                                                 *)

(* The fields of mConOut and mStdErr.                                        *)
Fields == {"slots", "count", "listCount", "stride", "queryData", "map",
           "mode", "cursor", "attr", "adding"}

(* The mode numbers of a console.                                            *)
Modes(d) == DOMAIN Sizes[d]

(* The list of consoles: open ones, each once.                               *)
ListOK(c) ==
  /\ DOMAIN c = Fields
  /\ c.slots \in Seq(Dev) /\ c.count \in 0..Len(c.slots)
  /\ \A i, j \in 1..c.count : c.slots[i] = c.slots[j] => i = j

(* TextOutQueryData is that of the first console, but for its mode 1.        *)
QueryOK(c) ==
  /\ DOMAIN c.queryData = Modes(c.slots[1])
  /\ \A k \in Modes(c.slots[1]) :
       c.queryData[k] = Sizes[c.slots[1]][k] \/ (k = 1 /\ c.queryData[k] = NoSize)

(* The rows of the map are in the order of the first console's modes, of     *)
(* which 0 and 1 are never dropped.                                          *)
RowsOK(c) ==
  /\ \A m \in VirtualModes(c) : /\ c.map[m] \in Seq(Int) /\ Len(c.map[m]) = c.count
                                 /\ c.map[m][1] \in Modes(c.slots[1])
  /\ \A l, m \in VirtualModes(c) : l < m => c.map[l][1] < c.map[m][1]
  /\ c.map[0][1] = 0
  /\ 1 \in Modes(c.slots[1]) => 1 \in VirtualModes(c) /\ c.map[1][1] = 1

(* The entries of a row lead to modes of its size: the body of MapIsSound.   *)
SoundEntry(c, m, i) ==
  LET k == c.map[m][i]
  IN \/ Supports(c.slots[i], k) /\ Sizes[c.slots[i]][k] = SizeOf(c, m)
     \/ m = 0 /\ k = None
     \/ m = 1 /\ (k = None \/ SizeOf(c, m) = NoSize)

(* There is a mode 0, and modes are numbered without gaps.                   *)
Numbering(c) == \E n \in Nat \ {0} : VirtualModes(c) = 0..n - 1

MapOK(c) ==
  /\ Numbering(c)
  /\ c.count > 0 => QueryOK(c) /\ RowsOK(c)
  /\ \A m \in VirtualModes(c), i \in 1..c.count : SoundEntry(c, m, i)

(* What is true of a splitter between any two steps of a call.               *)
ConsoleOK(c) == ListOK(c) /\ MapOK(c)

(* Everything else may change under them.                                    *)
SameTables(c, e) ==
  /\ DOMAIN e = Fields
  /\ e.slots = c.slots /\ e.count = c.count /\ e.queryData = c.queryData /\ e.map = c.map

(* It is not about the mode, the cursor or the attribute.                    *)
LEMMA ConsoleOKKept ==
  ASSUME NEW c, NEW e, ConsoleOK(c), SameTables(c, e)
  PROVE  ConsoleOK(e)
<1>1. ListOK(e)
  BY DEF ConsoleOK, ListOK, SameTables
<1>2. \A m : SizeOf(e, m) = SizeOf(c, m)
  BY DEF SameTables, SizeOf
<1>3. MapOK(e)
  BY <1>2 DEF ConsoleOK, MapOK, Numbering, QueryOK, RowsOK, SoundEntry, SameTables, VirtualModes
<1> QED BY <1>1, <1>3 DEF ConsoleOK

(* What the mode lists of consoles are assumed to be.                        *)
LEMMA ModesOfDevice ==
  ASSUME NEW d \in Dev
  PROVE  \E n \in Nat \ {0} :
           /\ Modes(d) = 0..n - 1
           /\ \A k \in 0..n - 1 : Sizes[d][k] \in Size /\ (k # 1 => Sizes[d][k] # NoSize)
           /\ \A k, l \in 0..n - 1 : Sizes[d][k] = Sizes[d][l] => k = l
BY SizesAssumption DEF Modes, Size

-----------------------------------------------------------------------------
(* ConSplitterGetIntersection                                                *)

(* The rows that are kept.                                                   *)
Kept(c, supported) == {m \in VirtualModes(c) : m < 2 \/ m \in supported}

(* All but the soundness of the rows that are going to be dropped.           *)
MapOKWhere(c, supported) ==
  /\ Numbering(c)
  /\ c.count > 0 => QueryOK(c) /\ RowsOK(c)
  /\ \A m \in Kept(c, supported), i \in 1..c.count : SoundEntry(c, m, i)

(* The numbers that are kept have no gap at 0 and 1.                         *)
LEMMA KeptNumbers ==
  ASSUME NEW c, NEW supported, Numbering(c)
  PROVE  LET K == Kept(c, supported) IN
         /\ K \in SUBSET Nat /\ IsFiniteSet(K) /\ 0 \in K /\ (1 \in K \/ K = {0})
         /\ 1 \in VirtualModes(c) => 1 \in K
<1> PICK n \in Nat \ {0} : VirtualModes(c) = 0..n - 1
  BY DEF Numbering
<1> DEFINE K == Kept(c, supported)
<1>1. K \in SUBSET (0..n - 1) /\ 0 \in K /\ (1 \in 0..n - 1 => 1 \in K)
  BY DEF Kept
<1>2. IsFiniteSet(K)
  <2>1. IsFiniteSet(0..n - 1)
    BY FS_Interval
  <2> HIDE DEF K
  <2> QED BY <1>1, <2>1, FS_Subset
<1>3. 1 \in K \/ K = {0}
  <2>1. CASE 1 \in 0..n - 1
    BY <1>1, <2>1
  <2>2. CASE n = 1
    <3>1. \A m \in K : m = 0
      BY <1>1, <2>2
    <3> QED BY <1>1, <3>1
  <2> QED BY <2>1, <2>2
<1> QED BY <1>1, <1>2, <1>3

(* The rows that are kept move up, in their order.                           *)
LEMMA IntersectionRows ==
  ASSUME NEW c, NEW supported, DOMAIN c = Fields, Numbering(c),
         NEW K, K = Kept(c, supported),
         NEW e, e = GetIntersection(c, supported)
  PROVE  /\ Cardinality(K) \in Nat \ {0}
         /\ VirtualModes(e) = 0..Cardinality(K) - 1
         /\ \A k \in VirtualModes(e) : Nth(K, k) \in K /\ e.map[k] = c.map[Nth(K, k)]
         /\ DOMAIN e = Fields
         /\ \A f \in Fields \ {"map", "mode"} : e[f] = c[f]
<1>1. K \in SUBSET Nat /\ IsFiniteSet(K) /\ 0 \in K /\ (1 \in K \/ K = {0})
  BY KeptNumbers
<1>2. Cardinality(K) \in Nat \ {0}
  BY <1>1, NthFirstTwo
<1>3. /\ DOMAIN e = Fields
      /\ e.map = [k \in 0..Cardinality(K) - 1 |-> c.map[Nth(K, k)]]
      /\ \A f \in Fields \ {"map", "mode"} : e[f] = c[f]
  <2>1. e = [c EXCEPT !.map = [k \in 0..Cardinality(K) - 1 |-> c.map[Nth(K, k)]],
                      !.mode = IF @ \in VirtualModes(c) \ K THEN None
                               ELSE @ - Cardinality({m \in VirtualModes(c) \ K : m < @})]
    BY Zenon DEF GetIntersection, Kept
  <2> QED BY <2>1 DEF Fields
<1>4. VirtualModes(e) = 0..Cardinality(K) - 1
  BY <1>3 DEF VirtualModes
<1>5. \A k \in VirtualModes(e) : Nth(K, k) \in K /\ e.map[k] = c.map[Nth(K, k)]
  BY <1>1, <1>3, <1>4, NthMember
<1> QED BY <1>2, <1>3, <1>4, <1>5

(* It keeps the invariant, and of the modes behind the first two those that  *)
(* are supported.                                                            *)
LEMMA IntersectionKeeps ==
  ASSUME NEW c, NEW supported, ListOK(c), MapOKWhere(c, supported)
  PROVE  LET e == GetIntersection(c, supported)
         IN /\ ConsoleOK(e)
            /\ \A k \in VirtualModes(e) : k >= 2 =>
                 \E m \in VirtualModes(c) : m >= 2 /\ m \in supported /\ e.map[k] = c.map[m]
            /\ \A m \in VirtualModes(c) : m >= 2 /\ m \in supported =>
                 \E k \in VirtualModes(e) : k >= 2 /\ e.map[k] = c.map[m]
<1> DEFINE K == Kept(c, supported)
           e == GetIntersection(c, supported)
<1> PICK n \in Nat \ {0} : VirtualModes(c) = 0..n - 1
  BY DEF MapOKWhere, Numbering
<1>1. /\ K \in SUBSET Nat /\ IsFiniteSet(K) /\ 0 \in K /\ (1 \in K \/ K = {0})
      /\ 1 \in VirtualModes(c) => 1 \in K
  BY KeptNumbers DEF MapOKWhere
<1>2. /\ Cardinality(K) \in Nat \ {0}
      /\ VirtualModes(e) = 0..Cardinality(K) - 1
      /\ \A k \in VirtualModes(e) : Nth(K, k) \in K /\ e.map[k] = c.map[Nth(K, k)]
      /\ DOMAIN e = Fields
      /\ e.slots = c.slots /\ e.count = c.count /\ e.queryData = c.queryData
  <2>1. DOMAIN c = Fields /\ Numbering(c)
    BY DEF ListOK, MapOKWhere
  <2>2. /\ "slots" \in Fields \ {"map", "mode"} /\ "count" \in Fields \ {"map", "mode"}
        /\ "queryData" \in Fields \ {"map", "mode"}
    BY DEF Fields
  <2>3. /\ Cardinality(K) \in Nat \ {0}
        /\ VirtualModes(e) = 0..Cardinality(K) - 1
        /\ \A k \in VirtualModes(e) : Nth(K, k) \in K /\ e.map[k] = c.map[Nth(K, k)]
        /\ DOMAIN e = Fields
        /\ \A f \in Fields \ {"map", "mode"} : e[f] = c[f]
    <3>1. K = Kept(c, supported) /\ e = GetIntersection(c, supported)
      OBVIOUS
    <3> HIDE DEF e, K
    <3> QED BY <2>1, <3>1, IntersectionRows
  <2> HIDE DEF e, K
  <2> QED BY <2>2, <2>3
<1>3. /\ Nth(K, 0) = 0
      /\ 1 \in K => 1 < Cardinality(K) /\ Nth(K, 1) = 1
      /\ \A k \in VirtualModes(e) : k >= 2 => Nth(K, k) >= 2
      /\ \A m \in K : m >= 2 => Cardinality(Below(K, m)) >= 2
      /\ \A j, k \in VirtualModes(e) : j < k => Nth(K, j) < Nth(K, k)
      /\ \A m \in K : Cardinality(Below(K, m)) \in VirtualModes(e) /\ Nth(K, Cardinality(Below(K, m))) = m
  BY <1>1, <1>2, NthFirstTwo, NthOrder
<1>4. \A m \in K : m \in VirtualModes(c) /\ m \in Nat /\ (m >= 2 => m \in supported)
  BY DEF Kept
<1>5. \A m \in VirtualModes(c) : m \in supported => m \in K
  BY DEF Kept
<1> HIDE DEF e, K
<1>6. ListOK(e)
  BY <1>2 DEF ListOK
<1>7. \A k \in VirtualModes(e) : e.count > 0 => SizeOf(e, k) = SizeOf(c, Nth(K, k))
  BY <1>2 DEF SizeOf
<1>8. e.count > 0 => QueryOK(e) /\ RowsOK(e)
  <2> SUFFICES ASSUME c.count > 0 PROVE QueryOK(e) /\ RowsOK(e)
    BY <1>2
  <2>1. QueryOK(c) /\ RowsOK(c)
    BY DEF MapOKWhere
  <2>2. QueryOK(e)
    BY <1>2, <2>1 DEF QueryOK
  <2>3. /\ \A k \in VirtualModes(e) : /\ e.map[k] \in Seq(Int) /\ Len(e.map[k]) = e.count
                                      /\ e.map[k][1] \in Modes(e.slots[1])
        /\ \A j, k \in VirtualModes(e) : j < k => e.map[j][1] < e.map[k][1]
    <3>1. ASSUME NEW k \in VirtualModes(e)
          PROVE  /\ e.map[k] \in Seq(Int) /\ Len(e.map[k]) = e.count
                 /\ e.map[k][1] \in Modes(e.slots[1])
      <4>1. Nth(K, k) \in VirtualModes(c) /\ e.map[k] = c.map[Nth(K, k)]
        BY <1>2, <1>4
      <4> QED BY <1>2, <2>1, <4>1 DEF RowsOK
    <3>2. ASSUME NEW j \in VirtualModes(e), NEW k \in VirtualModes(e), j < k
          PROVE  e.map[j][1] < e.map[k][1]
      <4>1. /\ Nth(K, k) \in VirtualModes(c) /\ e.map[k] = c.map[Nth(K, k)]
            /\ Nth(K, j) \in VirtualModes(c) /\ e.map[j] = c.map[Nth(K, j)]
            /\ Nth(K, j) < Nth(K, k)
        BY <1>2, <1>3, <1>4, <3>2
      <4> QED BY <2>1, <4>1 DEF RowsOK
    <3> QED BY <3>1, <3>2
  <2>4. e.map[0][1] = 0
    <3>1. 0 \in VirtualModes(e)
      BY <1>2
    <3> QED BY <1>2, <1>3, <2>1, <3>1 DEF RowsOK
  <2>5. ASSUME 1 \in Modes(e.slots[1]) PROVE 1 \in VirtualModes(e) /\ e.map[1][1] = 1
    <3>1. 1 \in VirtualModes(c) /\ c.map[1][1] = 1
      BY <1>2, <2>1, <2>5 DEF RowsOK
    <3>2. 1 \in VirtualModes(e) /\ Nth(K, 1) = 1
      BY <1>1, <1>2, <1>3, <3>1
    <3> QED BY <1>2, <3>1, <3>2
  <2> QED BY <2>2, <2>3, <2>4, <2>5 DEF RowsOK
<1>9. ASSUME NEW k \in VirtualModes(e), NEW i \in 1..e.count PROVE SoundEntry(e, k, i)
  <2>1. Nth(K, k) \in K /\ SoundEntry(c, Nth(K, k), i)
    BY <1>2 DEF MapOKWhere, K
  <2>2. e.count > 0
    BY <1>2 DEF ListOK
  <2>3. /\ Nth(K, k) = 0 => k = 0
        /\ Nth(K, k) = 1 => k = 1
    <3>1. k \in Nat /\ 0 \in VirtualModes(e)
      BY <1>2
    <3>2. ASSUME Nth(K, k) = 0 PROVE k = 0
      BY <1>3, <3>1, <3>2
    <3>3. ASSUME Nth(K, k) = 1 PROVE k = 1
      BY <1>3, <3>1, <3>3
    <3> QED BY <3>2, <3>3
  <2> QED BY <1>2, <1>7, <2>1, <2>2, <2>3 DEF SoundEntry
<1>10. MapOK(e)
  BY <1>2, <1>8, <1>9 DEF MapOK, Numbering
<1>11. ASSUME NEW k \in VirtualModes(e), k >= 2
       PROVE \E m \in VirtualModes(c) : m >= 2 /\ m \in supported /\ e.map[k] = c.map[m]
  BY <1>2, <1>3, <1>4, <1>11
<1>12. ASSUME NEW m \in VirtualModes(c), m >= 2, m \in supported
       PROVE \E k \in VirtualModes(e) : k >= 2 /\ e.map[k] = c.map[m]
  BY <1>2, <1>3, <1>5, <1>12
<1> QED BY <1>6, <1>10, <1>11, <1>12 DEF ConsoleOK, e

-----------------------------------------------------------------------------
(* ConSplitterSyncOutputMode                                                 *)

(* The virtual mode 1 is mode 1 of the first console, and no other row is.   *)
LEMMA RowOne ==
  ASSUME NEW c, ListOK(c), Numbering(c), c.count > 0, QueryOK(c), RowsOK(c), NEW m \in VirtualModes(c)
  PROVE  /\ m \in Nat /\ c.map[m][1] \in Nat
         /\ m = 1 => c.map[m][1] = 1
         /\ c.map[m][1] = 1 => m = 1
         /\ m >= 2 <=> c.map[m][1] >= 2
         /\ c.slots[1] \in Dev
<1>0. c.slots[1] \in Dev
  BY DEF ListOK
<1>1. PICK n \in Nat \ {0} : VirtualModes(c) = 0..n - 1
  BY DEF Numbering
<1>2. PICK p \in Nat \ {0} : Modes(c.slots[1]) = 0..p - 1
  BY <1>0, ModesOfDevice
<1>3. /\ \A l \in VirtualModes(c) : l \in Nat /\ c.map[l][1] \in Nat /\ c.map[l][1] \in 0..p - 1
      /\ \A l, k \in VirtualModes(c) : l < k => c.map[l][1] < c.map[k][1]
      /\ c.map[0][1] = 0
      /\ 1 \in 0..p - 1 => 1 \in VirtualModes(c) /\ c.map[1][1] = 1
  BY <1>1, <1>2 DEF RowsOK
<1>4. ASSUME 1 \in VirtualModes(c) PROVE c.map[1][1] = 1
  <2>1. c.map[0][1] < c.map[1][1]
    BY <1>1, <1>3, <1>4
  <2>2. 1 \in 0..p - 1
    BY <1>3, <1>4, <2>1
  <2> QED BY <1>3, <2>2
<1>5. ASSUME m >= 2 PROVE c.map[m][1] >= 2
  <2>1. 1 \in VirtualModes(c) /\ 1 < m
    BY <1>1, <1>5
  <2> QED BY <1>3, <1>4, <2>1
<1>6. c.map[m][1] >= 1 => m >= 1
  BY <1>1, <1>3
<1>7. m = 0 \/ m = 1 \/ m >= 2
  BY <1>1
<1> QED BY <1>0, <1>3, <1>4, <1>5, <1>6, <1>7

(* What is put in the new console's column.                                  *)
Matches(c, d, m, k) == k \in Modes(d) /\ Sizes[d][k] # NoSize /\ IsFirst(c, m, Sizes[d][k])

(* An entry is none, a match, or the mode 1 that the console lacks.          *)
LEMMA ColumnCases ==
  ASSUME NEW c, NEW d \in Dev, NEW m
  PROVE  /\ Column(c, Sizes[d], m) \in Int
         /\ \/ m = 1 /\ LacksMode1(Sizes[d]) /\ Column(c, Sizes[d], m) = 1
            \/ Column(c, Sizes[d], m) = None /\ ~\E k : Matches(c, d, m, k)
            \/ Matches(c, d, m, Column(c, Sizes[d], m)) /\ Column(c, Sizes[d], m) # None
<1> DEFINE T == {k \in Modes(d) : Sizes[d][k] # NoSize /\ IsFirst(c, m, Sizes[d][k])}
<1>1. PICK n \in Nat \ {0} : Modes(d) = 0..n - 1
  BY ModesOfDevice
<1>2. Column(c, Sizes[d], m) =
        IF m = 1 /\ LacksMode1(Sizes[d]) THEN 1
        ELSE IF T = {} THEN None ELSE CHOOSE k \in T : \A l \in T : l <= k
  BY DEF Column, Modes
<1>3. ASSUME T # {} PROVE (CHOOSE k \in T : \A l \in T : l <= k) \in T
  <2>1. T \in SUBSET (0..n - 1) /\ n - 1 \in Nat
    BY <1>1
  <2>2. \E g \in T : \A l \in T : l <= g
    BY <1>3, <2>1, GreatestNumber
  <2> QED BY <2>2
<1>4. \A k : k \in T <=> Matches(c, d, m, k)
  BY DEF Matches
<1>5. \A k \in T : k \in Int /\ k # None
  BY <1>1 DEF None
<1> HIDE DEF T
<1>6. CASE m = 1 /\ LacksMode1(Sizes[d])
  BY <1>2, <1>6
<1>7. CASE ~(m = 1 /\ LacksMode1(Sizes[d])) /\ T = {}
  BY <1>2, <1>4, <1>7 DEF None
<1>8. CASE ~(m = 1 /\ LacksMode1(Sizes[d])) /\ T # {}
  <2>1. Column(c, Sizes[d], m) \in T
    BY <1>2, <1>3, <1>8, Zenon
  <2> QED BY <1>4, <1>5, <2>1
<1> QED BY <1>6, <1>7, <1>8

(* No mode that every console has is missing.                                *)
HasSize(d, size) == \E j \in Modes(d) : Sizes[d][j] = size

Full(c) ==
  c.count > 0 =>
    \A l \in Modes(c.slots[1]) :
      /\ l >= 2
      /\ \A i \in 1..c.count : HasSize(c.slots[i], Sizes[c.slots[1]][l])
      => \E m \in VirtualModes(c) : m >= 2 /\ c.map[m][1] = l

(* A new first console that lacks mode 1 takes the size of mode 1 away.      *)
LEMMA WithoutMode1Keeps ==
  ASSUME NEW c, ConsoleOK(c), c.count > 0, NEW e, e = WithoutMode1(c)
  PROVE  /\ ConsoleOK(e) /\ (Full(c) => Full(e))
         /\ \A f \in Fields \ {"queryData"} : e[f] = c[f]
         /\ 1 \in VirtualModes(e) => SizeOf(e, 1) = NoSize
<1>1. /\ DOMAIN e = Fields /\ \A f \in Fields \ {"queryData"} : e[f] = c[f]
      /\ e.slots = c.slots /\ e.count = c.count /\ e.map = c.map
      /\ e.queryData = [k \in DOMAIN c.queryData |-> IF k = 1 THEN NoSize ELSE c.queryData[k]]
  BY DEF ConsoleOK, ListOK, Fields, WithoutMode1
<1>2. ListOK(e)
  BY <1>1 DEF ConsoleOK, ListOK
<1>3. VirtualModes(e) = VirtualModes(c) /\ Numbering(e)
  BY <1>1 DEF ConsoleOK, MapOK, Numbering, VirtualModes
<1>4. QueryOK(c) /\ RowsOK(c) /\ Numbering(c) /\ ListOK(c)
  BY DEF ConsoleOK, MapOK
<1>5. QueryOK(e) /\ RowsOK(e)
  BY <1>1, <1>3, <1>4 DEF QueryOK, RowsOK
<1>6. \A m \in VirtualModes(c) :
        /\ SizeOf(c, m) = c.queryData[c.map[m][1]]
        /\ SizeOf(e, m) = IF m = 1 THEN NoSize ELSE SizeOf(c, m)
  <2> SUFFICES ASSUME NEW m \in VirtualModes(c)
               PROVE  /\ SizeOf(c, m) = c.queryData[c.map[m][1]]
                      /\ SizeOf(e, m) = IF m = 1 THEN NoSize ELSE SizeOf(c, m)
    OBVIOUS
  <2>1. c.count # 0 /\ c.map[m][1] \in DOMAIN c.queryData
    BY <1>4 DEF QueryOK, RowsOK, ListOK
  <2>2. c.map[m][1] = 1 <=> m = 1
    BY <1>4, RowOne
  <2> QED BY <1>1, <2>1, <2>2 DEF SizeOf
<1>7. ASSUME NEW m \in VirtualModes(e), NEW i \in 1..e.count PROVE SoundEntry(e, m, i)
  <2>1. SoundEntry(c, m, i)
    BY <1>1, <1>3 DEF ConsoleOK, MapOK
  <2> QED BY <1>1, <1>3, <1>6, <2>1 DEF SoundEntry
<1>8. Full(c) => Full(e)
  BY <1>1, <1>3 DEF Full
<1> QED BY <1>1, <1>2, <1>3, <1>5, <1>6, <1>7, <1>8 DEF ConsoleOK, MapOK

(* The new console has been put behind the listed ones.                      *)
Follows(c, d) ==
  /\ c.count < Len(c.slots) /\ c.slots[c.count + 1] = d
  /\ \A i \in 1..c.count : c.slots[i] # d

(* The map with the new column, before rows without an entry are dropped.    *)
WithColumn(c, d) ==
  [c EXCEPT !.map = [m \in VirtualModes(c) |-> Append(@[m], Column(c, Sizes[d], m))], !.count = @ + 1]

(* The virtual modes for which the new console has an entry.                 *)
InBoth(c, d) == {m \in VirtualModes(c) : Column(c, Sizes[d], m) # None}

(* The synchronisation in two steps: the column, then the rows.              *)
LEMMA SyncUnfolded ==
  ASSUME NEW c, NEW d, DOMAIN c = Fields
  PROVE  LET q == IF LacksMode1(Sizes[d]) THEN WithoutMode1(c) ELSE c
         IN SyncOutputMode(c, Sizes[d]) = GetIntersection(WithColumn(q, d), InBoth(q, d))
<1> DEFINE q == IF LacksMode1(Sizes[d]) THEN WithoutMode1(c) ELSE c
<1>1. DOMAIN q = Fields
  BY DEF WithoutMode1
<1> HIDE DEF q
<1> DEFINE more == [q EXCEPT !.map = [m \in VirtualModes(q) |-> Append(@[m], Column(q, Sizes[d], m))]]
           next == WithColumn(q, d)
<1>2. SyncOutputMode(c, Sizes[d]) = [GetIntersection(more, InBoth(q, d)) EXCEPT !.count = @ + 1]
  BY Zenon DEF SyncOutputMode, q, InBoth
<1>3. /\ DOMAIN next = Fields /\ DOMAIN more = Fields
      /\ next.map = more.map /\ next.mode = more.mode /\ next.count = more.count + 1
      /\ next = [more EXCEPT !.count = @ + 1]
  BY <1>1 DEF WithColumn, Fields
<1>4. VirtualModes(next) = VirtualModes(more)
  BY <1>3 DEF VirtualModes
<1> HIDE DEF more, next
<1> DEFINE kept == Kept(more, InBoth(q, d))
           map == [k \in 0..Cardinality(kept) - 1 |-> more.map[Nth(kept, k)]]
           mode == IF more.mode \in VirtualModes(more) \ kept THEN None
                   ELSE more.mode - Cardinality({m \in VirtualModes(more) \ kept : m < more.mode})
<1>5. GetIntersection(more, InBoth(q, d)) = [more EXCEPT !.map = map, !.mode = mode]
  BY Zenon DEF GetIntersection, Kept
<1>6. GetIntersection(next, InBoth(q, d)) = [next EXCEPT !.map = map, !.mode = mode]
  <2>1. kept = Kept(next, InBoth(q, d))
    BY <1>4 DEF Kept
  <2> QED BY <1>3, <1>4, <2>1, Zenon DEF GetIntersection, Kept
<1> HIDE DEF map, mode
<1>7. [next EXCEPT !.map = map, !.mode = mode]
      = [[more EXCEPT !.map = map, !.mode = mode] EXCEPT !.count = @ + 1]
  BY <1>3 DEF Fields
<1> QED BY <1>2, <1>5, <1>6, <1>7 DEF next, q

(* The new column is sound but for rows that are going to be dropped.        *)
LEMMA WithColumnKeeps ==
  ASSUME NEW c, NEW d \in Dev, ConsoleOK(c), c.count > 0, Follows(c, d),
         LacksMode1(Sizes[d]) /\ 1 \in VirtualModes(c) => SizeOf(c, 1) = NoSize,
         NEW e, e = WithColumn(c, d)
  PROVE  /\ ListOK(e) /\ MapOKWhere(e, InBoth(c, d))
         /\ e.slots = c.slots /\ e.count = c.count + 1 /\ VirtualModes(e) = VirtualModes(c)
         /\ \A f \in Fields \ {"map", "count"} : e[f] = c[f]
         /\ \A m \in VirtualModes(c) : e.map[m][1] = c.map[m][1]
<1> DEFINE col(m) == Column(c, Sizes[d], m)
<1>1. /\ DOMAIN c = Fields /\ c.slots \in Seq(Dev) /\ c.count \in Nat /\ c.count + 1 <= Len(c.slots)
      /\ QueryOK(c) /\ RowsOK(c) /\ Numbering(c) /\ ListOK(c)
  BY DEF ConsoleOK, ListOK, MapOK, Follows
<1>2. /\ DOMAIN e = Fields /\ e.count = c.count + 1
      /\ e.slots = c.slots /\ e.queryData = c.queryData
      /\ e.map = [m \in VirtualModes(c) |-> Append(c.map[m], col(m))]
      /\ \A f \in Fields \ {"map", "count"} : e[f] = c[f]
  BY <1>1 DEF WithColumn, Fields
<1>3. VirtualModes(e) = VirtualModes(c) /\ Numbering(e)
  BY <1>1, <1>2 DEF Numbering, VirtualModes
<1>4. ASSUME NEW m \in VirtualModes(c)
      PROVE  /\ e.map[m] \in Seq(Int) /\ Len(e.map[m]) = c.count + 1
             /\ \A i \in 1..c.count : e.map[m][i] = c.map[m][i]
             /\ e.map[m][c.count + 1] = col(m)
  <2>1. c.map[m] \in Seq(Int) /\ Len(c.map[m]) = c.count /\ col(m) \in Int
    BY <1>1, ColumnCases DEF RowsOK
  <2>2. e.map[m] = Append(c.map[m], col(m))
    BY <1>2
  <2> HIDE DEF col
  <2> QED BY <1>1, <2>1, <2>2, AppendProperties
<1> HIDE DEF col
<1>5. \A m \in VirtualModes(c) : e.map[m][1] = c.map[m][1]
  <2>1. 1 \in 1..c.count
    BY <1>1
  <2> QED BY <1>4, <2>1, Zenon
<1>6. \A m \in VirtualModes(c) : SizeOf(e, m) = SizeOf(c, m)
  BY <1>1, <1>2, <1>5 DEF SizeOf
<1>7. ListOK(e)
  <2>1. e.count \in 0..Len(e.slots)
    BY <1>1, <1>2
  <2>2. ASSUME NEW i \in 1..c.count + 1, NEW j \in 1..c.count + 1, c.slots[i] = c.slots[j] PROVE i = j
    <3>1. (i \in 1..c.count \/ i = c.count + 1) /\ (j \in 1..c.count \/ j = c.count + 1)
      BY <1>1
    <3> QED BY <1>1, <2>2, <3>1 DEF Follows, ListOK
  <2> QED BY <1>1, <1>2, <2>1, <2>2 DEF ListOK
<1>8. QueryOK(e)
  BY <1>1, <1>2 DEF QueryOK
<1>9. RowsOK(e)
  <2>1. 0 \in VirtualModes(c)
    BY <1>1 DEF Numbering
  <2>2. \A m \in VirtualModes(e) : /\ e.map[m] \in Seq(Int) /\ Len(e.map[m]) = e.count
                                   /\ e.map[m][1] \in Modes(e.slots[1])
    BY <1>1, <1>2, <1>3, <1>4, <1>5 DEF RowsOK
  <2>3. /\ \A l, m \in VirtualModes(e) : l < m => e.map[l][1] < e.map[m][1]
        /\ e.map[0][1] = 0
        /\ 1 \in Modes(e.slots[1]) => 1 \in VirtualModes(e) /\ e.map[1][1] = 1
    BY <1>1, <1>2, <1>3, <1>5, <2>1 DEF RowsOK
  <2> QED BY <2>2, <2>3 DEF RowsOK
<1>10. ASSUME NEW m \in Kept(e, InBoth(c, d)), NEW i \in 1..e.count PROVE SoundEntry(e, m, i)
  <2>1. m \in VirtualModes(c) /\ (m < 2 \/ col(m) # None)
    BY <1>3 DEF Kept, InBoth, col
  <2>2. CASE i \in 1..c.count
    <3>1. SoundEntry(c, m, i)
      BY <2>1, <2>2 DEF ConsoleOK, MapOK
    <3> QED BY <1>2, <1>4, <1>6, <2>1, <2>2, <3>1 DEF SoundEntry
  <2>3. CASE i = c.count + 1
    <3>1. e.map[m][i] = col(m) /\ e.slots[i] = d /\ SizeOf(e, m) = SizeOf(c, m)
      BY <1>2, <1>4, <1>6, <2>1, <2>3 DEF Follows
    <3>2. CASE m = 1 /\ LacksMode1(Sizes[d]) /\ col(m) = 1
      BY <2>1, <3>1, <3>2 DEF SoundEntry
    <3>3. CASE col(m) = None
      <4>1. m \in Nat
        BY <1>1, <2>1, RowOne
      <4>2. m = 0 \/ m = 1
        BY <2>1, <3>3, <4>1
      <4> QED BY <3>1, <3>3, <4>2 DEF SoundEntry
    <3>4. CASE Matches(c, d, m, col(m))
      <4>1. Supports(d, col(m)) /\ Sizes[d][col(m)] = SizeOf(c, m)
        BY <3>4 DEF Matches, Supports, IsFirst, Modes
      <4> QED BY <3>1, <4>1 DEF SoundEntry
    <3> QED BY <3>2, <3>3, <3>4, ColumnCases DEF col
  <2> QED BY <1>1, <1>2, <2>2, <2>3
<1> QED BY <1>2, <1>3, <1>5, <1>7, <1>8, <1>9, <1>10 DEF MapOKWhere

(* It keeps the invariant, and loses no mode that the new console has too.   *)
LEMMA SyncKeeps ==
  ASSUME NEW c, NEW d \in Dev, ConsoleOK(c), c.count > 0, Follows(c, d),
         NEW e, e = SyncOutputMode(c, Sizes[d])
  PROVE  /\ ConsoleOK(e) /\ (Full(c) => Full(e))
         /\ e.count = c.count + 1 /\ e.slots = c.slots
         /\ \A f \in {"listCount", "stride", "cursor", "attr", "adding"} : e[f] = c[f]
<1> DEFINE q == IF LacksMode1(Sizes[d]) THEN WithoutMode1(c) ELSE c
           more == WithColumn(q, d)
           both == InBoth(q, d)
<1>0. DOMAIN c = Fields
  BY DEF ConsoleOK, ListOK
<1>1. e = GetIntersection(more, both)
  BY <1>0, SyncUnfolded
<1>2. /\ ConsoleOK(q) /\ (Full(c) => Full(q)) /\ \A f \in Fields \ {"queryData"} : q[f] = c[f]
      /\ LacksMode1(Sizes[d]) /\ 1 \in VirtualModes(q) => SizeOf(q, 1) = NoSize
  BY WithoutMode1Keeps
<1>3. /\ q.slots = c.slots /\ q.count = c.count /\ q.map = c.map
      /\ \A f \in {"listCount", "stride", "cursor", "attr", "adding"} : q[f] = c[f]
      /\ Follows(q, d) /\ q.count > 0
  BY <1>2 DEF Fields, Follows
<1> HIDE DEF q
<1>4. /\ ListOK(more) /\ MapOKWhere(more, both)
      /\ more.slots = c.slots /\ more.count = c.count + 1 /\ VirtualModes(more) = VirtualModes(q)
      /\ \A f \in Fields \ {"map", "count"} : more[f] = q[f]
      /\ \A m \in VirtualModes(q) : more.map[m][1] = q.map[m][1]
  BY <1>2, <1>3, WithColumnKeeps
<1> HIDE DEF more, both
<1>5. DOMAIN more = Fields /\ Numbering(more)
  BY <1>4 DEF ListOK, MapOKWhere
<1>6. \A f \in Fields \ {"map", "mode"} : e[f] = more[f]
  BY <1>1, <1>5, IntersectionRows
<1>7. /\ e.slots = c.slots /\ e.count = c.count + 1
      /\ \A f \in {"listCount", "stride", "cursor", "attr", "adding"} : e[f] = c[f]
  BY <1>3, <1>4, <1>6 DEF Fields
<1>8. /\ ConsoleOK(e)
      /\ \A m \in VirtualModes(more) : m >= 2 /\ m \in both =>
           \E k \in VirtualModes(e) : k >= 2 /\ e.map[k] = more.map[m]
  BY <1>1, <1>4, IntersectionKeeps
<1>9. ASSUME Full(c) PROVE Full(e)
  <2> SUFFICES ASSUME NEW l \in Modes(e.slots[1]), l >= 2,
                      \A i \in 1..e.count : HasSize(e.slots[i], Sizes[e.slots[1]][l])
               PROVE  \E m \in VirtualModes(e) : m >= 2 /\ e.map[m][1] = l
    BY DEF Full
  <2>1. ListOK(q) /\ Numbering(q) /\ QueryOK(q) /\ RowsOK(q) /\ c.count \in Nat
    BY <1>2, <1>3 DEF ConsoleOK, MapOK, ListOK
  <2>2. PICK m \in VirtualModes(q) : m >= 2 /\ q.map[m][1] = l
    <3>1. \A i \in 1..q.count : HasSize(q.slots[i], Sizes[q.slots[1]][l])
      BY <1>3, <1>7, <2>1
    <3>2. l \in Modes(q.slots[1])
      BY <1>3, <1>7
    <3> QED BY <1>2, <1>3, <1>9, <3>1, <3>2 DEF Full
  <2> DEFINE size == Sizes[c.slots[1]][l]
  <2>3. /\ c.slots[1] \in Dev /\ l \in Modes(c.slots[1])
        /\ l \in Nat /\ l # 1 /\ size # NoSize
    <3>1. c.slots[1] \in Dev /\ l \in Modes(c.slots[1])
      BY <1>3, <1>7, <2>1, RowOne
    <3> QED BY <3>1, ModesOfDevice
  <2>4. \A k \in VirtualModes(q) : SizeOf(q, k) = q.queryData[q.map[k][1]]
    BY <1>3 DEF SizeOf
  <2>5. SizeOf(q, m) = size
    BY <1>3, <2>1, <2>2, <2>3, <2>4 DEF QueryOK
  <2>6. ASSUME NEW k \in VirtualModes(q), k < m PROVE SizeOf(q, k) # size
    <3> DEFINE r == q.map[k][1]
    <3>1. r < l /\ r \in Modes(c.slots[1]) /\ r \in Nat
      BY <1>3, <2>1, <2>2, <2>6, RowOne DEF RowsOK
    <3>2. q.queryData[r] = Sizes[c.slots[1]][r] \/ q.queryData[r] = NoSize
      BY <1>3, <2>1, <3>1 DEF QueryOK
    <3>3. Sizes[c.slots[1]][r] # size
      BY <2>3, <3>1, ModesOfDevice
    <3> QED BY <2>3, <2>4, <3>2, <3>3
  <2>7. PICK j \in Modes(d) : Sizes[d][j] = size
    <3>1. e.count \in 1..e.count /\ e.slots[e.count] = d
      BY <1>3, <1>7, <2>1 DEF Follows
    <3> QED BY <1>7, <3>1 DEF HasSize
  <2>8. Matches(q, d, m, j)
    BY <2>2, <2>3, <2>5, <2>6, <2>7 DEF Matches, IsFirst
  <2>9. Column(q, Sizes[d], m) # None
    BY <2>8, ColumnCases DEF None
  <2>10. m \in both
    BY <2>2, <2>9 DEF both, InBoth
  <2>11. PICK k \in VirtualModes(e) : k >= 2 /\ e.map[k] = more.map[m]
    BY <1>4, <1>8, <2>2, <2>10
  <2> QED BY <1>4, <2>2, <2>11
<1> QED BY <1>7, <1>8, <1>9

-----------------------------------------------------------------------------
(* ConSplitterAddOutputMode, and the modes computed anew                     *)

(* With one console the virtual modes are its own.                           *)
LEMMA AddKeeps ==
  ASSUME NEW c, NEW d \in Dev, DOMAIN c = Fields, c.slots \in Seq(Dev), Len(c.slots) > 0, c.slots[1] = d,
         NEW e, e = AddOutputMode(c, Sizes[d])
  PROVE  /\ ConsoleOK(e) /\ Full(e)
         /\ e.count = 1 /\ e.slots = c.slots
         /\ \A f \in {"listCount", "stride", "cursor", "attr", "adding"} : e[f] = c[f]
<1>1. PICK n \in Nat \ {0} : /\ Modes(d) = 0..n - 1
                             /\ \A k \in 0..n - 1 : k # 1 => Sizes[d][k] # NoSize
  BY ModesOfDevice
<1>2. /\ DOMAIN e = Fields /\ e.count = 1 /\ e.slots = c.slots /\ e.queryData = Sizes[d]
      /\ e.map = [m \in Modes(d) |-> <<m>>]
      /\ \A f \in {"listCount", "stride", "cursor", "attr", "adding"} : e[f] = c[f]
  BY DEF AddOutputMode, Fields, Modes
<1>3. VirtualModes(e) = 0..n - 1 /\ Numbering(e)
  BY <1>1, <1>2 DEF VirtualModes, Numbering
<1>4. \A m \in 0..n - 1 : /\ e.map[m] \in Seq(Int) /\ Len(e.map[m]) = 1 /\ e.map[m][1] = m
                          /\ SizeOf(e, m) = Sizes[d][m]
  <2> SUFFICES ASSUME NEW m \in 0..n - 1
               PROVE  /\ e.map[m] \in Seq(Int) /\ Len(e.map[m]) = 1 /\ e.map[m][1] = m
                      /\ SizeOf(e, m) = Sizes[d][m]
    OBVIOUS
  <2>1. e.map[m] = <<m>> /\ m \in Int
    BY <1>1, <1>2
  <2>2. <<m>> \in Seq(Int) /\ Len(<<m>>) = 1 /\ <<m>>[1] = m
    BY <2>1
  <2>3. SizeOf(e, m) = Sizes[d][m]
    BY <1>2, <2>1, <2>2 DEF SizeOf
  <2> QED BY <2>1, <2>2, <2>3
<1>5. ListOK(e)
  BY <1>2 DEF ListOK
<1>6. QueryOK(e)
  BY <1>2 DEF QueryOK, Modes
<1>7. RowsOK(e)
  BY <1>1, <1>2, <1>3, <1>4 DEF RowsOK
<1>8. ASSUME NEW m \in VirtualModes(e), NEW i \in 1..e.count PROVE SoundEntry(e, m, i)
  <2>1. i = 1 /\ m \in 0..n - 1
    BY <1>2, <1>3
  <2>2. e.map[m][i] = m /\ SizeOf(e, m) = Sizes[d][m] /\ e.slots[i] = d
    BY <1>2, <1>4, <2>1
  <2>3. CASE Sizes[d][m] = NoSize
    BY <1>1, <2>1, <2>2, <2>3 DEF SoundEntry
  <2>4. CASE Sizes[d][m] # NoSize
    BY <1>1, <2>1, <2>2, <2>4 DEF SoundEntry, Supports, Modes
  <2> QED BY <2>3, <2>4
<1>9. Full(e)
  BY <1>1, <1>2, <1>3, <1>4 DEF Full
<1> QED BY <1>2, <1>3, <1>5, <1>6, <1>7, <1>8, <1>9 DEF ConsoleOK, MapOK

(* The consoles are added one after the other.                               *)
Stage(c, sizes, b, i) == IF i = 1 THEN AddOutputMode(c, sizes[1]) ELSE SyncOutputMode(b[i - 1], sizes[i])

(* The stages exist, and the last of them is the result.                     *)
LEMMA RebuiltUnfolded ==
  ASSUME NEW c, NEW sizes, NEW n \in Nat, Len(sizes) = n
  PROVE  \E b : /\ b = [i \in 1..n |-> Stage(c, sizes, b, i)]
               /\ Rebuilt(c, sizes) = b[n]
<1> DEFINE T == {k \in Nat : \E b : b = [i \in 1..k |-> Stage(c, sizes, b, i)]}
<1>1. 0 \in T
  <2> DEFINE b == [i \in 1..0 |-> 0]
  <2>1. b = [i \in 1..0 |-> Stage(c, sizes, b, i)]
    <3>1. 1..0 = {}
      OBVIOUS
    <3> QED BY <3>1
  <2> QED BY <2>1
<1>2. ASSUME NEW k \in Nat, k \in T PROVE k + 1 \in T
  <2>1. PICK b : b = [i \in 1..k |-> Stage(c, sizes, b, i)]
    BY <1>2
  <2> DEFINE a == [i \in 1..k + 1 |-> IF i \in 1..k THEN b[i] ELSE Stage(c, sizes, b, i)]
  <2>2. ASSUME NEW i \in 1..k + 1 PROVE a[i] = Stage(c, sizes, a, i)
    <3>1. a[i] = Stage(c, sizes, b, i)
      BY <2>1
    <3>2. i # 1 => i - 1 \in 1..k /\ a[i - 1] = b[i - 1]
      OBVIOUS
    <3> HIDE DEF a
    <3> QED BY <3>1, <3>2 DEF Stage
  <2>3. a = [i \in 1..k + 1 |-> Stage(c, sizes, a, i)]
    BY <2>2
  <2> HIDE DEF a
  <2>4. \E b_ : b_ = [i \in 1..k + 1 |-> Stage(c, sizes, b_, i)]
    BY <2>3
  <2> QED BY <2>4
<1> HIDE DEF T
<1>3. n \in T
  BY <1>1, <1>2, SetInduction
<1> DEFINE P(b) == b = [i \in 1..n |-> Stage(c, sizes, b, i)]
<1>4. \E b : P(b)
  BY <1>3 DEF T
<1>5. P(CHOOSE b : P(b))
  BY <1>4
<1>6. Rebuilt(c, sizes) = (CHOOSE b : P(b))[n]
  BY DEF Rebuilt, Stage
<1> QED BY <1>5, <1>6

(* What the listed consoles are, and that the rest is as before.             *)
IsOf(e, c, n) ==
  /\ ConsoleOK(e) /\ Full(e) /\ e.count = n /\ e.slots = c.slots
  /\ \A f \in {"listCount", "stride", "cursor", "attr", "adding"} : e[f] = c[f]

(* The console behind the listed ones is not one of them.                    *)
Differ(slots, n) == \A i, j \in 1..n : slots[i] = slots[j] => i = j

(* What a removal computes anew is in order, whatever was there before.      *)
LEMMA RebuiltKeeps ==
  ASSUME NEW c, DOMAIN c = Fields, c.slots \in Seq(Dev),
         NEW n \in Nat \ {0}, n <= Len(c.slots), Differ(c.slots, n)
  PROVE  IsOf(Rebuilt(c, [j \in 1..n |-> Sizes[c.slots[j]]]), c, n)
<1> DEFINE sizes == [j \in 1..n |-> Sizes[c.slots[j]]]
<1>1. Len(sizes) = n /\ \A j \in 1..n : sizes[j] = Sizes[c.slots[j]]
  OBVIOUS
<1> HIDE DEF sizes
<1>2. PICK b : b = [i \in 1..n |-> Stage(c, sizes, b, i)] /\ Rebuilt(c, sizes) = b[n]
  BY <1>1, RebuiltUnfolded
<1>3. \A i \in 1..n : b[i] = Stage(c, sizes, b, i)
  BY <1>2
<1>4. Len(c.slots) \in Nat /\ \A j \in 1..n : c.slots[j] \in Dev
  OBVIOUS
<1> DEFINE T == {i \in Nat : i \in 1..n => IsOf(b[i], c, i)}
<1>5. 0 \in T
  OBVIOUS
<1>6. ASSUME NEW k \in Nat, k \in T PROVE k + 1 \in T
  <2> SUFFICES ASSUME k + 1 \in 1..n PROVE IsOf(b[k + 1], c, k + 1)
    OBVIOUS
  <2> DEFINE d == c.slots[k + 1]
  <2>1. d \in Dev /\ sizes[k + 1] = Sizes[d]
    BY <1>1, <1>4
  <2>2. CASE k = 0
    <3>1. b[1] = AddOutputMode(c, Sizes[d]) /\ d = c.slots[1]
      BY <1>3, <2>1, <2>2 DEF Stage
    <3>2. Len(c.slots) > 0
      BY <1>4
    <3> HIDE DEF d
    <3> QED BY <2>1, <2>2, <3>1, <3>2, AddKeeps DEF IsOf
  <2>3. CASE k > 0
    <3>1. b[k + 1] = SyncOutputMode(b[k], Sizes[d]) /\ k \in 1..n
      <4>1. k + 1 # 1 /\ (k + 1) - 1 = k /\ k \in 1..n
        BY <2>3
      <4> QED BY <1>3, <2>1, <4>1 DEF Stage
    <3>2. IsOf(b[k], c, k)
      BY <1>6, <3>1
    <3>3. Follows(b[k], d)
      <4>1. b[k].count = k /\ b[k].slots = c.slots
        BY <3>2 DEF IsOf
      <4>2. \A i \in 1..k : c.slots[i] # d
        BY DEF Differ
      <4> QED BY <1>4, <4>1, <4>2 DEF Follows
    <3> HIDE DEF d
    <3>4. ConsoleOK(b[k]) /\ Full(b[k]) /\ b[k].count = k
      BY <3>2 DEF IsOf
    <3>5. /\ ConsoleOK(b[k + 1]) /\ Full(b[k + 1])
          /\ b[k + 1].count = b[k].count + 1 /\ b[k + 1].slots = b[k].slots
          /\ \A f \in {"listCount", "stride", "cursor", "attr", "adding"} : b[k + 1][f] = b[k][f]
      BY <2>1, <2>3, <3>1, <3>3, <3>4, SyncKeeps
    <3> QED BY <3>2, <3>5 DEF IsOf
  <2> QED BY <2>2, <2>3
<1> HIDE DEF T
<1>7. n \in T
  BY <1>5, <1>6, SetInduction
<1> QED BY <1>2, <1>7 DEF T, sizes

-----------------------------------------------------------------------------
(* A console joins                                                           *)

(* A console that joins: it is the last of the list, and nothing is lost.    *)
LEMMA AddedKeeps ==
  ASSUME NEW c, NEW d \in Dev, ConsoleOK(c), d \notin Listed(c), NEW e, e = Added(c, d)
  PROVE  /\ ConsoleOK(e) /\ (Full(c) => Full(e)) /\ e.count = c.count + 1
         /\ \A i \in 1..c.count : e.slots[i] = c.slots[i]
         /\ e.slots[e.count] = d
         /\ \A S : d \in S /\ c.slots \in Seq(S) => e.slots \in Seq(S)
         /\ e.attr = c.attr
<1>1. /\ DOMAIN c = Fields /\ c.slots \in Seq(Dev) /\ c.count \in Nat /\ c.count <= Len(c.slots)
      /\ Len(c.slots) \in Nat
  BY DEF ConsoleOK, ListOK
<1> DEFINE slots == IF c.count < Len(c.slots) THEN [c.slots EXCEPT ![c.count + 1] = d]
                                             ELSE Append(c.slots, d)
           count == IF ListFull(c) THEN c.listCount + AllocUnit ELSE c.listCount
           f == [c EXCEPT !.mode = Unset, !.adding = TRUE, !.slots = slots,
                          !.listCount = count, !.stride = count]
<1>2. /\ c.count < Len(slots) /\ slots[c.count + 1] = d
      /\ \A i \in 1..c.count : slots[i] = c.slots[i]
      /\ slots \in Seq(Dev)
  BY <1>1
<1>3. ASSUME NEW S, d \in S, c.slots \in Seq(S) PROVE slots \in Seq(S)
  BY <1>1, <1>3
<1> HIDE DEF slots, count
<1>4. /\ DOMAIN f = Fields /\ f.slots = slots /\ f.count = c.count
      /\ f.queryData = c.queryData /\ f.map = c.map /\ f.attr = c.attr
  BY <1>1 DEF Fields
<1>5. e = IF c.count = 0 THEN AddOutputMode(f, Sizes[d]) ELSE SyncOutputMode(f, Sizes[d])
  <2> DEFINE unset == [c EXCEPT !.mode = Unset, !.adding = TRUE, !.slots = slots, !.listCount = count]
  <2>1. e = IF c.count = 0
            THEN AddOutputMode([unset EXCEPT !.stride = unset.listCount], Sizes[d])
            ELSE SyncOutputMode([unset EXCEPT !.stride = unset.listCount], Sizes[d])
    BY Zenon DEF Added, slots, count
  <2>2. [unset EXCEPT !.stride = unset.listCount] = f
    BY <1>1 DEF Fields
  <2> QED BY <2>1, <2>2, Zenon
<1> HIDE DEF f
<1>6. \A i \in 1..c.count : c.slots[i] # d
  BY DEF Listed
<1>7. CASE c.count = 0
  <2>1. Len(slots) > 0 /\ slots[1] = d
    BY <1>2, <1>7
  <2>2. /\ ConsoleOK(e) /\ Full(e) /\ e.count = 1 /\ e.slots = f.slots /\ e.attr = f.attr
    BY <1>2, <1>4, <1>5, <1>7, <2>1, AddKeeps
  <2> QED BY <1>2, <1>3, <1>4, <1>7, <2>1, <2>2
<1>8. CASE c.count > 0
  <2>1. ConsoleOK(f) /\ (Full(c) => Full(f)) /\ Follows(f, d)
    <3>1. ListOK(f)
      <4>1. f.count \in 0..Len(f.slots)
        BY <1>1, <1>2, <1>4
      <4> QED BY <1>2, <1>4, <4>1 DEF ConsoleOK, ListOK
    <3>2. f.slots[1] = c.slots[1] /\ \A i \in 1..f.count : f.slots[i] = c.slots[i]
      BY <1>1, <1>2, <1>4, <1>8
    <3>3. VirtualModes(f) = VirtualModes(c) /\ \A m : SizeOf(f, m) = SizeOf(c, m)
      BY <1>4 DEF VirtualModes, SizeOf
    <3>4. MapOK(f)
      <4>1. QueryOK(f) /\ RowsOK(f) /\ Numbering(f)
        BY <1>4, <1>8, <3>2, <3>3 DEF ConsoleOK, MapOK, QueryOK, RowsOK, Numbering
      <4>2. \A m \in VirtualModes(f), i \in 1..f.count : SoundEntry(f, m, i)
        BY <1>4, <3>2, <3>3 DEF ConsoleOK, MapOK, SoundEntry
      <4> QED BY <4>1, <4>2 DEF MapOK
    <3>5. Full(c) => Full(f)
      BY <1>4, <1>8, <3>2, <3>3 DEF Full
    <3>6. Follows(f, d)
      BY <1>2, <1>4, <1>6 DEF Follows
    <3> QED BY <3>1, <3>4, <3>5, <3>6 DEF ConsoleOK
  <2>2. f.count > 0 /\ e = SyncOutputMode(f, Sizes[d])
    BY <1>4, <1>5, <1>8
  <2>3. /\ ConsoleOK(e) /\ (Full(f) => Full(e)) /\ e.count = f.count + 1 /\ e.slots = f.slots
        /\ e.attr = f.attr
    BY <2>1, <2>2, SyncKeeps
  <2> QED BY <1>2, <1>3, <1>4, <2>1, <2>3
<1> QED BY <1>1, <1>7, <1>8

-----------------------------------------------------------------------------
(* A console leaves                                                          *)

(* The tables without consoles are in order.                                 *)
LEMMA EmptyKeeps ==
  ASSUME NEW c, DOMAIN c = Fields, c.slots \in Seq(Dev), NEW e, e = NoConsoles(c)
  PROVE  ConsoleOK(e) /\ Full(e) /\ e.count = 0 /\ e.slots = c.slots
<1>1. /\ DOMAIN e = Fields /\ e.slots = c.slots /\ e.count = 0 /\ e.map = [m \in {0} |-> <<>>]
  BY DEF NoConsoles, Fields
<1>2. ListOK(e)
  BY <1>1 DEF ListOK
<1>3. VirtualModes(e) = {0} /\ Numbering(e)
  <2>1. {0} = 0..1 - 1 /\ 1 \in Nat \ {0}
    OBVIOUS
  <2>2. VirtualModes(e) = {0}
    BY <1>1 DEF VirtualModes
  <2> QED BY <2>1, <2>2 DEF Numbering
<1>4. MapOK(e) /\ Full(e)
  BY <1>1, <1>3 DEF MapOK, Full
<1> QED BY <1>1, <1>2, <1>4 DEF ConsoleOK

(* A console that leaves: the others stay, in their order.                   *)
LEMMA RemovedKeeps ==
  ASSUME NEW c, ConsoleOK(c), NEW d \in Listed(c), NEW e, e = Removed(c, d)
  PROVE  /\ ConsoleOK(e) /\ Full(e) /\ Listed(e) \in SUBSET (Listed(c) \ {d})
         /\ \A S : c.slots \in Seq(S) => e.slots \in Seq(S)
<1>1. /\ DOMAIN c = Fields /\ c.slots \in Seq(Dev) /\ c.count \in Nat /\ c.count <= Len(c.slots)
      /\ Len(c.slots) \in Nat /\ \A i, j \in 1..c.count : c.slots[i] = c.slots[j] => i = j
  BY DEF ConsoleOK, ListOK
<1> DEFINE at == IndexIn(c, d)
<1>2. at \in 1..c.count /\ c.slots[at] = d
  BY DEF IndexIn, Listed
<1> HIDE DEF at
<1> DEFINE slots == [j \in DOMAIN c.slots |-> IF at <= j /\ j < c.count
                                              THEN c.slots[j + 1] ELSE c.slots[j]]
           n == c.count - 1
           left == [c EXCEPT !.count = n, !.slots = slots]
           fits == [c EXCEPT !.count = n, !.slots = slots, !.stride = c.listCount]
<1>3. /\ n \in Nat /\ n <= Len(c.slots) /\ at \in Int /\ 1 <= at /\ at <= c.count
      /\ n = 0 \/ n \in Nat \ {0}
  BY <1>1, <1>2
<1>4. ASSUME NEW S, c.slots \in Seq(S) PROVE slots \in Seq(S) /\ Len(slots) = Len(c.slots)
  <2>1. DOMAIN c.slots = 1..Len(c.slots) /\ \A j \in 1..Len(c.slots) : c.slots[j] \in S
    BY <1>1, <1>4
  <2>2. \A j \in 1..Len(c.slots) : slots[j] \in S
    <3>1. \A j \in 1..Len(c.slots) : j < c.count => j + 1 \in 1..Len(c.slots)
      BY <1>1
    <3> QED BY <2>1, <3>1
  <2>3. slots \in [1..Len(c.slots) -> S]
    BY <2>1, <2>2
  <2> HIDE DEF slots
  <2> QED BY <1>1, <2>3
<1>5. \A j \in 1..n : slots[j] = IF at <= j THEN c.slots[j + 1] ELSE c.slots[j]
  BY <1>1, <1>3
<1> HIDE DEF slots
<1>6. ASSUME NEW j \in 1..n
      PROVE  /\ \E i \in 1..c.count : i # at /\ slots[j] = c.slots[i]
             /\ slots[j] \in Listed(c) \ {d}
  <2>1. \E i \in 1..c.count : i # at /\ slots[j] = c.slots[i]
    <3>1. CASE at <= j
      <4>1. j + 1 \in 1..c.count /\ j + 1 # at /\ slots[j] = c.slots[j + 1]
        BY <1>1, <1>3, <1>5, <3>1
      <4> QED BY <4>1
    <3>2. CASE ~(at <= j)
      <4>1. j \in 1..c.count /\ j # at /\ slots[j] = c.slots[j]
        BY <1>1, <1>3, <1>5, <3>2
      <4> QED BY <4>1
    <3> QED BY <3>1, <3>2
  <2> QED BY <1>1, <1>2, <2>1 DEF Listed
<1>7. Differ(slots, n)
  <2> SUFFICES ASSUME NEW i \in 1..n, NEW j \in 1..n, slots[i] = slots[j] PROVE i = j
    BY DEF Differ
  <2> DEFINE up(k) == IF at <= k THEN k + 1 ELSE k
  <2>1. up(i) \in 1..c.count /\ up(j) \in 1..c.count
    BY <1>1, <1>3
  <2>2. c.slots[up(i)] = c.slots[up(j)]
    BY <1>5
  <2>3. up(i) = up(j)
    BY <1>1, <2>1, <2>2
  <2> QED BY <1>3, <2>3
<1>8. /\ DOMAIN left = Fields /\ left.slots = slots /\ left.count = n
      /\ DOMAIN fits = Fields /\ fits.slots = slots
      /\ fits = [left EXCEPT !.stride = left.listCount]
  BY <1>1 DEF Fields
<1>9. e = IF left.count = 0 THEN NoConsoles(left)
          ELSE Rebuilt([left EXCEPT !.stride = left.listCount],
                       [j \in 1..left.count |-> Sizes[left.slots[j]]])
  BY Zenon DEF Removed, at, slots
<1> HIDE DEF left, fits
<1>10. slots \in Seq(Dev)
  BY <1>1, <1>4
<1>11. CASE n = 0
  <2>1. e = NoConsoles(left)
    BY <1>8, <1>9, <1>11
  <2>2. ConsoleOK(e) /\ Full(e) /\ e.count = 0 /\ e.slots = slots
    BY <1>8, <1>10, <2>1, EmptyKeeps
  <2>3. Listed(e) = {}
    BY <2>2 DEF Listed
  <2> QED BY <1>4, <2>2, <2>3
<1>12. CASE n # 0
  <2>1. e = Rebuilt(fits, [j \in 1..n |-> Sizes[fits.slots[j]]])
    BY <1>8, <1>9, <1>12
  <2>2. IsOf(e, fits, n)
    <3>1. /\ DOMAIN fits = Fields /\ fits.slots \in Seq(Dev) /\ n \in Nat \ {0}
          /\ n <= Len(fits.slots) /\ Differ(fits.slots, n)
      BY <1>1, <1>3, <1>4, <1>7, <1>8, <1>10, <1>12
    <3> HIDE DEF n
    <3> QED BY <2>1, <3>1, RebuiltKeeps
  <2>3. ConsoleOK(e) /\ Full(e) /\ e.count = n /\ e.slots = slots
    BY <1>8, <2>2 DEF IsOf
  <2>4. Listed(e) \in SUBSET (Listed(c) \ {d})
    BY <1>6, <2>3 DEF Listed
  <2> QED BY <1>4, <2>3, <2>4
<1> QED BY <1>3, <1>11, <1>12

-----------------------------------------------------------------------------
(* The steps of a call                                                       *)

(* The fields of what a call changes.                                        *)
Shape(st) ==
  /\ DOMAIN st = {"con", "dev"}
  /\ DOMAIN st.con = Splitters /\ \A s \in Splitters : DOMAIN st.con[s] = Fields
  /\ DOMAIN st.dev = Dev /\ \A d \in Dev : DOMAIN st.dev[d] = {"mode", "attr"}

(* Both splitters are in order, and all slots, also those behind the lists,  *)
(* hold consoles that carry the guid.                                        *)
Good(st) ==
  /\ Shape(st)
  /\ \A s \in Splitters : ConsoleOK(st.con[s]) /\ st.con[s].slots \in Seq(Carrying(s))

(* Both splitters list the same consoles.                                    *)
SameLists(st, r) ==
  \A s \in Splitters : r.con[s].slots = st.con[s].slots /\ r.con[s].count = st.con[s].count

(* Neither splitter misses a mode.                                           *)
Lossless(st) == \A s \in Splitters : Full(st.con[s])

(* With a console shared from the first slot on, neither splitter offers a   *)
(* size that the other does not have.                                        *)
Synced(st) ==
  LET out == st.con["ConOut"]
      err == st.con["StdErr"]
  IN out.count > 0 /\ out.slots[1] \in Listed(err) =>
       Offered(out) \subseteq Told(err) /\ Offered(err) \subseteq Told(out)

(* Nothing is listed, unlisted or lost, and no table is touched.             *)
Keeps(st, r) ==
  /\ Good(r) /\ \A s \in Splitters : SameTables(st.con[s], r.con[s])
  /\ SameLists(st, r) /\ (Lossless(st) => Lossless(r)) /\ (Synced(st) => Synced(r))

(* One step after another.                                                   *)
LEMMA KeepsChains ==
  ASSUME NEW st, NEW r, NEW q, Keeps(st, r), Keeps(r, q)
  PROVE  Keeps(st, q)
BY DEF Keeps, SameLists, SameTables

(* A step that leaves the lists and tables alone keeps everything.           *)
LEMMA SameTablesKeep ==
  ASSUME NEW st, NEW r, Good(st), Shape(r), \A s \in Splitters : SameTables(st.con[s], r.con[s])
  PROVE  Keeps(st, r)
<1>1. ASSUME NEW s \in Splitters
      PROVE  /\ ConsoleOK(r.con[s]) /\ r.con[s].slots = st.con[s].slots
             /\ r.con[s].count = st.con[s].count /\ (Full(st.con[s]) => Full(r.con[s]))
  <2>1. ConsoleOK(st.con[s]) /\ SameTables(st.con[s], r.con[s])
    BY DEF Good
  <2>2. ConsoleOK(r.con[s])
    BY <2>1, ConsoleOKKept
  <2> QED BY <2>1, <2>2 DEF SameTables, Full, VirtualModes
<1>2. Synced(st) => Synced(r)
  <2>1. "ConOut" \in Splitters /\ "StdErr" \in Splitters
    BY DEF Splitters
  <2>2. \A s \in Splitters : /\ Listed(r.con[s]) = Listed(st.con[s])
                             /\ Offered(r.con[s]) = Offered(st.con[s])
                             /\ Told(r.con[s]) = Told(st.con[s])
    BY DEF SameTables, Listed, Offered, Told, VirtualModes, SizeOf
  <2> QED BY <1>1, <2>1, <2>2 DEF Synced
<1> QED BY <1>1, <1>2 DEF Keeps, Good, SameLists, Lossless

(* A splitter may get any mode, cursor, attribute and AddingConOutDevice,    *)
(* and the consoles any modes and attributes.                                *)
Patched(c, e) ==
  /\ DOMAIN e = Fields
  /\ \A f \in Fields \ {"mode", "cursor", "attr", "adding", "listCount"} : e[f] = c[f]

(* So does one that changes only those.                                      *)
LEMMA PatchedKeeps ==
  ASSUME NEW st, NEW r, Good(st), Shape(r), NEW s \in Splitters,
         Patched(st.con[s], r.con[s]), \A t \in Splitters \ {s} : r.con[t] = st.con[t]
  PROVE  Keeps(st, r)
<1>1. ASSUME NEW t \in Splitters PROVE SameTables(st.con[t], r.con[t])
  <2>1. DOMAIN st.con[t] = Fields
    BY DEF Good, Shape
  <2>2. CASE t = s
    BY <2>2 DEF Patched, SameTables, Fields
  <2>3. CASE t # s
    BY <2>1, <2>3 DEF SameTables
  <2> QED BY <2>2, <2>3
<1> QED BY <1>1, SameTablesKeep

(* Each step of a call is of that kind, but for the intersection of the two. *)
LEMMA ClearScreenKeeps ==
  ASSUME NEW st, Good(st), NEW s \in Splitters, NEW F
  PROVE  Keeps(st, ClearScreenFn(st, s, F).st)
<1> DEFINE r == ClearScreenFn(st, s, F).st
<1>1. Shape(st)
  BY DEF Good
<1>2. r = [st EXCEPT !.con[s].cursor = Origin]
  BY DEF ClearScreenFn
<1>3. Shape(r) /\ Patched(st.con[s], r.con[s]) /\ \A t \in Splitters \ {s} : r.con[t] = st.con[t]
  BY <1>1, <1>2 DEF Shape, Patched, Fields
<1> HIDE DEF r
<1> QED BY <1>3, PatchedKeeps DEF r

(* The attribute reaches every listed console that works.                    *)
LEMMA SetAttributeKeeps ==
  ASSUME NEW st, Good(st), NEW s \in Splitters, NEW a, NEW F, NEW r, r = SetAttributeFn(st, s, a, F).st
  PROVE  /\ Keeps(st, r) /\ r.con = [st.con EXCEPT ![s].attr = a]
         /\ \A d \in Listed(st.con[s]) \ F : d \in Dev => r.dev[d].attr = a
<1>1. Shape(st)
  BY DEF Good
<1>2. r = [con |-> [st.con EXCEPT ![s].attr = a],
           dev |-> [d \in Dev |-> IF d \in Listed(st.con[s]) \ F
                                  THEN [st.dev[d] EXCEPT !.attr = a] ELSE st.dev[d]]]
  BY DEF SetAttributeFn
<1>3. Shape(r) /\ Patched(st.con[s], r.con[s]) /\ \A t \in Splitters \ {s} : r.con[t] = st.con[t]
  BY <1>1, <1>2 DEF Shape, Patched, Fields
<1>4. \A d \in Listed(st.con[s]) \ F : d \in Dev => r.dev[d].attr = a
  BY <1>1, <1>2 DEF Shape
<1>5. r.con = [st.con EXCEPT ![s].attr = a]
  BY <1>2
<1>6. Keeps(st, r)
  BY <1>3, PatchedKeeps
<1> QED BY <1>4, <1>5, <1>6

(* A mode is looked up in the map, never entered there.                      *)
LEMMA SetModeKeeps ==
  ASSUME NEW st, Good(st), NEW s \in Splitters, NEW m, NEW F
  PROVE  Keeps(st, SetModeFn(st, s, m, F).st)
<1> DEFINE c     == st.con[s]
           to(d) == c.map[m][IndexIn(c, d)]
           told  == {d \in Listed(c) : ~c.adding \/ to(d) # st.dev[d].mode}
           set   == {d \in told \ F : Supports(d, to(d))}
           r == SetModeFn(st, s, m, F).st
<1>1. Shape(st)
  BY DEF Good
<1>2. r = IF m \notin VirtualModes(c) THEN st
          ELSE IF m = c.mode THEN ClearScreenFn(st, s, F).st
          ELSE [con |-> [st.con EXCEPT ![s].mode = m, ![s].cursor = Origin],
                dev |-> [d \in Dev |-> IF d \in set THEN [st.dev[d] EXCEPT !.mode = to(d)]
                                                    ELSE st.dev[d]]]
  BY Zenon DEF SetModeFn
<1> HIDE DEF r, set, told, to
<1>3. CASE m \notin VirtualModes(c)
  <2>1. r = st
    BY <1>2, <1>3
  <2>2. \A t \in Splitters : SameTables(st.con[t], r.con[t])
    BY <1>1, <2>1 DEF SameTables, Shape
  <2> QED BY <1>1, <2>1, <2>2, SameTablesKeep DEF r
<1>4. CASE m \in VirtualModes(c) /\ m = c.mode
  BY <1>2, <1>4, ClearScreenKeeps DEF r
<1>5. CASE m \in VirtualModes(c) /\ m # c.mode
  <2>1. r = [con |-> [st.con EXCEPT ![s].mode = m, ![s].cursor = Origin],
             dev |-> [d \in Dev |-> IF d \in set THEN [st.dev[d] EXCEPT !.mode = to(d)]
                                                 ELSE st.dev[d]]]
    BY <1>2, <1>5, Zenon
  <2>2. Shape(r) /\ Patched(st.con[s], r.con[s]) /\ \A t \in Splitters \ {s} : r.con[t] = st.con[t]
    BY <1>1, <2>1 DEF Shape, Patched, Fields
  <2> QED BY <2>2, PatchedKeeps DEF r
<1> QED BY <1>3, <1>4, <1>5

(* Neither the preferred mode nor the fallback changes the map.              *)
LEMMA SetConsoleOutModeKeeps ==
  ASSUME NEW st, Good(st), NEW s \in Splitters, NEW F, NEW G
  PROVE  Keeps(st, SetConsoleOutMode(st, s, F, G).st)
<1> DEFINE first == SetModeFn(st, s, Preferred(st.con[s]), F)
           base  == SetModeFn(first.st, s, LastOfSize(st.con[s], <<90, 80>>), G)
<1>1. SetConsoleOutMode(st, s, F, G).st = IF first.ok THEN first.st ELSE base.st
  BY DEF SetConsoleOutMode
<1>2. Keeps(st, first.st)
  BY SetModeKeeps
<1> HIDE DEF first
<1>3. Keeps(first.st, base.st)
  BY <1>2, SetModeKeeps DEF Keeps
<1> QED BY <1>1, <1>2, <1>3, KeepsChains

(* The intersection with the modes of the other splitter may lose modes.     *)
LEMMA NarrowedKeeps ==
  ASSUME NEW st, Good(st), NEW s \in Splitters, NEW supported, NEW F
  PROVE  /\ Good(Narrowed(st, s, supported, F))
         /\ SameLists(st, Narrowed(st, s, supported, F))
         /\ SameTables(GetIntersection(st.con[s], supported), Narrowed(st, s, supported, F).con[s])
         /\ \A t \in Splitters \ {s} : SameTables(st.con[t], Narrowed(st, s, supported, F).con[t])
<1> DEFINE c   == st.con[s]
           e   == GetIntersection(c, supported)
           cut == [st EXCEPT !.con[s] = e]
<1>1. Shape(st) /\ ConsoleOK(c) /\ DOMAIN c = Fields /\ Numbering(c)
  BY DEF Good, Shape, ConsoleOK, MapOK
<1>2. ConsoleOK(e)
  <2>1. ListOK(c) /\ MapOKWhere(c, supported)
    BY <1>1 DEF ConsoleOK, MapOK, MapOKWhere, Kept
  <2> HIDE DEF c
  <2> QED BY <2>1, IntersectionKeeps
<1>3. DOMAIN e = Fields /\ \A f \in Fields \ {"map", "mode"} : e[f] = c[f]
  <2> HIDE DEF c
  <2> QED BY <1>1, IntersectionRows
<1>4. e.slots = c.slots /\ e.count = c.count
  BY <1>3 DEF Fields
<1> HIDE DEF e
<1>5. /\ DOMAIN cut = {"con", "dev"} /\ cut.dev = st.dev /\ DOMAIN cut.con = Splitters
      /\ cut.con[s] = e /\ \A t \in Splitters \ {s} : cut.con[t] = st.con[t]
  BY <1>1 DEF Shape
<1> HIDE DEF cut
<1>6. Good(cut) /\ SameLists(st, cut)
  <2>1. Shape(cut)
    BY <1>1, <1>3, <1>5 DEF Shape
  <2>2. ASSUME NEW t \in Splitters
        PROVE  /\ ConsoleOK(cut.con[t]) /\ cut.con[t].slots = st.con[t].slots
               /\ cut.con[t].count = st.con[t].count
    <3>1. CASE t = s
      BY <1>2, <1>4, <1>5, <3>1
    <3>2. CASE t # s
      BY <1>5, <3>2 DEF Good
    <3> QED BY <3>1, <3>2
  <2> QED BY <2>1, <2>2 DEF Good, SameLists
<1>7. Narrowed(st, s, supported, F) = IF cut.con[s].mode < 0 THEN SetModeFn(cut, s, 0, F).st ELSE cut
  BY DEF Narrowed, cut, e
<1>8. Keeps(cut, SetModeFn(cut, s, 0, F).st)
  BY <1>6, SetModeKeeps
<1> DEFINE r == Narrowed(st, s, supported, F)
<1>9. r = SetModeFn(cut, s, 0, F).st \/ r = cut
  BY <1>7
<1> HIDE DEF r
<1>10. Good(r) /\ SameLists(st, r) /\ \A t \in Splitters : SameTables(cut.con[t], r.con[t])
  <2>1. \A t \in Splitters : SameTables(cut.con[t], cut.con[t])
    BY <1>6 DEF SameTables, Good, Shape
  <2> QED BY <1>6, <1>8, <1>9, <2>1 DEF Keeps, SameLists
<1>11. SameTables(e, r.con[s]) /\ \A t \in Splitters \ {s} : SameTables(st.con[t], r.con[t])
  BY <1>5, <1>10
<1> QED BY <1>10, <1>11 DEF r, e

(* An intersection keeps the rows that are supported and those of the first  *)
(* two modes.                                                                *)
LEMMA RowsKept ==
  ASSUME NEW c, ConsoleOK(c), NEW supported, NEW m \in VirtualModes(c), m < 2 \/ m \in supported
  PROVE  \E k \in VirtualModes(GetIntersection(c, supported)) :
           GetIntersection(c, supported).map[k] = c.map[m]
<1> DEFINE K == Kept(c, supported)
           e == GetIntersection(c, supported)
<1>1. DOMAIN c = Fields /\ Numbering(c) /\ m \in K
  BY DEF ConsoleOK, ListOK, MapOK, Kept
<1>2. K \in SUBSET Nat /\ IsFiniteSet(K)
  BY <1>1, KeptNumbers
<1>3. /\ VirtualModes(e) = 0..Cardinality(K) - 1
      /\ \A k \in VirtualModes(e) : e.map[k] = c.map[Nth(K, k)]
  BY <1>1, IntersectionRows
<1> DEFINE k == Cardinality(Below(K, m))
<1>4. k \in 0..Cardinality(K) - 1 /\ Nth(K, k) = m
  BY <1>1, <1>2, NthOrder
<1> QED BY <1>3, <1>4

(* Of the sizes that an intersection leaves, those of the modes behind the   *)
(* first two are sizes of supported modes; no size of a supported mode, or   *)
(* of the first two, is lost.                                                *)
LEMMA OfferedAfter ==
  ASSUME NEW c, ConsoleOK(c), c.count > 0, NEW supported,
         NEW e, SameTables(GetIntersection(c, supported), e)
  PROVE  /\ \A size \in Offered(e) : \E m \in VirtualModes(c) : m \in supported /\ SizeOf(c, m) = size
         /\ \A m \in VirtualModes(c) : m < 2 \/ m \in supported => SizeOf(c, m) \in Told(e)
<1> DEFINE cut == GetIntersection(c, supported)
<1>1. ListOK(c) /\ MapOKWhere(c, supported) /\ DOMAIN c = Fields /\ Numbering(c)
  BY DEF ConsoleOK, MapOK, MapOKWhere, Kept, ListOK
<1>2. /\ ConsoleOK(cut)
      /\ \A k \in VirtualModes(cut) : k >= 2 =>
           \E m \in VirtualModes(c) : m >= 2 /\ m \in supported /\ cut.map[k] = c.map[m]
  BY <1>1, IntersectionKeeps
<1>3. \A f \in Fields \ {"map", "mode"} : cut[f] = c[f]
  BY <1>1, IntersectionRows
<1>4. \A m \in VirtualModes(c) : m < 2 \/ m \in supported =>
        \E k \in VirtualModes(cut) : cut.map[k] = c.map[m]
  BY RowsKept
<1> HIDE DEF cut
<1>5. cut.count = c.count /\ cut.queryData = c.queryData
  BY <1>3 DEF Fields
<1>6. VirtualModes(e) = VirtualModes(cut) /\ \A m : SizeOf(e, m) = SizeOf(cut, m)
  BY DEF SameTables, VirtualModes, SizeOf, cut
<1>7. \A k, m : cut.map[k] = c.map[m] => SizeOf(cut, k) = SizeOf(c, m)
  BY <1>5 DEF SizeOf
<1>8. \A k \in VirtualModes(e) : k \notin {0, 1} => k >= 2
  BY <1>2, <1>6 DEF ConsoleOK, MapOK, Numbering
<1>9. ASSUME NEW size \in Offered(e)
      PROVE  \E m \in VirtualModes(c) : m \in supported /\ SizeOf(c, m) = size
  <2>1. PICK k \in VirtualModes(e) \ {0, 1} : size = SizeOf(e, k)
    BY DEF Offered
  <2>2. k \in VirtualModes(cut) /\ k >= 2
    BY <1>6, <1>8, <2>1
  <2>3. PICK m \in VirtualModes(c) : m \in supported /\ cut.map[k] = c.map[m]
    BY <1>2, <2>2
  <2> QED BY <1>6, <1>7, <2>1, <2>3
<1>10. ASSUME NEW m \in VirtualModes(c), m < 2 \/ m \in supported PROVE SizeOf(c, m) \in Told(e)
  <2>1. PICK k \in VirtualModes(cut) : cut.map[k] = c.map[m]
    BY <1>4, <1>10
  <2> QED BY <1>6, <1>7, <2>1 DEF Told
<1> QED BY <1>9, <1>10

(* A size that a splitter has is that of its first mode of the size.         *)
LEMMA FirstOfSize ==
  ASSUME NEW c, ConsoleOK(c), NEW m \in VirtualModes(c)
  PROVE  \E l \in VirtualModes(c) : IsFirst(c, l, SizeOf(c, m))
<1> DEFINE T == {l \in VirtualModes(c) : SizeOf(c, l) = SizeOf(c, m)}
<1>1. VirtualModes(c) \in SUBSET Nat
  BY DEF ConsoleOK, MapOK, Numbering
<1>2. T \in SUBSET Nat /\ T # {}
  BY <1>1
<1>3. PICK l \in T : \A k \in T : l <= k
  BY <1>2, LeastNumber
<1>4. ASSUME NEW k \in VirtualModes(c), k < l PROVE SizeOf(c, k) # SizeOf(c, m)
  BY <1>1, <1>3, <1>4
<1> QED BY <1>3, <1>4 DEF IsFirst

(* Consoles that neither splitter shares are found in no scan, also not      *)
(* where it runs on behind the list.                                         *)
Apart == ConOutDev \cap StdErrDev = {}

(* Where ConOut's first console is in both lists, neither splitter offers a  *)
(* size afterwards that the other does not have.                             *)
LEMMA IntersectBothKeeps ==
  ASSUME NEW st, Good(st), NEW F, NEW r, r = IntersectBoth(st, F)
  PROVE  /\ Good(r) /\ SameLists(st, r) /\ (Apart => r = st)
         /\ Synced(r)
<1> DEFINE out   == st.con["ConOut"]
           err   == st.con["StdErr"]
           inErr == {m \in VirtualModes(out) :
                       \E k \in VirtualModes(err) : SameSize(err, k, SizeOf(out, m))}
           inOut == {k \in VirtualModes(err) :
                       \E m \in VirtualModes(out) : IsFirst(err, k, SizeOf(out, m))}
<1>1. r = IF SeenInBoth(out, err)
          THEN Narrowed(Narrowed(st, "ConOut", inErr, F), "StdErr", inOut, F)
          ELSE st
  BY Zenon DEF IntersectBoth
<1>2. Apart => ~SeenInBoth(out, err)
  <2> SUFFICES ASSUME Apart, SeenInBoth(out, err) PROVE FALSE
    OBVIOUS
  <2>1. /\ out.slots \in Seq(ConOutDev) /\ out.count \in 0..Len(out.slots)
        /\ err.slots \in Seq(StdErrDev)
    BY DEF Good, Carrying, Splitters, ConsoleOK, ListOK
  <2>2. PICK i \in 1..out.count, p \in DOMAIN err.slots : out.slots[i] = err.slots[p]
    BY DEF SeenInBoth
  <2>3. out.slots[i] \in ConOutDev /\ err.slots[p] \in StdErrDev
    BY <2>1
  <2> QED BY <2>2, <2>3 DEF Apart
<1> HIDE DEF inErr, inOut
<1> DEFINE one == Narrowed(st, "ConOut", inErr, F)
           two == Narrowed(one, "StdErr", inOut, F)
<1>3. /\ Good(one) /\ SameLists(st, one)
      /\ SameTables(GetIntersection(out, inErr), one.con["ConOut"])
      /\ SameTables(err, one.con["StdErr"])
  BY NarrowedKeeps DEF Splitters
<1> HIDE DEF one
<1>4. /\ Good(two) /\ SameLists(one, two)
      /\ SameTables(GetIntersection(one.con["StdErr"], inOut), two.con["StdErr"])
      /\ SameTables(one.con["ConOut"], two.con["ConOut"])
  BY <1>3, NarrowedKeeps DEF Splitters
<1>5. Good(two) /\ SameLists(st, two)
  BY <1>3, <1>4 DEF SameLists
<1>6. r = IF SeenInBoth(out, err) THEN two ELSE st
  BY <1>1 DEF one
<1>7. SameLists(st, st)
  BY DEF SameLists
<1> HIDE DEF two
<1>8. Synced(r)
  <2> DEFINE shared == r.con["ConOut"].count > 0 /\
                       r.con["ConOut"].slots[1] \in Listed(r.con["StdErr"])
  <2> SUFFICES ASSUME shared
               PROVE  /\ Offered(r.con["ConOut"]) \subseteq Told(r.con["StdErr"])
                      /\ Offered(r.con["StdErr"]) \subseteq Told(r.con["ConOut"])
    BY DEF Synced
  <2>1. /\ ConsoleOK(out) /\ ConsoleOK(err) /\ out.count > 0
        /\ out.slots[1] \in Listed(err) /\ out.count \in Nat /\ err.count \in Nat
        /\ err.count <= Len(err.slots) /\ err.slots \in Seq(Dev)
    <3>1. ConsoleOK(out) /\ ConsoleOK(err)
      BY DEF Good, Splitters
    <3>2. out.count > 0 /\ out.slots[1] \in Listed(err)
      BY <1>5, <1>6, <1>7 DEF SameLists, Splitters, Listed
    <3> QED BY <3>1, <3>2 DEF ConsoleOK, ListOK
  <2>2. PICK j \in 1..err.count : err.slots[j] = out.slots[1]
    BY <2>1 DEF Listed
  <2>3. err.count > 0
    BY <2>1
  <2>4. SeenInBoth(out, err)
    <3>1. 1 \in 1..out.count /\ (1 - 1) * err.count + j = j
      BY <2>1
    <3>2. j \in DOMAIN err.slots
      BY <2>1
    <3> QED BY <2>2, <3>1, <3>2 DEF SeenInBoth
  <2>5. /\ SameTables(GetIntersection(out, inErr), r.con["ConOut"])
        /\ SameTables(err, one.con["StdErr"])
        /\ SameTables(GetIntersection(one.con["StdErr"], inOut), r.con["StdErr"])
    BY <1>3, <1>4, <1>6, <2>4 DEF SameTables
  <2> DEFINE e == one.con["StdErr"]
  <2>6. /\ ConsoleOK(e) /\ e.count > 0 /\ VirtualModes(e) = VirtualModes(err)
        /\ \A k : SizeOf(e, k) = SizeOf(err, k)
    <3>1. ConsoleOK(e)
      BY <1>3 DEF Good, Splitters
    <3> QED BY <2>3, <2>5, <3>1 DEF SameTables, VirtualModes, SizeOf
  <2> HIDE DEF e
  <2>7. /\ \A size \in Offered(r.con["ConOut"]) :
             \E m \in VirtualModes(out) : m \in inErr /\ SizeOf(out, m) = size
        /\ \A m \in VirtualModes(out) : m < 2 \/ m \in inErr => SizeOf(out, m) \in Told(r.con["ConOut"])
    BY <2>1, <2>5, OfferedAfter
  <2>8. /\ \A size \in Offered(r.con["StdErr"]) :
             \E k \in VirtualModes(err) : k \in inOut /\ SizeOf(err, k) = size
        /\ \A k \in VirtualModes(err) : k < 2 \/ k \in inOut => SizeOf(err, k) \in Told(r.con["StdErr"])
    <3>1. /\ \A size \in Offered(r.con["StdErr"]) :
               \E k \in VirtualModes(e) : k \in inOut /\ SizeOf(e, k) = size
          /\ \A k \in VirtualModes(e) : k < 2 \/ k \in inOut => SizeOf(e, k) \in Told(r.con["StdErr"])
      BY <2>5, <2>6, OfferedAfter DEF e
    <3> QED BY <2>6, <3>1
  <2>9. ASSUME NEW size \in Offered(r.con["ConOut"]) PROVE size \in Told(r.con["StdErr"])
    <3>1. PICK m \in VirtualModes(out) : m \in inErr /\ SizeOf(out, m) = size
      BY <2>7
    <3>2. PICK k \in VirtualModes(err) : SizeOf(err, k) = SizeOf(out, m)
      BY <3>1 DEF inErr, SameSize
    <3>3. PICK l \in VirtualModes(err) : IsFirst(err, l, SizeOf(err, k))
      BY <2>1, FirstOfSize
    <3>4. l \in inOut /\ SizeOf(err, l) = size
      BY <3>1, <3>2, <3>3 DEF inOut, IsFirst
    <3> QED BY <2>8, <3>4
  <2>10. ASSUME NEW size \in Offered(r.con["StdErr"]) PROVE size \in Told(r.con["ConOut"])
    <3>1. PICK k \in VirtualModes(err) : k \in inOut /\ SizeOf(err, k) = size
      BY <2>8
    <3>2. PICK m \in VirtualModes(out) : SizeOf(err, k) = SizeOf(out, m)
      BY <3>1 DEF inOut, IsFirst
    <3>3. m \in inErr
      BY <3>2 DEF inErr, SameSize
    <3> QED BY <2>7, <3>1, <3>2, <3>3
  <2> QED BY <2>9, <2>10
<1> QED BY <1>2, <1>5, <1>6, <1>7, <1>8

-----------------------------------------------------------------------------
(* The inductive invariant: both splitters' lists and tables are in order,   *)
(* they list open consoles only, and no mode is missing as long as no        *)
(* console is offered to both.                                               *)

ConsolesInv ==
  /\ Good(Now)
  /\ DOMAIN opened = Splitters
  /\ \A s \in Splitters : Listed(con[s]) \subseteq opened[s] /\ opened[s] \subseteq Carrying(s)
  /\ Apart => Lossless(Now)
  /\ ~MayRunOut => Synced(Now)

(* From the steps of a call to the state after it.                           *)
LEMMA GoodNow ==
  ASSUME NEW r, Takes(r), Shape(r)
  PROVE  /\ Good(r) => Good(Now)'
         /\ Lossless(r) => Lossless(Now)'
         /\ Synced(r) => Synced(Now)'
         /\ \A s \in Splitters : con'[s] = r.con[s]
<1>1. con' = r.con /\ dev' = r.dev
  BY DEF Takes
<1>2. Now' = [con |-> r.con, dev |-> r.dev]
  BY <1>1 DEF Now
<1>3. Now'.con = r.con /\ Now'.dev = r.dev /\ DOMAIN Now' = {"con", "dev"}
  BY <1>2
<1>4. Good(r) => Good(Now')
  BY <1>3 DEF Good, Shape
<1>5. Lossless(r) => Lossless(Now')
  BY <1>3 DEF Lossless
<1>6. Synced(r) => Synced(Now')
  BY <1>3 DEF Synced
<1> QED BY <1>1, <1>4, <1>5, <1>6 DEF Good, Lossless, Synced, Shape, Now

(* The listed consoles follow from the slots and the count.                  *)
LEMMA ListedOf ==
  ASSUME NEW c, NEW e, e.slots = c.slots, e.count = c.count
  PROVE  Listed(e) = Listed(c)
BY DEF Listed

(* A call that lists and unlists nothing.                                    *)
LEMMA KeepsStep ==
  ASSUME ConsolesInv, NEW r, Keeps(Now, r), Takes(r), UNCHANGED opened
  PROVE  ConsolesInv'
<1>1. /\ Good(Now)' /\ (Lossless(r) => Lossless(Now)') /\ (Synced(r) => Synced(Now)')
      /\ \A s \in Splitters : con'[s] = r.con[s]
  BY GoodNow DEF Keeps, Good
<1>2. \A s \in Splitters : Listed(con'[s]) = Listed(con[s])
  BY <1>1, ListedOf DEF Keeps, SameLists, Now
<1> QED BY <1>1, <1>2 DEF ConsolesInv, Keeps

(* A call that is refused.                                                   *)
LEMMA KeepsItself ==
  ASSUME NEW st, Good(st)
  PROVE  Keeps(st, st)
BY DEF Keeps, SameLists, SameTables, Good, Shape

(* The constructor establishes the invariant.                                *)
LEMMA InitConsolesInv == Init => ConsolesInv
<1> SUFFICES ASSUME Init PROVE ConsolesInv
  OBVIOUS
<1> DEFINE c == [slots |-> <<>>, count |-> 0, listCount |-> AllocUnit, stride |-> AllocUnit,
                 queryData |-> <<>>, map |-> <<>>, mode |-> 0, cursor |-> Origin, attr |-> 0,
                 adding |-> FALSE]
<1>1. /\ con = [s \in Splitters |-> NoConsoles(c)]
      /\ opened = [s \in Splitters |-> {}]
      /\ dev = [d \in Dev |-> [mode |-> 0, attr |-> LightGray]]
  BY DEF Init
<1>2. DOMAIN c = Fields /\ c.slots = <<>>
  BY DEF Fields
<1>3. \A S : <<>> \in Seq(S)
  OBVIOUS
<1> HIDE DEF c
<1>4. /\ ConsoleOK(NoConsoles(c)) /\ Full(NoConsoles(c)) /\ NoConsoles(c).count = 0
      /\ NoConsoles(c).slots = <<>>
  BY <1>2, <1>3, EmptyKeeps
<1>5. Listed(NoConsoles(c)) = {}
  BY <1>4 DEF Listed
<1>6. DOMAIN NoConsoles(c) = Fields
  BY <1>4 DEF ConsoleOK, ListOK
<1>7. Good(Now) /\ Lossless(Now)
  BY <1>1, <1>3, <1>4, <1>6 DEF Good, Shape, Lossless, Now
<1>8. Synced(Now)
  <2>1. con["ConOut"].count = 0
    BY <1>1, <1>4 DEF Splitters
  <2> QED BY <2>1 DEF Synced, Now
<1> QED BY <1>1, <1>5, <1>7, <1>8 DEF ConsolesInv

-----------------------------------------------------------------------------
(* The calls                                                                 *)

(* A Start that adds the console, with the intersection or without.          *)
LEMMA StartAddsKeeps ==
  ASSUME ConsolesInv, NEW s \in Splitters, NEW d \in Dev, StartAdds(s, d)
  PROVE  ConsolesInv'
<1>1. /\ d \in Carrying(s) \ opened[s] /\ opened' = [opened EXCEPT ![s] = @ \cup {d}]
      /\ Good(Now) /\ ConsoleOK(con[s]) /\ d \notin Listed(con[s])
      /\ DOMAIN con = Splitters
  BY DEF StartAdds, Joining, ConsolesInv, Good, Shape, Now
<1> DEFINE e == Added(con[s], d)
           added == [con |-> [con EXCEPT ![s] = e], dev |-> dev]
<1>2. /\ ConsoleOK(e) /\ (Full(con[s]) => Full(e)) /\ e.count = con[s].count + 1
      /\ \A i \in 1..con[s].count : e.slots[i] = con[s].slots[i]
      /\ e.slots[e.count] = d
      /\ \A S : d \in S /\ con[s].slots \in Seq(S) => e.slots \in Seq(S)
  <2> HIDE DEF e
  <2> QED BY <1>1, AddedKeeps DEF e
<1>3. Listed(e) \subseteq Listed(con[s]) \cup {d}
  <2>1. con[s].count \in Nat
    BY <1>1 DEF ConsoleOK, ListOK
  <2>2. \A i \in 1..con[s].count + 1 : i \in 1..con[s].count \/ i = con[s].count + 1
    BY <2>1
  <2> HIDE DEF e
  <2> QED BY <1>2, <2>2 DEF Listed
<1>4. PICK F \in SUBSET Flaky, G \in SUBSET Flaky, skip \in {FALSE, MayRunOut} :
        LET both  == IF skip THEN added ELSE IntersectBoth(added, F)
            mode  == SetConsoleOutMode(both, s, F, G)
            there == [mode.st EXCEPT !.con[s].adding = FALSE]
        IN Takes(SetAttributeFn(there, s, LightGray, G).st)
  BY DEF StartAdds
<1> HIDE DEF e
<1>5. /\ added.con[s] = e /\ \A t \in Splitters \ {s} : added.con[t] = con[t]
      /\ DOMAIN added = {"con", "dev"} /\ DOMAIN added.con = Splitters /\ added.dev = dev
  BY <1>1
<1> HIDE DEF added
<1>6. Good(added) /\ (Lossless(Now) => Lossless(added))
  <2>1. Shape(added)
    BY <1>1, <1>2, <1>5 DEF Good, Shape, Now, ConsoleOK, ListOK
  <2>2. ASSUME NEW t \in Splitters
        PROVE  /\ ConsoleOK(added.con[t]) /\ added.con[t].slots \in Seq(Carrying(t))
               /\ (Full(con[t]) => Full(added.con[t]))
    <3>1. CASE t = s
      <4>1. con[s].slots \in Seq(Carrying(s))
        BY <1>1 DEF Good, Now
      <4> QED BY <1>1, <1>2, <1>5, <3>1, <4>1
    <3>2. CASE t # s
      BY <1>1, <1>5, <3>2 DEF Good, Now
    <3> QED BY <3>1, <3>2
  <2> QED BY <2>1, <2>2 DEF Good, Lossless, Now
<1> DEFINE both  == IF skip THEN added ELSE IntersectBoth(added, F)
           mode  == SetConsoleOutMode(both, s, F, G)
           there == [mode.st EXCEPT !.con[s].adding = FALSE]
           r == SetAttributeFn(there, s, LightGray, G).st
<1>7. Takes(r)
  BY <1>4
<1>8. /\ Good(both) /\ SameLists(added, both) /\ (Apart => both = added)
      /\ ~MayRunOut => Synced(both)
  <2>1. CASE skip
    BY <1>6, <2>1 DEF SameLists
  <2>2. CASE ~skip
    <3>1. both = IntersectBoth(added, F)
      BY <2>2
    <3> HIDE DEF both
    <3> QED BY <1>6, <3>1, IntersectBothKeeps
  <2> QED BY <2>1, <2>2
<1> HIDE DEF both
<1>9. Keeps(both, mode.st)
  BY <1>8, SetConsoleOutModeKeeps
<1> HIDE DEF mode
<1>10. Keeps(mode.st, there)
  <2>1. Good(mode.st) /\ Shape(mode.st)
    BY <1>9 DEF Keeps, Good
  <2>2. Shape(there) /\ Patched(mode.st.con[s], there.con[s])
        /\ \A t \in Splitters \ {s} : there.con[t] = mode.st.con[t]
    BY <2>1 DEF Shape, Patched, Fields
  <2> HIDE DEF there
  <2> QED BY <2>1, <2>2, PatchedKeeps
<1> HIDE DEF there
<1>11. Keeps(there, r)
  <2>1. Good(there) /\ r = SetAttributeFn(there, s, LightGray, G).st
    BY <1>10 DEF Keeps
  <2> HIDE DEF r
  <2> QED BY <2>1, SetAttributeKeeps
<1> HIDE DEF r
<1>12. Keeps(both, r)
  BY <1>9, <1>10, <1>11, KeepsChains
<1>13. /\ Good(Now)' /\ (Apart => Lossless(Now)')
       /\ ~MayRunOut => Synced(Now)'
       /\ \A t \in Splitters : con'[t] = r.con[t]
  <2>1. Good(r) /\ Shape(r) /\ (Lossless(both) => Lossless(r)) /\ (Synced(both) => Synced(r))
    BY <1>12 DEF Keeps, Good
  <2>2. (Apart => Lossless(r)) /\ (~MayRunOut => Synced(r))
    BY <1>6, <1>8, <2>1 DEF ConsolesInv
  <2> QED BY <1>7, <2>1, <2>2, GoodNow
<1>14. \A t \in Splitters : Listed(con'[t]) = Listed(added.con[t])
  BY <1>8, <1>12, <1>13, ListedOf DEF Keeps, SameLists
<1>15. \A t \in Splitters : Listed(con'[t]) \subseteq opened'[t] /\ opened'[t] \subseteq Carrying(t)
  BY <1>1, <1>3, <1>5, <1>14 DEF ConsolesInv
<1> QED BY <1>1, <1>13, <1>15 DEF ConsolesInv

(* A Stop, of a console that is listed or of one that never was.             *)
LEMMA StopKeeps ==
  ASSUME ConsolesInv, NEW s \in Splitters, NEW d \in Dev, Stop(s, d)
  PROVE  ConsolesInv'
<1>1. /\ opened' = [opened EXCEPT ![s] = @ \ {d}]
      /\ Good(Now) /\ ConsoleOK(con[s]) /\ DOMAIN con = Splitters
  BY DEF Stop, ConsolesInv, Good, Shape, Now
<1>2. CASE d \notin Listed(con[s]) /\ UNCHANGED <<con, dev>>
  <2>1. Now' = Now
    BY <1>2 DEF Now
  <2>2. Good(Now)' /\ (Lossless(Now) => Lossless(Now)') /\ (Synced(Now) => Synced(Now)')
    BY <1>1, <2>1 DEF Good, Lossless, Synced, Shape
  <2> QED BY <1>1, <1>2, <2>2 DEF ConsolesInv
<1>3. CASE d \in Listed(con[s])
  <2> DEFINE e == Removed(con[s], d)
             left == [con |-> [con EXCEPT ![s] = e], dev |-> dev]
  <2>1. PICK F \in SUBSET Flaky, skip \in {FALSE, MayRunOut} :
          Takes(IF skip \/ left.con[s].count = 0 THEN left ELSE IntersectBoth(left, F))
    BY <1>3 DEF Stop
  <2>2. /\ ConsoleOK(e) /\ Full(e) /\ Listed(e) \in SUBSET (Listed(con[s]) \ {d})
        /\ \A S : con[s].slots \in Seq(S) => e.slots \in Seq(S)
    <3> HIDE DEF e
    <3> QED BY <1>1, <1>3, RemovedKeeps DEF e
  <2> HIDE DEF e
  <2>3. /\ left.con[s] = e /\ \A t \in Splitters \ {s} : left.con[t] = con[t]
        /\ DOMAIN left = {"con", "dev"} /\ DOMAIN left.con = Splitters /\ left.dev = dev
    BY <1>1
  <2> HIDE DEF left
  <2>4. Good(left) /\ (Lossless(Now) => Lossless(left))
    <3>1. Shape(left)
      BY <1>1, <2>2, <2>3 DEF Good, Shape, Now, ConsoleOK, ListOK
    <3>2. ASSUME NEW t \in Splitters
          PROVE  /\ ConsoleOK(left.con[t]) /\ left.con[t].slots \in Seq(Carrying(t))
                 /\ (Full(con[t]) => Full(left.con[t]))
      <4>1. CASE t = s
        <5>1. con[s].slots \in Seq(Carrying(s))
          BY <1>1 DEF Good, Now
        <5> QED BY <2>2, <2>3, <4>1, <5>1
      <4>2. CASE t # s
        BY <1>1, <2>3, <4>2 DEF Good, Now
      <4> QED BY <4>1, <4>2
    <3> QED BY <3>1, <3>2 DEF Good, Lossless, Now
  <2> DEFINE r == IF skip \/ left.con[s].count = 0 THEN left ELSE IntersectBoth(left, F)
  <2>5. Takes(r)
    BY <2>1
  <2>6. left.con[s].count = 0 => Synced(left)
    <3> SUFFICES ASSUME left.con[s].count = 0 PROVE Synced(left)
      OBVIOUS
    <3>1. CASE s = "ConOut"
      BY <3>1 DEF Synced
    <3>2. CASE s = "StdErr"
      <4>1. Listed(left.con["StdErr"]) = {}
        BY <3>2 DEF Listed
      <4> QED BY <4>1 DEF Synced
    <3> QED BY <3>1, <3>2 DEF Splitters
  <2>7. /\ Good(r) /\ SameLists(left, r) /\ (Apart => r = left)
        /\ ~MayRunOut => Synced(r)
    <3>1. CASE skip \/ left.con[s].count = 0
      <4>1. r = left
        BY <3>1
      <4>2. skip = FALSE \/ skip = MayRunOut
        OBVIOUS
      <4>3. ~MayRunOut => left.con[s].count = 0
        BY <3>1, <4>2
      <4>4. SameLists(left, left)
        BY DEF SameLists
      <4> HIDE DEF r
      <4> QED BY <2>4, <2>6, <4>1, <4>3, <4>4
    <3>2. CASE ~(skip \/ left.con[s].count = 0)
      <4>1. r = IntersectBoth(left, F)
        BY <3>2
      <4> HIDE DEF r
      <4> QED BY <2>4, <4>1, IntersectBothKeeps
    <3> QED BY <3>1, <3>2
  <2> HIDE DEF r
  <2>8. /\ Good(Now)' /\ (Apart => Lossless(Now)')
        /\ ~MayRunOut => Synced(Now)'
        /\ \A t \in Splitters : con'[t] = r.con[t]
    <3>1. Shape(r) /\ (Apart => Lossless(r))
      BY <2>4, <2>7 DEF Good, ConsolesInv
    <3> QED BY <2>5, <2>7, <3>1, GoodNow
  <2>9. \A t \in Splitters : Listed(con'[t]) = Listed(left.con[t])
    BY <2>7, <2>8, ListedOf DEF SameLists
  <2>10. \A t \in Splitters : Listed(con'[t]) \subseteq opened'[t] /\ opened'[t] \subseteq Carrying(t)
    <3>1. ASSUME NEW t \in Splitters
          PROVE  Listed(con'[t]) \subseteq opened'[t] /\ opened'[t] \subseteq Carrying(t)
      BY <1>1, <2>2, <2>3, <2>9 DEF ConsolesInv
    <3> QED BY <3>1
  <2> QED BY <1>1, <2>8, <2>10 DEF ConsolesInv
<1>4. (d \notin Listed(con[s]) /\ UNCHANGED <<con, dev>>) \/ d \in Listed(con[s])
  BY DEF Stop
<1> QED BY <1>2, <1>3, <1>4

(* A Start that runs out of memory lists nothing.                            *)
LEMMA StartNoMemoryKeeps ==
  ASSUME ConsolesInv, NEW s \in Splitters, NEW d \in Dev, StartNoMemory(s, d)
  PROVE  ConsolesInv'
<1>1. /\ d \in Carrying(s) \ opened[s] /\ opened' = [opened EXCEPT ![s] = @ \cup {d}]
      /\ Good(Now) /\ Shape(Now) /\ DOMAIN con = Splitters
  BY DEF StartNoMemory, Joining, ConsolesInv, Good, Shape, Now
<1>2. PICK grown \in {con[s].listCount, con[s].listCount + AllocUnit} :
        Takes(SetAttributeFn([con |-> [con EXCEPT ![s] =
                [con[s] EXCEPT !.mode = Unset, !.adding = TRUE, !.listCount = grown]],
                              dev |-> dev], s, LightGray, {}).st)
  BY Zenon DEF StartNoMemory
<1> DEFINE c  == [con[s] EXCEPT !.mode = Unset, !.adding = TRUE, !.listCount = grown]
           st == [con |-> [con EXCEPT ![s] = c], dev |-> dev]
           r  == SetAttributeFn(st, s, LightGray, {}).st
<1>3. Keeps(Now, st)
  <2>1. Patched(con[s], c)
    BY <1>1 DEF Patched, Fields, Shape, Now
  <2> HIDE DEF c
  <2>2. Shape(st) /\ st.con[s] = c /\ \A t \in Splitters \ {s} : st.con[t] = con[t]
    BY <1>1, <2>1 DEF Shape, Now, Patched
  <2> HIDE DEF st
  <2>3. Patched(Now.con[s], st.con[s]) /\ \A t \in Splitters \ {s} : st.con[t] = Now.con[t]
    BY <2>1, <2>2 DEF Now
  <2> QED BY <1>1, <2>2, <2>3, PatchedKeeps
<1>4. Takes(r)
  BY <1>2
<1> HIDE DEF st
<1>5. Keeps(st, r)
  <2>1. Good(st) /\ r = SetAttributeFn(st, s, LightGray, {}).st
    BY <1>3 DEF Keeps
  <2> HIDE DEF r
  <2> QED BY <2>1, SetAttributeKeeps
<1> HIDE DEF r
<1>6. Keeps(Now, r)
  BY <1>3, <1>5, KeepsChains
<1>7. Good(Now)' /\ (Lossless(r) => Lossless(Now)') /\ \A t \in Splitters : con'[t] = r.con[t]
  BY <1>4, <1>6, GoodNow DEF Keeps, Good
<1>8. \A t \in Splitters : Listed(con'[t]) = Listed(con[t])
  BY <1>6, <1>7, ListedOf DEF Keeps, SameLists, Now
<1>9. MayRunOut
  BY DEF StartNoMemory
<1> QED BY <1>1, <1>6, <1>7, <1>8, <1>9 DEF ConsolesInv, Keeps

(* What OutputString, SetCursorPosition and Reset do behind SetAttributeFn.  *)
LEMMA CallsKeep ==
  ASSUME ConsolesInv, NEW s \in Splitters,
         \/ \E m \in 0..MaxMode(con[s]) : SetMode(s, m)
         \/ \E a \in Attributes : SetAttribute(s, a)
         \/ \E cell \in Cells : SetCursorPosition(s, cell)
         \/ ClearScreen(s) \/ OutputString(s) \/ Reset(s)
  PROVE  ConsolesInv'
<1>1. Good(Now) /\ Shape(Now)
  BY DEF ConsolesInv, Good
<1>2. ASSUME NEW m, SetMode(s, m) PROVE ConsolesInv'
  <2>1. PICK F : Takes(SetModeFn(Now, s, m, F).st) /\ UNCHANGED opened
    BY <1>2 DEF SetMode, Does
  <2>2. Keeps(Now, SetModeFn(Now, s, m, F).st)
    BY <1>1, SetModeKeeps
  <2> QED BY <2>1, <2>2, KeepsStep
<1>3. ASSUME NEW a, SetAttribute(s, a) PROVE ConsolesInv'
  <2>1. PICK F : Takes(SetAttributeFn(Now, s, a, F).st) /\ UNCHANGED opened
    BY <1>3 DEF SetAttribute, Does
  <2>2. Keeps(Now, SetAttributeFn(Now, s, a, F).st)
    BY <1>1, SetAttributeKeeps
  <2> QED BY <2>1, <2>2, KeepsStep
<1>4. ASSUME NEW st, Good(st), NEW cell PROVE Keeps(st, [st EXCEPT !.con[s].cursor = cell])
  <2> DEFINE r == [st EXCEPT !.con[s].cursor = cell]
  <2>1. Shape(st)
    BY <1>4 DEF Good
  <2>2. Shape(r) /\ Patched(st.con[s], r.con[s]) /\ \A t \in Splitters \ {s} : r.con[t] = st.con[t]
    BY <2>1 DEF Shape, Patched, Fields
  <2> HIDE DEF r
  <2>3. Keeps(st, r)
    BY <1>4, <2>2, PatchedKeeps
  <2> QED BY <2>3 DEF r
<1>5. ASSUME NEW cell, SetCursorPosition(s, cell) PROVE ConsolesInv'
  <2>1. /\ Takes([Now EXCEPT !.con[s].cursor = cell]) \/ Takes(Now)
        /\ UNCHANGED opened
    BY <1>5, Zenon DEF SetCursorPosition, Does
  <2>2. Keeps(Now, [Now EXCEPT !.con[s].cursor = cell])
    BY <1>1, <1>4
  <2>3. Keeps(Now, Now)
    BY <1>1, KeepsItself
  <2> QED BY <2>1, <2>2, <2>3, KeepsStep
<1>6. ASSUME ClearScreen(s) PROVE ConsolesInv'
  <2>1. PICK F : Takes(ClearScreenFn(Now, s, F).st) /\ UNCHANGED opened
    BY <1>6 DEF ClearScreen, Does
  <2>2. Keeps(Now, ClearScreenFn(Now, s, F).st)
    BY <1>1, ClearScreenKeeps
  <2> QED BY <2>1, <2>2, KeepsStep
<1>7. ASSUME OutputString(s) PROVE ConsolesInv'
  <2>1. PICK F, cell :
          /\ Takes([SetAttributeFn(Now, s, con[s].attr, F).st EXCEPT !.con[s].cursor = cell])
          /\ UNCHANGED opened
    BY <1>7 DEF OutputString, Does
  <2> DEFINE st == SetAttributeFn(Now, s, con[s].attr, F).st
  <2>2. Keeps(Now, st)
    BY <1>1, SetAttributeKeeps
  <2> HIDE DEF st
  <2>3. Keeps(st, [st EXCEPT !.con[s].cursor = cell])
    BY <1>4, <2>2 DEF Keeps
  <2>4. Keeps(Now, [st EXCEPT !.con[s].cursor = cell])
    BY <2>2, <2>3, KeepsChains
  <2> QED BY <2>1, <2>4, KeepsStep DEF st
<1>8. ASSUME Reset(s) PROVE ConsolesInv'
  <2>1. PICK F :
          /\ Takes([SetAttributeFn([con |-> con, dev |-> [d \in Dev |->
                        IF d \in Listed(con[s]) \ F THEN [dev[d] EXCEPT !.mode = 0] ELSE dev[d]]],
                                   s, OnBlack(con[s].attr), F).st
                      EXCEPT !.con[s].mode = 0, !.con[s].cursor = Origin])
          /\ UNCHANGED opened
    BY <1>8, Zenon DEF Reset, Does
  <2> DEFINE done == [d \in Dev |-> IF d \in Listed(con[s]) \ F THEN [dev[d] EXCEPT !.mode = 0]
                                                              ELSE dev[d]]
             st == [con |-> con, dev |-> done]
             q == SetAttributeFn(st, s, OnBlack(con[s].attr), F).st
             r == [q EXCEPT !.con[s].mode = 0, !.con[s].cursor = Origin]
  <2>2. Keeps(Now, st)
    <3>1. DOMAIN done = Dev /\ \A d \in Dev : DOMAIN done[d] = {"mode", "attr"}
      BY <1>1 DEF Shape, Now
    <3> HIDE DEF done
    <3>2. Shape(st)
      BY <1>1, <3>1 DEF Shape, Now
    <3>3. \A t \in Splitters : SameTables(Now.con[t], st.con[t])
      BY <1>1 DEF Now, SameTables, Shape
    <3> HIDE DEF st
    <3> QED BY <1>1, <3>2, <3>3, SameTablesKeep
  <2>3. Takes(r)
    BY <2>1
  <2> HIDE DEF st
  <2>4. Keeps(st, q)
    <3>1. Good(st) /\ q = SetAttributeFn(st, s, OnBlack(con[s].attr), F).st
      BY <2>2 DEF Keeps
    <3> HIDE DEF q
    <3> QED BY <3>1, SetAttributeKeeps
  <2> HIDE DEF q
  <2>5. Keeps(q, r)
    <3>1. Good(q) /\ Shape(q)
      BY <2>4 DEF Keeps, Good
    <3>2. Shape(r) /\ Patched(q.con[s], r.con[s]) /\ \A t \in Splitters \ {s} : r.con[t] = q.con[t]
      BY <3>1 DEF Shape, Patched, Fields
    <3> HIDE DEF r
    <3> QED BY <3>1, <3>2, PatchedKeeps
  <2> HIDE DEF r
  <2>6. Keeps(Now, r)
    BY <2>2, <2>4, <2>5, KeepsChains
  <2> QED BY <2>1, <2>3, <2>6, KeepsStep
<1> QED BY <1>2, <1>3, <1>5, <1>6, <1>7, <1>8

(* Every call keeps the invariant.                                           *)
LEMMA NextKeepsConsolesInv == ConsolesInv /\ [Next]_vars => ConsolesInv'
<1> SUFFICES ASSUME ConsolesInv, [Next]_vars PROVE ConsolesInv'
  OBVIOUS
<1>1. ASSUME NEW s \in Splitters, NEW d \in Dev, StartRefused(s, d) PROVE ConsolesInv'
  <2>1. UNCHANGED <<con, dev, opened>>
    BY <1>1 DEF StartRefused
  <2> QED BY <2>1 DEF ConsolesInv, Good, Shape, Lossless, Synced, Now
<1>2. ASSUME NEW s \in Splitters, NEW d \in Dev, Start(s, d) \/ Stop(s, d) PROVE ConsolesInv'
  BY <1>1, <1>2, StartNoMemoryKeeps, StartAddsKeeps, StopKeeps DEF Start
<1>3. CASE UNCHANGED vars
  BY <1>3 DEF vars, ConsolesInv, Good, Shape, Lossless, Synced, Now
<1>4. CASE Next
  <2>1. PICK s \in Splitters :
          \/ \E d \in Dev : Start(s, d) \/ Stop(s, d)
          \/ \E m \in 0..MaxMode(con[s]) : SetMode(s, m)
          \/ \E a \in Attributes : SetAttribute(s, a)
          \/ \E cell \in Cells : SetCursorPosition(s, cell)
          \/ ClearScreen(s) \/ OutputString(s) \/ Reset(s)
    BY <1>4 DEF Next
  <2> QED BY <1>2, <2>1, CallsKeep
<1> QED BY <1>3, <1>4

(* So it holds always.                                                       *)
THEOREM ConsolesAlways == Spec => []ConsolesInv
BY InitConsolesInv, NextKeepsConsolesInv, PTL DEF Spec

-----------------------------------------------------------------------------
(* What follows                                                              *)

(* Every entry of the map leads to a mode of its console that has the size   *)
(* QueryMode reports, whatever consoles joined, left and failed and whether  *)
(* or not allocations succeeded.                                             *)
THEOREM SoundMap == Spec => []MapIsSound
<1>1. ConsolesInv => MapIsSound
  <2> SUFFICES ASSUME ConsolesInv, NEW s \in Splitters,
                      NEW m \in VirtualModes(con[s]), NEW i \in 1..con[s].count
               PROVE  SoundEntry(con[s], m, i)
    BY DEF MapIsSound, SoundEntry
  <2> QED BY DEF ConsolesInv, Good, Now, ConsoleOK, MapOK
<1> QED BY <1>1, ConsolesAlways, PTL

(* Rows and common modes are in a bijection.                                 *)
LEMMA CompleteOf ==
  ASSUME NEW c, ConsoleOK(c), Full(c), c.count > 0,
         NEW common,
         common = {Sizes[c.slots[1]][k] : k \in
                    {l \in DOMAIN Sizes[c.slots[1]] : l >= 2 /\
                       \A d \in Listed(c) : \E j \in DOMAIN Sizes[d] :
                         Sizes[d][j] = Sizes[c.slots[1]][l]}},
         NEW offered, offered = {m \in VirtualModes(c) : m >= 2}
  PROVE  /\ {SizeOf(c, m) : m \in offered} = common
         /\ Cardinality(offered) = Cardinality(common)
<1> DEFINE first == c.slots[1]
           shared == {l \in Modes(first) : l >= 2 /\ \A i \in 1..c.count : HasSize(c.slots[i], Sizes[first][l])}
<1>1. /\ ListOK(c) /\ Numbering(c) /\ QueryOK(c) /\ RowsOK(c) /\ first \in Dev
      /\ \A m \in VirtualModes(c), i \in 1..c.count : SoundEntry(c, m, i)
  BY DEF ConsoleOK, MapOK, ListOK
<1>2. common = {Sizes[first][k] : k \in shared}
  <2>1. \A l : (\A d \in Listed(c) : \E j \in DOMAIN Sizes[d] : Sizes[d][j] = Sizes[first][l])
              <=> \A i \in 1..c.count : HasSize(c.slots[i], Sizes[first][l])
    BY DEF Listed, HasSize, Modes
  <2> QED BY <2>1 DEF Modes
<1>3. ASSUME NEW m \in offered
      PROVE  /\ c.map[m][1] \in shared /\ SizeOf(c, m) = Sizes[first][c.map[m][1]]
             /\ m \in Nat
  <2>1. /\ m \in Nat /\ c.map[m][1] \in Modes(first) /\ c.map[m][1] >= 2 /\ c.map[m][1] \in Nat
    BY <1>1, RowOne DEF RowsOK
  <2>2. SizeOf(c, m) = Sizes[first][c.map[m][1]]
    BY <1>1, <2>1 DEF QueryOK, SizeOf
  <2>3. ASSUME NEW i \in 1..c.count PROVE HasSize(c.slots[i], Sizes[first][c.map[m][1]])
    <3>1. Supports(c.slots[i], c.map[m][i]) /\ Sizes[c.slots[i]][c.map[m][i]] = SizeOf(c, m)
      BY <1>1 DEF SoundEntry
    <3> QED BY <2>2, <3>1 DEF HasSize, Supports, Modes
  <2> QED BY <2>1, <2>2, <2>3
<1>4. ASSUME NEW l \in shared PROVE \E m \in offered : c.map[m][1] = l
  BY DEF Full
<1>5. {SizeOf(c, m) : m \in offered} = common
  <2> HIDE DEF shared, first
  <2>1. ASSUME NEW m \in offered PROVE SizeOf(c, m) \in common
    BY <1>2, <1>3
  <2>2. ASSUME NEW l \in shared PROVE \E m \in offered : SizeOf(c, m) = Sizes[first][l]
    BY <1>3, <1>4
  <2> QED BY <1>2, <2>1, <2>2
<1>6. ASSUME NEW l \in offered, NEW m \in offered, SizeOf(c, l) = SizeOf(c, m) PROVE l = m
  <2>1. c.map[l][1] = c.map[m][1]
    <3>1. c.map[l][1] \in Modes(first) /\ c.map[m][1] \in Modes(first)
      BY <1>3
    <3>2. Sizes[first][c.map[l][1]] = Sizes[first][c.map[m][1]]
      BY <1>3, <1>6
    <3> HIDE DEF first, shared
    <3> QED BY <1>1, <3>1, <3>2, ModesOfDevice
  <2>2. ~(l < m) /\ ~(m < l)
    <3>1. c.map[l][1] \in Nat
      BY <1>1, RowOne
    <3>2. /\ l < m => c.map[l][1] < c.map[m][1]
          /\ m < l => c.map[m][1] < c.map[l][1]
      BY <1>1 DEF RowsOK
    <3> QED BY <2>1, <3>1, <3>2
  <2> QED BY <1>3, <2>2
<1>7. Cardinality(offered) = Cardinality(common)
  <2> DEFINE f == [m \in offered |-> SizeOf(c, m)]
  <2>1. IsFiniteSet(offered)
    <3>1. PICK n \in Nat \ {0} : VirtualModes(c) = 0..n - 1
      BY <1>1 DEF Numbering
    <3>2. offered \in SUBSET (0..n - 1)
      BY <3>1
    <3>3. IsFiniteSet(0..n - 1)
      BY FS_Interval
    <3> QED BY <3>2, <3>3, FS_Subset
  <2>2. f \in Bijection(offered, common)
    BY <1>5, <1>6 DEF Bijection, Injection, Surjection, IsInjective
  <2> QED BY <2>1, <2>2, FS_Bijection DEF ExistsBijection
<1> QED BY <1>5, <1>7

(* If no console is offered to both splitters, the virtual modes from 2 on   *)
(* are exactly the sizes that every listed console has, each once, also when *)
(* allocations fail.                                                         *)
THEOREM CompleteMap ==
  ASSUME ConOutDev \cap StdErrDev = {}
  PROVE  Spec => []MapIsComplete
<1>1. ConsolesInv => MapIsComplete
  <2> SUFFICES ASSUME ConsolesInv, NEW s \in Splitters, con[s].count > 0
               PROVE  LET c == con[s]
                          common == {Sizes[c.slots[1]][k] : k \in
                                      {l \in DOMAIN Sizes[c.slots[1]] : l >= 2 /\
                                         \A d \in Listed(c) : \E j \in DOMAIN Sizes[d] :
                                           Sizes[d][j] = Sizes[c.slots[1]][l]}}
                          offered == {m \in VirtualModes(c) : m >= 2}
                      IN /\ {SizeOf(c, m) : m \in offered} = common
                         /\ Cardinality(offered) = Cardinality(common)
    BY DEF MapIsComplete
  <2>1. ConsoleOK(con[s]) /\ Full(con[s])
    BY DEF ConsolesInv, Good, Lossless, Now, Apart
  <2> QED BY <2>1, CompleteOf
<1> QED BY <1>1, ConsolesAlways, PTL

(* When ConOut's first console is also one of StdErr, each offers, from mode *)
(* 2 on, no size that the other does not have, in whatever order the         *)
(* consoles joined and left and whatever their modes, if the intersection    *)
(* gets its memory.                                                          *)
THEOREM FirstShared ==
  ASSUME ~MayRunOut
  PROVE  Spec => []FirstSharedMeansSynced
<1>1. ConsolesInv => FirstSharedMeansSynced
  BY DEF ConsolesInv, Synced, FirstSharedMeansSynced, Now
<1> QED BY <1>1, ConsolesAlways, PTL

-----------------------------------------------------------------------------
(* The current mode of a splitter and its consoles                           *)

(* What the splitter takes for granted of the first two modes: mode 0 is the *)
(* same everywhere, and so is mode 1 where it is supported; every console    *)
(* has both numbers.  Besides, no size is empty, and no mode has the number  *)
(* that stands for none while a console is added.                            *)
UsualModes ==
  \A d \in Dev :
    /\ 1 \in Modes(d) /\ Cardinality(Modes(d)) <= Unset
    /\ \A k \in Modes(d) : Sizes[d][k] # NoSize => Inside(Origin, Sizes[d][k])
    /\ \A e \in Dev : /\ Sizes[d][0] = Sizes[e][0]
                      /\ NoSize \in {Sizes[d][1], Sizes[e][1]} \/ Sizes[d][1] = Sizes[e][1]

(* Mode 0 has a size.                                                        *)
LEMMA ModeZero ==
  ASSUME NEW d \in Dev
  PROVE  0 \in Modes(d) /\ Sizes[d][0] # NoSize
<1>1. Cardinality(Modes(d)) \in Nat \ {0} /\ Modes(d) = 0..Cardinality(Modes(d)) - 1
  BY SizesAssumption DEF Modes
<1>2. 0 \in 0..Cardinality(Modes(d)) - 1
  BY <1>1
<1> QED BY <1>1, <1>2, SizesAssumption DEF Modes

(* Every console has an entry for mode 0 and, if it has a size, for mode 1.  *)
Filled(c) ==
  \A m \in VirtualModes(c) :
    m < 2 /\ SizeOf(c, m) # NoSize => \A i \in 1..c.count : c.map[m][i] # None

(* Without consoles there is mode 0.                                         *)
StartsOK(c) == c.count = 0 => VirtualModes(c) = {0} /\ SizeOf(c, 0) = <<80, 25>>

Tabled(c) == ConsoleOK(c) /\ Filled(c) /\ StartsOK(c)

(* While a console is added the mode is a number behind those of the modes.  *)
Above(c) == c.mode \in Nat /\ \A m \in VirtualModes(c) : m < c.mode

OwnIn(st, s) == Listed(st.con[s]) \ UNION {Listed(st.con[t]) : t \in Splitters \ {s}}

(* Otherwise the splitter's own consoles are in its mode: ConsolesInStep of  *)
(* a state within a call.                                                    *)
InMode(st, s) ==
  LET c == st.con[s]
  IN /\ c.adding = FALSE
     /\ c.mode \in VirtualModes(c)
     /\ SizeOf(c, c.mode) # NoSize =>
          /\ \A i \in 1..c.count :
               c.slots[i] \in OwnIn(st, s) => st.dev[c.slots[i]].mode = c.map[c.mode][i]
          /\ Listed(c) \subseteq OwnIn(st, s) => Inside(c.cursor, SizeOf(c, c.mode))

(* An entry of a mode that has a size leads to a mode of that size.          *)
LEMMA EntryLeads ==
  ASSUME NEW c, Tabled(c), NEW m \in VirtualModes(c), SizeOf(c, m) # NoSize, NEW i \in 1..c.count
  PROVE  Supports(c.slots[i], c.map[m][i]) /\ Sizes[c.slots[i]][c.map[m][i]] = SizeOf(c, m)
<1>1. SoundEntry(c, m, i)
  BY DEF Tabled, ConsoleOK, MapOK
<1>2. m < 2 => c.map[m][i] # None
  BY DEF Tabled, Filled
<1> QED BY <1>1, <1>2 DEF SoundEntry

(* Sizes of the modes that are reported.                                     *)
LEMMA ReportedSizes ==
  ASSUME UsualModes, NEW c, Tabled(c)
  PROVE  /\ 0 \in VirtualModes(c) /\ SizeOf(c, 0) # NoSize
         /\ c.count > 0 => SizeOf(c, 0) = Sizes[c.slots[1]][0]
         /\ \A m \in VirtualModes(c) : SizeOf(c, m) # NoSize => Inside(Origin, SizeOf(c, m))
<1>1. ListOK(c) /\ Numbering(c) /\ (c.count > 0 => QueryOK(c) /\ RowsOK(c))
  BY DEF Tabled, ConsoleOK, MapOK
<1>2. 0 \in VirtualModes(c)
  BY <1>1 DEF Numbering
<1>3. CASE c.count = 0
  BY <1>2, <1>3 DEF Tabled, StartsOK, NoSize, Inside, Origin
<1>4. CASE c.count > 0
  <2>1. c.slots[1] \in Dev
    BY <1>1, <1>4 DEF ListOK
  <2>2. \A m \in VirtualModes(c) : SizeOf(c, m) = c.queryData[c.map[m][1]] /\ c.map[m][1] \in Modes(c.slots[1])
    BY <1>1, <1>4 DEF SizeOf, RowsOK
  <2>3. \A k \in Modes(c.slots[1]) :
          c.queryData[k] = Sizes[c.slots[1]][k] \/ (k = 1 /\ c.queryData[k] = NoSize)
    BY <1>1, <1>4 DEF QueryOK
  <2>4. c.map[0][1] = 0
    BY <1>1, <1>4 DEF RowsOK
  <2>5. SizeOf(c, 0) = Sizes[c.slots[1]][0] /\ SizeOf(c, 0) # NoSize
    <3>1. SizeOf(c, 0) = Sizes[c.slots[1]][0]
      BY <1>2, <2>2, <2>3, <2>4
    <3> QED BY <2>1, <3>1, ModeZero
  <2>6. \A m \in VirtualModes(c) : SizeOf(c, m) # NoSize => Inside(Origin, SizeOf(c, m))
    BY <2>1, <2>2, <2>3 DEF UsualModes
  <2> QED BY <1>2, <2>5, <2>6
<1> QED BY <1>1, <1>3, <1>4 DEF ListOK

(* In mode 0 every console is in its own mode 0.                             *)
LEMMA ZeroIsZero ==
  ASSUME UsualModes, NEW c, Tabled(c), NEW i \in 1..c.count
  PROVE  c.map[0][i] = 0
<1> DEFINE d == c.slots[i]
           k == c.map[0][i]
           f == c.slots[1]
<1>1. 0 \in VirtualModes(c) /\ SizeOf(c, 0) = Sizes[f][0] /\ SizeOf(c, 0) # NoSize
  <2>1. c.count > 0
    BY DEF Tabled, ConsoleOK, ListOK
  <2> QED BY <2>1, ReportedSizes
<1>2. Supports(d, k) /\ Sizes[d][k] = Sizes[f][0]
  BY <1>1, EntryLeads
<1>3. d \in Dev /\ f \in Dev
  BY DEF Tabled, ConsoleOK, ListOK
<1>4. k \in Modes(d)
  BY <1>2 DEF Supports, Modes
<1> HIDE DEF d, k, f
<1>5. 0 \in Modes(d) /\ Sizes[d][0] = Sizes[f][0]
  BY <1>3, ModeZero DEF UsualModes
<1>6. k = 0
  BY <1>2, <1>3, <1>4, <1>5, ModesOfDevice
<1> QED BY <1>6 DEF k

(* There are fewer modes than the number that stands for none.               *)
LEMMA FewModes ==
  ASSUME UsualModes, NEW c, Tabled(c), NEW n \in Nat \ {0}, VirtualModes(c) = 0..n - 1
  PROVE  n <= Unset
<1>1. ListOK(c) /\ (c.count > 0 => RowsOK(c))
  BY DEF Tabled, ConsoleOK, MapOK
<1>2. CASE c.count = 0
  <2>1. n - 1 \in {0}
    BY <1>2 DEF Tabled, StartsOK
  <2> QED BY <2>1 DEF Unset
<1>3. CASE c.count > 0
  <2> DEFINE d == c.slots[1]
             row(m) == c.map[m][1]
             T == {m \in Nat : m < n => row(m) >= m}
  <2>1. d \in Dev
    BY <1>1, <1>3 DEF ListOK
  <2>2. PICK k \in Nat \ {0} : Modes(d) = 0..k - 1
    BY <2>1, ModesOfDevice
  <2>3. \A m \in 0..n - 1 : row(m) \in 0..k - 1
    BY <1>1, <1>3, <2>2 DEF RowsOK
  <2>4. \A l, m \in 0..n - 1 : l < m => row(l) < row(m)
    BY <1>1, <1>3 DEF RowsOK
  <2> HIDE DEF row, d
  <2>5. 0 \in T
    BY <2>3
  <2>6. ASSUME NEW m \in Nat, m \in T PROVE m + 1 \in T
    <3>1. ASSUME m + 1 < n PROVE row(m + 1) >= m + 1
      <4>1. m \in 0..n - 1 /\ m + 1 \in 0..n - 1 /\ m < n /\ m < m + 1
        BY <3>1
      <4>2. row(m) < row(m + 1) /\ row(m) >= m /\ row(m) \in 0..k - 1 /\ row(m + 1) \in 0..k - 1
        BY <2>3, <2>4, <2>6, <4>1
      <4> QED BY <4>2
    <3> QED BY <3>1
  <2> HIDE DEF T
  <2>7. n - 1 \in T
    BY <2>5, <2>6, SetInduction
  <2>8. row(n - 1) >= n - 1 /\ row(n - 1) \in 0..k - 1
    BY <2>3, <2>7 DEF T
  <2>9. k <= Unset
    <3>1. Cardinality(0..k - 1) = k
      BY FS_Interval
    <3> QED BY <2>1, <2>2, <3>1 DEF UsualModes
  <2> QED BY <2>8, <2>9 DEF Unset
<1> QED BY <1>1, <1>2, <1>3 DEF ListOK

-----------------------------------------------------------------------------
(* The renumbering of the current mode                                       *)

(* A mode that is kept moves with its row, one that is not becomes none, and *)
(* a number behind the modes stays behind them.                              *)
LEMMA ModeMoves ==
  ASSUME NEW c, NEW supported, DOMAIN c = Fields, NEW n \in Nat \ {0}, VirtualModes(c) = 0..n - 1,
         c.mode \in Nat,
         NEW K, K = Kept(c, supported),
         NEW e, e = GetIntersection(c, supported)
  PROVE  /\ c.mode \in VirtualModes(c) \ K => e.mode = None
         /\ c.mode \in K => e.mode \in VirtualModes(e) /\ e.map[e.mode] = c.map[c.mode]
         /\ c.mode >= n => e.mode \in Nat /\ \A m \in VirtualModes(e) : m < e.mode
<1> DEFINE D == VirtualModes(c) \ K
           less == {m \in D : m < c.mode}
<1>1. e.mode = IF c.mode \in D THEN None ELSE c.mode - Cardinality(less)
  <2>1. e = [c EXCEPT !.map = [k \in 0..Cardinality(K) - 1 |-> c.map[Nth(K, k)]],
                      !.mode = IF @ \in VirtualModes(c) \ K THEN None
                               ELSE @ - Cardinality({m \in VirtualModes(c) \ K : m < @})]
    BY Zenon DEF GetIntersection, Kept
  <2> QED BY <2>1 DEF Fields
<1>2. Numbering(c)
  BY DEF Numbering
<1>3. /\ K \in SUBSET Nat /\ IsFiniteSet(K) /\ K \in SUBSET (0..n - 1)
      /\ Cardinality(K) \in Nat \ {0}
      /\ VirtualModes(e) = 0..Cardinality(K) - 1
      /\ \A k \in VirtualModes(e) : e.map[k] = c.map[Nth(K, k)]
  <2>1. K \in SUBSET Nat /\ IsFiniteSet(K)
    BY <1>2, KeptNumbers
  <2>2. /\ Cardinality(K) \in Nat \ {0}
        /\ VirtualModes(e) = 0..Cardinality(K) - 1
        /\ \A k \in VirtualModes(e) : e.map[k] = c.map[Nth(K, k)]
    BY <1>2, IntersectionRows
  <2>3. K \in SUBSET (0..n - 1)
    BY DEF Kept
  <2> QED BY <2>1, <2>2, <2>3
<1>4. IsFiniteSet(0..n - 1) /\ Cardinality(0..n - 1) = n
  BY FS_Interval
<1>5. D \in SUBSET (0..n - 1) /\ IsFiniteSet(D) /\ Cardinality(D) \in Nat
  BY <1>4, FS_Subset, FS_CardinalityType
<1>6. Cardinality(D) + Cardinality(K) = n
  <2>1. D \cup K = 0..n - 1 /\ D \cap K = {}
    BY <1>3
  <2>2. Cardinality(D \cup K) = Cardinality(D) + Cardinality(K) - Cardinality(D \cap K)
    BY <1>3, <1>5, FS_Union
  <2>3. Cardinality({}) = 0
    BY FS_EmptySet
  <2>4. Cardinality(D \cup K) = n /\ Cardinality(D \cap K) = 0
    BY <1>4, <2>1, <2>3
  <2> HIDE DEF D
  <2> QED BY <1>3, <1>5, <2>2, <2>4
<1>7. ASSUME c.mode \in K PROVE e.mode \in VirtualModes(e) /\ e.map[e.mode] = c.map[c.mode]
  <2> DEFINE kept == Below(K, c.mode)
  <2>1. less \cup kept = 0..c.mode - 1 /\ less \cap kept = {}
    BY <1>3, <1>7 DEF Below
  <2>2. IsFiniteSet(less) /\ IsFiniteSet(kept)
    BY <1>3, <1>5, FS_Subset DEF Below
  <2>3. Cardinality(0..c.mode - 1) = c.mode
    <3>1. \A x \in Nat : Cardinality(0..x - 1) = x
      <4> SUFFICES ASSUME NEW x \in Nat PROVE Cardinality(0..x - 1) = x
        OBVIOUS
      <4>1. Cardinality(0..x - 1) = IF 0 > x - 1 THEN 0 ELSE x - 1 - 0 + 1
        BY FS_Interval
      <4> QED BY <4>1
    <3> QED BY <3>1
  <2>4. Cardinality(less \cup kept) = Cardinality(less) + Cardinality(kept) - Cardinality(less \cap kept)
    BY <2>2, FS_Union
  <2>5. Cardinality({}) = 0 /\ Cardinality(less) \in Nat /\ Cardinality(kept) \in Nat
    BY <2>2, FS_EmptySet, FS_CardinalityType
  <2>6. Cardinality(kept) = c.mode - Cardinality(less)
    <3>1. Cardinality(less \cup kept) = c.mode /\ Cardinality(less \cap kept) = 0
      BY <2>1, <2>3, <2>5
    <3> HIDE DEF less, kept
    <3> QED BY <2>4, <2>5, <3>1
  <2>7. e.mode = Cardinality(kept)
    BY <1>1, <1>7, <2>6
  <2>8. Cardinality(kept) \in 0..Cardinality(K) - 1 /\ Nth(K, Cardinality(kept)) = c.mode
    BY <1>3, <1>7, NthOrder
  <2> QED BY <1>3, <2>7, <2>8
<1>8. ASSUME c.mode >= n PROVE e.mode \in Nat /\ \A m \in VirtualModes(e) : m < e.mode
  <2>1. less = D /\ c.mode \notin D
    BY <1>5, <1>8
  <2>2. e.mode = c.mode - Cardinality(D)
    BY <1>1, <2>1
  <2>3. e.mode >= Cardinality(K) /\ e.mode \in Int
    BY <1>3, <1>5, <1>6, <1>8, <2>2
  <2> QED BY <1>3, <2>3
<1> QED BY <1>1, <1>7, <1>8

(* Rows 0 and 1 stay where they are.                                         *)
LEMMA FirstRowsStay ==
  ASSUME NEW c, NEW supported, DOMAIN c = Fields, Numbering(c),
         NEW e, e = GetIntersection(c, supported)
  PROVE  /\ \A k \in VirtualModes(e) : k < 2 => k \in VirtualModes(c) /\ e.map[k] = c.map[k]
         /\ \A k \in VirtualModes(e) : \E m \in VirtualModes(c) : e.map[k] = c.map[m]
<1> DEFINE K == Kept(c, supported)
<1>1. K \in SUBSET Nat /\ IsFiniteSet(K) /\ 0 \in K /\ (1 \in K \/ K = {0})
  BY KeptNumbers
<1>2. /\ Cardinality(K) \in Nat \ {0}
      /\ VirtualModes(e) = 0..Cardinality(K) - 1
      /\ \A k \in VirtualModes(e) : Nth(K, k) \in K /\ e.map[k] = c.map[Nth(K, k)]
  BY IntersectionRows
<1>3. Nth(K, 0) = 0 /\ (1 \in K => 1 < Cardinality(K) /\ Nth(K, 1) = 1)
  BY <1>1, NthFirstTwo
<1>4. K \subseteq VirtualModes(c)
  BY DEF Kept
<1>5. K = {0} => Cardinality(K) = 1
  BY FS_Singleton
<1> HIDE DEF K
<1>6. ASSUME NEW k \in VirtualModes(e), k < 2 PROVE k \in VirtualModes(c) /\ e.map[k] = c.map[k]
  <2>1. k = 0 \/ (k = 1 /\ 1 \in K)
    BY <1>1, <1>2, <1>5, <1>6
  <2>2. Nth(K, k) = k
    BY <1>3, <2>1
  <2> QED BY <1>1, <1>2, <1>4, <2>1, <2>2
<1> QED BY <1>2, <1>4, <1>6

(* The intersection keeps the tables.                                        *)
LEMMA IntersectionTabled ==
  ASSUME NEW c, NEW supported, Tabled(c), NEW e, e = GetIntersection(c, supported)
  PROVE  /\ Tabled(e) /\ DOMAIN e = Fields
         /\ \A f \in Fields \ {"map", "mode"} : e[f] = c[f]
         /\ c.count # 0 => \A k, m : e.map[k] = c.map[m] => SizeOf(e, k) = SizeOf(c, m)
<1>1. ListOK(c) /\ MapOKWhere(c, supported) /\ DOMAIN c = Fields /\ Numbering(c)
  BY DEF Tabled, ConsoleOK, MapOK, MapOKWhere, Kept, ListOK
<1>2. ConsoleOK(e)
  BY <1>1, IntersectionKeeps
<1>3. DOMAIN e = Fields /\ \A f \in Fields \ {"map", "mode"} : e[f] = c[f]
  BY <1>1, IntersectionRows
<1>4. e.count = c.count /\ e.queryData = c.queryData
  BY <1>3 DEF Fields
<1>5. /\ \A k \in VirtualModes(e) : k < 2 => k \in VirtualModes(c) /\ e.map[k] = c.map[k]
      /\ \A k \in VirtualModes(e) : \E m \in VirtualModes(c) : e.map[k] = c.map[m]
  BY <1>1, FirstRowsStay
<1>6. c.count # 0 => \A k, m : e.map[k] = c.map[m] => SizeOf(e, k) = SizeOf(c, m)
  BY <1>4 DEF SizeOf
<1>7. ASSUME NEW m \in VirtualModes(e), m < 2, SizeOf(e, m) # NoSize, NEW i \in 1..e.count
      PROVE  e.map[m][i] # None
  <2>1. c.count # 0 /\ i \in 1..c.count
    BY <1>4, <1>7 DEF ListOK
  <2>2. m \in VirtualModes(c) /\ e.map[m] = c.map[m] /\ SizeOf(c, m) # NoSize
    BY <1>5, <1>6, <1>7, <2>1
  <2> QED BY <1>7, <2>1, <2>2 DEF Tabled, Filled
<1>8. StartsOK(e)
  <2> SUFFICES ASSUME c.count = 0 PROVE VirtualModes(e) = {0} /\ SizeOf(e, 0) = <<80, 25>>
    BY <1>4 DEF StartsOK
  <2>1. VirtualModes(c) = {0} /\ SizeOf(c, 0) = <<80, 25>> /\ SizeOf(e, 0) = SizeOf(c, 0)
    BY <1>4 DEF Tabled, StartsOK, SizeOf
  <2>2. PICK k \in Nat \ {0} : VirtualModes(e) = 0..k - 1
    BY <1>2 DEF ConsoleOK, MapOK, Numbering
  <2>3. 0 \in VirtualModes(e)
    BY <2>2
  <2> DEFINE K == Kept(c, supported)
  <2>4. K = {0} /\ Cardinality(K) = 1
    BY <2>1, FS_Singleton DEF Kept
  <2>5. VirtualModes(e) = 0..Cardinality(K) - 1
    BY <1>1, IntersectionRows
  <2>6. VirtualModes(e) = {0}
    BY <2>4, <2>5
  <2> QED BY <2>1, <2>6
<1> QED BY <1>2, <1>3, <1>6, <1>7, <1>8 DEF Tabled, Filled

-----------------------------------------------------------------------------
(* A console joins                                                           *)

(* The column of a console fills mode 0 and, if it keeps a size, mode 1.     *)
LEMMA ColumnFills ==
  ASSUME UsualModes, NEW c, Tabled(c), c.count > 0, NEW d \in Dev,
         LacksMode1(Sizes[d]) /\ 1 \in VirtualModes(c) => SizeOf(c, 1) = NoSize,
         NEW m \in VirtualModes(c), m < 2, SizeOf(c, m) # NoSize
  PROVE  Column(c, Sizes[d], m) # None
<1>1. ListOK(c) /\ Numbering(c) /\ QueryOK(c) /\ RowsOK(c)
  BY DEF Tabled, ConsoleOK, MapOK
<1> DEFINE f == c.slots[1]
<1>2. f \in Dev /\ 0 \in VirtualModes(c) /\ SizeOf(c, 0) = Sizes[f][0]
  BY <1>1, ReportedSizes DEF ListOK
<1>3. /\ 0 \in Modes(d) /\ Sizes[d][0] = Sizes[f][0] /\ Sizes[d][0] # NoSize /\ 1 \in Modes(d)
      /\ 0 \in Modes(f) /\ Sizes[f][0] # NoSize
  BY <1>2, ModeZero DEF UsualModes
<1>4. m = 0 \/ m = 1
  BY <1>1 DEF Numbering
<1>5. CASE m = 0
  <2>1. \A l \in VirtualModes(c) : ~(l < m)
    BY <1>1, <1>5 DEF Numbering
  <2> HIDE DEF f
  <2>2. Matches(c, d, m, 0)
    BY <1>2, <1>3, <1>5, <2>1 DEF Matches, IsFirst
  <2>3. 0 # None
    BY DEF None
  <2> QED BY <1>5, <2>2, <2>3, ColumnCases
<1>6. CASE m = 1
  <2>1. Sizes[d][1] # NoSize
    BY <1>3, <1>6 DEF LacksMode1, Modes
  <2>2. c.map[1][1] \in Modes(f) /\ SizeOf(c, 1) = c.queryData[c.map[1][1]] /\ c.map[1][1] = 1
    <3>1. c.map[1][1] \in Modes(f) /\ SizeOf(c, 1) = c.queryData[c.map[1][1]]
      BY <1>1, <1>6 DEF RowsOK, SizeOf
    <3>2. 1 \in Modes(f)
      BY <1>2 DEF UsualModes
    <3> QED BY <1>1, <1>6, <3>1, <3>2 DEF RowsOK
  <2>3. SizeOf(c, 1) = Sizes[f][1] /\ Sizes[f][1] # NoSize
    BY <1>1, <1>6, <2>2 DEF QueryOK
  <2> HIDE DEF f
  <2>4. Sizes[d][1] = SizeOf(c, 1)
    BY <1>2, <2>1, <2>3 DEF UsualModes
  <2>5. Sizes[f][0] # Sizes[f][1]
    BY <1>2, <1>3, <2>2, ModesOfDevice
  <2>6. \A l \in VirtualModes(c) : l < m => l = 0
    BY <1>1, <1>6 DEF Numbering
  <2>7. Matches(c, d, m, 1)
    BY <1>2, <1>3, <1>6, <2>1, <2>3, <2>4, <2>5, <2>6 DEF Matches, IsFirst
  <2>8. 1 # None
    BY DEF None
  <2> QED BY <1>6, <2>7, <2>8, ColumnCases
<1> QED BY <1>4, <1>5, <1>6

(* A console after the first: the tables stay filled and the mode stays      *)
(* behind the modes.                                                         *)
LEMMA SyncTabled ==
  ASSUME UsualModes, NEW c, NEW d \in Dev, Tabled(c), c.count > 0, Follows(c, d), Above(c),
         NEW e, e = SyncOutputMode(c, Sizes[d])
  PROVE  Tabled(e) /\ Above(e)
<1> DEFINE q == IF LacksMode1(Sizes[d]) THEN WithoutMode1(c) ELSE c
           more == WithColumn(q, d)
           both == InBoth(q, d)
<1>0. DOMAIN c = Fields /\ ConsoleOK(c)
  BY DEF Tabled, ConsoleOK, ListOK
<1>1. e = GetIntersection(more, both)
  BY <1>0, SyncUnfolded
<1>2. /\ ConsoleOK(q) /\ \A f \in Fields \ {"queryData"} : q[f] = c[f]
      /\ LacksMode1(Sizes[d]) /\ 1 \in VirtualModes(q) => SizeOf(q, 1) = NoSize
  BY <1>0, WithoutMode1Keeps
<1>3. /\ q.slots = c.slots /\ q.count = c.count /\ q.map = c.map /\ q.mode = c.mode
      /\ Follows(q, d) /\ q.count > 0 /\ VirtualModes(q) = VirtualModes(c)
  BY <1>2 DEF Fields, Follows, VirtualModes
<1>4. ConsoleOK(e) /\ e.count = c.count + 1
  BY <1>0, SyncKeeps
<1>5. Tabled(q)
  <2>1. \A k : q.queryData[k] = c.queryData[k] \/ q.queryData[k] = NoSize \/ k \notin DOMAIN c.queryData
    <3>1. CASE LacksMode1(Sizes[d])
      <4>1. q.queryData = [k \in DOMAIN c.queryData |-> IF k = 1 THEN NoSize ELSE c.queryData[k]]
        BY <1>0, <3>1 DEF WithoutMode1, Fields
      <4> HIDE DEF q
      <4> QED BY <4>1
    <3> QED BY <3>1
  <2> HIDE DEF q
  <2>2. ASSUME NEW m \in VirtualModes(q), SizeOf(q, m) # NoSize PROVE SizeOf(c, m) # NoSize
    <3>1. SizeOf(q, m) = q.queryData[c.map[m][1]] /\ SizeOf(c, m) = c.queryData[c.map[m][1]]
      BY <1>3 DEF SizeOf
    <3>2. c.map[m][1] \in DOMAIN c.queryData
      <4>1. QueryOK(c) /\ RowsOK(c)
        BY <1>0 DEF ConsoleOK, MapOK
      <4> QED BY <1>3, <4>1 DEF QueryOK, RowsOK
    <3> QED BY <2>1, <2>2, <3>1, <3>2
  <2>3. Filled(q)
    BY <1>3, <2>2 DEF Tabled, Filled
  <2>4. StartsOK(q)
    BY <1>3 DEF StartsOK
  <2> QED BY <1>2, <2>3, <2>4 DEF Tabled
<1> HIDE DEF q
<1>6. /\ ListOK(more) /\ MapOKWhere(more, both) /\ DOMAIN more = Fields
      /\ more.slots = c.slots /\ more.count = c.count + 1 /\ VirtualModes(more) = VirtualModes(q)
      /\ \A f \in Fields \ {"map", "count"} : more[f] = q[f]
      /\ \A m \in VirtualModes(q) : more.map[m][1] = q.map[m][1]
  BY <1>2, <1>3, WithColumnKeeps DEF ListOK
<1>7. \A m \in VirtualModes(q) : more.map[m] = Append(q.map[m], Column(q, Sizes[d], m))
  <2>1. DOMAIN q = Fields
    BY <1>2 DEF ConsoleOK, ListOK
  <2> QED BY <2>1 DEF WithColumn, Fields
<1>8. c.count \in Nat /\ more.queryData = q.queryData /\ more.mode = q.mode
  BY <1>0, <1>6 DEF Fields, ConsoleOK, ListOK
<1> HIDE DEF more, both
<1>9. \A m \in VirtualModes(q) : SizeOf(more, m) = SizeOf(q, m)
  BY <1>3, <1>6, <1>8 DEF SizeOf
<1>10. Numbering(more)
  BY <1>6 DEF MapOKWhere
<1>11. ASSUME NEW m \in VirtualModes(more), m < 2, SizeOf(more, m) # NoSize, NEW i \in 1..more.count
       PROVE  more.map[m][i] # None
  <2>1. SizeOf(q, m) # NoSize /\ m \in VirtualModes(q)
    BY <1>6, <1>9, <1>11
  <2>2. Column(q, Sizes[d], m) # None
    BY <1>2, <1>3, <1>5, <1>11, <2>1, ColumnFills
  <2>3. q.map[m] \in Seq(Int) /\ Len(q.map[m]) = c.count
    BY <1>2, <1>3, <2>1 DEF ConsoleOK, MapOK, RowsOK
  <2>4. Column(q, Sizes[d], m) \in Int
    BY ColumnCases
  <2> DEFINE col == Column(q, Sizes[d], m)
             row == q.map[m]
  <2>5. more.map[m] = Append(row, col) /\ row \in Seq(Int) /\ Len(row) = c.count /\ col \in Int
    BY <1>7, <2>1, <2>3, <2>4
  <2>6. \A j \in 1..c.count : row[j] # None
    BY <1>3, <1>5, <1>11, <2>1 DEF Tabled, Filled
  <2>7. col # None
    BY <2>2
  <2> HIDE DEF col, row
  <2>8. i \in 1..c.count + 1
    BY <1>6, <1>11
  <2>9. Append(row, col)[i] = IF i = c.count + 1 THEN col ELSE row[i]
    BY <1>8, <2>5, <2>8, AppendProperties
  <2> QED BY <1>8, <2>5, <2>6, <2>7, <2>8, <2>9
<1>12. ASSUME NEW m \in VirtualModes(e), m < 2, SizeOf(e, m) # NoSize, NEW i \in 1..e.count
       PROVE  e.map[m][i] # None
  <2>1. m \in VirtualModes(more) /\ e.map[m] = more.map[m]
    BY <1>1, <1>6, <1>10, <1>12, FirstRowsStay
  <2>2. e.count = more.count /\ e.queryData = more.queryData
    BY <1>1, <1>6, <1>10, IntersectionRows DEF Fields
  <2>3. SizeOf(e, m) = SizeOf(more, m)
    BY <2>1, <2>2 DEF SizeOf
  <2> QED BY <1>11, <1>12, <2>1, <2>2, <2>3
<1>13. Above(e)
  <2>1. PICK n \in Nat \ {0} : VirtualModes(more) = 0..n - 1
    BY <1>10 DEF Numbering
  <2>2. more.mode \in Nat /\ more.mode >= n
    BY <1>3, <1>6, <1>8, <2>1 DEF Above
  <2> QED BY <1>1, <1>6, <2>1, <2>2, ModeMoves DEF Above
<1> QED BY <1>4, <1>8, <1>12, <1>13 DEF Tabled, Filled, StartsOK

(* A console that joins, the first or a later one.                           *)
LEMMA AddedTabled ==
  ASSUME UsualModes, NEW c, NEW d \in Dev, Tabled(c), d \notin Listed(c), NEW e, e = Added(c, d)
  PROVE  Tabled(e) /\ Above(e)
<1>1. /\ DOMAIN c = Fields /\ c.slots \in Seq(Dev) /\ c.count \in Nat /\ c.count <= Len(c.slots)
      /\ Len(c.slots) \in Nat /\ ConsoleOK(c) /\ Numbering(c)
  BY DEF Tabled, ConsoleOK, ListOK, MapOK
<1> DEFINE slots == IF c.count < Len(c.slots) THEN [c.slots EXCEPT ![c.count + 1] = d]
                                             ELSE Append(c.slots, d)
           count == IF ListFull(c) THEN c.listCount + AllocUnit ELSE c.listCount
           f == [c EXCEPT !.mode = Unset, !.adding = TRUE, !.slots = slots,
                          !.listCount = count, !.stride = count]
<1>2. /\ c.count < Len(slots) /\ slots[c.count + 1] = d
      /\ \A i \in 1..c.count : slots[i] = c.slots[i]
      /\ slots \in Seq(Dev)
  BY <1>1
<1> HIDE DEF slots, count
<1>4. /\ DOMAIN f = Fields /\ f.slots = slots /\ f.count = c.count /\ f.mode = Unset
      /\ f.queryData = c.queryData /\ f.map = c.map
  BY <1>1 DEF Fields
<1>5. e = IF c.count = 0 THEN AddOutputMode(f, Sizes[d]) ELSE SyncOutputMode(f, Sizes[d])
  <2> DEFINE unset == [c EXCEPT !.mode = Unset, !.adding = TRUE, !.slots = slots, !.listCount = count]
  <2>1. e = IF c.count = 0
            THEN AddOutputMode([unset EXCEPT !.stride = unset.listCount], Sizes[d])
            ELSE SyncOutputMode([unset EXCEPT !.stride = unset.listCount], Sizes[d])
    BY Zenon DEF Added, slots, count
  <2>2. [unset EXCEPT !.stride = unset.listCount] = f
    BY <1>1 DEF Fields
  <2> QED BY <2>1, <2>2, Zenon
<1> HIDE DEF f
<1>6. \A i \in 1..c.count : c.slots[i] # d
  BY DEF Listed
<1>7. CASE c.count = 0
  <2>1. PICK n \in Nat \ {0} : /\ Modes(d) = 0..n - 1
    BY ModesOfDevice
  <2>2. Len(slots) > 0 /\ slots[1] = d
    BY <1>2, <1>7
  <2>3. ConsoleOK(e) /\ e.count = 1
    BY <1>2, <1>4, <1>5, <1>7, <2>2, AddKeeps
  <2>4. e.map = [m \in Modes(d) |-> <<m>>] /\ e.mode = Unset
    BY <1>4, <1>5, <1>7 DEF AddOutputMode, Fields, Modes
  <2>5. n <= Unset
    <3>1. Cardinality(0..n - 1) = n
      BY FS_Interval
    <3> QED BY <2>1, <3>1 DEF UsualModes
  <2>6. Above(e)
    BY <2>1, <2>4, <2>5 DEF Above, VirtualModes, Unset
  <2>7. Filled(e)
    <3> SUFFICES ASSUME NEW m \in VirtualModes(e), NEW i \in 1..e.count PROVE e.map[m][i] # None
      BY DEF Filled
    <3>1. m \in Modes(d) /\ i = 1 /\ e.map[m] = <<m>>
      BY <2>3, <2>4 DEF VirtualModes
    <3> QED BY <2>1, <3>1 DEF None
  <2> QED BY <2>3, <2>6, <2>7 DEF Tabled, StartsOK
<1>8. CASE c.count > 0
  <2>1. \A m : SizeOf(f, m) = SizeOf(c, m)
    BY <1>4 DEF SizeOf
  <2>2. VirtualModes(f) = VirtualModes(c)
    BY <1>4 DEF VirtualModes
  <2>3. ConsoleOK(f)
    <3>1. ListOK(f)
      <4>1. f.count \in 0..Len(f.slots)
        BY <1>1, <1>2, <1>4
      <4> QED BY <1>2, <1>4, <4>1 DEF Tabled, ConsoleOK, ListOK
    <3>2. f.slots[1] = c.slots[1] /\ \A i \in 1..f.count : f.slots[i] = c.slots[i]
      BY <1>1, <1>2, <1>4, <1>8
    <3>3. QueryOK(f) /\ RowsOK(f) /\ Numbering(f)
      BY <1>1, <1>4, <1>8, <2>1, <2>2, <3>2 DEF ConsoleOK, MapOK, QueryOK, RowsOK, Numbering
    <3>4. \A m \in VirtualModes(f), i \in 1..f.count : SoundEntry(f, m, i)
      BY <1>1, <1>4, <2>1, <2>2, <3>2 DEF ConsoleOK, MapOK, SoundEntry
    <3> QED BY <3>1, <3>3, <3>4 DEF ConsoleOK, MapOK
  <2>4. Tabled(f)
    BY <1>4, <1>8, <2>1, <2>2, <2>3 DEF Tabled, Filled, StartsOK
  <2>5. Follows(f, d)
    BY <1>2, <1>4, <1>6 DEF Follows
  <2>6. Above(f)
    <3>1. PICK n \in Nat \ {0} : VirtualModes(c) = 0..n - 1
      BY <1>1 DEF Numbering
    <3>2. n <= Unset
      BY <3>1, FewModes
    <3> QED BY <1>4, <2>2, <3>1, <3>2 DEF Above, Unset
  <2>7. f.count > 0 /\ e = SyncOutputMode(f, Sizes[d])
    BY <1>4, <1>5, <1>8
  <2> QED BY <2>4, <2>5, <2>6, <2>7, SyncTabled
<1> QED BY <1>1, <1>7, <1>8

-----------------------------------------------------------------------------
(* What a step of a call does to the mode of each splitter                   *)

(* A splitter stays in its mode if its tables, its mode and its own consoles *)
(* do; the cursor may move within the mode, and consoles may become shared.  *)
LEMMA StaysInMode ==
  ASSUME NEW st, NEW r, NEW s \in Splitters, InMode(st, s), SameTables(st.con[s], r.con[s]),
         r.con[s].mode = st.con[s].mode, r.con[s].adding = FALSE,
         OwnIn(r, s) \subseteq OwnIn(st, s),
         \A d \in OwnIn(st, s) : r.dev[d].mode = st.dev[d].mode,
         LET c == st.con[s]
         IN Listed(c) \subseteq OwnIn(st, s) /\ SizeOf(c, c.mode) # NoSize
              => r.con[s].cursor = c.cursor \/ Inside(r.con[s].cursor, SizeOf(c, c.mode))
  PROVE  InMode(r, s)
<1> DEFINE c == st.con[s]
           e == r.con[s]
<1>1. /\ e.slots = c.slots /\ e.count = c.count /\ e.map = c.map /\ e.mode = c.mode
      /\ VirtualModes(e) = VirtualModes(c) /\ \A m : SizeOf(e, m) = SizeOf(c, m)
      /\ Listed(e) = Listed(c)
  BY DEF SameTables, VirtualModes, SizeOf, Listed
<1>2. e.mode \in VirtualModes(e)
  BY <1>1 DEF InMode
<1>3. ASSUME SizeOf(e, e.mode) # NoSize
      PROVE  /\ \A i \in 1..e.count :
                  e.slots[i] \in OwnIn(r, s) => r.dev[e.slots[i]].mode = e.map[e.mode][i]
             /\ Listed(e) \subseteq OwnIn(r, s) => Inside(e.cursor, SizeOf(e, e.mode))
  <2>1. SizeOf(c, c.mode) # NoSize
    BY <1>1, <1>3
  <2>2. \A i \in 1..c.count :
          c.slots[i] \in OwnIn(st, s) => st.dev[c.slots[i]].mode = c.map[c.mode][i]
    BY <2>1 DEF InMode
  <2>3. Listed(c) \subseteq OwnIn(st, s) => Inside(c.cursor, SizeOf(c, c.mode))
    BY <2>1 DEF InMode
  <2> HIDE DEF c, e
  <2>4. \A i \in 1..e.count :
          e.slots[i] \in OwnIn(r, s) => r.dev[e.slots[i]].mode = e.map[e.mode][i]
    BY <1>1, <2>2
  <2>5. Listed(e) \subseteq OwnIn(r, s) => Inside(e.cursor, SizeOf(e, e.mode))
    BY <1>1, <2>1, <2>3 DEF c, e
  <2> QED BY <2>4, <2>5
<1> QED BY <1>2, <1>3 DEF InMode

(* The own consoles depend on the lists only.                                *)
LEMMA OwnOfLists ==
  ASSUME NEW st, NEW r, SameLists(st, r), NEW s \in Splitters
  PROVE  OwnIn(r, s) = OwnIn(st, s)
<1>1. \A t \in Splitters : Listed(r.con[t]) = Listed(st.con[t])
  BY DEF SameLists, Listed
<1> QED BY <1>1 DEF OwnIn

LEMMA OwnIsNotOthers ==
  ASSUME NEW st, NEW s \in Splitters, NEW t \in Splitters, t # s, NEW d \in OwnIn(st, t)
  PROVE  d \notin Listed(st.con[s]) /\ d \in Listed(st.con[t])
BY DEF OwnIn

(* Where each console stands in the list.                                    *)
LEMMA PlaceInList ==
  ASSUME NEW c, ListOK(c), NEW i \in 1..c.count
  PROVE  IndexIn(c, c.slots[i]) = i
<1>1. \E j \in 1..c.count : c.slots[j] = c.slots[i]
  OBVIOUS
<1>2. IndexIn(c, c.slots[i]) \in 1..c.count /\ c.slots[IndexIn(c, c.slots[i])] = c.slots[i]
  BY <1>1 DEF IndexIn
<1> QED BY <1>2 DEF ListOK

(* A mode that is set: no console of it refuses, so each is in its own mode  *)
(* of the same size, and the other splitter's own consoles are not touched.  *)
Reached(st, s, m, r) ==
  LET c == st.con[s]
  IN /\ Keeps(st, r.st)
     /\ r.st.con[s] = [c EXCEPT !.mode = m, !.cursor = Origin]
     /\ \A t \in Splitters \ {s} : r.st.con[t] = st.con[t]
     /\ \A d \in Dev : d \notin Listed(c) => r.st.dev[d] = st.dev[d]
     /\ SizeOf(c, m) # NoSize =>
          /\ r.ok = TRUE
          /\ \A i \in 1..c.count : r.st.dev[c.slots[i]].mode = c.map[m][i]

LEMMA SetModeReaches ==
  ASSUME NEW st, Good(st), NEW s \in Splitters, Tabled(st.con[s]),
         NEW m \in VirtualModes(st.con[s]), m # st.con[s].mode,
         NEW r, r = SetModeFn(st, s, m, {})
  PROVE  Reached(st, s, m, r)
<1> DEFINE c     == st.con[s]
           to(d) == c.map[m][IndexIn(c, d)]
           told  == {d \in Listed(c) : ~c.adding \/ to(d) # st.dev[d].mode}
           set   == {d \in told \ {} : Supports(d, to(d))}
<1>1. Shape(st) /\ ListOK(c)
  BY DEF Good, Tabled, ConsoleOK
<1>2. Keeps(st, r.st)
  BY SetModeKeeps
<1>3. r = [st |-> [con |-> [st.con EXCEPT ![s].mode = m, ![s].cursor = Origin],
                   dev |-> [d \in Dev |-> IF d \in set THEN [st.dev[d] EXCEPT !.mode = to(d)]
                                                       ELSE st.dev[d]]],
           ok |-> set = told]
  BY Zenon DEF SetModeFn
<1>4. set \subseteq Listed(c) /\ set \subseteq told
  OBVIOUS
<1>5. \A d \in told : Supports(d, to(d)) => d \in set
  OBVIOUS
<1>6. \A d \in Listed(c) : d \notin told => c.adding /\ to(d) = st.dev[d].mode
  OBVIOUS
<1>7. \A d \in told : d \in Listed(c)
  OBVIOUS
<1> HIDE DEF told, set
<1>8. /\ r.st.con[s] = [c EXCEPT !.mode = m, !.cursor = Origin]
      /\ \A t \in Splitters \ {s} : r.st.con[t] = st.con[t]
      /\ r.ok = (set = told)
      /\ \A d \in Dev : r.st.dev[d] = IF d \in set THEN [st.dev[d] EXCEPT !.mode = to(d)] ELSE st.dev[d]
  <2>1. r.st.con = [st.con EXCEPT ![s].mode = m, ![s].cursor = Origin]
    BY <1>3
  <2>2. r.st.con[s] = [c EXCEPT !.mode = m, !.cursor = Origin] /\ \A t \in Splitters \ {s} : r.st.con[t] = st.con[t]
    BY <1>1, <2>1 DEF Shape
  <2> QED BY <1>3, <2>2
<1>9. ASSUME SizeOf(c, m) # NoSize, NEW i \in 1..c.count
      PROVE  to(c.slots[i]) = c.map[m][i] /\ Supports(c.slots[i], c.map[m][i]) /\ c.slots[i] \in Dev
  <2>1. IndexIn(c, c.slots[i]) = i
    BY <1>1, <1>9, PlaceInList
  <2>2. Supports(c.slots[i], c.map[m][i])
    BY <1>9, EntryLeads
  <2>3. c.slots[i] \in Dev
    BY <1>1 DEF ListOK
  <2> QED BY <2>1, <2>2, <2>3
<1>10. ASSUME SizeOf(c, m) # NoSize PROVE set = told
  <2>1. ASSUME NEW d \in told PROVE d \in set
    <3>1. PICK i \in 1..c.count : c.slots[i] = d
      BY <1>7 DEF Listed
    <3>2. Supports(d, to(d))
      BY <1>9, <1>10, <3>1
    <3> QED BY <1>5, <3>2
  <2> QED BY <1>4, <2>1
<1>11. ASSUME SizeOf(c, m) # NoSize, NEW i \in 1..c.count
       PROVE  r.st.dev[c.slots[i]].mode = c.map[m][i]
  <2> DEFINE d == c.slots[i]
  <2>1. to(d) = c.map[m][i] /\ d \in Dev /\ d \in Listed(c)
    BY <1>9, <1>11 DEF Listed
  <2>2. DOMAIN st.dev[d] = {"mode", "attr"}
    BY <1>1, <2>1 DEF Shape
  <2> HIDE DEF d, to, c
  <2>3. CASE d \in set
    <3>1. r.st.dev[d] = [st.dev[d] EXCEPT !.mode = to(d)]
      BY <1>8, <2>1, <2>3
    <3>2. r.st.dev[d].mode = to(d)
      BY <2>2, <3>1
    <3> QED BY <2>1, <3>2 DEF d
  <2>4. CASE d \notin set
    <3>1. d \notin told
      BY <1>10, <1>11, <2>4
    <3>2. to(d) = st.dev[d].mode /\ r.st.dev[d] = st.dev[d]
      BY <1>6, <1>8, <2>1, <2>4, <3>1
    <3> QED BY <2>1, <3>2 DEF d
  <2> QED BY <2>3, <2>4
<1>12. \A d \in Dev : d \notin Listed(c) => r.st.dev[d] = st.dev[d]
  BY <1>4, <1>8
<1> HIDE DEF c
<1> QED BY <1>2, <1>8, <1>10, <1>11, <1>12 DEF Reached, c

(* So a splitter is in a mode that has been set, unless it was already in it. *)
LEMMA SetModeEnters ==
  ASSUME UsualModes, NEW st, Good(st), NEW s \in Splitters, Tabled(st.con[s]),
         NEW m \in VirtualModes(st.con[s]), m # st.con[s].mode,
         NEW r, r = SetModeFn(st, s, m, {})
  PROVE  /\ st.con[s].adding = FALSE => InMode(r.st, s)
         /\ InMode([r.st EXCEPT !.con[s].adding = FALSE], s)
         /\ \A t \in Splitters \ {s} : InMode(st, t) => InMode(r.st, t)
<1> DEFINE c == st.con[s]
<1>1. Shape(st) /\ ListOK(c)
  BY DEF Good, Tabled, ConsoleOK
<1>2. /\ Keeps(st, r.st)
      /\ r.st.con[s] = [c EXCEPT !.mode = m, !.cursor = Origin]
      /\ \A t \in Splitters \ {s} : r.st.con[t] = st.con[t]
  <2>1. Reached(st, s, m, r)
    BY SetModeReaches
  <2> QED BY <2>1, Zenon DEF Reached
<1>9. /\ \A d \in Dev : d \notin Listed(c) => r.st.dev[d] = st.dev[d]
      /\ SizeOf(c, m) # NoSize =>
           \A i \in 1..c.count : r.st.dev[c.slots[i]].mode = c.map[m][i]
  <2>1. Reached(st, s, m, r)
    BY SetModeReaches
  <2> QED BY <2>1, Zenon DEF Reached
<1>3. Shape(r.st) /\ SameLists(st, r.st) /\ \A t \in Splitters : SameTables(st.con[t], r.st.con[t])
  BY <1>2 DEF Keeps, Good
<1>4. ASSUME NEW q, DOMAIN q = {"con", "dev"}, q.dev = r.st.dev, q.con[s].adding = FALSE,
             SameTables(c, q.con[s]), q.con[s].mode = m, q.con[s].cursor = Origin
      PROVE  InMode(q, s)
  <2> DEFINE e == q.con[s]
  <2>1. /\ e.slots = c.slots /\ e.count = c.count /\ e.map = c.map /\ e.mode = m
        /\ VirtualModes(e) = VirtualModes(c) /\ \A k : SizeOf(e, k) = SizeOf(c, k)
    BY <1>4 DEF SameTables, VirtualModes, SizeOf
  <2>2. SizeOf(c, m) # NoSize => Inside(Origin, SizeOf(c, m))
    BY ReportedSizes
  <2> HIDE DEF c
  <2>3. SizeOf(e, m) # NoSize =>
          /\ \A i \in 1..e.count : q.dev[e.slots[i]].mode = e.map[m][i]
          /\ Inside(e.cursor, SizeOf(e, m))
    BY <1>4, <1>9, <2>1, <2>2
  <2> QED BY <1>4, <2>1, <2>3 DEF InMode, c
<1>5. /\ DOMAIN r.st.con[s] = Fields /\ r.st.con[s].mode = m /\ r.st.con[s].cursor = Origin
      /\ r.st.con[s].adding = c.adding
  BY <1>1, <1>2, <1>3 DEF Shape, Fields
<1>6. c.adding = FALSE => InMode(r.st, s)
  BY <1>3, <1>4, <1>5 DEF Shape
<1>7. InMode([r.st EXCEPT !.con[s].adding = FALSE], s)
  <2> DEFINE q == [r.st EXCEPT !.con[s].adding = FALSE]
  <2>1. /\ DOMAIN q = {"con", "dev"} /\ q.dev = r.st.dev /\ q.con[s] = [r.st.con[s] EXCEPT !.adding = FALSE]
    BY <1>3 DEF Shape
  <2> HIDE DEF q
  <2>2. /\ q.con[s].adding = FALSE /\ q.con[s].mode = m /\ q.con[s].cursor = Origin
        /\ SameTables(c, q.con[s])
    BY <1>3, <1>5, <2>1 DEF SameTables, Fields
  <2>3. InMode(q, s)
    BY <1>4, <2>1, <2>2
  <2> QED BY <2>3 DEF q
<1>8. ASSUME NEW t \in Splitters \ {s}, InMode(st, t) PROVE InMode(r.st, t)
  <2>1. r.st.con[t] = st.con[t]
    BY <1>1, <1>2 DEF Shape
  <2>2. OwnIn(r.st, t) = OwnIn(st, t)
    BY <1>3, OwnOfLists
  <2>3. \A d \in OwnIn(st, t) : r.st.dev[d].mode = st.dev[d].mode
    <3> SUFFICES ASSUME NEW d \in OwnIn(st, t) PROVE r.st.dev[d].mode = st.dev[d].mode
      OBVIOUS
    <3>1. d \notin Listed(c) /\ d \in Listed(st.con[t])
      BY OwnIsNotOthers
    <3>2. d \in Dev
      <4>1. ListOK(st.con[t])
        BY DEF Good, ConsoleOK
      <4> QED BY <3>1, <4>1 DEF ListOK, Listed
    <3> QED BY <1>9, <3>1, <3>2
  <2>4. r.st.con[t].adding = FALSE
    BY <1>8, <2>1 DEF InMode
  <2> QED BY <1>3, <1>8, <2>1, <2>2, <2>3, <2>4, StaysInMode
<1> QED BY <1>6, <1>7, <1>8

(* A splitter has a mode or has none.                                        *)
LEMMA ModeOrNone ==
  ASSUME NEW st, NEW s, InMode(st, s), Above(st.con[s])
  PROVE  FALSE
<1>1. st.con[s].mode \in VirtualModes(st.con[s])
  BY DEF InMode
<1>2. st.con[s].mode < st.con[s].mode /\ st.con[s].mode \in Nat
  BY <1>1 DEF Above
<1> QED BY <1>2

(* The tables of both splitters.                                             *)
BothTabled(st) == Good(st) /\ \A s \in Splitters : Tabled(st.con[s])

LEMMA KeepsTabled ==
  ASSUME NEW st, NEW r, BothTabled(st), Keeps(st, r)
  PROVE  BothTabled(r)
<1>1. ASSUME NEW s \in Splitters PROVE Tabled(r.con[s])
  <2>1. ConsoleOK(r.con[s]) /\ SameTables(st.con[s], r.con[s]) /\ Tabled(st.con[s])
    BY DEF Keeps, Good, BothTabled
  <2>2. VirtualModes(r.con[s]) = VirtualModes(st.con[s]) /\ \A m : SizeOf(r.con[s], m) = SizeOf(st.con[s], m)
    BY <2>1 DEF SameTables, VirtualModes, SizeOf
  <2> QED BY <2>1, <2>2 DEF Tabled, Filled, StartsOK, SameTables
<1> QED BY <1>1 DEF BothTabled, Keeps

(* What a step leaves of the modes: a splitter that is in its mode is in one *)
(* afterwards, and one that has none has none.                               *)
Passes(st, r) ==
  /\ BothTabled(r) /\ SameLists(st, r)
  /\ \A s \in Splitters : /\ InMode(st, s) => InMode(r, s)
                          /\ Above(st.con[s]) => Above(r.con[s])

(* The mode is renumbered with its row; if the row is dropped mode 0 is set. *)
LEMMA NarrowedPasses ==
  ASSUME UsualModes, NEW st, BothTabled(st), NEW s \in Splitters, NEW supported,
         InMode(st, s) \/ Above(st.con[s]),
         NEW r, r = Narrowed(st, s, supported, {})
  PROVE  Passes(st, r)
<1> DEFINE c   == st.con[s]
           K   == Kept(c, supported)
           e   == GetIntersection(c, supported)
           cut == [st EXCEPT !.con[s] = e]
<1>1. Shape(st) /\ Tabled(c) /\ DOMAIN c = Fields /\ Numbering(c)
  BY DEF BothTabled, Good, Shape, Tabled, ConsoleOK, MapOK
<1>2. /\ Tabled(e) /\ DOMAIN e = Fields
      /\ \A f \in Fields \ {"map", "mode"} : e[f] = c[f]
      /\ c.count # 0 => \A k, m : e.map[k] = c.map[m] => SizeOf(e, k) = SizeOf(c, m)
  <2> HIDE DEF c
  <2> QED BY <1>1, IntersectionTabled
<1>3. e.slots = c.slots /\ e.count = c.count /\ e.adding = c.adding /\ e.cursor = c.cursor
  BY <1>2 DEF Fields
<1>4. PICK n \in Nat \ {0} : VirtualModes(c) = 0..n - 1
  BY <1>1 DEF Numbering
<1>5. c.mode \in Nat
  BY <1>4 DEF InMode, Above
<1>6. /\ c.mode \in VirtualModes(c) \ K => e.mode = None
      /\ c.mode \in K => e.mode \in VirtualModes(e) /\ e.map[e.mode] = c.map[c.mode]
      /\ c.mode >= n => e.mode \in Nat /\ \A m \in VirtualModes(e) : m < e.mode
  <2> HIDE DEF c
  <2> QED BY <1>1, <1>4, <1>5, ModeMoves
<1> HIDE DEF e, K
<1>7. /\ DOMAIN cut = {"con", "dev"} /\ cut.dev = st.dev /\ DOMAIN cut.con = Splitters
      /\ cut.con[s] = e /\ \A t \in Splitters \ {s} : cut.con[t] = st.con[t]
  BY <1>1 DEF Shape
<1>8. r = IF cut.con[s].mode < 0 THEN SetModeFn(cut, s, 0, {}).st ELSE cut
  BY DEF Narrowed, e
<1> HIDE DEF cut
<1>9. BothTabled(cut) /\ SameLists(st, cut) /\ Shape(cut)
  <2>1. Shape(cut)
    BY <1>1, <1>2, <1>7 DEF Shape
  <2>2. ASSUME NEW t \in Splitters
        PROVE  /\ Tabled(cut.con[t]) /\ cut.con[t].slots = st.con[t].slots
               /\ cut.con[t].count = st.con[t].count
    <3>1. CASE t = s
      BY <1>2, <1>3, <1>7, <3>1
    <3>2. CASE t # s
      BY <1>7, <3>2 DEF BothTabled
    <3> QED BY <3>1, <3>2
  <2> QED BY <2>1, <2>2 DEF BothTabled, Good, SameLists, Tabled
<1>10. \A t \in Splitters : OwnIn(cut, t) = OwnIn(st, t)
  BY <1>9, OwnOfLists
<1>11. ASSUME NEW t \in Splitters \ {s}
       PROVE  /\ InMode(st, t) => InMode(cut, t)
              /\ Above(st.con[t]) => Above(cut.con[t])
  <2>1. cut.con[t] = st.con[t]
    BY <1>7
  <2> QED BY <1>7, <1>10, <2>1 DEF InMode
<1>12. CASE Above(c)
  <2>1. Above(e)
    BY <1>4, <1>5, <1>6, <1>12 DEF Above
  <2>2. r = cut
    BY <1>7, <1>8, <2>1 DEF Above
  <2>3. ~InMode(st, s)
    BY <1>12, ModeOrNone
  <2> QED BY <1>7, <1>9, <1>11, <2>1, <2>2, <2>3 DEF Passes
<1>13. CASE InMode(st, s)
  <2>1. c.mode \in VirtualModes(c) /\ c.adding = FALSE /\ ~Above(c)
    BY <1>13, ModeOrNone DEF InMode
  <2>2. CASE c.mode \in K
    <3>1. e.mode \in VirtualModes(e) /\ e.map[e.mode] = c.map[c.mode]
      BY <1>6, <2>2
    <3>2. PICK k \in Nat \ {0} : VirtualModes(e) = 0..k - 1
      BY <1>2 DEF Tabled, ConsoleOK, MapOK, Numbering
    <3>3. r = cut
      BY <1>7, <1>8, <3>1, <3>2
    <3>4. SizeOf(e, e.mode) = SizeOf(c, c.mode)
      <4>1. CASE c.count # 0
        BY <1>2, <3>1, <4>1
      <4>2. CASE c.count = 0
        <5>1. VirtualModes(c) = {0} /\ VirtualModes(e) = {0}
          BY <1>1, <1>2, <1>3, <4>2 DEF Tabled, StartsOK
        <5>2. SizeOf(e, 0) = SizeOf(c, 0)
          BY <1>1, <1>2, <1>3, <4>2 DEF Tabled, StartsOK
        <5> QED BY <2>1, <3>1, <5>1, <5>2
      <4> QED BY <4>1, <4>2
    <3>5. Listed(e) = Listed(c)
      BY <1>3, ListedOf
    <3>6. InMode(cut, s)
      <4>1. SizeOf(c, c.mode) # NoSize =>
              /\ \A i \in 1..c.count :
                   c.slots[i] \in OwnIn(st, s) => st.dev[c.slots[i]].mode = c.map[c.mode][i]
              /\ Listed(c) \subseteq OwnIn(st, s) => Inside(c.cursor, SizeOf(c, c.mode))
        BY <1>13 DEF InMode
      <4> HIDE DEF c
      <4>2. SizeOf(e, e.mode) # NoSize =>
              /\ \A i \in 1..e.count :
                   e.slots[i] \in OwnIn(cut, s) => cut.dev[e.slots[i]].mode = e.map[e.mode][i]
              /\ Listed(e) \subseteq OwnIn(cut, s) => Inside(e.cursor, SizeOf(e, e.mode))
        BY <1>3, <1>7, <1>10, <3>1, <3>4, <3>5, <4>1
      <4> QED BY <1>3, <1>7, <2>1, <3>1, <4>2 DEF InMode
    <3> QED BY <1>9, <1>11, <2>1, <3>3, <3>6 DEF Passes
  <2>3. CASE c.mode \notin K
    <3>1. e.mode = None
      BY <1>6, <2>1, <2>3
    <3> DEFINE set == SetModeFn(cut, s, 0, {})
    <3>2. r = set.st
      BY <1>7, <1>8, <3>1 DEF None
    <3>3. /\ 0 \in VirtualModes(cut.con[s]) /\ 0 # cut.con[s].mode /\ Tabled(cut.con[s])
          /\ cut.con[s].adding = FALSE /\ Good(cut)
      BY <1>2, <1>3, <1>7, <1>9, <2>1, <3>1, ReportedSizes DEF None, BothTabled
    <3>4. /\ InMode(set.st, s)
          /\ \A t \in Splitters \ {s} : InMode(cut, t) => InMode(set.st, t)
      <4> HIDE DEF set
      <4>1. set = SetModeFn(cut, s, 0, {})
        BY DEF set
      <4> QED BY <3>3, <4>1, SetModeEnters
    <3>5. /\ Keeps(cut, set.st)
          /\ \A t \in Splitters \ {s} : set.st.con[t] = cut.con[t]
      <4> HIDE DEF set
      <4>1. set = SetModeFn(cut, s, 0, {})
        BY DEF set
      <4>2. Reached(cut, s, 0, set)
        BY <3>3, <4>1, SetModeReaches
      <4> QED BY <1>7, <4>2 DEF Reached
    <3> HIDE DEF set
    <3>6. BothTabled(r) /\ SameLists(st, r)
      BY <1>9, <3>2, <3>5, KeepsTabled DEF Keeps, SameLists
    <3>7. \A t \in Splitters \ {s} : r.con[t] = cut.con[t]
      BY <1>7, <3>2, <3>5
    <3> QED BY <1>11, <2>1, <3>2, <3>4, <3>6, <3>7 DEF Passes
  <2> QED BY <2>2, <2>3
<1> QED BY <1>12, <1>13

(* The intersection of the two splitters.                                    *)
LEMMA IntersectBothPasses ==
  ASSUME UsualModes, NEW st, BothTabled(st), \A s \in Splitters : InMode(st, s) \/ Above(st.con[s]),
         NEW r, r = IntersectBoth(st, {})
  PROVE  Passes(st, r)
<1> DEFINE out   == st.con["ConOut"]
           err   == st.con["StdErr"]
           inErr == {m \in VirtualModes(out) :
                       \E k \in VirtualModes(err) : SameSize(err, k, SizeOf(out, m))}
           inOut == {k \in VirtualModes(err) :
                       \E m \in VirtualModes(out) : IsFirst(err, k, SizeOf(out, m))}
           one == Narrowed(st, "ConOut", inErr, {})
           two == Narrowed(one, "StdErr", inOut, {})
<1>1. r = two \/ r = st
  BY Zenon DEF IntersectBoth
<1>2. "ConOut" \in Splitters /\ "StdErr" \in Splitters
  BY DEF Splitters
<1> HIDE DEF inErr, inOut
<1>3. Passes(st, one)
  BY <1>2, NarrowedPasses
<1> HIDE DEF one
<1>4. BothTabled(one) /\ \A s \in Splitters : InMode(one, s) \/ Above(one.con[s])
  BY <1>3 DEF Passes
<1>5. Passes(one, two)
  BY <1>2, <1>4, NarrowedPasses
<1> HIDE DEF two
<1>6. Passes(st, two)
  BY <1>3, <1>5 DEF Passes, SameLists
<1>7. Passes(st, st)
  BY DEF Passes, SameLists
<1> QED BY <1>1, <1>6, <1>7

-----------------------------------------------------------------------------
(* ConsplitterSetConsoleOutMode                                              *)

(* Best after the first m modes, from that after one less.                   *)
BestStep(c, b, m) ==
  IF m = 0 THEN Unset
  ELSE IF /\ m - 1 \in Reported(c)
          /\ b[m - 1] # Unset => /\ SizeOf(c, m - 1)[1] >= SizeOf(c, b[m - 1])[1]
                                 /\ SizeOf(c, m - 1)[2] >= SizeOf(c, b[m - 1])[2]
       THEN m - 1 ELSE b[m - 1]

(* The search for the highest mode, stage by stage.                          *)
LEMMA HighestUnfolded ==
  ASSUME NEW c, NEW n \in Nat, MaxMode(c) = n
  PROVE  \E b : b = [m \in 0..n |-> BestStep(c, b, m)] /\ Highest(c) = b[n]
<1> DEFINE T == {k \in Nat : \E b : b = [m \in 0..k |-> BestStep(c, b, m)]}
<1>1. 0 \in T
  <2> DEFINE b == [m \in 0..0 |-> Unset]
  <2>1. \A m \in 0..0 : BestStep(c, b, m) = Unset
    BY DEF BestStep
  <2>2. b = [m \in 0..0 |-> BestStep(c, b, m)]
    BY <2>1
  <2> QED BY <2>2
<1>2. ASSUME NEW k \in Nat, k \in T PROVE k + 1 \in T
  <2>1. PICK b : b = [m \in 0..k |-> BestStep(c, b, m)]
    BY <1>2
  <2> DEFINE a == [m \in 0..k + 1 |-> IF m \in 0..k THEN b[m] ELSE BestStep(c, b, m)]
  <2>2. ASSUME NEW m \in 0..k + 1 PROVE a[m] = BestStep(c, a, m)
    <3>1. a[m] = BestStep(c, b, m)
      BY <2>1
    <3>2. m # 0 => m - 1 \in 0..k /\ a[m - 1] = b[m - 1]
      OBVIOUS
    <3> HIDE DEF a
    <3> QED BY <3>1, <3>2 DEF BestStep
  <2>3. a = [m \in 0..k + 1 |-> BestStep(c, a, m)]
    BY <2>2
  <2> HIDE DEF a
  <2>4. \E b_ : b_ = [m \in 0..k + 1 |-> BestStep(c, b_, m)]
    BY <2>3
  <2> QED BY <2>4
<1> HIDE DEF T
<1>3. n \in T
  BY <1>1, <1>2, SetInduction
<1> DEFINE P(b) == b = [m \in 0..n |-> BestStep(c, b, m)]
<1>4. \E b : P(b)
  BY <1>3 DEF T
<1>5. P(CHOOSE b : P(b))
  BY <1>4
<1>6. Highest(c) = (CHOOSE b : P(b))[n]
  BY DEF Highest, BestStep
<1> QED BY <1>5, <1>6

(* It is a mode that is reported, since mode 0 is.                           *)
LEMMA HighestIsReported ==
  ASSUME UsualModes, NEW c, Tabled(c)
  PROVE  Highest(c) \in VirtualModes(c) /\ SizeOf(c, Highest(c)) # NoSize
<1>1. PICK n \in Nat \ {0} : VirtualModes(c) = 0..n - 1
  BY DEF Tabled, ConsoleOK, MapOK, Numbering
<1>2. MaxMode(c) = n
  <2>1. Cardinality(0..n - 1) = n
    BY FS_Interval
  <2> QED BY <1>1, <2>1 DEF MaxMode, VirtualModes
<1>3. PICK b : b = [m \in 0..n |-> BestStep(c, b, m)] /\ Highest(c) = b[n]
  BY <1>2, HighestUnfolded
<1>4. 0 \in Reported(c)
  BY ReportedSizes DEF Reported
<1> DEFINE T == {k \in Nat : k + 1 \in 0..n => b[k + 1] \in Reported(c)}
<1>5. \A m \in 0..n : b[m] = BestStep(c, b, m)
  BY <1>3
<1>6. b[0] = Unset
  BY <1>5 DEF BestStep
<1>7. 0 \in T
  <2>1. 0 + 1 \in 0..n /\ (0 + 1) - 1 = 0
    OBVIOUS
  <2>2. b[0 + 1] = 0
    BY <1>4, <1>5, <1>6, <2>1 DEF BestStep
  <2> QED BY <1>4, <2>2
<1>8. ASSUME NEW k \in Nat, k \in T PROVE k + 1 \in T
  <2> SUFFICES ASSUME k + 1 + 1 \in 0..n PROVE b[k + 1 + 1] \in Reported(c)
    OBVIOUS
  <2>1. k + 1 \in 0..n /\ (k + 1 + 1) - 1 = k + 1 /\ k + 1 + 1 # 0
    OBVIOUS
  <2>2. b[k + 1] \in Reported(c)
    BY <1>8, <2>1
  <2>3. (b[k + 1 + 1] = k + 1 /\ k + 1 \in Reported(c)) \/ b[k + 1 + 1] = b[k + 1]
    BY <1>5, <2>1 DEF BestStep
  <2> QED BY <2>2, <2>3
<1> HIDE DEF T
<1>9. n - 1 \in T
  BY <1>7, <1>8, SetInduction
<1>10. b[n] \in Reported(c)
  <2>1. n - 1 + 1 = n /\ n \in 0..n
    OBVIOUS
  <2> QED BY <1>9, <2>1 DEF T
<1> QED BY <1>3, <1>10 DEF Reported

(* AddingConOutDevice is reset.                                              *)
LEMMA AddingEnds ==
  ASSUME NEW st, Good(st), NEW s \in Splitters, NEW r, r = [st EXCEPT !.con[s].adding = FALSE]
  PROVE  /\ Keeps(st, r) /\ r.dev = st.dev
         /\ \A t \in Splitters \ {s} : r.con[t] = st.con[t]
<1>1. Shape(st)
  BY DEF Good
<1>2. /\ Shape(r) /\ Patched(st.con[s], r.con[s]) /\ r.dev = st.dev
      /\ \A t \in Splitters \ {s} : r.con[t] = st.con[t]
  BY <1>1 DEF Shape, Patched, Fields
<1>3. ASSUME NEW q, Shape(q), Patched(st.con[s], q.con[s]), \A t \in Splitters \ {s} : q.con[t] = st.con[t]
      PROVE  Keeps(st, q)
  BY <1>3, PatchedKeeps
<1>4. Keeps(st, r)
  BY <1>2, <1>3
<1> QED BY <1>2, <1>4

(* With no size asked for, the new mode is set at the first attempt.         *)
LEMMA SetConsoleOutModeEnters ==
  ASSUME UsualModes, wanted = <<0, 0>>, NEW st, BothTabled(st), NEW s \in Splitters, Above(st.con[s]),
         NEW r, r = SetConsoleOutMode(st, s, {}, {}),
         NEW q, q = [r.st EXCEPT !.con[s].adding = FALSE]
  PROVE  /\ r.fell = "no" /\ Keeps(st, q)
         /\ InMode(q, s)
         /\ \A t \in Splitters \ {s} : InMode(st, t) => InMode(q, t)
<1> DEFINE c == st.con[s]
           m == Highest(c)
           set == SetModeFn(st, s, m, {})
<1>1. Good(st) /\ Shape(st) /\ Tabled(c)
  BY DEF BothTabled, Good
<1>2. m \in VirtualModes(c) /\ SizeOf(c, m) # NoSize
  <2> HIDE DEF c
  <2> QED BY <1>1, HighestIsReported
<1>3. m # c.mode
  <2> HIDE DEF m
  <2> QED BY <1>2 DEF Above
<1>4. Preferred(c) = m
  BY DEF Preferred
<1>5. r = IF set.ok THEN [st |-> set.st, fell |-> "no"]
          ELSE LET base == SetModeFn(set.st, s, LastOfSize(c, <<90, 80>>), {})
               IN [st |-> base.st, fell |-> IF base.ok THEN "well" ELSE "badly"]
  BY <1>4, Zenon DEF SetConsoleOutMode
<1> HIDE DEF m
<1>6. set = SetModeFn(st, s, m, {})
  OBVIOUS
<1> HIDE DEF set
<1>7. Reached(st, s, m, set)
  BY <1>1, <1>2, <1>3, <1>6, SetModeReaches
<1>8. set.ok = TRUE /\ Keeps(st, set.st)
  BY <1>2, <1>7 DEF Reached
<1>9. r.st = set.st /\ r.fell = "no"
  BY <1>5, <1>8
<1>10. /\ InMode(q, s)
       /\ \A t \in Splitters \ {s} : InMode(st, t) => InMode(set.st, t)
  <2>1. /\ InMode([set.st EXCEPT !.con[s].adding = FALSE], s)
        /\ \A t \in Splitters \ {s} : InMode(st, t) => InMode(set.st, t)
    BY <1>1, <1>2, <1>3, <1>6, SetModeEnters
  <2> QED BY <1>9, <2>1
<1>11. Good(set.st) /\ Shape(set.st)
  BY <1>8 DEF Keeps, Good
<1>12. /\ Keeps(set.st, q) /\ q.dev = set.st.dev
       /\ \A t \in Splitters \ {s} : q.con[t] = set.st.con[t]
  BY <1>9, <1>11, AddingEnds
<1>13. ASSUME NEW t \in Splitters \ {s}, InMode(set.st, t) PROVE InMode(q, t)
  <2>1. OwnIn(q, t) = OwnIn(set.st, t)
    BY <1>12, OwnOfLists DEF Keeps
  <2> QED BY <1>12, <1>13, <2>1 DEF InMode
<1> QED BY <1>8, <1>9, <1>10, <1>12, <1>13, KeepsChains

-----------------------------------------------------------------------------
(* The invariant of the calls                                                *)

(* Between two calls the own consoles are in the mode of their splitter.     *)
StepInv ==
  /\ BothTabled(Now) /\ wanted = <<0, 0>>
  /\ \A s \in Splitters : InMode(Now, s)

(* From the steps of a call to the state after it.                           *)
LEMMA StepNow ==
  ASSUME NEW r, Takes(r), BothTabled(r), \A s \in Splitters : InMode(r, s), wanted' = <<0, 0>>
  PROVE  StepInv'
<1>1. Shape(r) /\ Good(r)
  BY DEF BothTabled, Good
<1>2. Good(Now)' /\ \A s \in Splitters : con'[s] = r.con[s]
  BY <1>1, GoodNow
<1>3. con' = r.con /\ dev' = r.dev
  BY DEF Takes
<1>4. Now'.con = r.con /\ Now'.dev = r.dev
  BY <1>3 DEF Now
<1>5. ASSUME NEW s \in Splitters PROVE InMode(Now', s)
  BY <1>4 DEF InMode, OwnIn
<1>6. ASSUME NEW s \in Splitters PROVE Tabled(Now'.con[s])
  BY <1>4 DEF BothTabled
<1>7. BothTabled(Now')
  BY <1>2, <1>6 DEF BothTabled
<1> QED BY <1>5, <1>7 DEF StepInv

(* A call that lists and unlists nothing.                                    *)
LEMMA StepKept ==
  ASSUME StepInv, NEW r, Keeps(Now, r), Takes(r), UNCHANGED wanted,
         \A s \in Splitters : InMode(r, s)
  PROVE  StepInv'
<1>1. BothTabled(r)
  BY KeepsTabled DEF StepInv
<1>2. wanted' = <<0, 0>>
  BY DEF StepInv
<1> QED BY <1>1, <1>2, StepNow

(* A step that leaves the modes alone and the cursors inside.                *)
LEMMA StepLeavesModes ==
  ASSUME NEW st, NEW r, Good(st), Keeps(st, r), NEW s \in Splitters, InMode(st, s),
         r.con[s].mode = st.con[s].mode, r.con[s].adding = st.con[s].adding,
         \A d \in Dev : r.dev[d].mode = st.dev[d].mode,
         LET c == st.con[s]
         IN Listed(c) \subseteq OwnIn(st, s) /\ SizeOf(c, c.mode) # NoSize
              => r.con[s].cursor = c.cursor \/ Inside(r.con[s].cursor, SizeOf(c, c.mode))
  PROVE  InMode(r, s)
<1>1. SameTables(st.con[s], r.con[s]) /\ OwnIn(r, s) = OwnIn(st, s) /\ r.con[s].adding = FALSE
  BY OwnOfLists DEF Keeps, InMode
<1>2. \A d \in OwnIn(st, s) : d \in Dev
  <2>1. ListOK(st.con[s])
    BY DEF Good, ConsoleOK
  <2> QED BY <2>1 DEF OwnIn, Listed, ListOK
<1>3. \A d \in OwnIn(st, s) : r.dev[d].mode = st.dev[d].mode
  BY <1>2
<1> QED BY <1>1, <1>3, StaysInMode

(* The attribute is no part of it.                                           *)
LEMMA AttributeLeavesModes ==
  ASSUME NEW st, Good(st), NEW s \in Splitters, NEW a, NEW F, NEW r, r = SetAttributeFn(st, s, a, F).st
  PROVE  /\ \A t \in Splitters : /\ r.con[t].mode = st.con[t].mode
                                 /\ r.con[t].adding = st.con[t].adding
                                 /\ r.con[t].cursor = st.con[t].cursor
         /\ \A d \in Dev : r.dev[d].mode = st.dev[d].mode
         /\ \A t \in Splitters : InMode(st, t) => InMode(r, t)
<1>1. Shape(st)
  BY DEF Good
<1>2. /\ r.con = [st.con EXCEPT ![s].attr = a]
      /\ r.dev = [d \in Dev |-> IF d \in Listed(st.con[s]) \ F
                                THEN [st.dev[d] EXCEPT !.attr = a] ELSE st.dev[d]]
  BY DEF SetAttributeFn
<1>3. \A t \in Splitters : /\ r.con[t].mode = st.con[t].mode
                           /\ r.con[t].adding = st.con[t].adding
                           /\ r.con[t].cursor = st.con[t].cursor
  BY <1>1, <1>2 DEF Shape, Fields
<1>4. \A d \in Dev : r.dev[d].mode = st.dev[d].mode
  BY <1>1, <1>2 DEF Shape
<1>5. Keeps(st, r)
  BY SetAttributeKeeps
<1> QED BY <1>3, <1>4, <1>5, StepLeavesModes

(* The cursor may be moved inside the mode.                                  *)
LEMMA CursorLeavesModes ==
  ASSUME NEW st, Good(st), NEW s \in Splitters, NEW cell, NEW r, r = [st EXCEPT !.con[s].cursor = cell],
         LET c == st.con[s]
         IN Listed(c) \subseteq OwnIn(st, s) /\ SizeOf(c, c.mode) # NoSize
              => Inside(cell, SizeOf(c, c.mode))
  PROVE  Keeps(st, r) /\ \A t \in Splitters : InMode(st, t) => InMode(r, t)
<1>1. Shape(st)
  BY DEF Good
<1>2. /\ Shape(r) /\ Patched(st.con[s], r.con[s]) /\ r.dev = st.dev
      /\ r.con[s].mode = st.con[s].mode /\ r.con[s].adding = st.con[s].adding
      /\ r.con[s].cursor = cell
      /\ \A t \in Splitters \ {s} : r.con[t] = st.con[t]
  BY <1>1 DEF Shape, Patched, Fields
<1>3. ASSUME NEW q, Shape(q), Patched(st.con[s], q.con[s]), \A t \in Splitters \ {s} : q.con[t] = st.con[t]
      PROVE  Keeps(st, q)
  BY <1>3, PatchedKeeps
<1>4. Keeps(st, r)
  BY <1>2, <1>3
<1>5. ASSUME NEW t \in Splitters, InMode(st, t) PROVE InMode(r, t)
  <2>1. r.con[t].mode = st.con[t].mode /\ r.con[t].adding = st.con[t].adding
    BY <1>2
  <2>2. \A d \in Dev : r.dev[d].mode = st.dev[d].mode
    BY <1>2
  <2>3. LET c == st.con[t]
        IN Listed(c) \subseteq OwnIn(st, t) /\ SizeOf(c, c.mode) # NoSize
             => r.con[t].cursor = c.cursor \/ Inside(r.con[t].cursor, SizeOf(c, c.mode))
    BY <1>2
  <2>4. ASSUME NEW q, Keeps(st, q),
               q.con[t].mode = st.con[t].mode, q.con[t].adding = st.con[t].adding,
               \A d \in Dev : q.dev[d].mode = st.dev[d].mode,
               LET c == st.con[t]
               IN Listed(c) \subseteq OwnIn(st, t) /\ SizeOf(c, c.mode) # NoSize
                    => q.con[t].cursor = c.cursor \/ Inside(q.con[t].cursor, SizeOf(c, c.mode))
        PROVE  InMode(q, t)
    BY <1>5, <2>4, StepLeavesModes
  <2> QED BY <1>4, <2>1, <2>2, <2>3, <2>4
<1> QED BY <1>4, <1>5

(* The constructor: no consoles, and mode 0.                                 *)
LEMMA InitStepInv == Init => StepInv
<1> SUFFICES ASSUME Init PROVE StepInv
  OBVIOUS
<1> DEFINE c == [slots |-> <<>>, count |-> 0, listCount |-> AllocUnit, stride |-> AllocUnit,
                 queryData |-> <<>>, map |-> <<>>, mode |-> 0, cursor |-> Origin, attr |-> 0,
                 adding |-> FALSE]
           e == NoConsoles(c)
<1>1. con = [s \in Splitters |-> e] /\ wanted = <<0, 0>>
  BY DEF Init
<1>2. /\ e.count = 0 /\ e.queryData = [k \in {0} |-> <<80, 25>>] /\ e.map = [m \in {0} |-> <<>>]
      /\ e.mode = 0 /\ e.cursor = Origin /\ e.adding = FALSE
  BY DEF NoConsoles
<1> HIDE DEF e
<1>3. VirtualModes(e) = {0} /\ SizeOf(e, 0) = <<80, 25>>
  BY <1>2 DEF VirtualModes, SizeOf
<1>4. Filled(e) /\ StartsOK(e)
  BY <1>2, <1>3 DEF Filled, StartsOK
<1>5. Good(Now)
  BY InitConsolesInv DEF ConsolesInv
<1>6. ASSUME NEW s \in Splitters PROVE Tabled(Now.con[s]) /\ InMode(Now, s)
  <2>1. Now.con[s] = e
    BY <1>1 DEF Now
  <2>2. ConsoleOK(e)
    BY <1>5, <2>1 DEF Good
  <2>3. Inside(e.cursor, SizeOf(e, e.mode))
    BY <1>2, <1>3 DEF Inside, Origin
  <2> QED BY <1>2, <1>3, <1>4, <2>1, <2>2, <2>3 DEF Tabled, InMode
<1> QED BY <1>1, <1>5, <1>6 DEF StepInv, BothTabled

-----------------------------------------------------------------------------
(* Start                                                                     *)

(* The state with the new console in the tables of its splitter.             *)
LEMMA AddedStep ==
  ASSUME UsualModes, ConsolesInv, StepInv, NEW s \in Splitters, NEW d \in Carrying(s) \ opened[s],
         d \in Dev, NEW r, r = [con |-> [con EXCEPT ![s] = Added(con[s], d)], dev |-> dev]
  PROVE  /\ BothTabled(r) /\ Above(r.con[s])
         /\ \A t \in Splitters \ {s} : InMode(r, t)
<1> DEFINE e == Added(con[s], d)
<1>1. /\ Good(Now) /\ Shape(Now) /\ DOMAIN con = Splitters /\ d \notin Listed(con[s])
      /\ \A t \in Splitters : Tabled(con[t]) /\ con[t].slots \in Seq(Carrying(t)) /\ InMode(Now, t)
  BY DEF ConsolesInv, StepInv, BothTabled, Good, Shape, Now
<1>2. Tabled(e) /\ Above(e)
  <2> HIDE DEF e
  <2> QED BY <1>1, AddedTabled DEF e
<1>3. /\ e.count = con[s].count + 1
      /\ \A i \in 1..con[s].count : e.slots[i] = con[s].slots[i]
      /\ e.slots \in Seq(Carrying(s))
  <2>1. ConsoleOK(con[s])
    BY <1>1 DEF Tabled
  <2> HIDE DEF e
  <2> QED BY <1>1, <2>1, AddedKeeps DEF e
<1> HIDE DEF e
<1>4. /\ r.con[s] = e /\ \A t \in Splitters \ {s} : r.con[t] = con[t]
      /\ DOMAIN r = {"con", "dev"} /\ DOMAIN r.con = Splitters /\ r.dev = dev
  BY <1>1 DEF e
<1>5. ASSUME NEW t \in Splitters PROVE Tabled(r.con[t]) /\ r.con[t].slots \in Seq(Carrying(t))
  <2>1. CASE t = s
    BY <1>2, <1>3, <1>4, <2>1
  <2>2. CASE t # s
    BY <1>1, <1>4, <2>2
  <2> QED BY <2>1, <2>2
<1>6. Shape(r)
  BY <1>1, <1>4, <1>5 DEF Shape, Now, Tabled, ConsoleOK, ListOK
<1>7. BothTabled(r)
  BY <1>5, <1>6 DEF BothTabled, Good, Tabled
<1>8. Listed(con[s]) \subseteq Listed(e)
  <2>1. con[s].count \in Nat
    BY <1>1 DEF Tabled, ConsoleOK, ListOK
  <2>2. 1..con[s].count \subseteq 1..e.count
    BY <1>3, <2>1
  <2> QED BY <1>3, <2>2 DEF Listed
<1>9. ASSUME NEW t \in Splitters \ {s} PROVE InMode(r, t)
  <2>1. r.con[t] = con[t] /\ Now.con[t] = con[t] /\ Now.dev = dev /\ InMode(Now, t)
    BY <1>1, <1>4 DEF Now
  <2>2. OwnIn(r, t) \subseteq OwnIn(Now, t)
    <3>1. \A u \in Splitters : Listed(Now.con[u]) \subseteq Listed(r.con[u])
      BY <1>4, <1>8 DEF Now
    <3> QED BY <2>1, <3>1 DEF OwnIn
  <2>3. SameTables(Now.con[t], r.con[t]) /\ r.con[t].adding = FALSE
    BY <1>1, <2>1 DEF SameTables, InMode, Shape
  <2>4. t \in Splitters /\ \A x : r.dev[x].mode = Now.dev[x].mode
    BY <1>4, <2>1
  <2>5. ASSUME NEW q, SameTables(Now.con[t], q.con[t]), q.con[t] = Now.con[t], q.con[t].adding = FALSE,
               OwnIn(q, t) \subseteq OwnIn(Now, t), \A x : q.dev[x].mode = Now.dev[x].mode
        PROVE  InMode(q, t)
    BY <2>1, <2>4, <2>5, StaysInMode
  <2> QED BY <2>1, <2>2, <2>3, <2>4, <2>5
<1> QED BY <1>2, <1>4, <1>7, <1>9

(* Nothing fails: the steps of Start are the ones it is meant to take.       *)
LEMMA StartUnfolded ==
  ASSUME Flaky = {}, ~MayRunOut, NEW s, NEW d, StartAdds(s, d)
  PROVE  LET added == [con |-> [con EXCEPT ![s] = Added(con[s], d)], dev |-> dev]
             mode  == SetConsoleOutMode(IntersectBoth(added, {}), s, {}, {})
             there == [mode.st EXCEPT !.con[s].adding = FALSE]
         IN /\ Takes(SetAttributeFn(there, s, LightGray, {}).st)
            /\ wanted' = IF mode.fell = "no" THEN wanted ELSE <<90, 80>>
<1> DEFINE added == [con |-> [con EXCEPT ![s] = Added(con[s], d)], dev |-> dev]
           both(F, skip) == IF skip THEN added ELSE IntersectBoth(added, F)
           mode(F, G, skip) == SetConsoleOutMode(both(F, skip), s, F, G)
           there(F, G, skip) == [mode(F, G, skip).st EXCEPT !.con[s].adding = FALSE]
           P(F, G, skip) ==
             /\ Takes(SetAttributeFn(there(F, G, skip), s, LightGray, G).st)
             /\ wanted' = IF mode(F, G, skip).fell = "no" THEN wanted ELSE <<90, 80>>
<1>1. \E F \in SUBSET Flaky, G \in SUBSET Flaky, skip \in {FALSE, MayRunOut} : P(F, G, skip)
  <2>1. PICK F \in SUBSET Flaky, G \in SUBSET Flaky, skip \in {FALSE, MayRunOut} :
          /\ skip \/ MayIntersect(added.con)
          /\ Takes(SetAttributeFn(there(F, G, skip), s, LightGray, G).st)
          /\ wanted' = IF mode(F, G, skip).fell = "no" THEN wanted ELSE <<90, 80>>
          /\ Returns("Start", s,
                     s = "ConOut" /\ d \in HasGop /\ Listed(con[s]) \cap HasGop = {},
                     mode(F, G, skip).fell)
    BY Zenon DEF StartAdds
  <2>2. P(F, G, skip)
    BY <2>1
  <2> HIDE DEF P
  <2> QED BY <2>2
<1>2. \A F \in SUBSET Flaky : F = {}
  OBVIOUS
<1>3. P({}, {}, FALSE)
  <2> HIDE DEF P
  <2> QED BY <1>1, <1>2, SwitchAssumption
<1>4. both({}, FALSE) = IntersectBoth(added, {})
  OBVIOUS
<1> HIDE DEF added, both
<1> QED BY <1>3, <1>4, Zenon DEF added

(* A console is added: no mode while it is, then the preferred one.          *)
LEMMA StartAddsSteps ==
  ASSUME UsualModes, Flaky = {}, ~MayRunOut, ConsolesInv, StepInv,
         NEW s \in Splitters, NEW d \in Dev, StartAdds(s, d)
  PROVE  StepInv'
<1> DEFINE added == [con |-> [con EXCEPT ![s] = Added(con[s], d)], dev |-> dev]
           both  == IntersectBoth(added, {})
           mode  == SetConsoleOutMode(both, s, {}, {})
           there == [mode.st EXCEPT !.con[s].adding = FALSE]
           r     == SetAttributeFn(there, s, LightGray, {}).st
<1>1. /\ d \in Carrying(s) \ opened[s] /\ wanted = <<0, 0>>
      /\ Takes(r) /\ wanted' = IF mode.fell = "no" THEN wanted ELSE <<90, 80>>
  <2>1. Takes(r) /\ wanted' = IF mode.fell = "no" THEN wanted ELSE <<90, 80>>
    BY StartUnfolded, Zenon
  <2>2. d \in Carrying(s) \ opened[s] /\ wanted = <<0, 0>>
    BY DEF StartAdds, Joining, StepInv
  <2> QED BY <2>1, <2>2
<1> HIDE DEF added
<1>2. /\ BothTabled(added) /\ Above(added.con[s])
      /\ \A t \in Splitters \ {s} : InMode(added, t)
  <2>1. added = [con |-> [con EXCEPT ![s] = Added(con[s], d)], dev |-> dev]
    BY DEF added
  <2> QED BY <1>1, <2>1, AddedStep
<1>3. Passes(added, both)
  <2>1. both = IntersectBoth(added, {})
    OBVIOUS
  <2> HIDE DEF both
  <2> QED BY <1>2, <2>1, IntersectBothPasses
<1>4. /\ BothTabled(both) /\ Above(both.con[s])
      /\ \A t \in Splitters \ {s} : InMode(both, t)
  BY <1>2, <1>3 DEF Passes
<1> HIDE DEF both
<1>5. mode = SetConsoleOutMode(both, s, {}, {})
  OBVIOUS
<1> HIDE DEF mode
<1>6. there = [mode.st EXCEPT !.con[s].adding = FALSE]
  OBVIOUS
<1> HIDE DEF there
<1>7. /\ mode.fell = "no" /\ Keeps(both, there)
      /\ InMode(there, s) /\ \A t \in Splitters \ {s} : InMode(both, t) => InMode(there, t)
  BY <1>1, <1>4, <1>5, <1>6, SetConsoleOutModeEnters
<1>8. Good(there) /\ BothTabled(there) /\ \A t \in Splitters : InMode(there, t)
  BY <1>4, <1>7, KeepsTabled DEF BothTabled
<1>9. r = SetAttributeFn(there, s, LightGray, {}).st
  OBVIOUS
<1> HIDE DEF r
<1>10. BothTabled(r) /\ \A t \in Splitters : InMode(r, t)
  <2>1. Keeps(there, r)
    BY <1>8, <1>9, SetAttributeKeeps
  <2>2. \A t \in Splitters : InMode(r, t)
    BY <1>8, <1>9, AttributeLeavesModes
  <2> QED BY <1>8, <2>1, <2>2, KeepsTabled
<1>11. wanted' = <<0, 0>>
  BY <1>1, <1>7
<1> QED BY <1>1, <1>10, <1>11, StepNow

-----------------------------------------------------------------------------
(* The other calls                                                           *)

(* The sizes of modes that are reported.                                     *)
LEMMA OriginInside ==
  ASSUME UsualModes, NEW st, BothTabled(st), NEW s \in Splitters, InMode(st, s)
  PROVE  LET c == st.con[s] IN SizeOf(c, c.mode) # NoSize => Inside(Origin, SizeOf(c, c.mode))
<1>1. Tabled(st.con[s]) /\ st.con[s].mode \in VirtualModes(st.con[s])
  BY DEF BothTabled, InMode
<1> QED BY <1>1, ReportedSizes

LEMMA SetModeSteps ==
  ASSUME UsualModes, Flaky = {}, StepInv, NEW s \in Splitters, NEW m, SetMode(s, m)
  PROVE  StepInv'
<1> DEFINE set == SetModeFn(Now, s, m, {})
<1>1. Takes(set.st) /\ UNCHANGED wanted
  BY DEF SetMode, Does
<1>2. /\ BothTabled(Now) /\ Good(Now) /\ \A t \in Splitters : InMode(Now, t)
      /\ Tabled(Now.con[s]) /\ Now.con[s].adding = FALSE
  BY DEF StepInv, BothTabled, InMode
<1>3. set = SetModeFn(Now, s, m, {})
  OBVIOUS
<1>4. Keeps(Now, set.st)
  BY <1>2, SetModeKeeps
<1>5. CASE m \notin VirtualModes(Now.con[s])
  <2>1. set.st = Now
    BY <1>5 DEF SetModeFn
  <2> HIDE DEF set
  <2> QED BY <1>1, <1>2, <1>4, <2>1, StepKept
<1>6. CASE m \in VirtualModes(Now.con[s]) /\ m = Now.con[s].mode
  <2>1. set.st = [Now EXCEPT !.con[s].cursor = Origin]
    BY <1>6 DEF SetModeFn, ClearScreenFn
  <2>2. LET c == Now.con[s] IN SizeOf(c, c.mode) # NoSize => Inside(Origin, SizeOf(c, c.mode))
    BY <1>2, OriginInside
  <2> DEFINE x == set.st
  <2>3. x = [Now EXCEPT !.con[s].cursor = Origin] /\ Takes(x) /\ Keeps(Now, x)
    BY <1>1, <1>4, <2>1
  <2> HIDE DEF x, set
  <2>4. Keeps(Now, x) /\ \A t \in Splitters : InMode(Now, t) => InMode(x, t)
    <3>1. x = [Now EXCEPT !.con[s].cursor = Origin]
      BY <2>3
    <3>2. Good(Now)
      BY <1>2
    <3> QED BY <2>2, <3>1, <3>2, CursorLeavesModes
  <2> QED BY <1>1, <1>2, <2>3, <2>4, StepKept
<1>7. CASE m \in VirtualModes(Now.con[s]) /\ m # Now.con[s].mode
  <2> HIDE DEF set
  <2>1. /\ InMode(set.st, s)
        /\ \A t \in Splitters \ {s} : InMode(Now, t) => InMode(set.st, t)
    BY <1>2, <1>3, <1>7, SetModeEnters
  <2>2. \A t \in Splitters : InMode(set.st, t)
    BY <1>2, <2>1
  <2> QED BY <1>1, <1>4, <2>2, StepKept
<1> QED BY <1>5, <1>6, <1>7

LEMMA SetAttributeSteps ==
  ASSUME StepInv, NEW s \in Splitters, NEW a, SetAttribute(s, a)
  PROVE  StepInv'
<1>1. PICK F : Takes(SetAttributeFn(Now, s, a, F).st) /\ UNCHANGED wanted
  BY DEF SetAttribute, Does
<1>2. Good(Now) /\ \A t \in Splitters : InMode(Now, t)
  BY DEF StepInv, BothTabled
<1> DEFINE r == SetAttributeFn(Now, s, a, F).st
<1>3. r = SetAttributeFn(Now, s, a, F).st
  OBVIOUS
<1>4. Takes(r)
  BY <1>1
<1> HIDE DEF r
<1>5. Keeps(Now, r)
  BY <1>2, <1>3, SetAttributeKeeps
<1>6. \A t \in Splitters : InMode(Now, t) => InMode(r, t)
  BY <1>2, <1>3, AttributeLeavesModes
<1> QED BY <1>1, <1>2, <1>4, <1>5, <1>6, StepKept

LEMMA ClearScreenSteps ==
  ASSUME UsualModes, StepInv, NEW s \in Splitters, ClearScreen(s)
  PROVE  StepInv'
<1> DEFINE r == [Now EXCEPT !.con[s].cursor = Origin]
<1>1. Takes(r) /\ UNCHANGED wanted
  BY DEF ClearScreen, Does, ClearScreenFn
<1>2. Good(Now) /\ BothTabled(Now) /\ \A t \in Splitters : InMode(Now, t)
  BY DEF StepInv, BothTabled
<1>3. LET c == Now.con[s] IN SizeOf(c, c.mode) # NoSize => Inside(Origin, SizeOf(c, c.mode))
  BY <1>2, OriginInside
<1>4. r = [Now EXCEPT !.con[s].cursor = Origin]
  OBVIOUS
<1> HIDE DEF r
<1>5. Keeps(Now, r) /\ \A t \in Splitters : InMode(r, t)
  BY <1>2, <1>3, <1>4, CursorLeavesModes
<1> QED BY <1>1, <1>5, StepKept

LEMMA SetCursorPositionSteps ==
  ASSUME StepInv, NEW s \in Splitters, NEW cell, SetCursorPosition(s, cell)
  PROVE  StepInv'
<1>1. Good(Now) /\ BothTabled(Now) /\ \A t \in Splitters : InMode(Now, t)
  BY DEF StepInv, BothTabled
<1>2. CASE Inside(cell, SizeOf(con[s], con[s].mode))
  <2> DEFINE r == [Now EXCEPT !.con[s].cursor = cell]
  <2>1. Takes(r) /\ UNCHANGED wanted
    BY <1>2, Zenon DEF SetCursorPosition, Does
  <2>2. LET c == Now.con[s] IN SizeOf(c, c.mode) # NoSize => Inside(cell, SizeOf(c, c.mode))
    BY <1>2 DEF Now
  <2>3. r = [Now EXCEPT !.con[s].cursor = cell]
    OBVIOUS
  <2> HIDE DEF r
  <2>4. Keeps(Now, r) /\ \A t \in Splitters : InMode(r, t)
    BY <1>1, <2>2, <2>3, CursorLeavesModes
  <2> QED BY <2>1, <2>4, StepKept
<1>3. CASE ~Inside(cell, SizeOf(con[s], con[s].mode))
  <2>1. Takes(Now) /\ UNCHANGED wanted
    BY <1>3, Zenon DEF SetCursorPosition, Does
  <2>2. Keeps(Now, Now)
    BY <1>1, KeepsItself
  <2> QED BY <1>1, <2>1, <2>2, StepKept
<1> QED BY <1>2, <1>3

(* The virtual cursor is inside the first console's mode, so in the virtual  *)
(* one if that console is the splitter's own.                                *)
LEMMA OutputStringSteps ==
  ASSUME UsualModes, StepInv, NEW s \in Splitters, OutputString(s)
  PROVE  StepInv'
<1> DEFINE c == con[s]
           size == IF c.count = 0 THEN SizeOf(c, c.mode)
                   ELSE Sizes[c.slots[1]][dev[c.slots[1]].mode]
<1>1. PICK F, cell :
        /\ Inside(cell, size) /\ UNCHANGED wanted
        /\ Takes([SetAttributeFn(Now, s, c.attr, F).st EXCEPT !.con[s].cursor = cell])
  BY Zenon DEF OutputString, Does
<1>2. /\ Good(Now) /\ BothTabled(Now) /\ Tabled(c) /\ \A t \in Splitters : InMode(Now, t)
      /\ Now.con[s] = c /\ Now.dev = dev
  BY DEF StepInv, BothTabled, Now
<1>3. ASSUME Listed(c) \subseteq OwnIn(Now, s), SizeOf(c, c.mode) # NoSize
      PROVE  Inside(cell, SizeOf(c, c.mode))
  <2>1. CASE c.count = 0
    BY <1>1, <2>1
  <2>2. CASE c.count # 0
    <3>1. 1 \in 1..c.count
      BY <1>2, <2>2 DEF Tabled, ConsoleOK, ListOK
    <3>2. c.slots[1] \in OwnIn(Now, s)
      BY <1>3, <3>1 DEF Listed
    <3>3. c.mode \in VirtualModes(c) /\ dev[c.slots[1]].mode = c.map[c.mode][1]
      <4>1. InMode(Now, s)
        BY <1>2
      <4> HIDE DEF c
      <4> QED BY <1>2, <1>3, <3>1, <3>2, <4>1 DEF InMode
    <3>4. Sizes[c.slots[1]][c.map[c.mode][1]] = SizeOf(c, c.mode)
      <4> HIDE DEF c
      <4> QED BY <1>2, <1>3, <3>1, <3>3, EntryLeads
    <3> QED BY <1>1, <2>2, <3>3, <3>4
  <2> QED BY <2>1, <2>2
<1> DEFINE st == SetAttributeFn(Now, s, c.attr, F).st
           r  == [st EXCEPT !.con[s].cursor = cell]
<1>4. Takes(r) /\ st = SetAttributeFn(Now, s, c.attr, F).st
  BY <1>1
<1> HIDE DEF size, st
<1>5. Keeps(Now, st) /\ Good(st)
  <2> HIDE DEF c
  <2>1. Keeps(Now, st)
    BY <1>2, <1>4, SetAttributeKeeps
  <2> QED BY <2>1 DEF Keeps
<1>6. /\ st.con[s].mode = c.mode /\ OwnIn(st, s) = OwnIn(Now, s)
      /\ \A t \in Splitters : InMode(st, t)
  <2> HIDE DEF c
  <2>1. st.con[s].mode = c.mode /\ \A t \in Splitters : InMode(Now, t) => InMode(st, t)
    BY <1>2, <1>4, AttributeLeavesModes
  <2>2. OwnIn(st, s) = OwnIn(Now, s)
    BY <1>5, OwnOfLists DEF Keeps
  <2> QED BY <1>2, <2>1, <2>2
<1> HIDE DEF c
<1>7. LET e == st.con[s]
      IN Listed(e) \subseteq OwnIn(st, s) /\ SizeOf(e, e.mode) # NoSize => Inside(cell, SizeOf(e, e.mode))
  <2>1. SameTables(c, st.con[s])
    BY <1>2, <1>5 DEF Keeps
  <2>2. Listed(st.con[s]) = Listed(c) /\ \A m : SizeOf(st.con[s], m) = SizeOf(c, m)
    BY <2>1 DEF SameTables, Listed, SizeOf
  <2> QED BY <1>3, <1>6, <2>2
<1>8. r = [st EXCEPT !.con[s].cursor = cell]
  OBVIOUS
<1> HIDE DEF r
<1>9. Keeps(st, r) /\ \A t \in Splitters : InMode(st, t) => InMode(r, t)
  BY <1>5, <1>7, <1>8, CursorLeavesModes
<1>10. Keeps(Now, r)
  BY <1>5, <1>9, KeepsChains
<1> QED BY <1>1, <1>4, <1>6, <1>9, <1>10, StepKept

(* Every console is in its mode 0, which is the virtual mode 0.              *)
LEMMA ResetSteps ==
  ASSUME UsualModes, Flaky = {}, StepInv, NEW s \in Splitters, Reset(s)
  PROVE  StepInv'
<1> DEFINE c == con[s]
           done == [d \in Dev |-> IF d \in Listed(c) \ {} THEN [dev[d] EXCEPT !.mode = 0] ELSE dev[d]]
           st == [con |-> con, dev |-> done]
           q  == SetAttributeFn(st, s, OnBlack(c.attr), {}).st
           r  == [q EXCEPT !.con[s].mode = 0, !.con[s].cursor = Origin]
<1>1. Takes(r) /\ UNCHANGED wanted
  BY DEF Reset, Does
<1>2. /\ Good(Now) /\ Shape(Now) /\ BothTabled(Now) /\ Tabled(c) /\ \A t \in Splitters : InMode(Now, t)
      /\ Now.con = con /\ Now.dev = dev
  BY DEF StepInv, BothTabled, Good, Now
<1>3. /\ DOMAIN done = Dev /\ \A d \in Dev : DOMAIN done[d] = {"mode", "attr"}
      /\ \A d \in Dev : done[d].mode = IF d \in Listed(c) THEN 0 ELSE dev[d].mode
  BY <1>2 DEF Shape
<1>4. Keeps(Now, st) /\ st.con = con /\ st.dev = done
  <2> HIDE DEF done
  <2>1. st.con = con /\ st.dev = done /\ DOMAIN st = {"con", "dev"}
    OBVIOUS
  <2> HIDE DEF st
  <2>2. Shape(st)
    BY <1>2, <1>3, <2>1 DEF Shape
  <2>3. \A t \in Splitters : SameTables(Now.con[t], st.con[t])
    BY <1>2, <2>1 DEF SameTables, Shape
  <2> QED BY <1>2, <2>1, <2>2, <2>3, SameTablesKeep
<1> HIDE DEF done, st
<1>5. q = SetAttributeFn(st, s, OnBlack(c.attr), {}).st
  OBVIOUS
<1> HIDE DEF q
<1>6. /\ Keeps(st, q) /\ Good(q) /\ Shape(q)
      /\ \A t \in Splitters : /\ q.con[t].mode = con[t].mode
                              /\ q.con[t].adding = con[t].adding
                              /\ q.con[t].cursor = con[t].cursor
      /\ \A d \in Dev : q.dev[d].mode = done[d].mode
  <2> HIDE DEF c
  <2>1. Good(st)
    BY <1>4 DEF Keeps
  <2>2. Keeps(st, q)
    BY <1>5, <2>1, SetAttributeKeeps
  <2>3. /\ \A t \in Splitters : /\ q.con[t].mode = st.con[t].mode
                                /\ q.con[t].adding = st.con[t].adding
                                /\ q.con[t].cursor = st.con[t].cursor
        /\ \A d \in Dev : q.dev[d].mode = st.dev[d].mode
    BY <1>5, <2>1, AttributeLeavesModes
  <2> QED BY <1>4, <2>2, <2>3 DEF Keeps, Good
<1>7. /\ Shape(r) /\ Patched(q.con[s], r.con[s]) /\ r.dev = q.dev
      /\ r.con[s].mode = 0 /\ r.con[s].cursor = Origin /\ r.con[s].adding = q.con[s].adding
      /\ \A t \in Splitters \ {s} : r.con[t] = q.con[t]
  BY <1>6 DEF Shape, Patched, Fields
<1> HIDE DEF r
<1>8. Keeps(q, r)
  BY <1>6, <1>7, PatchedKeeps
<1>9. Keeps(Now, r)
  BY <1>4, <1>6, <1>8, KeepsChains
<1>10. \A t \in Splitters : SameTables(con[t], r.con[t]) /\ OwnIn(r, t) = OwnIn(Now, t)
  BY <1>2, <1>9, OwnOfLists DEF Keeps
<1>11. \A d \in Dev : r.dev[d].mode = IF d \in Listed(c) THEN 0 ELSE dev[d].mode
  BY <1>3, <1>6, <1>7
<1>12. InMode(r, s)
  <2> DEFINE e == r.con[s]
  <2>1. Tabled(e)
    <3>1. BothTabled(r)
      BY <1>2, <1>9, KeepsTabled
    <3> QED BY <3>1 DEF BothTabled
  <2>2. 0 \in VirtualModes(e) /\ Inside(Origin, SizeOf(e, 0))
    <3> HIDE DEF e
    <3> QED BY <2>1, ReportedSizes
  <2>3. ASSUME NEW i \in 1..e.count PROVE r.dev[e.slots[i]].mode = e.map[0][i]
    <3>1. e.map[0][i] = 0
      <4> HIDE DEF e
      <4> QED BY <2>1, <2>3, ZeroIsZero
    <3>2. e.slots[i] \in Listed(c) /\ e.slots[i] \in Dev
      <4>1. e.slots = c.slots /\ e.count = c.count
        BY <1>10 DEF SameTables
      <4>2. ListOK(e)
        BY <2>1 DEF Tabled, ConsoleOK
      <4> HIDE DEF c, e
      <4> QED BY <4>1, <4>2 DEF ListOK, Listed
    <3> HIDE DEF c, e
    <3> QED BY <1>11, <3>1, <3>2
  <2>4. e.mode = 0 /\ e.cursor = Origin /\ e.adding = FALSE
    BY <1>2, <1>6, <1>7 DEF InMode
  <2> HIDE DEF e
  <2>5. \A i \in 1..e.count : e.slots[i] \in OwnIn(r, s) => r.dev[e.slots[i]].mode = e.map[e.mode][i]
    BY <2>3, <2>4
  <2> QED BY <2>2, <2>4, <2>5 DEF InMode, e
<1>13. ASSUME NEW t \in Splitters \ {s} PROVE InMode(r, t)
  <2>1. /\ InMode(Now, t) /\ Now.con[t] = con[t] /\ SameTables(Now.con[t], r.con[t])
        /\ OwnIn(r, t) \subseteq OwnIn(Now, t)
    BY <1>2, <1>10
  <2>2. r.con[t].mode = Now.con[t].mode /\ r.con[t].cursor = Now.con[t].cursor /\ r.con[t].adding = FALSE
    BY <1>2, <1>6, <1>7 DEF InMode
  <2>3. \A d \in OwnIn(Now, t) : r.dev[d].mode = Now.dev[d].mode
    <3> SUFFICES ASSUME NEW d \in OwnIn(Now, t) PROVE r.dev[d].mode = Now.dev[d].mode
      OBVIOUS
    <3>1. d \notin Listed(Now.con[s]) /\ d \in Listed(Now.con[t])
      BY OwnIsNotOthers
    <3>2. d \in Dev
      <4>1. ListOK(Now.con[t])
        BY <1>2 DEF Good, ConsoleOK
      <4> QED BY <3>1, <4>1 DEF ListOK, Listed
    <3> QED BY <1>2, <1>11, <3>1, <3>2
  <2> HIDE DEF c
  <2> QED BY <2>1, <2>2, <2>3, StaysInMode
<1> QED BY <1>1, <1>9, <1>12, <1>13, StepKept

-----------------------------------------------------------------------------
(* Every call keeps the invariant, if nothing fails or leaves.               *)
LEMMA NextKeepsStepInv ==
  ASSUME UsualModes, Flaky = {}, ~MayStop, ~MayRunOut
  PROVE  ConsolesInv /\ StepInv /\ [Next]_vars => StepInv'
<1> SUFFICES ASSUME ConsolesInv, StepInv, [Next]_vars PROVE StepInv'
  OBVIOUS
<1>1. ASSUME UNCHANGED <<con, dev, wanted>> PROVE StepInv'
  BY <1>1 DEF StepInv, BothTabled, Good, Shape, InMode, OwnIn, Now
<1>2. ASSUME NEW s \in Splitters, NEW d \in Dev, Start(s, d) PROVE StepInv'
  <2>1. CASE StartRefused(s, d)
    BY <1>1, <2>1 DEF StartRefused
  <2>2. CASE StartAdds(s, d)
    BY <2>2, StartAddsSteps
  <2>3. ~StartNoMemory(s, d)
    BY DEF StartNoMemory
  <2> QED BY <1>2, <2>1, <2>2, <2>3 DEF Start
<1>3. \A s, d : ~Stop(s, d)
  BY DEF Stop
<1>4. CASE UNCHANGED vars
  BY <1>1, <1>4 DEF vars
<1>5. CASE Next
  <2>1. PICK s \in Splitters :
          \/ \E d \in Dev : Start(s, d) \/ Stop(s, d)
          \/ \E m \in 0..MaxMode(con[s]) : SetMode(s, m)
          \/ \E a \in Attributes : SetAttribute(s, a)
          \/ \E cell \in Cells : SetCursorPosition(s, cell)
          \/ ClearScreen(s) \/ OutputString(s) \/ Reset(s)
    BY <1>5 DEF Next
  <2>2. CASE \E d \in Dev : Start(s, d) \/ Stop(s, d)
    BY <1>2, <1>3, <2>2
  <2>3. CASE \E m \in 0..MaxMode(con[s]) : SetMode(s, m)
    BY <2>3, SetModeSteps
  <2>4. CASE \E a \in Attributes : SetAttribute(s, a)
    BY <2>4, SetAttributeSteps
  <2>5. CASE \E cell \in Cells : SetCursorPosition(s, cell)
    BY <2>5, SetCursorPositionSteps
  <2>6. CASE ClearScreen(s) \/ OutputString(s) \/ Reset(s)
    BY <2>6, ClearScreenSteps, OutputStringSteps, ResetSteps
  <2> QED BY <2>1, <2>2, <2>3, <2>4, <2>5, <2>6
<1> QED BY <1>4, <1>5

(* While no console is removed and nothing fails, the current mode is a      *)
(* virtual one, and unless it is a mode 1 without size the splitter's own    *)
(* consoles are in it and the cursor is inside it, whatever the order of     *)
(* additions, intersections and mode changes.                                *)
THEOREM InStep ==
  ASSUME UsualModes, Flaky = {}, ~MayStop, ~MayRunOut
  PROVE  Spec => []ConsolesInStep
<1>1. StepInv => ConsolesInStep
  BY DEF StepInv, InMode, OwnIn, Own, ConsolesInStep, Now
<1>2. Init => StepInv
  BY InitStepInv
<1>3. ConsolesInv /\ StepInv /\ [Next]_vars => StepInv'
  BY NextKeepsStepInv
<1> QED BY <1>1, <1>2, <1>3, ConsolesAlways, PTL DEF Spec
=============================================================================
