----------------------------- MODULE CommonLemmas -----------------------------
(***************************************************************************)
(* What the proofs about the splitters share: what appending to and deleting *)
(* from a device array does to its elements, and induction on the numbers   *)
(* of a set, which a search, a fold and a recursive function need.          *)
(***************************************************************************)
EXTENDS DeviceLists, FiniteSetsExt, TLAPS, SequenceTheorems, FiniteSetTheorems,
        WellFoundedInduction

-----------------------------------------------------------------------------
(* Numbers                                                                   *)

Less == {ss \in Nat \X Nat : ss[1] < ss[2]}

LEMMA LessIsWellFounded == IsWellFoundedOn(Less, Nat)
BY NatLessThanWellFounded DEF OpToRel, Less

LEMMA LeastNumber ==
  ASSUME NEW T \in SUBSET Nat, T # {}
  PROVE  \E n \in T : \A m \in T : n <= m
<1>1. PICK n \in T : \A m \in T : ~(<<m, n>> \in Less)
  BY LessIsWellFounded, WFMin
<1>2. ASSUME NEW m \in T PROVE n <= m
  <2>1. m \in Nat /\ n \in Nat
    OBVIOUS
  <2>2. ASSUME m < n PROVE <<m, n>> \in Less
    BY <2>1, <2>2 DEF Less
  <2> QED BY <1>1, <2>1, <2>2
<1> QED BY <1>1, <1>2

LEMMA GreatestNumber ==
  ASSUME NEW n \in Nat, NEW T \in SUBSET (0..n), T # {}
  PROVE  \E g \in T : \A m \in T : m <= g
<1> DEFINE D == {n - m : m \in T}
<1>1. D \in SUBSET Nat /\ D # {}
  <2>1. \A m \in T : n - m \in Nat
    OBVIOUS
  <2> QED BY <2>1
<1>2. PICK e \in D : \A f \in D : e <= f
  BY <1>1, LeastNumber
<1>3. PICK g \in T : e = n - g
  OBVIOUS
<1>4. ASSUME NEW m \in T PROVE m <= g
  <2>1. e <= n - m /\ m \in Int /\ g \in Int
    BY <1>2
  <2> QED BY <1>3, <2>1
<1> QED BY <1>4

(* A set with 0 and with the successor of each of its numbers is Nat.        *)
LEMMA SetInduction ==
  ASSUME NEW T, 0 \in T, \A n \in Nat : n \in T => n + 1 \in T
  PROVE  Nat \subseteq T
<1> SUFFICES ASSUME Nat \ T # {} PROVE FALSE
  OBVIOUS
<1>1. PICK n \in Nat \ T : \A m \in Nat \ T : n <= m
  BY LeastNumber
<1>2. n # 0 /\ n - 1 \in Nat /\ ~(n <= n - 1)
  OBVIOUS
<1>3. n - 1 \in T /\ n = (n - 1) + 1
  BY <1>1, <1>2
<1> QED BY <1>2, <1>3

-----------------------------------------------------------------------------
(* The members of a set of numbers in their order                            *)

(* The members before m.                                                     *)
Below(S, m) == {l \in S : l < m}

(* A later member has more of them.                                          *)
LEMMA BelowGrows ==
  ASSUME NEW S \in SUBSET Nat, IsFiniteSet(S), NEW a \in S, NEW b \in S, a < b
  PROVE  /\ Cardinality(Below(S, a)) \in Nat /\ Cardinality(Below(S, b)) \in Nat
         /\ Cardinality(Below(S, a)) < Cardinality(Below(S, b))
<1>0. \A l \in S : l \in Int
  OBVIOUS
<1>1. /\ Below(S, a) \in SUBSET S /\ Below(S, b) \in SUBSET S
      /\ a \notin Below(S, a) /\ \A l \in Below(S, a) \cup {a} : l \in Below(S, b)
  BY <1>0 DEF Below
<1>2. /\ IsFiniteSet(Below(S, a)) /\ IsFiniteSet(Below(S, b))
      /\ Cardinality(Below(S, a) \cup {a}) = Cardinality(Below(S, a)) + 1
  BY <1>1, FS_Subset, FS_AddElement
<1>3. Cardinality(Below(S, a) \cup {a}) <= Cardinality(Below(S, b))
  <2>1. Below(S, a) \cup {a} \in SUBSET Below(S, b)
    BY <1>1
  <2> QED BY <1>2, <2>1, FS_Subset
<1> QED BY <1>2, <1>3, FS_CardinalityType

(* Each place up to the number of members is taken.                          *)
LEMMA NthExists ==
  ASSUME NEW S \in SUBSET Nat, IsFiniteSet(S), NEW k \in Nat, k < Cardinality(S)
  PROVE  \E m \in S : Cardinality(Below(S, m)) = k
<1> DEFINE T == {n \in Nat : n < Cardinality(S) => \E m \in S : Cardinality(Below(S, m)) = n}
<1>0. Cardinality(S) \in Nat /\ \A l \in S : l \in Int
  BY FS_CardinalityType
<1>1. 0 \in T
  <2> SUFFICES ASSUME 0 < Cardinality(S) PROVE \E m \in S : Cardinality(Below(S, m)) = 0
    OBVIOUS
  <2>1. S # {}
    BY FS_EmptySet
  <2>2. PICK m \in S : \A l \in S : m <= l
    BY <2>1, LeastNumber
  <2>3. Below(S, m) = {}
    <3>1. \A l \in S : l \in Int /\ ~(l < m)
      BY <1>0, <2>2
    <3> QED BY <3>1 DEF Below
  <2> QED BY <2>3, FS_EmptySet
<1>2. ASSUME NEW n \in Nat, n \in T PROVE n + 1 \in T
  <2> SUFFICES ASSUME n + 1 < Cardinality(S)
               PROVE \E m \in S : Cardinality(Below(S, m)) = n + 1
    OBVIOUS
  <2>1. PICK m \in S : Cardinality(Below(S, m)) = n
    BY <1>0, <1>2
  <2>2. IsFiniteSet(Below(S, m)) /\ m \notin Below(S, m)
    BY FS_Subset DEF Below
  <2>3. Cardinality(Below(S, m) \cup {m}) = n + 1
    BY <2>1, <2>2, FS_AddElement
  <2> DEFINE Above == {l \in S : m < l}
  <2>4. Above # {}
    <3>1. SUFFICES ASSUME Above = {} PROVE FALSE
      OBVIOUS
    <3>2. S = Below(S, m) \cup {m}
      <4>1. ASSUME NEW l \in S PROVE l < m \/ l = m
        BY <1>0, <3>1
      <4> QED BY <4>1 DEF Below
    <3> QED BY <1>0, <2>3, <3>2
  <2>5. PICK o \in Above : \A l \in Above : o <= l
    <3>1. Above \in SUBSET Nat
      OBVIOUS
    <3> QED BY <2>4, <3>1, LeastNumber
  <2>6. Below(S, o) = Below(S, m) \cup {m}
    <3>1. ASSUME NEW l \in S PROVE l < o <=> (l < m \/ l = m)
      <4>1. /\ l \in Int /\ m \in Int /\ o \in Int /\ m < o
            /\ m < l => o <= l
        BY <1>0, <2>5
      <4> QED BY <4>1
    <3> QED BY <3>1 DEF Below
  <2> QED BY <2>3, <2>5, <2>6
<1> HIDE DEF T
<1>3. k \in T
  BY <1>1, <1>2, SetInduction
<1> QED BY <1>3 DEF T

-----------------------------------------------------------------------------
(* Lists                                                                     *)

(* What the deletion loop returns: one element less, the others in order.    *)
LEMMA DeletedIsSeq ==
  ASSUME NEW S, NEW s \in Seq(S), NEW i \in DOMAIN s
  PROVE  /\ Deleted(s, i) \in Seq(S)
         /\ Len(Deleted(s, i)) = Len(s) - 1
         /\ \A j \in 1..Len(s) - 1 :
              Deleted(s, i)[j] = IF j < i THEN s[j] ELSE s[j + 1]
  BY DEF Deleted

(* In a list without duplicates it removes exactly the element at i.         *)
LEMMA DeletedElems ==
  ASSUME NEW S, NEW s \in Seq(S), NEW i \in DOMAIN s, Distinct(s)
  PROVE  /\ Distinct(Deleted(s, i))
         /\ Elems(Deleted(s, i)) = Elems(s) \ {s[i]}
<1>1. /\ Len(s) \in Nat /\ DOMAIN s = 1..Len(s)
      /\ i \in 1..Len(s)
      /\ DOMAIN Deleted(s, i) = 1..Len(s) - 1
      /\ \A j \in 1..Len(s) - 1 :
           Deleted(s, i)[j] = IF j < i THEN s[j] ELSE s[j + 1]
  BY DEF Deleted
<1>2. ASSUME NEW k \in 1..Len(s) - 1
      PROVE  LET up == IF k < i THEN k ELSE k + 1
             IN  up \in 1..Len(s) /\ up # i /\ Deleted(s, i)[k] = s[up]
  BY <1>1
<1>3. ASSUME NEW p \in 1..Len(s) - 1, NEW q \in 1..Len(s) - 1,
             Deleted(s, i)[p] = Deleted(s, i)[q]
      PROVE  p = q
  <2>1. (IF p < i THEN p ELSE p + 1) = (IF q < i THEN q ELSE q + 1)
    BY <1>1, <1>2, <1>3 DEF Distinct
  <2>2. QED BY <1>1, <2>1
<1>4. ASSUME NEW x \in Elems(s) \ {s[i]} PROVE x \in Elems(Deleted(s, i))
  <2>1. PICK j \in 1..Len(s) : s[j] = x /\ j # i
    BY <1>1 DEF Elems
  <2>2. CASE j < i
    BY <1>1, <2>1, <2>2 DEF Elems
  <2>3. CASE j > i
    <3>1. j - 1 \in 1..Len(s) - 1 /\ Deleted(s, i)[j - 1] = s[j]
      BY <1>1, <2>3
    <3>2. QED BY <1>1, <2>1, <3>1 DEF Elems
  <2>4. QED BY <1>1, <2>1, <2>2, <2>3
<1>5. ASSUME NEW x \in Elems(Deleted(s, i)) PROVE x \in Elems(s) \ {s[i]}
  <2>1. PICK k \in 1..Len(s) - 1 : x = Deleted(s, i)[k]
    BY <1>1 DEF Elems
  <2>2. PICK up \in 1..Len(s) : up # i /\ x = s[up]
    BY <1>2, <2>1
  <2>3. QED BY <1>1, <2>2 DEF Elems, Distinct
<1>6. QED BY <1>1, <1>3, <1>4, <1>5 DEF Distinct

(* Appending adds one element.                                               *)
LEMMA AppendElems ==
  ASSUME NEW S, NEW s \in Seq(S), NEW x \in S
  PROVE  /\ Append(s, x) \in Seq(S)
         /\ Len(Append(s, x)) = Len(s) + 1
         /\ Elems(Append(s, x)) = Elems(s) \cup {x}
         /\ Distinct(s) /\ x \notin Elems(s) => Distinct(Append(s, x))
<1>1. /\ Append(s, x) \in Seq(S) /\ Len(s) \in Nat
      /\ Len(Append(s, x)) = Len(s) + 1
      /\ \A i \in 1..Len(s) : Append(s, x)[i] = s[i]
      /\ Append(s, x)[Len(s) + 1] = x
      /\ DOMAIN s = 1..Len(s) /\ DOMAIN Append(s, x) = 1..Len(s) + 1
  BY AppendProperties
<1>2. Elems(Append(s, x)) = Elems(s) \cup {x}
  BY <1>1 DEF Elems
<1>3. Distinct(s) /\ x \notin Elems(s) => Distinct(Append(s, x))
  BY <1>1 DEF Elems, Distinct
<1>4. QED BY <1>1, <1>2, <1>3

(* The lists at the start.                                                   *)
LEMMA EmptyElems == Elems(<<>>) = {} /\ Distinct(<<>>) /\ Len(<<>>) = 0
<1>1. DOMAIN <<>> = {}
  BY SMT
<1>2. QED BY <1>1, EmptySeq DEF Elems, Distinct

(* A list of one element.                                                  *)
LEMMA SingletonElems ==
  ASSUME NEW S, NEW x \in S
  PROVE  /\ <<x>> \in Seq(S) /\ Len(<<x>>) = 1
         /\ Elems(<<x>>) = {x} /\ Distinct(<<x>>)
<1>1. DOMAIN <<x>> = 1..1 /\ <<x>>[1] = x
  OBVIOUS
<1>2. QED BY <1>1 DEF Elems, Distinct

-----------------------------------------------------------------------------
(* Places in lines                                                           *)

LEMMA TimesMonotone ==
  ASSUME NEW a \in Nat, NEW b \in Nat, NEW c \in Nat, a <= b
  PROVE  c * a <= c * b
<1>1. PICK d \in Nat : b = a + d
  <2>1. b - a \in Nat /\ b = a + (b - a)
    OBVIOUS
  <2> QED BY <2>1
<1>2. c * b = c * a + c * d /\ c * d \in Nat /\ c * a \in Nat
  BY <1>1
<1> QED BY <1>2

(* The line of a place in the first h lines of s places each.                *)
LEMMA LineOfByte ==
  ASSUME NEW s \in Nat \ {0}, NEW h \in Nat, NEW b \in Nat, b < s * h
  PROVE  b \div s \in Nat /\ b \div s < h
<1> DEFINE q == b \div s
<1>1. q \in Nat /\ s * q <= b
  OBVIOUS
<1>2. q < h
  <2> SUFFICES ASSUME h <= q PROVE FALSE
    BY <1>1
  <2>1. s * h <= s * q
    BY <1>1, TimesMonotone
  <2>2. s * h \in Nat /\ s * q \in Nat
    BY <1>1
  <2> QED BY <1>1, <2>1, <2>2
<1> QED BY <1>1, <1>2

-----------------------------------------------------------------------------
(* A fold from the left takes the largest number of a set last.              *)

LEMMA LargestOf ==
  ASSUME NEW n \in Nat, NEW s \in SUBSET (1..n), s # {}
  PROVE  Max(s) \in s /\ \A m \in s : m <= Max(s)
<1>1. s \in SUBSET (0..n)
  OBVIOUS
<1>2. PICK g \in s : \A m \in s : m <= g
  BY <1>1, GreatestNumber
<1>3. \A x \in s : x \in Int
  OBVIOUS
<1>4. \E x \in s : \A y \in s : x >= y
  BY <1>2, <1>3
<1>5. Max(s) \in s /\ \A y \in s : Max(s) >= y
  BY <1>4 DEF Max
<1> QED BY <1>3, <1>5

LEMMA LargestIs ==
  ASSUME NEW n \in Nat, NEW s \in SUBSET (1..n + 1), n + 1 \in s
  PROVE  Max(s) = n + 1 /\ s \ {n + 1} \in SUBSET (1..n)
<1>1. n + 1 \in Nat /\ Max(s) \in s /\ n + 1 <= Max(s)
  <2>1. n + 1 \in Nat /\ s # {}
    OBVIOUS
  <2> HIDE DEF Max
  <2> QED BY <2>1, LargestOf
<1>2. \A x \in 1..n + 1 : x \in Int /\ x <= n + 1 /\ (x # n + 1 => x \in 1..n)
  OBVIOUS
<1>3. Max(s) = n + 1
  <2> DEFINE x == Max(s)
  <2>1. x \in 1..n + 1 /\ n + 1 <= x
    BY <1>1
  <2> HIDE DEF x
  <2>2. x = n + 1
    BY <2>1
  <2> QED BY <2>2 DEF x
<1> QED BY <1>2, <1>3
=============================================================================
