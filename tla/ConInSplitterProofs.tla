------------------------- MODULE ConInSplitterProofs -------------------------
(***************************************************************************)
(* Theorems about ConInSplitter, for every set of devices, notifies, locks  *)
(* and every allocation unit.                                               *)
(***************************************************************************)
EXTENDS ConInSplitter, CommonLemmas, FiniteSetTheorems

-----------------------------------------------------------------------------
(* The loops                                                                 *)

Round(st, p, undo) == IF undo THEN UnregisterAt(st, p) ELSE RegisterAt(st, p)

(* The function that the folds over the rounds are made of.                  *)
LoopFold(g, st, places, undo, n) ==
  g = [s \in SUBSET (1..n) |-> IF s = {} THEN st
                               ELSE Round(g[s \ {Max(s)}], places[Max(s)], undo)]

(* There is one: a round more extends it.                                    *)
LEMMA LoopFoldExists ==
  ASSUME NEW st, NEW places, NEW undo, NEW n \in Nat
  PROVE  \E g : LoopFold(g, st, places, undo, n)
<1> DEFINE T == {m \in Nat : \E g : LoopFold(g, st, places, undo, m)}
<1>1. 0 \in T
  <2> DEFINE g == [s \in SUBSET (1..0) |-> st]
  <2>1. \A s \in SUBSET (1..0) : s = {}
    OBVIOUS
  <2>2. g = [s \in SUBSET (1..0) |-> IF s = {} THEN st
                                    ELSE Round(g[s \ {Max(s)}], places[Max(s)], undo)]
    BY <2>1, Zenon
  <2>3. LoopFold(g, st, places, undo, 0)
    BY <2>2, Zenon DEF LoopFold
  <2> QED BY <2>3
<1>2. ASSUME NEW m \in Nat, m \in T PROVE m + 1 \in T
  <2>1. PICK g : LoopFold(g, st, places, undo, m)
    BY <1>2
  <2> DEFINE S == SUBSET (1..m + 1)
             h == [s \in S |-> IF m + 1 \in s THEN Round(g[s \ {m + 1}], places[m + 1], undo)
                               ELSE g[s]]
             v(s) == IF s = {} THEN st ELSE Round(h[s \ {Max(s)}], places[Max(s)], undo)
  <2>2. \A s \in S : m + 1 \notin s => s \in SUBSET (1..m)
    <3>1. \A x \in 1..m + 1 : x # m + 1 => x \in 1..m
      OBVIOUS
    <3> QED BY <3>1
  <2>3. \A s \in SUBSET (1..m) : s \in S /\ m + 1 \notin s
    <3>1. \A x \in 1..m : x \in 1..m + 1 /\ x # m + 1
      OBVIOUS
    <3> QED BY <3>1
  <2>4. \A s \in SUBSET (1..m) : h[s] = g[s]
    BY <2>3, Zenon
  <2>5. ASSUME NEW s \in S PROVE h[s] = v(s)
    <3>1. CASE m + 1 \in s
      <4>1. Max(s) = m + 1 /\ s \ {m + 1} \in SUBSET (1..m) /\ s # {}
        BY <3>1, LargestIs
      <4>2. h[s] = Round(g[s \ {m + 1}], places[m + 1], undo)
        BY <3>1, Zenon
      <4>3. h[s \ {m + 1}] = g[s \ {m + 1}]
        BY <2>4, <4>1, Zenon
      <4> HIDE DEF h
      <4> QED BY <4>1, <4>2, <4>3, Zenon
    <3>2. CASE m + 1 \notin s
      <4>1. s \in SUBSET (1..m)
        BY <2>2, <3>2, Zenon
      <4>2. h[s] = g[s]
        BY <2>4, <4>1, Zenon
      <4>3. g[s] = IF s = {} THEN st ELSE Round(g[s \ {Max(s)}], places[Max(s)], undo)
        BY <2>1, <4>1, Zenon DEF LoopFold
      <4>4. h[s \ {Max(s)}] = g[s \ {Max(s)}]
        <5>1. s \ {Max(s)} \in SUBSET (1..m)
          BY <4>1, Zenon
        <5> HIDE DEF h
        <5> QED BY <2>4, <5>1, Zenon
      <4> HIDE DEF h
      <4> QED BY <4>2, <4>3, <4>4, Zenon
    <3> QED BY <3>1, <3>2, Zenon
  <2>6. h = [s \in S |-> v(s)]
    <3>1. h = [s \in S |-> h[s]]
      BY Zenon
    <3> HIDE DEF h
    <3> QED BY <2>5, <3>1, Zenon
  <2>7. LoopFold(h, st, places, undo, m + 1)
    <3> HIDE DEF h
    <3> QED BY <2>6, Zenon DEF LoopFold
  <2> QED BY <2>7
<1> HIDE DEF T
<1>3. n \in T
  BY <1>1, <1>2, SetInduction
<1> QED BY <1>3 DEF T

(* It goes on by one round from each number of rounds to the next.           *)
FoldRuns(g, st, places, undo, n) ==
  /\ g[1..0] = st
  /\ \A k \in 0..n - 1 : g[1..k + 1] = Round(g[1..k], places[k + 1], undo)

LEMMA LoopFoldSteps ==
  ASSUME NEW st, NEW places, NEW undo, NEW n \in Nat, NEW g, LoopFold(g, st, places, undo, n)
  PROVE  FoldRuns(g, st, places, undo, n)
<1>1. g[1..0] = st
  <2>1. 1..0 = {} /\ {} \in SUBSET (1..n)
    OBVIOUS
  <2>2. g[{}] = st
    BY <2>1, Zenon DEF LoopFold
  <2> QED BY <2>1, <2>2
<1>2. ASSUME NEW k \in 0..n - 1 PROVE g[1..k + 1] = Round(g[1..k], places[k + 1], undo)
  <2> DEFINE s == 1..k + 1
  <2>1. k \in Nat /\ s \in SUBSET (1..n) /\ s \in SUBSET (1..k + 1) /\ k + 1 \in s /\ s # {}
    OBVIOUS
  <2>2. s \ {k + 1} = 1..k
    OBVIOUS
  <2> HIDE DEF s
  <2>3. Max(s) = k + 1
    BY <2>1, LargestIs
  <2>4. g[s] = Round(g[s \ {Max(s)}], places[Max(s)], undo)
    BY <2>1, Zenon DEF LoopFold
  <2>5. g[s] = Round(g[1..k], places[k + 1], undo)
    BY <2>2, <2>3, <2>4, Zenon
  <2> QED BY <2>5 DEF s
<1> QED BY <1>1, <1>2 DEF FoldRuns

(* So a loop ends where its rounds, one after the other, lead.               *)
Runs(f, st, places, undo, n) ==
  f[0] = st /\ \A k \in 0..n - 1 : f[k + 1] = Round(f[k], places[k + 1], undo)

LEMMA LoopEnds ==
  ASSUME NEW st, NEW n \in Nat, NEW places, DOMAIN places = 1..n, NEW undo,
         NEW f, Runs(f, st, places, undo, n)
  PROVE  f[n] = IF undo THEN Unregistered(st, places) ELSE Registered(st, places)
<1> DEFINE g == CHOOSE h : LoopFold(h, st, places, undo, n)
<1>1. LoopFold(g, st, places, undo, n)
  BY LoopFoldExists
<1>2. undo => Unregistered(st, places) = g[1..n]
  BY Zenon DEF Unregistered, FoldLeft, MapThenFoldSet, LoopFold, Round
<1>3. ~undo => Registered(st, places) = g[1..n]
  BY Zenon DEF Registered, FoldLeft, MapThenFoldSet, LoopFold, Round
<1> HIDE DEF g
<1>4. FoldRuns(g, st, places, undo, n)
  BY <1>1, LoopFoldSteps
<1> DEFINE T == {k \in Nat : k <= n => g[1..k] = f[k]}
<1>5. 0 \in T
  BY <1>4 DEF Runs, FoldRuns
<1>6. ASSUME NEW k \in Nat, k \in T PROVE k + 1 \in T
  <2> SUFFICES ASSUME k + 1 <= n PROVE g[1..k + 1] = f[k + 1]
    OBVIOUS
  <2>1. k \in 0..n - 1 /\ g[1..k] = f[k]
    BY <1>6
  <2> QED BY <1>4, <2>1 DEF Runs, FoldRuns
<1> HIDE DEF T
<1>7. Nat \subseteq T
  BY <1>5, <1>6, SetInduction
<1>8. g[1..n] = f[n]
  BY <1>7 DEF T
<1> QED BY <1>2, <1>3, <1>8

LEMMA NextRange ==
  ASSUME NEW k \in Nat, NEW j \in 0..k - 1
  PROVE  1..j + 1 = (1..j) \cup {j + 1}
OBVIOUS

RegisterRuns(f, st, places, n) ==
  /\ n \in Nat /\ DOMAIN places = 1..n
  /\ f[0] = st /\ \A k \in 0..n - 1 : f[k + 1] = RegisterAt(f[k], places[k + 1])

LEMMA RegisteredEnds ==
  ASSUME NEW st, NEW n, NEW places, NEW f, RegisterRuns(f, st, places, n)
  PROVE  Registered(st, places) = f[n]
<1>1. Runs(f, st, places, FALSE, n)
  <2>1. \A s, p : Round(s, p, FALSE) = RegisterAt(s, p)
    BY DEF Round
  <2> QED BY <2>1, Zenon DEF Runs, RegisterRuns
<1>2. n \in Nat /\ DOMAIN places = 1..n
  BY DEF RegisterRuns
<1>3. f[n] = IF FALSE THEN Unregistered(st, places) ELSE Registered(st, places)
  BY <1>1, <1>2, LoopEnds, Zenon
<1> QED BY <1>3, Zenon

UnregisterRuns(f, st, places, n) ==
  /\ n \in Nat /\ DOMAIN places = 1..n
  /\ f[0] = st /\ \A k \in 0..n - 1 : f[k + 1] = UnregisterAt(f[k], places[k + 1])

LEMMA UnregisteredEnds ==
  ASSUME NEW st, NEW n, NEW places, NEW f, UnregisterRuns(f, st, places, n)
  PROVE  Unregistered(st, places) = f[n]
<1>1. Runs(f, st, places, TRUE, n)
  BY Zenon DEF Runs, Round, UnregisterRuns
<1>2. n \in Nat /\ DOMAIN places = 1..n
  BY DEF UnregisterRuns
<1>3. f[n] = IF TRUE THEN Unregistered(st, places) ELSE Registered(st, places)
  BY <1>1, <1>2, LoopEnds, Zenon
<1> QED BY <1>3, Zenon

(* The rounds that a loop has made, and those it walks back over.            *)
LEMMA FirstRounds ==
  ASSUME NEW S, NEW places \in Seq(S), NEW k \in 0..Len(places)
  PROVE  LET done == SubSeq(places, 1, k)
         IN  /\ DOMAIN done = 1..k /\ \A i \in 1..k : done[i] = places[i]
             /\ DOMAIN Reverse(done) = 1..k /\ \A i \in 1..k : Reverse(done)[i] = places[k + 1 - i]
<1> DEFINE done == SubSeq(places, 1, k)
<1>1. Len(done) = k /\ DOMAIN done = 1..k /\ \A i \in 1..k : done[i] = places[i]
  OBVIOUS
<1>2. Len(done) = k
  BY <1>1
<1>3. Reverse(done) = [i \in 1..k |-> done[(k - i) + 1]]
  BY <1>2 DEF Reverse
<1> HIDE DEF done
<1>4. ASSUME NEW i \in 1..k PROVE Reverse(done)[i] = places[k + 1 - i]
  <2>1. (k - i) + 1 = k + 1 - i /\ k + 1 - i \in 1..k
    OBVIOUS
  <2> QED BY <1>1, <1>3, <2>1
<1>5. DOMAIN done = 1..k /\ DOMAIN Reverse(done) = 1..k /\ \A i \in 1..k : done[i] = places[i]
  BY <1>1, <1>3
<1> QED BY <1>4, <1>5 DEF done

(* A new device: its registrations and handles after k notifies.             *)
RegsFilled(d, k) == [regs EXCEPT ![d] = @ \cup {notifyList[i] : i \in 1..k}]
HandlesFilled(d, k) ==
  [n \in NotifyIds |->
     IF \E i \in 1..k : notifyList[i] = n
     THEN [HandlesBeforeAdd[n] EXCEPT ![Len(textInExList) + 1] = <<d, n>>]
     ELSE HandlesBeforeAdd[n]]

LEMMA DeviceRegistered ==
  ASSUME regs \in [Dev -> SUBSET NotifyIds], notifyList \in Seq(NotifyIds), NEW d \in Dev,
         DOMAIN HandlesBeforeAdd = NotifyIds, HandlesBeforeAdd = [n \in NotifyIds |-> HandlesBeforeAdd[n]],
         NEW k \in 0..Len(notifyList), NEW places, DOMAIN places = 1..k,
         \A i \in 1..k : places[i] = AtDevice(d)[i]
  PROVE  Registered(BeforeAdd, places) = [regs |-> RegsFilled(d, k), handles |-> HandlesFilled(d, k)]
<1> DEFINE f == [i \in 0..k |-> [regs |-> RegsFilled(d, i), handles |-> HandlesFilled(d, i)]]
<1>1. k \in Nat /\ \A i \in 1..k : i \in 1..Len(notifyList) /\ notifyList[i] \in NotifyIds
  OBVIOUS
<1>2. f[0] = BeforeAdd
  <2>1. RegsFilled(d, 0) = regs
    BY DEF RegsFilled
  <2>2. HandlesFilled(d, 0) = HandlesBeforeAdd
    BY DEF HandlesFilled
  <2> QED BY <1>1, <2>1, <2>2 DEF BeforeAdd
<1>3. ASSUME NEW i \in 0..k - 1 PROVE f[i + 1] = RegisterAt(f[i], places[i + 1])
  <2> DEFINE m == notifyList[i + 1]
             slot == Len(textInExList) + 1
  <2>1. i \in 0..k /\ i + 1 \in 0..k /\ i + 1 \in 1..k /\ i + 1 \in 1..Len(notifyList) /\ m \in NotifyIds
    BY <1>1
  <2>2. /\ places[i + 1].dev = d /\ places[i + 1].notify = m /\ places[i + 1].slot = slot
    <3>1. places[i + 1] = AtDevice(d)[i + 1]
      BY <2>1
    <3>2. AtDevice(d)[i + 1] = [dev |-> d, notify |-> m, slot |-> slot]
      BY <2>1, Zenon DEF AtDevice
    <3> HIDE DEF m, slot
    <3> QED BY <3>1, <3>2
  <2>3. 1..i + 1 = (1..i) \cup {i + 1}
    BY <1>1, NextRange
  <2>4. RegsFilled(d, i + 1) = [RegsFilled(d, i) EXCEPT ![d] = @ \cup {m}]
    <3>1. {notifyList[j] : j \in 1..i + 1} = {notifyList[j] : j \in 1..i} \cup {m}
      BY <2>3
    <3> QED BY <3>1 DEF RegsFilled
  <2> HIDE DEF slot
  <2>5. HandlesFilled(d, i + 1) = [HandlesFilled(d, i) EXCEPT ![m] = [@ EXCEPT ![slot] = <<d, m>>]]
    <3> DEFINE H(j) == [n \in NotifyIds |-> IF \E l \in 1..j : notifyList[l] = n
                          THEN [HandlesBeforeAdd[n] EXCEPT ![slot] = <<d, n>>]
                          ELSE HandlesBeforeAdd[n]]
               R == [H(i) EXCEPT ![m] = [@ EXCEPT ![slot] = <<d, m>>]]
    <3>1. \A j : HandlesFilled(d, j) = H(j)
      BY DEF HandlesFilled, slot
    <3>2. ASSUME NEW n \in NotifyIds PROVE R[n] = H(i + 1)[n]
      <4>1. CASE n = m
        <5>1. H(i + 1)[n] = [HandlesBeforeAdd[n] EXCEPT ![slot] = <<d, n>>]
          BY <2>1, <2>3, <4>1
        <5>2. R[n] = [H(i)[n] EXCEPT ![slot] = <<d, n>>]
          BY <4>1
        <5>3. H(i)[n] = [HandlesBeforeAdd[n] EXCEPT ![slot] = <<d, n>>] \/ H(i)[n] = HandlesBeforeAdd[n]
          OBVIOUS
        <5>4. [[HandlesBeforeAdd[n] EXCEPT ![slot] = <<d, n>>] EXCEPT ![slot] = <<d, n>>]
              = [HandlesBeforeAdd[n] EXCEPT ![slot] = <<d, n>>]
          OBVIOUS
        <5> HIDE DEF H, R
        <5> QED BY <5>1, <5>2, <5>3, <5>4
      <4>2. CASE n # m
        <5>1. R[n] = H(i)[n]
          BY <4>2
        <5>2. (\E l \in 1..i + 1 : notifyList[l] = n) <=> (\E l \in 1..i : notifyList[l] = n)
          BY <2>3, <4>2
        <5> QED BY <5>1, <5>2
      <4> QED BY <4>1, <4>2
    <3>3. R = [n \in NotifyIds |-> R[n]] /\ H(i + 1) = [n \in NotifyIds |-> H(i + 1)[n]]
      BY Zenon
    <3>4. R = H(i + 1)
      <4> HIDE DEF R, H
      <4> QED BY <3>2, <3>3, Zenon
    <3>5. HandlesFilled(d, i) = H(i) /\ HandlesFilled(d, i + 1) = H(i + 1)
      BY <3>1, Zenon
    <3> HIDE DEF H
    <3> QED BY <3>4, <3>5, Zenon
  <2>6. RegisterAt(f[i], places[i + 1]) =
          [regs |-> [f[i].regs EXCEPT ![d] = @ \cup {m}],
           handles |-> [f[i].handles EXCEPT ![m] = [@ EXCEPT ![slot] = <<d, m>>]]]
    <3> HIDE DEF f
    <3> QED BY <2>2, Zenon DEF RegisterAt, slot
  <2>7. f[i].regs = RegsFilled(d, i) /\ f[i].handles = HandlesFilled(d, i)
    BY <2>1
  <2>8. f[i + 1] = [regs |-> RegsFilled(d, i + 1), handles |-> HandlesFilled(d, i + 1)]
    BY <2>1
  <2> HIDE DEF f, m
  <2> QED BY <2>4, <2>5, <2>6, <2>7, <2>8, Zenon
<1>4. f[k] = [regs |-> RegsFilled(d, k), handles |-> HandlesFilled(d, k)]
  BY <1>1
<1> HIDE DEF f
<1>5. Registered(BeforeAdd, places) = f[k]
  <2>1. RegisterRuns(f, BeforeAdd, places, k)
    BY <1>1, <1>2, <1>3 DEF RegisterRuns
  <2> QED BY <2>1, RegisteredEnds
<1> QED BY <1>4, <1>5

(* Walking back takes them off, and what the keyboard had of them before.    *)
BackFromDevice(st, d, k, places) ==
  /\ st = [regs |-> RegsFilled(d, k), handles |-> HandlesFilled(d, k)]
  /\ DOMAIN places = 1..k /\ \A i \in 1..k : places[i] = AtDevice(d)[k + 1 - i]
  /\ \A i \in 1..k : Len(textInExList) + 1 \in DOMAIN HandlesBeforeAdd[notifyList[i]]

LEMMA DeviceWalkedBack ==
  ASSUME regs \in [Dev -> SUBSET NotifyIds], notifyList \in Seq(NotifyIds), NEW d \in Dev,
         NEW k \in 0..Len(notifyList), NEW places, NEW st, BackFromDevice(st, d, k, places)
  PROVE  Unregistered(st, places).regs = [regs EXCEPT ![d] = @ \ {notifyList[i] : i \in 1..k}]
<1> DEFINE All == {notifyList[i] : i \in 1..k}
           Gone(j) == {notifyList[i] : i \in k + 1 - j..k}
           f == [j \in 0..k |-> [regs |-> [regs EXCEPT ![d] = (@ \cup All) \ Gone(j)],
                                 handles |-> HandlesFilled(d, k)]]
<1> USE DEF BackFromDevice
<1>1. k \in Nat /\ \A i \in 1..k : i \in 1..Len(notifyList) /\ notifyList[i] \in NotifyIds
  OBVIOUS
<1>2. f[0] = st
  <2>1. Gone(0) = {}
    BY <1>1
  <2> HIDE DEF Gone
  <2>2. [regs EXCEPT ![d] = (@ \cup All) \ Gone(0)] = RegsFilled(d, k)
    BY <2>1 DEF RegsFilled
  <2>3. f[0] = [regs |-> [regs EXCEPT ![d] = (@ \cup All) \ Gone(0)], handles |-> HandlesFilled(d, k)]
    BY <1>1
  <2> HIDE DEF All, f
  <2> QED BY <2>2, <2>3
<1>3. ASSUME NEW j \in 0..k - 1 PROVE f[j + 1] = UnregisterAt(f[j], places[j + 1])
  <2> DEFINE i == k - j
             m == notifyList[i]
             slot == Len(textInExList) + 1
  <2>1. /\ j \in 0..k /\ j + 1 \in 0..k /\ j + 1 \in 1..k /\ i \in 1..k
        /\ i = k + 1 - (j + 1) /\ m \in NotifyIds /\ i \in 1..Len(notifyList)
    BY <1>1
  <2>2. /\ places[j + 1].dev = d /\ places[j + 1].notify = m /\ places[j + 1].slot = slot
    <3>1. places[j + 1] = AtDevice(d)[i]
      BY <2>1
    <3>2. AtDevice(d)[i] = [dev |-> d, notify |-> m, slot |-> slot]
      BY <2>1, Zenon DEF AtDevice
    <3> HIDE DEF m, slot
    <3> QED BY <3>1, <3>2
  <2>3. HandlesFilled(d, k)[m][slot] = <<d, m>>
    <3>1. slot \in DOMAIN HandlesBeforeAdd[m]
      BY <2>1
    <3>2. HandlesFilled(d, k)[m] = [HandlesBeforeAdd[m] EXCEPT ![slot] = <<d, m>>]
      BY <2>1 DEF HandlesFilled
    <3> HIDE DEF m, slot
    <3> QED BY <3>1, <3>2
  <2>4. Gone(j + 1) = Gone(j) \cup {m}
    <3>1. \A l \in k + 1 - (j + 1)..k : l = i \/ l \in k + 1 - j..k
      BY <1>1, <2>1
    <3>2. \A l \in k + 1 - j..k : l \in k + 1 - (j + 1)..k
      BY <1>1, <2>1
    <3>3. i \in k + 1 - (j + 1)..k
      BY <1>1, <2>1
    <3> QED BY <3>1, <3>2, <3>3
  <2>5. f[j].regs = [regs EXCEPT ![d] = (@ \cup All) \ Gone(j)] /\ f[j].handles = HandlesFilled(d, k)
    BY <2>1
  <2>6. f[j + 1] = [regs |-> [regs EXCEPT ![d] = (@ \cup All) \ Gone(j + 1)],
                    handles |-> HandlesFilled(d, k)]
    BY <2>1
  <2>7. UnregisterAt(f[j], places[j + 1]) =
          [regs |-> [f[j].regs EXCEPT ![d] = IF f[j].handles[m][slot] = <<d, m>>
                                             THEN @ \ {m} ELSE @],
           handles |-> f[j].handles]
    <3> HIDE DEF f, m, slot
    <3> QED BY <2>2, Zenon DEF UnregisterAt
  <2> HIDE DEF f, m, slot, Gone, All
  <2>8. [f[j].regs EXCEPT ![d] = @ \ {m}] = [regs EXCEPT ![d] = (@ \cup All) \ Gone(j + 1)]
    <3>1. ((regs[d] \cup All) \ Gone(j)) \ {m} = (regs[d] \cup All) \ Gone(j + 1)
      BY <2>4
    <3> QED BY <2>5, <3>1
  <2>9. [f[j].regs EXCEPT ![d] = IF f[j].handles[m][slot] = <<d, m>> THEN @ \ {m} ELSE @]
        = [f[j].regs EXCEPT ![d] = @ \ {m}]
    BY <2>3, <2>5
  <2> QED BY <2>5, <2>6, <2>7, <2>8, <2>9
<1>4. f[k].regs = [regs EXCEPT ![d] = @ \ All]
  <2>1. Gone(k) = All
    BY <1>1
  <2>2. f[k].regs = [regs EXCEPT ![d] = (@ \cup All) \ Gone(k)]
    <3>1. k \in 0..k
      BY <1>1
    <3> HIDE DEF Gone, All
    <3> QED BY <3>1
  <2> HIDE DEF Gone, All, f
  <2>3. (regs[d] \cup All) \ All = regs[d] \ All
    OBVIOUS
  <2> QED BY <2>1, <2>2, <2>3
<1> HIDE DEF f
<1>5. Unregistered(st, places) = f[k]
  <2>1. UnregisterRuns(f, st, places, k)
    BY <1>1, <1>2, <1>3 DEF UnregisterRuns
  <2> QED BY <2>1, UnregisteredEnds
<1> QED BY <1>4, <1>5

(* A new notify: the registrations and its handles after k keyboards.        *)
RegsOver(n, k) == [d \in Dev |-> IF \E i \in 1..k : textInExList[i] = d
                                 THEN regs[d] \cup {n} ELSE regs[d]]
SlotsOver(n, k) == [i \in 1..textInExListCount |->
                      IF i <= k THEN <<textInExList[i], n>> ELSE NoHandle]

LEMMA KeyboardsRegistered ==
  ASSUME regs \in [Dev -> SUBSET NotifyIds], textInExList \in Seq(Dev), NEW n \in NotifyIds,
         DOMAIN handles = NotifyIds, textInExListCount \in Nat, Len(textInExList) <= textInExListCount,
         NEW k \in 0..Len(textInExList), NEW places, DOMAIN places = 1..k,
         \A i \in 1..k : places[i] = AtKeyboards(n)[i]
  PROVE  Registered(WithNewList(n), places) =
           [regs |-> RegsOver(n, k), handles |-> [handles EXCEPT ![n] = SlotsOver(n, k)]]
<1> DEFINE f == [i \in 0..k |-> [regs |-> RegsOver(n, i),
                                handles |-> [handles EXCEPT ![n] = SlotsOver(n, i)]]]
<1>1. k \in Nat /\ \A i \in 1..k : /\ i \in 1..Len(textInExList) /\ textInExList[i] \in Dev
                                    /\ i \in 1..textInExListCount
  OBVIOUS
<1>2. f[0] = WithNewList(n)
  <2>1. RegsOver(n, 0) = regs
    BY DEF RegsOver
  <2>2. SlotsOver(n, 0) = [i \in 1..textInExListCount |-> NoHandle]
    BY DEF SlotsOver
  <2> QED BY <1>1, <2>1, <2>2 DEF WithNewList
<1>3. ASSUME NEW i \in 0..k - 1 PROVE f[i + 1] = RegisterAt(f[i], places[i + 1])
  <2> DEFINE d == textInExList[i + 1]
  <2>1. i \in 0..k /\ i + 1 \in 0..k /\ i + 1 \in 1..k /\ d \in Dev /\ i + 1 \in 1..Len(textInExList)
    BY <1>1
  <2>2. /\ places[i + 1].dev = d /\ places[i + 1].notify = n /\ places[i + 1].slot = i + 1
    <3>1. places[i + 1] = AtKeyboards(n)[i + 1]
      BY <2>1
    <3>2. AtKeyboards(n)[i + 1] = [dev |-> d, notify |-> n, slot |-> i + 1]
      BY <2>1, Zenon DEF AtKeyboards
    <3> HIDE DEF d
    <3> QED BY <3>1, <3>2
  <2>3. RegsOver(n, i + 1) = [RegsOver(n, i) EXCEPT ![d] = @ \cup {n}]
    <3>1. 1..i + 1 = (1..i) \cup {i + 1}
      BY <1>1, NextRange
    <3> DEFINE Over(j) == {e \in Dev : \E l \in 1..j : textInExList[l] = e}
    <3>2. Over(i + 1) = Over(i) \cup {d}
      BY <2>1, <3>1
    <3>3. \A j : RegsOver(n, j) = [e \in Dev |-> IF e \in Over(j) THEN regs[e] \cup {n} ELSE regs[e]]
      BY DEF RegsOver
    <3> HIDE DEF Over, d
    <3>4. RegsOver(n, i) = [e \in Dev |-> IF e \in Over(i) THEN regs[e] \cup {n} ELSE regs[e]]
      BY <3>3
    <3>5. RegsOver(n, i + 1) = [e \in Dev |-> IF e \in Over(i) \cup {d} THEN regs[e] \cup {n} ELSE regs[e]]
      BY <3>2, <3>3
    <3> QED BY <2>1, <3>4, <3>5
  <2>4. [handles EXCEPT ![n] = SlotsOver(n, i + 1)]
          = [[handles EXCEPT ![n] = SlotsOver(n, i)] EXCEPT ![n] = [@ EXCEPT ![i + 1] = <<d, n>>]]
    <3>1. i + 1 \in 1..textInExListCount
      BY <1>1, <2>1
    <3>2. DOMAIN SlotsOver(n, i + 1) = 1..textInExListCount /\ DOMAIN SlotsOver(n, i) = 1..textInExListCount
      BY DEF SlotsOver
    <3>3. ASSUME NEW j \in 1..textInExListCount
          PROVE  SlotsOver(n, i + 1)[j] = IF j = i + 1 THEN <<d, n>> ELSE SlotsOver(n, i)[j]
      <4>1. i \in Int /\ j \in Int /\ (j <= i + 1 <=> j <= i \/ j = i + 1)
        OBVIOUS
      <4> QED BY <4>1 DEF SlotsOver
    <3>4. SlotsOver(n, i + 1) = [SlotsOver(n, i) EXCEPT ![i + 1] = <<d, n>>]
      <4>1. SlotsOver(n, i + 1) = [j \in 1..textInExListCount |-> SlotsOver(n, i + 1)[j]]
        BY DEF SlotsOver
      <4> HIDE DEF d
      <4> QED BY <3>1, <3>2, <3>3, <4>1
    <3> HIDE DEF d
    <3> QED BY <3>4
  <2>5. RegisterAt(f[i], places[i + 1]) =
          [regs |-> [f[i].regs EXCEPT ![d] = @ \cup {n}],
           handles |-> [f[i].handles EXCEPT ![n] = [@ EXCEPT ![i + 1] = <<d, n>>]]]
    <3> HIDE DEF f, d
    <3> QED BY <2>2, Zenon DEF RegisterAt
  <2>6. f[i].regs = RegsOver(n, i) /\ f[i].handles = [handles EXCEPT ![n] = SlotsOver(n, i)]
    BY <2>1
  <2>7. f[i + 1] = [regs |-> RegsOver(n, i + 1), handles |-> [handles EXCEPT ![n] = SlotsOver(n, i + 1)]]
    BY <2>1
  <2> HIDE DEF f, d
  <2> QED BY <2>3, <2>4, <2>5, <2>6, <2>7, Zenon
<1>4. f[k] = [regs |-> RegsOver(n, k), handles |-> [handles EXCEPT ![n] = SlotsOver(n, k)]]
  BY <1>1
<1> HIDE DEF f
<1>5. Registered(WithNewList(n), places) = f[k]
  <2>1. RegisterRuns(f, WithNewList(n), places, k)
    BY <1>1, <1>2, <1>3 DEF RegisterRuns
  <2> QED BY <2>1, RegisteredEnds
<1> QED BY <1>4, <1>5

(* Over the keyboards whose handle is their own, unregistering takes the     *)
(* notify away, in whichever order it goes.                                  *)
OffKeyboards(r, m, k, places, order) ==
  /\ r \in [Dev -> SUBSET NotifyIds]
  /\ order \in [1..k -> 1..k] /\ \A i \in 1..k : \E j \in 1..k : order[j] = i
  /\ DOMAIN places = 1..k /\ \A i \in 1..k : places[i] = AtKeyboards(m)[order[i]]

TakenOff(r, h, m, k) ==
  [d \in Dev |-> IF \E i \in 1..k : textInExList[i] = d /\ h[m][i] = <<d, m>>
                 THEN r[d] \ {m} ELSE r[d]]

LEMMA KeyboardsUnregistered ==
  ASSUME textInExList \in Seq(Dev), NEW m \in NotifyIds, NEW k \in 0..Len(textInExList),
         NEW r, NEW h, NEW st, st = [regs |-> r, handles |-> h],
         NEW places, NEW order, OffKeyboards(r, m, k, places, order)
  PROVE  Unregistered(st, places).regs = TakenOff(r, h, m, k)
<1> DEFINE Off(i, d) == textInExList[i] = d /\ h[m][i] = <<d, m>>
           Over(j) == {d \in Dev : \E l \in 1..j : Off(order[l], d)}
           Less1(D) == [d \in Dev |-> IF d \in D THEN r[d] \ {m} ELSE r[d]]
           f == [j \in 0..k |-> [regs |-> Less1(Over(j)), handles |-> h]]
<1> USE DEF OffKeyboards
<1>1. k \in Nat /\ \A i \in 1..k : i \in 1..Len(textInExList) /\ textInExList[i] \in Dev
  OBVIOUS
<1>2. f[0] = st
  <2>1. Over(0) = {}
    BY <1>1
  <2>2. Less1({}) = r
    OBVIOUS
  <2>3. f[0] = [regs |-> Less1(Over(0)), handles |-> h]
    BY <1>1
  <2> HIDE DEF f, Over, Less1
  <2> QED BY <2>1, <2>2, <2>3
<1>3. ASSUME NEW j \in 0..k - 1 PROVE f[j + 1] = UnregisterAt(f[j], places[j + 1])
  <2> DEFINE i == order[j + 1]
             d == textInExList[i]
  <2>1. /\ j \in 0..k /\ j + 1 \in 0..k /\ j + 1 \in 1..k /\ i \in 1..k
        /\ d \in Dev /\ i \in 1..Len(textInExList)
    BY <1>1
  <2>2. /\ places[j + 1].dev = d /\ places[j + 1].notify = m /\ places[j + 1].slot = i
    <3>1. places[j + 1] = AtKeyboards(m)[i]
      BY <2>1
    <3>2. AtKeyboards(m)[i] = [dev |-> d, notify |-> m, slot |-> i]
      BY <2>1, Zenon DEF AtKeyboards
    <3> HIDE DEF d, i
    <3> QED BY <3>1, <3>2
  <2>3. Over(j + 1) = IF h[m][i] = <<d, m>> THEN Over(j) \cup {d} ELSE Over(j)
    <3>1. 1..j + 1 = (1..j) \cup {j + 1}
      BY <1>1, NextRange
    <3>2. \A e \in Dev : Off(i, e) <=> e = d /\ h[m][i] = <<d, m>>
      OBVIOUS
    <3> HIDE DEF Off, d
    <3> QED BY <2>1, <3>1, <3>2
  <2>4. f[j].regs = Less1(Over(j)) /\ f[j].handles = h
    <3>1. f[j] = [regs |-> Less1(Over(j)), handles |-> h]
      BY <2>1, Zenon
    <3> HIDE DEF f, Less1, Over
    <3> QED BY <3>1
  <2>5. f[j + 1] = [regs |-> Less1(Over(j + 1)), handles |-> h]
    BY <2>1, Zenon
  <2>6. UnregisterAt(f[j], places[j + 1]) =
          [regs |-> [f[j].regs EXCEPT ![d] = IF f[j].handles[m][i] = <<d, m>> THEN @ \ {m} ELSE @],
           handles |-> f[j].handles]
    <3> HIDE DEF f, d, i
    <3> QED BY <2>2, Zenon DEF UnregisterAt
  <2> HIDE DEF f, d, i, Over
  <2>7. \A D : [Less1(D) EXCEPT ![d] = @ \ {m}] = Less1(D \cup {d})
    <3> TAKE D
    <3>1. Less1(D)[d] \ {m} = r[d] \ {m}
      BY <2>1
    <3> QED BY <2>1, <3>1
  <2>8. \A D : [Less1(D) EXCEPT ![d] = @] = Less1(D)
    OBVIOUS
  <2> HIDE DEF Less1
  <2>9. CASE h[m][i] = <<d, m>>
    <3>1. UnregisterAt(f[j], places[j + 1]) = [regs |-> [Less1(Over(j)) EXCEPT ![d] = @ \ {m}], handles |-> h]
      BY <2>4, <2>6, <2>9
    <3> QED BY <2>3, <2>5, <2>7, <2>9, <3>1
  <2>10. CASE h[m][i] # <<d, m>>
    <3>1. UnregisterAt(f[j], places[j + 1]) = [regs |-> [Less1(Over(j)) EXCEPT ![d] = @], handles |-> h]
      BY <2>4, <2>6, <2>10
    <3> QED BY <2>3, <2>5, <2>8, <2>10, <3>1
  <2> QED BY <2>9, <2>10
<1>4. f[k].regs = [d \in Dev |-> IF \E i \in 1..k : Off(i, d) THEN r[d] \ {m} ELSE r[d]]
  <2>1. f[k].regs = Less1(Over(k))
    <3>1. k \in 0..k
      BY <1>1
    <3>2. f[k] = [regs |-> Less1(Over(k)), handles |-> h]
      BY <3>1, Zenon
    <3> HIDE DEF f, Less1, Over
    <3> QED BY <3>2
  <2>2. \A d \in Dev : (d \in Over(k)) <=> \E i \in 1..k : Off(i, d)
    <3> HIDE DEF Off
    <3> QED OBVIOUS
  <2> HIDE DEF f, Over, Off
  <2> QED BY <2>1, <2>2
<1> HIDE DEF f
<1>5. Unregistered(st, places) = f[k]
  <2>1. UnregisterRuns(f, st, places, k)
    BY <1>1, <1>2, <1>3 DEF UnregisterRuns
  <2> QED BY <2>1, UnregisteredEnds
<1> QED BY <1>4, <1>5, Zenon DEF TakenOff

-----------------------------------------------------------------------------
(* The registry: the device lists, the notify list and its handles           *)

(* The driver entry point establishes the invariant.                         *)
LEMMA RegistryInit == Init => RegistryInv
<1> SUFFICES ASSUME InitRegistry PROVE RegistryInv
  BY DEF Init
<1>2. /\ textInList = <<>> /\ textInExList = <<>> /\ notifyList = <<ToggleNotify>>
      /\ textInListCount = AllocUnit /\ textInExListCount = AllocUnit
      /\ keyQueueSize = AllocUnit /\ keyPeak = 0
      /\ opened = {} /\ shifted = {}
  BY DEF InitRegistry
<1>3. /\ Elems(textInList) = {} /\ Distinct(textInList) /\ Len(textInList) = 0
      /\ Elems(textInExList) = {} /\ Distinct(textInExList) /\ Len(textInExList) = 0
      /\ textInList \in Seq(Dev) /\ textInExList \in Seq(Dev)
  BY <1>2, EmptyElems, EmptySeq
<1>4. /\ Elems(notifyList) = {ToggleNotify} /\ Distinct(notifyList)
      /\ notifyList \in Seq(NotifyIds)
  BY <1>2, NotifyAssumption, SingletonElems
<1>5. /\ handles \in [NotifyIds -> Seq(Handle \cup {NoHandle})]
      /\ Len(handles[ToggleNotify]) = AllocUnit
  <2>1. /\ [i \in 1..AllocUnit |-> NoHandle] \in Seq(Handle \cup {NoHandle})
        /\ Len([i \in 1..AllocUnit |-> NoHandle]) = AllocUnit
    BY AllocAssumption
  <2>2. <<>> \in Seq(Handle \cup {NoHandle})
    BY EmptySeq
  <2>3. handles = [n \in NotifyIds |-> IF n = ToggleNotify
                                       THEN [i \in 1..AllocUnit |-> NoHandle]
                                       ELSE <<>>]
    BY DEF InitRegistry
  <2>4. QED BY <2>1, <2>2, <2>3, NotifyAssumption
<1>6. /\ held \in [NotifyIds -> NotifyIds \cup {NoHandle}]
      /\ regs \in [Dev -> SUBSET NotifyIds]
  BY DEF InitRegistry
<1>7. RegistryTypeOK
  BY <1>2, <1>3, <1>4, <1>5, <1>6, AllocAssumption DEF RegistryTypeOK
<1>8. ListedDevicesAreOpen
  BY <1>3 DEF ListedDevicesAreOpen, TextDevs, ExDevs
<1>9. NoOverrun /\ keyQueueSize = textInExListCount
  BY <1>2, <1>3, <1>4, <1>5, AllocAssumption DEF NoOverrun, Live
<1>10. RegisteredEverywhere
  BY <1>3 DEF RegisteredEverywhere, ExDevs
<1>11. HandlesAligned
  BY <1>2, <1>3 DEF HandlesAligned, Elems
<1>12. QED BY <1>4, <1>7, <1>8, <1>9, <1>10, <1>11 DEF RegistryInv

(* An action that changes none of the registry's variables but the handles   *)
(* the clients hold.                                                         *)
LEMMA RegistryUntouched ==
  ASSUME RegistryInv,
         UNCHANGED <<consoleVars, exVars, notifyList, handles, regs,
                     keyQueueSize, keyPeak>>,
         held' \in [NotifyIds -> NotifyIds \cup {NoHandle}]
  PROVE  RegistryInv'
<1>1. UNCHANGED <<Elems(textInList), Elems(textInExList), Elems(notifyList)>>
  BY DEF consoleVars, exVars
<1>2. QED
  BY <1>1 DEF RegistryInv, RegistryTypeOK, ListedDevicesAreOpen, NoOverrun,
              RegisteredEverywhere, HandlesAligned, consoleVars, exVars,
              TextDevs, ExDevs, Live

(* What the device half of the registry keeps when a device is added to      *)
(* TextInList.                                                               *)
LEMMA TextInAddFacts ==
  ASSUME RegistryInv, NEW d \in Dev, TextInAddDevice(d)
  PROVE  /\ opened' = opened \cup {d} /\ d \notin opened /\ d \in HasTextIn
         /\ textInList' \in Seq(Dev) /\ textInListCount' \in Nat
         /\ Elems(textInList') = Elems(textInList) \cup {d}
         /\ Distinct(textInList')
         /\ Elems(textInList') \subseteq opened' \cap HasTextIn
         /\ Len(textInList') <= textInListCount'
         /\ d \notin Elems(textInList) /\ d \notin Elems(textInExList)
<1>1. d \notin opened /\ d \in HasTextIn /\ opened' = opened \cup {d}
  BY DEF TextInAddDevice
<1>2. d \notin Elems(textInList) /\ d \notin Elems(textInExList)
  BY <1>1 DEF RegistryInv, ListedDevicesAreOpen, TextDevs, ExDevs
<1>3. /\ textInList \in Seq(Dev) /\ textInListCount \in Nat
      /\ Distinct(textInList) /\ Elems(textInList) \subseteq opened \cap HasTextIn
      /\ Len(textInList) <= textInListCount /\ Len(textInList) \in Nat
  BY DEF RegistryInv, RegistryTypeOK, ListedDevicesAreOpen, NoOverrun, TextDevs
<1>4. /\ textInList' = Append(textInList, d)
      /\ textInListCount' = GrownCount(textInList, textInListCount, AllocUnit)
  BY DEF TextInAddDevice
<1>5. /\ textInList' \in Seq(Dev)
      /\ Len(textInList') = Len(textInList) + 1
      /\ Elems(textInList') = Elems(textInList) \cup {d}
      /\ Distinct(textInList')
  BY <1>2, <1>3, <1>4, AppendElems
<1>6. textInListCount' \in Nat /\ Len(textInList') <= textInListCount'
  BY <1>3, <1>4, <1>5, AllocAssumption DEF GrownCount
<1>7. QED BY <1>1, <1>2, <1>3, <1>5, <1>6

(* Growing one handle list keeps the handles in it.                          *)
LEMMA RegrownFacts ==
  ASSUME RegistryInv, NEW n \in Live
  PROVE  /\ Regrown(handles[n]) \in Seq(Handle \cup {NoHandle})
         /\ Len(Regrown(handles[n])) = textInExListCount + AllocUnit
         /\ \A i \in 1..textInExListCount : Regrown(handles[n])[i] = handles[n][i]
<1>1. /\ n \in NotifyIds /\ handles[n] \in Seq(Handle \cup {NoHandle})
      /\ Len(handles[n]) >= textInExListCount /\ textInExListCount \in Nat
  BY DEF RegistryInv, RegistryTypeOK, NoOverrun, Live, Elems
<1>2. \A i \in 1..textInExListCount : handles[n][i] \in Handle \cup {NoHandle}
  BY <1>1
<1>3. textInExListCount + AllocUnit \in Nat
  BY <1>1, AllocAssumption
<1>4. QED BY <1>1, <1>2, <1>3, AllocAssumption DEF Regrown

(* The growing loop, stopped after any number of notifies.                   *)
LEMMA HandlesGrownFacts ==
  ASSUME RegistryInv, NEW k \in 0..Len(notifyList)
  PROVE  /\ HandlesGrown(k) \in [NotifyIds -> Seq(Handle \cup {NoHandle})]
         /\ \A n \in Live :
              /\ Len(HandlesGrown(k)[n]) >= textInExListCount
              /\ k = Len(notifyList) =>
                   Len(HandlesGrown(k)[n]) = textInExListCount + AllocUnit
              /\ \A i \in 1..textInExListCount :
                   HandlesGrown(k)[n][i] = handles[n][i]
<1>1. /\ notifyList \in Seq(NotifyIds) /\ Live \subseteq NotifyIds
      /\ handles \in [NotifyIds -> Seq(Handle \cup {NoHandle})]
      /\ textInExListCount \in Nat
      /\ \A n \in Live : Len(handles[n]) >= textInExListCount
  BY DEF RegistryInv, RegistryTypeOK, NoOverrun, Live, Elems
<1>2. \A n \in NotifyIds : (\E i \in 1..k : notifyList[i] = n) => n \in Live
  BY <1>1 DEF Live, Elems
<1>3. \A n \in NotifyIds :
        HandlesGrown(k)[n] = IF \E i \in 1..k : notifyList[i] = n
                             THEN Regrown(handles[n]) ELSE handles[n]
  BY DEF HandlesGrown
<1>4. HandlesGrown(k) \in [NotifyIds -> Seq(Handle \cup {NoHandle})]
  BY <1>1, <1>2, RegrownFacts DEF HandlesGrown
<1>5. ASSUME NEW n \in Live
      PROVE  /\ Len(HandlesGrown(k)[n]) >= textInExListCount
             /\ \A i \in 1..textInExListCount :
                  HandlesGrown(k)[n][i] = handles[n][i]
  BY <1>1, <1>3, RegrownFacts, AllocAssumption
<1>6. ASSUME NEW n \in Live, k = Len(notifyList)
      PROVE  Len(HandlesGrown(k)[n]) = textInExListCount + AllocUnit
  <2>1. \E i \in 1..k : notifyList[i] = n
    BY <1>1, <1>6 DEF Live, Elems
  <2>2. QED BY <1>1, <1>3, <2>1, RegrownFacts
<1>7. QED BY <1>4, <1>5, <1>6

(* After GrowExLists every array has a slot for one more device.             *)
LEMMA GrowExFacts ==
  ASSUME RegistryInv, GrowExLists
  PROVE  /\ textInExListCount' \in Nat
         /\ Len(textInExList) + 1 <= textInExListCount'
         /\ keyQueueSize' \in {textInExListCount', textInExListCount' + AllocUnit}
         /\ keyPeak <= keyQueueSize'
         /\ HandlesBeforeAdd \in [NotifyIds -> Seq(Handle \cup {NoHandle})]
         /\ \A n \in Live :
              /\ Len(HandlesBeforeAdd[n]) >= textInExListCount'
              /\ \A i \in DOMAIN textInExList :
                   HandlesBeforeAdd[n][i] = handles[n][i]
<1>1. /\ textInExListCount \in Nat /\ textInExList \in Seq(Dev)
      /\ Len(textInExList) \in Nat /\ DOMAIN textInExList = 1..Len(textInExList)
      /\ Len(textInExList) <= textInExListCount
      /\ keyPeak \in Nat /\ keyPeak <= keyQueueSize
      /\ keyQueueSize \in {textInExListCount, textInExListCount + AllocUnit}
      /\ handles \in [NotifyIds -> Seq(Handle \cup {NoHandle})]
      /\ \A n \in Live : Len(handles[n]) >= textInExListCount
      /\ Len(notifyList) \in Nat
  BY DEF RegistryInv, RegistryTypeOK, NoOverrun
<1>2. CASE ExListFull
  <2>1. /\ textInExListCount' = textInExListCount + AllocUnit
        /\ keyQueueSize' = textInExListCount + AllocUnit
        /\ HandlesBeforeAdd = HandlesGrown(Len(notifyList))
    BY <1>2 DEF GrowExLists, GrownCount, ExListFull, HandlesBeforeAdd
  <2>2. Len(notifyList) \in 0..Len(notifyList)
    BY <1>1
  <2>3. /\ HandlesBeforeAdd \in [NotifyIds -> Seq(Handle \cup {NoHandle})]
        /\ \A n \in Live :
             /\ Len(HandlesBeforeAdd[n]) = textInExListCount + AllocUnit
             /\ \A i \in 1..textInExListCount :
                  HandlesBeforeAdd[n][i] = handles[n][i]
    BY <2>1, <2>2, HandlesGrownFacts
  <2>4. QED BY <1>1, <2>1, <2>3, AllocAssumption
<1>3. CASE ~ExListFull
  BY <1>1, <1>3, AllocAssumption
     DEF GrowExLists, GrownCount, ExListFull, HandlesBeforeAdd
<1>4. QED BY <1>2, <1>3

(* Filling the slot of the device that is being added leaves the handles of  *)
(* the listed devices alone.                                                 *)
LEMMA HandlesFilledFacts ==
  ASSUME RegistryInv, GrowExLists, NEW d \in Dev,
         NEW k \in 0..Len(notifyList)
  PROVE  /\ HandlesFilled(d, k) \in [NotifyIds -> Seq(Handle \cup {NoHandle})]
         /\ \A n \in Live :
              /\ Len(HandlesFilled(d, k)[n]) >= textInExListCount'
              /\ \A i \in DOMAIN textInExList :
                   HandlesFilled(d, k)[n][i] = handles[n][i]
              /\ k = Len(notifyList) =>
                   HandlesFilled(d, k)[n][Len(textInExList) + 1] = <<d, n>>
<1> DEFINE slot == Len(textInExList) + 1
           filled(n) == [HandlesBeforeAdd[n] EXCEPT ![slot] = <<d, n>>]
<1>1. /\ HandlesBeforeAdd \in [NotifyIds -> Seq(Handle \cup {NoHandle})]
      /\ textInExListCount' \in Nat /\ slot <= textInExListCount'
      /\ Len(textInExList) \in Nat
      /\ DOMAIN textInExList = 1..Len(textInExList)
      /\ Live \subseteq NotifyIds
      /\ notifyList \in Seq(NotifyIds)
      /\ \A n \in Live :
           /\ Len(HandlesBeforeAdd[n]) >= textInExListCount'
           /\ \A i \in DOMAIN textInExList :
                HandlesBeforeAdd[n][i] = handles[n][i]
  BY GrowExFacts DEF RegistryInv, RegistryTypeOK, Live, Elems
<1>2. ASSUME NEW n \in Live
      PROVE  /\ filled(n) \in Seq(Handle \cup {NoHandle})
             /\ Len(filled(n)) >= textInExListCount'
             /\ filled(n)[slot] = <<d, n>>
             /\ \A i \in DOMAIN textInExList : filled(n)[i] = handles[n][i]
  <2>1. /\ HandlesBeforeAdd[n] \in Seq(Handle \cup {NoHandle})
        /\ slot \in 1..Len(HandlesBeforeAdd[n])
        /\ <<d, n>> \in Handle \cup {NoHandle}
    BY <1>1 DEF Handle
  <2>2. QED BY <1>1, <2>1, ExceptSeq
<1>3. \A n \in NotifyIds : (\E i \in 1..k : notifyList[i] = n) => n \in Live
  BY <1>1 DEF Live, Elems
<1>4. /\ HandlesFilled(d, k) =
           [n \in NotifyIds |-> IF \E i \in 1..k : notifyList[i] = n
                                THEN filled(n) ELSE HandlesBeforeAdd[n]]
  BY DEF HandlesFilled
<1> HIDE DEF filled, slot
<1>5. HandlesFilled(d, k) \in [NotifyIds -> Seq(Handle \cup {NoHandle})]
  BY <1>1, <1>2, <1>3, <1>4
<1>6. ASSUME NEW n \in Live
      PROVE  /\ Len(HandlesFilled(d, k)[n]) >= textInExListCount'
             /\ \A i \in DOMAIN textInExList :
                  HandlesFilled(d, k)[n][i] = handles[n][i]
  BY <1>1, <1>2, <1>4
<1>7. ASSUME NEW n \in Live, k = Len(notifyList)
      PROVE  HandlesFilled(d, k)[n][slot] = <<d, n>>
  <2>1. \E i \in 1..k : notifyList[i] = n
    BY <1>1, <1>7 DEF Live, Elems
  <2>2. QED BY <1>1, <1>2, <1>4, <2>1
<1>8. QED BY <1>5, <1>6, <1>7 DEF slot

(* The rounds of StartEx, as one change of the registrations and handles.    *)
LEMMA StartExRounds ==
  ASSUME RegistryInv, NEW d \in Dev, StartEx(d)
  PROVE  /\ handles' = HandlesFilled(d, Len(notifyList))
         /\ regs' = [regs EXCEPT ![d] = @ \cup Live]
<1> DEFINE N == Len(notifyList)
<1>1. /\ regs \in [Dev -> SUBSET NotifyIds] /\ notifyList \in Seq(NotifyIds)
      /\ N \in 0..N /\ N \in Nat /\ DOMAIN notifyList = 1..N
  BY DEF RegistryInv, RegistryTypeOK
<1>2. HandlesBeforeAdd \in [NotifyIds -> Seq(Handle \cup {NoHandle})]
  BY GrowExFacts DEF StartEx
<1>3. DOMAIN HandlesBeforeAdd = NotifyIds /\ HandlesBeforeAdd = [n \in NotifyIds |-> HandlesBeforeAdd[n]]
  BY <1>2
<1>4. DOMAIN AtDevice(d) = 1..N
  BY DEF AtDevice
<1>5. Registered(BeforeAdd, AtDevice(d)) = [regs |-> RegsFilled(d, N), handles |-> HandlesFilled(d, N)]
  <2> HIDE DEF N
  <2> QED BY <1>1, <1>3, <1>4, DeviceRegistered DEF N
<1>6. /\ regs' = Registered(BeforeAdd, AtDevice(d)).regs
      /\ handles' = Registered(BeforeAdd, AtDevice(d)).handles
  BY Zenon DEF StartEx, ExDeviceAdded
<1>7. regs' = RegsFilled(d, N) /\ handles' = HandlesFilled(d, N)
  <2> HIDE DEF N
  <2> QED BY <1>5, <1>6
<1>8. {notifyList[i] : i \in 1..N} = Live
  BY <1>1 DEF Live, Elems
<1> QED BY <1>7, <1>8 DEF RegsFilled

(* The rounds of a Start that fails at one of them, and of walking back.     *)
LEMMA FailedStartRounds ==
  ASSUME RegistryInv, NEW d \in Dev, StartExRegisterFails(d)
  PROVE  \E k \in 0..Len(notifyList) :
           /\ handles' = HandlesFilled(d, k)
           /\ regs' = [regs EXCEPT ![d] = @ \ {notifyList[i] : i \in 1..k}]
<1>1. PICK l \in 1..Len(notifyList) :
        LET done == SubSeq(AtDevice(d), 1, l - 1)
            st   == Registered(BeforeAdd, done)
        IN  regs' = WalkedBack(st, done).regs /\ handles' = st.handles
  BY Zenon DEF StartExRegisterFails
<1> DEFINE k == l - 1
           done == SubSeq(AtDevice(d), 1, k)
           st == Registered(BeforeAdd, done)
<1>2. /\ regs \in [Dev -> SUBSET NotifyIds] /\ notifyList \in Seq(NotifyIds)
      /\ k \in 0..Len(notifyList) /\ Len(notifyList) \in Nat
  BY DEF RegistryInv, RegistryTypeOK
<1>3. regs' = WalkedBack(st, done).regs /\ handles' = st.handles
  BY <1>1, Zenon
<1>4. GrowExLists
  BY DEF StartExRegisterFails
<1>5. /\ HandlesBeforeAdd \in [NotifyIds -> Seq(Handle \cup {NoHandle})]
      /\ Len(textInExList) + 1 <= textInExListCount' /\ textInExListCount' \in Nat
      /\ \A n \in Live : Len(HandlesBeforeAdd[n]) >= textInExListCount'
      /\ Len(textInExList) \in Nat
  BY <1>4, GrowExFacts DEF RegistryInv, RegistryTypeOK
<1>6. DOMAIN HandlesBeforeAdd = NotifyIds /\ HandlesBeforeAdd = [n \in NotifyIds |-> HandlesBeforeAdd[n]]
  BY <1>5
<1>7. \A i \in 1..k : Len(textInExList) + 1 \in DOMAIN HandlesBeforeAdd[notifyList[i]]
  <2> TAKE i \in 1..k
  <2>1. notifyList[i] \in Live /\ notifyList[i] \in NotifyIds
    BY <1>2 DEF Live, Elems
  <2>2. HandlesBeforeAdd[notifyList[i]] \in Seq(Handle \cup {NoHandle})
    BY <1>5, <2>1
  <2>3. Len(HandlesBeforeAdd[notifyList[i]]) >= textInExListCount'
    BY <1>5, <2>1
  <2> QED BY <1>5, <2>2, <2>3
<1>8. AtDevice(d) \in Seq(Range(AtDevice(d))) /\ k \in 0..Len(AtDevice(d))
  BY <1>2 DEF AtDevice, Range
<1> HIDE DEF k
<1>9. /\ DOMAIN done = 1..k /\ \A i \in 1..k : done[i] = AtDevice(d)[i]
      /\ DOMAIN Reverse(done) = 1..k /\ \A i \in 1..k : Reverse(done)[i] = AtDevice(d)[k + 1 - i]
  BY <1>8, FirstRounds, Zenon
<1> HIDE DEF done
<1>10. st = [regs |-> RegsFilled(d, k), handles |-> HandlesFilled(d, k)]
  BY <1>2, <1>6, <1>9, DeviceRegistered
<1> HIDE DEF st
<1>11. Unregistered(st, Reverse(done)).regs = [regs EXCEPT ![d] = @ \ {notifyList[i] : i \in 1..k}]
  <2>1. BackFromDevice(st, d, k, Reverse(done))
    BY <1>7, <1>9, <1>10 DEF BackFromDevice
  <2> QED BY <1>2, <2>1, DeviceWalkedBack
<1>12. handles' = HandlesFilled(d, k)
  BY <1>3, <1>10
<1>13. regs' = [regs EXCEPT ![d] = @ \ {notifyList[i] : i \in 1..k}]
  BY <1>3, <1>11, Zenon DEF WalkedBack
<1> QED BY <1>2, <1>12, <1>13

-----------------------------------------------------------------------------
(* Start                                                                     *)

(* A Start that cannot grow TextInList only leaves the device open.          *)
LEMMA StartNoMemoryInv ==
  ASSUME RegistryInv, NEW d \in Dev, StartNoMemory(d)
  PROVE  RegistryInv'
<1>1. /\ opened' = opened \cup {d}
      /\ UNCHANGED <<textInList, textInListCount, exVars, notifyList, handles,
                     held, regs, keyQueueSize, keyPeak>>
  BY DEF StartNoMemory, notifyVars, queueVars
<1>2. UNCHANGED <<Elems(textInList), Elems(textInExList), Elems(notifyList)>>
  BY <1>1 DEF exVars
<1>3. QED
  BY <1>1, <1>2 DEF RegistryInv, RegistryTypeOK, ListedDevicesAreOpen, NoOverrun,
              RegisteredEverywhere, HandlesAligned, exVars, TextDevs, ExDevs, Live

(* A device is added to TextInList while the Ex half only grows: what is     *)
(* needed of the grown arrays.                                               *)
LEMMA AddedToTextInInv ==
  ASSUME RegistryInv, NEW d \in Dev, TextInAddDevice(d),
         UNCHANGED <<textInExList, shifted, notifyList, held>>,
         textInExListCount' \in Nat, textInExListCount <= textInExListCount',
         keyQueueSize' \in {textInExListCount', textInExListCount' + AllocUnit},
         keyPeak' = keyPeak, keyPeak <= keyQueueSize',
         regs' \in [Dev -> SUBSET NotifyIds],
         \A e \in Dev \ {d} : regs'[e] = regs[e],
         handles' \in [NotifyIds -> Seq(Handle \cup {NoHandle})],
         \A n \in Live : /\ Len(handles'[n]) >= textInExListCount'
                         /\ \A i \in DOMAIN textInExList :
                              handles'[n][i] = handles[n][i]
  PROVE  RegistryInv'
<1>1. UNCHANGED <<Elems(textInExList), Elems(notifyList)>> /\ Live' = Live
  BY DEF Live
<1>2. /\ textInExList \in Seq(Dev) /\ notifyList \in Seq(NotifyIds)
      /\ Len(textInExList) \in Nat
      /\ textInExListCount \in Nat /\ keyPeak \in Nat
      /\ shifted \in SUBSET Dev
      /\ held \in [NotifyIds -> NotifyIds \cup {NoHandle}]
      /\ Len(textInExList) <= textInExListCount
      /\ Distinct(textInExList) /\ Distinct(notifyList)
      /\ Elems(textInExList) \subseteq Elems(textInList) \cap HasEx
  BY DEF RegistryInv, RegistryTypeOK, NoOverrun, ListedDevicesAreOpen, ExDevs,
         TextDevs
<1>3. RegistryTypeOK'
  BY <1>2, TextInAddFacts, AllocAssumption, DevAssumption DEF RegistryTypeOK,
     RegistryInv
<1>4. ListedDevicesAreOpen'
  BY <1>1, <1>2, TextInAddFacts DEF ListedDevicesAreOpen, ExDevs, TextDevs
<1>5. NoOverrun'
  BY <1>1, <1>2, TextInAddFacts DEF NoOverrun
<1>6. RegisteredEverywhere'
  <2>1. d \notin Elems(textInExList) /\ Elems(textInExList) \subseteq Dev
    BY <1>2, TextInAddFacts, DevAssumption
  <2>2. QED BY <1>1, <2>1 DEF RegisteredEverywhere, RegistryInv, ExDevs, Live
<1>7. HandlesAligned'
  BY <1>1 DEF HandlesAligned, RegistryInv, Live
<1>8. QED BY <1>1, <1>2, <1>3, <1>4, <1>5, <1>6, <1>7 DEF RegistryInv

(* A keyboard without SimpleTextInputEx is added to TextInList alone.        *)
LEMMA StartPlainInv ==
  ASSUME RegistryInv, NEW d \in Dev, StartPlain(d)
  PROVE  RegistryInv'
<1>1. /\ TextInAddDevice(d)
      /\ UNCHANGED <<textInExList, textInExListCount, shifted, notifyList,
                     handles, held, regs, keyQueueSize, keyPeak>>
  BY DEF StartPlain, exVars, notifyVars, queueVars
<1>2. /\ textInExListCount \in Nat /\ keyPeak <= keyQueueSize
      /\ keyQueueSize \in {textInExListCount, textInExListCount + AllocUnit}
      /\ regs \in [Dev -> SUBSET NotifyIds]
      /\ handles \in [NotifyIds -> Seq(Handle \cup {NoHandle})]
      /\ \A n \in Live : Len(handles[n]) >= textInExListCount
  BY DEF RegistryInv, RegistryTypeOK, NoOverrun
<1>3. QED BY <1>1, <1>2, AddedToTextInInv

(* A growth of the Ex arrays that fails half way keeps every slot in use.    *)
LEMMA StartExNoMemoryInv ==
  ASSUME RegistryInv, NEW d \in Dev, StartExNoMemory(d)
  PROVE  RegistryInv'
<1>1. /\ TextInAddDevice(d)
      /\ UNCHANGED <<textInExList, textInExListCount, shifted, notifyList,
                     held, regs, keyPeak>>
  BY DEF StartExNoMemory, exVars, notifyVars, queueVars
<1>2. PICK k \in 0..Len(notifyList) :
        /\ handles' = HandlesGrown(k)
        /\ keyQueueSize' \in IF k = Len(notifyList)
                             THEN {keyQueueSize, textInExListCount + AllocUnit}
                             ELSE {keyQueueSize}
  BY DEF StartExNoMemory
<1>3. /\ textInExListCount \in Nat /\ keyPeak \in Nat /\ keyPeak <= keyQueueSize
      /\ keyQueueSize \in {textInExListCount, textInExListCount + AllocUnit}
      /\ regs \in [Dev -> SUBSET NotifyIds]
      /\ Len(textInExList) \in Nat /\ DOMAIN textInExList = 1..Len(textInExList)
      /\ Len(textInExList) <= textInExListCount
  BY DEF RegistryInv, RegistryTypeOK, NoOverrun
<1>4. /\ keyQueueSize' \in {textInExListCount, textInExListCount + AllocUnit}
      /\ keyPeak <= keyQueueSize'
  BY <1>2, <1>3, AllocAssumption
<1>5. /\ handles' \in [NotifyIds -> Seq(Handle \cup {NoHandle})]
      /\ \A n \in Live : /\ Len(handles'[n]) >= textInExListCount
                         /\ \A i \in DOMAIN textInExList :
                              handles'[n][i] = handles[n][i]
  BY <1>2, <1>3, HandlesGrownFacts
<1>6. QED BY <1>1, <1>3, <1>4, <1>5, AddedToTextInInv

(* A registration that fails leaves the device out of TextInExList.          *)
LEMMA StartExRegisterFailsInv ==
  ASSUME RegistryInv, NEW d \in Dev, StartExRegisterFails(d)
  PROVE  RegistryInv'
<1>1. /\ TextInAddDevice(d) /\ GrowExLists
      /\ UNCHANGED <<textInExList, shifted, notifyList, held, keyPeak>>
  BY DEF StartExRegisterFails
<1>2. PICK k \in 0..Len(notifyList) :
        /\ handles' = HandlesFilled(d, k)
        /\ regs' = [regs EXCEPT ![d] = @ \ {notifyList[i] : i \in 1..k}]
  BY FailedStartRounds
<1>3. /\ textInExListCount \in Nat /\ regs \in [Dev -> SUBSET NotifyIds]
  BY DEF RegistryInv, RegistryTypeOK
<1>5. textInExListCount <= textInExListCount'
  BY <1>1, <1>3, AllocAssumption DEF GrowExLists, GrownCount
<1>6. /\ regs' \in [Dev -> SUBSET NotifyIds]
      /\ \A e \in Dev \ {d} : regs'[e] = regs[e]
  BY <1>2, <1>3
<1>7. /\ handles' \in [NotifyIds -> Seq(Handle \cup {NoHandle})]
      /\ \A n \in Live : /\ Len(handles'[n]) >= textInExListCount'
                         /\ \A i \in DOMAIN textInExList :
                              handles'[n][i] = handles[n][i]
  BY <1>1, <1>2, HandlesFilledFacts
<1>8. QED BY <1>1, <1>5, <1>6, <1>7, GrowExFacts, AddedToTextInInv

(* The device that is added takes the slot every handle list has for it.     *)
LEMMA StartExInv ==
  ASSUME RegistryInv, NEW d \in Dev, StartEx(d)
  PROVE  RegistryInv'
<1>1. /\ d \in HasEx /\ TextInAddDevice(d) /\ GrowExLists
      /\ handles' = HandlesFilled(d, Len(notifyList))
      /\ regs' = [regs EXCEPT ![d] = @ \cup Live]
      /\ textInExList' = Append(textInExList, d)
      /\ shifted' = shifted \ {d}
      /\ UNCHANGED <<notifyList, held, keyPeak>>
  BY StartExRounds DEF StartEx, ExDeviceAdded
<1>2. /\ textInExList \in Seq(Dev) /\ notifyList \in Seq(NotifyIds)
      /\ Len(textInExList) \in Nat /\ Len(notifyList) \in Nat
      /\ DOMAIN textInExList = 1..Len(textInExList)
      /\ shifted \in SUBSET Dev /\ keyPeak \in Nat
      /\ regs \in [Dev -> SUBSET NotifyIds] /\ Live \subseteq NotifyIds
      /\ held \in [NotifyIds -> NotifyIds \cup {NoHandle}]
      /\ Distinct(textInExList) /\ Distinct(notifyList)
      /\ Elems(textInExList) \subseteq Elems(textInList) \cap HasEx
      /\ Elems(textInExList) \subseteq Dev
  BY DEF RegistryInv, RegistryTypeOK, ListedDevicesAreOpen, ExDevs, TextDevs,
         Live, Elems
<1>3. Live' = Live /\ Elems(notifyList') = Elems(notifyList)
  BY <1>1 DEF Live
<1>4. /\ d \notin Elems(textInExList)
      /\ textInExList' \in Seq(Dev) /\ Distinct(textInExList')
      /\ Len(textInExList') = Len(textInExList) + 1
      /\ Elems(textInExList') = Elems(textInExList) \cup {d}
  BY <1>1, <1>2, TextInAddFacts, AppendElems
<1>5. /\ handles' \in [NotifyIds -> Seq(Handle \cup {NoHandle})]
      /\ \A n \in Live :
           /\ Len(handles'[n]) >= textInExListCount'
           /\ \A i \in DOMAIN textInExList : handles'[n][i] = handles[n][i]
           /\ handles'[n][Len(textInExList) + 1] = <<d, n>>
  <2>1. Len(notifyList) \in 0..Len(notifyList)
    BY <1>2
  <2>2. QED BY <1>1, <2>1, HandlesFilledFacts
<1>6. /\ regs' \in [Dev -> SUBSET NotifyIds]
      /\ \A e \in Dev : regs[e] \subseteq regs'[e]
      /\ Live \subseteq regs'[d]
  BY <1>1, <1>2
<1>7. RegistryTypeOK'
  <2>1. opened' \in SUBSET Dev
    BY <1>1, TextInAddFacts DEF RegistryInv, RegistryTypeOK
  <2>2. keyQueueSize' \in Nat /\ textInExListCount' \in Nat
    BY <1>1, GrowExFacts, AllocAssumption
  <2>3. textInList' \in Seq(Dev) /\ textInListCount' \in Nat
    BY <1>1, TextInAddFacts
  <2>4. QED
    BY <1>1, <1>2, <1>4, <1>5, <1>6, <2>1, <2>2, <2>3 DEF RegistryTypeOK
<1>8. ListedDevicesAreOpen'
  BY <1>1, <1>2, <1>4, TextInAddFacts DEF ListedDevicesAreOpen, ExDevs, TextDevs
<1>9. NoOverrun'
  BY <1>1, <1>3, <1>4, <1>5, TextInAddFacts, GrowExFacts DEF NoOverrun
<1>10. RegisteredEverywhere'
  BY <1>2, <1>3, <1>4, <1>6 DEF RegistryInv, RegisteredEverywhere, ExDevs
<1>11. HandlesAligned'
  <2>1. SUFFICES ASSUME NEW n \in Live', NEW i \in DOMAIN textInExList',
                        textInExList'[i] \notin shifted'
                 PROVE  handles'[n][i] = <<textInExList'[i], n>>
    BY DEF HandlesAligned
  <2>2. n \in Live
    BY <1>3
  <2>3. CASE i = Len(textInExList) + 1
    BY <1>1, <1>2, <1>5, <2>2, <2>3
  <2>4. CASE i # Len(textInExList) + 1
    <3>1. i \in DOMAIN textInExList /\ textInExList'[i] = textInExList[i]
      BY <1>1, <1>2, <1>4, <2>4
    <3>2. textInExList[i] \notin shifted
      BY <1>1, <1>4, <2>1, <3>1 DEF Elems
    <3>3. QED BY <1>5, <2>2, <3>1, <3>2 DEF RegistryInv, HandlesAligned
  <2>5. QED BY <2>3, <2>4
<1>12. QED
  BY <1>1, <1>2, <1>3, <1>7, <1>8, <1>9, <1>10, <1>11, GrowExFacts
     DEF RegistryInv

-----------------------------------------------------------------------------
(* Stop                                                                      *)

(* Where a listed element is.                                                *)
LEMMA IndexOfFacts ==
  ASSUME NEW S, NEW s \in Seq(S), NEW x \in Elems(s)
  PROVE  IndexOf(s, x) \in 1..Len(s) /\ s[IndexOf(s, x)] = x
<1>1. \E i \in DOMAIN s : s[i] = x
  BY DEF Elems
<1>2. QED BY <1>1 DEF IndexOf

(* The removed device leaves both lists; those after it count as shifted.    *)
LEMMA StopInv ==
  ASSUME RegistryInv, NEW d \in Dev, Stop(d)
  PROVE  RegistryInv'
<1>1. /\ d \in opened /\ (d \in HasEx => d \in Elems(textInExList))
      /\ opened' = opened \ {d}
      /\ textInList' = IF d \in Elems(textInList)
                       THEN Deleted(textInList, IndexOf(textInList, d))
                       ELSE textInList
      /\ UNCHANGED <<textInListCount, notifyList, handles, held, regs,
                     keyQueueSize, keyPeak>>
  BY DEF Stop, notifyVars, queueVars, ExDevs, TextDevs
<1>2. /\ textInExListCount' = textInExListCount
      /\ d \in HasEx => TextInExDeleteDevice(d)
      /\ d \notin HasEx => UNCHANGED exVars
  BY DEF Stop, TextInExDeleteDevice, exVars
<1>3. /\ textInList \in Seq(Dev) /\ textInExList \in Seq(Dev)
      /\ Len(textInList) \in Nat /\ Len(textInExList) \in Nat
      /\ DOMAIN textInExList = 1..Len(textInExList)
      /\ Distinct(textInList) /\ Distinct(textInExList) /\ Distinct(notifyList)
      /\ Len(textInList) <= textInListCount /\ textInListCount \in Nat
      /\ Len(textInExList) <= textInExListCount
      /\ Elems(textInList) \subseteq opened \cap HasTextIn
      /\ Elems(textInExList) \subseteq Elems(textInList) \cap HasEx
  BY DEF RegistryInv, RegistryTypeOK, ListedDevicesAreOpen, NoOverrun, ExDevs,
         TextDevs
<1>4. /\ textInList' \in Seq(Dev) /\ Distinct(textInList')
      /\ Elems(textInList') = Elems(textInList) \ {d}
      /\ Len(textInList') <= textInListCount
  <2>1. CASE d \in Elems(textInList)
    <3>1. IndexOf(textInList, d) \in DOMAIN textInList
          /\ textInList[IndexOf(textInList, d)] = d
      BY <1>3, <2>1, IndexOfFacts
    <3>2. textInList' = Deleted(textInList, IndexOf(textInList, d))
      BY <1>1, <2>1
    <3>3. textInList' \in Seq(Dev) /\ Len(textInList') = Len(textInList) - 1
      BY <1>3, <3>1, <3>2, DeletedIsSeq
    <3>4. /\ Distinct(textInList')
          /\ Elems(textInList') = Elems(textInList) \ {d}
      BY <1>3, <3>1, <3>2, DeletedElems
    <3>5. QED BY <1>3, <3>3, <3>4
  <2>2. CASE d \notin Elems(textInList)
    BY <1>1, <1>3, <2>2
  <2>3. QED BY <2>1, <2>2
<1>5. CASE d \notin HasEx
  <2>1. UNCHANGED <<textInExList, textInExListCount, shifted>>
    BY <1>2, <1>5 DEF exVars
  <2>2. UNCHANGED <<Elems(textInExList), Elems(notifyList)>>
    BY <1>1, <2>1
  <2>3. ListedDevicesAreOpen'
    BY <1>1, <1>3, <1>4, <1>5, <2>1, <2>2
       DEF ListedDevicesAreOpen, ExDevs, TextDevs
  <2>4. QED
    BY <1>1, <1>4, <2>1, <2>2, <2>3
       DEF RegistryInv, RegistryTypeOK, NoOverrun, RegisteredEverywhere,
           HandlesAligned, ExDevs, TextDevs, Live
<1>6. CASE d \in HasEx
  <2> DEFINE at == IndexOf(textInExList, d)
  <2>1. at \in 1..Len(textInExList) /\ textInExList[at] = d
    BY <1>1, <1>3, <1>6, IndexOfFacts
  <2>2. /\ textInExList' = Deleted(textInExList, at)
        /\ shifted' = (shifted \ {d}) \cup
                        {textInExList[j] : j \in at + 1..Len(textInExList)}
    BY <1>2, <1>6 DEF TextInExDeleteDevice
  <2> HIDE DEF at
  <2>3. at \in DOMAIN textInExList
    BY <1>3, <2>1
  <2>4. /\ textInExList' \in Seq(Dev) /\ Len(textInExList') = Len(textInExList) - 1
        /\ \A j \in 1..Len(textInExList) - 1 :
             textInExList'[j] = IF j < at THEN textInExList[j]
                                          ELSE textInExList[j + 1]
        /\ Distinct(textInExList')
        /\ Elems(textInExList') = Elems(textInExList) \ {d}
    BY <1>3, <2>1, <2>2, <2>3, DeletedIsSeq, DeletedElems
  <2>5. Elems(notifyList') = Elems(notifyList) /\ Live' = Live
    BY <1>1 DEF Live
  <2>6. shifted' \in SUBSET Dev
    <3>1. shifted \in SUBSET Dev
      BY DEF RegistryInv, RegistryTypeOK
    <3>2. \A j \in at + 1..Len(textInExList) : textInExList[j] \in Dev
      BY <1>3, <2>1
    <3>3. QED BY <2>2, <3>1, <3>2
  <2>7. RegistryTypeOK'
    BY <1>1, <1>2, <1>4, <2>4, <2>6 DEF RegistryInv, RegistryTypeOK
  <2>8. ListedDevicesAreOpen'
    BY <1>1, <1>3, <1>4, <2>4 DEF ListedDevicesAreOpen, ExDevs, TextDevs
  <2>9. NoOverrun'
    <3>1. Len(textInExList') <= textInExListCount'
      BY <1>2, <1>3, <2>4 DEF RegistryInv, RegistryTypeOK
    <3>2. QED BY <1>1, <1>2, <1>4, <2>5, <3>1 DEF RegistryInv, NoOverrun
  <2>10. RegisteredEverywhere'
    BY <1>1, <2>4, <2>5 DEF RegistryInv, RegisteredEverywhere, ExDevs
  <2>11. HandlesAligned'
    <3>1. SUFFICES ASSUME NEW n \in Live', NEW i \in DOMAIN textInExList',
                          textInExList'[i] \notin shifted'
                   PROVE  handles'[n][i] = <<textInExList'[i], n>>
      BY DEF HandlesAligned
    <3>2. i \in 1..Len(textInExList) - 1
      BY <1>3, <2>4
    <3>3. CASE i < at
      <4>1. i \in DOMAIN textInExList /\ textInExList'[i] = textInExList[i]
        BY <1>3, <2>4, <3>2, <3>3
      <4>2. textInExList[i] # d
        BY <1>3, <2>1, <2>3, <3>3, <4>1 DEF Distinct
      <4>3. textInExList[i] \notin shifted
        BY <2>2, <3>1, <4>1, <4>2
      <4>4. QED BY <1>1, <2>5, <4>1, <4>3 DEF RegistryInv, HandlesAligned
    <3>4. CASE ~(i < at)
      <4>1. textInExList'[i] = textInExList[i + 1]
            /\ i + 1 \in at + 1..Len(textInExList)
        BY <1>3, <2>1, <2>4, <3>2, <3>4
      <4>2. textInExList'[i] \in shifted'
        BY <2>2, <4>1
      <4>3. QED BY <3>1, <4>2
    <3>5. QED BY <3>3, <3>4
  <2>12. QED
    BY <1>1, <1>2, <1>3, <2>7, <2>8, <2>9, <2>10, <2>11 DEF RegistryInv
<1>7. QED BY <1>5, <1>6

-----------------------------------------------------------------------------
(* Register and unregister                                                   *)

(* The notify list and the registrations change, the devices do not.         *)
LEMMA NotifyStepInv ==
  ASSUME RegistryInv,
         UNCHANGED <<consoleVars, exVars, queueVars>>,
         notifyList' \in Seq(NotifyIds), Distinct(notifyList'),
         handles' \in [NotifyIds -> Seq(Handle \cup {NoHandle})],
         held' \in [NotifyIds -> NotifyIds \cup {NoHandle}],
         regs' \in [Dev -> SUBSET NotifyIds],
         \A n \in Live' : /\ Len(handles'[n]) >= textInExListCount
                          /\ \A d \in ExDevs : n \in regs'[d]
                          /\ \A i \in DOMAIN textInExList :
                               textInExList[i] \notin shifted =>
                                 handles'[n][i] = <<textInExList[i], n>>
  PROVE  RegistryInv'
<1>1. /\ UNCHANGED <<opened, textInList, textInListCount, textInExList,
                     textInExListCount, shifted, keyQueueSize, keyPeak>>
      /\ UNCHANGED <<Elems(textInList), Elems(textInExList)>>
  BY DEF consoleVars, exVars, queueVars
<1>2. RegistryTypeOK'
  BY <1>1 DEF RegistryInv, RegistryTypeOK
<1>3. ListedDevicesAreOpen'
  BY <1>1 DEF RegistryInv, ListedDevicesAreOpen, ExDevs, TextDevs
<1>4. NoOverrun'
  BY <1>1 DEF RegistryInv, NoOverrun
<1>5. RegisteredEverywhere' /\ HandlesAligned'
  BY <1>1 DEF RegisteredEverywhere, HandlesAligned, ExDevs
<1>6. QED BY <1>1, <1>2, <1>3, <1>4, <1>5 DEF RegistryInv

(* The invariant, as the two lemmas below use it.                            *)
LEMMA NotifyFacts ==
  ASSUME RegistryInv
  PROVE  /\ notifyList \in Seq(NotifyIds) /\ Distinct(notifyList)
         /\ Len(notifyList) \in Nat /\ DOMAIN notifyList = 1..Len(notifyList)
         /\ Live \subseteq NotifyIds
         /\ handles \in [NotifyIds -> Seq(Handle \cup {NoHandle})]
         /\ held \in [NotifyIds -> NotifyIds \cup {NoHandle}]
         /\ regs \in [Dev -> SUBSET NotifyIds]
         /\ textInExList \in Seq(Dev) /\ Len(textInExList) \in Nat
         /\ DOMAIN textInExList = 1..Len(textInExList)
         /\ textInExListCount \in Nat /\ Len(textInExList) <= textInExListCount
         /\ \A x \in Live : Len(handles[x]) >= textInExListCount
         /\ \A x \in Live : \A d \in ExDevs : x \in regs[d]
         /\ \A x \in Live : \A i \in DOMAIN textInExList :
              textInExList[i] \notin shifted =>
                handles[x][i] = <<textInExList[i], x>>
<1>1. /\ notifyList \in Seq(NotifyIds) /\ textInExList \in Seq(Dev)
      /\ handles \in [NotifyIds -> Seq(Handle \cup {NoHandle})]
      /\ held \in [NotifyIds -> NotifyIds \cup {NoHandle}]
      /\ regs \in [Dev -> SUBSET NotifyIds]
      /\ textInExListCount \in Nat
  BY DEF RegistryInv, RegistryTypeOK
<1>2. Live \subseteq NotifyIds
  BY <1>1 DEF Live, Elems
<1>3. /\ Len(notifyList) \in Nat /\ DOMAIN notifyList = 1..Len(notifyList)
      /\ Len(textInExList) \in Nat /\ DOMAIN textInExList = 1..Len(textInExList)
  BY <1>1
<1>4. /\ Len(textInExList) <= textInExListCount /\ Distinct(notifyList)
      /\ \A x \in Live : Len(handles[x]) >= textInExListCount
  BY DEF RegistryInv, NoOverrun
<1>5. \A x \in Live : \A d \in ExDevs : x \in regs[d]
  BY DEF RegistryInv, RegisteredEverywhere
<1>6. \A x \in Live : \A i \in DOMAIN textInExList :
        textInExList[i] \notin shifted => handles[x][i] = <<textInExList[i], x>>
  BY DEF RegistryInv, HandlesAligned
<1>7. QED BY <1>1, <1>2, <1>3, <1>4, <1>5, <1>6

(* The rounds of registering a new notify on every keyboard.                 *)
LEMMA RegisterNewRounds ==
  ASSUME RegistryInv, NEW n \in NotifyIds, RegisterNew(n)
  PROVE  /\ regs' = [d \in Dev |-> IF d \in ExDevs THEN regs[d] \cup {n} ELSE regs[d]]
         /\ handles' = [handles EXCEPT ![n] =
                          [i \in 1..textInExListCount |->
                             IF i <= Len(textInExList) THEN <<textInExList[i], n>>
                                                       ELSE NoHandle]]
<1> DEFINE N == Len(textInExList)
<1>1. /\ regs \in [Dev -> SUBSET NotifyIds] /\ textInExList \in Seq(Dev)
      /\ DOMAIN handles = NotifyIds /\ textInExListCount \in Nat /\ N <= textInExListCount
      /\ N \in 0..N /\ DOMAIN textInExList = 1..N
  BY NotifyFacts
<1>2. DOMAIN AtKeyboards(n) = 1..N
  BY DEF AtKeyboards
<1>3. Registered(WithNewList(n), AtKeyboards(n)) =
        [regs |-> RegsOver(n, N), handles |-> [handles EXCEPT ![n] = SlotsOver(n, N)]]
  <2> HIDE DEF N
  <2> QED BY <1>1, <1>2, KeyboardsRegistered DEF N
<1>4. /\ regs' = Registered(WithNewList(n), AtKeyboards(n)).regs
      /\ handles' = Registered(WithNewList(n), AtKeyboards(n)).handles
  BY Zenon DEF RegisterNew
<1>5. regs' = RegsOver(n, N) /\ handles' = [handles EXCEPT ![n] = SlotsOver(n, N)]
  <2> HIDE DEF N
  <2> QED BY <1>3, <1>4
<1>6. \A d : d \in ExDevs <=> \E i \in 1..N : textInExList[i] = d
  BY <1>1 DEF ExDevs, Elems
<1>7. RegsOver(n, N) = [d \in Dev |-> IF d \in ExDevs THEN regs[d] \cup {n} ELSE regs[d]]
  <2> HIDE DEF N
  <2> QED BY <1>6 DEF RegsOver
<1> QED BY <1>5, <1>7 DEF SlotsOver

(* The rounds of a Register that fails at one, and of walking back: no       *)
(* keyboard keeps the notify that did not have it before.                    *)
LEMMA FailedRegisterRounds ==
  ASSUME RegistryInv, NEW n \in NotifyIds, RegisterFails(n)
  PROVE  /\ regs' \in [Dev -> SUBSET NotifyIds]
         /\ \A d \in Dev : regs[d] \ {n} \subseteq regs'[d] /\ regs'[d] \subseteq regs[d]
<1>1. PICK l \in DOMAIN textInExList :
        LET done == SubSeq(AtKeyboards(n), 1, l - 1)
        IN  regs' = WalkedBack(Registered(WithNewList(n), done), done).regs
  BY Zenon DEF RegisterFails
<1> DEFINE k == l - 1
           done == SubSeq(AtKeyboards(n), 1, k)
           st == Registered(WithNewList(n), done)
           h == [handles EXCEPT ![n] = SlotsOver(n, k)]
           order == [i \in 1..k |-> k + 1 - i]
           Had(d) == \E i \in 1..k : textInExList[i] = d
<1>2. /\ regs \in [Dev -> SUBSET NotifyIds] /\ textInExList \in Seq(Dev)
      /\ DOMAIN handles = NotifyIds /\ textInExListCount \in Nat /\ Len(textInExList) <= textInExListCount
      /\ k \in 0..Len(textInExList) /\ k \in Nat
  BY NotifyFacts
<1>3. regs' = WalkedBack(st, done).regs
  BY <1>1, Zenon
<1>4. AtKeyboards(n) \in Seq(Range(AtKeyboards(n))) /\ k \in 0..Len(AtKeyboards(n))
  BY <1>2 DEF AtKeyboards, Range
<1> HIDE DEF k
<1>5. /\ DOMAIN done = 1..k /\ \A i \in 1..k : done[i] = AtKeyboards(n)[i]
      /\ DOMAIN Reverse(done) = 1..k /\ \A i \in 1..k : Reverse(done)[i] = AtKeyboards(n)[k + 1 - i]
  BY <1>4, FirstRounds, Zenon
<1> HIDE DEF done
<1>6. st = [regs |-> RegsOver(n, k), handles |-> h]
  BY <1>2, <1>5, KeyboardsRegistered
<1>7. RegsOver(n, k) \in [Dev -> SUBSET NotifyIds]
  BY <1>2 DEF RegsOver
<1>8. /\ order \in [1..k -> 1..k] /\ \A i \in 1..k : \E j \in 1..k : order[j] = i
      /\ \A i \in 1..k : Reverse(done)[i] = AtKeyboards(n)[order[i]]
  <2>1. \A i \in 1..k : k + 1 - i \in 1..k
    BY <1>2
  <2>2. order \in [1..k -> 1..k]
    BY <2>1
  <2>3. ASSUME NEW i \in 1..k PROVE order[k + 1 - i] = i /\ k + 1 - i \in 1..k
    BY <1>2
  <2>4. \A i \in 1..k : Reverse(done)[i] = AtKeyboards(n)[order[i]]
    BY <1>5
  <2> HIDE DEF order
  <2> QED BY <2>2, <2>3, <2>4
<1> HIDE DEF st, h, order
<1>9. Unregistered(st, Reverse(done)).regs =
        [d \in Dev |-> IF \E i \in 1..k : textInExList[i] = d /\ h[n][i] = <<d, n>>
                       THEN RegsOver(n, k)[d] \ {n} ELSE RegsOver(n, k)[d]]
  <2>1. OffKeyboards(RegsOver(n, k), n, k, Reverse(done), order)
    BY <1>5, <1>7, <1>8 DEF OffKeyboards
  <2>2. Unregistered(st, Reverse(done)).regs = TakenOff(RegsOver(n, k), h, n, k)
    BY <1>2, <1>6, <2>1, KeyboardsUnregistered
  <2> QED BY <2>2, Zenon DEF TakenOff
<1>10. \A i \in 1..k : h[n][i] = <<textInExList[i], n>>
  <2>1. h[n] = SlotsOver(n, k)
    BY <1>2 DEF h
  <2>2. \A i \in 1..k : i \in 1..textInExListCount /\ i <= k
    BY <1>2
  <2> QED BY <2>1, <2>2 DEF SlotsOver
<1>11. regs' = Unregistered(st, Reverse(done)).regs
  BY <1>3, Zenon DEF WalkedBack
<1>12. ASSUME NEW d \in Dev
       PROVE  regs'[d] = IF Had(d) THEN (regs[d] \cup {n}) \ {n} ELSE regs[d]
  <2>1. (\E i \in 1..k : textInExList[i] = d /\ h[n][i] = <<d, n>>) <=> Had(d)
    BY <1>10
  <2>2. RegsOver(n, k)[d] = IF Had(d) THEN regs[d] \cup {n} ELSE regs[d]
    BY DEF RegsOver
  <2>3. regs'[d] = IF \E i \in 1..k : textInExList[i] = d /\ h[n][i] = <<d, n>>
                   THEN RegsOver(n, k)[d] \ {n} ELSE RegsOver(n, k)[d]
    BY <1>9, <1>11
  <2> HIDE DEF Had
  <2> QED BY <2>1, <2>2, <2>3
<1>13. regs' = [d \in Dev |-> regs'[d]]
  BY <1>9, <1>11
<1> HIDE DEF Had
<1> QED BY <1>2, <1>12, <1>13

(* The rounds of unregistering a notify that is listed.                      *)
LEMMA UnregisterRounds ==
  ASSUME RegistryInv, NEW n \in NotifyIds, UnregisterKeyNotify(n), held[n] \in Live
  PROVE  LET m     == held[n]
             found == {textInExList[i] : i \in
                         {j \in DOMAIN textInExList :
                            handles[m][j] = <<textInExList[j], m>>}}
         IN  /\ regs' = [d \in Dev |-> IF d \in found THEN regs[d] \ {m} ELSE regs[d]]
             /\ notifyList' = Deleted(notifyList, IndexOf(notifyList, m))
             /\ handles' = [handles EXCEPT ![m] = <<>>]
<1> DEFINE m  == held[n]
           N  == Len(textInExList)
           st == [regs |-> regs, handles |-> handles]
           order == [i \in 1..N |-> i]
           found == {textInExList[i] : i \in
                       {j \in DOMAIN textInExList :
                          handles[m][j] = <<textInExList[j], m>>}}
<1>1. /\ regs \in [Dev -> SUBSET NotifyIds] /\ textInExList \in Seq(Dev)
      /\ m \in NotifyIds /\ N \in 0..N /\ DOMAIN textInExList = 1..N
  BY NotifyFacts
<1>2. /\ regs' = Unregistered(st, AtKeyboards(m)).regs
      /\ notifyList' = Deleted(notifyList, IndexOf(notifyList, m))
      /\ handles' = [handles EXCEPT ![m] = <<>>]
  BY Zenon DEF UnregisterKeyNotify
<1>3. DOMAIN AtKeyboards(m) = 1..N
  BY DEF AtKeyboards
<1>4. /\ order \in [1..N -> 1..N] /\ \A i \in 1..N : \E j \in 1..N : order[j] = i
      /\ \A i \in 1..N : AtKeyboards(m)[i] = AtKeyboards(m)[order[i]]
  OBVIOUS
<1>5. st = [regs |-> regs, handles |-> handles]
  OBVIOUS
<1>6. \A d : d \in found <=> \E i \in 1..N : textInExList[i] = d /\ handles[m][i] = <<d, m>>
  BY <1>1
<1> HIDE DEF m, N, st, order, found
<1>7. Unregistered(st, AtKeyboards(m)).regs =
        [d \in Dev |-> IF \E i \in 1..N : textInExList[i] = d /\ handles[m][i] = <<d, m>>
                       THEN regs[d] \ {m} ELSE regs[d]]
  <2>1. OffKeyboards(regs, m, N, AtKeyboards(m), order)
    BY <1>1, <1>3, <1>4 DEF OffKeyboards
  <2>2. N \in 0..Len(textInExList)
    BY <1>1 DEF N
  <2>3. Unregistered(st, AtKeyboards(m)).regs = TakenOff(regs, handles, m, N)
    BY <1>1, <1>5, <2>1, <2>2, KeyboardsUnregistered
  <2> QED BY <2>3, Zenon DEF TakenOff
<1>8. regs' = [d \in Dev |-> IF d \in found THEN regs[d] \ {m} ELSE regs[d]]
  BY <1>2, <1>6, <1>7
<1> QED BY <1>2, <1>8 DEF m, found

(* A notify is listed only when every listed keyboard has registered it.     *)
LEMMA RegisterInv ==
  ASSUME RegistryInv, NEW n \in NotifyIds, RegisterKeyNotify(n)
  PROVE  RegistryInv'
<1>1. /\ UNCHANGED <<consoleVars, exVars, queueVars>>
      /\ UNCHANGED <<keyQueueSize, keyPeak>>
  BY DEF RegisterKeyNotify, queueVars
<1>2. /\ notifyList \in Seq(NotifyIds) /\ Distinct(notifyList)
      /\ Len(notifyList) \in Nat /\ DOMAIN notifyList = 1..Len(notifyList)
      /\ Live \subseteq NotifyIds
      /\ handles \in [NotifyIds -> Seq(Handle \cup {NoHandle})]
      /\ held \in [NotifyIds -> NotifyIds \cup {NoHandle}]
      /\ regs \in [Dev -> SUBSET NotifyIds]
      /\ textInExList \in Seq(Dev) /\ Len(textInExList) \in Nat
      /\ DOMAIN textInExList = 1..Len(textInExList)
      /\ textInExListCount \in Nat /\ Len(textInExList) <= textInExListCount
      /\ \A x \in Live : Len(handles[x]) >= textInExListCount
      /\ \A x \in Live : \A d \in ExDevs : x \in regs[d]
      /\ \A x \in Live : \A i \in DOMAIN textInExList :
           textInExList[i] \notin shifted =>
             handles[x][i] = <<textInExList[i], x>>
  BY NotifyFacts
<1>3. CASE RegisterKnown(n)
  <2>1. /\ UNCHANGED <<notifyList, handles, regs>>
        /\ held' \in [NotifyIds -> NotifyIds \cup {NoHandle}]
    <3>1. PICK m \in Live : <<m, n>> \in Covered
      BY <1>3 DEF RegisterKnown
    <3> DEFINE first == CHOOSE i \in DOMAIN notifyList :
                          /\ <<notifyList[i], n>> \in Covered
                          /\ \A j \in 1..i - 1 : <<notifyList[j], n>> \notin Covered
    <3>2. /\ UNCHANGED <<notifyList, handles, regs>>
          /\ held' = [held EXCEPT ![n] = notifyList[first]]
      BY <1>3 DEF RegisterKnown
    <3>3. \E i \in DOMAIN notifyList :
            /\ <<notifyList[i], n>> \in Covered
            /\ \A j \in 1..i - 1 : <<notifyList[j], n>> \notin Covered
      <4> DEFINE Hits == {i \in 1..Len(notifyList) :
                            <<notifyList[i], n>> \in Covered}
      <4>1. Hits # {}
        BY <1>2, <3>1 DEF Live, Elems
      <4>2. Hits \subseteq Nat
        BY <1>2
      <4>3. PICK i \in Hits : \A j \in Hits : ~(<<j, i>> \in OpToRel(<, Nat))
        <5> HIDE DEF Hits
        <5> QED BY <4>1, <4>2, NatLessThanWellFounded, WFMin
      <4>4. \A j \in Hits : ~(j < i)
        BY <4>2, <4>3 DEF OpToRel
      <4>5. i \in 1..Len(notifyList) /\ <<notifyList[i], n>> \in Covered
        BY <4>3
      <4>6. ASSUME NEW j \in 1..i - 1, <<notifyList[j], n>> \in Covered
            PROVE  FALSE
        <5>1. j \in 1..Len(notifyList) /\ j < i
          BY <1>2, <4>5
        <5>2. QED BY <4>4, <4>6, <5>1
      <4>7. QED BY <1>2, <4>5, <4>6
    <3>4. first \in DOMAIN notifyList
      BY <3>3
    <3>5. notifyList[first] \in NotifyIds
      BY <1>2, <3>4
    <3>6. QED BY <1>2, <3>2, <3>5
  <2>2. QED BY <1>1, <2>1, RegistryUntouched
<1>4. CASE RegisterNoMemory(n)
  <2>1. UNCHANGED <<notifyList, handles, held, regs>>
    BY <1>4 DEF RegisterNoMemory, notifyVars
  <2>2. QED BY <1>1, <1>2, <2>1, RegistryUntouched
<1>5. n \notin Live \/ RegisterKnown(n) \/ RegisterNoMemory(n)
  BY NotifyAssumption DEF RegisterKeyNotify, RegisterFails, RegisterNew
<1>6. CASE RegisterFails(n)
  <2>1. n \notin Live
    BY <1>6, NotifyAssumption DEF RegisterFails
  <2>2. /\ UNCHANGED <<notifyList, handles, held>>
        /\ regs' \in [Dev -> SUBSET NotifyIds]
        /\ \A d \in Dev : regs[d] \ {n} \subseteq regs'[d]
    BY <1>6, FailedRegisterRounds DEF RegisterFails
  <2>3. Live' = Live /\ Distinct(notifyList')
    BY <1>2, <2>2 DEF Live
  <2>4. ExDevs \subseteq Dev
    BY <1>2 DEF ExDevs, Elems
  <2>5. QED BY <1>1, <1>2, <2>1, <2>2, <2>3, <2>4, NotifyStepInv
<1>7. CASE RegisterNew(n)
  <2>1. n \notin Live
    BY <1>7, NotifyAssumption DEF RegisterNew
  <2>2. /\ notifyList' = Append(notifyList, n)
        /\ held' = [held EXCEPT ![n] = n]
        /\ regs' = [d \in Dev |-> IF d \in ExDevs THEN regs[d] \cup {n} ELSE regs[d]]
        /\ handles' = [handles EXCEPT ![n] =
                         [i \in 1..textInExListCount |->
                            IF i <= Len(textInExList) THEN <<textInExList[i], n>>
                                                      ELSE NoHandle]]
    BY <1>7, RegisterNewRounds DEF RegisterNew
  <2>3. /\ notifyList' \in Seq(NotifyIds) /\ Distinct(notifyList')
        /\ Live' = Live \cup {n}
    BY <1>2, <2>1, <2>2, AppendElems DEF Live
  <2> DEFINE slots == [i \in 1..textInExListCount |->
                         IF i <= Len(textInExList) THEN <<textInExList[i], n>>
                                                   ELSE NoHandle]
  <2>4. /\ slots \in Seq(Handle \cup {NoHandle}) /\ Len(slots) = textInExListCount
        /\ \A i \in DOMAIN textInExList : slots[i] = <<textInExList[i], n>>
    <3>1. \A i \in 1..textInExListCount :
            (IF i <= Len(textInExList) THEN <<textInExList[i], n>> ELSE NoHandle)
              \in Handle \cup {NoHandle}
      BY <1>2 DEF Handle
    <3>2. QED BY <1>2, <3>1
  <2>5. handles' = [handles EXCEPT ![n] = slots]
    BY <2>2
  <2> HIDE DEF slots
  <2>6. /\ handles' \in [NotifyIds -> Seq(Handle \cup {NoHandle})]
        /\ \A m \in Live : handles'[m] = handles[m]
        /\ handles'[n] = slots
    BY <1>2, <2>1, <2>4, <2>5
  <2>7. /\ regs' \in [Dev -> SUBSET NotifyIds]
        /\ \A d \in ExDevs : regs'[d] = regs[d] \cup {n}
    <3>1. ExDevs \subseteq Dev
      BY <1>2 DEF ExDevs, Elems
    <3>2. QED BY <1>2, <2>2, <3>1
  <2>8. held' \in [NotifyIds -> NotifyIds \cup {NoHandle}]
    BY <1>2, <2>2
  <2>9. \A m \in Live' : /\ Len(handles'[m]) >= textInExListCount
                         /\ \A d \in ExDevs : m \in regs'[d]
                         /\ \A i \in DOMAIN textInExList :
                              textInExList[i] \notin shifted =>
                                handles'[m][i] = <<textInExList[i], m>>
    BY <1>2, <2>3, <2>4, <2>6, <2>7
  <2>10. QED BY <1>1, <2>3, <2>6, <2>7, <2>8, <2>9, NotifyStepInv
<1>8. QED BY <1>3, <1>4, <1>6, <1>7 DEF RegisterKeyNotify

(* The notify that is removed takes its handle list with it.                 *)
LEMMA UnregisterInv ==
  ASSUME RegistryInv, NEW n \in NotifyIds, UnregisterKeyNotify(n)
  PROVE  RegistryInv'
<1> DEFINE m == held[n]
<1>1. /\ UNCHANGED <<consoleVars, exVars, queueVars>>
      /\ UNCHANGED <<keyQueueSize, keyPeak>>
  BY DEF UnregisterKeyNotify, queueVars
<1>2. /\ notifyList \in Seq(NotifyIds) /\ Distinct(notifyList)
      /\ Len(notifyList) \in Nat /\ DOMAIN notifyList = 1..Len(notifyList)
      /\ Live \subseteq NotifyIds
      /\ handles \in [NotifyIds -> Seq(Handle \cup {NoHandle})]
      /\ held \in [NotifyIds -> NotifyIds \cup {NoHandle}]
      /\ regs \in [Dev -> SUBSET NotifyIds]
      /\ textInExList \in Seq(Dev) /\ Len(textInExList) \in Nat
      /\ DOMAIN textInExList = 1..Len(textInExList)
      /\ textInExListCount \in Nat /\ Len(textInExList) <= textInExListCount
      /\ \A x \in Live : Len(handles[x]) >= textInExListCount
      /\ \A x \in Live : \A d \in ExDevs : x \in regs[d]
      /\ \A x \in Live : \A i \in DOMAIN textInExList :
           textInExList[i] \notin shifted =>
             handles[x][i] = <<textInExList[i], x>>
  BY NotifyFacts
<1>3. held' = [held EXCEPT ![n] = NoHandle]
  BY DEF UnregisterKeyNotify
<1>4. held' \in [NotifyIds -> NotifyIds \cup {NoHandle}]
  BY <1>2, <1>3
<1>5. CASE m \notin Live
  <2>1. UNCHANGED <<notifyList, handles, regs>>
    BY <1>5 DEF UnregisterKeyNotify
  <2>2. QED BY <1>1, <1>4, <2>1, RegistryUntouched
<1>6. CASE m \in Live
  <2> DEFINE found == {textInExList[i] : i \in
                         {j \in DOMAIN textInExList :
                            handles[m][j] = <<textInExList[j], m>>}}
  <2>1. /\ regs' = [d \in Dev |-> IF d \in found THEN regs[d] \ {m} ELSE regs[d]]
        /\ notifyList' = Deleted(notifyList, IndexOf(notifyList, m))
        /\ handles' = [handles EXCEPT ![m] = <<>>]
    BY <1>6, UnregisterRounds, Zenon
  <2> HIDE DEF found
  <2>2. /\ IndexOf(notifyList, m) \in DOMAIN notifyList
        /\ notifyList[IndexOf(notifyList, m)] = m
    BY <1>2, <1>6, IndexOfFacts DEF Live
  <2>3. /\ notifyList' \in Seq(NotifyIds) /\ Distinct(notifyList')
        /\ Live' = Live \ {m}
    BY <1>2, <2>1, <2>2, DeletedIsSeq, DeletedElems DEF Live
  <2>4. /\ handles' \in [NotifyIds -> Seq(Handle \cup {NoHandle})]
        /\ \A x \in Live' : handles'[x] = handles[x]
    <3>1. <<>> \in Seq(Handle \cup {NoHandle})
      BY EmptySeq
    <3>2. QED BY <1>2, <1>6, <2>1, <2>3, <3>1
  <2>5. /\ regs' \in [Dev -> SUBSET NotifyIds]
        /\ \A d \in Dev : regs[d] \ {m} \subseteq regs'[d]
    BY <1>2, <2>1
  <2>6. ExDevs \subseteq Dev
    BY <1>2 DEF ExDevs, Elems
  <2>7. \A x \in Live' : /\ Len(handles'[x]) >= textInExListCount
                         /\ \A d \in ExDevs : x \in regs'[d]
                         /\ \A i \in DOMAIN textInExList :
                              textInExList[i] \notin shifted =>
                                handles'[x][i] = <<textInExList[i], x>>
    BY <1>2, <2>3, <2>4, <2>5, <2>6
  <2>8. QED BY <1>1, <1>4, <2>3, <2>4, <2>5, <2>7, NotifyStepInv
<1>7. QED BY <1>5, <1>6

-----------------------------------------------------------------------------
(* The remaining actions                                                     *)

(* A round of reads takes at most one key from each keyboard, so it fits.    *)
LEMMA ReadExInv ==
  ASSUME RegistryInv, ReadKeyStrokeEx
  PROVE  RegistryInv'
<1>1. UNCHANGED <<consoleVars, exVars, notifyList, handles, held, regs, keyQueueSize>>
  BY DEF ReadKeyStrokeEx, notifyVars
<1>2. /\ textInExList \in Seq(Dev) /\ Len(textInExList) \in Nat
      /\ DOMAIN textInExList = 1..Len(textInExList)
      /\ keyPeak \in Nat /\ keyPeak <= keyQueueSize /\ keyQueueSize \in Nat
      /\ Len(textInExList) <= keyQueueSize
      /\ held \in [NotifyIds -> NotifyIds \cup {NoHandle}]
  BY AllocAssumption DEF RegistryInv, RegistryTypeOK, NoOverrun
<1>3. keyPeak' \in Nat /\ keyPeak' <= keyQueueSize
  <2>1. CASE ReadExQueued
    BY <1>2, <2>1 DEF ReadExQueued
  <2>2. CASE \E F \in SUBSET Flaky : ReadExDevices(F)
    <3>1. PICK F \in SUBSET Flaky : ReadExDevices(F)
      BY <2>2
    <3> DEFINE answering == {i \in DOMAIN textInExList :
                   textInExList[i] \notin F /\ devKeys[textInExList[i]] # <<>>}
               key(i) == Head(devKeys[textInExList[i]])
               queued == {i \in answering : virtualExported \/ Full(key(i))}
               batch == [k \in 1..Cardinality(queued) |-> key(Nth(queued, k))]
    <3>2. keyPeak' = Len(batch)
      BY <3>1 DEF ReadExDevices
    <3>3. queued \in SUBSET (1..Len(textInExList))
      BY <1>2
    <3> HIDE DEF queued
    <3>4. /\ IsFiniteSet(1..Len(textInExList))
          /\ Cardinality(1..Len(textInExList)) = Len(textInExList)
      <4>1. 1 \in Int /\ Len(textInExList) \in Int
        BY <1>2
      <4>2. /\ IsFiniteSet(1..Len(textInExList))
            /\ Cardinality(1..Len(textInExList)) =
                 IF 1 > Len(textInExList) THEN 0 ELSE Len(textInExList) - 1 + 1
        BY <4>1, FS_Interval
      <4>3. QED BY <1>2, <4>2
    <3>5. Cardinality(queued) \in Nat /\ Cardinality(queued) <= Len(textInExList)
      BY <3>3, <3>4, FS_Subset, FS_CardinalityType
    <3>6. Len(batch) = Cardinality(queued)
      BY <3>5
    <3>7. QED BY <1>2, <3>2, <3>5, <3>6
  <2>3. QED BY <2>1, <2>2 DEF ReadKeyStrokeEx
<1>4. UNCHANGED <<Elems(textInList), Elems(textInExList), Elems(notifyList)>>
  BY <1>1 DEF consoleVars, exVars
<1>5. QED
  BY <1>1, <1>2, <1>3, <1>4 DEF RegistryInv, RegistryTypeOK, ListedDevicesAreOpen,
       NoOverrun, RegisteredEverywhere, HandlesAligned, consoleVars, exVars,
       TextDevs, ExDevs, Live

(* Only a keyboard that is in no list is unplugged.                          *)
LEMMA ReplugInv ==
  ASSUME RegistryInv, NEW d \in Dev, Replug(d)
  PROVE  RegistryInv'
<1>1. /\ d \notin opened
      /\ regs' = [regs EXCEPT ![d] = {}]
      /\ UNCHANGED <<consoleVars, exVars, notifyList, handles, held, keyQueueSize,
                     keyPeak>>
  BY DEF Replug, queueVars
<1>2. UNCHANGED <<Elems(textInList), Elems(textInExList), Elems(notifyList)>>
  BY <1>1 DEF consoleVars, exVars
<1>3. d \notin Elems(textInExList)
  BY <1>1 DEF RegistryInv, ListedDevicesAreOpen, ExDevs, TextDevs
<1>4. RegisteredEverywhere'
  <2>1. regs \in [Dev -> SUBSET NotifyIds]
    BY DEF RegistryInv, RegistryTypeOK
  <2>2. \A e \in Elems(textInExList) : e \in Dev
    BY DevAssumption DEF RegistryInv, ListedDevicesAreOpen, ExDevs
  <2>3. QED
    BY <1>1, <1>2, <1>3, <2>1, <2>2
       DEF RegistryInv, RegisteredEverywhere, ExDevs, Live
<1>5. RegistryTypeOK'
  BY <1>1 DEF RegistryInv, RegistryTypeOK, consoleVars, exVars
<1>6. QED
  BY <1>1, <1>2, <1>4, <1>5 DEF RegistryInv, ListedDevicesAreOpen, NoOverrun,
     HandlesAligned, consoleVars, exVars, TextDevs, ExDevs, Live

(* The actions that leave the registry alone.                                *)
LEMMA QuietInv ==
  ASSUME RegistryInv,
         UNCHANGED <<consoleVars, exVars, notifyVars, keyQueueSize, keyPeak>>
  PROVE  RegistryInv'
<1>1. held' = held /\ UNCHANGED <<notifyList, handles, regs>>
  BY DEF notifyVars
<1>2. held \in [NotifyIds -> NotifyIds \cup {NoHandle}]
  BY DEF RegistryInv, RegistryTypeOK
<1>3. QED BY <1>1, <1>2, RegistryUntouched

(* Every action keeps the invariant.                                         *)
LEMMA RegistryNext == RegistryInv /\ [Next]_vars => RegistryInv'
<1> SUFFICES ASSUME RegistryInv, [Next]_vars PROVE RegistryInv'
  OBVIOUS
<1>1. ASSUME NEW d \in Dev, Start(d) PROVE RegistryInv'
  <2>1. CASE StartRefused(d)
    BY <2>1, QuietInv DEF StartRefused, queueVars
  <2>2. QED
    BY <1>1, <2>1, StartNoMemoryInv, StartPlainInv, StartExNoMemoryInv,
       StartExRegisterFailsInv, StartExInv DEF Start
<1>2. ASSUME NEW d \in Dev, StopNotFound(d) \/ PressKey(d) PROVE RegistryInv'
  BY <1>2, QuietInv DEF StopNotFound, PressKey, queueVars
<1>3. ASSUME NEW d \in Dev, NEW lock \in Locks, PressLock(d, lock)
      PROVE  RegistryInv'
  BY <1>3, QuietInv DEF PressLock, queueVars
<1>4. ASSUME NEW d \in Dev, Stop(d) PROVE RegistryInv'
  BY <1>4, StopInv
<1>5. ASSUME NEW d \in Dev, Replug(d) PROVE RegistryInv'
  BY <1>5, ReplugInv
<1>6. ASSUME NEW n \in NotifyIds, RegisterKeyNotify(n) \/ UnregisterKeyNotify(n)
      PROVE  RegistryInv'
  BY <1>6, RegisterInv, UnregisterInv
<1>7. CASE ReadKeyStroke
  BY <1>7, QuietInv DEF ReadKeyStroke
<1>8. CASE ReadKeyStrokeEx
  BY <1>8, ReadExInv
<1>9. CASE WaitForKey
  BY <1>9, QuietInv DEF WaitForKey, queueVars
<1>10. CASE ResetEither
  BY <1>10, QuietInv DEF ResetEither
<1>11. ASSUME NEW caller \in CallerStates, SetState(caller) PROVE RegistryInv'
  BY <1>11, QuietInv DEF SetState, queueVars
<1>12. CASE UNCHANGED vars
  BY <1>12, QuietInv DEF vars, queueVars
<1>13. QED
  BY <1>1, <1>2, <1>3, <1>4, <1>5, <1>6, <1>7, <1>8, <1>9, <1>10, <1>11, <1>12
     DEF Next

(* The registry invariant holds for every set of keyboards and notifies and  *)
(* every CONSOLE_SPLITTER_ALLOC_UNIT, with allocations and keyboards failing.*)
THEOREM RegistryInvariant == Spec => []RegistryInv
  BY RegistryInit, RegistryNext, PTL DEF Spec

(* Every index the code uses is inside the array it indexes: the device      *)
(* lists, the handle list of every notify and the key queue.                 *)
THEOREM ArraysAreNotOverrun == Spec => []NoOverrun
<1>1. RegistryInv => NoOverrun
  BY DEF RegistryInv
<1>2. QED BY <1>1, RegistryInvariant, PTL

(* No device is listed twice, or listed after it was closed.                 *)
THEOREM ListedAreOpen == Spec => []ListedDevicesAreOpen
<1>1. RegistryInv => ListedDevicesAreOpen
  BY DEF RegistryInv
<1>2. QED BY <1>1, RegistryInvariant, PTL

(* Every listed notify is registered on every listed keyboard.               *)
THEOREM NotifiesAreEverywhere == Spec => []RegisteredEverywhere
<1>1. RegistryInv => RegisteredEverywhere
  BY DEF RegistryInv
<1>2. QED BY <1>1, RegistryInvariant, PTL

-----------------------------------------------------------------------------
(* Unregistering                                                             *)

(* What a step reports tells whose step it is.                               *)
LEMMA StepReports ==
  ASSUME Next
  PROVE  \/ ret'.op = "Start" /\ \E d \in Dev : Start(d)
         \/ ret'.op = "Stop" /\ \E d \in Dev : StopNotFound(d) \/ Stop(d)
         \/ ret'.op = "Type" /\ \E d \in Dev : PressKey(d) \/ \E lock \in Locks : PressLock(d, lock)
         \/ ret'.op = "Replug" /\ \E d \in Dev : Replug(d)
         \/ ret'.op = "Register" /\ \E n \in NotifyIds : RegisterKeyNotify(n)
         \/ ret'.op = "Unregister" /\ \E n \in NotifyIds : UnregisterKeyNotify(n)
         \/ ret'.op = "Read" /\ ReadKeyStroke
         \/ ret'.op = "ReadEx" /\ ReadKeyStrokeEx
         \/ ret'.op = "Wait" /\ WaitForKey
         \/ ret'.op = "Reset" /\ ResetEither
         \/ ret'.op = "SetState" /\ \E caller \in CallerStates : SetState(caller)
<1>0. ASSUME NEW op, NEW arg, NEW ok, Returns(op, arg, ok) PROVE ret'.op = op
  BY <1>0 DEF Returns
<1>1. ASSUME NEW d \in Dev, Start(d) PROVE ret'.op = "Start"
  <2>1. \E ok \in BOOLEAN : Returns("Start", NoHandle, ok)
    BY <1>1 DEF Start, StartRefused, StartNoMemory, StartPlain, StartExNoMemory,
                StartExRegisterFails, StartEx
  <2>2. QED BY <2>1, <1>0
<1>2. ASSUME NEW d \in Dev, StopNotFound(d) \/ Stop(d) PROVE ret'.op = "Stop"
  <2>1. \E ok : Returns("Stop", NoHandle, ok)
    BY <1>2 DEF StopNotFound, Stop
  <2>2. QED BY <2>1, <1>0
<1>3. ASSUME NEW d \in Dev, PressKey(d) PROVE ret'.op = "Type"
  BY <1>3, <1>0 DEF PressKey
<1>4. ASSUME NEW d \in Dev, Replug(d) PROVE ret'.op = "Replug"
  BY <1>4, <1>0 DEF Replug
<1>5. ASSUME NEW d \in Dev, NEW lock \in Locks, PressLock(d, lock) PROVE ret'.op = "Type"
  <2>1. Returns("Type", NoHandle, TRUE)
    BY <1>5 DEF PressLock
  <2>2. QED BY <2>1, <1>0
<1>6. ASSUME NEW n \in NotifyIds, RegisterKeyNotify(n) PROVE ret'.op = "Register"
  <2>1. \E ok \in BOOLEAN : Returns("Register", NoHandle, ok)
    BY <1>6 DEF RegisterKeyNotify, RegisterKnown, RegisterNoMemory,
                RegisterFails, RegisterNew
  <2>2. QED BY <2>1, <1>0
<1>7. ASSUME NEW n \in NotifyIds, UnregisterKeyNotify(n) PROVE ret'.op = "Unregister"
  <2>1. Returns("Unregister", held[n], held[n] \in Live)
    BY <1>7 DEF UnregisterKeyNotify
  <2>2. QED BY <2>1, <1>0
<1>8. ASSUME ReadKeyStroke PROVE ret'.op = "Read"
  <2>1. CASE ReadQueued
    BY <2>1, <1>0 DEF ReadQueued
  <2>2. CASE \E F \in SUBSET Flaky : ReadDevices(F)
    <3>1. \E ok \in BOOLEAN : Returns("Read", NoHandle, ok)
      BY <2>2 DEF ReadDevices
    <3>2. QED BY <3>1, <1>0
  <2>3. QED BY <1>8, <2>1, <2>2 DEF ReadKeyStroke
<1>9. ASSUME ReadKeyStrokeEx PROVE ret'.op = "ReadEx"
  <2>1. CASE ReadExQueued
    BY <2>1, <1>0 DEF ReadExQueued
  <2>2. CASE \E F \in SUBSET Flaky : ReadExDevices(F)
    <3>1. PICK F \in SUBSET Flaky : ReadExDevices(F)
      BY <2>2
    <3>2. \/ Returns("ReadEx", NoHandle, TRUE)
          \/ Returns("ReadEx", NoHandle, FALSE)
      BY <3>1, Zenon DEF ReadExDevices
    <3>3. QED BY <3>2, <1>0
  <2>3. QED BY <1>9, <2>1, <2>2 DEF ReadKeyStrokeEx
<1>10. ASSUME WaitForKey PROVE ret'.op = "Wait"
  <2>1. Returns("Wait", NoHandle, keyEventSignal')
    BY <1>10 DEF WaitForKey
  <2>2. QED BY <2>1, <1>0
<1>11. ASSUME ResetEither PROVE ret'.op = "Reset"
  <2>1. PICK D : ResetDevices(D)
    BY <1>11 DEF ResetEither, Reset, ResetEx
  <2>2. \E ok : Returns("Reset", NoHandle, ok)
    BY <2>1, Zenon DEF ResetDevices
  <2>3. QED BY <2>2, <1>0
<1>12. ASSUME NEW caller \in CallerStates, SetState(caller) PROVE ret'.op = "SetState"
  <2>1. \E ok : Returns("SetState", NoHandle, ok)
    BY <1>12, Zenon DEF SetState
  <2>2. QED BY <2>1, <1>0
<1>13. QED
  BY <1>1, <1>2, <1>3, <1>4, <1>5, <1>6, <1>7, <1>8, <1>9, <1>10, <1>11, <1>12 DEF Next

(* That call finds the handle of every keyboard that was not shifted.        *)
LEMMA UnregisterStep ==
  ASSUME RegistryInv, NEW n \in NotifyIds, UnregisterKeyNotify(n), ret'.ok
  PROVE  \A d \in ExDevs \ shifted : ret'.arg \notin regs'[d]
<1> DEFINE m == held[n]
           found == {textInExList[i] : i \in
                       {j \in DOMAIN textInExList :
                          handles[m][j] = <<textInExList[j], m>>}}
<1>1. ret'.arg = m /\ m \in Live
  BY DEF UnregisterKeyNotify, Returns
<1>2. regs' = [d \in Dev |-> IF d \in found THEN regs[d] \ {m} ELSE regs[d]]
  BY <1>1, UnregisterRounds, Zenon
<1>3. ASSUME NEW d \in ExDevs \ shifted PROVE d \in found
  <2>1. PICK i \in DOMAIN textInExList : textInExList[i] = d
    BY DEF ExDevs, Elems
  <2>2. handles[m][i] = <<d, m>>
    BY <1>1, <2>1 DEF RegistryInv, HandlesAligned
  <2>3. QED BY <2>1, <2>2
<1>4. ExDevs \subseteq Dev
  BY DevAssumption DEF RegistryInv, ListedDevicesAreOpen
<1> HIDE DEF found
<1>5. QED BY <1>1, <1>2, <1>3, <1>4

(* A successful UnregisterKeyNotify leaves nothing on the keyboards that no  *)
(* removal has moved.                                                        *)
THEOREM UnregisterCompletes == Spec => UnregisterIsComplete
<1>1. RegistryInv /\ [Next]_vars =>
        [ret'.op = "Unregister" /\ ret'.ok =>
           \A d \in ExDevs \ shifted : ret'.arg \notin regs'[d]]_vars
  <2> SUFFICES ASSUME RegistryInv, Next, ret'.op = "Unregister", ret'.ok
               PROVE  \A d \in ExDevs \ shifted : ret'.arg \notin regs'[d]
    OBVIOUS
  <2>1. PICK n \in NotifyIds : UnregisterKeyNotify(n)
    BY StepReports
  <2>2. QED BY <2>1, UnregisterStep
<1>2. QED BY <1>1, RegistryInvariant, PTL DEF Spec, UnregisterIsComplete

-----------------------------------------------------------------------------
(* Calls that fail                                                           *)

(* The ways in which Start fails: the only one that touches registrations    *)
(* takes away those it has made.                                             *)
LEMMA FailedStart ==
  ASSUME RegistryInv, NEW d \in Dev, Start(d), ~ret'.ok
  PROVE  /\ \A e \in Dev : regs'[e] \subseteq regs[e]
         /\ notifyList' = notifyList
<1>1. CASE StartRefused(d) \/ StartNoMemory(d) \/ StartPlain(d) \/ StartExNoMemory(d)
  BY <1>1 DEF StartRefused, StartNoMemory, StartPlain, StartExNoMemory, notifyVars
<1>2. CASE StartExRegisterFails(d)
  <2>1. PICK k \in 0..Len(notifyList) :
          regs' = [regs EXCEPT ![d] = @ \ {notifyList[i] : i \in 1..k}]
    BY <1>2, FailedStartRounds
  <2>2. notifyList' = notifyList /\ regs \in [Dev -> SUBSET NotifyIds]
    BY <1>2 DEF StartExRegisterFails, RegistryInv, RegistryTypeOK
  <2> QED BY <2>1, <2>2
<1>3. CASE StartEx(d)
  BY <1>3 DEF StartEx, Returns
<1> QED BY <1>1, <1>2, <1>3 DEF Start

(* And those of RegisterKeyNotify.                                           *)
LEMMA FailedRegister ==
  ASSUME RegistryInv, NEW n \in NotifyIds, RegisterKeyNotify(n), ~ret'.ok
  PROVE  /\ \A e \in Dev : regs'[e] \subseteq regs[e]
         /\ notifyList' = notifyList
<1>1. CASE RegisterKnown(n) \/ RegisterNew(n)
  BY <1>1 DEF RegisterKnown, RegisterNew, Returns
<1>2. CASE RegisterNoMemory(n)
  BY <1>2 DEF RegisterNoMemory, notifyVars
<1>3. CASE RegisterFails(n)
  <2>1. \A e \in Dev : regs'[e] \subseteq regs[e]
    BY <1>3, FailedRegisterRounds
  <2>2. notifyList' = notifyList
    BY <1>3 DEF RegisterFails
  <2> QED BY <2>1, <2>2
<1> QED BY <1>1, <1>2, <1>3 DEF RegisterKeyNotify

(* A Start or RegisterKeyNotify that fails after some of its registrations   *)
(* leaves none that was not there, at whichever step it failed.              *)
THEOREM FailuresAreUndone == Spec => FailedCallLeavesNoTrace
<1>1. RegistryInv /\ [Next]_vars =>
        [ret'.op \in {"Start", "Register"} /\ ~ret'.ok =>
           /\ \A d \in Dev : regs'[d] \subseteq regs[d]
           /\ notifyList' = notifyList]_vars
  <2> SUFFICES ASSUME RegistryInv, Next, ret'.op \in {"Start", "Register"}, ~ret'.ok
               PROVE  /\ \A d \in Dev : regs'[d] \subseteq regs[d]
                      /\ notifyList' = notifyList
    OBVIOUS
  <2>1. \/ \E d \in Dev : Start(d)
        \/ \E n \in NotifyIds : RegisterKeyNotify(n)
    BY StepReports
  <2>2. regs \in [Dev -> SUBSET NotifyIds]
    BY DEF RegistryInv, RegistryTypeOK
  <2> QED BY <2>1, <2>2, FailedStart, FailedRegister
<1> QED BY <1>1, RegistryInvariant, PTL DEF Spec, FailedCallLeavesNoTrace

-----------------------------------------------------------------------------
(* The toggle state                                                          *)

(* ToggleStateSyncKeyNotify is a function of the driver, so that no pair of  *)
(* a client is taken for the pair of ToggleStateSyncInitialization.          *)
ToggleIsOwn == \A n \in NotifyIds : <<ToggleNotify, n>> \in Covered => n = ToggleNotify

(* Nobody holds its handle and it is never unregistered, so that the notify  *)
(* is on every listed keyboard.                                              *)
ToggleStays ==
  /\ ToggleNotify \in Live
  /\ \A n \in NotifyIds : held[n] # ToggleNotify
  /\ held[ToggleNotify] = NoHandle

ToggleInv ==
  /\ RegistryInv /\ ToggleStays
  /\ exposed \in [Dev -> BOOLEAN] /\ toggle \in [Dev -> Locks]
  /\ ToggleInSync

(* Registering gives a client only its own handle or one that covers it, and *)
(* a client gives back what it was given.                                    *)
LEMMA ToggleStaysStep ==
  ASSUME RegistryInv, ToggleIsOwn, ToggleStays, Next
  PROVE  ToggleStays'
<1>1. /\ notifyList \in Seq(NotifyIds) /\ Distinct(notifyList)
      /\ held \in [NotifyIds -> NotifyIds \cup {NoHandle}] /\ ToggleNotify \in NotifyIds
  BY NotifyAssumption DEF RegistryInv, RegistryTypeOK
<1>2. CASE UNCHANGED <<notifyList, held>>
  BY <1>2 DEF ToggleStays, Live
<1>3. ASSUME NEW n \in NotifyIds, RegisterKeyNotify(n) PROVE ToggleStays'
  <2>1. n # ToggleNotify
    BY <1>3 DEF RegisterKeyNotify
  <2>2. CASE RegisterKnown(n)
    <3> DEFINE First(i) == /\ <<notifyList[i], n>> \in Covered
                           /\ \A j \in 1..i - 1 : <<notifyList[j], n>> \notin Covered
               first == CHOOSE i \in DOMAIN notifyList : First(i)
    <3>1. \E i \in DOMAIN notifyList : First(i)
      <4> DEFINE I == {i \in DOMAIN notifyList : <<notifyList[i], n>> \in Covered}
      <4>0. \E m \in Elems(notifyList) : <<m, n>> \in Covered
        BY <2>2 DEF RegisterKnown, Live
      <4>1. I \in SUBSET Nat /\ I # {}
        <5>1. DOMAIN notifyList \in SUBSET Nat
          BY <1>1
        <5> QED BY <4>0, <5>1 DEF Elems
      <4>2. PICK i \in I : \A j \in I : i <= j
        BY <4>1, LeastNumber
      <4>3. ASSUME NEW j \in 1..i - 1 PROVE <<notifyList[j], n>> \notin Covered
        <5>1. j \in DOMAIN notifyList /\ ~(i <= j)
          BY <1>1, <4>2
        <5> QED BY <4>2, <5>1
      <4> QED BY <4>2, <4>3
    <3>2. first \in DOMAIN notifyList /\ <<notifyList[first], n>> \in Covered
      BY <3>1
    <3>3. held' = [held EXCEPT ![n] = notifyList[first]] /\ notifyList' = notifyList
      BY <2>2 DEF RegisterKnown
    <3>4. notifyList[first] # ToggleNotify
      BY <2>1, <3>2 DEF ToggleIsOwn
    <3> HIDE DEF first
    <3> QED BY <1>1, <2>1, <3>3, <3>4 DEF ToggleStays, Live
  <2>3. CASE RegisterNew(n)
    <3>1. held' = [held EXCEPT ![n] = n] /\ notifyList' = Append(notifyList, n)
      BY <2>3 DEF RegisterNew
    <3>2. ToggleNotify \in Elems(notifyList')
      BY <1>1, <3>1, AppendElems DEF ToggleStays, Live
    <3> QED BY <1>1, <2>1, <3>1, <3>2 DEF ToggleStays, Live
  <2>4. CASE RegisterNoMemory(n) \/ RegisterFails(n)
    BY <1>2, <2>4 DEF RegisterNoMemory, RegisterFails, notifyVars
  <2> QED BY <1>3, <2>2, <2>3, <2>4 DEF RegisterKeyNotify
<1>4. ASSUME NEW n \in NotifyIds, UnregisterKeyNotify(n) PROVE ToggleStays'
  <2>1. /\ held[n] # NoHandle /\ held' = [held EXCEPT ![n] = NoHandle]
        /\ \/ held[n] \in Live /\ notifyList' = Deleted(notifyList, IndexOf(notifyList, held[n]))
           \/ notifyList' = notifyList
    BY <1>4 DEF UnregisterKeyNotify
  <2>2. held[n] # ToggleNotify
    BY DEF ToggleStays
  <2>3. ToggleNotify \in Elems(notifyList')
    <3>1. CASE notifyList' = notifyList
      BY <3>1 DEF ToggleStays, Live
    <3>2. CASE held[n] \in Live /\ notifyList' = Deleted(notifyList, IndexOf(notifyList, held[n]))
      <4>1. /\ IndexOf(notifyList, held[n]) \in DOMAIN notifyList
            /\ notifyList[IndexOf(notifyList, held[n])] = held[n]
        BY <3>2 DEF IndexOf, Live, Elems
      <4>2. Elems(notifyList') = Elems(notifyList) \ {held[n]}
        BY <1>1, <3>2, <4>1, DeletedElems
      <4> QED BY <2>2, <4>2 DEF ToggleStays, Live
    <3> QED BY <2>1, <3>1, <3>2
  <2>4. NoHandle # ToggleNotify
    BY <1>1 DEF ToggleStays
  <2> QED BY <1>1, <2>1, <2>3, <2>4 DEF ToggleStays, Live
<1>5. ASSUME NEW d \in Dev, Start(d) PROVE UNCHANGED <<notifyList, held>>
  BY <1>5 DEF Start, StartRefused, StartNoMemory, StartPlain, StartExNoMemory,
              StartExRegisterFails, StartEx, notifyVars
<1>6. ASSUME NEW d \in Dev, StopNotFound(d) \/ Stop(d) \/ PressKey(d) \/ Replug(d)
      PROVE  UNCHANGED <<notifyList, held>>
  BY <1>6 DEF StopNotFound, Stop, PressKey, Replug, notifyVars
<1>7. ASSUME NEW d \in Dev, NEW lock \in Locks, PressLock(d, lock)
      PROVE  UNCHANGED <<notifyList, held>>
  BY <1>7 DEF PressLock, notifyVars
<1>8. ReadKeyStroke \/ ReadKeyStrokeEx \/ WaitForKey \/ ResetEither => UNCHANGED <<notifyList, held>>
  BY DEF ReadKeyStroke, ReadKeyStrokeEx, WaitForKey, ResetEither, notifyVars
<1>9. ASSUME NEW caller \in CallerStates, SetState(caller) PROVE UNCHANGED <<notifyList, held>>
  BY <1>9 DEF SetState, notifyVars
<1> QED BY <1>2, <1>3, <1>4, <1>5, <1>6, <1>7, <1>8, <1>9 DEF Next

(* What a keyboard is given when calls on it succeed.                        *)
LEMMA GivenState ==
  ASSUME NEW D, NEW lock, exposed \in [Dev -> BOOLEAN], toggle \in [Dev -> Locks], lock \in Locks
  PROVE  /\ ToggleAfter(D, lock) \in [Dev -> Locks] /\ ExposedAfter(D) \in [Dev -> BOOLEAN]
         /\ \A d \in Dev : /\ ToggleAfter(D, lock)[d] = IF d \in D THEN lock ELSE toggle[d]
                           /\ ExposedAfter(D)[d] <=> d \in D \/ exposed[d]
  BY DEF ToggleAfter, ExposedAfter

(* Every action leaves the listed keyboards in the recorded state.           *)
LEMMA ToggleStep ==
  ASSUME Flaky = {}, ToggleInv, Next,
         physicalState \in [lock : Locks, valid : BOOLEAN]
  PROVE  /\ exposed' \in [Dev -> BOOLEAN] /\ toggle' \in [Dev -> Locks]
         /\ physicalState' \in [lock : Locks, valid : BOOLEAN]
         /\ ToggleInSync'
<1> DEFINE Goal == /\ exposed' \in [Dev -> BOOLEAN] /\ toggle' \in [Dev -> Locks]
                   /\ physicalState' \in [lock : Locks, valid : BOOLEAN]
                   /\ ToggleInSync'
<1>1. /\ exposed \in [Dev -> BOOLEAN] /\ toggle \in [Dev -> Locks] /\ ToggleInSync
      /\ RegistryInv /\ ToggleStays
  BY DEF ToggleInv
<1>2. /\ ExDevs \subseteq Dev /\ ExDevs \subseteq opened
      /\ textInExList \in Seq(Dev) /\ Distinct(textInExList)
      /\ \A d \in ExDevs : ToggleNotify \in regs[d]
  BY <1>1, DevAssumption DEF RegistryInv, ListedDevicesAreOpen, RegisteredEverywhere, ToggleStays,
                             RegistryTypeOK, ExDevs, TextDevs
<1>3. ASSUME UNCHANGED <<physicalState, toggle, exposed>>, ExDevs' \subseteq ExDevs
      PROVE  Goal
  BY <1>1, <1>3 DEF ToggleInSync
<1>4. ASSUME NEW d \in Dev, Start(d) PROVE Goal
  <2>1. CASE StartRefused(d) \/ StartNoMemory(d) \/ StartPlain(d) \/ StartExNoMemory(d)
    <3>1. UNCHANGED <<physicalState, toggle, exposed>> /\ textInExList' = textInExList
      BY <2>1 DEF StartRefused, StartNoMemory, StartPlain, StartExNoMemory, stateVars, exVars
    <3>2. ExDevs' = ExDevs
      BY <3>1 DEF ExDevs
    <3> QED BY <1>3, <3>1, <3>2
  <2>2. CASE StartExRegisterFails(d)
    BY <2>2 DEF StartExRegisterFails
  <2>3. CASE StartEx(d)
    <3>1. /\ textInExList' = Append(textInExList, d) /\ physicalState' = physicalState
          /\ \E F \in SUBSET Flaky :
               /\ toggle' = ToggleAfter({d} \ Refusing(physicalState, F), physicalState.lock)
               /\ exposed' = ExposedAfter({d} \ Refusing(physicalState, F))
      BY <2>3 DEF StartEx, ExDeviceAdded
    <3>2. /\ toggle' = ToggleAfter({d} \ Refusing(physicalState, {}), physicalState.lock)
          /\ exposed' = ExposedAfter({d} \ Refusing(physicalState, {}))
      BY <3>1
    <3>3. ExDevs' = ExDevs \cup {d}
      BY <1>2, <3>1, AppendElems DEF ExDevs
    <3>4. /\ toggle' \in [Dev -> Locks] /\ exposed' \in [Dev -> BOOLEAN]
          /\ \A e \in Dev :
               /\ toggle'[e] = IF e \in {d} \ Refusing(physicalState, {})
                               THEN physicalState.lock ELSE toggle[e]
               /\ exposed'[e] <=> e \in {d} \ Refusing(physicalState, {}) \/ exposed[e]
      <4> DEFINE D == {d} \ Refusing(physicalState, {})
      <4>1. toggle' = ToggleAfter(D, physicalState.lock) /\ exposed' = ExposedAfter(D)
        BY <3>2
      <4>2. physicalState.lock \in Locks
        OBVIOUS
      <4> HIDE DEF D
      <4>3. /\ toggle' \in [Dev -> Locks] /\ exposed' \in [Dev -> BOOLEAN]
            /\ \A e \in Dev : /\ toggle'[e] = IF e \in D THEN physicalState.lock ELSE toggle[e]
                              /\ exposed'[e] <=> e \in D \/ exposed[e]
        BY <1>1, <4>1, <4>2, GivenState
      <4> QED BY <4>3 DEF D
    <3>5. ASSUME physicalState.valid, NEW e \in ExDevs'
          PROVE  toggle'[e] = physicalState.lock /\ exposed'[e]
      <4>1. Refusing(physicalState, {}) = {}
        BY <3>5 DEF Refusing
      <4>2. e \in Dev /\ (e = d \/ e \in ExDevs)
        BY <1>2, <3>3
      <4> QED BY <1>1, <3>4, <3>5, <4>1, <4>2 DEF ToggleInSync
    <3> QED BY <3>1, <3>4, <3>5 DEF ToggleInSync
  <2> QED BY <1>4, <2>1, <2>2, <2>3 DEF Start
<1>5. ASSUME NEW d \in Dev, Stop(d) PROVE Goal
  <2>1. UNCHANGED <<physicalState, toggle, exposed>>
    BY <1>5 DEF Stop, stateVars
  <2>2. ExDevs' \subseteq ExDevs
    <3>1. CASE textInExList' = textInExList
      BY <3>1 DEF ExDevs
    <3>2. CASE d \in ExDevs /\ textInExList' = Deleted(textInExList, IndexOf(textInExList, d))
      <4>1. IndexOf(textInExList, d) \in DOMAIN textInExList
        BY <3>2 DEF IndexOf, ExDevs, Elems
      <4> QED BY <1>2, <3>2, <4>1, DeletedElems DEF ExDevs
    <3> QED BY <1>5, <3>1, <3>2 DEF Stop, TextInExDeleteDevice, exVars
  <2> QED BY <1>3, <2>1, <2>2
<1>6. ASSUME UNCHANGED <<physicalState, toggle, exposed, textInExList>> PROVE Goal
  <2>1. ExDevs' = ExDevs
    BY <1>6 DEF ExDevs
  <2> QED BY <1>3, <1>6, <2>1
<1>7. ASSUME NEW d \in Dev, StopNotFound(d) \/ PressKey(d) PROVE Goal
  BY <1>6, <1>7 DEF StopNotFound, PressKey, stateVars, exVars
<1>8. ASSUME NEW n \in NotifyIds, RegisterKeyNotify(n) \/ UnregisterKeyNotify(n) PROVE Goal
  BY <1>6, <1>8 DEF RegisterKeyNotify, UnregisterKeyNotify, stateVars, exVars
<1>9. ReadKeyStroke \/ ReadKeyStrokeEx \/ WaitForKey => Goal
  BY <1>6 DEF ReadKeyStroke, ReadKeyStrokeEx, WaitForKey, stateVars, exVars
<1>10. ASSUME NEW d \in Dev, Replug(d) PROVE Goal
  <2>1. /\ d \notin ExDevs /\ UNCHANGED <<physicalState, textInExList>>
        /\ toggle' = ToggleAfter({d}, NoLock) /\ exposed' = [exposed EXCEPT ![d] = FALSE]
    BY <1>2, <1>10 DEF Replug, exVars
  <2>2. /\ toggle' \in [Dev -> Locks]
        /\ \A e \in Dev : toggle'[e] = IF e \in {d} THEN NoLock ELSE toggle[e]
    BY <1>1, <2>1, LockAssumption, GivenState
  <2>3. /\ exposed' \in [Dev -> BOOLEAN]
        /\ \A e \in Dev : e # d => exposed'[e] = exposed[e]
    BY <1>1, <2>1
  <2>4. ExDevs' = ExDevs
    BY <2>1 DEF ExDevs
  <2>5. \A e \in ExDevs : toggle'[e] = toggle[e] /\ exposed'[e] = exposed[e]
    BY <1>2, <2>1, <2>2, <2>3
  <2> QED BY <1>1, <2>1, <2>2, <2>3, <2>4, <2>5 DEF ToggleInSync
<1>11. ASSUME NEW d \in Dev, NEW lock \in Locks, PressLock(d, lock) PROVE Goal
  <2> DEFINE state == [lock |-> lock, valid |-> TRUE]
  <2>1. textInExList' = textInExList /\ ExDevs' = ExDevs
    BY <1>11 DEF PressLock, exVars, ExDevs
  <2>2. CASE exposed[d] /\ ToggleNotify \in regs[d] /\ state # physicalState
    <3>1. /\ \E F \in SUBSET Flaky : /\ toggle' = ToggleAfter({d} \cup (ExDevs \ F), lock)
                                     /\ exposed' = ExposedAfter(ExDevs \ F)
          /\ physicalState' = state
      BY <1>11, <2>2 DEF PressLock
    <3>2. /\ toggle' = ToggleAfter({d} \cup (ExDevs \ {}), lock)
          /\ exposed' = ExposedAfter(ExDevs \ {})
      BY <3>1
    <3>3. /\ toggle' \in [Dev -> Locks] /\ exposed' \in [Dev -> BOOLEAN]
          /\ \A e \in ExDevs : toggle'[e] = lock /\ exposed'[e]
      <4> DEFINE D == {d} \cup (ExDevs \ {})
                 E == ExDevs \ {}
      <4>1. /\ toggle' = ToggleAfter(D, lock) /\ exposed' = ExposedAfter(E)
            /\ \A e \in ExDevs : e \in Dev /\ e \in D /\ e \in E
        BY <1>2, <3>2
      <4> HIDE DEF D, E
      <4>2. toggle' \in [Dev -> Locks] /\ \A e \in ExDevs : toggle'[e] = lock
        BY <1>1, <4>1, GivenState
      <4>3. exposed' \in [Dev -> BOOLEAN] /\ \A e \in ExDevs : exposed'[e]
        BY <1>1, <4>1, GivenState
      <4> QED BY <4>2, <4>3
    <3>4. physicalState' \in [lock : Locks, valid : BOOLEAN] /\ physicalState'.lock = lock
      BY <3>1
    <3> QED BY <2>1, <3>3, <3>4 DEF ToggleInSync
  <2>3. CASE ~(exposed[d] /\ ToggleNotify \in regs[d] /\ state # physicalState)
    <3>1. toggle' = ToggleAfter({d}, lock) /\ UNCHANGED <<exposed, physicalState>>
      BY <1>11, <2>3 DEF PressLock
    <3>2. /\ toggle' \in [Dev -> Locks]
          /\ \A e \in Dev : toggle'[e] = IF e \in {d} THEN lock ELSE toggle[e]
      BY <1>1, <3>1, GivenState
    <3>3. ASSUME physicalState.valid, NEW e \in ExDevs
          PROVE  toggle'[e] = physicalState.lock /\ exposed[e]
      <4>1. toggle[e] = physicalState.lock /\ exposed[e]
        BY <1>1, <3>3 DEF ToggleInSync
      <4>2. CASE e = d
        <5>1. state = physicalState
          BY <1>2, <2>3, <4>1, <4>2
        <5>2. physicalState.lock = lock
          BY <5>1
        <5> QED BY <1>2, <3>2, <4>1, <4>2, <5>2
      <4>3. CASE e # d
        BY <1>2, <3>2, <4>1, <4>3
      <4> QED BY <4>2, <4>3
    <3> QED BY <1>1, <2>1, <3>1, <3>2, <3>3 DEF ToggleInSync
  <2> QED BY <2>2, <2>3
<1>12. ASSUME ResetEither PROVE Goal
  <2>1. PICK D : ResetDevices(D)
    BY <1>12 DEF ResetEither, Reset, ResetEx
  <2>2. textInExList' = textInExList /\ ExDevs' = ExDevs
    BY <1>12 DEF ResetEither, exVars, ExDevs
  <2>3. /\ physicalState' = [lock |-> NoLock, valid |-> TRUE]
        /\ toggle' = ToggleAfter((D \ {}) \cup (ExDevs \ {}), NoLock)
        /\ exposed' = [d \in Dev |-> \/ d \in ExDevs \ {}
                                     \/ exposed[d] /\ d \notin D \ {}]
    <3> DEFINE Does(done, told, ok) ==
          /\ keyEventSignal' = FALSE
          /\ devKeys' = [d \in Dev |-> IF d \in done THEN <<>> ELSE devKeys[d]]
          /\ IF ~ok
             THEN /\ toggle' = ToggleAfter(done, NoLock)
                  /\ exposed' = [d \in Dev |-> exposed[d] /\ d \notin done]
                  /\ UNCHANGED <<physicalState, virtualExported, keyQueue>>
             ELSE /\ physicalState' = [lock |-> NoLock, valid |-> TRUE]
                  /\ virtualExported' = FALSE
                  /\ toggle' = ToggleAfter(done \cup told, NoLock)
                  /\ exposed' = [d \in Dev |-> \/ d \in told
                                               \/ exposed[d] /\ d \notin done]
                  /\ keyQueue' = <<>>
          /\ Returns("Reset", NoHandle, ok)
    <3>1. PICK F \in SUBSET Flaky, G \in SUBSET Flaky : Does(D \ F, ExDevs \ G, D \cap F = {})
      BY <2>1 DEF ResetDevices
    <3>2. F = {} /\ G = {} /\ D \cap F = {}
      OBVIOUS
    <3>3. Does(D \ {}, ExDevs \ {}, TRUE)
      BY <3>1, <3>2
    <3> QED BY <3>3
  <2>4. /\ toggle' \in [Dev -> Locks] /\ \A e \in ExDevs : toggle'[e] = NoLock
    BY <1>1, <1>2, <2>3, LockAssumption, GivenState
  <2>5. exposed' \in [Dev -> BOOLEAN] /\ \A e \in ExDevs : exposed'[e]
    BY <1>1, <1>2, <2>3
  <2>6. physicalState' \in [lock : Locks, valid : BOOLEAN] /\ physicalState'.lock = NoLock
    BY <2>3, LockAssumption
  <2> QED BY <2>2, <2>4, <2>5, <2>6 DEF ToggleInSync
<1>13. ASSUME NEW caller \in CallerStates, SetState(caller) PROVE Goal
  <2> DEFINE refusing(F) == {i \in DOMAIN textInExList : textInExList[i] \in Refusing(caller, F)}
             told(F) == {textInExList[i] : i \in
                           {j \in DOMAIN textInExList : \A r \in refusing(F) : j < r}}
  <2>1. textInExList' = textInExList /\ ExDevs' = ExDevs
    BY <1>13 DEF SetState, exVars, ExDevs
  <2>2. PICK F \in SUBSET Flaky :
          /\ toggle' = ToggleAfter(told(F), caller.lock) /\ exposed' = ExposedAfter(told(F))
          /\ IF refusing(F) = {}
             THEN physicalState' = [lock |-> caller.lock, valid |-> caller.valid]
             ELSE physicalState' = physicalState
    BY <1>13 DEF SetState
  <2>3. F = {} /\ caller \in [lock : Locks, valid : BOOLEAN, exposed : BOOLEAN]
    BY LockAssumption
  <2>4. caller.lock \in Locks /\ caller.valid \in BOOLEAN
    BY <2>3
  <2>5. /\ toggle' \in [Dev -> Locks] /\ exposed' \in [Dev -> BOOLEAN]
        /\ \A e \in Dev : /\ toggle'[e] = IF e \in told(F) THEN caller.lock ELSE toggle[e]
                          /\ exposed'[e] <=> e \in told(F) \/ exposed[e]
    <3> HIDE DEF told, refusing
    <3> QED BY <1>1, <2>2, <2>4, GivenState
  <2>6. CASE caller.valid
    <3>1. refusing(F) = {}
      BY <2>3, <2>6 DEF Refusing
    <3>2. told(F) = ExDevs
      BY <3>1 DEF ExDevs, Elems
    <3>3. physicalState' = [lock |-> caller.lock, valid |-> caller.valid]
      BY <2>2, <3>1
    <3>4. physicalState' \in [lock : Locks, valid : BOOLEAN] /\ physicalState'.lock = caller.lock
      BY <2>4, <3>3
    <3> HIDE DEF told, refusing
    <3>5. \A e \in ExDevs : toggle'[e] = caller.lock /\ exposed'[e]
      BY <1>2, <2>5, <3>2
    <3> QED BY <2>1, <2>5, <3>4, <3>5 DEF ToggleInSync
  <2>7. CASE ~caller.valid
    <3>1. refusing(F) = DOMAIN textInExList
      <4>1. \A i \in DOMAIN textInExList : textInExList[i] \in Dev
        BY <1>2
      <4>2. Refusing(caller, F) = Dev
        BY <2>7 DEF Refusing
      <4> QED BY <4>1, <4>2
    <3>2. told(F) = {}
      <4>1. \A j \in DOMAIN textInExList : ~(j < j)
        BY <1>2
      <4> QED BY <3>1, <4>1
    <3> HIDE DEF told
    <3>3. CASE DOMAIN textInExList = {}
      <4>1. physicalState' = [lock |-> caller.lock, valid |-> caller.valid]
        BY <2>2, <3>1, <3>3
      <4>2. physicalState' \in [lock : Locks, valid : BOOLEAN] /\ ~physicalState'.valid
        BY <2>4, <2>7, <4>1
      <4> QED BY <2>5, <4>2 DEF ToggleInSync
    <3>4. CASE DOMAIN textInExList # {}
      <4>1. physicalState' = physicalState
        BY <2>2, <3>1, <3>4
      <4> HIDE DEF refusing
      <4>2. \A e \in ExDevs : toggle'[e] = toggle[e] /\ (exposed'[e] <=> exposed[e])
        BY <1>2, <2>5, <3>2
      <4> QED BY <1>1, <2>1, <2>5, <4>1, <4>2 DEF ToggleInSync
    <3> QED BY <3>3, <3>4
  <2> QED BY <2>4, <2>6, <2>7
<1> QED BY <1>4, <1>5, <1>7, <1>8, <1>9, <1>10, <1>11, <1>12, <1>13 DEF Next

(* While calls on keyboards succeed, the listed keyboards have the recorded  *)
(* lock state and report partial keystrokes, for any keyboards and notifies: *)
(* a keyboard that joins is told, a lock key tells the others through the    *)
(* notify, and Reset and SetState tell all.                                  *)
THEOREM TogglesFollow ==
  ASSUME Flaky = {}, ToggleIsOwn
  PROVE  Spec => []ToggleInSync
<1> DEFINE Inv == ToggleInv /\ physicalState \in [lock : Locks, valid : BOOLEAN]
<1>1. Init => Inv
  <2> SUFFICES ASSUME Init PROVE Inv
    OBVIOUS
  <2>1. RegistryInv
    BY RegistryInit
  <2>2. /\ exposed \in [Dev -> BOOLEAN] /\ toggle \in [Dev -> Locks]
        /\ physicalState \in [lock : Locks, valid : BOOLEAN]
    BY LockAssumption DEF Init, InitState
  <2>3. ExDevs = {}
    BY EmptyElems DEF Init, InitRegistry, ExDevs
  <2>4. /\ notifyList = <<ToggleNotify>> /\ held = [n \in NotifyIds |-> NoHandle]
    BY DEF Init, InitRegistry
  <2>5. ToggleNotify \in Live
    BY <2>4, NotifyAssumption, SingletonElems DEF Live
  <2>6. ToggleStays
    <3>1. NoHandle # ToggleNotify
      BY HandleAssumption, NotifyAssumption
    <3> QED BY <2>4, <2>5, <3>1, NotifyAssumption DEF ToggleStays
  <2> QED BY <2>1, <2>2, <2>3, <2>6 DEF ToggleInv, ToggleInSync
<1>2. Inv /\ [Next]_vars => Inv'
  <2> SUFFICES ASSUME Inv, [Next]_vars PROVE Inv'
    OBVIOUS
  <2>1. CASE Next
    <3>1. RegistryInv'
      BY <2>1, RegistryNext DEF ToggleInv
    <3> QED BY <2>1, <3>1, ToggleStep, ToggleStaysStep DEF ToggleInv
  <2>2. CASE UNCHANGED vars
    <3>1. RegistryInv'
      BY RegistryNext DEF ToggleInv
    <3>2. UNCHANGED <<notifyList, held, exposed, toggle, physicalState, textInExList>>
      BY <2>2 DEF vars, notifyVars, stateVars, exVars
    <3> QED BY <3>1, <3>2 DEF ToggleInv, ToggleStays, ToggleInSync, Live, ExDevs
  <2> QED BY <2>1, <2>2
<1>3. Inv => ToggleInSync
  BY DEF ToggleInv
<1> HIDE DEF Inv
<1> QED BY <1>1, <1>2, <1>3, PTL DEF Spec

-----------------------------------------------------------------------------
(* Keystrokes                                                                *)

(* A list in which the keystrokes of each keyboard are in their order.       *)
Ascending(s) ==
  \A i, j \in DOMAIN s : i < j /\ s[i].dev = s[j].dev => s[i].num < s[j].num

(* What waits is newer than what was returned; of one keyboard, what the     *)
(* queue holds is older than what the keyboard still holds.                  *)
KeysInv ==
  /\ keyQueue \in Seq(Key) /\ devKeys \in [Dev -> Seq(Key)]
  /\ typed \in [Dev -> 0..MaxKeys] /\ got \in [Dev -> 0..MaxKeys]
  /\ \A d \in Dev : got[d] <= typed[d]
  /\ \A k \in Elems(keyQueue) : got[k.dev] < k.num /\ k.num <= typed[k.dev]
  /\ \A d \in Dev : \A k \in Elems(devKeys[d]) :
       k.dev = d /\ got[d] < k.num /\ k.num <= typed[d]
  /\ \A k \in Elems(keyQueue) : \A l \in Elems(devKeys[k.dev]) : k.num < l.num
  /\ Ascending(keyQueue) /\ \A d \in Dev : Ascending(devKeys[d])

Waiting == (UNION {Elems(devKeys[d]) : d \in Dev}) \cup Elems(keyQueue)

OrderStep ==
  /\ \A d \in Dev : got'[d] >= got[d]
  /\ ret'.op \in {"Read", "ReadEx"} /\ ret'.ok => got' # got

KeptStep ==
  \A k \in Waiting :
    Full(k) => \/ k \in Waiting'
               \/ k.num = got'[k.dev]
               \/ ret'.op \in {"Reset", "Replug"}

(* A search from the front finds the first that is wanted, or ends.          *)
LEMMA SearchEnds ==
  ASSUME NEW n \in Nat, NEW G
  PROVE  \E i \in 1..n + 1 : (i <= n => i \in G) /\ \A j \in 1..i - 1 : j \notin G
<1> DEFINE T == {i \in 1..n + 1 : i <= n => i \in G}
<1>1. T \in SUBSET Nat /\ n + 1 \in T
  OBVIOUS
<1>2. PICK i \in T : \A j \in T : i <= j
  BY <1>1, LeastNumber
<1>3. ASSUME NEW j \in 1..i - 1 PROVE j \notin G
  <2>1. j \in 1..n /\ ~(i <= j)
    BY <1>2
  <2> QED BY <1>2, <2>1
<1> QED BY <1>2, <1>3

LEMMA FirstFullFound ==
  ASSUME NEW s \in Seq(Key)
  PROVE  /\ FirstFull(s) \in 1..Len(s) + 1
         /\ FirstFull(s) <= Len(s) => Full(s[FirstFull(s)])
         /\ \A j \in 1..FirstFull(s) - 1 : ~Full(s[j])
<1> DEFINE G == {i \in 1..Len(s) : Full(s[i])}
           First(i) == (i <= Len(s) => Full(s[i])) /\ \A j \in 1..i - 1 : ~Full(s[j])
<1>1. Len(s) \in Nat
  OBVIOUS
<1>2. PICK i \in 1..Len(s) + 1 : (i <= Len(s) => i \in G) /\ \A j \in 1..i - 1 : j \notin G
  <2> HIDE DEF G
  <2> QED BY <1>1, SearchEnds
<1>3. ASSUME NEW j \in 1..i - 1 PROVE ~Full(s[j])
  <2>1. j \in 1..Len(s)
    BY <1>1
  <2> QED BY <1>2, <2>1
<1>4. First(i)
  BY <1>2, <1>3
<1>5. FirstFull(s) = CHOOSE f \in 1..Len(s) + 1 : First(f)
  BY DEF FirstFull
<1>6. FirstFull(s) \in 1..Len(s) + 1 /\ First(FirstFull(s))
  BY <1>4, <1>5
<1> QED BY <1>6

(* The keystrokes t are those of s behind the first n.                       *)
IsBehind(s, n, t) ==
  /\ t \in Seq(Key) /\ Ascending(t) /\ Elems(t) \subseteq Elems(s)
  /\ \A k \in Elems(s) : k \in Elems(t) \/ \E j \in 1..n : k = s[j]
  /\ \A k \in Elems(t), j \in 1..n : k.dev = s[j].dev => s[j].num < k.num

LEMMA Behind ==
  ASSUME NEW s \in Seq(Key), NEW n \in 0..Len(s), Ascending(s),
         NEW t, t = SubSeq(s, n + 1, Len(s))
  PROVE  IsBehind(s, n, t)
<1>1. /\ t \in Seq(Key) /\ Len(s) \in Nat /\ Len(t) = Len(s) - n
      /\ \A j \in 1..Len(s) - n : t[j] = s[n + j]
  OBVIOUS
<1>2. DOMAIN t = 1..Len(s) - n /\ DOMAIN s = 1..Len(s)
  BY <1>1
<1>3. ASSUME NEW j \in 1..Len(s) - n PROVE n + j \in 1..Len(s) /\ t[j] = s[n + j]
  BY <1>1
<1>4. Ascending(t)
  <2> SUFFICES ASSUME NEW i \in 1..Len(s) - n, NEW j \in 1..Len(s) - n, i < j,
                      t[i].dev = t[j].dev
               PROVE  t[i].num < t[j].num
    BY <1>2 DEF Ascending
  <2>1. n + i \in DOMAIN s /\ n + j \in DOMAIN s /\ n + i < n + j
    BY <1>2, <1>3
  <2> QED BY <1>3, <2>1 DEF Ascending
<1>5. Elems(t) \subseteq Elems(s)
  BY <1>2, <1>3 DEF Elems
<1>6. ASSUME NEW k \in Elems(s) PROVE k \in Elems(t) \/ \E j \in 1..n : k = s[j]
  <2>1. PICK j \in 1..Len(s) : k = s[j]
    BY <1>2 DEF Elems
  <2>2. CASE j <= n
    BY <2>1, <2>2
  <2>3. CASE n < j
    <3>1. j - n \in 1..Len(s) - n /\ n + (j - n) = j
      BY <1>1, <2>3
    <3> QED BY <1>2, <1>3, <2>1, <3>1 DEF Elems
  <2> QED BY <1>1, <2>2, <2>3
<1>7. ASSUME NEW k \in Elems(t), NEW j \in 1..n, k.dev = s[j].dev PROVE s[j].num < k.num
  <2>1. PICK i \in 1..Len(s) - n : k = t[i]
    BY <1>2 DEF Elems
  <2>2. n + i \in DOMAIN s /\ t[i] = s[n + i]
    BY <1>2, <1>3
  <2>3. n \in Nat /\ n <= Len(s) /\ i \in Nat /\ i >= 1 /\ j \in Nat /\ 1 <= j /\ j <= n
    BY <1>1
  <2>4. j \in DOMAIN s /\ j < n + i
    <3>1. j \in 1..Len(s)
      BY <1>1, <2>3
    <3>2. j < n + i
      BY <2>3
    <3> QED BY <1>2, <3>1, <3>2
  <2> DEFINE m == n + i
  <2>5. k = s[m]
    BY <2>1, <2>2
  <2>6. s[j].dev = s[m].dev
    BY <1>7, <2>5
  <2>7. j \in DOMAIN s /\ m \in DOMAIN s /\ j < m
    BY <2>2, <2>4
  <2> HIDE DEF m
  <2> QED BY <2>5, <2>6, <2>7 DEF Ascending
<1> QED BY <1>1, <1>4, <1>5, <1>6, <1>7 DEF IsBehind

LEMMA NoneBehind == <<>> \in Seq(Key) /\ Ascending(<<>>) /\ Elems(<<>>) = {}
<1>1. DOMAIN <<>> = {}
  BY SMT
<1> QED BY <1>1, EmptySeq, EmptyElems DEF Ascending

(* Some of the keystrokes go, and nothing is returned.                       *)
LEMMA KeysThinned ==
  ASSUME KeysInv, UNCHANGED <<typed, got>>,
         keyQueue' \in Seq(Key), Ascending(keyQueue'), Elems(keyQueue') \subseteq Elems(keyQueue),
         devKeys' \in [Dev -> Seq(Key)],
         \A d \in Dev : Ascending(devKeys'[d]) /\ Elems(devKeys'[d]) \subseteq Elems(devKeys[d])
  PROVE  KeysInv'
<1>1. \A k \in Elems(keyQueue) : k.dev \in Dev
  <2>1. \A k \in Key : k.dev \in Dev
    BY DEF Key
  <2> QED BY <2>1 DEF KeysInv, Elems
<1>2. Ascending(keyQueue)' /\ Elems(keyQueue)' = Elems(keyQueue')
  BY DEF Ascending, Elems
<1>3. \A d \in Dev : Ascending(devKeys[d])' /\ Elems(devKeys[d])' = Elems(devKeys'[d])
  BY DEF Ascending, Elems
<1> QED BY <1>1, <1>2, <1>3 DEF KeysInv

(* Keystrokes that are dropped, or that nothing touches.                     *)
LEMMA KeysDropped ==
  ASSUME KeysInv, UNCHANGED <<typed, got>>, keyQueue' = keyQueue \/ keyQueue' = <<>>,
         devKeys' \in [Dev -> Seq(Key)],
         \A d \in Dev : devKeys'[d] = devKeys[d] \/ devKeys'[d] = <<>>
  PROVE  KeysInv'
<1>1. keyQueue' \in Seq(Key) /\ Ascending(keyQueue') /\ Elems(keyQueue') \subseteq Elems(keyQueue)
  BY NoneBehind DEF KeysInv
<1>2. \A d \in Dev : Ascending(devKeys'[d]) /\ Elems(devKeys'[d]) \subseteq Elems(devKeys[d])
  BY NoneBehind DEF KeysInv
<1> QED BY <1>1, <1>2, KeysThinned

(* A keystroke is returned that is older than all that still waits of its    *)
(* keyboard.                                                                 *)
LEMMA KeyReturned ==
  ASSUME KeysInv, NEW k \in Key, Delivered(k), typed' = typed,
         got[k.dev] < k.num, k.num <= typed[k.dev],
         keyQueue' \in Seq(Key), Ascending(keyQueue'), devKeys' \in [Dev -> Seq(Key)],
         \A d \in Dev : Ascending(devKeys'[d]) /\ Elems(devKeys'[d]) \subseteq Elems(devKeys[d]),
         \A l \in Elems(keyQueue') :
           /\ got[l.dev] < l.num /\ l.num <= typed[l.dev]
           /\ l.dev = k.dev => k.num < l.num
           /\ \A m \in Elems(devKeys'[l.dev]) : l.num < m.num,
         \A l \in Elems(devKeys'[k.dev]) : k.num < l.num
  PROVE  /\ KeysInv' /\ got'[k.dev] = k.num
         /\ got' # got /\ \A d \in Dev : got'[d] >= got[d]
<1>1. k.dev \in Dev /\ k.num \in 1..MaxKeys /\ got \in [Dev -> 0..MaxKeys] /\ MaxKeys \in Nat
  BY KeysAssumption DEF Key, KeysInv
<1>2. /\ got' \in [Dev -> 0..MaxKeys] /\ got'[k.dev] = k.num
      /\ \A d \in Dev : d # k.dev => got'[d] = got[d]
  BY <1>1 DEF Delivered
<1>3. \A l \in Elems(keyQueue') : l.dev \in Dev
  <2>1. \A l \in Key : l.dev \in Dev
    BY DEF Key
  <2> QED BY <2>1 DEF Elems
<1>4. ASSUME NEW d \in Dev
      PROVE  /\ got'[d] <= typed[d] /\ got'[d] >= got[d]
             /\ \A l \in Elems(devKeys'[d]) : l.dev = d /\ got'[d] < l.num /\ l.num <= typed[d]
  <2>1. /\ got[d] <= typed[d] /\ got[d] \in Int /\ typed[d] \in Int
        /\ \A l \in Elems(devKeys'[d]) : l.dev = d /\ got[d] < l.num /\ l.num <= typed[d]
    BY <1>1 DEF KeysInv
  <2>2. CASE d = k.dev
    BY <1>1, <1>2, <2>1, <2>2
  <2>3. CASE d # k.dev
    BY <1>2, <2>1, <2>3
  <2> QED BY <2>2, <2>3
<1>5. ASSUME NEW l \in Elems(keyQueue') PROVE got'[l.dev] < l.num
  <2>1. CASE l.dev = k.dev
    BY <1>2, <2>1
  <2>2. CASE l.dev # k.dev
    BY <1>2, <1>3, <2>2
  <2> QED BY <2>1, <2>2
<1>6. got' # got
  <2>1. got'[k.dev] # got[k.dev]
    BY <1>1, <1>2
  <2> QED BY <2>1
<1>7. Ascending(keyQueue)' /\ Elems(keyQueue)' = Elems(keyQueue')
  BY DEF Ascending, Elems
<1>8. \A d \in Dev : Ascending(devKeys[d])' /\ Elems(devKeys[d])' = Elems(devKeys'[d])
  BY DEF Ascending, Elems
<1>9. typed' \in [Dev -> 0..MaxKeys]
  BY DEF KeysInv
<1> QED BY <1>2, <1>3, <1>4, <1>5, <1>6, <1>7, <1>8, <1>9 DEF KeysInv

(* What KeysInv says of a keystroke that waits.                              *)
LEMMA WaitingKeys ==
  ASSUME KeysInv
  PROVE  /\ \A k \in Elems(keyQueue) :
              /\ k \in Key /\ k.dev \in Dev /\ k.num \in Int
              /\ got[k.dev] < k.num /\ k.num <= typed[k.dev]
              /\ \A l \in Elems(devKeys[k.dev]) : k.num < l.num
         /\ \A d \in Dev : \A k \in Elems(devKeys[d]) :
              /\ k \in Key /\ k.dev = d /\ k.num \in Int
              /\ got[d] < k.num /\ k.num <= typed[d]
<1>1. \A k \in Key : k.dev \in Dev /\ k.num \in Int
  BY DEF Key
<1>2. Elems(keyQueue) \subseteq Key /\ \A d \in Dev : Elems(devKeys[d]) \subseteq Key
  BY DEF KeysInv, Elems
<1> QED BY <1>1, <1>2 DEF KeysInv

(* What stays waiting.                                                       *)
LEMMA StillWaiting ==
  ASSUME NEW k, k \in Elems(keyQueue') \/ \E d \in Dev : k \in Elems(devKeys'[d])
  PROVE  k \in Waiting'
<1>1. Elems(keyQueue') = Elems(keyQueue)' /\ \A d \in Dev : Elems(devKeys'[d]) = Elems(devKeys[d])'
  BY DEF Elems
<1>2. Waiting' = (UNION {Elems(devKeys[d])' : d \in Dev}) \cup Elems(keyQueue)'
  BY DEF Waiting
<1> QED BY <1>1, <1>2

LEMMA ReadQueuedKeys ==
  ASSUME KeysInv, ReadQueued, typed' = typed
  PROVE  KeysInv' /\ OrderStep /\ KeptStep
<1> DEFINE i == FirstFull(keyQueue)
           k == keyQueue[i]
<1>1. /\ i <= Len(keyQueue) /\ Delivered(k) /\ devKeys' = devKeys
      /\ keyQueue' = SubSeq(keyQueue, i + 1, Len(keyQueue))
  BY DEF ReadQueued
<1>2. keyQueue \in Seq(Key) /\ Ascending(keyQueue) /\ devKeys \in [Dev -> Seq(Key)]
      /\ \A d \in Dev : Ascending(devKeys[d])
  BY DEF KeysInv
<1>3. i \in 1..Len(keyQueue) + 1 /\ \A j \in 1..i - 1 : ~Full(keyQueue[j])
  BY <1>2, FirstFullFound
<1> HIDE DEF i
<1>4. i \in 0..Len(keyQueue) /\ i \in 1..i /\ k \in Elems(keyQueue)
  <2>1. Len(keyQueue) \in Nat
    BY <1>2
  <2>2. i \in DOMAIN keyQueue
    BY <1>1, <1>2, <1>3
  <2> QED BY <1>1, <1>3, <2>1, <2>2 DEF Elems
<1>5. /\ keyQueue' \in Seq(Key) /\ Ascending(keyQueue') /\ Elems(keyQueue') \subseteq Elems(keyQueue)
      /\ \A l \in Elems(keyQueue) : l \in Elems(keyQueue') \/ \E j \in 1..i : l = keyQueue[j]
      /\ \A l \in Elems(keyQueue'), j \in 1..i :
           l.dev = keyQueue[j].dev => keyQueue[j].num < l.num
  <2>1. IsBehind(keyQueue, i, keyQueue')
    BY <1>1, <1>2, <1>4, Behind
  <2> QED BY <2>1 DEF IsBehind
<1>6. /\ k \in Key /\ got[k.dev] < k.num /\ k.num <= typed[k.dev]
      /\ \A l \in Elems(devKeys[k.dev]) : k.num < l.num
  BY <1>4, WaitingKeys
<1>7. ASSUME NEW l \in Elems(keyQueue')
      PROVE  /\ got[l.dev] < l.num /\ l.num <= typed[l.dev]
             /\ l.dev = k.dev => k.num < l.num
             /\ \A m \in Elems(devKeys'[l.dev]) : l.num < m.num
  <2>1. l \in Elems(keyQueue) /\ (l.dev = k.dev => k.num < l.num)
    BY <1>4, <1>5
  <2> HIDE DEF k
  <2> QED BY <1>1, <2>1, WaitingKeys
<1> HIDE DEF k
<1>8. /\ KeysInv' /\ got'[k.dev] = k.num
      /\ got' # got /\ \A d \in Dev : got'[d] >= got[d]
  BY <1>1, <1>2, <1>5, <1>6, <1>7, KeyReturned
<1>9. ASSUME NEW l \in Waiting, Full(l) PROVE l \in Waiting' \/ l.num = got'[l.dev]
  <2>1. CASE \E d \in Dev : l \in Elems(devKeys[d])
    BY <1>1, <2>1, StillWaiting
  <2>2. CASE l \in Elems(keyQueue')
    BY <2>2, StillWaiting
  <2>3. ASSUME NEW j \in 1..i, l = keyQueue[j] PROVE l = k
    <3>1. ~(j \in 1..i - 1)
      BY <1>3, <1>9, <2>3
    <3>2. j = i
      BY <1>3, <3>1
    <3> QED BY <2>3, <3>2 DEF k
  <2>4. \/ \E d \in Dev : l \in Elems(devKeys[d])
        \/ l \in Elems(keyQueue') \/ \E j \in 1..i : l = keyQueue[j]
    BY <1>5 DEF Waiting
  <2> QED BY <1>8, <2>1, <2>2, <2>3, <2>4
<1> QED BY <1>8, <1>9 DEF OrderStep, KeptStep

(* The first keystroke of a list and those behind it.                        *)
LEMMA HeadAndTail ==
  ASSUME NEW s \in Seq(Key), s # <<>>, Ascending(s)
  PROVE  /\ Head(s) = s[1] /\ Head(s) \in Elems(s) /\ IsBehind(s, 1, Tail(s))
         /\ \A k \in Elems(s) : k \in Elems(Tail(s)) \/ k = Head(s)
<1>1. Len(s) \in Nat /\ Len(s) >= 1 /\ Head(s) = s[1] /\ 1 \in DOMAIN s
  OBVIOUS
<1>2. Tail(s) = SubSeq(s, 1 + 1, Len(s))
  OBVIOUS
<1>3. 1 \in 0..Len(s)
  BY <1>1
<1>4. IsBehind(s, 1, Tail(s))
  BY <1>2, <1>3, Behind
<1>5. ASSUME NEW k \in Elems(s) PROVE k \in Elems(Tail(s)) \/ k = Head(s)
  <2>1. k \in Elems(Tail(s)) \/ \E j \in 1..1 : k = s[j]
    BY <1>4 DEF IsBehind
  <2>2. \A j \in 1..1 : j = 1
    OBVIOUS
  <2> QED BY <1>1, <2>1, <2>2
<1> QED BY <1>1, <1>4, <1>5 DEF Elems

LEMMA ReadExQueuedKeys ==
  ASSUME KeysInv, ReadExQueued, typed' = typed
  PROVE  KeysInv' /\ OrderStep /\ KeptStep
<1> DEFINE k == Head(keyQueue)
<1>1. /\ keyQueue # <<>> /\ Delivered(k) /\ devKeys' = devKeys /\ keyQueue' = Tail(keyQueue)
  BY DEF ReadExQueued
<1>2. keyQueue \in Seq(Key) /\ Ascending(keyQueue) /\ devKeys \in [Dev -> Seq(Key)]
      /\ \A d \in Dev : Ascending(devKeys[d])
  BY DEF KeysInv
<1>3. /\ k = keyQueue[1] /\ k \in Elems(keyQueue) /\ IsBehind(keyQueue, 1, keyQueue')
      /\ \A l \in Elems(keyQueue) : l \in Elems(keyQueue') \/ l = k
  BY <1>1, <1>2, HeadAndTail
<1> HIDE DEF k
<1>4. /\ keyQueue' \in Seq(Key) /\ Ascending(keyQueue') /\ Elems(keyQueue') \subseteq Elems(keyQueue)
      /\ \A l \in Elems(keyQueue') : l.dev = k.dev => k.num < l.num
  <2>1. 1 \in 1..1
    OBVIOUS
  <2> QED BY <1>3, <2>1 DEF IsBehind
<1>5. /\ k \in Key /\ got[k.dev] < k.num /\ k.num <= typed[k.dev]
      /\ \A l \in Elems(devKeys[k.dev]) : k.num < l.num
  BY <1>3, WaitingKeys
<1>6. ASSUME NEW l \in Elems(keyQueue')
      PROVE  /\ got[l.dev] < l.num /\ l.num <= typed[l.dev]
             /\ l.dev = k.dev => k.num < l.num
             /\ \A m \in Elems(devKeys'[l.dev]) : l.num < m.num
  <2>1. l \in Elems(keyQueue) /\ (l.dev = k.dev => k.num < l.num)
    BY <1>4
  <2> QED BY <1>1, <2>1, WaitingKeys
<1>7. /\ KeysInv' /\ got'[k.dev] = k.num
      /\ got' # got /\ \A d \in Dev : got'[d] >= got[d]
  BY <1>1, <1>2, <1>4, <1>5, <1>6, KeyReturned
<1>8. ASSUME NEW l \in Waiting PROVE l \in Waiting' \/ l.num = got'[l.dev]
  <2>1. CASE \E d \in Dev : l \in Elems(devKeys[d])
    BY <1>1, <2>1, StillWaiting
  <2>2. CASE l \in Elems(keyQueue')
    BY <2>2, StillWaiting
  <2>3. \/ \E d \in Dev : l \in Elems(devKeys[d])
        \/ l \in Elems(keyQueue') \/ l = k
    BY <1>3 DEF Waiting
  <2> QED BY <1>7, <2>1, <2>2, <2>3
<1> QED BY <1>7, <1>8 DEF OrderStep, KeptStep

LEMMA ReadDevicesKeys ==
  ASSUME KeysInv, RegistryInv, NEW F, ReadDevices(F), typed' = typed
  PROVE  KeysInv' /\ OrderStep /\ KeptStep
<1> DEFINE has(j) == /\ textInList[j] \notin F
                     /\ \E k \in Elems(devKeys[textInList[j]]) : Full(k)
           IsLast(i) == /\ i <= Len(textInList) => has(i)
                        /\ \A j \in 1..i - 1 : ~has(j)
           last == CHOOSE i \in 1..Len(textInList) + 1 : IsLast(i)
           drained == {textInList[j] : j \in 1..last - 1} \ F
           src == textInList[last]
           i == FirstFull(devKeys[src])
           k == devKeys[src][i]
<1>1. /\ textInList \in Seq(Dev) /\ Len(textInList) \in Nat
      /\ keyQueue \in Seq(Key) /\ devKeys \in [Dev -> Seq(Key)]
      /\ \A d \in Dev : Ascending(devKeys[d])
  BY DEF RegistryInv, RegistryTypeOK, KeysInv
<1>2. last \in 1..Len(textInList) + 1 /\ IsLast(last)
  <2> DEFINE G == {j \in 1..Len(textInList) : has(j)}
  <2>1. PICK e \in 1..Len(textInList) + 1 :
          (e <= Len(textInList) => e \in G) /\ \A j \in 1..e - 1 : j \notin G
    <3> HIDE DEF G
    <3> QED BY <1>1, SearchEnds
  <2>2. ASSUME NEW j \in 1..e - 1 PROVE ~has(j)
    <3>1. j \in 1..Len(textInList)
      BY <1>1
    <3> QED BY <2>1, <3>1
  <2>3. IsLast(e)
    BY <2>1, <2>2
  <2> HIDE DEF IsLast
  <2> QED BY <2>3
<1>3. /\ FirstFull(keyQueue) > Len(keyQueue) /\ keyQueue' = <<>>
      /\ IF last <= Len(textInList)
         THEN /\ Delivered(k)
              /\ devKeys' = [d \in Dev |-> IF d \in drained THEN <<>>
                                           ELSE IF d = src THEN SubSeq(devKeys[d], i + 1, Len(devKeys[d]))
                                           ELSE devKeys[d]]
              /\ Returns("Read", NoHandle, TRUE)
         ELSE /\ devKeys' = [d \in Dev |-> IF d \in drained THEN <<>> ELSE devKeys[d]]
              /\ Returns("Read", NoHandle, FALSE)
              /\ UNCHANGED got
  BY DEF ReadDevices
<1>4. \A l \in Elems(keyQueue) : ~Full(l)
  <2>1. /\ FirstFull(keyQueue) \in 1..Len(keyQueue) + 1
        /\ \A j \in 1..FirstFull(keyQueue) - 1 : ~Full(keyQueue[j])
    BY <1>1, FirstFullFound
  <2>2. FirstFull(keyQueue) - 1 = Len(keyQueue)
    BY <1>1, <1>3, <2>1
  <2>3. DOMAIN keyQueue = 1..Len(keyQueue)
    BY <1>1
  <2> QED BY <2>1, <2>2, <2>3 DEF Elems
<1>5. \A d \in drained : d \notin F /\ \A l \in Elems(devKeys[d]) : ~Full(l)
  BY <1>2
<1>6. CASE ~(last <= Len(textInList))
  <2>1. /\ devKeys' = [d \in Dev |-> IF d \in drained THEN <<>> ELSE devKeys[d]]
        /\ Returns("Read", NoHandle, FALSE) /\ UNCHANGED got
    BY <1>3, <1>6
  <2> HIDE DEF drained
  <2>2. devKeys' \in [Dev -> Seq(Key)] /\ \A d \in Dev : devKeys'[d] = devKeys[d] \/ devKeys'[d] = <<>>
    BY <1>1, <2>1, NoneBehind
  <2>3. KeysInv'
    BY <1>3, <2>1, <2>2, KeysDropped
  <2>4. ASSUME NEW l \in Waiting, Full(l) PROVE l \in Waiting'
    <3>1. PICK d \in Dev : l \in Elems(devKeys[d])
      BY <1>4, <2>4 DEF Waiting
    <3>2. devKeys'[d] = devKeys[d]
      BY <1>5, <2>1, <2>4, <3>1
    <3> QED BY <3>1, <3>2, StillWaiting
  <2>5. OrderStep
    <3>1. ~ret'.ok
      BY <2>1 DEF Returns
    <3>2. \A d \in Dev : got[d] \in Int
      BY DEF KeysInv
    <3> QED BY <2>1, <3>1, <3>2 DEF OrderStep
  <2> QED BY <2>3, <2>4, <2>5 DEF KeptStep
<1>7. CASE last <= Len(textInList)
  <2>1. /\ Delivered(k)
        /\ devKeys' = [d \in Dev |-> IF d \in drained THEN <<>>
                                     ELSE IF d = src THEN SubSeq(devKeys[d], i + 1, Len(devKeys[d]))
                                     ELSE devKeys[d]]
    BY <1>3, <1>7
  <2>2. src \in Dev /\ src \notin F /\ \E l \in Elems(devKeys[src]) : Full(l)
    <3> HIDE DEF last, has
    <3>1. last \in 1..Len(textInList) /\ has(last)
      BY <1>1, <1>2, <1>7
    <3> USE DEF has
    <3>2. src \in Dev
      BY <1>1, <3>1
    <3> QED BY <3>1, <3>2
  <2>3. src \notin drained
    BY <1>5, <2>2
  <2>4. devKeys[src] \in Seq(Key) /\ Ascending(devKeys[src])
    BY <1>1, <2>2
  <2> HIDE DEF drained, src, last
  <2>5. /\ i \in 1..Len(devKeys[src]) + 1 /\ (i <= Len(devKeys[src]) => Full(k))
        /\ \A j \in 1..i - 1 : ~Full(devKeys[src][j])
    BY <2>4, FirstFullFound
  <2> HIDE DEF i
  <2>6. i <= Len(devKeys[src]) /\ Len(devKeys[src]) \in Nat
    <3>1. PICK j \in 1..Len(devKeys[src]) : Full(devKeys[src][j])
      BY <2>2, <2>4 DEF Elems
    <3>2. ~(j \in 1..i - 1)
      BY <2>5, <3>1
    <3>3. Len(devKeys[src]) \in Nat
      BY <2>4
    <3> QED BY <2>5, <3>2, <3>3
  <2>7. i \in 0..Len(devKeys[src]) /\ i \in 1..i /\ i \in 1..Len(devKeys[src])
    BY <2>5, <2>6
  <2>8. k \in Elems(devKeys[src])
    BY <2>4, <2>7 DEF Elems
  <2>9. IsBehind(devKeys[src], i, devKeys'[src])
    BY <2>1, <2>2, <2>3, <2>4, <2>7, Behind
  <2>10. k \in Key /\ k.dev = src /\ got[src] < k.num /\ k.num <= typed[src]
    BY <2>2, <2>8, WaitingKeys
  <2>11. \A l \in Elems(devKeys'[src]) : k.num < l.num
    <3>1. \A l \in Elems(devKeys'[src]) : l.dev = k.dev
      BY <2>2, <2>9, <2>10, WaitingKeys DEF IsBehind
    <3> QED BY <2>7, <2>9, <3>1 DEF IsBehind
  <2>12. ASSUME NEW d \in Dev
         PROVE  /\ devKeys'[d] \in Seq(Key) /\ Ascending(devKeys'[d])
                /\ Elems(devKeys'[d]) \subseteq Elems(devKeys[d])
    <3>1. CASE d = src
      BY <2>9, <3>1 DEF IsBehind
    <3>2. CASE d # src
      BY <1>1, <2>1, <3>2, NoneBehind
    <3> QED BY <3>1, <3>2
  <2>13. devKeys' \in [Dev -> Seq(Key)]
    BY <2>1, <2>12
  <2> HIDE DEF k
  <2>14. keyQueue' \in Seq(Key) /\ Ascending(keyQueue') /\ Elems(keyQueue') = {}
    BY <1>3, NoneBehind
  <2>15. /\ KeysInv' /\ got'[k.dev] = k.num
         /\ got' # got /\ \A d \in Dev : got'[d] >= got[d]
    BY <2>1, <2>10, <2>11, <2>12, <2>13, <2>14, KeyReturned
  <2>16. ASSUME NEW l \in Waiting, Full(l) PROVE l \in Waiting' \/ l.num = got'[l.dev]
    <3>1. PICK d \in Dev : l \in Elems(devKeys[d])
      BY <1>4, <2>16 DEF Waiting
    <3>2. CASE d # src
      <4>1. devKeys'[d] = devKeys[d]
        BY <1>5, <2>1, <2>16, <3>1, <3>2
      <4> QED BY <3>1, <4>1, StillWaiting
    <3>3. CASE d = src
      <4>1. l \in Elems(devKeys'[src]) \/ \E j \in 1..i : l = devKeys[src][j]
        BY <2>9, <3>1, <3>3 DEF IsBehind
      <4>2. ASSUME NEW j \in 1..i, l = devKeys[src][j] PROVE l = k
        <5>1. ~(j \in 1..i - 1)
          BY <2>5, <2>16, <4>2
        <5>2. j = i
          BY <2>5, <5>1
        <5> QED BY <4>2, <5>2 DEF k
      <4> QED BY <2>2, <2>15, <4>1, <4>2, StillWaiting
    <3> QED BY <3>2, <3>3
  <2> QED BY <2>15, <2>16 DEF OrderStep, KeptStep
<1> QED BY <1>6, <1>7

(* A place in the batch of ReadKeyStrokeEx for each index that is queued.    *)
LEMMA NthFacts ==
  ASSUME NEW I \in SUBSET Nat, IsFiniteSet(I)
  PROVE  /\ Cardinality(I) \in Nat
         /\ \A k \in 1..Cardinality(I) : Nth(I, k) \in I
         /\ \A k, l \in 1..Cardinality(I) : Nth(I, k) = Nth(I, l) => k = l
         /\ \A i \in I : \E k \in 1..Cardinality(I) : i = Nth(I, k)
<1>1. Cardinality(I) \in Nat /\ \A i \in I : i \in Int
  BY FS_CardinalityType
<1>2. ASSUME NEW k \in 1..Cardinality(I)
      PROVE  Nth(I, k) \in I /\ Cardinality(Below(I, Nth(I, k))) = k - 1
  <2>1. k - 1 \in Nat /\ k - 1 < Cardinality(I)
    BY <1>1
  <2>2. PICK m \in I : Cardinality(Below(I, m)) = k - 1
    BY <2>1, NthExists
  <2> QED BY <2>2 DEF Nth, Below
<1>3. ASSUME NEW k \in 1..Cardinality(I), NEW l \in 1..Cardinality(I), Nth(I, k) = Nth(I, l)
      PROVE  k = l
  <2>1. k - 1 = l - 1
    BY <1>2, <1>3
  <2> QED BY <1>1, <2>1
<1>4. ASSUME NEW i \in I PROVE \E k \in 1..Cardinality(I) : i = Nth(I, k)
  <2>1. Below(I, i) \in SUBSET I /\ i \notin Below(I, i)
    BY <1>1 DEF Below
  <2>2. IsFiniteSet(Below(I, i)) /\ Cardinality(Below(I, i)) \in Nat
        /\ Cardinality(Below(I, i)) < Cardinality(I)
    <3>1. Below(I, i) # I
      BY <2>1
    <3> QED BY <2>1, <3>1, FS_Subset, FS_CardinalityType
  <2> DEFINE k == Cardinality(Below(I, i)) + 1
  <2>3. k \in 1..Cardinality(I) /\ k - 1 = Cardinality(Below(I, i))
    BY <1>1, <2>2
  <2>4. Nth(I, k) \in I /\ Cardinality(Below(I, Nth(I, k))) = Cardinality(Below(I, i))
    BY <1>2, <2>3
  <2> HIDE DEF k
  <2> DEFINE n == Nth(I, k)
  <2>5. ~(i < n) /\ ~(n < i)
    <3>1. n \in I /\ Cardinality(Below(I, n)) = Cardinality(Below(I, i))
      BY <2>4
    <3> HIDE DEF n
    <3>2. i < n => Cardinality(Below(I, i)) < Cardinality(Below(I, n))
      BY <3>1, BelowGrows
    <3>3. n < i => Cardinality(Below(I, n)) < Cardinality(Below(I, i))
      BY <3>1, BelowGrows
    <3> QED BY <2>2, <3>1, <3>2, <3>3
  <2>6. i = n
    <3>1. n \in Int /\ i \in Int
      BY <1>1, <2>4
    <3> HIDE DEF n
    <3> QED BY <2>5, <3>1
  <2> QED BY <2>3, <2>6
<1> QED BY <1>1, <1>2, <1>3, <1>4

(* What ReadKeyStrokeEx queues: the first keystroke of each of the keyboards *)
(* at the indexes Q, no two of one keyboard.                                 *)
LEMMA BatchFacts ==
  ASSUME KeysInv, RegistryInv, NEW Q \in SUBSET DOMAIN textInExList,
         \A i \in Q : devKeys[textInExList[i]] # <<>>,
         NEW b, b = [k \in 1..Cardinality(Q) |-> Head(devKeys[textInExList[Nth(Q, k)]])]
  PROVE  /\ b \in Seq(Key) /\ Ascending(b)
         /\ \A l \in Elems(b) : \E i \in Q : l = Head(devKeys[textInExList[i]])
         /\ \A i \in Q : Head(devKeys[textInExList[i]]) \in Elems(b)
<1>1. /\ textInExList \in Seq(Dev) /\ Distinct(textInExList)
      /\ devKeys \in [Dev -> Seq(Key)] /\ \A d \in Dev : Ascending(devKeys[d])
  BY DEF RegistryInv, RegistryTypeOK, ListedDevicesAreOpen, KeysInv
<1>2. Q \in SUBSET Nat /\ IsFiniteSet(Q) /\ DOMAIN textInExList = 1..Len(textInExList)
  <2>1. Len(textInExList) \in Nat /\ DOMAIN textInExList = 1..Len(textInExList)
    BY <1>1
  <2>2. IsFiniteSet(1..Len(textInExList))
    BY <2>1, FS_Interval
  <2> QED BY <2>1, <2>2, FS_Subset
<1>3. ASSUME NEW i \in Q
      PROVE  /\ textInExList[i] \in Dev /\ Head(devKeys[textInExList[i]]) \in Key
             /\ Head(devKeys[textInExList[i]]).dev = textInExList[i]
  <2> DEFINE d == textInExList[i]
  <2>1. d \in Dev
    BY <1>1, <1>2
  <2> HIDE DEF d
  <2>2. devKeys[d] \in Seq(Key) /\ Ascending(devKeys[d])
    BY <1>1, <2>1
  <2>3. devKeys[d] # <<>>
    BY DEF d
  <2>4. Head(devKeys[d]) \in Elems(devKeys[d])
    BY <2>2, <2>3, HeadAndTail
  <2>5. Head(devKeys[d]) \in Key /\ Head(devKeys[d]).dev = d
    BY <2>1, <2>4, WaitingKeys
  <2> QED BY <2>1, <2>5 DEF d
<1>4. /\ Cardinality(Q) \in Nat
      /\ \A k \in 1..Cardinality(Q) : Nth(Q, k) \in Q
      /\ \A k, l \in 1..Cardinality(Q) : Nth(Q, k) = Nth(Q, l) => k = l
      /\ \A i \in Q : \E k \in 1..Cardinality(Q) : i = Nth(Q, k)
  BY <1>2, NthFacts
<1>5. DOMAIN b = 1..Cardinality(Q)
      /\ \A k \in 1..Cardinality(Q) : b[k] = Head(devKeys[textInExList[Nth(Q, k)]]) /\ b[k] \in Key
  BY <1>3, <1>4
<1>6. b \in Seq(Key)
  <2>1. b \in [1..Cardinality(Q) -> Key]
    BY <1>3, <1>4
  <2> QED BY <1>4, <2>1
<1>7. Ascending(b)
  <2> SUFFICES ASSUME NEW i \in 1..Cardinality(Q), NEW j \in 1..Cardinality(Q), i < j,
                      b[i].dev = b[j].dev
               PROVE  FALSE
    BY <1>5 DEF Ascending
  <2>1. Nth(Q, i) \in Q /\ Nth(Q, j) \in Q
    BY <1>4
  <2>2. textInExList[Nth(Q, i)] = textInExList[Nth(Q, j)]
    BY <1>3, <1>5, <2>1
  <2>3. Nth(Q, i) = Nth(Q, j)
    BY <1>1, <2>1, <2>2 DEF Distinct
  <2>4. i = j
    BY <1>4, <2>3
  <2> QED BY <1>4, <2>4
<1>8. \A l \in Elems(b) : \E i \in Q : l = Head(devKeys[textInExList[i]])
  BY <1>4, <1>5 DEF Elems
<1>9. ASSUME NEW i \in Q PROVE Head(devKeys[textInExList[i]]) \in Elems(b)
  BY <1>4, <1>5 DEF Elems
<1> QED BY <1>6, <1>7, <1>8, <1>9

LEMMA ReadExDevicesKeys ==
  ASSUME KeysInv, RegistryInv, NEW F, ReadExDevices(F), typed' = typed
  PROVE  KeysInv' /\ OrderStep /\ KeptStep
<1> DEFINE answering == {i \in DOMAIN textInExList :
                           textInExList[i] \notin F /\ devKeys[textInExList[i]] # <<>>}
           key(i) == Head(devKeys[textInExList[i]])
           queued == {i \in answering : virtualExported \/ Full(key(i))}
           batch == [k \in 1..Cardinality(queued) |-> key(Nth(queued, k))]
           read == {textInExList[i] : i \in answering}
<1>1. /\ textInExList \in Seq(Dev) /\ devKeys \in [Dev -> Seq(Key)]
      /\ \A d \in Dev : Ascending(devKeys[d])
  BY DEF RegistryInv, RegistryTypeOK, KeysInv
<1>2. /\ keyQueue = <<>>
      /\ devKeys' = [d \in Dev |-> IF d \in read THEN Tail(devKeys[d]) ELSE devKeys[d]]
      /\ IF batch = <<>>
         THEN UNCHANGED <<got, keyQueue>> /\ Returns("ReadEx", NoHandle, FALSE)
         ELSE /\ Delivered(Head(batch))
              /\ keyQueue' = Tail(batch)
              /\ Returns("ReadEx", NoHandle, TRUE)
  BY DEF ReadExDevices
<1>3. /\ batch \in Seq(Key) /\ Ascending(batch)
      /\ \A l \in Elems(batch) : \E i \in queued : l = key(i)
      /\ \A i \in queued : key(i) \in Elems(batch)
  <2>1. queued \in SUBSET DOMAIN textInExList /\ \A i \in queued : devKeys[textInExList[i]] # <<>>
    OBVIOUS
  <2> HIDE DEF queued
  <2> QED BY <2>1, BatchFacts
<1>4. ASSUME NEW d \in read PROVE d \in Dev /\ devKeys[d] # <<>>
  BY <1>1
<1>5. ASSUME NEW l \in Elems(batch)
      PROVE  l.dev \in read /\ l = Head(devKeys[l.dev])
  <2>1. PICK i \in queued : l = key(i)
    BY <1>3
  <2>2. i \in answering /\ textInExList[i] \in read
    BY <2>1
  <2>3. textInExList[i] \in Dev /\ devKeys[textInExList[i]] # <<>>
    BY <1>4, <2>2
  <2> HIDE DEF answering, read
  <2> DEFINE d == textInExList[i]
  <2>4. l = Head(devKeys[d]) /\ d \in read /\ d \in Dev /\ devKeys[d] # <<>>
    BY <2>1, <2>2, <2>3
  <2> HIDE DEF d, key, queued, batch
  <2>5. l \in Elems(devKeys[d])
    BY <1>1, <2>4, HeadAndTail
  <2>6. l.dev = d
    BY <2>4, <2>5, WaitingKeys
  <2> QED BY <2>4, <2>6
<1>6. ASSUME NEW d \in read, Full(Head(devKeys[d])) PROVE Head(devKeys[d]) \in Elems(batch)
  <2>1. PICK i \in answering : d = textInExList[i]
    OBVIOUS
  <2>2. i \in queued
    BY <1>6, <2>1
  <2> HIDE DEF queued, answering, read, batch
  <2> QED BY <1>3, <2>1, <2>2
<1> HIDE DEF answering, key, queued, read, batch
<1>7. ASSUME NEW d \in read
      PROVE  /\ devKeys'[d] = Tail(devKeys[d]) /\ IsBehind(devKeys[d], 1, devKeys'[d])
             /\ \A k \in Elems(devKeys[d]) : k \in Elems(devKeys'[d]) \/ k = Head(devKeys[d])
             /\ \A k \in Elems(devKeys'[d]) : Head(devKeys[d]).num < k.num
  <2>1. d \in Dev /\ devKeys[d] # <<>> /\ devKeys'[d] = Tail(devKeys[d])
    BY <1>2, <1>4
  <2>2. /\ Head(devKeys[d]) = devKeys[d][1] /\ Head(devKeys[d]) \in Elems(devKeys[d])
        /\ IsBehind(devKeys[d], 1, devKeys'[d])
        /\ \A k \in Elems(devKeys[d]) : k \in Elems(devKeys'[d]) \/ k = Head(devKeys[d])
    BY <1>1, <2>1, HeadAndTail
  <2>3. 1 \in 1..1
    OBVIOUS
  <2>4. ASSUME NEW k \in Elems(devKeys'[d]) PROVE Head(devKeys[d]).num < k.num
    <3>1. k \in Elems(devKeys[d])
      BY <2>2 DEF IsBehind
    <3>2. k.dev = d /\ Head(devKeys[d]).dev = d
      BY <2>1, <2>2, <3>1, WaitingKeys
    <3> QED BY <2>2, <2>3, <3>2 DEF IsBehind
  <2> QED BY <2>1, <2>2, <2>4
<1>8. ASSUME NEW d \in Dev
      PROVE  /\ devKeys'[d] \in Seq(Key) /\ Ascending(devKeys'[d])
             /\ Elems(devKeys'[d]) \subseteq Elems(devKeys[d])
  <2>1. CASE d \in read
    BY <1>7, <2>1 DEF IsBehind
  <2>2. CASE d \notin read
    BY <1>1, <1>2, <2>2
  <2> QED BY <2>1, <2>2
<1>9. devKeys' \in [Dev -> Seq(Key)]
  BY <1>2, <1>8
<1>10. Elems(keyQueue) = {}
  BY <1>2, NoneBehind
<1>11. ASSUME NEW l \in Waiting, Full(l)
       PROVE  l \in Waiting' \/ l \in Elems(batch)
  <2>1. PICK d \in Dev : l \in Elems(devKeys[d])
    BY <1>10 DEF Waiting
  <2>2. CASE d \in read /\ l = Head(devKeys[d])
    BY <1>6, <1>11, <2>2
  <2>3. CASE d \in read /\ l # Head(devKeys[d])
    <3>1. l \in Elems(devKeys'[d])
      BY <1>7, <2>1, <2>3
    <3> QED BY <3>1, StillWaiting
  <2>4. CASE d \notin read
    <3>1. devKeys'[d] = devKeys[d]
      BY <1>2, <2>4
    <3> QED BY <2>1, <3>1, StillWaiting
  <2> QED BY <2>2, <2>3, <2>4
<1>12. CASE batch = <<>>
  <2>1. UNCHANGED <<got, keyQueue>> /\ Returns("ReadEx", NoHandle, FALSE)
    BY <1>2, <1>12
  <2>2. Elems(batch) = {}
    BY <1>12, NoneBehind
  <2>3. keyQueue' \in Seq(Key) /\ Ascending(keyQueue') /\ Elems(keyQueue') \subseteq Elems(keyQueue)
    BY <2>1 DEF KeysInv
  <2>4. KeysInv'
    BY <1>8, <1>9, <2>1, <2>3, KeysThinned
  <2>5. OrderStep
    <3>1. ~ret'.ok
      BY <2>1 DEF Returns
    <3>2. \A d \in Dev : got[d] \in Int
      BY DEF KeysInv
    <3> QED BY <2>1, <3>1, <3>2 DEF OrderStep
  <2> QED BY <1>11, <2>2, <2>4, <2>5 DEF KeptStep
<1>13. CASE batch # <<>>
  <2> DEFINE k == Head(batch)
  <2>1. Delivered(k) /\ keyQueue' = Tail(batch)
    BY <1>2, <1>13
  <2>2. /\ k = batch[1] /\ k \in Elems(batch) /\ IsBehind(batch, 1, keyQueue')
        /\ \A l \in Elems(batch) : l \in Elems(keyQueue') \/ l = k
    BY <1>3, <1>13, <2>1, HeadAndTail
  <2> HIDE DEF k
  <2>3. /\ keyQueue' \in Seq(Key) /\ Ascending(keyQueue') /\ Elems(keyQueue') \subseteq Elems(batch)
        /\ \A l \in Elems(keyQueue') : l.dev = k.dev => k.num < l.num
    <3>1. 1 \in 1..1
      OBVIOUS
    <3> QED BY <2>2, <3>1 DEF IsBehind
  <2>4. ASSUME NEW l \in Elems(batch)
        PROVE  /\ l \in Key /\ got[l.dev] < l.num /\ l.num <= typed[l.dev]
               /\ \A m \in Elems(devKeys'[l.dev]) : l.num < m.num
    <3>1. l.dev \in read /\ l = Head(devKeys[l.dev])
      BY <1>5
    <3>2. l.dev \in Dev /\ devKeys[l.dev] # <<>>
      BY <1>4, <3>1
    <3>3. l \in Elems(devKeys[l.dev])
      BY <1>1, <3>1, <3>2, HeadAndTail
    <3> QED BY <1>7, <3>1, <3>2, <3>3, WaitingKeys
  <2>5. \A l \in Elems(keyQueue') :
          /\ got[l.dev] < l.num /\ l.num <= typed[l.dev]
          /\ l.dev = k.dev => k.num < l.num
          /\ \A m \in Elems(devKeys'[l.dev]) : l.num < m.num
    BY <2>3, <2>4
  <2>6. /\ KeysInv' /\ got'[k.dev] = k.num
        /\ got' # got /\ \A d \in Dev : got'[d] >= got[d]
    BY <1>8, <1>9, <2>1, <2>2, <2>3, <2>4, <2>5, KeyReturned
  <2>7. ASSUME NEW l \in Waiting, Full(l) PROVE l \in Waiting' \/ l.num = got'[l.dev]
    BY <1>11, <2>2, <2>6, <2>7, StillWaiting
  <2> QED BY <2>6, <2>7 DEF OrderStep, KeptStep
<1> QED BY <1>12, <1>13

LEMMA KeysUntouched ==
  ASSUME KeysInv, UNCHANGED <<keyVars, keyQueue>>
  PROVE  KeysInv' /\ KeptStep /\ \A d \in Dev : got'[d] >= got[d]
<1>1. UNCHANGED <<devKeys, typed, got, keyQueue>>
  BY DEF keyVars
<1>2. \A d \in Dev : got[d] \in Int
  BY DEF KeysInv
<1> QED BY <1>1, <1>2 DEF KeysInv, KeptStep, Waiting, Ascending, Elems

(* A keystroke that is typed is newer than all of that keyboard.             *)
LEMMA PressKeyKeys ==
  ASSUME KeysInv, NEW d \in Dev, PressKey(d)
  PROVE  KeysInv' /\ OrderStep /\ KeptStep
<1>1. PICK part \in BOOLEAN :
        devKeys' = [devKeys EXCEPT ![d] =
                      Append(@, [dev |-> d, num |-> typed[d] + 1, part |-> part])]
  BY DEF PressKey
<1> DEFINE k == [dev |-> d, num |-> typed[d] + 1, part |-> part]
           s == devKeys[d]
<1>2. /\ typed[d] < MaxKeys /\ typed' = [typed EXCEPT ![d] = @ + 1]
      /\ got' = got /\ keyQueue' = keyQueue /\ ret'.op = "Type"
  BY DEF PressKey, queueVars, Returns
<1>3. /\ keyQueue \in Seq(Key) /\ devKeys \in [Dev -> Seq(Key)]
      /\ typed \in [Dev -> 0..MaxKeys] /\ got \in [Dev -> 0..MaxKeys]
      /\ Ascending(keyQueue) /\ \A e \in Dev : Ascending(devKeys[e]) /\ got[e] <= typed[e]
  BY DEF KeysInv
<1>4. MaxKeys \in Nat /\ typed[d] \in Int /\ got[d] \in Int /\ got[d] <= typed[d] /\ typed[d] >= 0
  BY <1>3, KeysAssumption
<1>5. k \in Key /\ k.dev = d /\ k.num = typed[d] + 1
  <2>1. typed[d] + 1 \in 1..MaxKeys
    BY <1>2, <1>4
  <2> QED BY <2>1 DEF Key
<1>6. \A e \in Dev : /\ typed[e] \in Int /\ got[e] \in Int /\ typed'[e] \in Int
                     /\ typed[e] <= typed'[e] /\ typed'[e] <= MaxKeys /\ typed'[e] >= 0
                     /\ (e # d => typed'[e] = typed[e])
  BY <1>2, <1>3, <1>4
<1>7. typed'[d] = typed[d] + 1
  BY <1>2, <1>3
<1>8. typed' \in [Dev -> 0..MaxKeys]
  BY <1>2, <1>3, <1>4
<1>9. s \in Seq(Key) /\ Ascending(s) /\ devKeys'[d] = Append(s, k)
      /\ \A e \in Dev : e # d => devKeys'[e] = devKeys[e]
  BY <1>1, <1>3
<1> HIDE DEF k
<1>10. /\ Append(s, k) \in Seq(Key) /\ Elems(Append(s, k)) = Elems(s) \cup {k}
       /\ Len(s) \in Nat /\ DOMAIN s = 1..Len(s)
       /\ DOMAIN Append(s, k) = 1..Len(s) + 1
       /\ Append(s, k)[Len(s) + 1] = k
       /\ \A i \in 1..Len(s) : Append(s, k)[i] = s[i]
  BY <1>5, <1>9, AppendElems
<1>11. \A l \in Elems(s) : l.num < k.num /\ l.num \in Int
  BY <1>4, <1>5, WaitingKeys
<1>12. Ascending(Append(s, k))
  <2> SUFFICES ASSUME NEW i \in 1..Len(s) + 1, NEW j \in 1..Len(s) + 1, i < j,
                      Append(s, k)[i].dev = Append(s, k)[j].dev
               PROVE  Append(s, k)[i].num < Append(s, k)[j].num
    BY <1>10 DEF Ascending
  <2>1. i \in 1..Len(s)
    BY <1>10
  <2>2. CASE j = Len(s) + 1
    <3>1. s[i] \in Elems(s)
      BY <1>10, <2>1 DEF Elems
    <3> QED BY <1>10, <1>11, <2>1, <2>2, <3>1
  <2>3. CASE j # Len(s) + 1
    <3>1. j \in 1..Len(s)
      BY <1>10, <2>3
    <3> QED BY <1>9, <1>10, <2>1, <3>1 DEF Ascending
  <2> QED BY <2>2, <2>3
<1>13. \A e \in Dev : Ascending(devKeys[e])' /\ Elems(devKeys[e])' = Elems(devKeys'[e])
  <2>1. \A e \in Dev : Ascending(devKeys'[e])
    BY <1>3, <1>9, <1>12
  <2> QED BY <2>1 DEF Ascending, Elems
<1>14. Ascending(keyQueue)' /\ Elems(keyQueue)' = Elems(keyQueue)
  BY <1>2, <1>3 DEF Ascending, Elems
<1>15. devKeys' \in [Dev -> Seq(Key)]
  BY <1>1, <1>3, <1>9, <1>10
<1>16. ASSUME NEW e \in Dev, NEW l, l \in Elems(devKeys'[e]), l \notin Elems(devKeys[e])
       PROVE  e = d /\ l = k
  <2>1. e = d
    BY <1>9, <1>16
  <2>2. l \in Elems(Append(s, k)) /\ l \notin Elems(s)
    BY <1>9, <1>16, <2>1
  <2> QED BY <1>10, <2>1, <2>2
<1>17. ASSUME NEW e \in Dev, NEW l \in Elems(devKeys'[e])
       PROVE  l.dev = e /\ got[e] < l.num /\ l.num <= typed'[e]
  <2>1. CASE l \in Elems(devKeys[e])
    <3>1. l.dev = e /\ got[e] < l.num /\ l.num <= typed[e] /\ l.num \in Int
      BY <2>1, WaitingKeys
    <3> QED BY <1>6, <3>1
  <2>2. CASE l \notin Elems(devKeys[e])
    <3>1. e = d /\ l = k
      BY <1>16, <1>17, <2>2
    <3> QED BY <1>4, <1>5, <1>7, <3>1
  <2> QED BY <2>1, <2>2
<1>18. ASSUME NEW l \in Elems(keyQueue)
       PROVE  /\ got[l.dev] < l.num /\ l.num <= typed'[l.dev]
              /\ \A m \in Elems(devKeys'[l.dev]) : l.num < m.num
  <2>1. /\ l.dev \in Dev /\ got[l.dev] < l.num /\ l.num <= typed[l.dev] /\ l.num \in Int
        /\ \A m \in Elems(devKeys[l.dev]) : l.num < m.num
    BY WaitingKeys
  <2>2. l.num <= typed'[l.dev]
    BY <1>6, <2>1
  <2>3. ASSUME NEW m \in Elems(devKeys'[l.dev]) PROVE l.num < m.num
    <3>1. CASE m \in Elems(devKeys[l.dev])
      BY <2>1, <3>1
    <3>2. CASE m \notin Elems(devKeys[l.dev])
      <4>1. l.dev = d /\ m = k
        BY <1>16, <2>1, <2>3, <3>2
      <4> QED BY <1>4, <1>5, <2>1, <4>1
    <3> QED BY <3>1, <3>2
  <2> QED BY <2>1, <2>2, <2>3
<1>19. \A e \in Dev : got[e] <= typed'[e]
  BY <1>3, <1>6
<1>20. KeysInv'
  BY <1>2, <1>3, <1>8, <1>13, <1>14, <1>15, <1>17, <1>18, <1>19 DEF KeysInv
<1>21. OrderStep
  BY <1>2, <1>6 DEF OrderStep
<1>22. ASSUME NEW l \in Waiting PROVE l \in Waiting'
  <2>1. CASE l \in Elems(keyQueue)
    BY <1>2, <2>1, StillWaiting
  <2>2. CASE \E e \in Dev : l \in Elems(devKeys[e])
    <3>1. \E e \in Dev : l \in Elems(devKeys'[e])
      BY <1>9, <1>10, <2>2
    <3> QED BY <3>1, StillWaiting
  <2> QED BY <2>1, <2>2 DEF Waiting
<1> QED BY <1>20, <1>21, <1>22 DEF KeptStep

(* Every step keeps the order and loses no full keystroke.                   *)
LEMMA KeysStep ==
  ASSUME RegistryInv, KeysInv, Next
  PROVE  KeysInv' /\ OrderStep /\ KeptStep
<1>0. \A d \in Dev : got[d] \in Int
  BY DEF KeysInv
<1>1. ASSUME NEW d \in Dev, PressKey(d) PROVE KeysInv' /\ OrderStep /\ KeptStep
  BY <1>1, PressKeyKeys
<1>2. CASE ReadKeyStroke
  <2>1. typed' = typed
    BY <1>2 DEF ReadKeyStroke
  <2> QED BY <1>2, <2>1, ReadQueuedKeys, ReadDevicesKeys DEF ReadKeyStroke
<1>3. CASE ReadKeyStrokeEx
  <2>1. typed' = typed
    BY <1>3 DEF ReadKeyStrokeEx
  <2> QED BY <1>3, <2>1, ReadExQueuedKeys, ReadExDevicesKeys DEF ReadKeyStrokeEx
<1>4. CASE ResetEither
  <2>1. PICK D : ResetDevices(D)
    BY <1>4 DEF ResetEither, Reset, ResetEx
  <2>2. UNCHANGED <<typed, got>>
    BY <1>4 DEF ResetEither
  <2>3. /\ \E done : devKeys' = [d \in Dev |-> IF d \in done THEN <<>> ELSE devKeys[d]]
        /\ keyQueue' = keyQueue \/ keyQueue' = <<>>
    BY <2>1, Zenon DEF ResetDevices
  <2>4. /\ devKeys' \in [Dev -> Seq(Key)]
        /\ \A d \in Dev : devKeys'[d] = devKeys[d] \/ devKeys'[d] = <<>>
    BY <2>3, NoneBehind DEF KeysInv
  <2>5. ret'.op = "Reset"
    <3>1. \E ok : Returns("Reset", NoHandle, ok)
      BY <2>1, Zenon DEF ResetDevices
    <3> QED BY <3>1 DEF Returns
  <2>6. KeysInv'
    BY <2>2, <2>3, <2>4, KeysDropped
  <2> QED BY <1>0, <2>2, <2>5, <2>6 DEF OrderStep, KeptStep
<1>5. ASSUME NEW d \in Dev, Replug(d) PROVE KeysInv' /\ OrderStep /\ KeptStep
  <2>1. /\ devKeys' = [devKeys EXCEPT ![d] = <<>>] /\ keyQueue' = keyQueue
        /\ UNCHANGED <<typed, got>> /\ ret'.op = "Replug"
    BY <1>5 DEF Replug, queueVars, Returns
  <2>2. /\ devKeys' \in [Dev -> Seq(Key)]
        /\ \A e \in Dev : devKeys'[e] = devKeys[e] \/ devKeys'[e] = <<>>
    BY <2>1, NoneBehind DEF KeysInv
  <2>3. KeysInv'
    BY <2>1, <2>2, KeysDropped
  <2> QED BY <1>0, <2>1, <2>3 DEF OrderStep, KeptStep
<1>6. ASSUME UNCHANGED <<keyVars, keyQueue>>, ~(ret'.op \in {"Read", "ReadEx"})
      PROVE  KeysInv' /\ OrderStep /\ KeptStep
  BY <1>6, KeysUntouched DEF OrderStep
<1>7. ASSUME NEW d \in Dev, Start(d) PROVE UNCHANGED <<keyVars, keyQueue>>
  BY <1>7 DEF Start, StartRefused, StartNoMemory, StartPlain, StartExNoMemory,
              StartExRegisterFails, StartEx, queueVars
<1>8. ASSUME NEW d \in Dev, StopNotFound(d) \/ Stop(d) PROVE UNCHANGED <<keyVars, keyQueue>>
  BY <1>8 DEF StopNotFound, Stop, queueVars
<1>9. ASSUME NEW d \in Dev, NEW lock \in Locks, PressLock(d, lock)
      PROVE  UNCHANGED <<keyVars, keyQueue>>
  BY <1>9 DEF PressLock, queueVars
<1>10. ASSUME NEW n \in NotifyIds, RegisterKeyNotify(n) \/ UnregisterKeyNotify(n)
       PROVE  UNCHANGED <<keyVars, keyQueue>>
  BY <1>10 DEF RegisterKeyNotify, UnregisterKeyNotify, queueVars
<1>11. ASSUME NEW caller \in CallerStates, SetState(caller) PROVE UNCHANGED <<keyVars, keyQueue>>
  BY <1>11 DEF SetState, queueVars
<1>12. CASE WaitForKey
  <2>1. UNCHANGED <<keyVars, keyQueue>> /\ ret'.op = "Wait"
    BY <1>12 DEF WaitForKey, queueVars, Returns
  <2> QED BY <2>1, <1>6
<1> QED BY <1>1, <1>2, <1>3, <1>4, <1>5, <1>6, <1>7, <1>8, <1>9, <1>10, <1>11, <1>12,
           StepReports

LEMMA KeysStart == Init => KeysInv
<1> SUFFICES ASSUME Init PROVE KeysInv
  OBVIOUS
<1>1. /\ keyQueue = <<>> /\ devKeys = [d \in Dev |-> <<>>]
      /\ typed = [d \in Dev |-> 0] /\ got = [d \in Dev |-> 0]
  BY DEF Init, InitKeys
<1>2. 0 \in 0..MaxKeys
  BY KeysAssumption
<1> QED BY <1>1, <1>2, NoneBehind DEF KeysInv

THEOREM KeysAlways == Spec => []KeysInv
<1>1. RegistryInv /\ KeysInv /\ [Next]_vars => KeysInv'
  <2> SUFFICES ASSUME RegistryInv, KeysInv, [Next]_vars PROVE KeysInv'
    OBVIOUS
  <2>1. CASE UNCHANGED vars
    <3>1. UNCHANGED <<keyVars, keyQueue>>
      BY <2>1 DEF vars, queueVars
    <3> QED BY <3>1, KeysUntouched
  <2> QED BY <2>1, KeysStep
<1> QED BY <1>1, KeysStart, RegistryInvariant, PTL DEF Spec

(* The keystrokes of a keyboard are returned in the order they were typed,   *)
(* none of them twice, whichever of the two read functions a client calls.   *)
THEOREM OrderIsKept == Spec => KeysInOrder
<1>1. RegistryInv /\ KeysInv /\ [Next]_vars =>
        [/\ \A d \in Dev : got'[d] >= got[d]
         /\ ret'.op \in {"Read", "ReadEx"} /\ ret'.ok => got' # got]_vars
  BY KeysStep DEF OrderStep
<1> QED BY <1>1, KeysAlways, RegistryInvariant, PTL DEF Spec, KeysInOrder

(* No read, no change of the lists and no failing keyboard loses a full      *)
(* keystroke: only a Reset or a keyboard that goes away discards one.        *)
THEOREM NoKeyIsLost == Spec => FullKeysAreKept
<1> DEFINE Kept ==
      \A k \in (UNION {Elems(devKeys[d]) : d \in Dev}) \cup Elems(keyQueue) :
        Full(k) =>
          \/ k \in (UNION {Elems(devKeys'[d]) : d \in Dev}) \cup Elems(keyQueue')
          \/ k.num = got'[k.dev]
          \/ ret'.op \in {"Reset", "Replug"}
<1>1. KeptStep => Kept
  BY DEF KeptStep, Waiting, Elems
<1>2. RegistryInv /\ KeysInv /\ [Next]_vars => [Kept]_vars
  <2> HIDE DEF Kept
  <2> QED BY <1>1, KeysStep
<1> QED BY <1>2, KeysAlways, RegistryInvariant, PTL DEF Spec, FullKeysAreKept

=============================================================================
