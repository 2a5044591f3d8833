----------------------- MODULE GraphicsSplitterProofs -----------------------
(***************************************************************************)
(* Proofs about the virtual graphics output.  What a client reads back is   *)
(* what it drew, in every case; what the splitter offers is sound while the *)
(* mode buffer can be allocated, since a console that is listed and not     *)
(* counted is counted down when it leaves.                                  *)
(***************************************************************************)
EXTENDS GraphicsSplitter, CommonLemmas, FiniteSetTheorems

Counted == count = Len(list)

(* The types that the proofs need.                                           *)
ListInv ==
  /\ list \in Seq(Gop) /\ Distinct(list)
  /\ shown \in [Gop -> Pictures \cup {Blank}]

(* What was drawn is on every output of the list.                            *)
DrawnInv == drawn # Blank => \A g \in Listed : shown[g] = drawn

(* An output is in a mode that it has, and the number of outputs is known.   *)
OfferInv ==
  /\ Counted /\ installed \in BOOLEAN
  /\ \A g \in Gop : current[g] \in Elems(ModesOf[g])
  /\ OfferIsSound

-----------------------------------------------------------------------------
(* The first number of a resolution                                          *)

(* The search finds a resolution that the mode list has.                     *)
LEMMA NumberFound ==
  ASSUME NEW S, NEW ms \in Seq(S), NEW r \in Elems(ms)
  PROVE  NumberOf(ms, r) \in DOMAIN ms /\ ms[NumberOf(ms, r)] = r
<1> DEFINE T == {n \in DOMAIN ms : ms[n] = r}
<1>1. T \in SUBSET Nat /\ T # {}
  BY DEF Elems
<1>2. PICK n \in T : \A m \in T : n <= m
  BY <1>1, LeastNumber
<1>3. \A k \in 1..n - 1 : ms[k] # r
  <2> SUFFICES ASSUME NEW k \in 1..n - 1, ms[k] = r PROVE FALSE
    OBVIOUS
  <2>1. n \in 1..Len(ms) /\ Len(ms) \in Nat
    OBVIOUS
  <2>2. k \in T /\ ~(n <= k)
    BY <2>1
  <2> QED BY <1>2, <2>2
<1> QED BY <1>2, <1>3 DEF NumberOf

-----------------------------------------------------------------------------
(* The lists                                                                 *)

(* Both ways to start add the console to the list.                           *)
Starts(g) == list' = Append(list, g)

LEMMA StartLists ==
  ASSUME ListInv, NEW g \in Gop \ Listed, Starts(g)
  PROVE  /\ list' \in Seq(Gop) /\ Distinct(list)'
         /\ Len(list') = Len(list) + 1
         /\ Listed' = Listed \cup {g}
  BY AppendElems DEF ListInv, Starts, Listed

LEMMA StopLists ==
  ASSUME ListInv, NEW g \in Gop, Stop(g)
  PROVE  /\ list' \in Seq(Gop) /\ Distinct(list)'
         /\ Len(list') = Len(list) - 1
         /\ Listed' = Listed \ {g}
         /\ g \in Listed
<1>1. g \in Elems(list) /\ list' = Deleted(list, IndexOf(list, g))
  BY DEF Stop, Listed
<1>2. IndexOf(list, g) \in DOMAIN list /\ list[IndexOf(list, g)] = g
  BY <1>1 DEF IndexOf, Elems
<1> QED BY <1>1, <1>2, DeletedIsSeq, DeletedElems DEF ListInv, Listed

(* Every other step keeps the list, its count and what is installed.         *)
Draws ==
  \/ \E n \in 1..MaxMode, F \in SUBSET Flaky : SetMode(n, F)
  \/ \E T \in SUBSET Listed, F \in SUBSET Flaky : TextSetMode(T, F)
  \/ \E p \in Pictures, F \in SUBSET Flaky : Draw(p, F)
  \/ \E F \in SUBSET Flaky : Read(F)

LEMMA DrawsKeepList == Draws => UNCHANGED <<list, count, installed>>
  BY DEF Draws, SetMode, TextSetMode, Draw, Read, splitterVars

LEMMA StepCases ==
  ASSUME [Next]_vars
  PROVE  \/ \E g \in Gop \ Listed : Starts(g)
         \/ \E g \in Gop : Stop(g)
         \/ Draws \/ UNCHANGED vars
<1>1. ASSUME NEW g, NEW F, NEW T, NEW anew, NEW stray, Start(g, F, T, anew, stray) PROVE Starts(g)
  BY <1>1 DEF Start, Starts
<1>2. ASSUME NEW g, NEW F, NEW T, StartWithoutBuffer(g, F, T) PROVE Starts(g)
  BY <1>2 DEF StartWithoutBuffer, Starts
<1> QED BY <1>1, <1>2 DEF Next, Draws

LEMMA ShownType ==
  ASSUME ListInv, [Next]_vars
  PROVE  shown' \in [Gop -> Pictures \cup {Blank}]
<1>1. ASSUME NEW T, TextBlank(shown, T) = shown' PROVE shown' \in [Gop -> Pictures \cup {Blank}]
  BY <1>1 DEF ListInv, TextBlank
<1>2. ASSUME NEW g \in Gop, NEW F, NEW T, NEW anew, NEW stray, Start(g, F, T, anew, stray)
      PROVE shown' \in [Gop -> Pictures \cup {Blank}]
  BY <1>1, <1>2 DEF Start
<1>3. ASSUME NEW g \in Gop, NEW F, NEW T, StartWithoutBuffer(g, F, T)
      PROVE shown' \in [Gop -> Pictures \cup {Blank}]
  BY <1>1, <1>3 DEF StartWithoutBuffer
<1>4. ASSUME NEW n, NEW F, SetMode(n, F) PROVE shown' \in [Gop -> Pictures \cup {Blank}]
  BY <1>4 DEF SetMode, ListInv
<1>5. ASSUME NEW T, NEW F, TextSetMode(T, F) PROVE shown' \in [Gop -> Pictures \cup {Blank}]
  BY <1>1, <1>5 DEF TextSetMode
<1>6. ASSUME NEW p \in Pictures, NEW F, Draw(p, F) PROVE shown' \in [Gop -> Pictures \cup {Blank}]
  BY <1>6 DEF Draw, ListInv
<1>7. ASSUME NEW g \in Gop, Stop(g) PROVE shown' \in [Gop -> Pictures \cup {Blank}]
  BY <1>7 DEF Stop, ListInv
<1>8. ASSUME NEW F, Read(F) PROVE shown' \in [Gop -> Pictures \cup {Blank}]
  BY <1>8 DEF Read, ListInv
<1>9. CASE UNCHANGED vars
  BY <1>9 DEF vars, ListInv
<1> QED BY <1>2, <1>3, <1>4, <1>5, <1>6, <1>7, <1>8, <1>9 DEF Next

LEMMA ListStep == ListInv /\ [Next]_vars => ListInv'
<1> SUFFICES ASSUME ListInv, [Next]_vars PROVE ListInv'
  OBVIOUS
<1>1. ASSUME NEW g \in Gop \ Listed, Starts(g) PROVE list' \in Seq(Gop) /\ Distinct(list)'
  BY <1>1, StartLists
<1>2. ASSUME NEW g \in Gop, Stop(g) PROVE list' \in Seq(Gop) /\ Distinct(list)'
  BY <1>2, StopLists
<1>3. ASSUME Draws \/ UNCHANGED vars PROVE list' \in Seq(Gop) /\ Distinct(list)'
  <2>1. list' = list
    BY <1>3, DrawsKeepList DEF vars, splitterVars
  <2> QED BY <2>1 DEF ListInv, Distinct
<1>4. CASE \E g \in Gop \ Listed : Starts(g)
  BY <1>1, <1>4, ShownType DEF ListInv
<1>5. CASE \E g \in Gop : Stop(g)
  BY <1>2, <1>5, ShownType DEF ListInv
<1>6. CASE Draws \/ UNCHANGED vars
  BY <1>3, <1>6, ShownType DEF ListInv
<1> QED BY <1>4, <1>5, <1>6, StepCases

LEMMA ListInit == Init => ListInv
  BY EmptyElems DEF Init, ListInv

-----------------------------------------------------------------------------
(* What is drawn                                                             *)

LEMMA DrawnStep == ListInv /\ DrawnInv /\ [Next]_vars => DrawnInv'
<1> SUFFICES ASSUME ListInv, DrawnInv, [Next]_vars, drawn' # Blank,
                    NEW h \in Listed'
             PROVE  shown'[h] = drawn'
  BY DEF DrawnInv
<1>1. ASSUME NEW g, NEW F, NEW T, NEW anew, NEW stray, Start(g, F, T, anew, stray) PROVE FALSE
  BY <1>1 DEF Start
<1>2. ASSUME NEW g, NEW F, NEW T, StartWithoutBuffer(g, F, T) PROVE FALSE
  BY <1>2 DEF StartWithoutBuffer
<1>3. ASSUME NEW n, NEW F, SetMode(n, F) PROVE FALSE
  BY <1>3 DEF SetMode
<1>4. ASSUME NEW T, NEW F, TextSetMode(T, F) PROVE FALSE
  BY <1>4 DEF TextSetMode
<1>5. CASE \E g \in Gop : Stop(g)
  <2>1. PICK g \in Gop : Stop(g)
    BY <1>5
  <2>2. h \in Listed
    BY <2>1, StopLists
  <2> QED BY <2>1, <2>2 DEF Stop, DrawnInv
<1>6. CASE \E p \in Pictures, F \in SUBSET Flaky : Draw(p, F)
  <2>1. PICK p \in Pictures, F \in SUBSET Flaky : Draw(p, F)
    BY <1>6
  <2>2. h \in Listed /\ h \in Gop
    BY <2>1 DEF Draw, splitterVars, Listed, ListInv, Elems
  <2>3. h \notin F /\ drawn' = p
    BY <2>1, <2>2 DEF Draw
  <2> QED BY <2>1, <2>2, <2>3 DEF Draw, Reached
<1>7. CASE \E F \in SUBSET Flaky : Read(F)
  BY <1>7 DEF Read, splitterVars, DrawnInv, Listed
<1>8. CASE UNCHANGED vars
  BY <1>8 DEF vars, splitterVars, DrawnInv, Listed
<1> QED BY <1>1, <1>2, <1>3, <1>4, <1>5, <1>6, <1>7, <1>8 DEF Next

(* Whatever outputs there are, which of them fail and when, and whether the  *)
(* mode buffer is allocated: a client reads back what it drew, from each     *)
(* output that works.                                                        *)
THEOREM ReadsBack == GopSpec => ReadsBackWhatItDrew
<1>1. Init => DrawnInv
  BY DEF Init, DrawnInv
<1>2. ASSUME ListInv, DrawnInv, NEW F, Read(F), drawn # Blank PROVE ret' = drawn
  <2>1. PICK i \in DOMAIN list : ret' = shown[list[i]]
    BY <1>2 DEF Read
  <2> QED BY <1>2, <2>1 DEF DrawnInv, Listed, Elems
<1>3. ListInv /\ DrawnInv /\ [Next]_vars =>
        [\A F \in SUBSET Flaky : Read(F) /\ drawn # Blank => ret' = drawn]_vars
  BY <1>2
<1> QED BY <1>1, <1>3, ListInit, ListStep, DrawnStep, PTL DEF GopSpec, ReadsBackWhatItDrew

-----------------------------------------------------------------------------
(* What is offered                                                           *)

(* Where outputs are put is a mode that they have, from now on.              *)
LEMMA PutIsOwn ==
  ASSUME NEW cur, \A g \in Gop : cur[g] \in Elems(ModesOf[g]), NEW G, NEW r, NEW F
  PROVE  \A g \in Gop : Put(cur, G, r, F)[g] \in Elems(ModesOf[g])
  BY DEF Put, Takes

LEMMA TextPutIsOwn ==
  ASSUME NEW cur, \A g \in Gop : cur[g] \in Elems(ModesOf[g]), NEW T, NEW F
  PROVE  \A g \in Gop : TextPut(cur, T, F)[g] \in Elems(ModesOf[g])
  BY GopAssumption DEF TextPut

LEMMA ForcedIsOwn ==
  ASSUME NEW cur, \A h \in Gop : cur[h] \in Elems(ModesOf[h]),
         NEW g \in Gop, NEW l, NEW ms, NEW told, NEW F, NEW stray \in BOOLEAN
  PROVE  \A h \in Gop : Forced(g, l, ms, told, cur, F, stray).current[h] \in Elems(ModesOf[h])
<1> DEFINE n == Preferred(ms, cur[g])
<1>1. InStep(g, l, ms, n, told, cur, F).current = Put(cur, {g}, told, F)
  BY DEF InStep
<1>2. OutOfStep(g, l, ms, n, told, cur, F).current \in
        {Put(cur, Elems(l), ms[n], F), Put(Put(cur, Elems(l), ms[n], F), Elems(l), Default, F)}
  BY DEF OutOfStep
<1>3. NoModeLeft(told, cur).current = cur
  BY DEF NoModeLeft
<1>4. \A h \in Gop : InStep(g, l, ms, n, told, cur, F).current[h] \in Elems(ModesOf[h])
  BY <1>1, PutIsOwn
<1>5. \A h \in Gop : OutOfStep(g, l, ms, n, told, cur, F).current[h] \in Elems(ModesOf[h])
  BY <1>2, PutIsOwn
<1>6. Forced(g, l, ms, told, cur, F, stray) \in
        {InStep(g, l, ms, n, told, cur, F), NoModeLeft(told, cur), OutOfStep(g, l, ms, n, told, cur, F)}
  BY DEF Forced
<1> QED BY <1>3, <1>4, <1>5, <1>6

(* The first output is found in its own mode, so that nothing can fail.      *)
LEMMA FirstIsInStep ==
  ASSUME NEW cur, NEW g \in Gop, cur[g] \in Elems(ModesOf[g]), NEW l, NEW F, NEW stray \in BOOLEAN
  PROVE  Forced(g, l, ModesOf[g], cur[g], cur, F, stray).ok
<1> DEFINE ms == ModesOf[g]
           n  == Preferred(ms, cur[g])
<1>1. ms \in Seq(Resolutions)
  BY GopAssumption
<1>2. n = NumberOf(ms, cur[g])
  BY DEF Preferred
<1>3. n \in DOMAIN ms /\ ms[n] = cur[g]
  BY <1>1, <1>2, NumberFound
<1>4. ms # <<>>
  BY <1>3, EmptyElems DEF Elems
<1>5. Forced(g, l, ms, cur[g], cur, F, stray) = InStep(g, l, ms, n, cur[g], cur, F)
  BY <1>3, <1>4 DEF Forced
<1>6. InStep(g, l, ms, n, cur[g], cur, F).ok = (cur[g] = cur[g] \/ Takes(g, cur[g], F))
  BY DEF InStep
<1>7. InStep(g, l, ms, n, cur[g], cur, F).ok
  BY <1>6
<1> QED BY <1>5, <1>7
LEMMA StartOffers ==
  ASSUME ListInv, OfferInv, NEW g \in Gop \ Listed, NEW F, NEW T,
         NEW anew \in BOOLEAN, NEW stray \in BOOLEAN, Start(g, F, T, anew, stray)
  PROVE  OfferInv'
<1> DEFINE cur   == IF anew THEN [current EXCEPT ![g] = Home[g]] ELSE current
           l     == Append(list, g)
           told  == IF count = 0 THEN cur[g] ELSE info
           force == Forced(g, l, IF count = 0 THEN ModesOf[g] ELSE Intersected(g), told, cur, F, stray)
<1>1. /\ list' = l /\ count' = count + 1 /\ frame' = FrameOf(g)
      /\ installed' = (installed \/ (force.ok /\ count + 1 = 1))
      /\ current' = TextPut(force.current, T, F)
  BY DEF Start
<1>2. /\ Listed' = Listed \cup {g} /\ Len(list') = Len(list) + 1
      /\ count = Len(list) /\ Len(list) \in Nat
  BY <1>1, StartLists DEF Starts, OfferInv, Counted, ListInv
<1>3. \A h \in Gop : cur[h] \in Elems(ModesOf[h])
  BY GopAssumption DEF OfferInv
<1>4. \A h \in Gop : current'[h] \in Elems(ModesOf[h])
  <2>1. \A h \in Gop : force.current[h] \in Elems(ModesOf[h])
    BY <1>3, ForcedIsOwn
  <2> HIDE DEF force
  <2> QED BY <1>1, <2>1, TextPutIsOwn
<1>5. installed'
  <2>1. CASE list = <<>>
    <3>1. count = 0
      BY <1>2, <2>1
    <3>2. force = Forced(g, l, ModesOf[g], cur[g], cur, F, stray)
      BY <3>1
    <3>3. cur[g] \in Elems(ModesOf[g])
      BY <1>3
    <3>4. force.ok
      <4> HIDE DEF cur, force, l
      <4> QED BY <3>2, <3>3, FirstIsInStep
    <3>5. count + 1 = 1
      BY <3>1
    <3> HIDE DEF cur, force, l
    <3> QED BY <1>1, <3>4, <3>5, Zenon
  <2>2. CASE list # <<>>
    BY <1>1, <2>2 DEF OfferInv, OfferIsSound
  <2> QED BY <2>1, <2>2
<1>6. list' # <<>> /\ installed' \in BOOLEAN
  <2>1. Len(list') # 0
    BY <1>2
  <2> QED BY <1>5, <1>1, <2>1, EmptyElems DEF OfferInv
<1>7. frame' # Nobody => Listed' = {frame'}
  <2>1. count # 0 => frame' = Nobody
    BY <1>1 DEF FrameOf
  <2>2. CASE count = 0
    <3>1. list = <<>>
      BY <1>2, <2>2, EmptySeq DEF ListInv
    <3> QED BY <1>1, <1>2, <2>2, <3>1, EmptyElems DEF FrameOf, Listed
  <2> QED BY <2>1, <2>2
<1>8. OfferIsSound'
  BY <1>5, <1>6, <1>7 DEF OfferIsSound
<1>9. Counted'
  BY <1>1, <1>2 DEF Counted
<1> QED BY <1>4, <1>6, <1>8, <1>9 DEF OfferInv

(* A list of one element has it at both ends.                                *)
LEMMA OnlyIsLast ==
  ASSUME NEW l \in Seq(Gop), Len(l) = 1
  PROVE  Elems(l) = {Last(l)}
  BY DEF Elems, Last

LEMMA OnlyIsOne ==
  ASSUME NEW l \in Seq(Gop), Distinct(l), NEW x, Elems(l) = {x}
  PROVE  Len(l) = 1
<1>1. \A i \in 1..Len(l) : l[i] = x
  BY DEF Elems
<1>2. \A i, j \in 1..Len(l) : i = j
  BY <1>1 DEF Distinct
<1>3. Len(l) \in Nat /\ Len(l) # 0
  BY DEF Elems
<1>4. ~(Len(l) >= 2)
  <2> SUFFICES ASSUME Len(l) >= 2 PROVE FALSE
    OBVIOUS
  <2>1. 1 \in 1..Len(l) /\ 2 \in 1..Len(l) /\ 1 # 2
    BY <1>3
  <2> QED BY <1>2, <2>1
<1>5. \A n \in Nat : n # 0 /\ ~(n >= 2) => n = 1
  OBVIOUS
<1> QED BY <1>3, <1>4, <1>5

LEMMA StopOffers ==
  ASSUME ListInv, OfferInv, NEW g \in Gop, Stop(g)
  PROVE  OfferInv'
<1>1. /\ count' = count - 1 /\ installed' = (installed /\ count - 1 # 0)
      /\ frame' = frame /\ current' = current
  BY DEF Stop
<1>2. /\ Len(list') = Len(list) - 1 /\ g \in Listed /\ list' \in Seq(Gop)
      /\ count = Len(list) /\ Len(list) \in Nat
  BY StopLists DEF OfferInv, Counted, ListInv
<1>3. list # <<>> /\ installed
  BY <1>2, EmptyElems DEF Listed, OfferInv, OfferIsSound
<1>4. installed' <=> list' # <<>>
  <2>1. list' # <<>> <=> Len(list') # 0
    BY <1>2, EmptySeq
  <2> QED BY <1>1, <1>2, <1>3, <2>1
<1>5. ~(installed' /\ frame' # Nobody)
  <2> SUFFICES ASSUME installed', frame' # Nobody PROVE FALSE
    OBVIOUS
  <2>1. Elems(list) = {frame}
    BY <1>1, <1>3 DEF OfferInv, OfferIsSound, Listed
  <2>2. Len(list) = 1
    BY <2>1, OnlyIsOne DEF ListInv
  <2>3. count - 1 # 0
    BY <1>1, Zenon
  <2> QED BY <1>2, <2>2, <2>3
<1> QED BY <1>1, <1>2, <1>4, <1>5 DEF OfferInv, Counted, OfferIsSound

LEMMA DrawOffers ==
  ASSUME ListInv, OfferInv, Draws \/ UNCHANGED vars
  PROVE  OfferInv'
<1>1. UNCHANGED <<list, count, installed>>
  BY DrawsKeepList DEF vars, splitterVars
<1>2. \A h \in Gop : current'[h] \in Elems(ModesOf[h])
  <2>1. ASSUME NEW n, NEW F, SetMode(n, F) PROVE \A h \in Gop : current'[h] \in Elems(ModesOf[h])
    BY <2>1, PutIsOwn DEF SetMode, OfferInv
  <2>2. ASSUME NEW T, NEW F, TextSetMode(T, F) PROVE \A h \in Gop : current'[h] \in Elems(ModesOf[h])
    BY <2>2, TextPutIsOwn DEF TextSetMode, OfferInv
  <2>3. CASE current' = current
    BY <2>3 DEF OfferInv
  <2> QED BY <2>1, <2>2, <2>3 DEF Draws, Draw, Read, vars, splitterVars
<1>3. frame' = frame \/ (count = 1 /\ frame' = Last(list))
  BY DEF Draws, SetMode, TextSetMode, Draw, Read, splitterVars, vars
<1>4. ASSUME count = 1 PROVE Listed = {Last(list)}
  BY <1>4, OnlyIsLast DEF ListInv, OfferInv, Counted, Listed
<1>5. OfferIsSound'
  BY <1>1, <1>3, <1>4 DEF OfferInv, OfferIsSound, Listed
<1> QED BY <1>1, <1>2, <1>5 DEF OfferInv, Counted

LEMMA OfferStep == ~MayRunOut /\ ListInv /\ OfferInv /\ [Next]_vars => OfferInv'
<1> SUFFICES ASSUME ~MayRunOut, ListInv, OfferInv, [Next]_vars PROVE OfferInv'
  OBVIOUS
<1>1. ASSUME NEW g, NEW F, NEW T, StartWithoutBuffer(g, F, T) PROVE FALSE
  BY <1>1 DEF StartWithoutBuffer
<1>2. CASE \E g \in Gop \ Listed : \E F \in SUBSET FlakyStart, T \in SUBSET (Listed \cup {g}) :
             \E anew, stray \in BOOLEAN : Start(g, F, T, anew, stray)
  BY <1>2, StartOffers
<1>3. CASE \E g \in Gop : Stop(g)
  BY <1>3, StopOffers
<1>4. CASE Draws \/ UNCHANGED vars
  BY <1>4, DrawOffers
<1> QED BY <1>1, <1>2, <1>3, <1>4 DEF Next, Draws

(* For any outputs and modes, with calls on outputs failing as they may: the *)
(* protocol is there exactly while an output is, and a frame buffer that is  *)
(* offered is that of the only one, unless the mode buffer cannot be         *)
(* allocated.                                                                *)
THEOREM OfferStaysSound == ~MayRunOut /\ GopSpec => []OfferIsSound
<1>1. Init => OfferInv
  BY EmptyElems, GopAssumption DEF Init, OfferInv, Counted, OfferIsSound
<1>2. OfferInv => OfferIsSound
  BY DEF OfferInv
<1>3. CASE MayRunOut
  BY <1>3
<1>4. CASE ~MayRunOut
  <2>1. ListInv /\ OfferInv /\ [Next]_vars => OfferInv'
    BY <1>4, OfferStep
  <2> QED BY <1>1, <1>2, <2>1, ListInit, ListStep, PTL DEF GopSpec
<1> QED BY <1>3, <1>4

-----------------------------------------------------------------------------
(* The modes that are left                                                   *)

(* What the match loops hold after i modes, from what they held before: b.   *)
KeptAt(g, b, i) ==
  IF i = 0 THEN <<>>
  ELSE IF modes[i] \in Elems(ModesOf[g]) \ Elems(b[i - 1])
       THEN Append(b[i - 1], modes[i]) ELSE b[i - 1]

IsKept(b, g, n) == b = [i \in 0..n |-> KeptAt(g, b, i)]

(* The loops are run to their end.                                           *)
LEMMA IntersectedUnfolded ==
  ASSUME NEW g, MaxMode \in Nat
  PROVE  \E b : IsKept(b, g, MaxMode) /\ Intersected(g) = b[MaxMode]
<1> DEFINE T == {k \in Nat : \E b : IsKept(b, g, k)}
           n == MaxMode
<1>1. 0 \in T
  <2> DEFINE b == [i \in 0..0 |-> <<>>]
  <2>1. b = [i \in 0..0 |-> KeptAt(g, b, i)]
    <3>1. \A i \in 0..0 : b[i] = KeptAt(g, b, i)
      BY DEF KeptAt
    <3> QED BY <3>1
  <2> HIDE DEF b
  <2>2. IsKept(b, g, 0)
    BY <2>1 DEF IsKept
  <2> QED BY <2>2
<1>2. ASSUME NEW k \in Nat, k \in T PROVE k + 1 \in T
  <2>1. PICK b : IsKept(b, g, k)
    BY <1>2
  <2>2. b = [i \in 0..k |-> KeptAt(g, b, i)]
    BY <2>1 DEF IsKept
  <2> DEFINE a == [i \in 0..k + 1 |-> IF i \in 0..k THEN b[i] ELSE KeptAt(g, b, i)]
  <2>3. ASSUME NEW i \in 0..k + 1 PROVE a[i] = KeptAt(g, a, i)
    <3>1. a[i] = KeptAt(g, b, i)
      BY <2>2
    <3>2. i # 0 => i - 1 \in 0..k /\ a[i - 1] = b[i - 1]
      OBVIOUS
    <3> HIDE DEF a
    <3> QED BY <3>1, <3>2 DEF KeptAt
  <2>4. a = [i \in 0..k + 1 |-> KeptAt(g, a, i)]
    BY <2>3
  <2> HIDE DEF a
  <2>5. IsKept(a, g, k + 1)
    BY <2>4 DEF IsKept
  <2> QED BY <2>5
<1> HIDE DEF T
<1>3. n \in T
  BY <1>1, <1>2, SetInduction
<1>4. \E b : IsKept(b, g, n)
  BY <1>3 DEF T
<1>5. IsKept(CHOOSE b : IsKept(b, g, n), g, n)
  BY <1>4
<1>6. Intersected(g) = (CHOOSE b : IsKept(b, g, n))[n]
  BY DEF Intersected, IsKept, KeptAt
<1> QED BY <1>5, <1>6

(* What is left are the modes that g has too, once each.                     *)
LEMMA IntersectedIs ==
  ASSUME NEW S, modes \in Seq(S), NEW g
  PROVE  /\ Intersected(g) \in Seq(S) /\ Distinct(Intersected(g))
         /\ Elems(Intersected(g)) = Elems(modes) \cap Elems(ModesOf[g])
<1> DEFINE n == MaxMode
           first(i) == {modes[k] : k \in 1..i} \cap Elems(ModesOf[g])
<1>1. n \in Nat /\ \A i \in 1..n : modes[i] \in S
  BY DEF MaxMode
<1>2. PICK b : IsKept(b, g, n) /\ Intersected(g) = b[n]
  BY <1>1, IntersectedUnfolded
<1>3. \A i \in 0..n : b[i] = KeptAt(g, b, i)
  BY <1>2 DEF IsKept
<1> DEFINE T == {i \in Nat : i \in 0..n => /\ b[i] \in Seq(S) /\ Distinct(b[i])
                                         /\ Elems(b[i]) = first(i)}
<1>4. 0 \in T
  <2>1. b[0] = KeptAt(g, b, 0)
    BY <1>1, <1>3
  <2>2. KeptAt(g, b, 0) = <<>>
    BY DEF KeptAt
  <2>3. first(0) = {}
    OBVIOUS
  <2>4. <<>> \in Seq(S)
    OBVIOUS
  <2> HIDE DEF first
  <2>5. b[0] \in Seq(S) /\ Distinct(b[0]) /\ Elems(b[0]) = first(0)
    BY <2>1, <2>2, <2>3, <2>4, EmptyElems
  <2> QED BY <2>5
<1>5. ASSUME NEW i \in Nat, i \in T PROVE i + 1 \in T
  <2> SUFFICES ASSUME i + 1 \in 0..n
               PROVE  /\ b[i + 1] \in Seq(S) /\ Distinct(b[i + 1])
                      /\ Elems(b[i + 1]) = first(i + 1)
    OBVIOUS
  <2> DEFINE r == modes[i + 1]
             old == b[i]
  <2>1. i \in 0..n /\ i + 1 \in 1..n /\ r \in S /\ i + 1 # 0 /\ (i + 1) - 1 = i
    BY <1>1
  <2>2. old \in Seq(S) /\ Distinct(old) /\ Elems(old) = first(i)
    BY <1>5, <2>1
  <2>3. b[i + 1] = IF r \in Elems(ModesOf[g]) \ Elems(old) THEN Append(old, r) ELSE old
    <3>1. b[i + 1] = KeptAt(g, b, i + 1)
      BY <1>3
    <3> QED BY <2>1, <3>1 DEF KeptAt
  <2>4. first(i + 1) = IF r \in Elems(ModesOf[g]) THEN first(i) \cup {r} ELSE first(i)
    <3>1. 1..i + 1 = (1..i) \cup {i + 1}
      OBVIOUS
    <3> QED BY <3>1
  <2> HIDE DEF T, r, old, first
  <2>5. CASE r \in Elems(ModesOf[g]) \ Elems(old)
    <3>1. /\ Append(old, r) \in Seq(S) /\ Distinct(Append(old, r))
          /\ Elems(Append(old, r)) = Elems(old) \cup {r}
      BY <2>1, <2>2, <2>5, AppendElems
    <3> QED BY <2>2, <2>3, <2>4, <2>5, <3>1
  <2>6. CASE r \notin Elems(ModesOf[g]) \ Elems(old)
    BY <2>2, <2>3, <2>4, <2>6
  <2> QED BY <2>5, <2>6
<1> HIDE DEF T
<1>6. n \in T
  BY <1>1, <1>4, <1>5, SetInduction
<1>7. b[n] \in Seq(S) /\ Distinct(b[n]) /\ Elems(b[n]) = first(n)
  BY <1>1, <1>6 DEF T
<1>8. first(n) = Elems(modes) \cap Elems(ModesOf[g])
  BY <1>1 DEF Elems, MaxMode
<1> QED BY <1>2, <1>7, <1>8

-----------------------------------------------------------------------------
(* The mode that is forced                                                   *)

(* A mode of the buffer is preferred, if it has one.                         *)
LEMMA PreferredFound ==
  ASSUME NEW ms \in Seq(Resolutions), ms # <<>>, NEW own
  PROVE  Preferred(ms, own) \in DOMAIN ms
<1>1. 1 \in DOMAIN ms
  <2>1. Len(ms) \in Nat /\ Len(ms) # 0
    BY EmptySeq
  <2> QED BY <2>1
<1>2. \A r \in Elems(ms) : NumberOf(ms, r) \in DOMAIN ms
  BY NumberFound
<1> QED BY <1>1, <1>2 DEF Preferred

(* What a forced mode leaves: the buffer, but for a default mode at its      *)
(* start where the consoles refused the preferred one, and a mode number and *)
(* information that agree, unless both were refused.                         *)
LEMMA ForcedOffers ==
  ASSUME NEW g \in Gop, NEW l \in Seq(Gop), NEW ms \in Seq(Resolutions), NEW told, NEW cur,
         NEW F, NEW stray \in BOOLEAN, stray => ms = <<>>,
         NEW f, f = Forced(g, l, ms, told, cur, F, stray)
  PROVE  /\ f.modes \in Seq(Resolutions)
         /\ f.set /\ f.modes # <<>> => f.mode \in 1..Len(f.modes) /\ f.modes[f.mode] = f.info
         /\ (\A h \in Elems(l) : h \notin F /\ Elems(ms) \subseteq Elems(ModesOf[h])) => f.modes = ms
<1> DEFINE n == Preferred(ms, cur[g])
<1>1. ms # <<>> => n \in 1..Len(ms)
  BY PreferredFound
<1> HIDE DEF n
<1>2. CASE ms = <<>>
  <2>1. f = InStep(g, l, ms, n, told, cur, F) \/ f = NoModeLeft(told, cur)
    BY <1>2 DEF Forced, n
  <2>2. f.modes = ms
    BY <1>2, <2>1 DEF InStep, NoModeLeft
  <2> QED BY <1>2, <2>2
<1>3. CASE ms # <<>> /\ ms[n] = told
  <2>1. f = InStep(g, l, ms, n, told, cur, F)
    BY <1>3 DEF Forced, n
  <2>2. f.modes = ms /\ f.mode = n /\ f.info = told
    BY <2>1 DEF InStep
  <2> QED BY <1>1, <1>3, <2>2
<1>4. CASE ms # <<>> /\ ms[n] # told
  <2> DEFINE ok(r) == \A h \in Elems(l) : Takes(h, r, F)
             once  == Put(cur, Elems(l), ms[n], F)
             twice == Put(once, Elems(l), Default, F)
             now   == IF ok(ms[n]) THEN once ELSE twice
             r     == IF ok(ms[n]) THEN ms[n] ELSE Default
  <2>1. f = OutOfStep(g, l, ms, n, told, cur, F)
    BY <1>4 DEF Forced, n
  <2>2. /\ f.modes = IF ok(ms[n]) THEN ms ELSE [ms EXCEPT ![1] = Default]
        /\ f.mode = (IF ok(ms[n]) THEN n ELSE 1)
        /\ f.info = Told(l, count + 1, now, r)
        /\ f.set = (ok(ms[n]) \/ ok(Default))
    BY <2>1 DEF OutOfStep
  <2>3. ASSUME f.set, NEW h \in Elems(l) PROVE now[h] = r
    <3>1. h \in Gop
      BY DEF Elems
    <3>2. CASE ok(ms[n])
      BY <3>1, <3>2 DEF Put
    <3>3. CASE ~ok(ms[n])
      <4>1. ok(Default)
        BY <2>2, <2>3, <3>3
      <4> QED BY <3>1, <3>3, <4>1 DEF Put
    <3> QED BY <3>2, <3>3
  <2>4. ASSUME l # <<>> PROVE Last(l) \in Elems(l)
    <3>1. Len(l) \in Nat /\ Len(l) # 0
      BY <2>4, EmptySeq
    <3> QED BY <3>1 DEF Last, Elems
  <2>5. f.set => f.info = r
    <3> HIDE DEF now, r
    <3>1. f.info = now[Last(l)] \/ f.info = r
      BY <2>2 DEF Told
    <3>2. l = <<>> => f.info = r
      BY <2>2 DEF Told
    <3> QED BY <2>3, <2>4, <3>1, <3>2
  <2>6. Len(ms) \in Nat /\ n \in 1..Len(ms) /\ Default \in Resolutions
    <3>1. Default \in Resolutions
      BY Zenon DEF Resolutions
    <3> QED BY <1>1, <1>4, <3>1
  <2>7. ms[n] \in Elems(ms)
    BY <2>6 DEF Elems
  <2>8. (\A h \in Elems(l) : h \notin F /\ Elems(ms) \subseteq Elems(ModesOf[h])) => ok(ms[n])
    BY <2>7 DEF Takes
  <2> HIDE DEF ok, now
  <2>9. CASE ok(ms[n])
    BY <2>2, <2>5, <2>6, <2>9
  <2>10. CASE ~ok(ms[n])
    <3> DEFINE es == [ms EXCEPT ![1] = Default]
    <3>1. es \in Seq(Resolutions) /\ Len(es) = Len(ms) /\ 1 \in 1..Len(es) /\ es[1] = Default
      BY <2>6
    <3>2. f.modes = es /\ f.mode = 1 /\ (f.set => f.info = Default)
      BY <2>2, <2>5, <2>10
    <3> HIDE DEF es
    <3> QED BY <2>8, <2>10, <3>1, <3>2
  <2> QED BY <2>9, <2>10
<1> QED BY <1>2, <1>3, <1>4

-----------------------------------------------------------------------------
(* The modes that are offered, while the mode buffer can be allocated        *)

(* The mode number and what clients read of it agree.                        *)
ModeInv ==
  /\ modes \in Seq(Resolutions)
  /\ lastSet /\ modes # <<>> => mode \in 1..Len(modes) /\ modes[mode] = info

(* The outputs that were added and those that are there.                     *)
SinceInv ==
  /\ Counted /\ since \subseteq Gop /\ Listed \subseteq since
  /\ list = <<>> => since = {}

(* What is offered is what they share and, of one output, all its modes.     *)
SharedInv ==
  /\ ModesAreTheIntersection
  /\ \A g \in Gop : list # <<>> /\ since = {g} => modes = ModesOf[g]

(* The modes of the outputs are what GopAssumption says.                     *)
LEMMA OwnModes ==
  \A g \in Gop : ModesOf[g] \in Seq(Resolutions) /\ Elems(ModesOf[g]) \subseteq Resolutions
<1> SUFFICES ASSUME NEW g \in Gop PROVE ModesOf[g] \in Seq(Resolutions) /\ Elems(ModesOf[g]) \subseteq Resolutions
  OBVIOUS
<1>1. ModesOf[g] \in Seq(Resolutions)
  BY GopAssumption
<1> QED BY <1>1 DEF Elems

(* A console that is started leaves the modes of ms, where it is taken.      *)
LEMMA StartForces ==
  ASSUME ListInv, ModeInv, NEW g \in Gop \ Listed, NEW F, NEW T,
         NEW anew \in BOOLEAN, NEW stray \in BOOLEAN, Start(g, F, T, anew, stray),
         NEW ms, ms = IF count = 0 THEN ModesOf[g] ELSE Intersected(g)
  PROVE  /\ ModeInv'
         /\ count' = count + 1 /\ since' = since \cup {g}
         /\ list' \in Seq(Gop) /\ Len(list') = Len(list) + 1 /\ Listed' = Listed \cup {g}
         /\ (\A h \in Listed' : h \notin F /\ Elems(ms) \subseteq Elems(ModesOf[h])) => modes' = ms
<1> DEFINE cur   == IF anew THEN [current EXCEPT ![g] = Home[g]] ELSE current
           l     == Append(list, g)
           told  == IF count = 0 THEN cur[g] ELSE info
           force == Forced(g, l, IF count = 0 THEN ModesOf[g] ELSE Intersected(g), told, cur, F, stray)
<1>1. /\ list' = l /\ count' = count + 1 /\ since' = since \cup {g}
      /\ modes' = force.modes /\ mode' = force.mode /\ info' = force.info /\ lastSet' = force.set
      /\ stray => count # 0 /\ Intersected(g) = <<>>
  BY DEF Start
<1>2. l \in Seq(Gop) /\ Len(l) = Len(list) + 1 /\ Listed' = Listed \cup {g} /\ Listed' = Elems(l)
  BY <1>1, StartLists DEF Starts, Listed
<1>3. ms \in Seq(Resolutions) /\ (stray => ms = <<>>)
  BY <1>1, OwnModes, IntersectedIs DEF ModeInv
<1> HIDE DEF cur, told, l
<1>4. force = Forced(g, l, ms, told, cur, F, stray)
  OBVIOUS
<1> HIDE DEF force
<1>5. /\ force.modes \in Seq(Resolutions)
      /\ force.set /\ force.modes # <<>> =>
           force.mode \in 1..Len(force.modes) /\ force.modes[force.mode] = force.info
      /\ (\A h \in Elems(l) : h \notin F /\ Elems(ms) \subseteq Elems(ModesOf[h])) => force.modes = ms
  BY <1>2, <1>3, <1>4, ForcedOffers
<1>6. ModeInv'
  BY <1>1, <1>5 DEF ModeInv
<1> QED BY <1>1, <1>2, <1>5, <1>6

(* A mode that is set with success is that of every output.                  *)
LEMMA SetModeSets ==
  ASSUME ListInv, NEW n \in 1..MaxMode, NEW F, SetMode(n, F), lastSet'
  PROVE  /\ \A g \in Listed : current'[g] = modes[n]
         /\ info' = modes[n]
<1>1. /\ current' = Put(current, Listed, modes[n], F)
      /\ info' = Told(list, count, current', modes[n])
      /\ \A g \in Listed : Takes(g, modes[n], F)
  BY DEF SetMode
<1>2. ASSUME NEW g \in Listed PROVE current'[g] = modes[n]
  <2>1. g \in Gop
    BY DEF Listed, Elems, ListInv
  <2> QED BY <1>1, <2>1 DEF Put
<1>3. ASSUME list # <<>> PROVE Last(list) \in Listed
  <2>1. Len(list) \in Nat /\ Len(list) # 0
    BY <1>3, EmptySeq DEF ListInv
  <2> QED BY <2>1 DEF Last, Elems, Listed, ListInv
<1>4. info' = current'[Last(list)] \/ info' = modes[n]
  BY <1>1 DEF Told
<1>5. list = <<>> => info' = modes[n]
  BY <1>1 DEF Told
<1> QED BY <1>2, <1>3, <1>4, <1>5

LEMMA ModeStep == ~MayRunOut /\ ListInv /\ ModeInv /\ [Next]_vars => ModeInv'
<1> SUFFICES ASSUME ~MayRunOut, ListInv, ModeInv, [Next]_vars PROVE ModeInv'
  OBVIOUS
<1>1. ASSUME NEW g, NEW F, NEW T, StartWithoutBuffer(g, F, T) PROVE FALSE
  BY <1>1 DEF StartWithoutBuffer
<1>2. CASE \E g \in Gop \ Listed : \E F \in SUBSET FlakyStart, T \in SUBSET (Listed \cup {g}) :
             \E anew, stray \in BOOLEAN : Start(g, F, T, anew, stray)
  <2>1. PICK g \in Gop \ Listed : \E F \in SUBSET FlakyStart, T \in SUBSET (Listed \cup {g}) :
             \E anew, stray \in BOOLEAN : Start(g, F, T, anew, stray)
    BY <1>2
  <2> QED BY <2>1, StartForces
<1>3. ASSUME UNCHANGED <<modes, mode, info, lastSet>> PROVE ModeInv'
  BY <1>3 DEF ModeInv
<1>4. ASSUME NEW g \in Gop, Stop(g) PROVE ModeInv'
  BY <1>3, <1>4 DEF Stop
<1>5. ASSUME NEW n \in 1..MaxMode, NEW F, SetMode(n, F) PROVE ModeInv'
  <2>1. modes' = modes /\ mode' = n
    BY <1>5 DEF SetMode
  <2>2. lastSet' => info' = modes[n]
    BY <1>5, SetModeSets
  <2> QED BY <2>1, <2>2 DEF ModeInv, MaxMode
<1>6. ASSUME NEW T, NEW F, TextSetMode(T, F) PROVE ModeInv'
  BY <1>3, <1>6 DEF TextSetMode, splitterVars
<1>7. ASSUME NEW p \in Pictures, NEW F, Draw(p, F) PROVE ModeInv'
  BY <1>3, <1>7 DEF Draw, splitterVars
<1>8. ASSUME NEW F, Read(F) PROVE ModeInv'
  BY <1>3, <1>8 DEF Read, splitterVars
<1>9. CASE UNCHANGED vars
  BY <1>3, <1>9 DEF vars, splitterVars
<1> QED BY <1>1, <1>2, <1>4, <1>5, <1>6, <1>7, <1>8, <1>9 DEF Next

LEMMA ModeInit == Init => ModeInv
<1> SUFFICES ASSUME Init PROVE ModeInv
  OBVIOUS
<1>1. Default \in Resolutions
  BY Zenon DEF Resolutions
<1>2. <<Default>> \in Seq(Resolutions) /\ Len(<<Default>>) = 1 /\ <<Default>>[1] = Default
  BY <1>1
<1> QED BY <1>2 DEF Init, ModeInv

(* For any outputs and modes, whichever outputs fail to set a mode, also     *)
(* while a console is added: unless the last SetMode failed, the mode number *)
(* is one of the buffer and the information that clients read is that of the *)
(* mode under it, when the mode buffer can always be allocated.              *)
THEOREM CurrentMode ==
  ASSUME ~MayRunOut
  PROVE  GopSpec => []CurrentModeIsOffered
<1>1. ModeInv => CurrentModeIsOffered
  <2> SUFFICES ASSUME ModeInv, installed /\ lastSet /\ MaxMode > 0
               PROVE  mode \in 1..MaxMode /\ modes[mode] = info
    BY DEF CurrentModeIsOffered
  <2>1. modes # <<>>
    BY EmptyElems DEF MaxMode
  <2> QED BY <2>1 DEF ModeInv, MaxMode
<1> QED BY <1>1, ListInit, ListStep, ModeInit, ModeStep, PTL DEF GopSpec

(* What else the steps do to the outputs that were added.                    *)
LEMMA SinceUnlessStarted ==
  ASSUME ListInv, SinceInv, \/ \E g \in Gop : Stop(g)
                            \/ Draws \/ UNCHANGED vars
  PROVE  /\ SinceInv' /\ modes' = modes
         /\ list' # <<>> => list # <<>> /\ since' = since
<1>1. CASE \E g \in Gop : Stop(g)
  <2>1. PICK g \in Gop : Stop(g)
    BY <1>1
  <2>2. /\ count' = count - 1 /\ modes' = modes
        /\ since' = IF Len(list) = 1 THEN {} ELSE since
    BY <2>1 DEF Stop
  <2>3. /\ list' \in Seq(Gop) /\ Len(list') = Len(list) - 1 /\ Listed' = Listed \ {g}
        /\ Len(list) \in Nat /\ g \in Listed
    BY <2>1, StopLists DEF ListInv
  <2>4. CASE Len(list) = 1
    <3>1. list' = <<>>
      BY <2>3, <2>4, EmptySeq
    <3>2. Listed' = {}
      BY <3>1, EmptyElems DEF Listed
    <3> QED BY <2>2, <2>3, <2>4, <3>1, <3>2 DEF SinceInv, Counted
  <2>5. CASE Len(list) # 1
    <3>1. list # <<>> /\ list' # <<>>
      BY <2>3, <2>5, EmptyElems
    <3> QED BY <2>2, <2>3, <2>5, <3>1 DEF SinceInv, Counted
  <2> QED BY <2>4, <2>5
<1>2. CASE Draws \/ UNCHANGED vars
  <2>1. UNCHANGED <<list, count, since, modes>>
    BY <1>2 DEF Draws, SetMode, TextSetMode, Draw, Read, splitterVars, vars
  <2> QED BY <2>1 DEF SinceInv, Counted, Listed
<1> QED BY <1>1, <1>2

(* An output joins those that were added, and what is offered is theirs.     *)
LEMMA StartShares ==
  ASSUME ListInv, ModeInv, SinceInv, SharedInv, NEW g \in Gop \ Listed, NEW T,
         NEW anew \in BOOLEAN, NEW stray \in BOOLEAN, Start(g, {}, T, anew, stray)
  PROVE  SinceInv' /\ SharedInv'
<1> DEFINE ms == IF count = 0 THEN ModesOf[g] ELSE Intersected(g)
           of(G) == {r \in Resolutions : \A h \in G : r \in Elems(ModesOf[h])}
<1>1. /\ count' = count + 1 /\ since' = since \cup {g}
      /\ list' \in Seq(Gop) /\ Len(list') = Len(list) + 1 /\ Listed' = Listed \cup {g}
      /\ (\A h \in Listed' : h \notin {} /\ Elems(ms) \subseteq Elems(ModesOf[h])) => modes' = ms
  BY StartForces
<1>2. /\ Len(list) \in Nat /\ count = Len(list) /\ since \subseteq Gop /\ Listed \subseteq since
      /\ (list = <<>> => since = {}) /\ g \in Gop
  BY DEF SinceInv, Counted, ListInv
<1>3. list = <<>> <=> count = 0
  BY <1>2, EmptySeq DEF ListInv
<1>4. Len(list') # 0
  BY <1>1, <1>2
<1>5. list' # <<>>
  BY <1>4, EmptyElems
<1>6. SinceInv'
  BY <1>1, <1>2, <1>5 DEF SinceInv, Counted
<1>7. Elems(ms) = of(since') /\ (count # 0 => Distinct(ms))
  <2>1. CASE count = 0
    <3>1. since' = {g} /\ ms = ModesOf[g] /\ Elems(ModesOf[g]) \subseteq Resolutions
      BY <1>1, <1>2, <1>3, <2>1, OwnModes
    <3> QED BY <2>1, <3>1
  <2>2. CASE count # 0
    <3>1. Elems(modes) = of(since)
      BY <1>3, <2>2 DEF SharedInv, ModesAreTheIntersection
    <3>2. Distinct(ms) /\ Elems(ms) = Elems(modes) \cap Elems(ModesOf[g])
      BY <2>2, IntersectedIs DEF ModeInv
    <3> QED BY <1>1, <3>1, <3>2
  <2> QED BY <2>1, <2>2
<1> HIDE DEF ms
<1>8. modes' = ms
  <2>1. \A h \in Listed' : h \in since'
    BY <1>1, <1>2
  <2> QED BY <1>1, <1>7, <2>1
<1>9. Cardinality(since') > 1 => count # 0
  <2> SUFFICES ASSUME count = 0 PROVE ~(Cardinality(since') > 1)
    OBVIOUS
  <2>1. since' = {g}
    BY <1>1, <1>2, <1>3
  <2>2. Cardinality({g}) = 1
    BY FS_Singleton
  <2> QED BY <2>1, <2>2
<1>10. ModesAreTheIntersection'
  BY <1>7, <1>8, <1>9 DEF ModesAreTheIntersection
<1>11. ASSUME NEW h \in Gop, since' = {h} PROVE modes' = ModesOf[h]
  <2>1. h = g
    BY <1>1, <1>11
  <2>2. count = 0
    <3> SUFFICES ASSUME count # 0 PROVE FALSE
      OBVIOUS
    <3>1. Len(list) \in Nat /\ Len(list) # 0
      BY <1>2
    <3>2. list[1] \in Listed
      BY <3>1 DEF Listed, Elems, ListInv
    <3> QED BY <1>1, <1>2, <1>11, <2>1, <3>2
  <2> QED BY <1>8, <2>1, <2>2 DEF ms
<1> QED BY <1>6, <1>10, <1>11 DEF SharedInv

LEMMA SharedStep ==
  ASSUME ~MayRunOut, FlakyStart = {}
  PROVE  ListInv /\ ModeInv /\ SinceInv /\ SharedInv /\ [Next]_vars => SinceInv' /\ SharedInv'
<1> SUFFICES ASSUME ListInv, ModeInv, SinceInv, SharedInv, [Next]_vars PROVE SinceInv' /\ SharedInv'
  OBVIOUS
<1>1. ASSUME NEW g, NEW F, NEW T, StartWithoutBuffer(g, F, T) PROVE FALSE
  BY <1>1 DEF StartWithoutBuffer
<1>2. CASE \E g \in Gop \ Listed : \E F \in SUBSET FlakyStart, T \in SUBSET (Listed \cup {g}) :
             \E anew, stray \in BOOLEAN : Start(g, F, T, anew, stray)
  <2>1. PICK g \in Gop \ Listed : \E F \in SUBSET FlakyStart, T \in SUBSET (Listed \cup {g}) :
             \E anew, stray \in BOOLEAN : Start(g, F, T, anew, stray)
    BY <1>2
  <2>2. PICK T : \E anew, stray \in BOOLEAN : Start(g, {}, T, anew, stray)
    <3>1. SUBSET FlakyStart = {{}}
      OBVIOUS
    <3> QED BY <2>1, <3>1
  <2> QED BY <2>1, <2>2, StartShares
<1>3. CASE (\E g \in Gop : Stop(g)) \/ Draws \/ UNCHANGED vars
  <2>1. /\ SinceInv' /\ modes' = modes
        /\ list' # <<>> => list # <<>> /\ since' = since
    BY <1>3, SinceUnlessStarted
  <2> QED BY <2>1 DEF SharedInv, ModesAreTheIntersection
<1> QED BY <1>1, <1>2, <1>3 DEF Next, Draws

LEMMA SharedInit == Init => SinceInv /\ SharedInv
BY EmptyElems DEF Init, SinceInv, Counted, Listed, SharedInv, ModesAreTheIntersection

(* For any outputs and modes, with SetMode failing as it may but not while a *)
(* console is added: the virtual output offers exactly what all outputs have *)
(* that came since there was none, each once if there are several, also      *)
(* after removals, when the mode buffer can always be allocated.             *)
THEOREM SharedModes ==
  ASSUME ~MayRunOut, FlakyStart = {}
  PROVE  GopSpec => []ModesAreTheIntersection
<1>1. SharedInv => ModesAreTheIntersection
  BY DEF SharedInv
<1>2. ListInv /\ ModeInv /\ [Next]_vars => ModeInv'
  BY ModeStep
<1> QED BY <1>1, <1>2, ListInit, ListStep, ModeInit, SharedInit, SharedStep, PTL DEF GopSpec

(* And a SetMode that succeeds, of a number that QueryMode told of, puts     *)
(* every output in the mode that it told, until one is removed.              *)
THEOREM ToldMode ==
  ASSUME ~MayRunOut, FlakyStart = {}
  PROVE  GopSpec => QueryTellsTheMode
<1>1. ASSUME ListInv, SinceInv, SharedInv, NEW n \in 1..MaxMode, NEW F \in SUBSET Flaky,
             SetMode(n, F), lastSet', since = Listed, NEW g \in Listed
      PROVE  current'[g] = Query(n)
  <2>1. current'[g] = modes[n]
    BY <1>1, SetModeSets
  <2>2. CASE count = 1 /\ list # <<>>
    <3>1. Listed = {list[1]} /\ list[1] \in Gop
      <4>1. Len(list) = 1 /\ list \in Seq(Gop)
        BY <1>1, <2>2 DEF SinceInv, Counted, ListInv
      <4> QED BY <4>1 DEF Listed, Elems
    <3>2. modes = ModesOf[list[1]]
      BY <1>1, <2>2, <3>1 DEF SharedInv
    <3> QED BY <2>1, <2>2, <3>2 DEF Query
  <2> QED BY <2>1, <2>2 DEF Query
<1>2. ListInv /\ SinceInv /\ SharedInv /\ [Next]_vars =>
        [\A n \in 1..MaxMode, F \in SUBSET Flaky :
           SetMode(n, F) /\ lastSet' /\ since = Listed => \A g \in Listed : current'[g] = Query(n)]_vars
  BY <1>1
<1>3. ListInv /\ ModeInv /\ [Next]_vars => ModeInv'
  BY ModeStep
<1> QED BY <1>2, <1>3, ListInit, ListStep, ModeInit, SharedInit, SharedStep, PTL DEF GopSpec, QueryTellsTheMode

=============================================================================
