-------------------------- MODULE SerialPortsProofs --------------------------
(***************************************************************************)
(* For any number of task priority levels, the transmitter of the UART has  *)
(* room for whoever saw it empty, and the accesses of Write and Read        *)
(* implement the serial line; for any size of the region and any number of  *)
(* levels, the accesses to the ring in memory implement the rolling log;    *)
(* for any screen and any messages, the page ends in what was written last  *)
(* and the latest glyph can be read.                                        *)
(***************************************************************************)
EXTENDS UartPort, RingPort, ScreenPort, CommonLemmas

-----------------------------------------------------------------------------
(* The UART                                                                  *)

(* The levels that saw the transmitter empty and have not written since.     *)
Senders == {l \in Level : op[l] = "write" /\ ready[l]}

(* Each of them may still write one byte: this is what keeps the bytes in    *)
(* the transmitter few.                                                      *)
UartInv == UartTypeOK /\ Len(fifo) + Cardinality(Senders) <= Levels

(* Senders is finite, and there are at most Levels of them.                  *)
LEMMA SendersAreFew ==
  IsFiniteSet(Senders) /\ Cardinality(Senders) \in Nat /\ Cardinality(Senders) <= Levels
<1>1. IsFiniteSet(Level) /\ Cardinality(Level) = Levels
  BY LevelAssumption, FS_Interval, SMT DEF Level
<1>2. Senders \subseteq Level
  BY DEF Senders
<1>3. IsFiniteSet(Senders) /\ Cardinality(Senders) <= Cardinality(Level)
  BY <1>1, <1>2, FS_Subset
<1>4. Cardinality(Senders) \in Nat
  BY <1>3, FS_CardinalityType
<1> QED BY <1>1, <1>3, <1>4

(* A byte more in the transmitter, unless it was full.                       *)
LEMMA TransmittedType ==
  ASSUME fifo \in Seq(Level \X Bytes), NEW l \in Level, NEW byte \in Bytes
  PROVE  /\ Transmitted(l, byte) \in Seq(Level \X Bytes)
         /\ Len(Transmitted(l, byte)) <= Len(fifo) + 1
<1>1. CASE Len(fifo) < FifoDepth
  BY <1>1 DEF Transmitted
<1>2. CASE ~(Len(fifo) < FifoDepth)
  BY <1>2, FifoAssumption DEF Transmitted
<1> QED BY <1>1, <1>2

LEMMA TailType ==
  ASSUME NEW S, NEW s \in Seq(S), s # <<>>
  PROVE  Tail(s) \in Seq(S) /\ (Len(s) # 1 => Tail(s) # <<>>)
<1>1. Tail(s) \in Seq(S) /\ Len(Tail(s)) = Len(s) - 1
  BY HeadTailProperties
<1>2. Len(s) \in Nat /\ Len(<<>>) = 0
  BY LenProperties, EmptySeq
<1>3. Len(s) # 1 => Len(Tail(s)) # Len(<<>>)
  BY <1>1, <1>2
<1> QED BY <1>1, <1>3

LEMMA UartInitOK == UartInit => UartInv
<1> SUFFICES ASSUME UartInit PROVE UartInv
  OBVIOUS
<1>1. UartTypeOK
  BY DEF UartInit, UartTypeOK, None
<1>2. Senders = {}
  BY DEF Senders, UartInit
<1>3. Len(fifo) + Cardinality(Senders) <= Levels
  BY <1>2, FS_EmptySet, LevelAssumption DEF UartInit
<1> QED BY <1>1, <1>3 DEF UartInv

(* Beginning a call makes nobody ready.                                      *)
LEMMA BeginStep ==
  ASSUME UartInv, NEW l \in Level, NEW function \in {"write", "read"}, Begin(l, function),
         UNCHANGED <<ready, returned, fifo>>
  PROVE  /\ op' \in [Level -> {"none", "write", "read"}]
         /\ ~ready[l]
         /\ \A k \in Level : ready'[k] => op'[k] # "none"
         /\ \A k \in Level \ {l} : op'[k] = op[k]
         /\ op'[l] = function
         /\ Len(fifo') + Cardinality(Senders') <= Levels
<1>1. op[l] = "none" /\ ~ready[l]
  BY LevelAssumption DEF UartInv, UartTypeOK, Begin, Idle, Level
<1>2. /\ op' \in [Level -> {"none", "write", "read"}]
      /\ \A k \in Level \ {l} : op'[k] = op[k]
      /\ op'[l] = function
  BY DEF UartInv, UartTypeOK, Begin
<1>3. Senders' = Senders
  BY <1>1, <1>2 DEF Senders
<1>4. \A k \in Level : ready'[k] => op'[k] # "none"
  BY <1>1, <1>2 DEF UartInv, UartTypeOK
<1> QED BY <1>1, <1>2, <1>3, <1>4 DEF UartInv

LEMMA UartStep == UartInv /\ [UartNext]_uartVars => UartInv'
<1> SUFFICES ASSUME UartInv, [UartNext]_uartVars PROVE UartInv'
  OBVIOUS
<1> USE LevelAssumption DEF UartInv
<1>1. CASE Carry
  <2>1. Senders' = Senders
    BY <1>1 DEF Carry, callVars, Senders
  <2>2. fifo' \in Seq(Level \X Bytes) /\ Len(fifo') = Len(fifo) - 1
    BY <1>1 DEF Carry, UartTypeOK
  <2>3. UartTypeOK'
    BY <1>1, <2>2 DEF Carry, callVars, UartTypeOK
  <2>4. Cardinality(Senders') = Cardinality(Senders) /\ Len(fifo) \in Nat
    BY <2>1 DEF UartTypeOK
  <2> QED BY <2>2, <2>3, <2>4, SendersAreFew
<1>2. ASSUME NEW l \in Level, SeeEmpty(l) PROVE UartInv'
  <2>1. UartTypeOK'
    BY <1>2 DEF SeeEmpty, callVars, UartTypeOK
  <2>2. fifo' = <<>>
    BY <1>2 DEF SeeEmpty
  <2>3. Senders' = Senders \cup {l}
    BY <1>2 DEF SeeEmpty, callVars, Senders, UartTypeOK
  <2>4. Senders' \subseteq Level
    BY <2>3 DEF Senders
  <2>5. IsFiniteSet(Level) /\ Cardinality(Level) = Levels
    BY FS_Interval, SMT DEF Level
  <2>6. Cardinality(Senders') <= Levels /\ Cardinality(Senders') \in Nat
    BY <2>4, <2>5, FS_Subset, FS_CardinalityType
  <2> QED BY <2>1, <2>2, <2>6
<1>3. ASSUME NEW l \in Level, Send(l) PROVE UartInv'
  <2> DEFINE byte == IF ReturnDue(l) THEN Return ELSE Head(rest[l])
  <2>1. rest[l] \in Seq(Bytes) /\ rest[l] # <<>> /\ l \in Senders
    BY <1>3 DEF Send, UartTypeOK, Senders
  <2>2. byte \in Bytes
    BY <2>1, ByteAssumption
  <2>3. fifo' = Transmitted(l, byte)
    BY <1>3 DEF Send
  <2>4. fifo' \in Seq(Level \X Bytes) /\ Len(fifo') <= Len(fifo) + 1
    BY <2>2, <2>3, TransmittedType DEF UartTypeOK
  <2>5. Senders' = Senders \ {l}
    BY <1>3 DEF Send, Senders, UartTypeOK
  <2>6. Cardinality(Senders') = Cardinality(Senders) - 1
    BY <2>1, <2>5, SendersAreFew, FS_RemoveElement
  <2>7. Tail(rest[l]) \in Seq(Bytes) /\ (Len(rest[l]) # 1 => Tail(rest[l]) # <<>>)
    BY <2>1, TailType
  <2>8. /\ rest' \in [Level -> Seq(Bytes)]
        /\ op' \in [Level -> {"none", "write", "read"}]
        /\ ready' \in [Level -> BOOLEAN] /\ returned' \in [Level -> BOOLEAN]
        /\ left' = left
    BY <1>3, <2>7 DEF Send, UartTypeOK, ReturnDue
  <2>9. \A k \in Level : (ready'[k] => op'[k] # "none") /\ (op'[k] = "write" => rest'[k] # <<>>)
    BY <1>3, <2>1, <2>7 DEF Send, UartTypeOK
  <2>10. \A k \in Level : op'[k] = "read" => left'[k] > 0
    BY <1>3, <2>8 DEF Send, UartTypeOK
  <2>11. UartTypeOK'
    BY <2>4, <2>8, <2>9, <2>10 DEF UartTypeOK
  <2> QED BY <2>4, <2>6, <2>11, SendersAreFew DEF UartTypeOK
<1>4. ASSUME NEW l \in Level, SeeReceived(l) PROVE UartInv'
  <2>1. Senders' = Senders
    BY <1>4 DEF SeeReceived, callVars, Senders, UartTypeOK
  <2>2. UartTypeOK' /\ fifo' = fifo
    BY <1>4 DEF SeeReceived, callVars, UartTypeOK
  <2> QED BY <2>1, <2>2
<1>5. ASSUME NEW l \in Level, NEW byte \in InRBR, Receive(l, byte) PROVE UartInv'
  <2>1. Senders' = Senders /\ fifo' = fifo
    BY <1>5 DEF Receive, Senders, UartTypeOK
  <2>2. /\ left' \in [Level -> Nat] /\ left'[l] = left[l] - 1
        /\ \A k \in Level \ {l} : left'[k] = left[k]
    BY <1>5 DEF Receive, UartTypeOK
  <2>3. UartTypeOK'
    BY <1>5, <2>2 DEF Receive, UartTypeOK
  <2> QED BY <2>1, <2>3
<1>6. ASSUME NEW l \in Level, NEW message \in Messages, Write(l, message) PROVE UartInv'
  <2>1. message \in Seq(Bytes) /\ message # <<>>
    BY MessageAssumption
  <2>2. /\ op' \in [Level -> {"none", "write", "read"}]
        /\ \A k \in Level : ready'[k] => op'[k] # "none"
        /\ \A k \in Level \ {l} : op'[k] = op[k]
        /\ op'[l] = "write"
        /\ Len(fifo') + Cardinality(Senders') <= Levels
    BY <1>6, BeginStep DEF Write
  <2>3. UartTypeOK'
    BY <1>6, <2>1, <2>2 DEF Write, UartTypeOK
  <2> QED BY <2>2, <2>3
<1>7. ASSUME NEW l \in Readers, NEW n \in ReadLengths, Read(l, n) PROVE UartInv'
  <2>1. n \in Nat \ {0} /\ l \in Level
    BY LengthAssumption DEF Level
  <2>2. /\ op' \in [Level -> {"none", "write", "read"}]
        /\ \A k \in Level : ready'[k] => op'[k] # "none"
        /\ \A k \in Level \ {l} : op'[k] = op[k]
        /\ op'[l] = "read"
        /\ Len(fifo') + Cardinality(Senders') <= Levels
    BY <1>7, <2>1, BeginStep DEF Read
  <2>3. /\ left' \in [Level -> Nat] /\ left'[l] = n
        /\ \A k \in Level \ {l} : left'[k] = left[k]
    BY <1>7, <2>1 DEF Read, UartTypeOK
  <2>4. UartTypeOK'
    BY <1>7, <2>1, <2>2, <2>3 DEF Read, UartTypeOK
  <2> QED BY <2>2, <2>4
<1>8. ASSUME NEW byte \in Bytes, Arrive(byte) PROVE UartInv'
  BY <1>8 DEF Arrive, callVars, UartTypeOK, Senders
<1>9. CASE UNCHANGED uartVars
  BY <1>9 DEF uartVars, callVars, UartTypeOK, Senders
<1> QED BY <1>1, <1>2, <1>3, <1>4, <1>5, <1>6, <1>7, <1>8, <1>9 DEF UartNext, Step

LEMMA RoomFollows == UartInv => UartTypeOK /\ RoomWhenReady
<1> SUFFICES ASSUME UartInv, FifoDepth >= Levels,
                    NEW l \in Level, op[l] = "write", ready[l]
             PROVE  Len(fifo) < FifoDepth
  BY DEF RoomWhenReady, UartInv
<1>1. l \in Senders
  BY DEF Senders
<1>2. Cardinality(Senders) # 0
  BY <1>1, SendersAreFew, FS_EmptySet
<1> QED BY <1>2, SendersAreFew, LevelAssumption, FifoAssumption DEF UartInv, UartTypeOK

(* In every behaviour of the UART port, for any number of levels, whoever    *)
(* saw the transmitter empty finds room in it when it writes, if the FIFO    *)
(* has a place for each level (SerialPortWrite).                             *)
THEOREM TransmitterHasRoom == UartSpec => [](UartTypeOK /\ RoomWhenReady)
BY RoomFollows, UartInitOK, UartStep, PTL DEF UartSpec

-----------------------------------------------------------------------------
(* FlattenSeq                                                                *)

(* The function that FlattenSeq is defined with, up to n.                    *)
FlattensTo(g, ss, n) ==
  g = [i \in 1..n |-> IF i = 1 THEN ss[i] ELSE g[i-1] \o ss[i]]

LEMMA FlattenFirst ==
  ASSUME NEW ss, NEW n, NEW g, FlattensTo(g, ss, n), 1 \in 1..n
  PROVE  g[1] = ss[1]
BY Zenon DEF FlattensTo

LEMMA FlattenStep ==
  ASSUME NEW ss, NEW n, NEW g, FlattensTo(g, ss, n), NEW i \in 1..n, i # 1
  PROVE  g[i] = g[i-1] \o ss[i]
BY Zenon DEF FlattensTo

LEMMA FlattenExists ==
  ASSUME NEW S, NEW ss \in Seq(Seq(S)), NEW n \in 1..Len(ss)
  PROVE  \E g \in [1..n -> Seq(S)] : FlattensTo(g, ss, n)
<1> DEFINE T == {m \in Nat : m + 1 <= Len(ss) =>
                   \E g \in [1..m+1 -> Seq(S)] : FlattensTo(g, ss, m + 1)}
<1>0. Len(ss) \in Nat /\ \A i \in 1..Len(ss) : ss[i] \in Seq(S)
  OBVIOUS
<1>1. 0 \in T
  <2> SUFFICES ASSUME 1 <= Len(ss) PROVE \E g \in [1..1 -> Seq(S)] : FlattensTo(g, ss, 1)
    BY SMT
  <2> DEFINE g == [i \in 1..1 |-> ss[1]]
  <2>1. ss[1] \in Seq(S)
    BY <1>0
  <2>2. \A i \in 1..1 : i = 1
    OBVIOUS
  <2>3. g \in [1..1 -> Seq(S)] /\ FlattensTo(g, ss, 1)
    BY <2>1, <2>2 DEF FlattensTo
  <2> QED BY <2>3
<1>2. ASSUME NEW m \in Nat, m \in T PROVE m + 1 \in T
  <2> SUFFICES ASSUME (m + 1) + 1 <= Len(ss)
               PROVE  \E g \in [1..(m+1)+1 -> Seq(S)] : FlattensTo(g, ss, (m + 1) + 1)
    BY SMT
  <2>1. PICK g \in [1..m+1 -> Seq(S)] : FlattensTo(g, ss, m + 1)
    BY <1>0, <1>2
  <2> DEFINE k == m + 1
             h == [i \in 1..k+1 |-> IF i <= k THEN g[i] ELSE g[k] \o ss[k+1]]
  <2>2. k \in Nat /\ k >= 1 /\ k + 1 \in 1..Len(ss) /\ g \in [1..k -> Seq(S)] /\ FlattensTo(g, ss, k)
    BY <1>0, <2>1
  <2> HIDE DEF k
  <2>3. g[k] \in Seq(S) /\ ss[k+1] \in Seq(S) /\ g[k] \o ss[k+1] \in Seq(S)
    BY <1>0, <2>2
  <2>4. h \in [1..k+1 -> Seq(S)]
    BY <2>2, <2>3
  <2>5. ASSUME NEW i \in 1..k+1 PROVE h[i] = IF i = 1 THEN ss[i] ELSE h[i-1] \o ss[i]
    <3>1. CASE i <= k
      <4>1. i \in 1..k /\ h[i] = g[i] /\ (i # 1 => i - 1 \in 1..k+1 /\ h[i-1] = g[i-1])
        BY <2>2, <3>1
      <4>2. g[i] = IF i = 1 THEN ss[i] ELSE g[i-1] \o ss[i]
        <5>1. CASE i = 1
          BY <2>2, <4>1, <5>1, FlattenFirst
        <5>2. CASE i # 1
          <6>1. FlattensTo(g, ss, k) /\ i \in 1..k /\ i # 1
            BY <2>2, <4>1, <5>2
          <6>2. g[i] = g[i-1] \o ss[i]
            BY <6>1, FlattenStep, Zenon
          <6> QED BY <5>2, <6>2
        <5> QED BY <5>1, <5>2
      <4> HIDE DEF h
      <4> QED BY <4>1, <4>2
    <3>2. CASE ~(i <= k)
      <4>1. i = k + 1 /\ i # 1 /\ i - 1 = k /\ k \in 1..k+1 /\ k <= k
        BY <2>2, <3>2
      <4>2. h[i] = g[k] \o ss[k+1] /\ h[k] = g[k]
        BY <3>2, <4>1
      <4> HIDE DEF h
      <4> QED BY <4>1, <4>2
    <3> QED BY <3>1, <3>2
  <2>6. FlattensTo(h, ss, k + 1)
    <3> HIDE DEF h
    <3>1. h = [i \in 1..k+1 |-> h[i]]
      BY <2>4
    <3> QED BY <2>5, <3>1, Zenon DEF FlattensTo
  <2> HIDE DEF h
  <2> QED BY <2>4, <2>6 DEF k
<1> HIDE DEF T
<1>3. Nat \subseteq T
  BY <1>1, <1>2, SetInduction
<1>4. n - 1 \in T /\ (n - 1) + 1 = n /\ n <= Len(ss)
  BY <1>0, <1>3
<1> QED BY <1>4 DEF T

(* The function is determined by the lists it flattens.                      *)
SameUpTo(s, t, n) == \A i \in 1..n : s[i] = t[i]

LEMMA FlattenUnique ==
  ASSUME NEW ss, NEW tt, NEW m \in Nat, NEW n \in Nat, m <= n, SameUpTo(ss, tt, m),
         NEW g, FlattensTo(g, ss, m), NEW h, FlattensTo(h, tt, n)
  PROVE  SameUpTo(g, h, m)
<1> DEFINE T == {k \in Nat : k + 1 <= m => g[k+1] = h[k+1]}
<1>1. 0 \in T
  <2> SUFFICES ASSUME 1 <= m PROVE g[1] = h[1]
    BY SMT
  <2>1. 1 \in 1..m /\ 1 \in 1..n
    OBVIOUS
  <2>2. g[1] = ss[1] /\ h[1] = tt[1]
    BY <2>1, FlattenFirst
  <2> QED BY <2>1, <2>2 DEF SameUpTo
<1>2. ASSUME NEW k \in Nat, k \in T PROVE k + 1 \in T
  <2> SUFFICES ASSUME (k + 1) + 1 <= m PROVE g[(k+1)+1] = h[(k+1)+1]
    OBVIOUS
  <2> DEFINE i == (k + 1) + 1
  <2>1. i \in 1..m /\ i \in 1..n /\ i # 1 /\ i - 1 = k + 1
    OBVIOUS
  <2>2. g[i-1] = h[i-1]
    BY <1>2, <2>1
  <2> HIDE DEF i
  <2>3. g[i] = g[i-1] \o ss[i] /\ h[i] = h[i-1] \o tt[i]
    <3>1. g[i] = g[i-1] \o ss[i]
      BY <2>1, FlattenStep
    <3>2. h[i] = h[i-1] \o tt[i]
      BY <2>1, FlattenStep
    <3> QED BY <3>1, <3>2
  <2>4. g[i] = h[i]
    BY <2>1, <2>2, <2>3 DEF SameUpTo
  <2> QED BY <2>4 DEF i
<1> HIDE DEF T
<1>3. Nat \subseteq T
  BY <1>1, <1>2, SetInduction
<1>4. ASSUME NEW i \in 1..m PROVE g[i] = h[i]
  <2>1. i - 1 \in T /\ (i - 1) + 1 = i /\ i <= m
    BY <1>3
  <2> QED BY <2>1 DEF T
<1> QED BY <1>4 DEF SameUpTo

LEMMA FlattenFacts ==
  ASSUME NEW S, NEW ss \in Seq(Seq(S)), ss # <<>>
  PROVE  \E g \in [1..Len(ss) -> Seq(S)] :
           FlattensTo(g, ss, Len(ss)) /\ FlattenSeq(ss) = g[Len(ss)]
<1> DEFINE f == CHOOSE h : FlattensTo(h, ss, Len(ss))
<1>1. Len(ss) \in Nat /\ Len(ss) # 0 /\ Len(ss) \in 1..Len(ss)
  OBVIOUS
<1>2. PICK g \in [1..Len(ss) -> Seq(S)] : FlattensTo(g, ss, Len(ss))
  BY <1>1, FlattenExists
<1>3. FlattensTo(f, ss, Len(ss))
  BY <1>2
<1>4. FlattenSeq(ss) = f[Len(ss)]
  BY <1>1, Zenon DEF FlattenSeq, FlattensTo
<1> HIDE DEF f
<1>5. \A i \in 1..Len(ss) : f[i] = g[i]
  <2>1. SameUpTo(ss, ss, Len(ss))
    BY DEF SameUpTo
  <2> QED BY <1>1, <1>2, <1>3, <2>1, FlattenUnique DEF SameUpTo
<1>6. f \in [1..Len(ss) -> Seq(S)]
  <2>1. f = [i \in 1..Len(ss) |-> f[i]]
    BY <1>3 DEF FlattensTo
  <2> QED BY <1>5, <2>1
<1> QED BY <1>3, <1>4, <1>6

(* What a list more adds to the end, and one in front to the beginning.      *)
LEMMA FlattenAppend ==
  ASSUME NEW S, NEW ss \in Seq(Seq(S)), NEW t \in Seq(S)
  PROVE  /\ FlattenSeq(ss) \in Seq(S)
         /\ FlattenSeq(Append(ss, t)) = FlattenSeq(ss) \o t
<1> DEFINE tt == Append(ss, t)
           n == Len(ss)
<1>1. /\ n \in Nat /\ tt \in Seq(Seq(S)) /\ tt # <<>> /\ Len(tt) = n + 1
      /\ tt[n+1] = t /\ \A i \in 1..n : ss[i] = tt[i]
  <2>1. n \in Nat /\ tt \in Seq(Seq(S)) /\ Len(tt) = n + 1
        /\ tt[n+1] = t /\ \A i \in 1..n : ss[i] = tt[i]
    OBVIOUS
  <2>2. Len(tt) # 0
    BY <2>1
  <2> HIDE DEF tt, n
  <2>3. tt # <<>>
    BY <2>2, EmptySeq
  <2> QED BY <2>1, <2>3
<1> HIDE DEF tt
<1>2. PICK h \in [1..Len(tt) -> Seq(S)] : FlattensTo(h, tt, Len(tt)) /\ FlattenSeq(tt) = h[Len(tt)]
  BY <1>1, FlattenFacts
<1>3. CASE ss = <<>>
  <2>1. FlattenSeq(ss) = <<>> /\ n = 0
    BY <1>3 DEF FlattenSeq
  <2>2. h[1] = t
    BY <1>1, <1>2, <2>1 DEF FlattensTo
  <2>3. FlattenSeq(tt) = t
    BY <1>1, <1>2, <2>1, <2>2
  <2> QED BY <2>1, <2>3, ConcatEmptySeq DEF tt
<1>4. CASE ss # <<>>
  <2>1. PICK g \in [1..n -> Seq(S)] : FlattensTo(g, ss, n) /\ FlattenSeq(ss) = g[n]
    BY <1>4, FlattenFacts
  <2>2. n \in 1..n /\ n + 1 \in 1..n+1 /\ n + 1 # 1 /\ (n + 1) - 1 = n /\ n <= n + 1
    BY <1>1, <1>4
  <2>3. g[n] = h[n]
    <3>1. n + 1 \in Nat /\ FlattensTo(h, tt, n + 1) /\ FlattensTo(g, ss, n)
      BY <1>1, <1>2, <2>1
    <3>2. n \in Nat /\ n <= n + 1 /\ \A i \in 1..n : ss[i] = tt[i]
      BY <1>1
    <3>3. SameUpTo(ss, tt, n)
      BY <3>2 DEF SameUpTo
    <3> HIDE DEF n
    <3>4. SameUpTo(g, h, n)
      BY <3>1, <3>2, <3>3, FlattenUnique
    <3> QED BY <2>2, <3>4 DEF SameUpTo
  <2>4. h[n+1] = h[n] \o tt[n+1]
    <3> HIDE DEF n
    <3>1. FlattensTo(h, tt, n + 1)
      BY <1>1, <1>2
    <3>2. h[n+1] = h[(n+1)-1] \o tt[n+1]
      BY <2>2, <3>1, FlattenStep
    <3> QED BY <2>2, <3>2
  <2>5. FlattenSeq(tt) = FlattenSeq(ss) \o t
    BY <1>1, <1>2, <2>1, <2>3, <2>4
  <2>6. FlattenSeq(ss) \in Seq(S)
    BY <2>1, <2>2
  <2> QED BY <2>5, <2>6 DEF tt
<1> QED BY <1>3, <1>4

(* Two ways to join three lists.                                             *)
Joins(s, t, st) == st = s \o t

LEMMA Regroup ==
  ASSUME NEW S, NEW a \in Seq(S), NEW b \in Seq(S), NEW c \in Seq(S),
         NEW ab, Joins(a, b, ab), NEW bc, Joins(b, c, bc), NEW abc, Joins(ab, c, abc)
  PROVE  Joins(a, bc, abc)
BY ConcatAssociative, SMT DEF Joins

LEMMA FlattenHead ==
  ASSUME NEW S, NEW ss \in Seq(Seq(S)), ss # <<>>
  PROVE  FlattenSeq(ss) = Head(ss) \o FlattenSeq(Tail(ss))
<1> DEFINE tt == Tail(ss)
           n == Len(ss)
<1>1. /\ n \in Nat /\ n >= 1 /\ tt \in Seq(Seq(S)) /\ Len(tt) = n - 1
      /\ Head(ss) = ss[1] /\ ss[1] \in Seq(S)
      /\ \A i \in 1..n-1 : tt[i] = ss[i+1]
  OBVIOUS
<1> HIDE DEF tt
<1>2. PICK g \in [1..n -> Seq(S)] : FlattensTo(g, ss, n) /\ FlattenSeq(ss) = g[n]
  BY FlattenFacts
<1>3. g[1] = ss[1]
  BY <1>1, <1>2 DEF FlattensTo
<1>4. CASE tt = <<>>
  <2>1. n = 1 /\ FlattenSeq(tt) = <<>>
    BY <1>1, <1>4 DEF FlattenSeq
  <2> QED BY <1>1, <1>2, <1>3, <2>1, ConcatEmptySeq DEF tt
<1>5. CASE tt # <<>>
  <2>1. PICK h \in [1..n-1 -> Seq(S)] : FlattensTo(h, tt, n - 1) /\ FlattenSeq(tt) = h[n-1]
    <3> HIDE DEF n
    <3>1. PICK h \in [1..Len(tt) -> Seq(S)] : FlattensTo(h, tt, Len(tt)) /\ FlattenSeq(tt) = h[Len(tt)]
      BY <1>1, <1>5, FlattenFacts
    <3> QED BY <1>1, <3>1
  <2>2. n > 1
    BY <1>1, <1>5
  <2> HIDE DEF n
  <2>3. n \in Nat /\ n >= 2 /\ ss[1] \in Seq(S) /\ \A i \in 1..n-1 : tt[i] = ss[i+1]
    BY <1>1, <2>2
  <2> DEFINE Same(m) == g[m+1] = ss[1] \o h[m]
             T == {k \in Nat : k + 2 <= n => Same(k + 1)}
  <2>4. ASSUME NEW i \in 1..n-1 PROVE g[i+1] = g[i] \o tt[i] /\ tt[i] \in Seq(S) /\ h[i] \in Seq(S)
    <3> DEFINE m == i + 1
    <3>1. m \in 1..n /\ m # 1 /\ m - 1 = i
      BY <2>3
    <3> HIDE DEF m
    <3>2. FlattensTo(g, ss, n) /\ m \in 1..n /\ m # 1
      BY <1>2, <3>1
    <3>3. g[m] = g[m-1] \o ss[m]
      BY <3>2, FlattenStep, Zenon
    <3>4. tt[i] = ss[m]
      BY <2>3 DEF m
    <3>5. g[m] = g[i] \o tt[i]
      BY <3>1, <3>3, <3>4
    <3>6. i \in 1..Len(tt)
      BY <1>1
    <3>7. tt[i] \in Seq(S)
      BY <1>1, <3>6, ElementOfSeq
    <3>8. h[i] \in Seq(S)
      BY <2>1
    <3> QED BY <3>5, <3>7, <3>8 DEF m
  <2>5. Same(1)
    <3>1. 1 \in 1..n-1
      BY <2>3
    <3>2. g[1+1] = g[1] \o tt[1]
      BY <2>4, <3>1, Zenon
    <3>3. h[1] = tt[1]
      BY <2>1, <3>1, FlattenFirst
    <3> QED BY <1>3, <3>2, <3>3, Zenon
  <2>6. ASSUME NEW j \in 1..n-2, Same(j) PROVE Same(j + 1)
    <3> DEFINE i == j + 1
    <3>1. i \in 1..n-1 /\ i # 1 /\ i - 1 = j /\ j \in 1..n-1
      BY <2>3
    <3> HIDE DEF i
    <3>2. FlattensTo(h, tt, n - 1) /\ i \in 1..n-1 /\ i # 1
      BY <2>1, <3>1
    <3>3. h[i] = h[j] \o tt[i]
      <4>1. h[i] = h[i-1] \o tt[i]
        BY <3>2, FlattenStep, Zenon
      <4> QED BY <3>1, <4>1
    <3>4. h[j] \in Seq(S) /\ tt[i] \in Seq(S) /\ g[i+1] = g[i] \o tt[i]
      BY <2>4, <3>1, Zenon
    <3>5. ss[1] \in Seq(S) /\ h[j] \in Seq(S) /\ tt[i] \in Seq(S)
      BY <2>3, <3>4
    <3>6. g[i] = ss[1] \o h[j]
      BY <2>6 DEF i
    <3>7. g[i+1] = ss[1] \o h[i]
      <4>1. ss[1] \in Seq(S)
        BY <3>5
      <4>2. h[j] \in Seq(S)
        BY <3>5
      <4>3. tt[i] \in Seq(S)
        BY <3>5
      <4>4. Joins(ss[1], h[j], g[i])
        BY <3>6, Zenon DEF Joins
      <4>5. Joins(h[j], tt[i], h[i])
        BY <3>3, Zenon DEF Joins
      <4>6. Joins(g[i], tt[i], g[i+1])
        BY <3>4, Zenon DEF Joins
      <4>7. Joins(ss[1], h[i], g[i+1])
        BY <4>1, <4>2, <4>3, <4>4, <4>5, <4>6, Regroup
      <4> QED BY <4>7, Zenon DEF Joins
    <3> QED BY <3>7 DEF i
  <2> HIDE DEF Same
  <2>7. 0 \in T
    BY <2>5
  <2>8. ASSUME NEW k \in Nat, k \in T PROVE k + 1 \in T
    <3> SUFFICES ASSUME (k + 1) + 2 <= n PROVE Same((k + 1) + 1)
      OBVIOUS
    <3>1. k + 1 \in 1..n-2 /\ k + 2 <= n
      BY <1>1
    <3>2. Same(k + 1)
      BY <2>8, <3>1
    <3> QED BY <2>6, <3>1, <3>2
  <2> HIDE DEF T
  <2>9. Nat \subseteq T
    BY <2>7, <2>8, SetInduction
  <2>10. Same(n - 1) /\ (n - 1) + 1 = n
    <3>1. n - 2 \in T /\ (n - 2) + 2 = n /\ (n - 2) + 1 = n - 1 /\ n <= n
      BY <1>1, <2>2, <2>9
    <3> QED BY <1>1, <3>1 DEF T
  <2> QED BY <1>1, <1>2, <2>1, <2>10 DEF Same, tt
<1> QED BY <1>4, <1>5

-----------------------------------------------------------------------------
(* What the line owes                                                        *)

Part(entry, l) == IF entry[1] = l THEN <<entry[2]>> ELSE <<>>

Lines(byte) == IF byte = Newline THEN <<Return, Newline>> ELSE <<byte>>

(* The bytes of a level in the transmitter, and what its call still owes.    *)
Own(f, l) == FlattenSeq([i \in DOMAIN f |-> Part(f[i], l)])

Due(r, sent) == IF sent THEN Tail(Expanded(r)) ELSE Expanded(r)

LEMMA OwedIs ==
  /\ \A l \in Level : Owed(l) = Own(fifo, l) \o Due(rest[l], returned[l])
  /\ \A l \in Level : Owed(l)' = Own(fifo', l) \o Due(rest'[l], returned'[l])
BY DEF Owed, Own, Due, Part, Expanded

(* A byte in front of a list.                                                *)
LEMMA InFront ==
  ASSUME NEW S, NEW x \in S, NEW s \in Seq(S)
  PROVE  /\ <<x>> \o s \in Seq(S) /\ <<x>> \o s # <<>>
         /\ Head(<<x>> \o s) = x /\ Tail(<<x>> \o s) = s
<1> DEFINE t == <<x>> \o s
<1>1. <<x>> \in Seq(S) /\ Len(<<x>>) = 1 /\ <<x>>[1] = x /\ Len(s) \in Nat
  OBVIOUS
<1>2. /\ t \in Seq(S) /\ Len(t) = 1 + Len(s)
      /\ \A i \in 1..1 + Len(s) : t[i] = IF i <= 1 THEN <<x>>[i] ELSE s[i - 1]
  <2>1. /\ t \in Seq(S) /\ Len(t) = Len(<<x>>) + Len(s)
        /\ \A i \in 1..Len(<<x>>) + Len(s) :
             t[i] = IF i <= Len(<<x>>) THEN <<x>>[i] ELSE s[i - Len(<<x>>)]
    BY <1>1, ConcatProperties, Zenon
  <2> HIDE DEF t
  <2> QED BY <1>1, <2>1
<1> HIDE DEF t
<1>3. t # <<>> /\ Head(t) = x
  <2>1. t # <<>>
    BY <1>1, <1>2, EmptySeq
  <2>2. t[1] = x
    <3>1. 1 \in 1..1 + Len(s) /\ 1 <= 1
      BY <1>1
    <3> QED BY <1>1, <1>2, <3>1
  <2>3. Head(t) = t[1]
    BY <1>2
  <2> QED BY <2>1, <2>2, <2>3
<1>4. Tail(t) = s
  <2>1. /\ Tail(t) \in Seq(S) /\ Len(Tail(t)) = Len(s)
        /\ \A i \in 1..Len(s) : Tail(t)[i] = t[i+1]
    BY <1>1, <1>2, <1>3, HeadTailProperties
  <2>2. ASSUME NEW i \in 1..Len(s) PROVE Tail(t)[i] = s[i]
    <3> DEFINE m == i + 1
    <3>1. m \in 1..1 + Len(s) /\ ~(m <= 1) /\ m - 1 = i
      BY <1>1
    <3>2. Tail(t)[i] = t[m]
      BY <2>1
    <3> HIDE DEF m
    <3>3. t[m] = s[m - 1]
      BY <1>2, <3>1
    <3> QED BY <3>1, <3>2, <3>3
  <2> QED BY <2>1, <2>2, SeqEqual
<1> QED BY <1>2, <1>3, <1>4 DEF t

LEMMA Behind ==
  ASSUME NEW S, NEW x \in S, NEW s \in Seq(S), NEW t, Joins(<<x>>, s, t)
  PROVE  t # <<>> /\ Head(t) = x /\ Tail(t) = s
<1>1. t = <<x>> \o s
  BY Zenon DEF Joins
<1>2. <<x>> \o s # <<>> /\ Head(<<x>> \o s) = x /\ Tail(<<x>> \o s) = s
  BY InFront, Zenon
<1> QED BY <1>1, <1>2, Zenon

LEMMA OwnFacts ==
  ASSUME NEW f \in Seq(Level \X Bytes), NEW l \in Level
  PROVE  /\ Own(f, l) \in Seq(Bytes)
         /\ \A e \in Level \X Bytes : Own(Append(f, e), l) = Own(f, l) \o Part(e, l)
         /\ f # <<>> => Own(f, l) = Part(Head(f), l) \o Own(Tail(f), l)
<1> DEFINE parts(g) == [i \in DOMAIN g |-> Part(g[i], l)]
<1>1. \A e \in Level \X Bytes : Part(e, l) \in Seq(Bytes)
  BY DEF Part
<1>2. ASSUME NEW g \in Seq(Level \X Bytes)
      PROVE  parts(g) \in Seq(Seq(Bytes)) /\ Len(parts(g)) = Len(g) /\ DOMAIN g = 1..Len(g)
             /\ Len(g) \in Nat /\ \A i \in 1..Len(g) : parts(g)[i] = Part(g[i], l)
  <2>1. Len(g) \in Nat /\ DOMAIN g = 1..Len(g) /\ \A i \in 1..Len(g) : g[i] \in Level \X Bytes
    OBVIOUS
  <2>2. parts(g) = [i \in 1..Len(g) |-> Part(g[i], l)]
    BY <2>1
  <2>3. \A i \in 1..Len(g) : Part(g[i], l) \in Seq(Bytes)
    BY <1>1, <2>1
  <2> QED BY <2>1, <2>2, <2>3
<1>3. Own(f, l) \in Seq(Bytes)
  <2>1. parts(f) \in Seq(Seq(Bytes)) /\ <<>> \in Seq(Bytes)
    BY <1>2, EmptySeq
  <2> HIDE DEF parts
  <2>2. FlattenSeq(parts(f)) \in Seq(Bytes)
    BY <2>1, FlattenAppend
  <2> QED BY <2>2 DEF Own, parts
<1>4. ASSUME NEW e \in Level \X Bytes PROVE Own(Append(f, e), l) = Own(f, l) \o Part(e, l)
  <2> DEFINE g == Append(f, e)
             n == Len(f)
  <2>1. /\ g \in Seq(Level \X Bytes) /\ Len(g) = n + 1 /\ n \in Nat
        /\ \A i \in 1..n : g[i] = f[i]
        /\ g[n+1] = e
    OBVIOUS
  <2>2. Part(e, l) \in Seq(Bytes)
    BY <1>1
  <2> HIDE DEF g
  <2>3. parts(f) \in Seq(Seq(Bytes)) /\ Len(parts(f)) = n /\ \A i \in 1..n : parts(f)[i] = Part(f[i], l)
    BY <1>2
  <2>4. parts(g) \in Seq(Seq(Bytes)) /\ Len(parts(g)) = n + 1
        /\ \A i \in 1..n+1 : parts(g)[i] = Part(g[i], l)
    BY <1>2, <2>1
  <2> HIDE DEF parts, n
  <2> DEFINE a == Append(parts(f), Part(e, l))
  <2>5. a \in Seq(Seq(Bytes)) /\ Len(a) = n + 1 /\ a[n+1] = Part(e, l)
        /\ \A i \in 1..n : a[i] = parts(f)[i]
    BY <2>2, <2>3
  <2> HIDE DEF a
  <2>6. ASSUME NEW i \in 1..n+1 PROVE a[i] = parts(g)[i]
    <3>1. CASE i = n + 1
      BY <2>1, <2>4, <2>5, <3>1
    <3>2. CASE i # n + 1
      <4>1. i \in 1..n
        BY <2>1, <3>2
      <4> QED BY <2>1, <2>3, <2>4, <2>5, <4>1
    <3> QED BY <3>1, <3>2
  <2>7. parts(g) = a
    BY <2>4, <2>5, <2>6, SeqEqual
  <2>8. FlattenSeq(a) = FlattenSeq(parts(f)) \o Part(e, l)
    BY <2>2, <2>3, FlattenAppend DEF a
  <2> QED BY <2>7, <2>8, Zenon DEF Own, parts, g
<1>5. ASSUME f # <<>> PROVE Own(f, l) = Part(Head(f), l) \o Own(Tail(f), l)
  <2> DEFINE g == Tail(f)
             n == Len(f)
  <2>1. /\ g \in Seq(Level \X Bytes) /\ Len(g) = n - 1 /\ n \in Nat /\ n >= 1
        /\ Head(f) = f[1] /\ \A i \in 1..n-1 : g[i] = f[i+1]
    BY <1>5
  <2> HIDE DEF g
  <2>2. parts(f) \in Seq(Seq(Bytes)) /\ Len(parts(f)) = n /\ \A i \in 1..n : parts(f)[i] = Part(f[i], l)
    BY <1>2
  <2>3. parts(g) \in Seq(Seq(Bytes)) /\ Len(parts(g)) = n - 1
        /\ \A i \in 1..n-1 : parts(g)[i] = Part(g[i], l)
    BY <1>2, <2>1
  <2> HIDE DEF parts, n
  <2>4. parts(f) # <<>>
    BY <2>1, <2>2, EmptySeq
  <2>5. Head(parts(f)) = Part(Head(f), l)
    <3>1. Head(parts(f)) = parts(f)[1] /\ 1 \in 1..n
      BY <2>1, <2>2
    <3> QED BY <2>1, <2>2, <3>1
  <2>6. Tail(parts(f)) = parts(g)
    <3>1. /\ Tail(parts(f)) \in Seq(Seq(Bytes)) /\ Len(Tail(parts(f))) = n - 1
          /\ \A i \in 1..n-1 : Tail(parts(f))[i] = parts(f)[i+1]
      BY <2>2, <2>4, HeadTailProperties
    <3>2. ASSUME NEW i \in 1..n-1 PROVE Tail(parts(f))[i] = parts(g)[i]
      <4> DEFINE m == i + 1
      <4>1. m \in 1..n
        BY <2>1
      <4>2. Tail(parts(f))[i] = parts(f)[m] /\ g[i] = f[m]
        BY <2>1, <3>1
      <4> HIDE DEF m
      <4> QED BY <2>2, <2>3, <4>1, <4>2
    <3> QED BY <2>3, <3>1, <3>2, SeqEqual
  <2>7. FlattenSeq(parts(f)) = Head(parts(f)) \o FlattenSeq(Tail(parts(f)))
    BY <2>2, <2>4, FlattenHead, Zenon
  <2>8. FlattenSeq(parts(f)) = Part(Head(f), l) \o FlattenSeq(parts(g))
    BY <2>5, <2>6, <2>7
  <2> QED BY <2>8, Zenon DEF Own, parts, g
<1> QED BY <1>3, <1>4, <1>5

LEMMA ExpandedFacts ==
  ASSUME NEW m \in Seq(Bytes)
  PROVE  /\ Expanded(m) \in Seq(Bytes)
         /\ m = <<>> => Expanded(m) = <<>>
         /\ m # <<>> => Expanded(m) = Lines(Head(m)) \o Expanded(Tail(m))
<1> DEFINE lines(s) == [i \in DOMAIN s |-> IF s[i] = Newline THEN <<Return, Newline>> ELSE <<s[i]>>]
           n == Len(m)
<1>1. \A b \in Bytes : Lines(b) \in Seq(Bytes)
  BY ByteAssumption DEF Lines
<1>2. ASSUME NEW s \in Seq(Bytes)
      PROVE  lines(s) \in Seq(Seq(Bytes)) /\ Len(lines(s)) = Len(s)
             /\ Len(s) \in Nat /\ \A i \in 1..Len(s) : lines(s)[i] = Lines(s[i])
  <2>1. Len(s) \in Nat /\ DOMAIN s = 1..Len(s) /\ \A i \in 1..Len(s) : s[i] \in Bytes
    OBVIOUS
  <2>2. lines(s) = [i \in 1..Len(s) |-> Lines(s[i])]
    BY <2>1 DEF Lines
  <2>3. \A i \in 1..Len(s) : Lines(s[i]) \in Seq(Bytes)
    BY <1>1, <2>1
  <2> HIDE DEF lines
  <2>4. /\ lines(s) \in [1..Len(s) -> Seq(Bytes)] /\ Len(s) \in Nat
        /\ \A i \in 1..Len(s) : lines(s)[i] = Lines(s[i])
    BY <2>1, <2>2, <2>3, Zenon
  <2>5. lines(s) \in Seq(Seq(Bytes)) /\ Len(lines(s)) = Len(s)
    BY <2>4
  <2> QED BY <2>4, <2>5
<1>3. \A s : Expanded(s) = FlattenSeq(lines(s))
  BY DEF Expanded
<1>4. lines(m) \in Seq(Seq(Bytes)) /\ Len(lines(m)) = n /\ n \in Nat
      /\ \A i \in 1..n : lines(m)[i] = Lines(m[i])
  BY <1>2
<1> HIDE DEF lines
<1>5. Expanded(m) \in Seq(Bytes)
  <2>1. <<>> \in Seq(Bytes)
    BY EmptySeq
  <2>2. FlattenSeq(lines(m)) \in Seq(Bytes)
    BY <1>4, <2>1, FlattenAppend
  <2> QED BY <1>3, <2>2
<1>6. ASSUME m = <<>> PROVE Expanded(m) = <<>>
  <2>1. Len(lines(m)) = 0
    BY <1>4, <1>6
  <2>2. lines(m) = <<>>
    BY <1>4, <2>1
  <2>3. FlattenSeq(lines(m)) = lines(m)
    BY <2>1, Zenon DEF FlattenSeq
  <2> QED BY <1>3, <2>2, <2>3
<1>7. ASSUME m # <<>> PROVE Expanded(m) = Lines(Head(m)) \o Expanded(Tail(m))
  <2> DEFINE g == Tail(m)
  <2>1. /\ g \in Seq(Bytes) /\ Len(g) = n - 1 /\ n >= 1
        /\ Head(m) = m[1] /\ \A i \in 1..n-1 : g[i] = m[i+1]
    BY <1>7
  <2> HIDE DEF g
  <2>2. lines(g) \in Seq(Seq(Bytes)) /\ Len(lines(g)) = n - 1
        /\ \A i \in 1..n-1 : lines(g)[i] = Lines(g[i])
    BY <1>2, <2>1
  <2> HIDE DEF n
  <2>3. lines(m) # <<>>
    BY <1>4, <2>1, EmptySeq
  <2>4. Head(lines(m)) = Lines(Head(m))
    <3>1. Head(lines(m)) = lines(m)[1] /\ 1 \in 1..n
      BY <1>4, <2>1
    <3> QED BY <1>4, <2>1, <3>1
  <2>5. Tail(lines(m)) = lines(g)
    <3>1. /\ Tail(lines(m)) \in Seq(Seq(Bytes)) /\ Len(Tail(lines(m))) = n - 1
          /\ \A i \in 1..n-1 : Tail(lines(m))[i] = lines(m)[i+1]
      BY <1>4, <2>3, HeadTailProperties
    <3>2. ASSUME NEW i \in 1..n-1 PROVE Tail(lines(m))[i] = lines(g)[i]
      <4> DEFINE k == i + 1
      <4>1. k \in 1..n
        BY <1>4, <2>1
      <4>2. Tail(lines(m))[i] = lines(m)[k] /\ g[i] = m[k]
        BY <2>1, <3>1
      <4> HIDE DEF k
      <4> QED BY <1>4, <2>2, <4>1, <4>2
    <3> QED BY <2>2, <3>1, <3>2, SeqEqual
  <2>6. FlattenSeq(lines(m)) = Head(lines(m)) \o FlattenSeq(Tail(lines(m)))
    BY <1>4, <2>3, FlattenHead, Zenon
  <2>7. FlattenSeq(lines(m)) = Lines(Head(m)) \o FlattenSeq(lines(g))
    BY <2>4, <2>5, <2>6
  <2> QED BY <1>3, <2>7, Zenon DEF g
<1> QED BY <1>5, <1>6, <1>7

(* A call owes a byte and what it owes afterwards: before a '\n' the '\r'.   *)
LEMMA DueSteps ==
  ASSUME NEW r \in Seq(Bytes), r # <<>>
  PROVE  /\ Head(r) \in Bytes /\ Tail(r) \in Seq(Bytes)
         /\ Due(Tail(r), FALSE) \in Seq(Bytes)
         /\ Head(r) = Newline =>
              /\ Due(r, TRUE) \in Seq(Bytes)
              /\ Joins(<<Return>>, Due(r, TRUE), Due(r, FALSE))
              /\ Joins(<<Newline>>, Due(Tail(r), FALSE), Due(r, TRUE))
         /\ Head(r) # Newline => Joins(<<Head(r)>>, Due(Tail(r), FALSE), Due(r, FALSE))
<1> DEFINE x == Expanded(Tail(r))
<1>1. Head(r) \in Bytes /\ Tail(r) \in Seq(Bytes)
  OBVIOUS
<1>2. x \in Seq(Bytes)
  BY <1>1, ExpandedFacts
<1>3. Joins(Lines(Head(r)), x, Expanded(r))
  BY ExpandedFacts, Zenon DEF Joins
<1>4. Due(Tail(r), FALSE) = x /\ Due(r, FALSE) = Expanded(r) /\ Due(r, TRUE) = Tail(Expanded(r))
  BY Zenon DEF Due
<1> HIDE DEF x
<1>5. ASSUME Head(r) = Newline
      PROVE  /\ Due(r, TRUE) \in Seq(Bytes)
             /\ Joins(<<Return>>, Due(r, TRUE), Due(r, FALSE))
             /\ Joins(<<Newline>>, x, Due(r, TRUE))
  <2> DEFINE y == <<Newline>> \o x
  <2>1. <<Return>> \in Seq(Bytes) /\ <<Newline>> \in Seq(Bytes) /\ Return \in Bytes /\ Newline \in Bytes
    BY ByteAssumption
  <2>2. Joins(<<Return>>, <<Newline>>, <<Return, Newline>>)
    BY ByteAssumption DEF Joins
  <2>3. Joins(<<Newline>>, x, y)
    BY Zenon DEF Joins
  <2>4. y \in Seq(Bytes)
    BY <1>2, <2>1, InFront, Zenon
  <2> HIDE DEF y
  <2>5. Joins(<<Return, Newline>>, x, Expanded(r))
    BY <1>3, <1>5, Zenon DEF Lines
  <2>6. Joins(<<Return>>, y, Expanded(r))
    <3> DEFINE a == <<Return>>
               b == <<Newline>>
               ab == <<Return, Newline>>
    <3>1. a \in Seq(Bytes)
      BY <2>1
    <3>2. b \in Seq(Bytes)
      BY <2>1
    <3>3. Joins(a, b, ab)
      BY <2>2
    <3>4. Joins(b, x, y)
      BY <2>3
    <3>5. Joins(ab, x, Expanded(r))
      BY <2>5
    <3> HIDE DEF a, b, ab
    <3>6. Joins(a, y, Expanded(r))
      BY <1>2, <3>1, <3>2, <3>3, <3>4, <3>5, Regroup
    <3> QED BY <3>6 DEF a
  <2>7. Expanded(r) = <<Return>> \o y
    BY <2>6, Zenon DEF Joins
  <2>8. Tail(<<Return>> \o y) = y
    BY <2>1, <2>4, InFront, Zenon
  <2>9. Tail(Expanded(r)) = y
    BY <2>7, <2>8, Zenon
  <2> QED BY <1>4, <2>3, <2>4, <2>6, <2>9, Zenon
<1>6. ASSUME Head(r) # Newline PROVE Joins(<<Head(r)>>, x, Due(r, FALSE))
  BY <1>3, <1>4, <1>6, Zenon DEF Lines
<1> QED BY <1>1, <1>2, <1>4, <1>5, <1>6, Zenon

(* A level that is in no Write owes only what the transmitter holds, and a   *)
(* '\r' that was sent is that of the next byte; what is read is read one     *)
(* byte at a time, by a reader, and nobody takes what it saw.                *)
CallInv ==
  /\ \A l \in Level : /\ op[l] # "write" => rest[l] = <<>> /\ ~returned[l]
                      /\ returned[l] => Head(rest[l]) = Newline
  /\ buffer \in [Level -> Seq(Bytes)] /\ received \in Seq(Bytes)
  /\ \A l \in Level : op[l] = "read" =>
       l \in Readers /\ left[l] = 1 /\ buffer[l] = <<>> /\ (ready[l] => received # <<>>)

OneReader == ReadLengths = {1} /\ \A k, l \in Readers : k = l

LEMMA CallInit == UartInit => CallInv
BY EmptySeq DEF UartInit, CallInv, None

LEMMA CallStep == UartInv /\ CallInv /\ OneReader /\ [UartNext]_uartVars => CallInv'
<1> SUFFICES ASSUME UartInv, CallInv, OneReader, [UartNext]_uartVars PROVE CallInv'
  OBVIOUS
<1> USE LevelAssumption
<1>1. CASE Carry
  BY <1>1 DEF Carry, callVars, CallInv
<1>2. ASSUME NEW l \in Level, SeeEmpty(l) PROVE CallInv'
  BY <1>2 DEF SeeEmpty, callVars, CallInv, UartInv, UartTypeOK
<1>3. ASSUME NEW l \in Level, Send(l) PROVE CallInv'
  <2>1. rest[l] \in Seq(Bytes) /\ rest[l] # <<>>
    BY <1>3 DEF Send, UartInv, UartTypeOK
  <2>2. Len(rest[l]) = 1 => Tail(rest[l]) = <<>>
    <3>1. Tail(rest[l]) \in Seq(Bytes) /\ Len(Tail(rest[l])) = Len(rest[l]) - 1
      BY <2>1, HeadTailProperties
    <3>2. Len(rest[l]) = 1 => Len(Tail(rest[l])) = 0
      BY <3>1
    <3> QED BY <3>1, <3>2, EmptySeq, Zenon
  <2>3. /\ op'[l] # "write" => rest'[l] = <<>> /\ ~returned'[l]
        /\ returned'[l] => Head(rest'[l]) = Newline
    BY <1>3, <2>2 DEF Send, ReturnDue, UartInv, UartTypeOK
  <2>4. \A k \in Level \ {l} : op'[k] = op[k] /\ rest'[k] = rest[k] /\ returned'[k] = returned[k]
                               /\ ready'[k] = ready[k]
    BY <1>3 DEF Send, UartInv, UartTypeOK
  <2>5. op'[l] # "read" /\ UNCHANGED <<left, buffer, received>>
    BY <1>3 DEF Send, UartInv, UartTypeOK
  <2> QED BY <2>3, <2>4, <2>5 DEF CallInv
<1>4. ASSUME NEW l \in Level, SeeReceived(l) PROVE CallInv'
  BY <1>4 DEF SeeReceived, callVars, CallInv, UartInv, UartTypeOK
<1>5. ASSUME NEW l \in Level, NEW byte \in InRBR, Receive(l, byte) PROVE CallInv'
  <2>1. l \in Readers /\ left[l] = 1 /\ received # <<>> /\ received \in Seq(Bytes) /\ op[l] = "read"
    BY <1>5 DEF Receive, CallInv
  <2>2. byte \in Bytes /\ received' \in Seq(Bytes)
    BY <1>5, <2>1 DEF Receive, InRBR
  <2>3. buffer' \in [Level -> Seq(Bytes)]
    <3>1. <<byte>> \in Seq(Bytes)
      BY <2>2
    <3> QED BY <1>5, <3>1 DEF Receive, CallInv
  <2>4. \A k \in Level : op'[k] # "read"
    BY <1>5, <2>1 DEF Receive, CallInv, OneReader, UartInv, UartTypeOK
  <2>5. \A k \in Level : op'[k] = "write" <=> op[k] = "write"
    BY <1>5, <2>1 DEF Receive, UartInv, UartTypeOK
  <2>6. rest' = rest /\ returned' = returned
    BY <1>5 DEF Receive
  <2> QED BY <2>2, <2>3, <2>4, <2>5, <2>6 DEF CallInv
<1>6. ASSUME NEW l \in Level, NEW message \in Messages, Write(l, message) PROVE CallInv'
  <2>1. /\ \A k \in Level \ {l} : op'[k] = op[k] /\ rest'[k] = rest[k]
        /\ op'[l] = "write" /\ op[l] = "none"
    BY <1>6 DEF Write, Begin, Idle, Level, UartInv, UartTypeOK
  <2>2. UNCHANGED <<returned, ready, left, buffer, received>>
    BY <1>6 DEF Write
  <2>3. ~returned[l]
    BY <2>1 DEF CallInv
  <2> QED BY <2>1, <2>2, <2>3 DEF CallInv
<1>7. ASSUME NEW l \in Readers, NEW n \in ReadLengths, Read(l, n) PROVE CallInv'
  <2>1. l \in Level /\ n = 1
    BY DEF Level, OneReader
  <2>2. /\ \A k \in Level \ {l} : op'[k] = op[k]
        /\ op'[l] = "read" /\ op[l] = "none" /\ ~ready[l]
    BY <1>7, <2>1 DEF Read, Begin, Idle, Level, UartInv, UartTypeOK
  <2>3. /\ left'[l] = 1 /\ buffer'[l] = <<>> /\ buffer' \in [Level -> Seq(Bytes)]
        /\ \A k \in Level \ {l} : left'[k] = left[k] /\ buffer'[k] = buffer[k]
    BY <1>7, <2>1, EmptySeq DEF Read, CallInv, UartInv, UartTypeOK
  <2>4. UNCHANGED <<rest, returned, ready, received>>
    BY <1>7 DEF Read
  <2> QED BY <2>1, <2>2, <2>3, <2>4 DEF CallInv
<1>8. ASSUME NEW byte \in Bytes, Arrive(byte) PROVE CallInv'
  <2>1. received' \in Seq(Bytes) /\ received' # <<>>
    <3>1. received' \in Seq(Bytes) /\ Len(received') = Len(received) + 1 /\ Len(received) \in Nat
      BY <1>8 DEF Arrive, CallInv
    <3>2. Len(received') # 0
      BY <3>1
    <3>3. received' # <<>>
      BY <3>2, EmptySeq, Zenon
    <3> QED BY <3>1, <3>3
  <2> QED BY <1>8, <2>1 DEF Arrive, callVars, CallInv
<1>9. CASE UNCHANGED uartVars
  BY <1>9 DEF uartVars, callVars, CallInv
<1> QED BY <1>1, <1>2, <1>3, <1>4, <1>5, <1>6, <1>7, <1>8, <1>9 DEF UartNext, Step

LEMMA OwedTypes ==
  ASSUME UartInv, CallInv, NEW l \in Level
  PROVE  /\ Own(fifo, l) \in Seq(Bytes) /\ Due(rest[l], returned[l]) \in Seq(Bytes)
         /\ Joins(Own(fifo, l), Due(rest[l], returned[l]), Owed(l))
         /\ Owed(l) \in Seq(Bytes)
<1>1. fifo \in Seq(Level \X Bytes) /\ rest[l] \in Seq(Bytes) /\ returned[l] \in BOOLEAN
  BY DEF UartInv, UartTypeOK
<1>2. Own(fifo, l) \in Seq(Bytes)
  BY <1>1, OwnFacts
<1>3. Due(rest[l], returned[l]) \in Seq(Bytes)
  <2>1. CASE returned[l]
    <3>1. rest[l] # <<>> /\ Head(rest[l]) = Newline
      BY <2>1 DEF CallInv, UartInv, UartTypeOK
    <3>2. Due(rest[l], TRUE) \in Seq(Bytes)
      BY <1>1, <3>1, DueSteps
    <3> QED BY <2>1, <3>2 DEF Due
  <2>2. CASE ~returned[l]
    BY <1>1, <2>2, ExpandedFacts DEF Due
  <2> QED BY <2>1, <2>2
<1>4. Joins(Own(fifo, l), Due(rest[l], returned[l]), Owed(l))
  BY OwedIs, Zenon DEF Joins
<1>5. Owed(l) = Own(fifo, l) \o Due(rest[l], returned[l])
  BY OwedIs, Zenon
<1> QED BY <1>2, <1>3, <1>4, <1>5

(* What is written to the transmitter stays owed.                            *)
LEMMA SendOwes ==
  ASSUME UartInv, CallInv, CallInv', UartInv', FifoDepth >= Levels, NEW l \in Level, Send(l), NEW k \in Level
  PROVE  Owed(k)' = Owed(k)
<1> DEFINE byte == IF ReturnDue(l) THEN Return ELSE Head(rest[l])
<1>1. /\ fifo \in Seq(Level \X Bytes) /\ rest[l] \in Seq(Bytes) /\ rest[l] # <<>>
      /\ returned[l] \in BOOLEAN /\ (returned[l] => Head(rest[l]) = Newline)
  BY DEF Send, UartInv, UartTypeOK, CallInv
<1>2. byte \in Bytes
  BY <1>1, ByteAssumption
<1>3. fifo' = Append(fifo, <<l, byte>>)
  <2>1. Len(fifo) < FifoDepth
    BY RoomFollows DEF RoomWhenReady, Send
  <2> QED BY <2>1 DEF Send, Transmitted
<1>4. Own(fifo', k) = Own(fifo, k) \o Part(<<l, byte>>, k)
  BY <1>1, <1>2, <1>3, OwnFacts
<1>5. /\ rest'[l] = IF ReturnDue(l) THEN rest[l] ELSE Tail(rest[l])
      /\ returned'[l] = ReturnDue(l)
      /\ k # l => rest'[k] = rest[k] /\ returned'[k] = returned[k]
  BY DEF Send, UartInv, UartTypeOK
<1>6. CASE k = l
  <2> DEFINE a   == Own(fifo, l)
             b   == <<byte>>
             c   == Due(rest'[l], returned'[l])
             ab  == Own(fifo', l)
             bc  == Due(rest[l], returned[l])
             abc == Owed(l)'
  <2>1. a \in Seq(Bytes)
    BY OwedTypes
  <2>2. b \in Seq(Bytes)
    BY <1>2
  <2>3. Joins(a, b, ab)
    BY <1>4, <1>6, Zenon DEF Joins, Part
  <2>4. c \in Seq(Bytes) /\ Joins(b, c, bc)
    <3>1. CASE ReturnDue(l)
      <4>1. Head(rest[l]) = Newline /\ returned[l] = FALSE /\ returned'[l] = TRUE /\ rest'[l] = rest[l] /\ byte = Return
        BY <1>1, <1>5, <3>1 DEF ReturnDue
      <4>2. Due(rest[l], TRUE) \in Seq(Bytes) /\ Joins(<<Return>>, Due(rest[l], TRUE), Due(rest[l], FALSE))
        BY <1>1, <4>1, DueSteps
      <4> HIDE DEF byte
      <4> QED BY <4>1, <4>2
    <3>2. CASE ~ReturnDue(l)
      <4>1. returned'[l] = FALSE /\ rest'[l] = Tail(rest[l]) /\ byte = Head(rest[l])
        BY <1>5, <3>2
      <4>2. Due(Tail(rest[l]), FALSE) \in Seq(Bytes)
        BY <1>1, DueSteps
      <4>3. CASE Head(rest[l]) = Newline
        <5>1. returned[l] = TRUE
          BY <1>1, <3>2, <4>3 DEF ReturnDue
        <5>2. Joins(<<Newline>>, Due(Tail(rest[l]), FALSE), Due(rest[l], TRUE))
          BY <1>1, <4>3, DueSteps
        <5> HIDE DEF byte
        <5> QED BY <4>1, <4>2, <4>3, <5>1, <5>2
      <4>4. CASE Head(rest[l]) # Newline
        <5>1. returned[l] = FALSE
          BY <1>1, <4>4
        <5>2. Joins(<<Head(rest[l])>>, Due(Tail(rest[l]), FALSE), Due(rest[l], FALSE))
          BY <1>1, <4>4, DueSteps
        <5> HIDE DEF byte
        <5> QED BY <4>1, <4>2, <5>1, <5>2
      <4> QED BY <4>3, <4>4
    <3> QED BY <3>1, <3>2
  <2>5. Joins(ab, c, abc)
    BY OwedIs, Zenon DEF Joins
  <2> HIDE DEF a, b, c, ab, bc, abc
  <2>6. Joins(a, bc, abc)
    BY <2>1, <2>2, <2>3, <2>4, <2>5, Regroup
  <2>7. abc = a \o bc
    BY <2>6, Zenon DEF Joins
  <2> QED BY <1>6, <2>7, OwedIs, Zenon DEF a, bc, abc
<1>7. CASE k # l
  <2>1. Part(<<l, byte>>, k) = <<>>
    BY <1>7 DEF Part
  <2>2. Own(fifo', k) = Own(fifo, k) \o <<>>
    BY <1>4, <2>1, Zenon
  <2>3. Own(fifo, k) \in Seq(Bytes)
    BY OwedTypes
  <2>4. Own(fifo', k) = Own(fifo, k)
    BY <2>2, <2>3, ConcatEmptySeq, Zenon
  <2>5. Due(rest'[k], returned'[k]) = Due(rest[k], returned[k])
    BY <1>5, <1>7, Zenon
  <2> QED BY <2>4, <2>5, OwedIs, Zenon
<1> QED BY <1>6, <1>7

(* What the line carries is the oldest byte that it owes to its level.       *)
LEMMA CarryOwes ==
  ASSUME UartInv, CallInv, Carry, NEW l \in Level, NEW byte \in Bytes, Head(fifo) = <<l, byte>>
  PROVE  /\ Owed(l) # <<>> /\ Head(Owed(l)) = byte /\ Owed(l)' = Tail(Owed(l))
         /\ \A k \in Level \ {l} : Owed(k)' = Owed(k)
<1> DEFINE e == <<l, byte>>
<1>1. /\ fifo \in Seq(Level \X Bytes) /\ fifo # <<>> /\ fifo' = Tail(fifo) /\ fifo' \in Seq(Level \X Bytes)
      /\ rest' = rest /\ returned' = returned
  BY DEF Carry, callVars, UartInv, UartTypeOK
<1>2. e[1] = l /\ e[2] = byte /\ <<byte>> \in Seq(Bytes)
  OBVIOUS
<1>3. \A k \in Level : Own(fifo', k) \in Seq(Bytes) /\ Own(fifo, k) = Part(e, k) \o Own(fifo', k)
  BY <1>1, OwnFacts
<1> HIDE DEF e
<1>4. Joins(<<byte>>, Owed(l)', Owed(l)) /\ Owed(l)' \in Seq(Bytes)
  <2> DEFINE a   == <<byte>>
             b   == Own(fifo', l)
             c   == Due(rest[l], returned[l])
             ab  == Own(fifo, l)
             bc  == Owed(l)'
             abc == Owed(l)
  <2>1. a \in Seq(Bytes)
    BY <1>2
  <2>2. b \in Seq(Bytes)
    BY <1>2, <1>3
  <2>3. c \in Seq(Bytes)
    BY <1>2, OwedTypes
  <2>4. Joins(a, b, ab)
    <3>1. Part(e, l) = <<byte>>
      BY <1>2, Zenon DEF Part
    <3> QED BY <1>2, <1>3, <3>1, Zenon DEF Joins
  <2>5. Joins(b, c, bc)
    BY <1>1, <1>2, OwedIs, Zenon DEF Joins
  <2>6. Joins(ab, c, abc)
    BY <1>2, OwedTypes
  <2>7. bc = b \o c
    BY <2>5, Zenon DEF Joins
  <2> HIDE DEF a, b, c, ab, bc, abc
  <2>8. Joins(a, bc, abc)
    BY <2>1, <2>2, <2>3, <2>4, <2>5, <2>6, Regroup
  <2>9. bc \in Seq(Bytes)
    BY <2>2, <2>3, <2>7
  <2> QED BY <2>8, <2>9 DEF a, bc, abc
<1>5. Owed(l) # <<>> /\ Head(Owed(l)) = byte /\ Owed(l)' = Tail(Owed(l))
  <2> DEFINE s == Owed(l)'
             t == Owed(l)
  <2>1. s \in Seq(Bytes)
    BY <1>4
  <2>2. Joins(<<byte>>, s, t)
    BY <1>4
  <2> HIDE DEF s, t
  <2>3. t # <<>> /\ Head(t) = byte /\ Tail(t) = s
    BY <2>1, <2>2, Behind, Zenon
  <2> QED BY <2>3, Zenon DEF s, t
<1>6. ASSUME NEW k \in Level, k # l PROVE Owed(k)' = Owed(k)
  <2>1. Part(e, k) = <<>>
    BY <1>2, <1>6, Zenon DEF Part
  <2>2. Own(fifo, k) = <<>> \o Own(fifo', k)
    BY <1>3, <2>1, Zenon
  <2>3. Own(fifo', k) = Own(fifo, k)
    BY <1>3, <2>2, ConcatEmptySeq, Zenon
  <2> QED BY <1>1, <2>3, OwedIs, Zenon
<1> QED BY <1>5, <1>6, Zenon

(* A call of Write owes its message from then on.                            *)
LEMMA WriteOwes ==
  ASSUME UartInv, CallInv, NEW l \in Level, NEW message \in Messages, Write(l, message)
  PROVE  /\ Owed(l)' = Owed(l) \o Expanded(message)
         /\ \A k \in Level \ {l} : Owed(k)' = Owed(k)
<1>1. /\ op[l] = "none" /\ fifo' = fifo /\ returned' = returned /\ rest'[l] = message
      /\ \A k \in Level \ {l} : rest'[k] = rest[k]
  BY LevelAssumption DEF Write, Begin, Idle, Level, UartInv, UartTypeOK
<1>2. rest[l] = <<>> /\ ~returned[l]
  BY <1>1 DEF CallInv
<1>3. Due(rest[l], returned[l]) = <<>>
  <2>1. Expanded(<<>>) = <<>>
    BY ExpandedFacts, EmptySeq
  <2> QED BY <1>2, <2>1, Zenon DEF Due
<1>4. Owed(l) = Own(fifo, l)
  <2>1. Own(fifo, l) \in Seq(Bytes)
    BY OwedTypes
  <2>2. Owed(l) = Own(fifo, l) \o <<>>
    BY <1>3, OwedIs, Zenon
  <2> QED BY <2>1, <2>2, ConcatEmptySeq, Zenon
<1>5. Due(rest'[l], returned'[l]) = Expanded(message)
  BY <1>1, <1>2, Zenon DEF Due
<1>6. Owed(l)' = Owed(l) \o Expanded(message)
  BY <1>1, <1>4, <1>5, OwedIs, Zenon
<1>7. ASSUME NEW k \in Level, k # l PROVE Owed(k)' = Owed(k)
  BY <1>1, <1>7, OwedIs, Zenon
<1> QED BY <1>6, <1>7, Zenon

LEMMA NothingOwed ==
  ASSUME UartInit, NEW l \in Level
  PROVE  Owed(l) = <<>>
<1>1. fifo = <<>> /\ rest[l] = <<>> /\ returned[l] = FALSE
  BY DEF UartInit, None
<1>2. Own(<<>>, l) = <<>>
  <2> DEFINE parts == [i \in DOMAIN <<>> |-> Part(<<>>[i], l)]
  <2>1. parts = <<>> /\ Len(parts) = 0
    OBVIOUS
  <2> HIDE DEF parts
  <2>2. FlattenSeq(parts) = parts
    BY <2>1, Zenon DEF FlattenSeq
  <2> QED BY <2>1, <2>2, Zenon DEF Own, parts
<1>3. Expanded(<<>>) = <<>>
  BY ExpandedFacts, EmptySeq
<1>4. Due(rest[l], returned[l]) = <<>>
  BY <1>1, <1>3, Zenon DEF Due
<1>5. Owed(l) = <<>> \o <<>>
  BY <1>1, <1>2, <1>4, OwedIs, Zenon
<1> QED BY <1>5

LEMMA PromiseStep ==
  ASSUME FifoDepth >= Levels, OneReader, UartInv, CallInv, UartInv', CallInv', [UartNext]_uartVars
  PROVE  [Line!LineNext]_Line!lineVars
<1> USE LevelAssumption
<1> DEFINE owed == [l \in Level |-> Owed(l)]
<1>1. CASE Carry
  <2>1. PICK l \in Level, byte \in Bytes : Head(fifo) = <<l, byte>>
    <3>1. Head(fifo) \in Level \X Bytes
      BY <1>1 DEF Carry, UartInv, UartTypeOK
    <3> QED BY <3>1
  <2>2. /\ Owed(l) # <<>> /\ Head(Owed(l)) = byte /\ Owed(l)' = Tail(Owed(l))
        /\ \A k \in Level \ {l} : Owed(k)' = Owed(k)
    BY <1>1, <2>1, CarryOwes
  <2>3. owed' = [owed EXCEPT ![l] = Tail(@)]
    BY <2>2
  <2>4. carried' = <<l, Head(owed[l])>> /\ UNCHANGED <<received, buffer>>
    BY <1>1, <2>1, <2>2 DEF Carry
  <2>5. Line!Carry(l)
    BY <2>2, <2>3, <2>4 DEF Line!Carry
  <2> QED BY <2>5 DEF Line!LineNext
<1>2. ASSUME NEW l \in Level, SeeEmpty(l) PROVE UNCHANGED Line!lineVars
  BY <1>2 DEF SeeEmpty, callVars, Line!lineVars, Owed
<1>3. ASSUME NEW l \in Level, Send(l) PROVE UNCHANGED Line!lineVars
  <2>1. \A k \in Level : Owed(k)' = Owed(k)
    BY <1>3, SendOwes
  <2>2. owed' = owed
    BY <2>1
  <2>3. UNCHANGED <<carried, received, buffer>>
    BY <1>3 DEF Send
  <2> QED BY <2>2, <2>3 DEF Line!lineVars
<1>4. ASSUME NEW l \in Level, SeeReceived(l) PROVE UNCHANGED Line!lineVars
  BY <1>4 DEF SeeReceived, callVars, Line!lineVars, Owed
<1>5. ASSUME NEW l \in Level, NEW byte \in InRBR, Receive(l, byte) PROVE Line!LineNext
  <2>1. received # <<>> /\ buffer[l] = <<>> /\ buffer \in [Level -> Seq(Bytes)]
    BY <1>5 DEF Receive, CallInv
  <2>2. byte = Head(received) /\ received' = Tail(received)
    BY <1>5, <2>1 DEF Receive, InRBR
  <2>3. buffer' = [buffer EXCEPT ![l] = Append(@, Head(received))]
    <3>1. Append(buffer[l], Head(received)) = <<byte>>
      BY <2>1, <2>2
    <3> QED BY <1>5, <3>1 DEF Receive
  <2>4. owed' = owed /\ carried' = carried
    BY <1>5 DEF Receive, Owed
  <2>5. Line!Fill(l)
    BY <2>1, <2>2, <2>3, <2>4 DEF Line!Fill
  <2> QED BY <2>5 DEF Line!LineNext
<1>6. ASSUME NEW l \in Level, NEW message \in Messages, Write(l, message) PROVE Line!LineNext
  <2>1. /\ Owed(l)' = Owed(l) \o Expanded(message)
        /\ \A k \in Level \ {l} : Owed(k)' = Owed(k)
    BY <1>6, WriteOwes
  <2>2. owed' = [owed EXCEPT ![l] = @ \o Expanded(message)]
    BY <2>1
  <2>3. UNCHANGED <<carried, received, buffer>>
    BY <1>6 DEF Write
  <2>4. Line!Write(l, Expanded(message))
    BY <2>2, <2>3 DEF Line!Write
  <2> QED BY <2>4 DEF Line!LineNext
<1>7. ASSUME NEW l \in Readers, NEW n \in ReadLengths, Read(l, n) PROVE Line!LineNext
  <2>1. l \in Level
    BY DEF Level
  <2>2. owed' = owed /\ UNCHANGED <<carried, received>>
    BY <1>7 DEF Read, Owed
  <2>3. Line!Read(l)
    BY <1>7, <2>2 DEF Line!Read, Read
  <2> QED BY <2>1, <2>3 DEF Line!LineNext
<1>8. ASSUME NEW byte \in Bytes, Arrive(byte) PROVE Line!LineNext
  <2>1. owed' = owed /\ UNCHANGED <<carried, buffer>>
    BY <1>8 DEF Arrive, callVars, Owed
  <2>2. Line!Arrive(byte)
    BY <1>8, <2>1 DEF Line!Arrive, Arrive
  <2> QED BY <2>2 DEF Line!LineNext
<1>9. CASE UNCHANGED uartVars
  BY <1>9 DEF uartVars, callVars, Line!lineVars, Owed
<1> QED BY <1>1, <1>2, <1>3, <1>4, <1>5, <1>6, <1>7, <1>8, <1>9 DEF UartNext, Step

(* The port on the UART keeps the promise of a serial port, for any number   *)
(* of levels and any messages, if the FIFO has a place for each level and    *)
(* one level at most reads, byte by byte: of what each level writes nothing  *)
(* is lost, doubled or reordered on the line, and what arrives is read once  *)
(* and in order (SerialPortWrite, SerialPortRead).                           *)
THEOREM UartKeepsPromise ==
  ASSUME FifoDepth >= Levels, ReadLengths = {1}, \A k, l \in Readers : k = l
  PROVE  UartSpec => KeepsThePromise
<1>1. OneReader
  BY DEF OneReader
<1>2. UartInit => Line!LineInit
  <2> SUFFICES ASSUME UartInit PROVE Line!LineInit
    OBVIOUS
  <2>1. [l \in Level |-> Owed(l)] = [l \in Level |-> <<>>]
    BY NothingOwed
  <2> QED BY <2>1 DEF UartInit, None, Line!LineInit
<1>3. UartInv /\ CallInv /\ [UartNext]_uartVars => UartInv' /\ CallInv'
  BY <1>1, UartStep, CallStep
<1>4. UartInv /\ CallInv /\ UartInv' /\ CallInv' /\ [UartNext]_uartVars => [Line!LineNext]_Line!lineVars
  BY <1>1, PromiseStep
<1> QED BY <1>2, <1>3, <1>4, UartInitOK, CallInit, PTL DEF UartSpec, KeepsThePromise, Line!LineSpec

-----------------------------------------------------------------------------
(* The ring                                                                  *)

(* At most the calls of the levels below have moved the offset behind the    *)
(* region, each by one place, and what moved it there is in the middle of a  *)
(* mem_putchar that will wrap it.                                            *)
Pending(l, i) ==
  phase[l] = "moved" /\ image[l] = i /\ offset[i] = index[l] + 1
OffsetWraps ==
  /\ \A l \in Printer : Busy(l) => index[l] <= Size + l - 2
  /\ \A i \in Images : offset[i] < Size \/ \E l \in Printer : Pending(l, i)

(* A call that nothing came in between of is the only one; while one is torn *)
(* or Initialize runs there is no log.                                       *)
WholeOrTorn ==
  \A l \in Printer :
    /\ ~Busy(l) => ~torn[l] /\ ~stored[l]
    /\ Busy(l) /\ ~torn[l] => \A k \in Printer : Busy(k) => k = l
    /\ Busy(l) /\ (torn[l] \/ phase[l] = "clear") => used = 0

(* How far a whole mem_putchar is.                                           *)
HowFar(l) ==
  /\ index[l] < Size /\ latest = image[l]
  /\ offset[latest] = CASE phase[l] = "read"    -> index[l]
                       [] phase[l] = "moved"   -> index[l] + 1
                       [] phase[l] = "wrapped" -> CellBehind(index[l])

RingInv ==
  /\ RingTypeOK /\ OffsetWraps /\ WholeOrTorn
  /\ \A l \in Printer : Whole(l) => HowFar(l)

Accesses(l) == ClearByte(l) \/ MemPutChar(l) \/ StoreByte(l) \/ Advance(l) \/ Wrap(l)

LEMMA RingInitOK == RingInit => RingInv
  BY SizeAssumption, PrinterAssumption
  DEF RingInit, RingInv, RingTypeOK, OffsetWraps, WholeOrTorn, Whole, Busy, Printer, Memory, Pending

(* What an access of a level leaves alone, and what calls of the other       *)
(* levels keep.                                                              *)
OthersKeep(l) ==
  \A k \in Printer \ {l} :
    /\ phase'[k] = phase[k] /\ stored'[k] = stored[k] /\ index'[k] = index[k]
    /\ printing'[k] = printing[k] /\ image'[k] = image[k]

Phases == {"none", "clear", "read", "moved", "wrapped"}
CallTypes ==
  /\ phase \in [Printer -> Phases] /\ stored \in [Printer -> BOOLEAN]
  /\ printing \in [Printer -> Seq(Bytes)] /\ index \in [Printer -> Memory]
  /\ torn \in [Printer -> BOOLEAN] /\ image \in [Printer -> Images]

LEMMA TailOf == ASSUME NEW s \in Seq(Bytes), s # <<>> PROVE Tail(s) \in Seq(Bytes) /\ Head(s) \in Bytes
  BY HeadTailProperties

LEMMA InitializeMoves ==
  ASSUME RingTypeOK, NEW l \in Printer, NEW i \in Images, Initialize(l, i)
  PROVE  /\ Turn(l) /\ ~Busy(l) /\ OthersKeep(l) /\ CallTypes'
         /\ UNCHANGED <<base, offset, printing, stored>> /\ used' = 0 /\ latest' = i
         /\ phase'[l] = "clear" /\ index'[l] = 0
         /\ \A k \in Printer : torn'[k] <=> torn[k] \/ (k < l /\ Busy(k)) \/ (k = l /\ InBetween(l))
<1> USE SizeAssumption, PrinterAssumption
<1>1. 0 \in Memory
  BY DEF Memory
<1>2. UNCHANGED <<base, offset, printing, stored>> /\ used' = 0 /\ latest' = i /\ Turn(l) /\ ~Busy(l)
  BY DEF Initialize, Enter, Free
<1>3. phase' \in [Printer -> Phases] /\ phase'[l] = "clear" /\ \A k \in Printer \ {l} : phase'[k] = phase[k]
  BY DEF Initialize, Enter, RingTypeOK, Phases
<1>4. index' \in [Printer -> Memory] /\ index'[l] = 0 /\ \A k \in Printer \ {l} : index'[k] = index[k]
  BY <1>1 DEF Initialize, Enter, RingTypeOK
<1>5. image' \in [Printer -> Images] /\ \A k \in Printer \ {l} : image'[k] = image[k]
  BY DEF Initialize, RingTypeOK
<1>6. torn' = [k \in Printer |-> torn[k] \/ (k < l /\ Busy(k)) \/ (k = l /\ InBetween(l))]
  BY DEF Initialize, Enter
<1>7. \A k \in Printer : torn[k] \in BOOLEAN /\ Busy(k) \in BOOLEAN /\ InBetween(k) \in BOOLEAN
  BY DEF RingTypeOK, Busy, InBetween
<1>8. torn' \in [Printer -> BOOLEAN]
  BY <1>6, <1>7
<1>9. CallTypes'
  BY <1>2, <1>3, <1>4, <1>5, <1>8 DEF RingTypeOK, CallTypes
<1>10. OthersKeep(l)
  BY <1>2, <1>3, <1>4, <1>5 DEF OthersKeep
<1> QED BY <1>2, <1>3, <1>4, <1>6, <1>9, <1>10

LEMMA MemPutCharMoves ==
  ASSUME RingTypeOK, OffsetWraps, NEW l \in Printer, MemPutChar(l)
  PROVE  /\ Turn(l) /\ ~Busy(l) /\ OthersKeep(l) /\ CallTypes'
         /\ UNCHANGED <<base, offset, printing, stored, image>>
         /\ used' = (IF InBetween(l) THEN 0 ELSE used) /\ latest' = image[l]
         /\ phase'[l] = "read" /\ index'[l] = offset[image[l]] /\ index'[l] <= Size + l - 2
         /\ printing[l] # <<>>
         /\ \A k \in Printer : torn'[k] <=> torn[k] \/ (k < l /\ Busy(k)) \/ (k = l /\ InBetween(l))
<1> USE SizeAssumption, PrinterAssumption
<1>2. /\ UNCHANGED <<base, offset, printing, stored, image>> /\ Turn(l) /\ ~Busy(l)
      /\ used' = (IF InBetween(l) THEN 0 ELSE used) /\ latest' = image[l] /\ printing[l] # <<>>
  BY DEF MemPutChar, Enter
<1>1. offset[image[l]] \in Nat /\ offset[image[l]] <= Size + l - 2
  <2>1. image[l] \in Images /\ offset[image[l]] \in Nat /\ l \in Nat
    BY DEF RingTypeOK, Printer
  <2>2. CASE offset[image[l]] < Size
    BY <2>1, <2>2 DEF Printer
  <2>3. ASSUME NEW k \in Printer, Pending(k, image[l]) PROVE offset[image[l]] <= Size + l - 2
    <3>1. Busy(k) /\ index[k] <= Size + k - 2 /\ offset[image[l]] = index[k] + 1 /\ index[k] \in Nat
      BY <2>3 DEF Busy, Pending, OffsetWraps, RingTypeOK, Memory
    <3>2. k < l
      BY <1>2, <3>1 DEF Turn, Printer
    <3> QED BY <3>1, <3>2 DEF Printer
  <2> QED BY <2>1, <2>2, <2>3 DEF OffsetWraps
<1>3. offset[image[l]] \in Memory
  BY <1>1 DEF Memory, Printer
<1>4. phase' \in [Printer -> Phases] /\ phase'[l] = "read" /\ \A k \in Printer \ {l} : phase'[k] = phase[k]
  BY DEF MemPutChar, Enter, RingTypeOK, Phases
<1>5. index' \in [Printer -> Memory] /\ index'[l] = offset[image[l]] /\ \A k \in Printer \ {l} : index'[k] = index[k]
  BY <1>3 DEF MemPutChar, Enter, RingTypeOK
<1>6. torn' = [k \in Printer |-> torn[k] \/ (k < l /\ Busy(k)) \/ (k = l /\ InBetween(l))]
  BY DEF MemPutChar, Enter
<1>7. \A k \in Printer : torn[k] \in BOOLEAN /\ Busy(k) \in BOOLEAN /\ InBetween(k) \in BOOLEAN
  BY DEF RingTypeOK, Busy, InBetween
<1>8. torn' \in [Printer -> BOOLEAN]
  BY <1>6, <1>7
<1>9. CallTypes'
  BY <1>2, <1>4, <1>5, <1>8 DEF RingTypeOK, CallTypes
<1>10. OthersKeep(l)
  BY <1>2, <1>4, <1>5 DEF OthersKeep
<1> QED BY <1>1, <1>2, <1>4, <1>5, <1>6, <1>9, <1>10

(* The level is done, or it only gets on.                                    *)
Ended(l) ==
  /\ phase'[l] = "none" /\ ~stored'[l] /\ index'[l] = 0 /\ ~torn'[l]

LEMMA LeaveMoves ==
  ASSUME RingTypeOK, NEW l \in Printer, Leave(l)
  PROVE  /\ Ended(l)
         /\ phase' \in [Printer -> Phases] /\ stored' \in [Printer -> BOOLEAN]
         /\ index' \in [Printer -> Memory] /\ torn' \in [Printer -> BOOLEAN]
         /\ \A k \in Printer \ {l} : /\ phase'[k] = phase[k] /\ stored'[k] = stored[k]
                                     /\ index'[k] = index[k] /\ torn'[k] = torn[k]
<1>1. 0 \in Memory
  BY SizeAssumption, PrinterAssumption DEF Memory
<1>2. phase' \in [Printer -> Phases] /\ phase'[l] = "none" /\ \A k \in Printer \ {l} : phase'[k] = phase[k]
  BY DEF Leave, RingTypeOK, Phases
<1>3. index' \in [Printer -> Memory] /\ index'[l] = 0 /\ \A k \in Printer \ {l} : index'[k] = index[k]
  BY <1>1 DEF Leave, RingTypeOK
<1>4. stored' \in [Printer -> BOOLEAN] /\ ~stored'[l] /\ \A k \in Printer \ {l} : stored'[k] = stored[k]
  BY DEF Leave, RingTypeOK
<1>5. torn' \in [Printer -> BOOLEAN] /\ ~torn'[l] /\ \A k \in Printer \ {l} : torn'[k] = torn[k]
  BY DEF Leave, RingTypeOK
<1> QED BY <1>2, <1>3, <1>4, <1>5 DEF Ended

LEMMA PrintedMoves ==
  ASSUME RingTypeOK, NEW l \in Printer, printing[l] # <<>>, Printed(l)
  PROVE  /\ Leave(l) /\ printing' \in [Printer -> Seq(Bytes)]
         /\ \A k \in Printer \ {l} : printing'[k] = printing[k]
<1>1. Tail(printing[l]) \in Seq(Bytes)
  BY TailOf DEF RingTypeOK
<1> QED BY <1>1 DEF Printed, RingTypeOK

LEMMA ClearByteMoves ==
  ASSUME RingTypeOK, NEW l \in Printer, ClearByte(l)
  PROVE  /\ Turn(l) /\ phase[l] = "clear" /\ OthersKeep(l) /\ CallTypes'
         /\ UNCHANGED <<offset, image, printing, latest, used>>
         /\ base' \in [Memory -> Bytes \cup {Zero}]
         /\ \A k \in Printer \ {l} : torn'[k] = torn[k]
         /\ \/ Ended(l)
            \/ phase'[l] = "clear" /\ torn'[l] = torn[l] /\ index'[l] = index[l] + 1 /\ index'[l] < Size
<1>1. /\ Turn(l) /\ phase[l] = "clear" /\ UNCHANGED <<offset, image, printing, latest, used>>
      /\ base' \in [Memory -> Bytes \cup {Zero}]
  BY DEF ClearByte, RingTypeOK
<1>2. CASE index[l] + 1 < Size
  <2>1. index[l] + 1 \in Memory
    BY <1>2, SizeAssumption, PrinterAssumption DEF RingTypeOK, Memory
  <2>2. index' = [index EXCEPT ![l] = index[l] + 1] /\ UNCHANGED <<phase, stored, torn>>
    BY <1>2 DEF ClearByte
  <2>3. index' \in [Printer -> Memory] /\ index'[l] = index[l] + 1 /\ \A k \in Printer \ {l} : index'[k] = index[k]
    BY <2>1, <2>2 DEF RingTypeOK
  <2>4. CallTypes' /\ OthersKeep(l)
    BY <1>1, <2>2, <2>3 DEF CallTypes, RingTypeOK, OthersKeep, Phases
  <2> QED BY <1>1, <1>2, <2>2, <2>3, <2>4
<1>3. CASE ~(index[l] + 1 < Size)
  <2>1. Leave(l)
    BY <1>3 DEF ClearByte
  <2>2. CallTypes' /\ OthersKeep(l)
    BY <1>1, <2>1, LeaveMoves DEF CallTypes, RingTypeOK, OthersKeep
  <2> QED BY <1>1, <2>1, <2>2, LeaveMoves
<1> QED BY <1>2, <1>3

LEMMA StoreByteMoves ==
  ASSUME RingTypeOK, NEW l \in Printer, StoreByte(l)
  PROVE  /\ Turn(l) /\ phase[l] \in {"read", "moved", "wrapped"} /\ ~stored[l]
         /\ OthersKeep(l) /\ CallTypes'
         /\ UNCHANGED <<offset, image, latest>>
         /\ base' = [base EXCEPT ![index[l]] = Head(printing[l])] /\ Head(printing[l]) \in Bytes
         /\ base' \in [Memory -> Bytes \cup {Zero}]
         /\ used' = IF torn[l] THEN used ELSE IF used < Size THEN used + 1 ELSE Size
         /\ \A k \in Printer \ {l} : torn'[k] = torn[k]
         /\ \/ phase[l] = "wrapped" /\ Ended(l)
            \/ /\ phase[l] # "wrapped" /\ stored'[l] /\ UNCHANGED <<phase, index, torn, printing>>
<1>1. /\ Turn(l) /\ phase[l] \in {"read", "moved", "wrapped"} /\ ~stored[l]
      /\ UNCHANGED <<offset, image, latest>>
      /\ base' = [base EXCEPT ![index[l]] = Head(printing[l])]
      /\ used' = IF torn[l] THEN used ELSE IF used < Size THEN used + 1 ELSE Size
  BY DEF StoreByte
<1>2. printing[l] # <<>> /\ Head(printing[l]) \in Bytes
  BY <1>1, TailOf DEF RingTypeOK
<1>3. base' \in [Memory -> Bytes \cup {Zero}]
  BY <1>1, <1>2 DEF RingTypeOK
<1>4. CASE phase[l] = "wrapped"
  <2>1. Leave(l) /\ printing' \in [Printer -> Seq(Bytes)] /\ \A k \in Printer \ {l} : printing'[k] = printing[k]
    BY <1>2, <1>4, PrintedMoves DEF StoreByte
  <2>2. CallTypes' /\ OthersKeep(l)
    BY <1>1, <2>1, LeaveMoves DEF CallTypes, RingTypeOK, OthersKeep
  <2> QED BY <1>1, <1>2, <1>3, <1>4, <2>1, <2>2, LeaveMoves
<1>5. CASE phase[l] # "wrapped"
  <2>1. stored' = [stored EXCEPT ![l] = TRUE] /\ UNCHANGED <<phase, index, torn, printing>>
    BY <1>5 DEF StoreByte
  <2>2. stored' \in [Printer -> BOOLEAN] /\ stored'[l] /\ \A k \in Printer \ {l} : stored'[k] = stored[k]
    BY <2>1 DEF RingTypeOK
  <2>3. CallTypes' /\ OthersKeep(l)
    BY <1>1, <2>1, <2>2 DEF CallTypes, RingTypeOK, OthersKeep, Phases
  <2> QED BY <1>1, <1>2, <1>3, <1>5, <2>1, <2>2, <2>3
<1> QED BY <1>4, <1>5

LEMMA AdvanceMoves ==
  ASSUME RingTypeOK, NEW l \in Printer, Advance(l)
  PROVE  /\ Turn(l) /\ phase[l] = "read" /\ phase'[l] = "moved" /\ OthersKeep(l) /\ CallTypes'
         /\ UNCHANGED <<base, image, printing, stored, index, torn, latest, used>>
         /\ offset' \in [Images -> Nat] /\ offset'[image[l]] = index[l] + 1
         /\ \A i \in Images \ {image[l]} : offset'[i] = offset[i]
<1>1. /\ Turn(l) /\ phase[l] = "read" /\ UNCHANGED <<base, image, printing, stored, index, torn, latest, used>>
      /\ offset' = [offset EXCEPT ![image[l]] = index[l] + 1]
      /\ phase' = [phase EXCEPT ![l] = "moved"]
  BY DEF Advance
<1>2. image[l] \in Images /\ index[l] + 1 \in Nat
  BY DEF RingTypeOK, Memory
<1>3. offset' \in [Images -> Nat] /\ offset'[image[l]] = index[l] + 1 /\ \A i \in Images \ {image[l]} : offset'[i] = offset[i]
  BY <1>1, <1>2 DEF RingTypeOK
<1>4. phase' \in [Printer -> Phases] /\ phase'[l] = "moved" /\ \A k \in Printer \ {l} : phase'[k] = phase[k]
  BY <1>1 DEF RingTypeOK, Phases
<1>5. CallTypes' /\ OthersKeep(l)
  BY <1>1, <1>4 DEF CallTypes, RingTypeOK, OthersKeep
<1> QED BY <1>1, <1>3, <1>4, <1>5

LEMMA WrapMoves ==
  ASSUME RingTypeOK, NEW l \in Printer, Wrap(l)
  PROVE  /\ Turn(l) /\ phase[l] = "moved" /\ OthersKeep(l) /\ CallTypes'
         /\ UNCHANGED <<base, image, latest, used>>
         /\ offset' \in [Images -> Nat]
         /\ \/ offset'[image[l]] = 0 /\ (index[l] + 1 >= Size \/ offset[image[l]] >= Size)
            \/ offset'[image[l]] = offset[image[l]] /\ (index[l] + 1 < Size \/ offset[image[l]] < Size)
         /\ \A i \in Images \ {image[l]} : offset'[i] = offset[i]
         /\ \A k \in Printer \ {l} : torn'[k] = torn[k]
         /\ \/ stored[l] /\ Ended(l)
            \/ ~stored[l] /\ phase'[l] = "wrapped" /\ UNCHANGED <<stored, index, torn, printing>>
<1>1. Turn(l) /\ phase[l] = "moved" /\ UNCHANGED <<base, image, latest, used>> /\ AfterWrap(l)
  BY DEF Wrap
<1>2. image[l] \in Images /\ index[l] \in Nat /\ offset[image[l]] \in Nat /\ printing[l] # <<>>
  BY <1>1 DEF RingTypeOK, Memory
<1>3. PICK seen \in {index[l] + 1, offset[image[l]]} :
        offset' = [offset EXCEPT ![image[l]] = IF seen >= Size THEN 0 ELSE offset[image[l]]]
  BY DEF Wrap
<1>4. /\ offset' \in [Images -> Nat]
      /\ offset'[image[l]] = IF seen >= Size THEN 0 ELSE offset[image[l]]
      /\ \A i \in Images \ {image[l]} : offset'[i] = offset[i]
  BY <1>2, <1>3 DEF RingTypeOK
<1>5. \/ offset'[image[l]] = 0 /\ (index[l] + 1 >= Size \/ offset[image[l]] >= Size)
      \/ offset'[image[l]] = offset[image[l]] /\ (index[l] + 1 < Size \/ offset[image[l]] < Size)
  BY <1>2, <1>4, SizeAssumption
<1>6. CASE stored[l]
  <2>1. Leave(l) /\ printing' \in [Printer -> Seq(Bytes)] /\ \A k \in Printer \ {l} : printing'[k] = printing[k]
    BY <1>1, <1>2, <1>6, PrintedMoves DEF AfterWrap
  <2>2. CallTypes' /\ OthersKeep(l)
    BY <1>1, <2>1, LeaveMoves DEF CallTypes, RingTypeOK, OthersKeep
  <2> QED BY <1>1, <1>4, <1>5, <1>6, <2>1, <2>2, LeaveMoves
<1>7. CASE ~stored[l]
  <2>1. phase' = [phase EXCEPT ![l] = "wrapped"] /\ UNCHANGED <<stored, index, torn, printing>>
    BY <1>1, <1>7 DEF AfterWrap
  <2>2. phase' \in [Printer -> Phases] /\ phase'[l] = "wrapped" /\ \A k \in Printer \ {l} : phase'[k] = phase[k]
    BY <2>1 DEF RingTypeOK, Phases
  <2>3. CallTypes' /\ OthersKeep(l)
    BY <1>1, <2>1, <2>2 DEF CallTypes, RingTypeOK, OthersKeep
  <2> QED BY <1>1, <1>4, <1>5, <1>7, <2>1, <2>2, <2>3
<1> QED BY <1>6, <1>7

LEMMA PrintCallMoves ==
  ASSUME RingTypeOK, NEW l \in Printer, NEW i \in Images, NEW message \in RingMessages,
         PrintCall(l, i, message)
  PROVE  /\ ~Busy(l) /\ OthersKeep(l) /\ CallTypes'
         /\ UNCHANGED <<base, offset, phase, stored, index, torn, latest, used>>
<1>1. ~Busy(l) /\ UNCHANGED <<base, offset, phase, stored, index, torn, latest, used>>
  BY DEF PrintCall, Free
<1>2. printing' \in [Printer -> Seq(Bytes)] /\ \A k \in Printer \ {l} : printing'[k] = printing[k]
  BY PrintsAssumption DEF PrintCall, RingTypeOK
<1>3. image' \in [Printer -> Images] /\ \A k \in Printer \ {l} : image'[k] = image[k]
  BY DEF PrintCall, RingTypeOK
<1> QED BY <1>1, <1>2, <1>3 DEF CallTypes, RingTypeOK, OthersKeep, Phases

LEMMA PrintersAre == \A l \in Printer : l \in Nat /\ l >= 1 /\ l <= Printers
  BY PrinterAssumption DEF Printer

LEMMA TypesFollow ==
  ASSUME CallTypes', base' \in [Memory -> Bytes \cup {Zero}], offset' \in [Images -> Nat],
         latest' \in Images, used' \in 0..Size,
         \A k \in Printer : phase'[k] \in {"read", "moved", "wrapped"} => printing'[k] # <<>>
  PROVE  RingTypeOK'
  BY DEF CallTypes, RingTypeOK, Phases

LEMMA InitializeKeeps ==
  ASSUME RingInv, NEW l \in Printer, NEW i \in Images, Initialize(l, i)
  PROVE  RingInv'
<1> USE SizeAssumption, PrintersAre, InitializeMoves DEF RingInv
<1>1. RingTypeOK'
  <2>1. \A k \in Printer : phase'[k] \in {"read", "moved", "wrapped"} => printing'[k] # <<>>
    BY DEF OthersKeep, RingTypeOK
  <2>2. used' \in 0..Size
    BY DEF RingTypeOK
  <2> QED BY <2>1, <2>2, TypesFollow DEF RingTypeOK
<1>2. OffsetWraps'
  <2>1. \A k \in Printer : Busy(k)' => index'[k] <= Size + k - 2
    BY DEF OffsetWraps, Busy, OthersKeep
  <2>2. \A j \in Images : offset'[j] < Size \/ \E k \in Printer : Pending(k, j)'
    <3> TAKE j \in Images
    <3>1. CASE offset[j] < Size
      BY <3>1
    <3>2. ASSUME NEW k \in Printer, Pending(k, j) PROVE Pending(k, j)'
      BY <3>2 DEF Pending, OthersKeep, Busy
    <3> QED BY <3>1, <3>2 DEF OffsetWraps
  <2> QED BY <2>1, <2>2 DEF OffsetWraps
<1>3. WholeOrTorn'
  BY DEF WholeOrTorn, OthersKeep, Busy, Turn, InBetween, Printer
<1>4. \A k \in Printer : Whole(k)' => HowFar(k)'
  <2> SUFFICES ASSUME NEW k \in Printer, Whole(k)' PROVE FALSE
    OBVIOUS
  <2>1. k # l /\ Busy(k) /\ ~torn'[k] /\ ~torn[k]
    BY DEF Whole, OthersKeep, Busy
  <2>2. k < l
    BY <2>1 DEF Turn, Printer
  <2> QED BY <2>1, <2>2
<1> QED BY <1>1, <1>2, <1>3, <1>4

LEMMA MemPutCharKeeps ==
  ASSUME RingInv, NEW l \in Printer, MemPutChar(l)
  PROVE  RingInv'
<1> USE SizeAssumption, PrintersAre, MemPutCharMoves DEF RingInv
<1>1. RingTypeOK'
  <2>1. \A k \in Printer : phase'[k] \in {"read", "moved", "wrapped"} => printing'[k] # <<>>
    BY DEF OthersKeep, RingTypeOK
  <2>2. used' \in 0..Size
    BY DEF RingTypeOK
  <2> QED BY <2>1, <2>2, TypesFollow DEF RingTypeOK
<1>2. OffsetWraps'
  <2>1. \A k \in Printer : Busy(k)' => index'[k] <= Size + k - 2
    BY DEF OffsetWraps, Busy, OthersKeep
  <2>2. \A j \in Images : offset'[j] < Size \/ \E k \in Printer : Pending(k, j)'
    <3> TAKE j \in Images
    <3>1. CASE offset[j] < Size
      BY <3>1
    <3>2. ASSUME NEW k \in Printer, Pending(k, j) PROVE Pending(k, j)'
      BY <3>2 DEF Pending, OthersKeep, Busy
    <3> QED BY <3>1, <3>2 DEF OffsetWraps
  <2> QED BY <2>1, <2>2 DEF OffsetWraps
<1>3. WholeOrTorn'
  BY DEF WholeOrTorn, OthersKeep, Busy, Turn, InBetween, Printer
<1>4. \A k \in Printer : Whole(k)' => HowFar(k)'
  <2> SUFFICES ASSUME NEW k \in Printer, Whole(k)' PROVE HowFar(k)'
    OBVIOUS
  <2>1. k = l
    <3> SUFFICES ASSUME k # l PROVE FALSE
      OBVIOUS
    <3>1. Busy(k) /\ ~torn'[k]
      BY DEF Whole, OthersKeep, Busy
    <3>2. k < l
      BY <3>1 DEF Turn, Printer
    <3> QED BY <3>1, <3>2
  <2>2. ~InBetween(l)
    BY <2>1 DEF Whole
  <2>3. \A m \in Printer : ~Busy(m)
    BY <2>2 DEF InBetween, Turn, Printer
  <2>4. image[l] \in Images /\ offset[image[l]] < Size
    BY <2>3 DEF OffsetWraps, Pending, Busy, RingTypeOK
  <2> QED BY <2>1, <2>4 DEF HowFar
<1> QED BY <1>1, <1>2, <1>3, <1>4

LEMMA ClearByteKeeps ==
  ASSUME RingInv, NEW l \in Printer, ClearByte(l)
  PROVE  RingInv'
<1> USE SizeAssumption, PrintersAre, ClearByteMoves DEF RingInv
<1>1. RingTypeOK'
  <2>1. \A k \in Printer : phase'[k] \in {"read", "moved", "wrapped"} => printing'[k] # <<>>
    BY DEF OthersKeep, RingTypeOK, Ended
  <2> QED BY <2>1, TypesFollow DEF RingTypeOK
<1>2. OffsetWraps'
  <2>1. \A k \in Printer : Busy(k)' => index'[k] <= Size + k - 2
    <3> SUFFICES ASSUME NEW k \in Printer, Busy(k)' PROVE index'[k] <= Size + k - 2
      OBVIOUS
    <3>1. CASE k = l
      <4>1. index'[l] \in Nat /\ index'[l] < Size
        BY <3>1 DEF Ended, Busy, CallTypes, Memory
      <4> QED BY <3>1, <4>1
    <3>2. CASE k # l
      BY <3>2 DEF OffsetWraps, Busy, OthersKeep
    <3> QED BY <3>1, <3>2
  <2>2. \A j \in Images : offset'[j] < Size \/ \E k \in Printer : Pending(k, j)'
    <3> TAKE j \in Images
    <3>1. CASE offset[j] < Size
      BY <3>1
    <3>2. ASSUME NEW k \in Printer, Pending(k, j) PROVE Pending(k, j)'
      BY <3>2 DEF Pending, OthersKeep, Busy
    <3> QED BY <3>1, <3>2 DEF OffsetWraps
  <2> QED BY <2>1, <2>2 DEF OffsetWraps
<1>3. WholeOrTorn'
  BY DEF WholeOrTorn, OthersKeep, Busy, Ended
<1>4. \A k \in Printer : Whole(k)' => HowFar(k)'
  <2> SUFFICES ASSUME NEW k \in Printer, Whole(k)' PROVE FALSE
    OBVIOUS
  <2>1. k # l /\ Busy(k) /\ Busy(l) /\ ~torn[k]
    BY DEF Whole, OthersKeep, Busy, Ended
  <2> QED BY <2>1 DEF WholeOrTorn
<1> QED BY <1>1, <1>2, <1>3, <1>4

LEMMA StoreByteKeeps ==
  ASSUME RingInv, NEW l \in Printer, StoreByte(l)
  PROVE  RingInv'
<1> USE SizeAssumption, PrintersAre, StoreByteMoves DEF RingInv
<1>1. RingTypeOK'
  <2>1. \A k \in Printer : phase'[k] \in {"read", "moved", "wrapped"} => printing'[k] # <<>>
    BY DEF OthersKeep, RingTypeOK, Ended
  <2>2. used' \in 0..Size
    <3>1. used \in 0..Size
      BY DEF RingTypeOK
    <3>2. used' \in {used, used + 1, Size} /\ (used' = used + 1 => used < Size \/ used' = Size)
      BY <3>1
    <3> QED BY <3>1, <3>2
  <2> QED BY <2>1, <2>2, TypesFollow DEF RingTypeOK
<1>2. OffsetWraps'
  <2>1. \A k \in Printer : Busy(k)' => index'[k] <= Size + k - 2
    BY DEF OffsetWraps, Busy, OthersKeep, Ended
  <2>2. \A j \in Images : offset'[j] < Size \/ \E k \in Printer : Pending(k, j)'
    <3> TAKE j \in Images
    <3>1. CASE offset[j] < Size
      BY <3>1
    <3>2. ASSUME NEW k \in Printer, Pending(k, j) PROVE Pending(k, j)'
      BY <3>2 DEF Pending, OthersKeep, Busy
    <3> QED BY <3>1, <3>2 DEF OffsetWraps
  <2> QED BY <2>1, <2>2 DEF OffsetWraps
<1>3. WholeOrTorn'
  BY DEF WholeOrTorn, OthersKeep, Busy, Ended
<1>4. \A k \in Printer : Whole(k)' => HowFar(k)'
  <2> SUFFICES ASSUME NEW k \in Printer, Whole(k)' PROVE HowFar(k)'
    OBVIOUS
  <2>1. k = l
    BY DEF Whole, OthersKeep, Busy, Ended, WholeOrTorn
  <2>2. phase'[l] = phase[l] /\ index'[l] = index[l] /\ Whole(l)
    BY <2>1 DEF Whole, Ended
  <2> QED BY <2>1, <2>2 DEF HowFar, CellBehind
<1> QED BY <1>1, <1>2, <1>3, <1>4

LEMMA AdvanceKeeps ==
  ASSUME RingInv, NEW l \in Printer, Advance(l)
  PROVE  RingInv'
<1> USE SizeAssumption, PrintersAre, AdvanceMoves DEF RingInv
<1>1. RingTypeOK'
  <2>1. \A k \in Printer : phase'[k] \in {"read", "moved", "wrapped"} => printing'[k] # <<>>
    BY DEF OthersKeep, RingTypeOK
  <2> QED BY <2>1, TypesFollow DEF RingTypeOK
<1>2. OffsetWraps'
  <2>1. \A k \in Printer : Busy(k)' => index'[k] <= Size + k - 2
    BY DEF OffsetWraps, Busy, OthersKeep
  <2>2. \A j \in Images : offset'[j] < Size \/ \E k \in Printer : Pending(k, j)'
    <3> TAKE j \in Images
    <3>1. CASE j = image[l]
      <4>1. Pending(l, j)'
        BY <3>1 DEF Pending
      <4> QED BY <4>1
    <3>2. CASE j # image[l] /\ offset[j] < Size
      BY <3>2
    <3>3. ASSUME j # image[l], NEW k \in Printer, Pending(k, j) PROVE Pending(k, j)'
      BY <3>3 DEF Pending, OthersKeep, Busy
    <3> QED BY <3>1, <3>2, <3>3 DEF OffsetWraps
  <2> QED BY <2>1, <2>2 DEF OffsetWraps
<1>3. WholeOrTorn'
  BY DEF WholeOrTorn, OthersKeep, Busy
<1>4. \A k \in Printer : Whole(k)' => HowFar(k)'
  <2> SUFFICES ASSUME NEW k \in Printer, Whole(k)' PROVE HowFar(k)'
    OBVIOUS
  <2>1. k = l
    BY DEF Whole, OthersKeep, Busy, WholeOrTorn
  <2>2. Whole(l)
    BY <2>1 DEF Whole
  <2> QED BY <2>1, <2>2 DEF HowFar
<1> QED BY <1>1, <1>2, <1>3, <1>4

LEMMA WrapKeeps ==
  ASSUME RingInv, NEW l \in Printer, Wrap(l)
  PROVE  RingInv'
<1> USE SizeAssumption, PrintersAre, WrapMoves DEF RingInv
<1>1. RingTypeOK'
  <2>1. \A k \in Printer : phase'[k] \in {"read", "moved", "wrapped"} => printing'[k] # <<>>
    BY DEF OthersKeep, RingTypeOK, Ended
  <2> QED BY <2>1, TypesFollow DEF RingTypeOK
<1>2. OffsetWraps'
  <2>1. \A k \in Printer : Busy(k)' => index'[k] <= Size + k - 2
    BY DEF OffsetWraps, Busy, OthersKeep, Ended
  <2>2. \A j \in Images : offset'[j] < Size \/ \E k \in Printer : Pending(k, j)'
    <3> TAKE j \in Images
    <3>0. image[l] \in Images /\ \A m \in Images : offset[m] \in Nat
      BY DEF RingTypeOK
    <3>1. CASE offset[j] < Size
      BY <3>0, <3>1
    <3>2. ASSUME j # image[l], NEW k \in Printer, Pending(k, j) PROVE Pending(k, j)'
      BY <3>2 DEF Pending, OthersKeep, Busy
    <3>3. ASSUME j = image[l], Pending(l, j) PROVE offset'[j] < Size
      BY <3>0, <3>3 DEF Pending
    <3>4. ASSUME j = image[l], NEW k \in Printer, k # l, Pending(k, j), ~(offset'[j] < Size)
          PROVE Pending(k, j)'
      BY <3>0, <3>4 DEF Pending, OthersKeep
    <3> QED BY <3>0, <3>1, <3>2, <3>3, <3>4 DEF OffsetWraps
  <2> QED BY <2>1, <2>2 DEF OffsetWraps
<1>3. WholeOrTorn'
  BY DEF WholeOrTorn, OthersKeep, Busy, Ended
<1>4. \A k \in Printer : Whole(k)' => HowFar(k)'
  <2> SUFFICES ASSUME NEW k \in Printer, Whole(k)' PROVE HowFar(k)'
    OBVIOUS
  <2>1. k = l
    BY DEF Whole, OthersKeep, Busy, WholeOrTorn, Ended
  <2>2. Whole(l) /\ index'[l] = index[l] /\ phase'[l] = "wrapped"
    BY <2>1 DEF Whole, Ended
  <2>3. index[l] \in Nat /\ index[l] < Size /\ latest = image[l] /\ offset[latest] = index[l] + 1
    BY <2>2 DEF HowFar, RingTypeOK, Memory
  <2>4. offset'[latest] = CellBehind(index[l])
    BY <2>3 DEF CellBehind
  <2> QED BY <2>1, <2>2, <2>3, <2>4 DEF HowFar, CellBehind
<1> QED BY <1>1, <1>2, <1>3, <1>4

LEMMA PrintCallKeeps ==
  ASSUME RingInv, NEW l \in Printer, NEW i \in Images, NEW message \in RingMessages,
         PrintCall(l, i, message)
  PROVE  RingInv'
<1> USE PrintersAre, PrintCallMoves DEF RingInv
<1>1. RingTypeOK'
  <2>1. \A k \in Printer : phase'[k] \in {"read", "moved", "wrapped"} => printing'[k] # <<>>
    BY DEF OthersKeep, RingTypeOK, Busy
  <2> QED BY <2>1, TypesFollow DEF RingTypeOK
<1>2. OffsetWraps'
  <2>1. \A k \in Printer : Busy(k)' => index'[k] <= Size + k - 2
    BY DEF OffsetWraps, Busy
  <2>2. \A j \in Images : offset'[j] < Size \/ \E k \in Printer : Pending(k, j)'
    <3> TAKE j \in Images
    <3>2. ASSUME NEW k \in Printer, Pending(k, j) PROVE Pending(k, j)'
      BY <3>2 DEF Pending, OthersKeep, Busy
    <3> QED BY <3>2 DEF OffsetWraps
  <2> QED BY <2>1, <2>2 DEF OffsetWraps
<1>3. WholeOrTorn'
  BY DEF WholeOrTorn, Busy
<1>4. \A k \in Printer : Whole(k)' => HowFar(k)'
  BY DEF Whole, HowFar, OthersKeep, Busy, CellBehind
<1> QED BY <1>1, <1>2, <1>3, <1>4

LEMMA RingStep == RingInv /\ [RingNext]_ringVars => RingInv'
<1> SUFFICES ASSUME RingInv, [RingNext]_ringVars PROVE RingInv'
  OBVIOUS
<1>1. CASE UNCHANGED ringVars
  BY <1>1 DEF ringVars, RingInv, RingTypeOK, OffsetWraps, Pending, WholeOrTorn, Whole, HowFar, CellBehind, Busy
<1> QED BY <1>1, InitializeKeeps, MemPutCharKeeps, ClearByteKeeps, StoreByteKeeps, AdvanceKeeps, WrapKeeps,
           PrintCallKeeps DEF RingNext

(* Where the next byte goes.                                                 *)
LEMMA PlaceOfWhole ==
  ASSUME RingInv, NEW l \in Printer, Whole(l)
  PROVE  Place = IF stored[l] THEN CellBehind(index[l]) ELSE index[l]
<1>1. \A k \in Printer : Whole(k) => k = l
  BY DEF RingInv, WholeOrTorn, Whole, Busy
<1>2. (CHOOSE k \in Printer : Whole(k)) = l
  BY <1>1
<1> QED BY <1>2 DEF Place

LEMMA PlaceOfWholeNext ==
  ASSUME RingInv', NEW l \in Printer, Whole(l)'
  PROVE  Place' = IF stored'[l] THEN CellBehind(index'[l]) ELSE index'[l]
<1>1. \A k \in Printer : Whole(k)' => k = l
  BY DEF RingInv, WholeOrTorn, Whole, Busy
<1>2. (CHOOSE k \in Printer : Whole(k)') = l
  BY <1>1
<1> QED BY <1>2 DEF Place, CellBehind

LEMMA PlaceOfNone ==
  (\A l \in Printer : ~Whole(l)) => Place = offset[latest]
  BY DEF Place

LEMMA PlaceOfNoneNext ==
  (\A l \in Printer : ~Whole(l)') => Place' = offset'[latest']
  BY DEF Place

LEMMA CellsAreMemory == \A p \in Cell : p \in Memory
  BY SizeAssumption, PrinterAssumption DEF Cell, Memory

LEMMA PlaceIsCell == RingInv /\ used # 0 => Place \in Cell
<1> SUFFICES ASSUME RingInv, used # 0 PROVE Place \in Cell
  OBVIOUS
<1>1. CASE \E l \in Printer : Whole(l)
  <2> PICK l \in Printer : Whole(l)
    BY <1>1
  <2>1. index[l] \in Nat /\ index[l] < Size
    BY DEF RingInv, HowFar, RingTypeOK, Memory
  <2> QED BY <2>1, PlaceOfWhole, SizeAssumption DEF CellBehind, Cell
<1>2. CASE \A l \in Printer : ~Whole(l)
  <2>1. \A l \in Printer : ~Busy(l)
    BY <1>2 DEF RingInv, WholeOrTorn, Whole, Busy, RingTypeOK
  <2>2. offset[latest] < Size /\ offset[latest] \in Nat
    BY <2>1 DEF RingInv, OffsetWraps, Pending, Busy, RingTypeOK
  <2> QED BY <1>2, <2>2, PlaceOfNone, SizeAssumption DEF Cell
<1> QED BY <1>1, <1>2

(* The byte goes where Place says, and Place is the next cell then.          *)
LEMMA StorePlace ==
  ASSUME RingInv, RingInv', NEW l \in Printer, Whole(l), StoreByte(l)
  PROVE  index[l] \in Cell /\ Place = index[l] /\ Place' = CellBehind(index[l])
<1>0. RingTypeOK
  BY DEF RingInv
<1> USE <1>0, StoreByteMoves
<1>1. index[l] \in Cell
  BY SizeAssumption DEF RingInv, HowFar, RingTypeOK, Memory, Cell
<1>2. Place = index[l]
  BY PlaceOfWhole
<1>3. Place' = CellBehind(index[l])
  <2>1. CASE phase[l] = "wrapped"
    <3>1. \A k \in Printer : Busy(k) => k = l
      BY DEF RingInv, WholeOrTorn, Whole, Busy
    <3>2. \A k \in Printer : ~Whole(k)'
      BY <2>1, <3>1 DEF Ended, OthersKeep, Whole, Busy
    <3>3. offset[latest] = CellBehind(index[l])
      BY <2>1 DEF RingInv, HowFar
    <3> QED BY <3>2, <3>3, PlaceOfNoneNext
  <2>2. CASE phase[l] # "wrapped"
    <3>1. Whole(l)'
      BY <2>2 DEF Whole
    <3> QED BY <2>2, <3>1, PlaceOfWholeNext
  <2> QED BY <2>1, <2>2
<1> QED BY <1>1, <1>2, <1>3

(* The byte written k ago was written k + 1 ago after the next one, and is   *)
(* not where that one goes.                                                  *)
LEMMA AgoMoves ==
  ASSUME RingInv, RingInv', NEW l \in Printer, Whole(l), StoreByte(l)
  PROVE  /\ index[l] \in Cell /\ Ago(1)' = index[l]
         /\ \A k \in 1..Size-1 : Ago(k + 1)' = Ago(k) /\ Ago(k) # index[l] /\ Ago(k) \in Cell
<1>1. index[l] \in Cell /\ Place = index[l] /\ Place' = CellBehind(index[l])
  BY StorePlace
<1> QED BY <1>1, SizeAssumption DEF Ago, Cell, CellBehind

LEMMA PutShows ==
  ASSUME RingInv, RingInv', NEW l \in Printer, Whole(l), StoreByte(l),
         NEW byte, byte = Head(printing[l])
  PROVE  Shown' = Append(IF Len(Shown) < Size THEN Shown ELSE Tail(Shown), byte)
<1> USE SizeAssumption
<1> DEFINE kept == IF used < Size THEN used ELSE Size - 1
<1>0. byte \in Bytes /\ ~torn[l]
  BY StoreByteMoves DEF RingInv, Whole
<1>1. used \in 0..Size /\ used' = kept + 1 /\ kept \in 0..Size-1
  BY <1>0, StoreByteMoves DEF RingInv, RingTypeOK
<1>2. Len(Shown) = used /\ Shown \in Seq(Bytes \cup {Zero})
  <2>1. \A n \in 1..used : Ago(used + 1 - n) \in Cell
    BY <1>1, StorePlace, SizeAssumption DEF Ago, Cell
  <2> QED BY <1>1, <2>1, CellsAreMemory DEF Shown, RingInv, RingTypeOK
<1>3. \A p \in Cell : base'[p] = IF p = index[l] THEN byte ELSE base[p]
  BY CellsAreMemory, StoreByteMoves DEF RingInv, RingTypeOK
<1>4. \A k, n \in 1..kept+1 : k + n = kept + 2 => Shown'[n] = base'[Ago(k)']
  <2> SUFFICES ASSUME NEW k \in 1..kept+1, NEW n \in 1..kept+1, k + n = kept + 2
               PROVE  Shown'[n] = base'[Ago(k)']
    OBVIOUS
  <2>1. n \in 1..used' /\ used' + 1 - n = k
    BY <1>1
  <2> QED BY <2>1 DEF Shown, Ago
<1>5. Shown'[kept + 1] = byte
  <2>1. Shown'[kept + 1] = base'[Ago(1)']
    <3>1. 1 \in 1..kept+1 /\ kept + 1 \in 1..kept+1 /\ 1 + (kept + 1) = kept + 2
      BY <1>1
    <3> QED BY <1>4, <3>1
  <2>2. index[l] \in Cell
    BY AgoMoves
  <2> QED BY <1>3, <2>1, <2>2, AgoMoves
<1>6. ASSUME NEW n \in 1..kept, NEW k \in 1..kept, k + n = kept + 1
      PROVE  Shown'[n] = base[Ago(k)]
  <2>1. k \in 1..Size-1 /\ k + 1 \in 1..kept+1 /\ n \in 1..kept+1 /\ (k + 1) + n = kept + 2
    BY <1>1, <1>6
  <2>2. Shown'[n] = base'[Ago(k + 1)']
    BY <1>4, <2>1
  <2> QED BY <1>3, <2>1, <2>2, AgoMoves
<1>7. CASE used < Size
  <2>1. ASSUME NEW n \in 1..used PROVE Shown'[n] = Shown[n]
    <3>1. used + 1 - n \in 1..kept /\ n \in 1..kept /\ (used + 1 - n) + n = kept + 1
      BY <1>1, <1>7
    <3>2. Shown[n] = base[Ago(used + 1 - n)]
      BY DEF Shown
    <3>3. Shown'[n] = base[Ago(used + 1 - n)]
      BY <1>6, <3>1, Zenon
    <3> QED BY <3>2, <3>3
  <2>2. used' = used + 1 /\ kept = used
    BY <1>1, <1>7
  <2>3. Shown' = [n \in 1..used+1 |-> Shown'[n]]
    BY <2>2 DEF Shown
  <2>4. /\ Append(Shown, byte) \in Seq(Bytes \cup {Zero}) /\ Len(Append(Shown, byte)) = used + 1
        /\ \A n \in 1..used : Append(Shown, byte)[n] = Shown[n]
        /\ Append(Shown, byte)[used + 1] = byte
    BY <1>0, <1>2, AppendProperties
  <2>5. \A n \in 1..used+1 : Shown'[n] = Append(Shown, byte)[n]
    BY <1>1, <1>5, <2>1, <2>2, <2>4
  <2>6. \A n \in 1..used+1 : Append(Shown, byte)[n] \in Bytes \cup {Zero}
    BY <2>4, ElementOfSeq
  <2>7. Shown' \in Seq(Bytes \cup {Zero}) /\ Len(Shown') = used + 1
    <3>1. used + 1 \in Nat
      BY <1>1
    <3>2. \A n \in 1..used+1 : Shown'[n] \in Bytes \cup {Zero}
      BY <2>5, <2>6, Zenon
    <3> QED BY <2>3, <3>1, <3>2
  <2>8. Shown' = Append(Shown, byte)
    BY <2>4, <2>5, <2>7, SeqEqual
  <2> QED BY <1>2, <1>7, <2>8
<1>8. CASE ~(used < Size)
  <2>1. used = Size /\ kept = Size - 1
    BY <1>1, <1>8
  <2>2. ASSUME NEW n \in 1..Size-1 PROVE Shown'[n] = Shown[n + 1]
    <3>1. Size - n \in 1..kept /\ n \in 1..kept /\ (Size - n) + n = kept + 1
      BY <2>1
    <3>2. n + 1 \in 1..used /\ used + 1 - (n + 1) = Size - n
      BY <2>1
    <3>3. Shown[n + 1] = base[Ago(Size - n)]
      BY <3>2 DEF Shown
    <3>4. Shown'[n] = base[Ago(Size - n)]
      BY <1>6, <3>1, Zenon
    <3> QED BY <3>3, <3>4
  <2>3. Shown' = [n \in 1..Size |-> Shown'[n]]
    BY <1>1, <2>1 DEF Shown
  <2>4. /\ Tail(Shown) \in Seq(Bytes \cup {Zero}) /\ Len(Tail(Shown)) = Size - 1
        /\ \A n \in 1..Size-1 : Tail(Shown)[n] = Shown[n + 1]
    <3>1. Shown # <<>>
      BY <1>2, <2>1, EmptySeq
    <3> QED BY <1>2, <2>1, <3>1, HeadTailProperties
  <2> DEFINE next == Append(Tail(Shown), byte)
  <2>5. /\ next \in Seq(Bytes \cup {Zero}) /\ Len(next) = (Size - 1) + 1
        /\ \A n \in 1..Size-1 : next[n] = Tail(Shown)[n]
        /\ next[(Size - 1) + 1] = byte
    BY <1>0, <2>4, AppendProperties
  <2> HIDE DEF next
  <2>6. \A n \in 1..Size : Shown'[n] = next[n]
    <3>1. Shown'[Size] = byte /\ next[Size] = byte
      BY <1>5, <2>1, <2>5
    <3>2. ASSUME NEW n \in 1..Size-1 PROVE Shown'[n] = next[n]
      BY <2>2, <2>4, <2>5
    <3> QED BY <3>1, <3>2
  <2>7. \A n \in 1..Size : next[n] \in Bytes \cup {Zero}
    BY <2>5, ElementOfSeq
  <2>8. Shown' \in Seq(Bytes \cup {Zero}) /\ Len(Shown') = Size
    BY <1>1, <2>3, <2>6, <2>7
  <2>9. Shown' = next
    BY <2>5, <2>6, <2>8, SeqEqual
  <2> QED BY <1>2, <2>1, <2>9 DEF next
<1> QED BY <1>7, <1>8


LEMMA StaysShown ==
  ASSUME used' = used, used = 0 \/ (base' = base /\ Place' = Place)
  PROVE  Shown' = Shown
  BY DEF Shown, Ago

LEMMA EmptyShown == (used = 0 => Shown = <<>>) /\ (used' = 0 => Shown' = <<>>)
  BY DEF Shown

(* The ring of one image implements the rolling log, for any size of the     *)
(* region and any number of levels that preempt each other between any two   *)
(* accesses: what it shows is the last Size bytes written since it was       *)
(* cleared, also if it was cleared when the offset was not 0, or since the   *)
(* last call that came in between the accesses of another                    *)
(* (SerialPortInitialize, mem_putchar).                                      *)
THEOREM RingImplementsLog ==
  ASSUME NEW i, Images = {i}
  PROVE  RingSpec => KeepsTheLog
<1>1. RingInit => Rolling!LogInit
  BY DEF RingInit, Shown, Rolling!LogInit
<1>2. RingInv /\ RingInv' /\ [RingNext]_ringVars => [Rolling!LogNext]_Shown
  <2> SUFFICES ASSUME RingInv, RingInv', [RingNext]_ringVars PROVE [Rolling!LogNext]_Shown
    OBVIOUS
  <2>0. RingTypeOK /\ OffsetWraps
    BY DEF RingInv
  <2>1. ASSUME NEW l \in Printer, NEW j \in Images, Initialize(l, j) PROVE Rolling!Clear
    BY <2>0, <2>1, InitializeMoves, EmptyShown DEF Rolling!Clear
  <2>2. ASSUME NEW l \in Printer, MemPutChar(l) PROVE Rolling!Clear \/ UNCHANGED Shown
    <3>1. CASE InBetween(l)
      BY <2>0, <2>2, <3>1, MemPutCharMoves, EmptyShown DEF Rolling!Clear
    <3>2. CASE ~InBetween(l)
      <4>1. \A k \in Printer : ~Busy(k) /\ ~torn[k]
        BY <2>0, <2>2, <3>2, MemPutCharMoves DEF InBetween, Turn, Printer, RingInv, WholeOrTorn
      <4>2. Whole(l)' /\ ~stored'[l]
        <5>1. ~torn'[l] /\ phase'[l] = "read" /\ stored'[l] = stored[l] /\ ~Busy(l)
          BY <2>0, <2>2, <3>2, <4>1, MemPutCharMoves DEF Printer
        <5> QED BY <5>1 DEF Whole, RingInv, RingTypeOK, WholeOrTorn
      <4>3. Place' = offset[image[l]]
        BY <2>0, <2>2, <4>2, PlaceOfWholeNext, MemPutCharMoves
      <4>4. Place = offset[latest] /\ latest = image[l]
        BY <2>0, <4>1, PlaceOfNone DEF Whole, Busy, RingTypeOK
      <4> QED BY <2>0, <2>2, <3>2, <4>3, <4>4, MemPutCharMoves, StaysShown
    <3> QED BY <3>1, <3>2
  <2>3. ASSUME NEW l \in Printer, ClearByte(l) PROVE UNCHANGED Shown
    <3>1. used = 0 /\ used' = used
      BY <2>0, <2>3, ClearByteMoves DEF RingInv, WholeOrTorn, Busy
    <3> QED BY <3>1, StaysShown
  <2>4. ASSUME NEW l \in Printer, StoreByte(l)
        PROVE  UNCHANGED Shown \/ \E byte \in Bytes : Rolling!Put(byte)
    <3>1. CASE torn[l]
      <4>1. used = 0 /\ used' = used
        BY <2>0, <2>4, <3>1, StoreByteMoves DEF RingInv, WholeOrTorn, Busy
      <4> QED BY <4>1, StaysShown
    <3>2. CASE ~torn[l]
      <4>1. Whole(l) /\ Head(printing[l]) \in Bytes
        BY <2>0, <2>4, <3>2, StoreByteMoves DEF Whole
      <4>2. Rolling!Put(Head(printing[l]))
        BY <2>4, <4>1, PutShows DEF Rolling!Put
      <4> QED BY <4>1, <4>2
    <3> QED BY <3>1, <3>2
  <2>5. ASSUME NEW l \in Printer, Advance(l) PROVE UNCHANGED Shown
    <3>1. CASE torn[l]
      BY <2>0, <2>5, <3>1, AdvanceMoves, StaysShown DEF RingInv, WholeOrTorn, Busy
    <3>2. CASE ~torn[l]
      <4>1. Whole(l) /\ Whole(l)' /\ index' = index /\ stored' = stored
        BY <2>0, <2>5, <3>2, AdvanceMoves DEF Whole
      <4>2. Place' = Place
        BY <4>1, PlaceOfWhole, PlaceOfWholeNext
      <4> QED BY <2>0, <2>5, <4>2, AdvanceMoves, StaysShown
    <3> QED BY <3>1, <3>2
  <2>6. ASSUME NEW l \in Printer, Wrap(l) PROVE UNCHANGED Shown
    <3> USE <2>0, <2>6, WrapMoves
    <3>1. CASE torn[l]
      BY <3>1, StaysShown DEF RingInv, WholeOrTorn, Busy
    <3>2. CASE ~torn[l] /\ ~stored[l]
      <4>1. Whole(l) /\ Whole(l)' /\ index' = index /\ stored' = stored
        BY <3>2 DEF Whole
      <4>2. Place' = Place
        BY <4>1, PlaceOfWhole, PlaceOfWholeNext
      <4> QED BY <4>2, StaysShown
    <3>3. CASE ~torn[l] /\ stored[l]
      <4>1. Whole(l) /\ Ended(l)
        BY <3>3 DEF Whole, RingTypeOK
      <4>2. Place = CellBehind(index[l])
        BY <3>3, <4>1, PlaceOfWhole
      <4>3. \A k \in Printer : ~Whole(k)'
        BY <4>1 DEF RingInv, WholeOrTorn, Whole, Busy, Ended, OthersKeep
      <4>4. index[l] \in Nat /\ index[l] < Size /\ latest = image[l] /\ offset[latest] = index[l] + 1
        BY <4>1 DEF RingInv, HowFar, RingTypeOK, Memory
      <4>5. offset'[latest'] = CellBehind(index[l])
        BY <4>4, SizeAssumption DEF CellBehind
      <4>6. Place' = Place
        BY <4>2, <4>3, <4>5, PlaceOfNoneNext
      <4> QED BY <4>6, StaysShown
    <3> QED BY <3>1, <3>2, <3>3
  <2>7. ASSUME NEW l \in Printer, NEW j \in Images, NEW message \in RingMessages, PrintCall(l, j, message)
        PROVE  UNCHANGED Shown
    <3>1. UNCHANGED <<base, offset, phase, stored, index, torn, latest, used>>
      BY <2>0, <2>7, PrintCallMoves
    <3> QED BY <3>1 DEF Shown, Ago, Place, Whole
  <2>8. CASE UNCHANGED ringVars
    BY <2>8 DEF ringVars, Shown, Ago, Place, Whole
  <2> QED BY <2>1, <2>2, <2>3, <2>4, <2>5, <2>6, <2>7, <2>8 DEF RingNext, Rolling!LogNext
<1>3. RingSpec => []RingInv
  BY RingInitOK, RingStep, PTL DEF RingSpec
<1> QED BY <1>1, <1>2, <1>3, PTL DEF RingSpec, KeepsTheLog, Rolling!LogSpec

-----------------------------------------------------------------------------
(* The frame buffer: what is on a page                                       *)

Colours == {"white", "yellow"}
Marks   == Glyphs \X Colours
Pages   == [(0..MaxY) \X (0..Columns) -> Marks \cup {Blank}]

LEMMA EmptyPage ==
  Page \in Pages /\ \A y \in 0..MaxY, x \in 0..Columns : Page[<<y, x>>] = Blank
BY DEF Page, Pages

LEMMA MarkIsNotBlank == \A v \in Marks : v # Blank
BY DEF Marks, Blank

Flattened(g, ss, n) ==
  g[1] = ss[1] /\ \A i \in 1..n : i # 1 => g[i] = g[i-1] \o ss[i]

LEMMA FlattenRun ==
  ASSUME NEW ss, NEW n \in Nat, n >= 1, NEW g, FlattensTo(g, ss, n)
  PROVE  Flattened(g, ss, n)
<1>1. 1 \in 1..n
  OBVIOUS
<1>2. g[1] = ss[1]
  BY <1>1, FlattenFirst
<1>3. ASSUME NEW i \in 1..n, i # 1 PROVE g[i] = g[i-1] \o ss[i]
  BY <1>3, FlattenStep
<1> QED BY <1>2, <1>3 DEF Flattened

LEMMA AppendLast ==
  ASSUME NEW S, NEW v \in S, NEW a \in Seq(S), NEW b \in Seq(S)
  PROVE  a \o Append(b, v) = Append(a \o b, v)
OBVIOUS

(* A list that becomes one longer, behind which all are empty, makes what    *)
(* all of them contain one longer.                                           *)
Longer(ss, tt, k, v) ==
  /\ Len(tt) = Len(ss) /\ k \in 1..Len(ss) /\ tt[k] = Append(ss[k], v)
  /\ \A j \in 1..Len(ss) : (j # k => tt[j] = ss[j]) /\ (j > k => ss[j] = <<>>)

LEMMA FlattenLonger ==
  ASSUME NEW S, NEW v \in S, NEW ss \in Seq(Seq(S)), NEW tt \in Seq(Seq(S)),
         NEW k, Longer(ss, tt, k, v)
  PROVE  FlattenSeq(tt) = Append(FlattenSeq(ss), v)
<1> USE DEF Longer
<1> DEFINE n == Len(ss)
<1>0. n \in Nat /\ n >= 1 /\ k \in Nat /\ k >= 1 /\ k <= n /\ \A j \in 1..n : ss[j] \in Seq(S)
  OBVIOUS
<1>1. PICK g \in [1..n -> Seq(S)] : FlattensTo(g, ss, n) /\ FlattenSeq(ss) = g[n]
  <2>1. ss # <<>>
    BY <1>0
  <2> QED BY <2>1, FlattenFacts
<1>2. PICK h \in [1..n -> Seq(S)] : FlattensTo(h, tt, n) /\ FlattenSeq(tt) = h[n]
  <2>1. tt # <<>>
    BY <1>0
  <2> QED BY <2>1, FlattenFacts
<1>3. /\ g[1] = ss[1] /\ h[1] = tt[1]
      /\ \A i \in 1..n : i # 1 => g[i] = g[i-1] \o ss[i] /\ h[i] = h[i-1] \o tt[i]
  <2> HIDE DEF n
  <2>1. Flattened(g, ss, n)
    BY <1>0, <1>1, FlattenRun
  <2>2. Flattened(h, tt, n)
    BY <1>0, <1>2, FlattenRun
  <2> QED BY <2>1, <2>2 DEF Flattened
<1>4. \A j \in 1..n : (j # k => tt[j] = ss[j]) /\ (j > k => ss[j] = <<>>)
  OBVIOUS
<1>10. tt[k] = Append(ss[k], v)
  OBVIOUS
<1> HIDE DEF n, Longer
<1> DEFINE Same(i) == (i < k => h[i] = g[i]) /\ (i >= k => h[i] = Append(g[i], v))
           T == {m \in Nat : m + 1 <= n => Same(m + 1)}
<1>5. 0 \in T
  <2>1. (1 < k => 1 # k) /\ (1 >= k => k = 1) /\ 1 \in 1..n
    BY <1>0
  <2>2. Same(1)
    BY <1>3, <1>4, <1>10, <2>1
  <2> HIDE DEF Same
  <2> QED BY <2>1, <2>2
<1>6. ASSUME NEW m \in Nat, m \in T PROVE m + 1 \in T
  <2> SUFFICES ASSUME (m + 1) + 1 <= n PROVE Same((m + 1) + 1)
    OBVIOUS
  <2> DEFINE i == m + 1
  <2>1. i \in 1..n /\ i + 1 \in 1..n /\ i + 1 # 1 /\ (i + 1) - 1 = i /\ i \in Nat
    <3> HIDE DEF T, Same
    <3>1. i \in Nat /\ i >= 1 /\ i + 1 <= n
      OBVIOUS
    <3> HIDE DEF i
    <3> QED BY <1>0, <3>1
  <2>2. Same(i)
    <3> HIDE DEF Same
    <3> QED BY <1>6, <2>1
  <2> HIDE DEF i
  <2>3. g[i+1] = g[i] \o ss[i+1] /\ h[i+1] = h[i] \o tt[i+1] /\ g[i] \in Seq(S) /\ ss[i+1] \in Seq(S)
    BY <1>0, <1>3, <2>1
  <2>4. CASE i + 1 < k
    <3>1. h[i] = g[i] /\ tt[i+1] = ss[i+1]
      BY <1>0, <1>4, <2>1, <2>2, <2>4
    <3>2. ~(i + 1 >= k)
      BY <1>0, <2>1, <2>4
    <3> QED BY <2>3, <3>1, <3>2 DEF i
  <2>5. CASE i + 1 = k
    <3>1. h[i] = g[i]
      BY <1>0, <2>1, <2>2, <2>5
    <3>4. tt[i+1] = Append(ss[i+1], v)
      BY <1>10, <2>5
    <3> DEFINE a == g[i]
               b == ss[i+1]
    <3>5. a \in Seq(S) /\ b \in Seq(S)
      BY <2>3
    <3> HIDE DEF a, b
    <3>6. a \o Append(b, v) = Append(a \o b, v)
      BY <3>5, AppendLast
    <3>2. g[i] \o Append(ss[i+1], v) = Append(g[i] \o ss[i+1], v)
      BY <3>6 DEF a, b
    <3>3. ~(i + 1 < k)
      BY <1>0, <2>1, <2>5
    <3> QED BY <2>3, <3>1, <3>2, <3>3, <3>4 DEF i
  <2>6. CASE i + 1 > k
    <3>5. i >= k /\ i + 1 # k
      BY <1>0, <2>1, <2>6
    <3>1. tt[i+1] = ss[i+1] /\ ss[i+1] = <<>>
      BY <1>4, <2>1, <2>6, <3>5
    <3>6. h[i] = Append(g[i], v)
      BY <2>2, <3>5
    <3>2. h[i] = Append(g[i], v) /\ h[i] \in Seq(S)
      BY <2>3, <3>6
    <3>3. h[i] \o <<>> = h[i] /\ g[i] \o <<>> = g[i]
      BY <2>3, <3>2
    <3>4. ~(i + 1 < k)
      BY <1>0, <2>1, <2>6
    <3> QED BY <2>3, <3>1, <3>2, <3>3, <3>4 DEF i
  <2> QED BY <1>0, <2>1, <2>4, <2>5, <2>6
<1> HIDE DEF T, Same
<1>7. Nat \subseteq T
  BY <1>5, <1>6, SetInduction
<1>8. Same(n)
  <2>1. n - 1 \in T /\ (n - 1) + 1 = n
    BY <1>0, <1>7
  <2> QED BY <2>1 DEF T
<1>9. h[n] = Append(g[n], v)
  BY <1>0, <1>8 DEF Same
<1> QED BY <1>1, <1>2, <1>9

LEMMA FlattenEmpty ==
  ASSUME NEW S, NEW ss \in Seq(Seq(S)), \A j \in 1..Len(ss) : ss[j] = <<>>
  PROVE  FlattenSeq(ss) = <<>>
<1>1. CASE ss = <<>>
  BY <1>1 DEF FlattenSeq
<1>2. CASE ss # <<>>
  <2> DEFINE n == Len(ss)
  <2>0. n \in Nat /\ n >= 1
    BY <1>2
  <2>1. PICK g \in [1..n -> Seq(S)] : FlattensTo(g, ss, n) /\ FlattenSeq(ss) = g[n]
    BY <1>2, FlattenFacts
  <2>2. \A i \in 1..n : ss[i] = <<>>
    OBVIOUS
  <2> HIDE DEF n
  <2> DEFINE T == {m \in Nat : m + 1 <= n => g[m + 1] = <<>>}
  <2>3. 0 \in T
    <3>1. 1 \in 1..n /\ 0 + 1 = 1
      BY <2>0
    <3>2. g[1] = <<>>
      BY <2>1, <2>2, <3>1, FlattenFirst
    <3> QED BY <3>1, <3>2
  <2>4. ASSUME NEW m \in Nat, m \in T PROVE m + 1 \in T
    <3> SUFFICES ASSUME (m + 1) + 1 <= n PROVE g[(m + 1) + 1] = <<>>
      OBVIOUS
    <3> DEFINE i == (m + 1) + 1
    <3>1. i \in 1..n /\ i # 1 /\ i - 1 = m + 1
      BY <2>0
    <3>5. FlattensTo(g, ss, n)
      BY <2>1
    <3>2. g[i - 1] = <<>>
      BY <2>0, <2>4, <3>1
    <3> HIDE DEF i
    <3>3. g[i] = g[i-1] \o ss[i]
      BY <3>1, <3>5, FlattenStep, Zenon
    <3>4. g[i] = <<>>
      BY <2>2, <3>1, <3>2, <3>3
    <3> QED BY <3>4 DEF i
  <2> HIDE DEF T
  <2>5. n - 1 \in T /\ (n - 1) + 1 = n
    <3>1. Nat \subseteq T
      BY <2>3, <2>4, SetInduction
    <3> QED BY <2>0, <3>1
  <2> QED BY <2>0, <2>1, <2>5 DEF T
<1> QED BY <1>1, <1>2

(* Places on the page, in the order in which it is read.                     *)
After(at, y, x) == at[1] > y \/ (at[1] = y /\ at[2] >= x)
Clear(page, y, x) == \A at \in (0..MaxY) \X (0..Columns) : After(at, y, x) => page[at] = Blank
CellNo(k) == <<(k-1) \div Columns, (k-1) % Columns>>

LEMMA InOrder ==
  ASSUME NEW c \in Nat \ {0}, NEW q \in Nat, NEW y \in Nat, NEW r \in 0..c - 1, NEW x \in 0..c - 1,
         c * q + r <= c * y + x
  PROVE  q <= y /\ (q = y => r <= x)
<1>1. q <= y
  <2> SUFFICES ASSUME y + 1 <= q PROVE FALSE
    OBVIOUS
  <2>1. c * (y + 1) <= c * q
    BY TimesMonotone
  <2>2. c * (y + 1) = c * y + c /\ c * y \in Nat /\ c * q \in Nat
    OBVIOUS
  <2> QED BY <2>1, <2>2
<1>2. ASSUME q = y PROVE r <= x
  <2>1. c * y \in Nat /\ c * y + r <= c * y + x
    BY <1>2
  <2> QED BY <2>1
<1> QED BY <1>1, <1>2

LEMMA Divided ==
  ASSUME NEW c \in Nat \ {0}, NEW b \in Nat
  PROVE  b \div c \in Nat /\ b % c \in 0..c - 1 /\ c * (b \div c) + (b % c) = b
<1>1. b \div c \in Nat
  OBVIOUS
<1>2. b % c \in 0..c - 1
  OBVIOUS
<1>3. b % c = b - c * (b \div c)
  OBVIOUS
<1>4. c * (b \div c) \in Int
  BY <1>1
<1>5. c * (b \div c) + (b % c) = b
  BY <1>2, <1>3, <1>4
<1> QED BY <1>1, <1>2, <1>5

LEMMA CellOfNo ==
  ASSUME NEW k \in 1..(MaxY + 1) * Columns
  PROVE  /\ CellNo(k)[1] \in 0..MaxY /\ CellNo(k)[2] \in 0..Columns - 1
         /\ CellNo(k) \in (0..MaxY) \X (0..Columns)
         /\ Columns * CellNo(k)[1] + CellNo(k)[2] = k - 1
<1> DEFINE b == k - 1
<1>1. Columns \in Nat \ {0} /\ MaxY + 1 \in Nat /\ MaxY \in Nat
  BY ScreenAssumption
<1>2. b \in Nat /\ b < Columns * (MaxY + 1)
  <2>1. (MaxY + 1) * Columns = Columns * (MaxY + 1) /\ Columns * (MaxY + 1) \in Nat
    BY <1>1
  <2> QED BY <2>1
<1> HIDE DEF b
<1>3. b \div Columns \in Nat /\ b \div Columns < MaxY + 1
  BY <1>1, <1>2, LineOfByte
<1>4. b % Columns \in 0..Columns - 1 /\ Columns * (b \div Columns) + (b % Columns) = b
  BY <1>1, <1>2, Divided
<1>5. CellNo(k) = <<b \div Columns, b % Columns>>
  BY DEF CellNo, b
<1> DEFINE q == b \div Columns
           r == b % Columns
<1>6. q \in 0..MaxY /\ r \in 0..Columns - 1 /\ r \in 0..Columns /\ Columns * q + r = b
  <2>1. q \in Nat /\ q < MaxY + 1
    BY <1>3
  <2>2. r \in 0..Columns - 1 /\ Columns * q + r = b
    BY <1>4, Zenon
  <2> HIDE DEF q, r
  <2> QED BY <1>1, <2>1, <2>2
<1> HIDE DEF q, r
<1>7. CellNo(k) = <<q, r>>
  BY <1>5 DEF q, r
<1> QED BY <1>6, <1>7 DEF b

LEMMA NoOfCell ==
  ASSUME NEW y \in 0..MaxY, NEW x \in 0..Columns - 1
  PROVE  \E k \in 1..(MaxY + 1) * Columns :
           /\ CellNo(k) = <<y, x>>
           /\ \A j \in 1..(MaxY + 1) * Columns :
                (j # k => CellNo(j) # <<y, x>>) /\ (j > k => After(CellNo(j), y, x))
<1>1. Columns \in Nat \ {0} /\ MaxY \in Nat /\ y \in Nat /\ x \in Nat
  BY ScreenAssumption
<1> DEFINE c == Columns * y
           k == c + x + 1
<1>2. c \in Nat /\ k \in 1..(MaxY + 1) * Columns
  <2>1. c \in Nat
    BY <1>1
  <2>2. Columns * (y + 1) <= Columns * (MaxY + 1)
    BY <1>1, TimesMonotone
  <2>3. Columns * (y + 1) = c + Columns /\ (MaxY + 1) * Columns = Columns * (MaxY + 1)
        /\ Columns * (MaxY + 1) \in Nat
    BY <1>1
  <2> HIDE DEF c
  <2>4. k \in Nat /\ k >= 1 /\ k <= (MaxY + 1) * Columns
    BY <1>1, <2>1, <2>2, <2>3
  <2> QED BY <2>1, <2>4
<1>3. ASSUME NEW j \in 1..(MaxY + 1) * Columns, j >= k
      PROVE  y <= CellNo(j)[1] /\ (CellNo(j)[1] = y => x <= CellNo(j)[2])
  <2> DEFINE q == CellNo(j)[1]
             r == CellNo(j)[2]
  <2>1. q \in Nat /\ r \in 0..Columns - 1 /\ Columns * q + r = j - 1
    BY CellOfNo
  <2> HIDE DEF q, r
  <2>2. c + x <= Columns * q + r
    BY <1>1, <1>2, <1>3, <2>1
  <2>3. y <= q /\ (q = y => x <= r)
    <3>1. Columns * y + x <= Columns * q + r
      BY <2>2
    <3> HIDE DEF c
    <3>2. y <= q /\ (y = q => x <= r)
      BY <1>1, <2>1, <3>1, InOrder
    <3> QED BY <3>2
  <2> QED BY <2>3 DEF q, r
<1>4. ASSUME NEW j \in 1..(MaxY + 1) * Columns, CellNo(j) = <<y, x>> PROVE j = k
  <2>1. Columns * y + x = j - 1
    BY <1>4, CellOfNo
  <2>2. c + x = j - 1
    BY <2>1
  <2> HIDE DEF c
  <2> QED BY <1>1, <1>2, <2>2
<1>5. CellNo(k) = <<y, x>>
  <2> DEFINE q == CellNo(k)[1]
             r == CellNo(k)[2]
  <2>1. q \in Nat /\ r \in 0..Columns - 1 /\ Columns * q + r = k - 1
    BY <1>2, CellOfNo
  <2>2. CellNo(k) = <<q, r>>
    BY DEF CellNo
  <2> HIDE DEF q, r
  <2>3. Columns * q + r = Columns * y + x
    <3>1. k - 1 = c + x
      <4> HIDE DEF c
      <4> QED BY <1>1, <1>2
    <3> QED BY <2>1, <3>1
  <2>4. q <= y /\ y <= q
    <3>1. Columns * q + r <= Columns * y + x /\ Columns * y + x <= Columns * q + r
      <4>1. Columns * y + x \in Nat
        BY <1>1
      <4> QED BY <2>3, <4>1
    <3>2. q <= y
      BY <1>1, <2>1, <3>1, InOrder
    <3>3. y <= q
      BY <1>1, <2>1, <3>1, InOrder
    <3> QED BY <3>2, <3>3
  <2>5. q = y
    BY <1>1, <2>1, <2>4
  <2>6. r = x
    <3>1. c + r = c + x
      BY <2>3, <2>5
    <3> HIDE DEF c
    <3> QED BY <1>1, <1>2, <2>1, <3>1
  <2> QED BY <2>2, <2>5, <2>6
<1> HIDE DEF k
<1>6. ASSUME NEW j \in 1..(MaxY + 1) * Columns, j > k PROVE After(CellNo(j), y, x)
  <2>1. j >= k
    BY <1>2, <1>6
  <2>2. y <= CellNo(j)[1] /\ (CellNo(j)[1] = y => x <= CellNo(j)[2])
    BY <1>3, <2>1
  <2>3. CellNo(j)[1] \in Int /\ CellNo(j)[2] \in Int
    BY CellOfNo
  <2> QED BY <1>1, <2>2, <2>3 DEF After
<1> QED BY <1>2, <1>4, <1>5, <1>6

(* What is read on a page.                                                   *)
CellLists(page) == [k \in 1..(MaxY + 1) * Columns |-> Inked(page[CellNo(k)])]

LEMMA ReadPage == \A page : OnPage(page) = FlattenSeq(CellLists(page))
BY Zenon DEF OnPage, CellLists, CellNo

LEMMA CellListsType ==
  ASSUME NEW page \in Pages
  PROVE  /\ CellLists(page) \in Seq(Seq(Marks))
         /\ Len(CellLists(page)) = (MaxY + 1) * Columns /\ (MaxY + 1) * Columns \in Nat
<1>1. (MaxY + 1) * Columns \in Nat
  BY ScreenAssumption
<1>2. ASSUME NEW k \in 1..(MaxY + 1) * Columns PROVE Inked(page[CellNo(k)]) \in Seq(Marks)
  <2>1. CellNo(k) \in (0..MaxY) \X (0..Columns)
    BY CellOfNo
  <2>2. page[CellNo(k)] \in Marks \cup {Blank}
    BY <2>1, Zenon DEF Pages
  <2> QED BY <2>2 DEF Inked
<1> DEFINE n == (MaxY + 1) * Columns
<1>3. CellLists(page) = [k \in 1..n |-> Inked(page[CellNo(k)])]
  BY DEF CellLists
<1>4. n \in Nat /\ \A k \in 1..n : Inked(page[CellNo(k)]) \in Seq(Marks)
  BY <1>1, <1>2
<1> HIDE DEF n
<1>5. CellLists(page) \in Seq(Seq(Marks)) /\ Len(CellLists(page)) = n
  BY <1>3, <1>4
<1> QED BY <1>4, <1>5 DEF n

LEMMA OnEmptyPage == OnPage(Page) = <<>>
<1>1. Page \in Pages
  BY EmptyPage
<1>2. ASSUME NEW k \in 1..Len(CellLists(Page)) PROVE CellLists(Page)[k] = <<>>
  <2>1. k \in 1..(MaxY + 1) * Columns
    BY <1>1, CellListsType
  <2>2. CellNo(k) \in (0..MaxY) \X (0..Columns)
    BY <2>1, CellOfNo
  <2>3. Page[CellNo(k)] = Blank
    BY <2>2, Zenon DEF Page
  <2>4. CellLists(Page)[k] = Inked(Page[CellNo(k)])
    BY <2>1, Zenon DEF CellLists
  <2> QED BY <2>3, <2>4 DEF Inked
<1>3. CellLists(Page) \in Seq(Seq(Marks))
  BY <1>1, CellListsType
<1>4. FlattenSeq(CellLists(Page)) = <<>>
  BY <1>2, <1>3, FlattenEmpty
<1> QED BY <1>4, ReadPage

LEMMA OnPageType ==
  ASSUME NEW page \in Pages
  PROVE  OnPage(page) \in Seq(Marks)
<1> DEFINE ss == CellLists(page)
<1>1. ss \in Seq(Seq(Marks))
  BY CellListsType
<1> HIDE DEF ss
<1>2. FlattenSeq(ss) \in Seq(Marks)
  <2>1. CASE ss = <<>>
    BY <2>1 DEF FlattenSeq
  <2>2. CASE ss # <<>>
    <3>1. Len(ss) \in 1..Len(ss)
      BY <1>1, <2>2
    <3>2. PICK g \in [1..Len(ss) -> Seq(Marks)] : FlattenSeq(ss) = g[Len(ss)]
      BY <1>1, <2>2, FlattenFacts
    <3> QED BY <3>1, <3>2
  <2> QED BY <2>1, <2>2
<1> QED BY <1>2, ReadPage DEF ss

(* A glyph that is painted where all behind it is blank is read last.        *)
LEMMA PaintedLast ==
  ASSUME NEW page \in Pages, NEW y \in 0..MaxY, NEW x \in 0..Columns - 1, NEW v \in Marks,
         Clear(page, y, x), NEW new, new = [page EXCEPT ![<<y, x>>] = v]
  PROVE  new \in Pages /\ OnPage(new) = Append(OnPage(page), v)
<1> DEFINE n == (MaxY + 1) * Columns
<1>0. <<y, x>> \in (0..MaxY) \X (0..Columns) /\ After(<<y, x>>, y, x)
  <2>1. Columns \in Nat /\ y \in Int /\ x \in Int
    BY ScreenAssumption
  <2> QED BY <2>1 DEF After
<1>1. new \in Pages
  BY <1>0, Zenon DEF Pages
<1>2. /\ new[<<y, x>>] = v
      /\ \A at \in (0..MaxY) \X (0..Columns) : at # <<y, x>> => new[at] = page[at]
  <2>1. DOMAIN page = (0..MaxY) \X (0..Columns)
    BY Zenon DEF Pages
  <2> QED BY <1>0, <2>1, Zenon
<1>3. PICK k \in 1..n :
           /\ CellNo(k) = <<y, x>>
           /\ \A j \in 1..n : (j # k => CellNo(j) # <<y, x>>) /\ (j > k => After(CellNo(j), y, x))
  BY NoOfCell
<1> DEFINE ss == CellLists(page)
           tt == CellLists(new)
<1>4. ss \in Seq(Seq(Marks)) /\ tt \in Seq(Seq(Marks)) /\ Len(ss) = n /\ Len(tt) = n
  BY <1>1, CellListsType
<1>5. \A j \in 1..n : ss[j] = Inked(page[CellNo(j)]) /\ tt[j] = Inked(new[CellNo(j)])
                      /\ CellNo(j) \in (0..MaxY) \X (0..Columns)
  <2>1. \A j \in 1..n : CellNo(j) \in (0..MaxY) \X (0..Columns)
    BY CellOfNo
  <2> QED BY <2>1, Zenon DEF CellLists
<1> HIDE DEF ss, tt, n
<1>6. tt[k] = Append(ss[k], v)
  <2>1. page[<<y, x>>] = Blank
    BY <1>0, Zenon DEF Clear
  <2>2. ss[k] = <<>> /\ tt[k] = <<v>>
    BY <1>2, <1>3, <1>5, <2>1, MarkIsNotBlank, Zenon DEF Inked
  <2> QED BY <2>2
<1>7. ASSUME NEW j \in 1..Len(ss) PROVE (j # k => tt[j] = ss[j]) /\ (j > k => ss[j] = <<>>)
  <2>0. j \in 1..n
    BY <1>4
  <2>1. ASSUME j # k PROVE tt[j] = ss[j]
    BY <1>2, <1>3, <1>5, <2>0, <2>1, Zenon
  <2>2. ASSUME j > k PROVE ss[j] = <<>>
    <3>1. page[CellNo(j)] = Blank
      BY <1>3, <1>5, <2>0, <2>2, Zenon DEF Clear
    <3> QED BY <1>5, <2>0, <3>1, Zenon DEF Inked
  <2> QED BY <2>1, <2>2
<1>8. FlattenSeq(tt) = Append(FlattenSeq(ss), v)
  <2>1. k \in 1..Len(ss) /\ Len(tt) = Len(ss)
    BY <1>4
  <2>2. Longer(ss, tt, k, v)
    BY <1>6, <1>7, <2>1 DEF Longer
  <2> QED BY <1>4, <2>2, FlattenLonger
<1>9. OnPage(page) = FlattenSeq(ss) /\ OnPage(new) = FlattenSeq(tt)
  BY ReadPage DEF ss, tt
<1> QED BY <1>1, <1>8, <1>9

(* Endings of a sequence.                                                    *)
Ends(s, t) == Len(s) <= Len(t) /\ \A i \in 1..Len(s) : s[Len(s) - i + 1] = t[Len(t) - i + 1]

LEMMA SuffixEnds ==
  ASSUME NEW S, NEW s \in Seq(S), NEW t \in Seq(S)
  PROVE  IsSuffix(s, t) <=> Ends(s, t)
<1> DEFINE m == Len(s)
           n == Len(t)
           rs == Reverse(s)
           rt == Reverse(t)
<1>1. /\ m \in Nat /\ n \in Nat /\ Len(rs) = m /\ Len(rt) = n
      /\ \A i \in 1..m : rs[i] = s[m - i + 1]
      /\ \A i \in 1..n : rt[i] = t[n - i + 1]
      /\ rs \in Seq(S) /\ rt \in Seq(S)
  BY DEF Reverse
<1>2. IsSuffix(s, t) <=> m <= n /\ SubSeq(rs, 1, m) = SubSeq(rt, 1, m)
  BY <1>1 DEF IsSuffix, IsPrefix
<1> HIDE DEF rs, rt, m, n
<1>3. ASSUME m <= n PROVE SubSeq(rs, 1, m) = SubSeq(rt, 1, m) <=> \A i \in 1..m : rs[i] = rt[i]
  <2> DEFINE a == SubSeq(rs, 1, m)
             b == SubSeq(rt, 1, m)
  <2>1. a \in Seq(S) /\ b \in Seq(S) /\ Len(a) = m /\ Len(b) = m
        /\ \A i \in 1..m : a[i] = rs[i] /\ b[i] = rt[i]
    BY <1>1, <1>3
  <2> HIDE DEF a, b
  <2>2. a = b <=> \A i \in 1..m : a[i] = b[i]
    BY <2>1, SeqEqual
  <2> QED BY <2>1, <2>2 DEF a, b
<1>4. ASSUME m <= n
      PROVE  (\A i \in 1..m : rs[i] = rt[i]) <=> \A i \in 1..m : s[m - i + 1] = t[n - i + 1]
  <2>1. \A i \in 1..m : i \in 1..n
    BY <1>1, <1>4
  <2> QED BY <1>1, <2>1, Zenon
<1> QED BY <1>2, <1>3, <1>4 DEF Ends, m, n

LEMMA SuffixEmpty ==
  ASSUME NEW S, NEW t \in Seq(S)
  PROVE  IsSuffix(<<>>, t)
<1>1. <<>> \in Seq(S) /\ Ends(<<>>, t)
  BY DEF Ends
<1> QED BY <1>1, SuffixEnds

LEMMA SuffixAppend ==
  ASSUME NEW S, NEW v \in S, NEW s \in Seq(S), NEW t \in Seq(S), IsSuffix(s, t)
  PROVE  IsSuffix(Append(s, v), Append(t, v))
<1>1. Ends(s, t)
  BY SuffixEnds
<1> DEFINE a == Append(s, v)
           b == Append(t, v)
           m == Len(s)
           n == Len(t)
<1>2. /\ m \in Nat /\ n \in Nat /\ m <= n
      /\ a \in Seq(S) /\ b \in Seq(S) /\ Len(a) = m + 1 /\ Len(b) = n + 1
      /\ a[m + 1] = v /\ b[n + 1] = v
      /\ \A i \in 1..m : a[i] = s[i]
      /\ \A i \in 1..n : b[i] = t[i]
  BY <1>1 DEF Ends
<1>3. \A i \in 1..m : s[m - i + 1] = t[n - i + 1]
  BY <1>1 DEF Ends
<1> HIDE DEF a, b, m, n
<1>4. ASSUME NEW i \in 1..m + 1 PROVE a[(m + 1) - i + 1] = b[(n + 1) - i + 1]
  <2>1. CASE i = 1
    <3>1. (m + 1) - i + 1 = m + 1 /\ (n + 1) - i + 1 = n + 1
      BY <1>2, <2>1
    <3> QED BY <1>2, <3>1
  <2>2. CASE i # 1
    <3> DEFINE j == i - 1
    <3>1. j \in 1..m /\ (m + 1) - i + 1 = m - j + 1 /\ (n + 1) - i + 1 = n - j + 1
          /\ m - j + 1 \in 1..m /\ n - j + 1 \in 1..n
      BY <1>2, <2>2
    <3> HIDE DEF j
    <3>2. a[m - j + 1] = s[m - j + 1] /\ b[n - j + 1] = t[n - j + 1]
      BY <1>2, <3>1
    <3>3. s[m - j + 1] = t[n - j + 1]
      BY <1>3, <3>1
    <3> QED BY <3>1, <3>2, <3>3
  <2> QED BY <2>1, <2>2
<1>5. Ends(a, b)
  <2>1. m + 1 <= n + 1
    BY <1>2
  <2> QED BY <1>2, <1>4, <2>1 DEF Ends
<1> QED BY <1>2, <1>5, SuffixEnds DEF a, b

-----------------------------------------------------------------------------
(* The frame buffer: what a character does                                   *)

PortFields == {"x", "y", "page", "over", "hangs", "interrupts"}

PortOK(p) ==
  /\ DOMAIN p = PortFields
  /\ p.x \in 0..Columns - 1 /\ p.y \in 0..MaxY /\ p.page \in Pages
  /\ p.over \in BOOLEAN /\ p.hangs \in BOOLEAN
  /\ MaxY > 2 * Scale => p.hangs = FALSE /\ p.y <= MaxY - Scale - 1

(* The first w cells of the line are painted and nothing behind them is; the *)
(* position is there or, after a return, in the first column.                *)
FilledTo(p, w) ==
  /\ p.x \in {0, w}
  /\ w > 0 => p.page[<<p.y, 0>>] # Blank
  /\ Clear(p.page, p.y, w)

Follows(p, lg) ==
  p.over = FALSE => /\ \E w \in 0..Columns - 1 : FilledTo(p, w)
                    /\ IsSuffix(OnPage(p.page), lg)

Sound(p, lg) == PortOK(p) /\ lg \in Seq(Marks) /\ Follows(p, lg)

LEMMA Sizes ==
  /\ Columns \in Nat /\ Columns >= 1 /\ MaxY \in Nat /\ Scale \in Nat /\ Scale >= 1 /\ Scale <= MaxY
BY ScreenAssumption

(* Lines below a clear place are clear, and so is an empty page.             *)
LEMMA StaysClear ==
  ASSUME NEW page, NEW y \in Nat, NEW x \in Nat, Clear(page, y, x),
         NEW z \in Nat, NEW u \in Nat, z > y \/ (z = y /\ u >= x)
  PROVE  Clear(page, z, u)
<1> SUFFICES ASSUME NEW at \in (0..MaxY) \X (0..Columns), After(at, z, u) PROVE After(at, y, x)
  BY DEF Clear
<1>1. at[1] \in Int /\ at[2] \in Int
  BY Sizes
<1> QED BY <1>1 DEF After

LEMMA ErasedFacts ==
  ASSUME NEW p, DOMAIN p = PortFields, NEW e, e = Erased(p)
  PROVE  /\ DOMAIN e = PortFields
         /\ e.x = 0 /\ e.y = 0 /\ e.page = Page /\ e.over = FALSE
         /\ e.hangs = p.hangs /\ e.interrupts = p.interrupts
BY DEF Erased, PortFields

LEMMA BlankPort ==
  ASSUME NEW p, DOMAIN p = PortFields, p.x = 0, p.y \in 0..MaxY, p.page = Page, p.over = FALSE,
         p.hangs \in BOOLEAN, MaxY > 2 * Scale => p.hangs = FALSE /\ p.y <= MaxY - Scale - 1,
         NEW lg \in Seq(Marks)
  PROVE  Sound(p, lg)
<1>1. 0 \in 0..Columns - 1
  BY Sizes
<1>2. PortOK(p)
  BY <1>1, EmptyPage DEF PortOK
<1>3. FilledTo(p, 0)
  <2>1. Clear(Page, p.y, 0)
    BY Zenon DEF Clear, Page
  <2>2. ~(0 > 0)
    OBVIOUS
  <2> QED BY <2>1, <2>2 DEF FilledTo
<1>4. IsSuffix(OnPage(p.page), lg)
  BY OnEmptyPage, SuffixEmpty
<1> QED BY <1>1, <1>2, <1>3, <1>4 DEF Sound, Follows

(* A glyph painted.                                                          *)
PaintedOn(q, p, v, lg) ==
  /\ DOMAIN q = PortFields
  /\ q.x = p.x + 1 /\ q.y = p.y /\ q.page \in Pages /\ q.over \in BOOLEAN /\ q.hangs = p.hangs
  /\ q.over = FALSE =>
       /\ OnPage(q.page) = Append(OnPage(p.page), v)
       /\ q.page[<<q.y, 0>>] # Blank
       /\ Clear(q.page, q.y, q.x)
       /\ IsSuffix(OnPage(q.page), Append(lg, v))

LEMMA PaintedFacts ==
  ASSUME NEW p, NEW lg, Sound(p, lg), NEW c \in Glyphs, NEW colour \in Colours,
         NEW q, q = Painted(p, c, colour)
  PROVE  PaintedOn(q, p, <<c, colour>>, lg)
<1> DEFINE v  == <<c, colour>>
           at == <<p.y, p.x>>
<1>1. /\ DOMAIN p = PortFields /\ p.page \in Pages /\ p.y \in 0..MaxY /\ p.x \in 0..Columns - 1
      /\ p.over \in BOOLEAN
  BY DEF Sound, PortOK
<1>2. /\ DOMAIN q = PortFields /\ q.x = p.x + 1 /\ q.y = p.y /\ q.hangs = p.hangs
      /\ q.page = [p.page EXCEPT ![at] = v]
      /\ q.over = (p.over \/ p.page[at] # Blank)
  BY <1>1 DEF Painted, PortFields
<1>3. v \in Marks
  BY DEF Marks
<1>4. at \in (0..MaxY) \X (0..Columns)
  BY <1>1, Sizes
<1> HIDE DEF v
<1>5. q.page \in Pages
  <2> HIDE DEF at
  <2> QED BY <1>1, <1>2, <1>3, <1>4, Zenon DEF Pages
<1>6. q.over \in BOOLEAN
  BY <1>2
<1>7. ASSUME q.over = FALSE
      PROVE  /\ OnPage(q.page) = Append(OnPage(p.page), v)
             /\ q.page[<<q.y, 0>>] # Blank
             /\ Clear(q.page, q.y, q.x)
             /\ IsSuffix(OnPage(q.page), Append(lg, v))
  <2>1. p.over = FALSE /\ p.page[at] = Blank
    BY <1>1, <1>2, <1>7
  <2>2. PICK w \in 0..Columns - 1 : FilledTo(p, w)
    BY <2>1 DEF Sound, Follows
  <2>3. p.x = w
    <3>1. CASE w = 0
      BY <2>2, <3>1 DEF FilledTo
    <3>2. CASE w # 0
      <4>1. w > 0
        BY <3>2, Sizes
      <4>2. p.page[<<p.y, 0>>] # Blank /\ p.x \in {0, w}
        BY <2>2, <4>1 DEF FilledTo
      <4> QED BY <2>1, <4>2
    <3> QED BY <3>1, <3>2
  <2>4. Clear(p.page, p.y, p.x)
    BY <2>2, <2>3 DEF FilledTo
  <2>5. OnPage(q.page) = Append(OnPage(p.page), v)
    BY <1>1, <1>2, <1>3, <2>4, PaintedLast
  <2>6. /\ q.page[at] = v
        /\ \A cell \in (0..MaxY) \X (0..Columns) : cell # at => q.page[cell] = p.page[cell]
    <3>1. DOMAIN p.page = (0..MaxY) \X (0..Columns)
      BY <1>1, Zenon DEF Pages
    <3> HIDE DEF at
    <3> QED BY <1>2, <1>4, <3>1, Zenon
  <2>7. q.page[<<p.y, 0>>] # Blank
    <3>1. CASE w = 0
      BY <1>3, <2>3, <2>6, <3>1, MarkIsNotBlank
    <3>2. CASE w # 0
      <4>1. w > 0
        BY <3>2, Sizes
      <4>2. p.page[<<p.y, 0>>] # Blank
        BY <2>2, <4>1 DEF FilledTo
      <4>3. <<p.y, 0>> \in (0..MaxY) \X (0..Columns) /\ <<p.y, 0>> # at
        BY <1>1, <2>3, <3>2, Sizes
      <4> QED BY <2>6, <4>2, <4>3
    <3> QED BY <3>1, <3>2
  <2>8. Clear(q.page, p.y, p.x + 1)
    <3> SUFFICES ASSUME NEW cell \in (0..MaxY) \X (0..Columns), After(cell, p.y, p.x + 1)
                 PROVE  q.page[cell] = Blank
      BY DEF Clear
    <3>1. After(cell, p.y, p.x) /\ cell # at
      <4>1. cell[1] \in Int /\ cell[2] \in Int /\ p.x \in Int /\ p.y \in Int /\ at[2] = p.x /\ at[1] = p.y
        BY <1>1, Sizes
      <4> HIDE DEF at
      <4> QED BY <4>1 DEF After
    <3> QED BY <2>4, <2>6, <3>1 DEF Clear
  <2>9. IsSuffix(OnPage(p.page), lg) /\ lg \in Seq(Marks)
    BY <2>1 DEF Sound, Follows
  <2>10. IsSuffix(Append(OnPage(p.page), v), Append(lg, v))
    <3>1. OnPage(p.page) \in Seq(Marks)
      BY <1>1, OnPageType
    <3> QED BY <1>3, <2>9, <3>1, SuffixAppend
  <2> QED BY <1>2, <2>5, <2>7, <2>8, <2>10
<1> QED BY <1>2, <1>5, <1>6, <1>7 DEF PaintedOn, v

(* What is read is at least the glyph that was painted.                      *)
Ink(p) == p.over = FALSE => OnPage(p.page) # <<>>

LEMMA FitsBelow ==
  ASSUME NEW y \in 0..MaxY, Fits(y + Scale)
  PROVE  y + Scale \in 0..MaxY /\ y + Scale > y /\ y + Scale <= MaxY - Scale - 1
BY Sizes DEF Fits

LEMMA FitsOnScreen == MaxY > 2 * Scale => Fits(Scale) /\ Scale <= MaxY - Scale - 1
BY Sizes DEF Fits

(* Where the line goes on.                                                   *)
LEMMA GoesOn ==
  ASSUME NEW p, NEW lg, Sound(p, lg), NEW q, NEW v \in Marks, PaintedOn(q, p, v, lg), q.x < Columns
  PROVE  Sound(q, Append(lg, v)) /\ Ink(q)
<1>1. /\ DOMAIN p = PortFields /\ p.page \in Pages /\ p.y \in 0..MaxY /\ p.x \in 0..Columns - 1
      /\ p.hangs \in BOOLEAN /\ lg \in Seq(Marks)
      /\ MaxY > 2 * Scale => p.hangs = FALSE /\ p.y <= MaxY - Scale - 1
  BY DEF Sound, PortOK
<1>2. /\ DOMAIN q = PortFields
      /\ q.x = p.x + 1 /\ q.y = p.y /\ q.page \in Pages /\ q.over \in BOOLEAN /\ q.hangs = p.hangs
  BY DEF PaintedOn
<1>3. q.x \in 0..Columns - 1
  BY <1>1, <1>2, Sizes
<1>4. PortOK(q) /\ Append(lg, v) \in Seq(Marks)
  BY <1>1, <1>2, <1>3 DEF PortOK
<1>5. ASSUME q.over = FALSE
      PROVE  /\ \E w \in 0..Columns - 1 : FilledTo(q, w)
             /\ IsSuffix(OnPage(q.page), Append(lg, v))
             /\ OnPage(q.page) # <<>>
  <2>1. /\ OnPage(q.page) = Append(OnPage(p.page), v)
        /\ q.page[<<q.y, 0>>] # Blank
        /\ Clear(q.page, q.y, q.x)
        /\ IsSuffix(OnPage(q.page), Append(lg, v))
    BY <1>5 DEF PaintedOn
  <2>2. FilledTo(q, q.x)
    BY <2>1 DEF FilledTo
  <2>3. OnPage(p.page) \in Seq(Marks)
    BY <1>1, OnPageType
  <2> QED BY <1>3, <2>1, <2>2, <2>3
<1> QED BY <1>4, <1>5 DEF Sound, Follows, Ink

(* Where the next line begins, z, behind what is painted.                    *)
LEMMA NextLine ==
  ASSUME NEW q, NEW lg \in Seq(Marks), DOMAIN q = PortFields, q.page \in Pages, q.over \in BOOLEAN,
         NEW y \in 0..MaxY, NEW z \in 0..MaxY, z > y, NEW x \in Nat,
         q.over = FALSE => Clear(q.page, y, x) /\ IsSuffix(OnPage(q.page), lg),
         NEW d, DOMAIN d = PortFields, d.x = 0, d.y = z, d.page = q.page, d.over = q.over,
         d.hangs \in BOOLEAN, MaxY > 2 * Scale => d.hangs = FALSE /\ d.y <= MaxY - Scale - 1
  PROVE  Sound(d, lg)
<1>1. 0 \in 0..Columns - 1 /\ ~(0 > 0)
  BY Sizes
<1>2. PortOK(d)
  BY <1>1 DEF PortOK
<1>3. ASSUME d.over = FALSE PROVE FilledTo(d, 0) /\ IsSuffix(OnPage(d.page), lg)
  <2>1. Clear(q.page, z, 0)
    <3>1. y \in Nat /\ z \in Nat /\ Clear(q.page, y, x)
      BY <1>3, Sizes
    <3> QED BY <3>1, StaysClear
  <2> QED BY <1>1, <1>3, <2>1 DEF FilledTo
<1> QED BY <1>1, <1>2, <1>3 DEF Sound, Follows

LEMMA DrawnFacts ==
  ASSUME NEW p, NEW lg, Sound(p, lg), p.hangs = FALSE, NEW c \in Glyphs, NEW colour \in Colours,
         NEW d, d = Drawn(p, c, colour)
  PROVE  /\ Sound(d, Append(lg, <<c, colour>>))
         /\ c # Space /\ d.hangs = FALSE => Ink(d)
<1> DEFINE v     == <<c, colour>>
           q     == Painted(p, c, colour)
           e     == Erased(q)
           again == Painted(e, c, colour)
           more  == Append(lg, v)
<1>1. v \in Marks /\ lg \in Seq(Marks) /\ more \in Seq(Marks) /\ p.y \in 0..MaxY
      /\ p.x \in 0..Columns - 1 /\ p.page \in Pages
  BY DEF Marks, Sound, PortOK
<1>2. PaintedOn(q, p, v, lg)
  BY PaintedFacts
<1>3. d = IF q.x < Columns THEN q
          ELSE IF Fits(q.y + Scale) THEN [q EXCEPT !.x = 0, !.y = @ + Scale]
          ELSE IF c = Space THEN e
          ELSE IF again.x < Columns THEN again
          ELSE [again EXCEPT !.x = 0, !.y = Scale, !.hangs = ~Fits(Scale)]
  BY Zenon DEF Drawn
<1> HIDE DEF q
<1>4. DOMAIN q = PortFields /\ q.y = p.y /\ q.page \in Pages /\ q.over \in BOOLEAN /\ q.hangs = FALSE
      /\ q.x = p.x + 1 /\ q.x \in Nat
  BY <1>1, <1>2, Sizes DEF PaintedOn
<1>5. ASSUME q.over = FALSE
      PROVE  /\ OnPage(q.page) = Append(OnPage(p.page), v) /\ OnPage(q.page) # <<>>
             /\ Clear(q.page, q.y, q.x) /\ IsSuffix(OnPage(q.page), more)
  <2>1. /\ OnPage(q.page) = Append(OnPage(p.page), v)
        /\ Clear(q.page, q.y, q.x) /\ IsSuffix(OnPage(q.page), more)
    BY <1>2, <1>5 DEF PaintedOn
  <2>2. OnPage(p.page) \in Seq(Marks)
    BY <1>1, OnPageType
  <2> QED BY <2>1, <2>2
<1>6. CASE q.x < Columns
  <2>1. d = q
    BY <1>3, <1>6
  <2> HIDE DEF v
  <2> QED BY <1>1, <1>2, <1>6, <2>1, GoesOn DEF more, v
<1>7. CASE ~(q.x < Columns) /\ Fits(q.y + Scale)
  <2>1. d = [q EXCEPT !.x = 0, !.y = @ + Scale]
    BY <1>3, <1>7
  <2>2. DOMAIN d = PortFields /\ d.x = 0 /\ d.y = q.y + Scale /\ d.page = q.page /\ d.over = q.over
        /\ d.hangs = q.hangs
    BY <1>4, <2>1 DEF PortFields
  <2>3. q.y + Scale \in 0..MaxY /\ q.y + Scale > q.y /\ q.y + Scale <= MaxY - Scale - 1
    BY <1>1, <1>4, <1>7, FitsBelow
  <2> HIDE DEF more
  <2>4. Sound(d, more)
    BY <1>1, <1>4, <1>5, <2>2, <2>3, NextLine
  <2>5. Ink(d)
    BY <1>5, <2>2 DEF Ink
  <2> QED BY <2>4, <2>5 DEF more
<1>8. CASE ~(q.x < Columns) /\ ~Fits(q.y + Scale)
  <2>1. /\ DOMAIN e = PortFields
        /\ e.x = 0 /\ e.y = 0 /\ e.page = Page /\ e.over = FALSE /\ e.hangs = FALSE
    BY <1>4, ErasedFacts
  <2>2. 0 \in 0..MaxY /\ (MaxY > 2 * Scale => 0 <= MaxY - Scale - 1)
    BY Sizes
  <2> HIDE DEF e
  <2>3. \A l \in Seq(Marks) : Sound(e, l)
    BY <2>1, <2>2, BlankPort
  <2>4. CASE c = Space
    <3>1. d = e
      BY <1>3, <1>8, <2>4
    <3> QED BY <1>1, <2>3, <2>4, <3>1
  <2>5. CASE c # Space
    <3>1. PaintedOn(again, e, v, lg) /\ again.x = 1
      <4>1. Sound(e, lg)
        BY <1>1, <2>3
      <4>2. PaintedOn(again, e, v, lg)
        BY <4>1, PaintedFacts
      <4> QED BY <2>1, <4>2 DEF PaintedOn
    <3> HIDE DEF again
    <3>2. CASE again.x < Columns
      <4>1. d = again
        BY <1>3, <1>8, <2>5, <3>2
      <4>2. Sound(e, lg)
        BY <1>1, <2>3
      <4> HIDE DEF v
      <4> QED BY <1>1, <3>1, <3>2, <4>1, <4>2, GoesOn DEF more, v
    <3>3. CASE ~(again.x < Columns)
      <4>1. d = [again EXCEPT !.x = 0, !.y = Scale, !.hangs = ~Fits(Scale)]
        BY <1>3, <1>8, <2>5, <3>3
      <4>2. /\ DOMAIN again = PortFields /\ again.page \in Pages /\ again.over \in BOOLEAN
            /\ again.y = 0
            /\ again.over = FALSE => /\ Clear(again.page, 0, 1) /\ IsSuffix(OnPage(again.page), more)
                                     /\ OnPage(again.page) = Append(OnPage(e.page), v)
        BY <2>1, <3>1 DEF PaintedOn
      <4>3. DOMAIN d = PortFields /\ d.x = 0 /\ d.y = Scale /\ d.page = again.page
            /\ d.over = again.over /\ d.hangs = ~Fits(Scale)
        BY <4>1, <4>2 DEF PortFields
      <4>4. d.hangs \in BOOLEAN /\ (MaxY > 2 * Scale => d.hangs = FALSE /\ d.y <= MaxY - Scale - 1)
        BY <4>3, FitsOnScreen
      <4>5. 0 \in 0..MaxY /\ Scale \in 0..MaxY /\ Scale > 0 /\ 1 \in Nat
        BY Sizes
      <4>6. Sound(d, more)
        <5> HIDE DEF more
        <5> QED BY <1>1, <4>2, <4>3, <4>4, <4>5, NextLine
      <4>7. Ink(d)
        <5>1. OnPage(e.page) = <<>>
          BY <2>1, OnEmptyPage
        <5>2. \A u : Append(<<>>, u) # <<>>
          OBVIOUS
        <5> QED BY <4>2, <4>3, <5>1, <5>2 DEF Ink
      <4> QED BY <4>6, <4>7
    <3> QED BY <3>2, <3>3
  <2> QED BY <2>4, <2>5
<1> QED BY <1>6, <1>7, <1>8

LEMMA NewLineFacts ==
  ASSUME NEW p, NEW lg, Sound(p, lg), p.hangs = FALSE, NEW d, d = NewLine(p)
  PROVE  Sound(d, lg)
<1>1. /\ DOMAIN p = PortFields /\ p.page \in Pages /\ p.y \in 0..MaxY /\ p.x \in 0..Columns - 1
      /\ p.over \in BOOLEAN /\ lg \in Seq(Marks)
  BY DEF Sound, PortOK
<1>2. CASE Fits(p.y + Scale)
  <2>1. d = [p EXCEPT !.x = 0, !.y = @ + Scale]
    BY <1>2 DEF NewLine
  <2>2. DOMAIN d = PortFields /\ d.x = 0 /\ d.y = p.y + Scale /\ d.page = p.page /\ d.over = p.over
        /\ d.hangs = FALSE
    BY <1>1, <2>1 DEF PortFields
  <2>3. p.y + Scale \in 0..MaxY /\ p.y + Scale > p.y /\ p.y + Scale <= MaxY - Scale - 1
    BY <1>1, <1>2, FitsBelow
  <2>4. CASE p.over = FALSE
    <3>1. PICK w \in 0..Columns - 1 : FilledTo(p, w)
      BY <2>4 DEF Sound, Follows
    <3>2. w \in Nat /\ Clear(p.page, p.y, w) /\ IsSuffix(OnPage(p.page), lg)
      BY <2>4, <3>1, Sizes DEF Sound, Follows, FilledTo
    <3> QED BY <1>1, <2>2, <2>3, <3>2, NextLine
  <2>5. CASE p.over # FALSE
    <3>1. 0 \in Nat
      OBVIOUS
    <3> QED BY <1>1, <2>2, <2>3, <2>5, <3>1, NextLine
  <2> QED BY <2>4, <2>5
<1>3. CASE ~Fits(p.y + Scale)
  <2> DEFINE e == Erased(p)
  <2>1. d = [e EXCEPT !.y = Scale, !.hangs = ~Fits(Scale)]
    BY <1>3 DEF NewLine
  <2>2. DOMAIN e = PortFields /\ e.x = 0 /\ e.page = Page /\ e.over = FALSE
    BY <1>1, ErasedFacts
  <2> HIDE DEF e
  <2>3. DOMAIN d = PortFields /\ d.x = 0 /\ d.y = Scale /\ d.page = Page /\ d.over = FALSE
        /\ d.hangs = ~Fits(Scale)
    BY <2>1, <2>2 DEF PortFields
  <2>4. d.hangs \in BOOLEAN /\ (MaxY > 2 * Scale => d.hangs = FALSE /\ d.y <= MaxY - Scale - 1)
    BY <2>3, FitsOnScreen
  <2>5. d.y \in 0..MaxY
    BY <2>3, Sizes
  <2> QED BY <1>1, <2>3, <2>4, <2>5, BlankPort
<1> QED BY <1>2, <1>3

LEMMA OtherInterrupts ==
  ASSUME NEW p, NEW lg, Sound(p, lg), NEW b, NEW d, d = [p EXCEPT !.interrupts = b]
  PROVE  Sound(d, lg) /\ (Ink(p) => Ink(d)) /\ d.hangs = p.hangs
<1>1. DOMAIN p = PortFields
  BY DEF Sound, PortOK
<1>2. /\ DOMAIN d = PortFields
      /\ d.x = p.x /\ d.y = p.y /\ d.page = p.page /\ d.over = p.over /\ d.hangs = p.hangs
  BY <1>1 DEF PortFields
<1>3. \A w : FilledTo(d, w) <=> FilledTo(p, w)
  BY <1>2, Zenon DEF FilledTo
<1>4. PortOK(d)
  BY <1>2 DEF Sound, PortOK
<1>5. Follows(d, lg)
  BY <1>2, <1>3, Zenon DEF Sound, Follows
<1>6. Ink(p) => Ink(d)
  BY <1>2, Zenon DEF Ink
<1> QED BY <1>2, <1>4, <1>5, <1>6 DEF Sound

LEMMA Returned ==
  ASSUME NEW p, NEW lg, Sound(p, lg), NEW d, d = [p EXCEPT !.x = 0]
  PROVE  Sound(d, lg)
<1>1. DOMAIN p = PortFields
  BY DEF Sound, PortOK
<1>2. /\ DOMAIN d = PortFields
      /\ d.x = 0 /\ d.y = p.y /\ d.page = p.page /\ d.over = p.over /\ d.hangs = p.hangs
  BY <1>1 DEF PortFields
<1>3. \A w : FilledTo(p, w) => FilledTo(d, w)
  BY <1>2 DEF FilledTo
<1>4. PortOK(d)
  <2>1. 0 \in 0..Columns - 1
    BY Sizes
  <2> QED BY <1>2, <2>1 DEF Sound, PortOK
<1>5. Follows(d, lg)
  BY <1>2, <1>3, Zenon DEF Sound, Follows
<1> QED BY <1>4, <1>5 DEF Sound

(* What the log says is on the page after each character, and a glyph that   *)
(* was just put is on it.                                                    *)
SoundSt(st) == Sound(st.port, st.log)

LEMMA PutKeeps ==
  ASSUME NEW st, SoundSt(st), NEW c, NEW colour \in Colours, NEW garbage,
         NEW r, r = PutLogged(st, c, colour, garbage)
  PROVE  SoundSt(r) /\ (c \in Glyphs \ {Space} /\ r.port.hangs = FALSE => Ink(r.port))
<1> DEFINE p == st.port
           d == PutCharWithFactor(p, c, colour, garbage)
<1>1. /\ r.port = d
      /\ r.log = IF Shows(p, c) THEN Append(st.log, <<c, colour>>) ELSE st.log
  BY DEF PutLogged
<1>2. Sound(p, st.log) /\ p.hangs \in BOOLEAN
  BY DEF SoundSt, Sound, PortOK
<1>3. d = IF Shows(p, c) THEN Drawn(p, c, colour)
          ELSE IF p.hangs \/ c \notin {Newline, Return} THEN p
          ELSE IF c = Return THEN [p EXCEPT !.x = 0]
          ELSE [NewLine(p) EXCEPT !.interrupts = @ \/ garbage]
  BY Zenon DEF PutCharWithFactor
<1> HIDE DEF d, p
<1>4. CASE Shows(p, c)
  <2>1. p.hangs = FALSE /\ c \in Glyphs
    BY <1>2, <1>4 DEF Shows
  <2>2. d = Drawn(p, c, colour) /\ r.log = Append(st.log, <<c, colour>>)
    BY <1>1, <1>3, <1>4, Zenon
  <2>3. Sound(d, Append(st.log, <<c, colour>>)) /\ (c # Space /\ d.hangs = FALSE => Ink(d))
    BY <1>2, <2>1, <2>2, DrawnFacts
  <2> QED BY <1>1, <2>2, <2>3 DEF SoundSt
<1>5. CASE ~Shows(p, c)
  <2>1. r.log = st.log
    BY <1>1, <1>5, Zenon
  <2>2. CASE p.hangs \/ c \notin {Newline, Return}
    <3>1. d = p
      BY <1>3, <1>5, <2>2, Zenon
    <3>2. ~(c \in Glyphs \ {Space} /\ p.hangs = FALSE)
      BY <1>2, <1>5 DEF Shows
    <3> QED BY <1>1, <1>2, <2>1, <3>1, <3>2 DEF SoundSt
  <2>3. CASE ~p.hangs /\ c \in {Newline, Return}
    <3>1. p.hangs = FALSE /\ c \notin Glyphs
      BY <1>2, <2>3, ScreenAssumption
    <3>2. CASE c = Return
      <4>1. d = [p EXCEPT !.x = 0]
        BY <1>3, <1>5, <2>3, <3>2, Zenon
      <4>2. Sound(d, st.log)
        BY <1>2, <4>1, Returned
      <4> QED BY <1>1, <2>1, <3>1, <4>2 DEF SoundSt
    <3>3. CASE c # Return
      <4> DEFINE n == NewLine(p)
      <4>1. d = [n EXCEPT !.interrupts = @ \/ garbage]
        BY <1>3, <1>5, <2>3, <3>3, Zenon
      <4>2. Sound(n, st.log)
        BY <1>2, <3>1, NewLineFacts
      <4> HIDE DEF n
      <4>3. d = [n EXCEPT !.interrupts = n.interrupts \/ garbage]
        BY <4>1, Zenon
      <4>4. Sound(d, st.log)
        BY <4>2, <4>3, OtherInterrupts
      <4> QED BY <1>1, <2>1, <3>1, <4>4 DEF SoundSt
    <3> QED BY <3>2, <3>3
  <2> QED BY <2>2, <2>3
<1> QED BY <1>4, <1>5


(* The function that PutAll folds with.                                      *)
LogFold(g, start, seq, colour, garbage, n) ==
  g = [s \in SUBSET (1..n) |-> IF s = {} THEN start
                               ELSE PutLogged(g[s \ {Max(s)}], seq[Max(s)], colour, garbage)]

LEMMA LogFoldExists ==
  ASSUME NEW start, NEW seq, NEW colour, NEW garbage, NEW n \in Nat
  PROVE  \E g : LogFold(g, start, seq, colour, garbage, n)
<1> DEFINE T == {m \in Nat : \E g : LogFold(g, start, seq, colour, garbage, m)}
<1>1. 0 \in T
  <2> DEFINE g == [s \in SUBSET (1..0) |-> start]
  <2>1. \A s \in SUBSET (1..0) : s = {}
    OBVIOUS
  <2>2. g = [s \in SUBSET (1..0) |-> IF s = {} THEN start
                                    ELSE PutLogged(g[s \ {Max(s)}], seq[Max(s)], colour, garbage)]
    BY <2>1, Zenon
  <2>3. LogFold(g, start, seq, colour, garbage, 0)
    BY <2>2, Zenon DEF LogFold
  <2> QED BY <2>3
<1>2. ASSUME NEW m \in Nat, m \in T PROVE m + 1 \in T
  <2>1. PICK g : LogFold(g, start, seq, colour, garbage, m)
    BY <1>2
  <2> DEFINE S == SUBSET (1..m + 1)
             h == [s \in S |-> IF m + 1 \in s THEN PutLogged(g[s \ {m + 1}], seq[m + 1], colour, garbage)
                               ELSE g[s]]
             v(s) == IF s = {} THEN start ELSE PutLogged(h[s \ {Max(s)}], seq[Max(s)], colour, garbage)
  <2>2. \A s \in S : m + 1 \notin s => s \in SUBSET (1..m)
    <3>1. \A x \in 1..m + 1 : x # m + 1 => x \in 1..m
      OBVIOUS
    <3> QED BY <3>1
  <2>3. \A s \in SUBSET (1..m) : s \in S /\ m + 1 \notin s
    <3>1. \A x \in 1..m : x \in 1..m + 1 /\ x # m + 1
      OBVIOUS
    <3> QED BY <3>1
  <2>4. \A s \in SUBSET (1..m) : h[s] = g[s]
    BY <2>3, Zenon
  <2>5. ASSUME NEW s \in S PROVE h[s] = v(s)
    <3>1. CASE m + 1 \in s
      <4>1. Max(s) = m + 1 /\ s \ {m + 1} \in SUBSET (1..m) /\ s # {}
        BY <3>1, LargestIs
      <4>2. h[s] = PutLogged(g[s \ {m + 1}], seq[m + 1], colour, garbage)
        BY <3>1, Zenon
      <4>3. h[s \ {m + 1}] = g[s \ {m + 1}]
        BY <2>4, <4>1, Zenon
      <4> HIDE DEF h
      <4> QED BY <4>1, <4>2, <4>3, Zenon
    <3>2. CASE m + 1 \notin s
      <4>1. s \in SUBSET (1..m)
        BY <2>2, <3>2, Zenon
      <4>2. h[s] = g[s]
        BY <2>4, <4>1, Zenon
      <4>3. g[s] = IF s = {} THEN start ELSE PutLogged(g[s \ {Max(s)}], seq[Max(s)], colour, garbage)
        BY <2>1, <4>1, Zenon DEF LogFold
      <4>4. h[s \ {Max(s)}] = g[s \ {Max(s)}]
        <5>1. s \ {Max(s)} \in SUBSET (1..m)
          BY <4>1, Zenon
        <5> HIDE DEF h
        <5> QED BY <2>4, <5>1, Zenon
      <4> HIDE DEF h
      <4> QED BY <4>2, <4>3, <4>4, Zenon
    <3> QED BY <3>1, <3>2, Zenon
  <2>6. h = [s \in S |-> v(s)]
    <3>1. h = [s \in S |-> h[s]]
      BY Zenon
    <3> HIDE DEF h
    <3> QED BY <2>5, <3>1, Zenon
  <2>7. LogFold(h, start, seq, colour, garbage, m + 1)
    <3> HIDE DEF h
    <3> QED BY <2>6, Zenon DEF LogFold
  <2> QED BY <2>7
<1> HIDE DEF T
<1>3. n \in T
  BY <1>1, <1>2, SetInduction
<1> QED BY <1>3 DEF T

LogRun(g, start, seq, colour, garbage, n) ==
  /\ g[1..0] = start
  /\ \A k \in 0..n - 1 : g[1..k + 1] = PutLogged(g[1..k], seq[k + 1], colour, garbage)

LEMMA LogFoldSteps ==
  ASSUME NEW start, NEW seq, NEW colour, NEW garbage, NEW n \in Nat, NEW g, LogFold(g, start, seq, colour, garbage, n)
  PROVE  LogRun(g, start, seq, colour, garbage, n)
<1>1. g[1..0] = start
  <2>1. 1..0 = {} /\ {} \in SUBSET (1..n)
    OBVIOUS
  <2>2. g[{}] = start
    BY <2>1, Zenon DEF LogFold
  <2> QED BY <2>1, <2>2
<1>2. ASSUME NEW k \in 0..n - 1 PROVE g[1..k + 1] = PutLogged(g[1..k], seq[k + 1], colour, garbage)
  <2> DEFINE s == 1..k + 1
  <2>1. k \in Nat /\ s \in SUBSET (1..n) /\ s \in SUBSET (1..k + 1) /\ k + 1 \in s /\ s # {}
    OBVIOUS
  <2>2. s \ {k + 1} = 1..k
    OBVIOUS
  <2> HIDE DEF s
  <2>3. Max(s) = k + 1
    BY <2>1, LargestIs
  <2>4. g[s] = PutLogged(g[s \ {Max(s)}], seq[Max(s)], colour, garbage)
    BY <2>1, Zenon DEF LogFold
  <2>5. g[s] = PutLogged(g[1..k], seq[k + 1], colour, garbage)
    BY <2>2, <2>3, <2>4, Zenon
  <2> QED BY <2>5 DEF s
<1> QED BY <1>1, <1>2 DEF LogRun

NotBlankAtEnd(message) == message # <<>> /\ Last(message) \in Glyphs \ {Space}

LEMMA MessagePut ==
  ASSUME Sound(port, log), NEW message \in Seq(Bytes), NEW colour \in Colours, NEW garbage,
         NEW st, st = PutAll(message, colour, garbage)
  PROVE  SoundSt(st) /\ (NotBlankAtEnd(message) /\ st.port.hangs = FALSE => Ink(st.port))
<1> DEFINE start == [port |-> [port EXCEPT !.interrupts = FALSE], log |-> log]
           n == Len(message)
           g == CHOOSE f : LogFold(f, start, message, colour, garbage, n)
<1>1. n \in Nat /\ DOMAIN message = 1..n /\ (message # <<>> => n # 0)
  OBVIOUS
<1>2. SoundSt(start)
  <2> DEFINE p == [port EXCEPT !.interrupts = FALSE]
  <2>1. Sound(p, log)
    BY OtherInterrupts
  <2> HIDE DEF p
  <2>2. start.port = p /\ start.log = log
    BY DEF p
  <2> HIDE DEF start
  <2> QED BY <2>1, <2>2 DEF SoundSt
<1> HIDE DEF n, start
<1>3. LogFold(g, start, message, colour, garbage, n)
  BY <1>1, LogFoldExists
<1>4. st = g[1..n]
  BY <1>1, Zenon DEF PutAll, start, FoldLeft, MapThenFoldSet, LogFold
<1> HIDE DEF g
<1>5. LogRun(g, start, message, colour, garbage, n)
  BY <1>1, <1>3, LogFoldSteps, Zenon
<1> DEFINE T == {k \in Nat : k <= n => SoundSt(g[1..k])}
<1>6. 0 \in T
  BY <1>2, <1>5 DEF LogRun
<1>7. ASSUME NEW k \in Nat, k + 1 <= n, SoundSt(g[1..k])
      PROVE  /\ SoundSt(g[1..k + 1])
             /\ message[k + 1] \in Glyphs \ {Space} /\ g[1..k + 1].port.hangs = FALSE
                  => Ink(g[1..k + 1].port)
  <2>1. k \in 0..n - 1
    BY <1>1, <1>7
  <2>2. g[1..k + 1] = PutLogged(g[1..k], message[k + 1], colour, garbage)
    BY <1>5, <2>1, Zenon DEF LogRun
  <2> QED BY <1>7, <2>2, PutKeeps
<1>8. ASSUME NEW k \in Nat, k \in T PROVE k + 1 \in T
  <2> SUFFICES ASSUME k + 1 <= n PROVE SoundSt(g[1..k + 1])
    OBVIOUS
  <2>1. SoundSt(g[1..k])
    BY <1>1, <1>8
  <2> QED BY <1>7, <2>1
<1> HIDE DEF T
<1>9. Nat \subseteq T
  BY <1>6, <1>8, SetInduction
<1>10. SoundSt(st)
  BY <1>1, <1>4, <1>9 DEF T
<1>11. ASSUME NotBlankAtEnd(message), st.port.hangs = FALSE PROVE Ink(st.port)
  <2> DEFINE k == n - 1
  <2>1. k \in Nat /\ k + 1 = n /\ k <= n
    BY <1>1, <1>11 DEF NotBlankAtEnd
  <2> HIDE DEF k
  <2>2. SoundSt(g[1..k])
    BY <1>9, <2>1 DEF T
  <2>3. message[n] \in Glyphs \ {Space}
    BY <1>11 DEF NotBlankAtEnd, Last, n
  <2>4. message[k + 1] = message[n] /\ g[1..k + 1] = st
    BY <1>4, <2>1
  <2>5. k + 1 <= n
    BY <1>1, <2>1
  <2>6. message[k + 1] \in Glyphs \ {Space} /\ g[1..k + 1].port.hangs = FALSE
          => Ink(g[1..k + 1].port)
    BY <1>7, <2>1, <2>2, <2>5
  <2> QED BY <1>11, <2>3, <2>4, <2>6
<1> QED BY <1>10, <1>11

-----------------------------------------------------------------------------
(* The frame buffer: the invariant                                           *)

ScreenInv == Sound(port, log)

LEMMA ScreenInitOK == ScreenInit => ScreenInv
<1> SUFFICES ASSUME ScreenInit PROVE ScreenInv
  OBVIOUS
<1>1. /\ DOMAIN port = PortFields
      /\ port.x = 0 /\ port.y = 0 /\ port.page = Page /\ port.over = FALSE /\ port.hangs = FALSE
  BY DEF ScreenInit, PortFields
<1>2. port.y \in 0..MaxY /\ (MaxY > 2 * Scale => port.y <= MaxY - Scale - 1)
  BY <1>1, Sizes
<1>3. log \in Seq(Marks)
  BY DEF ScreenInit
<1> QED BY <1>1, <1>2, <1>3, BlankPort DEF ScreenInv

LEMMA WriteKeeps ==
  ASSUME ScreenInv, NEW message \in ScreenMessages, NEW colour \in Colours, NEW garbage,
         WriteIn(message, colour, garbage)
  PROVE  /\ ScreenInv'
         /\ initialized /\ NotBlankAtEnd(message) /\ ~port'.hangs => Ink(port')
<1>1. CASE initialized
  <2> DEFINE st == PutAll(message, colour, garbage)
  <2>1. port' = [st.port EXCEPT !.interrupts = @ \/ port.interrupts] /\ log' = st.log
    BY <1>1, Zenon DEF WriteIn
  <2>2. message \in Seq(Bytes)
    BY ScreenAssumption
  <2>3. SoundSt(st) /\ (NotBlankAtEnd(message) /\ st.port.hangs = FALSE => Ink(st.port))
    BY <2>2, MessagePut DEF ScreenInv
  <2> HIDE DEF st
  <2> DEFINE p == st.port
  <2>4. Sound(p, st.log) /\ p.hangs \in BOOLEAN
    BY <2>3 DEF SoundSt, Sound, PortOK
  <2>5. port' = [p EXCEPT !.interrupts = p.interrupts \/ port.interrupts]
    BY <2>1, Zenon
  <2>6. (NotBlankAtEnd(message) /\ p.hangs = FALSE => Ink(p))
    BY <2>3
  <2> HIDE DEF p
  <2>7. Sound(port', st.log) /\ (Ink(p) => Ink(port')) /\ port'.hangs = p.hangs
    BY <2>4, <2>5, OtherInterrupts
  <2> QED BY <2>1, <2>4, <2>6, <2>7 DEF ScreenInv
<1>2. CASE ~initialized
  <2>1. UNCHANGED <<port, log>>
    BY <1>2, Zenon DEF WriteIn
  <2> QED BY <1>2, <2>1 DEF ScreenInv
<1> QED BY <1>1, <1>2

LEMMA ScreenStep == ScreenInv /\ [ScreenNext]_screenVars => ScreenInv'
<1> SUFFICES ASSUME ScreenInv, [ScreenNext]_screenVars PROVE ScreenInv'
  OBVIOUS
<1>1. CASE UNCHANGED <<port, log>>
  BY <1>1 DEF ScreenInv
<1>2. CASE \E message \in ScreenMessages, garbage \in BOOLEAN :
             ScreenWrite(message, garbage) \/ WriteCritical(message, garbage)
  <2>1. PICK message \in ScreenMessages, garbage \in BOOLEAN :
               ScreenWrite(message, garbage) \/ WriteCritical(message, garbage)
    BY <1>2
  <2>2. PICK colour \in Colours : WriteIn(message, colour, garbage)
    BY <2>1 DEF ScreenWrite, WriteCritical, Colours
  <2> QED BY <2>2, WriteKeeps
<1> QED BY <1>1, <1>2 DEF ScreenNext, ScreenInitialize, screenVars

(* For any screen on which a glyph fits and any messages: the glyphs on the  *)
(* page are the last of what was to be drawn, unless a return had some drawn *)
(* over, and where there are two lines or more no call hangs and the next    *)
(* glyph fits (FbConPutCharWithFactor).                                      *)
THEOREM ScreenShows == ScreenSpec => []ScreenShowsTheEnd
<1>1. ScreenInv => ScreenShowsTheEnd
  <2> SUFFICES ASSUME ScreenInv PROVE ScreenShowsTheEnd
    OBVIOUS
  <2>1. port.over \in BOOLEAN /\ port.x \in 0..Columns-1 /\ port.y \in 0..MaxY
        /\ (MaxY > 2 * Scale => port.hangs = FALSE /\ port.y <= MaxY - Scale - 1)
    BY DEF ScreenInv, Sound, PortOK
  <2>2. ~port.over => IsSuffix(OnPage(port.page), log)
    BY <2>1 DEF ScreenInv, Sound, Follows
  <2>3. MaxY > 2 * Scale => ~port.hangs /\ port.x \in 0..Columns-1 /\ port.y \in 0..MaxY-Scale-1
    BY <2>1, Sizes
  <2> QED BY <2>2, <2>3 DEF ScreenShowsTheEnd
<1> QED BY <1>1, ScreenInitOK, ScreenStep, PTL DEF ScreenSpec

(* And a call whose last character is a glyph leaves it on the page, also    *)
(* when it fills the page ("goto paint").                                    *)
THEOREM LastGlyph == ScreenSpec => LastGlyphShows
<1> DEFINE Written(message, garbage) ==
             ScreenWrite(message, garbage) \/ WriteCritical(message, garbage)
           Shows1 ==
             \A message \in ScreenMessages, garbage \in BOOLEAN :
               initialized /\ message # <<>> /\ Last(message) \in Glyphs \ {Space}
               /\ (ScreenWrite(message, garbage) \/ WriteCritical(message, garbage))
               /\ ~port'.over /\ ~port'.hangs
                 => OnPage(port'.page) # <<>> /\ Last(OnPage(port'.page)) = Last(log')
<1>1. ScreenInv /\ [ScreenNext]_screenVars => [Shows1]_screenVars
  <2> SUFFICES ASSUME ScreenInv, [ScreenNext]_screenVars,
                      NEW message \in ScreenMessages, NEW garbage \in BOOLEAN,
                      initialized, message # <<>>, Last(message) \in Glyphs \ {Space},
                      Written(message, garbage), ~port'.over, ~port'.hangs
               PROVE  OnPage(port'.page) # <<>> /\ Last(OnPage(port'.page)) = Last(log')
    OBVIOUS
  <2>1. PICK colour \in Colours : WriteIn(message, colour, garbage)
    BY DEF ScreenWrite, WriteCritical, Colours
  <2>2. ScreenInv' /\ Ink(port')
    BY <2>1, WriteKeeps DEF NotBlankAtEnd
  <2> DEFINE s == OnPage(port'.page)
             t == log'
  <2>3. port'.over = FALSE /\ port'.page \in Pages /\ t \in Seq(Marks)
    BY <2>2 DEF ScreenInv, Sound, PortOK
  <2>4. IsSuffix(s, t) /\ s # <<>>
    BY <2>2, <2>3 DEF ScreenInv, Sound, Follows, Ink
  <2>5. s \in Seq(Marks)
    BY <2>3, OnPageType
  <2> HIDE DEF s, t
  <2>6. Ends(s, t) /\ Len(s) \in Nat /\ Len(s) >= 1 /\ Len(t) \in Nat
    BY <2>3, <2>4, <2>5, SuffixEnds
  <2>7. s[Len(s)] = t[Len(t)]
    <3>1. s[Len(s) - 1 + 1] = t[Len(t) - 1 + 1]
      BY <2>6 DEF Ends
    <3>2. Len(s) - 1 + 1 = Len(s) /\ Len(t) - 1 + 1 = Len(t)
      BY <2>6
    <3> QED BY <3>1, <3>2
  <2> QED BY <2>4, <2>7 DEF Last, s, t
<1> QED BY <1>1, ScreenInitOK, ScreenStep, PTL DEF ScreenSpec, LastGlyphShows
=============================================================================
