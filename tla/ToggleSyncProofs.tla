--------------------------- MODULE ToggleSyncProofs ---------------------------
(***************************************************************************)
(* Theorems about ToggleSync, for every set of keyboards and lock states.   *)
(***************************************************************************)
EXTENDS ToggleSync, TLAPS, SequenceTheorems

(* The values a call starts and ends with.                                   *)
LEMMA CallValues ==
  /\ Idle \in Call
  /\ \A phase \in {"idle", "set", "reset", "tell", "add"}, lock \in Locks :
       [phase |-> phase, next |-> 1, lock |-> lock] \in Call
  BY LockAssumption DEF Idle, Call

(* Nothing is listed at the start.                                           *)
LEMMA SettledInit == Init => SettledInv
<1> SUFFICES ASSUME Init PROVE SettledInv
  OBVIOUS
<1>1. /\ textInExList = <<>> /\ DOMAIN textInExList = {}
      /\ call = Idle /\ textInExList \in Seq(Dev)
  BY EmptySeq DEF Init
<1>2. \A d \in Dev : <<>> \in Seq(Locks)
  BY EmptySeq
<1>3. TypeOK
  <2>1. /\ \A i, j \in DOMAIN textInExList : textInExList[i] = textInExList[j] => i = j
        /\ call \in Call
        /\ call.phase # "add"
    BY <1>1, CallValues DEF Idle
  <2>2. pending \in [Dev -> Seq(Locks)]
    BY <1>2 DEF Init
  <2>3. /\ physicalState \in Locks /\ toggle \in [Dev -> Locks]
        /\ exposed \subseteq Dev /\ torn \in BOOLEAN
    BY LockAssumption DEF Init
  <2>4. presses \in 0..MaxPresses
    BY PressAssumption DEF Init
  <2>5. textInExList \in Seq(Dev)
    BY <1>1
  <2> HIDE DEF Init
  <2>6. QED BY <2>1, <2>2, <2>3, <2>4, <2>5 DEF TypeOK
<1>4. Listed = {}
  BY <1>1 DEF Listed
<1>5. QED BY <1>1, <1>3, <1>4 DEF SettledInv, Idle

(* The type invariant of the list: what an index of it stands for.           *)
LEMMA ListFacts ==
  ASSUME TypeOK
  PROVE  /\ DOMAIN textInExList = 1..Len(textInExList) /\ Len(textInExList) \in Nat
         /\ \A i \in DOMAIN textInExList : textInExList[i] \in Dev
         /\ Listed \subseteq Dev
         /\ \A n \in Nat : Before(n) \subseteq Listed
  BY DEF TypeOK, Listed, Before

(* The index of the loop moves on by one: one more keyboard is behind it.    *)
LEMMA BeforeNext ==
  ASSUME TypeOK, NEW n \in DOMAIN textInExList
  PROVE  Before(n + 1) = Before(n) \cup {textInExList[n]}
  BY ListFacts DEF Before

(* When the index has left the list, every keyboard is behind it.            *)
LEMMA BeforeAll ==
  ASSUME TypeOK, NEW n \in Nat \ {0}, n \notin DOMAIN textInExList
  PROVE  Before(n) = Listed
  BY ListFacts DEF Before, Listed

(* The body of a loop: the keyboard it is at, and the index moving on.       *)
LEMMA LoopFacts ==
  ASSUME TypeOK, NEW phase, InLoop(phase), Advance
  PROVE  /\ Current \in Dev /\ Current = textInExList[call.next]
         /\ call.phase = phase
         /\ call.next \in DOMAIN textInExList /\ call.next \in Nat
         /\ call' \in Call
         /\ call'.phase = phase /\ call'.next = call.next + 1
         /\ call'.lock = call.lock
<1>1. /\ call \in Call
      /\ call.next \in DOMAIN textInExList
  BY DEF TypeOK, InLoop, Call
<1>2. Current \in Dev
  BY <1>1, ListFacts DEF Current
<1>3. call' \in Call /\ call'.next = call.next + 1
      /\ call'.phase = call.phase /\ call'.lock = call.lock
  BY <1>1 DEF Advance, Call
<1>4. QED BY <1>1, <1>2, <1>3 DEF InLoop, Current, Call

(* The state a SetState was called with.                                     *)
LEMMA CallLock == TypeOK => call.lock \in Locks /\ call.next \in Nat \ {0}
  BY DEF TypeOK, Call

(* Telling keyboards a state keeps the types.                                *)
LEMMA ToldType ==
  ASSUME TypeOK, NEW D \in SUBSET Dev, NEW lock \in Locks, Told(D, lock)
  PROVE  toggle' \in [Dev -> Locks] /\ exposed' \subseteq Dev
  BY DEF TypeOK, Told

(* Every action keeps the types.                                             *)
LEMMA TypeStep == TypeOK /\ [Next]_vars => TypeOK'
<1> SUFFICES ASSUME TypeOK, [Next]_vars PROVE TypeOK'
  OBVIOUS
<1> USE DEF TypeOK
<1>1. ASSUME NEW lock \in Locks, SetStateBegin(lock) PROVE TypeOK'
  <2>1. call' \in Call /\ call'.phase # "add"
    BY <1>1, CallValues, LockAssumption DEF SetStateBegin, Begin
  <2>2. QED BY <1>1, <2>1, LockAssumption DEF SetStateBegin
<1>2. CASE SetStateDevice
  <2>1. InLoop("set") /\ Advance /\ Told({Current}, call.lock)
    BY <1>2 DEF SetStateDevice
  <2>2. toggle' \in [Dev -> Locks] /\ exposed' \subseteq Dev
    BY <2>1, LoopFacts, CallLock, ToldType
  <2>3. /\ call' \in Call
        /\ call'.phase = "set"
    BY <2>1, LoopFacts
  <2>4. UNCHANGED <<textInExList, physicalState, pending, presses, torn>>
    BY <1>2 DEF SetStateDevice
  <2>5. QED BY <2>2, <2>3, <2>4
<1>3. CASE SetStateEnd
  <2>1. call' \in Call /\ call'.phase # "add"
    BY <1>3, CallValues, LockAssumption DEF SetStateEnd, Idle
  <2>2. QED BY <1>3, <2>1, LockAssumption, CallLock DEF SetStateEnd
<1>4. CASE ResetBegin
  <2>1. call' \in Call /\ call'.phase # "add"
    BY <1>4, CallValues, LockAssumption DEF ResetBegin, Begin
  <2>2. QED BY <1>4, <2>1, LockAssumption DEF ResetBegin
<1>5. CASE ResetDevice
  <2>1. InLoop("reset") /\ Advance
    BY <1>5 DEF ResetDevice
  <2>2. Current \in Dev
    BY <2>1, LoopFacts
  <2>3. pending' \in [Dev -> Seq(Locks)]
    <3>1. <<>> \in Seq(Locks)
      BY EmptySeq
    <3>2. [pending EXCEPT ![Current] = <<>>] \in [Dev -> Seq(Locks)]
      BY <2>2, <3>1
    <3>3. QED BY <1>5, <3>2 DEF ResetDevice
  <2>4. toggle' \in [Dev -> Locks] /\ exposed' \subseteq Dev
    BY <1>5, <2>2, LockAssumption DEF ResetDevice
  <2>5. UNCHANGED <<textInExList, physicalState, presses, torn>>
    BY <1>5 DEF ResetDevice
  <2>6. QED BY <2>1, <2>3, <2>4, <2>5, LoopFacts
<1>6. CASE ReInitialize
  <2>1. call' \in Call /\ call'.phase # "add"
    BY <1>6, CallValues, LockAssumption DEF ReInitialize
  <2>2. QED BY <1>6, <2>1, LockAssumption DEF ReInitialize
<1>7. CASE ReInitializeDevice
  <2>1. InLoop("tell") /\ Advance /\ Told({Current}, physicalState)
    BY <1>7 DEF ReInitializeDevice
  <2>2. toggle' \in [Dev -> Locks] /\ exposed' \subseteq Dev
    BY <2>1, LoopFacts, CallLock, ToldType
  <2>3. /\ call' \in Call
        /\ call'.phase = "tell"
    BY <2>1, LoopFacts
  <2>4. UNCHANGED <<textInExList, physicalState, pending, presses, torn>>
    BY <1>7 DEF ReInitializeDevice
  <2>5. QED BY <2>2, <2>3, <2>4
<1>8. CASE ReInitializeEnd
  <2>1. call' \in Call /\ call'.phase # "add"
    BY <1>8, CallValues, LockAssumption DEF ReInitializeEnd, Idle
  <2>2. QED BY <1>8, <2>1, LockAssumption DEF ReInitializeEnd
<1>9. ASSUME NEW d \in Dev, AddDevice(d) PROVE TypeOK'
  <2>1. /\ textInExList' = Append(textInExList, d)
        /\ textInExList' \in Seq(Dev)
        /\ Len(textInExList') = Len(textInExList) + 1
        /\ DOMAIN textInExList' = 1..Len(textInExList) + 1
        /\ \A i \in 1..Len(textInExList) : textInExList'[i] = textInExList[i]
        /\ textInExList'[Len(textInExList) + 1] = d
    BY <1>9, AppendProperties DEF AddDevice
  <2>2. \A i \in DOMAIN textInExList : textInExList[i] # d
    BY <1>9 DEF AddDevice, Listed
  <2>3. \A i, j \in DOMAIN textInExList' : textInExList'[i] = textInExList'[j] => i = j
    BY <2>1, <2>2
  <2>4. textInExList' # <<>>
    <3>1. Len(textInExList') # 0
      BY <2>1, ListFacts
    <3>2. QED BY <2>1, <3>1, EmptySeq
  <2>5. call' \in Call
    BY <1>9, CallValues, LockAssumption DEF AddDevice, Begin
  <2>6. QED BY <1>9, <2>1, <2>3, <2>4, <2>5 DEF AddDevice
<1>10. CASE AddDeviceEnd
  <2>1. Len(textInExList) \in DOMAIN textInExList
    BY <1>10 DEF AddDeviceEnd
  <2>2. textInExList[Len(textInExList)] \in Dev
    BY <2>1
  <2>3. call' \in Call /\ call'.phase # "add"
    BY <1>10, CallValues DEF AddDeviceEnd, Idle
  <2>4. QED BY <1>10, <2>2, <2>3 DEF AddDeviceEnd, Told
<1>11. ASSUME NEW d \in Dev, KeyNotify(d) PROVE TypeOK'
  <2>1. /\ pending[d] \in Seq(Locks) /\ pending[d] # <<>>
        /\ Head(pending[d]) \in Locks /\ Tail(pending[d]) \in Seq(Locks)
    BY <1>11, HeadTailProperties DEF KeyNotify
  <2>2. pending' \in [Dev -> Seq(Locks)]
    BY <1>11, <2>1 DEF KeyNotify
  <2>3. Listed \subseteq Dev
    BY ListFacts
  <2>4. toggle' \in [Dev -> Locks] /\ exposed' \subseteq Dev /\ physicalState' \in Locks
    BY <1>11, <2>1, <2>3 DEF KeyNotify, Told
  <2>5. torn' \in BOOLEAN
    BY <1>11 DEF KeyNotify
  <2>6. QED BY <1>11, <2>2, <2>4, <2>5 DEF KeyNotify
<1>12. ASSUME NEW d \in Dev, NEW lock \in Locks, Press(d, lock) PROVE TypeOK'
  <2>1. pending' \in [Dev -> Seq(Locks)]
    BY <1>12, AppendProperties DEF Press
  <2>2. QED BY <1>12, <2>1, PressAssumption DEF Press
<1>13. CASE UNCHANGED vars
  BY <1>13 DEF vars
<1>14. QED
  BY <1>1, <1>2, <1>3, <1>4, <1>5, <1>6, <1>7, <1>8, <1>9, <1>10, <1>11, <1>12,
     <1>13 DEF Next, Splitter, Keyboards

-----------------------------------------------------------------------------
(* Settling                                                                  *)

(* A keyboard that was told a state, and whose keystrokes are as they were,  *)
(* has settled on it.                                                        *)
LEMMA ToldSettles ==
  ASSUME NEW D \in SUBSET Dev, NEW lock \in Locks, Told(D, lock), pending' = pending,
         NEW d \in D
  PROVE  Settled(d, lock)'
  BY DEF Told, Settled

(* Telling others does not disturb a settled keyboard.                       *)
LEMMA OthersTold ==
  ASSUME NEW D \in SUBSET Dev, NEW lock \in Locks, Told(D, lock), pending' = pending,
         NEW d \in Dev, NEW state, Settled(d, state), d \in D => lock = state
  PROVE  Settled(d, state)'
  BY DEF Told, Settled

(* One turn of a loop that tells each keyboard the same state.               *)
LEMMA ToldLoop ==
  ASSUME TypeOK, NEW phase, InLoop(phase), Advance, NEW lock \in Locks,
         Told({Current}, lock), pending' = pending, textInExList' = textInExList,
         \A d \in Before(call.next) : Settled(d, lock)
  PROVE  \A d \in Before(call.next)' : Settled(d, lock)'
<1>1. /\ call.next \in DOMAIN textInExList /\ call'.next = call.next + 1
      /\ Current = textInExList[call.next] /\ Current \in Dev
      /\ call.next \in Nat
  BY LoopFacts
<1>2. Before(call.next)' = Before(call.next + 1)
  BY <1>1 DEF Before
<1>3. Before(call.next + 1) = Before(call.next) \cup {Current}
  BY <1>1, BeforeNext
<1>4. Before(call.next) \subseteq Dev
  BY <1>1, ListFacts
<1>5. {Current} \in SUBSET Dev
  BY <1>1
<1>6. QED BY <1>2, <1>3, <1>4, <1>5, ToldSettles, OthersTold

(* A lock key that is pressed announces itself.                              *)
LEMMA PressSettled ==
  ASSUME TypeOK, NEW e \in Dev, NEW lock \in Locks, Press(e, lock),
         NEW d \in Dev, NEW state, Settled(d, state)
  PROVE  Settled(d, state)'
<1>1. CASE d # e
  BY <1>1 DEF Press, Settled, TypeOK
<1>2. CASE d = e
  <2>1. pending[d] \in Seq(Locks) /\ d \in exposed
    BY DEF TypeOK, Settled
  <2>2. pending'[d] = Append(pending[d], lock) /\ toggle'[d] = lock /\ d \in exposed'
    BY <1>2, <2>1 DEF Press, TypeOK
  <2>3. Append(pending[d], lock)[Len(Append(pending[d], lock))] = lock
        /\ Append(pending[d], lock) # <<>>
    BY <2>1, AppendProperties
  <2>4. QED BY <2>2, <2>3 DEF Settled
<1>3. QED BY <1>1, <1>2

(* A keystroke is delivered and the keyboards are not told, because it is    *)
(* the recorded state: its keyboard settles on that, or has more to deliver. *)
LEMMA NotifyQuiet ==
  ASSUME TypeOK, NEW e \in Dev, KeyNotify(e), Head(pending[e]) = physicalState,
         NEW d \in Dev, NEW state, Settled(d, state),
         d = e => state = Head(pending[e])
  PROVE  Settled(d, state)'
<1>1. /\ pending[e] \in Seq(Locks) /\ pending[e] # <<>>
      /\ pending' = [pending EXCEPT ![e] = Tail(@)]
      /\ toggle' = toggle /\ exposed' = exposed
  BY DEF KeyNotify, TypeOK
<1>2. CASE d # e
  BY <1>1, <1>2 DEF Settled, TypeOK
<1>3. CASE d = e
  <2>1. pending'[d] = Tail(pending[d])
    BY <1>1, <1>3 DEF TypeOK
  <2>2. CASE toggle[d] = state
    BY <1>1, <2>2 DEF Settled
  <2>3. CASE toggle[d] # state
    <3>1. pending[d][Len(pending[d])] = toggle[d] /\ d \in exposed
      BY <2>3 DEF Settled
    <3>2. Len(pending[d]) # 1
      BY <1>1, <1>3, <2>3, <3>1
    <3>3. /\ Tail(pending[d]) # <<>>
          /\ Tail(pending[d])[Len(Tail(pending[d]))] = pending[d][Len(pending[d])]
      <4> DEFINE s == pending[d]
      <4>1. s \in Seq(Locks) /\ s # <<>> /\ Len(s) # 1
        BY <1>1, <1>3, <3>2
      <4> HIDE DEF s
      <4>2. Len(s) \in Nat /\ Len(s) > 1
        <5>1. Len(s) # 0
          BY <4>1, EmptySeq
        <5>2. Len(s) \in Nat
          BY <4>1, LenProperties
        <5>3. \A n \in Nat : n # 0 /\ n # 1 => n > 1
          OBVIOUS
        <5>4. QED BY <4>1, <5>1, <5>2, <5>3, Zenon
      <4>3. /\ Tail(s) \in Seq(Locks) /\ Len(Tail(s)) = Len(s) - 1
            /\ \A i \in 1..Len(Tail(s)) : Tail(s)[i] = s[i + 1]
        BY <4>1, HeadTailProperties
      <4>4. Len(Tail(s)) \in 1..Len(Tail(s)) /\ Len(Tail(s)) + 1 = Len(s)
        BY <4>2, <4>3
      <4>5. Tail(s)[Len(Tail(s))] = s[Len(s)]
        BY <4>3, <4>4
      <4>6. Tail(s) # <<>>
        <5>1. Len(Tail(s)) # 0
          BY <4>2, <4>3
        <5>2. QED BY <4>3, <5>1, EmptySeq
      <4>7. QED BY <4>5, <4>6 DEF s
    <3>4. QED BY <1>1, <2>1, <3>1, <3>3 DEF Settled
  <2>4. QED BY <2>2, <2>3
<1>4. QED BY <1>2, <1>3

(* A keystroke with another state is delivered: every keyboard is told.      *)
LEMMA NotifyTells ==
  ASSUME TypeOK, NEW e \in Dev, KeyNotify(e), Head(pending[e]) # physicalState
  PROVE  /\ physicalState' = Head(pending[e])
         /\ \A d \in Listed : Settled(d, physicalState)'
  BY ListFacts DEF KeyNotify, Told, Settled

(* What the invariant says while a SetState is in progress.                  *)
LEMMA SetStateNotify ==
  ASSUME TypeOK, NEW e \in Dev, KeyNotify(e), call.phase = "set", ~torn',
         \A d \in Before(call.next) : ~torn => Settled(d, call.lock)
  PROVE  \A d \in Before(call.next) : Settled(d, call.lock)'
<1>1. ~torn /\ (call.next > 1 => Head(pending[e]) = call.lock)
  BY DEF KeyNotify
<1>2. call.next \in Nat /\ Before(call.next) \subseteq Listed
  BY ListFacts, CallLock
<1>3. CASE ~(call.next > 1)
  <2>1. Before(call.next) = {}
    BY <1>2, <1>3, ListFacts DEF Before
  <2>2. QED BY <2>1
<1>4. CASE call.next > 1
  <2>1. Head(pending[e]) = call.lock /\ call' = call
    BY <1>1, <1>4 DEF KeyNotify
  <2>2. CASE Head(pending[e]) = physicalState
    <3>1. ASSUME NEW d \in Before(call.next) PROVE Settled(d, call.lock)'
      <4>1. d \in Dev /\ Settled(d, call.lock)
        BY <1>1, <1>2, ListFacts
      <4>2. DEFINE state == call.lock
      <4>3. Settled(d, state)'
        BY <2>1, <2>2, <4>1, NotifyQuiet
      <4>4. QED BY <2>1, <4>3
    <3>2. QED BY <3>1
  <2>3. CASE Head(pending[e]) # physicalState
    BY <1>2, <2>1, <2>3, NotifyTells DEF Settled
  <2>4. QED BY <2>2, <2>3
<1>5. QED BY <1>3, <1>4

(* Steps that change neither the keyboards nor the list.                     *)
LEMMA SettledFrame ==
  ASSUME UNCHANGED <<toggle, exposed, pending>>, NEW d, NEW state, Settled(d, state)
  PROVE  Settled(d, state)'
  BY DEF Settled

(* Every action keeps the invariant.                                         *)
LEMMA SettledNext == SettledInv /\ [Next]_vars => SettledInv'
<1> SUFFICES ASSUME SettledInv, [Next]_vars PROVE SettledInv'
  OBVIOUS
<1>0. TypeOK /\ TypeOK'
  BY TypeStep DEF SettledInv
<1>1. /\ call.phase = "idle" /\ ~torn => \A d \in Listed : Settled(d, physicalState)
      /\ call.phase = "set" /\ ~torn =>
           \A d \in Before(call.next) : Settled(d, call.lock)
      /\ call.phase = "tell" => \A d \in Before(call.next) : Settled(d, physicalState)
      /\ call.phase = "add" /\ ~torn =>
           \A d \in Before(Len(textInExList)) : Settled(d, physicalState)
  BY DEF SettledInv
<1>2. /\ Before(1) = {} /\ call.lock \in Locks /\ call.next \in Nat \ {0}
      /\ physicalState \in Locks /\ Listed \subseteq Dev
      /\ \A n \in Nat : Before(n) \subseteq Listed
      /\ Len(textInExList) \in Nat
  <2>1. Before(1) = {}
    BY <1>0, ListFacts DEF Before
  <2>2. QED BY <1>0, <2>1, ListFacts, CallLock DEF TypeOK
<1>3. ASSUME NEW lock \in Locks, SetStateBegin(lock) PROVE SettledInv'
  <2>1. call'.phase = "set" /\ call'.next = 1 /\ textInExList' = textInExList
    BY <1>3 DEF SetStateBegin, Begin
  <2>2. Before(call.next)' = {}
    BY <1>2, <2>1 DEF Before
  <2>3. QED BY <1>0, <2>1, <2>2 DEF SettledInv
<1>4. CASE SetStateDevice
  <2>1. /\ InLoop("set") /\ Advance /\ Told({Current}, call.lock)
        /\ UNCHANGED <<textInExList, physicalState, pending, presses, torn>>
    BY <1>4 DEF SetStateDevice
  <2>2. call'.phase = "set" /\ call'.lock = call.lock
    BY <1>0, <2>1, LoopFacts
  <2>3. ASSUME ~torn PROVE \A d \in Before(call.next)' : Settled(d, call.lock)'
    <3>1. \A d \in Before(call.next) : Settled(d, call.lock)
      BY <1>1, <2>1, <2>3 DEF InLoop
    <3> DEFINE lock == call.lock
    <3> HIDE DEF lock
    <3>2. QED BY <1>0, <1>2, <2>1, <2>2, <3>1, ToldLoop
  <2>4. QED BY <1>0, <2>1, <2>2, <2>3 DEF SettledInv
<1>5. CASE SetStateEnd
  <2>1. /\ call.phase = "set" /\ call'.phase = "idle" /\ physicalState' = call.lock
        /\ UNCHANGED <<textInExList, toggle, exposed, pending, torn>>
        /\ call.next \notin DOMAIN textInExList
    BY <1>5 DEF SetStateEnd, LoopDone, Idle
  <2>2. Before(call.next) = Listed /\ Listed' = Listed
    BY <1>0, <1>2, <2>1, BeforeAll DEF Listed
  <2>3. ASSUME ~torn, NEW d \in Listed PROVE Settled(d, physicalState)'
    BY <1>1, <2>1, <2>2, <2>3 DEF Settled
  <2>4. QED BY <1>0, <2>1, <2>2, <2>3 DEF SettledInv
<1>6. CASE ResetBegin
  BY <1>0, <1>6 DEF SettledInv, ResetBegin, Begin
<1>7. CASE ResetDevice
  <2>1. call'.phase = "reset"
    BY <1>0, <1>7, LoopFacts DEF ResetDevice
  <2>2. QED BY <1>0, <2>1 DEF SettledInv
<1>8. CASE ReInitialize
  <2>1. call'.phase = "tell" /\ call'.next = 1 /\ textInExList' = textInExList
    BY <1>8 DEF ReInitialize
  <2>2. Before(call.next)' = {}
    BY <1>2, <2>1 DEF Before
  <2>3. QED BY <1>0, <2>1, <2>2 DEF SettledInv
<1>9. CASE ReInitializeDevice
  <2>1. /\ InLoop("tell") /\ Advance /\ Told({Current}, physicalState)
        /\ UNCHANGED <<textInExList, physicalState, pending, presses, torn>>
    BY <1>9 DEF ReInitializeDevice
  <2>2. call'.phase = "tell"
    BY <1>0, <2>1, LoopFacts
  <2>3. \A d \in Before(call.next)' : Settled(d, physicalState)'
    <3>1. \A d \in Before(call.next) : Settled(d, physicalState)
      BY <1>1, <2>1 DEF InLoop
    <3> DEFINE lock == physicalState
    <3>2. lock \in Locks /\ lock' = lock
      BY <1>2, <2>1
    <3> HIDE DEF lock
    <3>3. QED BY <1>0, <2>1, <3>1, <3>2, ToldLoop DEF lock
  <2>4. QED BY <1>0, <2>1, <2>2, <2>3 DEF SettledInv
<1>10. CASE ReInitializeEnd
  <2>1. /\ call.phase = "tell" /\ call'.phase = "idle"
        /\ UNCHANGED <<textInExList, physicalState, toggle, exposed, pending>>
        /\ call.next \notin DOMAIN textInExList
    BY <1>10 DEF ReInitializeEnd, LoopDone, Idle
  <2>2. Before(call.next) = Listed /\ Listed' = Listed
    BY <1>0, <1>2, <2>1, BeforeAll DEF Listed
  <2>3. ASSUME NEW d \in Listed PROVE Settled(d, physicalState)'
    BY <1>1, <2>1, <2>2 DEF Settled
  <2>4. QED BY <1>0, <2>1, <2>2, <2>3 DEF SettledInv
<1>11. ASSUME NEW d \in Dev, AddDevice(d) PROVE SettledInv'
  <2>1. /\ call.phase = "idle" /\ call'.phase = "add"
        /\ textInExList' = Append(textInExList, d)
        /\ UNCHANGED <<physicalState, toggle, exposed, pending, torn>>
    BY <1>11 DEF AddDevice, Begin
  <2>2. Before(Len(textInExList))' = Listed
    <3>1. /\ Len(textInExList') = Len(textInExList) + 1
          /\ DOMAIN textInExList' = 1..Len(textInExList) + 1
          /\ \A i \in 1..Len(textInExList) : textInExList'[i] = textInExList[i]
      BY <1>0, <2>1, AppendProperties DEF TypeOK
    <3>2. DOMAIN textInExList = 1..Len(textInExList)
      BY <1>0, ListFacts
    <3>3. QED BY <1>2, <3>1, <3>2 DEF Before, Listed
  <2>3. ASSUME ~torn, NEW e \in Listed PROVE Settled(e, physicalState)'
    BY <1>1, <2>1, <2>3 DEF Settled
  <2>4. QED BY <1>0, <2>1, <2>2, <2>3 DEF SettledInv
<1>12. CASE AddDeviceEnd
  <2> DEFINE last == textInExList[Len(textInExList)]
  <2>1. /\ call.phase = "add" /\ call'.phase = "idle"
        /\ Told({last}, physicalState)
        /\ UNCHANGED <<textInExList, physicalState, pending, torn>>
    BY <1>12 DEF AddDeviceEnd, Idle
  <2>2. Len(textInExList) \in DOMAIN textInExList /\ last \in Dev
    <3>1. textInExList # <<>> /\ textInExList \in Seq(Dev)
      BY <1>0, <2>1 DEF TypeOK
    <3>2. Len(textInExList) # 0
      BY <3>1, EmptySeq
    <3>3. QED BY <1>0, <1>2, <3>2, ListFacts
  <2>3. Listed = Before(Len(textInExList)) \cup {last} /\ Listed' = Listed
    <3>1. Before(Len(textInExList) + 1) = Listed
      BY <1>0, <1>2, BeforeAll, ListFacts
    <3>2. QED BY <1>0, <2>1, <2>2, <3>1, BeforeNext DEF Listed
  <2> HIDE DEF last
  <2>4. ASSUME ~torn, NEW e \in Listed PROVE Settled(e, physicalState)'
    <3>1. {last} \in SUBSET Dev
      BY <2>2
    <3> DEFINE lock == physicalState
    <3>2. lock \in Locks /\ lock' = lock /\ physicalState' = lock
      BY <1>2, <2>1
    <3>3. CASE e = last
      BY <2>1, <2>2, <3>3 DEF Settled, Told
    <3>4. CASE e # last
      <4>1. Settled(e, lock)
        BY <1>1, <2>1, <2>3, <2>4, <3>4
      <4>2. e \in Dev
        BY <1>2
      <4>3. Told({last}, lock) /\ pending' = pending
        BY <2>1
      <4> HIDE DEF lock
      <4>4. Settled(e, lock)'
        BY <3>1, <3>2, <3>4, <4>1, <4>2, <4>3, OthersTold
      <4>5. QED BY <3>2, <4>4 DEF lock
    <3>5. QED BY <3>3, <3>4
  <2>5. QED BY <1>0, <2>1, <2>3, <2>4 DEF SettledInv
<1>13. ASSUME NEW e \in Dev, KeyNotify(e) PROVE SettledInv'
  <2>1. UNCHANGED <<textInExList, call>> /\ Listed' = Listed
        /\ Before(call.next)' = Before(call.next)
        /\ Before(Len(textInExList))' = Before(Len(textInExList))
    BY <1>13 DEF KeyNotify, Listed, Before
  <2>2. CASE call.phase = "set"
    <3>1. ASSUME ~torn' PROVE \A d \in Before(call.next) : Settled(d, call.lock)'
      BY <1>0, <1>1, <1>13, <2>2, <3>1, SetStateNotify
    <3>2. QED BY <1>0, <2>1, <2>2, <3>1 DEF SettledInv
  <2>3. CASE call.phase # "set" /\ Head(pending[e]) # physicalState
    <3>1. \A d \in Listed : Settled(d, physicalState)'
      BY <1>0, <1>13, <2>3, NotifyTells
    <3>2. QED BY <1>0, <1>2, <2>1, <2>3, <3>1 DEF SettledInv
  <2>4. CASE call.phase # "set" /\ Head(pending[e]) = physicalState
    <3>1. torn' = torn /\ physicalState' = physicalState
      BY <1>0, <1>13, <2>4 DEF KeyNotify, TypeOK
    <3>2. ASSUME NEW d \in Dev, Settled(d, physicalState)
          PROVE  Settled(d, physicalState)'
      <4> DEFINE state == physicalState
      <4>1. state' = state /\ state = Head(pending[e])
        BY <2>4, <3>1
      <4> HIDE DEF state
      <4>2. Settled(d, state)'
        BY <1>0, <1>13, <2>4, <3>2, <4>1, NotifyQuiet DEF state
      <4>3. QED BY <4>2 DEF state
    <3>3. QED BY <1>0, <1>1, <1>2, <2>1, <2>4, <3>1, <3>2 DEF SettledInv
  <2>5. QED BY <2>2, <2>3, <2>4
<1>14. ASSUME NEW e \in Dev, NEW lock \in Locks, Press(e, lock) PROVE SettledInv'
  <2>1. /\ UNCHANGED <<textInExList, call, torn, physicalState>> /\ Listed' = Listed
        /\ Before(call.next)' = Before(call.next)
        /\ Before(Len(textInExList))' = Before(Len(textInExList))
    BY <1>14 DEF Press, Listed, Before
  <2>2. ASSUME NEW d \in Dev, NEW state, Settled(d, state)
        PROVE  Settled(d, state)'
    BY <1>0, <1>14, <2>2, PressSettled
  <2>3. ASSUME NEW d \in Dev, Settled(d, physicalState)
        PROVE  Settled(d, physicalState)'
    BY <1>0, <1>14, <2>1, <2>3, PressSettled DEF Settled
  <2>4. ASSUME NEW d \in Dev, Settled(d, call.lock)
        PROVE  Settled(d, call.lock)'
    BY <1>0, <1>14, <2>1, <2>4, PressSettled DEF Settled
  <2>5. QED BY <1>0, <1>1, <1>2, <2>1, <2>3, <2>4 DEF SettledInv
<1>15. CASE UNCHANGED vars
  BY <1>0, <1>1, <1>15 DEF vars, SettledInv, Listed, Before, Settled
<1>16. QED
  BY <1>3, <1>4, <1>5, <1>6, <1>7, <1>8, <1>9, <1>10, <1>11, <1>12, <1>13, <1>14,
     <1>15 DEF Next, Splitter, Keyboards

(* The keyboards have settled, in every phase of every call.                 *)
THEOREM KeyboardsSettle == Spec => []SettledInv
  BY SettledInit, SettledNext, PTL DEF Spec

(* Whatever interrupts what, a quiet splitter whose last SetState was not    *)
(* torn has all its keyboards in the recorded toggle state.                  *)
THEOREM QuietIsSynced == Spec => []SyncedUnlessTorn
<1>1. SettledInv => SyncedUnlessTorn
  BY DEF SettledInv, SyncedUnlessTorn, Quiet, InSync, Settled
<1>2. QED BY <1>1, KeyboardsSettle, PTL

=============================================================================
