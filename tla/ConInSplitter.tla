---------------------------- MODULE ConInSplitter ----------------------------
(***************************************************************************)
(* The console-input half of Drivers/ConSplitterDxe: the virtual keyboard   *)
(* mConIn (TEXT_IN_SPLITTER_PRIVATE_DATA) that aggregates every physical    *)
(* keyboard, the two device lists, the key-notify list with one handle per  *)
(* device, the key queue and the toggle-state synchronisation.              *)
(*                                                                          *)
(* One action is one call of a protocol or driver-binding function, run to  *)
(* its end.  (Key notifications that preempt such a call at a higher TPL    *)
(* are the subject of module ToggleSync.)  A call the code makes on a       *)
(* physical keyboard is modelled by what the keyboard does with it: the     *)
(* keyboards are not part of the package and are external.                  *)
(***************************************************************************)
EXTENDS Integers, Sequences, FiniteSets, SequencesExt, DeviceLists

CONSTANTS
  Dev,             \* handles that carry gEfiConsoleInDeviceGuid
  HasTextIn,       \* ... on which SimpleTextInput is installed
  HasEx,           \* ... on which SimpleTextInputEx is installed too
  Flaky,           \* keyboards whose calls may fail
  NotifyIds,       \* (key data, function) pairs that can be registered
  ToggleNotify,    \* the pair of ToggleStateSyncInitialization
  Covered,         \* <<m, n>>: IsKeyRegistered (m, n) and the same function
  NoHandle,        \* a NULL device notify handle
  Locks,           \* values of the toggle bits (Caps/Num/Scroll lock)
  NoLock,          \* all toggle bits clear
  CallerStates,    \* EFI_KEY_TOGGLE_STATE values SetState is called with
  AllocUnit,       \* CONSOLE_SPLITTER_ALLOC_UNIT
  MayRunOut,       \* whether a pool allocation may fail
  ConnectOnDemand, \* PcdConInConnectOnDemand
  MaxKeys          \* bound: keystrokes typed on each keyboard

ASSUME DevAssumption     == /\ IsFiniteSet(Dev)
                            /\ HasEx \subseteq HasTextIn
                            /\ HasTextIn \subseteq Dev
                            /\ Flaky \subseteq Dev
ASSUME NotifyAssumption  == /\ ToggleNotify \in NotifyIds
                            /\ Covered \subseteq NotifyIds \X NotifyIds
                            /\ \A n \in NotifyIds : <<n, n>> \in Covered
ASSUME LockAssumption    == /\ NoLock \in Locks
                            /\ CallerStates \subseteq
                                 [lock : Locks, valid : BOOLEAN, exposed : BOOLEAN]
ASSUME AllocAssumption   == AllocUnit \in Nat \ {0}
ASSUME SwitchAssumption  == MayRunOut \in BOOLEAN /\ ConnectOnDemand \in BOOLEAN
ASSUME KeysAssumption    == MaxKeys \in Nat
ASSUME HandleAssumption  == NoHandle \notin (Dev \X NotifyIds) \cup NotifyIds

Handle      == Dev \X NotifyIds          \* what a keyboard returns when it registers
PhysState   == [lock : Locks, valid : BOOLEAN]
Key         == [dev : Dev, num : 1..MaxKeys, part : BOOLEAN]

VARIABLES
  opened,              \* devices whose ConsoleInDevice guid is open BY_DRIVER
  textInList,          \* TextInList[0 .. CurrentNumberOfConsoles-1]
  textInListCount,     \* TextInListCount, the slots allocated
  textInExList,        \* TextInExList[0 .. CurrentNumberOfExConsoles-1]
  textInExListCount,   \* TextInExListCount
  notifyList,          \* NotifyList
  handles,             \* NotifyHandleList of each listed notify, all its slots
  held,                \* the handle each client was given for a pair
  keyQueue,            \* KeyQueue[0 .. CurrentNumberOfKeys-1]
  keyQueueSize,        \* slots allocated to KeyQueue
  keyPeak,             \* slots the last ReadKeyStrokeEx used at its fullest
  physicalState,       \* PhysicalKeyToggleState (its EXPOSED bit is always set)
  virtualExported,     \* VirtualKeyStateExported
  keyEventSignal,      \* KeyEventSignalState
  conInIsConnect,      \* mConInIsConnect
  \* the keyboards (external)
  regs,                \* notifies each keyboard has registered
  toggle,              \* each keyboard's toggle bits
  exposed,             \* whether each keyboard reports partial keystrokes
  devKeys,             \* keystrokes waiting in each keyboard
  typed,               \* keystrokes typed so far on each keyboard
  \* history, for the properties
  got,                 \* the last keystroke of each keyboard that was returned
  shifted,             \* devices whose index in TextInExList has changed
  ret                  \* the last call, what it was about, whether it succeeded

consoleVars == <<opened, textInList, textInListCount>>
exVars      == <<textInExList, textInExListCount, shifted>>
notifyVars  == <<notifyList, handles, held, regs>>
queueVars   == <<keyQueue, keyQueueSize, keyPeak>>
stateVars   == <<physicalState, virtualExported, toggle, exposed>>
eventVars   == <<keyEventSignal, conInIsConnect>>
keyVars     == <<devKeys, typed, got>>
vars        == <<consoleVars, exVars, notifyVars, queueVars, stateVars,
                 eventVars, keyVars, ret>>

ExDevs   == Elems(textInExList)
TextDevs == Elems(textInList)
Live     == Elems(notifyList)

Returns(op, arg, ok) == ret' = [op |-> op, arg |-> arg, ok |-> ok]

(* A keyboard refuses a toggle state without TOGGLE_STATE_VALID, and a       *)
(* flaky one may refuse any.                                                 *)
Refusing(state, F) == IF state.valid THEN F ELSE Dev

(* EFI_SIMPLE_TEXT_INPUT_EX.SetState (state | EXPOSED) on the devices of D.  *)
ToggleAfter(D, lock)  == [d \in Dev |-> IF d \in D THEN lock ELSE toggle[d]]
ExposedAfter(D)       == [d \in Dev |-> d \in D \/ exposed[d]]

-----------------------------------------------------------------------------
(* The loops that register notifies on keyboards, and those that undo it.    *)
(* st is what the loop changes: the registrations of the keyboards and the   *)
(* handle lists.  A place is where one round of a loop is: the keyboard, the *)
(* notify, and the slot of the notify's handle list.                         *)

(* A keyboard that registers a notify gives a handle for it.                 *)
RegisterAt(st, p) ==
  [regs    |-> [st.regs EXCEPT ![p.dev] = @ \cup {p.notify}],
   handles |-> [st.handles EXCEPT ![p.notify] =
                  [@ EXCEPT ![p.slot] = <<p.dev, p.notify>>]]]

(* A keyboard refuses a handle that it did not give for the notify, and the  *)
(* status is not looked at.                                                  *)
UnregisterAt(st, p) ==
  [regs    |-> [st.regs EXCEPT ![p.dev] =
                  IF st.handles[p.notify][p.slot] = <<p.dev, p.notify>>
                  THEN @ \ {p.notify} ELSE @],
   handles |-> st.handles]

Registered(st, places)   == FoldLeft(RegisterAt, st, places)
Unregistered(st, places) == FoldLeft(UnregisterAt, st, places)

(* Fault: the loop that walks back stops at the first registration.          *)
WalkedBackShort(st, places) == Unregistered(st, Reverse(SubSeq(places, 2, Len(places))))

(* A registration was refused: those before it are undone, the last first.   *)
WalkedBack(st, places) == Unregistered(st, Reverse(places))

-----------------------------------------------------------------------------
(* ConSplitterTextInConstructor and ToggleStateSyncInitialization.           *)
InitRegistry ==
  /\ opened = {} /\ textInList = <<>> /\ textInListCount = AllocUnit
  /\ textInExList = <<>> /\ textInExListCount = AllocUnit /\ shifted = {}
  /\ notifyList = <<ToggleNotify>>
  /\ handles = [n \in NotifyIds |-> IF n = ToggleNotify
                                    THEN [i \in 1..AllocUnit |-> NoHandle]
                                    ELSE <<>>]
  /\ held = [n \in NotifyIds |-> NoHandle]
  /\ regs = [d \in Dev |-> {}]
  /\ keyQueueSize = AllocUnit /\ keyPeak = 0

InitState ==
  /\ physicalState = [lock |-> NoLock, valid |-> TRUE]
  /\ virtualExported = FALSE /\ keyEventSignal = FALSE /\ conInIsConnect = FALSE
  /\ toggle = [d \in Dev |-> NoLock] /\ exposed = [d \in Dev |-> FALSE]

InitKeys ==
  /\ keyQueue = <<>>
  /\ devKeys = [d \in Dev |-> <<>>]
  /\ typed = [d \in Dev |-> 0] /\ got = [d \in Dev |-> 0]

Init ==
  /\ InitRegistry /\ InitState /\ InitKeys
  /\ ret = [op |-> "Init", arg |-> NoHandle, ok |-> TRUE]

-----------------------------------------------------------------------------
(* ConSplitterConInDriverBindingStart                                        *)

(* ConSplitterStart fails: the guid is already open BY_DRIVER, or there is   *)
(* no SimpleTextInput and what was opened is closed again.                   *)
StartRefused(d) ==
  /\ d \in opened \/ d \notin HasTextIn
  /\ Returns("Start", NoHandle, FALSE)
  /\ UNCHANGED <<consoleVars, exVars, notifyVars, queueVars, stateVars,
                 eventVars, keyVars>>

(* ConSplitterTextInAddDevice cannot grow TextInList; the opens stay.        *)
StartNoMemory(d) ==
  /\ d \in HasTextIn \ opened
  /\ MayRunOut /\ Len(textInList) >= textInListCount
  /\ opened' = opened \cup {d}
  /\ Returns("Start", NoHandle, FALSE)
  /\ UNCHANGED <<textInList, textInListCount, exVars, notifyVars, queueVars,
                 stateVars, eventVars, keyVars>>

(* ConSplitterTextInAddDevice succeeds.                                      *)
TextInAddDevice(d) ==
  /\ d \in HasTextIn \ opened
  /\ opened' = opened \cup {d}
  /\ textInList' = Append(textInList, d)
  /\ textInListCount' = GrownCount(textInList, textInListCount, AllocUnit)

(* No SimpleTextInputEx: the status of that OpenProtocol is returned.        *)
StartPlain(d) ==
  /\ d \notin HasEx
  /\ TextInAddDevice(d)
  /\ Returns("Start", NoHandle, FALSE)
  /\ UNCHANGED <<exVars, notifyVars, queueVars, stateVars, eventVars, keyVars>>

ExListFull == Len(textInExList) >= textInExListCount

(* ConSplitterGrowBuffer on one NotifyHandleList.                            *)
Regrown(h) == [i \in 1..textInExListCount + AllocUnit |->
                 IF i <= textInExListCount THEN h[i] ELSE NoHandle]

(* Fault: the growing loop stops one notify short.                           *)
HandlesGrownShort(k) ==
  [n \in NotifyIds |-> IF \E i \in 1..k - 1 : notifyList[i] = n
                       THEN Regrown(handles[n]) ELSE handles[n]]

(* The handle lists after the growing loop has passed the first k notifies.  *)
HandlesGrown(k) ==
  [n \in NotifyIds |-> IF \E i \in 1..k : notifyList[i] = n
                       THEN Regrown(handles[n]) ELSE handles[n]]

(* The growth fails after k handle lists, before or after the key queue.     *)
StartExNoMemory(d) ==
  /\ d \in HasEx /\ MayRunOut /\ ExListFull
  /\ TextInAddDevice(d)
  /\ \E k \in 0..Len(notifyList) :
       /\ handles' = HandlesGrown(k)
       /\ keyQueueSize' \in IF k = Len(notifyList)
                            THEN {keyQueueSize, textInExListCount + AllocUnit}
                            ELSE {keyQueueSize}
  /\ Returns("Start", NoHandle, FALSE)
  /\ UNCHANGED <<exVars, notifyList, held, regs, keyQueue, keyPeak, stateVars,
                 eventVars, keyVars>>

(* Fault: the key queue is not grown with the device list.                   *)
GrowExListsNoQueue ==
  /\ textInExListCount' = GrownCount(textInExList, textInExListCount, AllocUnit)
  /\ keyQueueSize' = keyQueueSize

GrowExLists ==
  /\ textInExListCount' = GrownCount(textInExList, textInExListCount, AllocUnit)
  /\ keyQueueSize' = IF ExListFull THEN textInExListCount + AllocUnit
                                   ELSE keyQueueSize

HandlesBeforeAdd == IF ExListFull THEN HandlesGrown(Len(notifyList)) ELSE handles

(* The rounds for a new device, whose slot is behind those in use.           *)
AtDevice(d) == [i \in 1..Len(notifyList) |->
                  [dev |-> d, notify |-> notifyList[i], slot |-> Len(textInExList) + 1]]

BeforeAdd == [regs |-> regs, handles |-> HandlesBeforeAdd]

(* The k-th registration on the new keyboard fails: the earlier ones are     *)
(* undone and the device is not listed.                                      *)
StartExRegisterFails(d) ==
  /\ d \in HasEx \cap Flaky
  /\ TextInAddDevice(d)
  /\ GrowExLists
  /\ \E k \in 1..Len(notifyList) :
       LET done == SubSeq(AtDevice(d), 1, k - 1)
           st   == Registered(BeforeAdd, done)
       IN  /\ regs' = WalkedBack(st, done).regs
           /\ handles' = st.handles
  /\ Returns("Start", NoHandle, FALSE)
  /\ UNCHANGED <<textInExList, shifted, notifyList, held, keyQueue, keyPeak,
                 stateVars, eventVars, keyVars>>

(* The rounds of StartEx, and the device is listed.                          *)
ExDeviceAdded(d, places) ==
  LET st == Registered(BeforeAdd, places)
  IN  /\ regs' = st.regs /\ handles' = st.handles
      /\ textInExList' = Append(textInExList, d)
      /\ shifted' = shifted \ {d}

(* Fault: the last notify of the list is not registered on the new device.   *)
StartExSkipsLast(d) ==
  /\ d \in HasEx
  /\ TextInAddDevice(d)
  /\ GrowExLists
  /\ ExDeviceAdded(d, SubSeq(AtDevice(d), 1, Len(notifyList) - 1))
  /\ Returns("Start", NoHandle, TRUE)
  /\ UNCHANGED <<notifyList, held, keyQueue, keyPeak, stateVars, eventVars, keyVars>>

(* Fault: the new device does not get the current toggle state.              *)
StartExNoSync(d) ==
  /\ d \in HasEx
  /\ TextInAddDevice(d)
  /\ GrowExLists
  /\ ExDeviceAdded(d, AtDevice(d))
  /\ Returns("Start", NoHandle, TRUE)
  /\ UNCHANGED <<notifyList, held, keyQueue, keyPeak, stateVars, eventVars, keyVars>>

(* The device is registered, listed and given the current toggle state; the  *)
(* status of that SetState is not looked at.                                 *)
StartEx(d) ==
  /\ d \in HasEx
  /\ TextInAddDevice(d)
  /\ GrowExLists
  /\ ExDeviceAdded(d, AtDevice(d))
  /\ \E F \in SUBSET Flaky :
       LET D == {d} \ Refusing(physicalState, F)
       IN  /\ toggle' = ToggleAfter(D, physicalState.lock)
           /\ exposed' = ExposedAfter(D)
  /\ Returns("Start", NoHandle, TRUE)
  /\ UNCHANGED <<notifyList, held, keyQueue, keyPeak, physicalState,
                 virtualExported, eventVars, keyVars>>

Start(d) == \/ StartRefused(d) \/ StartNoMemory(d) \/ StartPlain(d)
            \/ StartExNoMemory(d) \/ StartExRegisterFails(d) \/ StartEx(d)

-----------------------------------------------------------------------------
(* ConSplitterConInDriverBindingStop with a child; DisconnectController      *)
(* calls it for devices the driver has open.                                 *)

(* ConSplitterTextInExDeleteDevice does not find the device.                 *)
StopNotFound(d) ==
  /\ d \in opened \cap HasEx /\ d \notin ExDevs
  /\ Returns("Stop", NoHandle, FALSE)
  /\ UNCHANGED <<consoleVars, exVars, notifyVars, queueVars, stateVars,
                 eventVars, keyVars>>

TextInExDeleteDevice(d) ==
  LET i == IndexOf(textInExList, d)
  IN  /\ textInExList' = Deleted(textInExList, i)
      /\ shifted' = (shifted \ {d}) \cup
                      {textInExList[j] : j \in i + 1..Len(textInExList)}
      /\ UNCHANGED textInExListCount

(* The device leaves TextInExList, its opens are closed, then it leaves      *)
(* TextInList; if it was not there the last status is EFI_NOT_FOUND.         *)
Stop(d) ==
  /\ d \in opened
  /\ d \in HasEx => d \in ExDevs
  /\ IF d \in HasEx THEN TextInExDeleteDevice(d) ELSE UNCHANGED exVars
  /\ opened' = opened \ {d}
  /\ textInList' = IF d \in TextDevs
                   THEN Deleted(textInList, IndexOf(textInList, d))
                   ELSE textInList
  /\ UNCHANGED textInListCount
  /\ Returns("Stop", NoHandle, d \in TextDevs)
  /\ UNCHANGED <<notifyVars, queueVars, stateVars, eventVars, keyVars>>

-----------------------------------------------------------------------------
(* ConSplitterTextInRegisterKeyNotify, called by a client for the pair n.    *)

(* A listed pair that covers n: its handle is returned.                      *)
RegisterKnown(n) ==
  /\ \E m \in Live : <<m, n>> \in Covered
  /\ LET first == CHOOSE i \in DOMAIN notifyList :
                    /\ <<notifyList[i], n>> \in Covered
                    /\ \A j \in 1..i - 1 : <<notifyList[j], n>> \notin Covered
     IN  held' = [held EXCEPT ![n] = notifyList[first]]
  /\ Returns("Register", NoHandle, TRUE)
  /\ UNCHANGED <<notifyList, handles, regs>>

RegisterNoMemory(n) ==
  /\ MayRunOut
  /\ \A m \in Live : <<m, n>> \notin Covered
  /\ Returns("Register", NoHandle, FALSE)
  /\ UNCHANGED notifyVars

(* The rounds over the listed keyboards for one notify.                      *)
AtKeyboards(n) == [i \in 1..Len(textInExList) |->
                     [dev |-> textInExList[i], notify |-> n, slot |-> i]]

(* NewNotify has a handle list of its own, all clear.                        *)
WithNewList(n) ==
  [regs |-> regs,
   handles |-> [handles EXCEPT ![n] = [i \in 1..textInExListCount |-> NoHandle]]]

(* The k-th keyboard refuses: the earlier registrations are undone and       *)
(* NewNotify is freed.                                                       *)
RegisterFails(n) ==
  /\ \A m \in Live : <<m, n>> \notin Covered
  /\ \E k \in DOMAIN textInExList :
       /\ textInExList[k] \in Flaky
       /\ LET done == SubSeq(AtKeyboards(n), 1, k - 1)
          IN  regs' = WalkedBack(Registered(WithNewList(n), done), done).regs
  /\ Returns("Register", NoHandle, FALSE)
  /\ UNCHANGED <<notifyList, handles, held>>

RegisterNew(n) ==
  /\ \A m \in Live : <<m, n>> \notin Covered
  /\ LET st == Registered(WithNewList(n), AtKeyboards(n))
     IN  regs' = st.regs /\ handles' = st.handles
  /\ notifyList' = Append(notifyList, n)
  /\ held' = [held EXCEPT ![n] = n]
  /\ Returns("Register", NoHandle, TRUE)

RegisterKeyNotify(n) ==
  /\ n # ToggleNotify
  /\ \/ RegisterKnown(n) \/ RegisterNoMemory(n)
     \/ RegisterFails(n) \/ RegisterNew(n)
  /\ UNCHANGED <<consoleVars, exVars, queueVars, stateVars, eventVars, keyVars>>

(* Fault: the loop over the keyboards starts at the second one.              *)
UnregisterSkipsFirst(n) ==
  LET m == held[n]
      st == [regs |-> regs, handles |-> handles]
  IN  /\ m # NoHandle
      /\ held' = [held EXCEPT ![n] = NoHandle]
      /\ m \in Live
      /\ regs' = Unregistered(st, SubSeq(AtKeyboards(m), 2, Len(textInExList))).regs
      /\ notifyList' = Deleted(notifyList, IndexOf(notifyList, m))
      /\ handles' = [handles EXCEPT ![m] = <<>>]
      /\ Returns("Unregister", m, TRUE)
      /\ UNCHANGED <<consoleVars, exVars, queueVars, stateVars, eventVars, keyVars>>

(* ConSplitterTextInUnregisterKeyNotify with the handle the client of n      *)
(* holds.                                                                    *)
UnregisterKeyNotify(n) ==
  LET m  == held[n]
      st == [regs |-> regs, handles |-> handles]
  IN  /\ m # NoHandle
      /\ held' = [held EXCEPT ![n] = NoHandle]
      /\ \/ /\ m \in Live
            /\ regs' = Unregistered(st, AtKeyboards(m)).regs
            /\ notifyList' = Deleted(notifyList, IndexOf(notifyList, m))
            /\ handles' = [handles EXCEPT ![m] = <<>>]
         \/ /\ m \notin Live
            /\ UNCHANGED <<notifyList, handles, regs>>
      /\ Returns("Unregister", m, m \in Live)
      /\ UNCHANGED <<consoleVars, exVars, queueVars, stateVars, eventVars, keyVars>>

-----------------------------------------------------------------------------
(* Reading keys                                                              *)

(* The first call signals ConnectConInEvent in lazy ConIn mode.              *)
ReadPrologue ==
  /\ keyEventSignal' = FALSE
  /\ conInIsConnect' = (conInIsConnect \/ ConnectOnDemand)

Full(k) == ~k.part

Delivered(k) == got' = [got EXCEPT ![k.dev] = k.num]

(* The index of the first keystroke of s that is not partial, or Len(s) + 1. *)
FirstFull(s) ==
  CHOOSE i \in 1..Len(s) + 1 :
    /\ i <= Len(s) => Full(s[i])
    /\ \A j \in 1..i - 1 : ~Full(s[j])

(* ConSplitterTextInPrivateReadKeyStroke: the queue gives the key; partial   *)
(* keystrokes before it are discarded.                                       *)
ReadQueued ==
  LET i == FirstFull(keyQueue)
  IN  /\ i <= Len(keyQueue)
      /\ Delivered(keyQueue[i])
      /\ keyQueue' = SubSeq(keyQueue, i + 1, Len(keyQueue))
      /\ UNCHANGED devKeys
      /\ Returns("Read", NoHandle, TRUE)

(* The queue is emptied and the keyboards are read in list order until one   *)
(* gives a full keystroke; a failing keyboard (in F) is passed over.         *)
ReadDevices(F) ==
  LET has(j) == /\ textInList[j] \notin F
                /\ \E k \in Elems(devKeys[textInList[j]]) : Full(k)
      last == CHOOSE i \in 1..Len(textInList) + 1 :
                /\ i <= Len(textInList) => has(i)
                /\ \A j \in 1..i - 1 : ~has(j)
      drained == {textInList[j] : j \in 1..last - 1} \ F
  IN  /\ FirstFull(keyQueue) > Len(keyQueue)
      /\ keyQueue' = <<>>
      /\ IF last <= Len(textInList)
         THEN LET src == textInList[last]
                  i   == FirstFull(devKeys[src])
              IN  /\ Delivered(devKeys[src][i])
                  /\ devKeys' = [d \in Dev |->
                       IF d \in drained THEN <<>>
                       ELSE IF d = src
                            THEN SubSeq(devKeys[d], i + 1, Len(devKeys[d]))
                            ELSE devKeys[d]]
                  /\ Returns("Read", NoHandle, TRUE)
         ELSE /\ devKeys' = [d \in Dev |-> IF d \in drained THEN <<>> ELSE devKeys[d]]
              /\ Returns("Read", NoHandle, FALSE)
              /\ UNCHANGED got

(* Fault: the keyboards are read without looking at the queue first, which   *)
(* is emptied all the same.                                                  *)
ReadKeyStrokeNoQueue ==
  /\ ReadPrologue
  /\ keyQueue' = <<>>
  /\ devKeys' = [d \in Dev |-> IF textInList # <<>> /\ d = textInList[1] /\ devKeys[d] # <<>>
                               THEN Tail(devKeys[d]) ELSE devKeys[d]]
  /\ IF textInList # <<>> /\ devKeys[textInList[1]] # <<>>
     THEN Delivered(Head(devKeys[textInList[1]])) ELSE UNCHANGED got
  /\ Returns("Read", NoHandle, TRUE)
  /\ UNCHANGED <<consoleVars, exVars, notifyVars, keyQueueSize, keyPeak,
                 stateVars, typed>>

ReadKeyStroke ==
  /\ ReadPrologue
  /\ \/ ReadQueued
     \/ \E F \in SUBSET Flaky : ReadDevices(F)
  /\ UNCHANGED <<consoleVars, exVars, notifyVars, keyQueueSize, keyPeak,
                 stateVars, typed>>

(* ConSplitterTextInReadKeyStrokeEx with a saved key.                        *)
ReadExQueued ==
  /\ keyQueue # <<>>
  /\ Delivered(Head(keyQueue))
  /\ keyQueue' = Tail(keyQueue)
  /\ Returns("ReadEx", NoHandle, TRUE)
  /\ UNCHANGED <<keyPeak, devKeys>>

(* The member of the set of indexes I that has k - 1 members below it.       *)
Nth(I, k) == CHOOSE i \in I : Cardinality({j \in I : j < i}) = k - 1

(* Fault: the keystroke that is returned stays in the queue.                 *)
ReadExDevicesKeepsHead(F) ==
  LET answering == {i \in DOMAIN textInExList :
                      textInExList[i] \notin F /\ devKeys[textInExList[i]] # <<>>}
      key(i) == Head(devKeys[textInExList[i]])
      queued == {i \in answering : virtualExported \/ Full(key(i))}
      batch  == [k \in 1..Cardinality(queued) |-> key(Nth(queued, k))]
      read   == {textInExList[i] : i \in answering}
  IN  /\ keyQueue = <<>> /\ batch # <<>>
      /\ devKeys' = [d \in Dev |-> IF d \in read THEN Tail(devKeys[d])
                                                 ELSE devKeys[d]]
      /\ keyPeak' = Len(batch)
      /\ Delivered(Head(batch))
      /\ keyQueue' = batch
      /\ Returns("ReadEx", NoHandle, TRUE)

(* With an empty queue every keyboard is read once.  A keystroke is queued   *)
(* unless it is partial and the client did not ask for those; then the first *)
(* of the queue is returned.                                                 *)
ReadExDevices(F) ==
  LET answering == {i \in DOMAIN textInExList :
                      textInExList[i] \notin F /\ devKeys[textInExList[i]] # <<>>}
      key(i) == Head(devKeys[textInExList[i]])
      queued == {i \in answering : virtualExported \/ Full(key(i))}
      batch  == [k \in 1..Cardinality(queued) |-> key(Nth(queued, k))]
      read   == {textInExList[i] : i \in answering}
  IN  /\ keyQueue = <<>>
      /\ devKeys' = [d \in Dev |-> IF d \in read THEN Tail(devKeys[d])
                                                 ELSE devKeys[d]]
      /\ keyPeak' = Len(batch)
      /\ IF batch = <<>>
         THEN UNCHANGED <<got, keyQueue>> /\ Returns("ReadEx", NoHandle, FALSE)
         ELSE /\ Delivered(Head(batch))
              /\ keyQueue' = Tail(batch)
              /\ Returns("ReadEx", NoHandle, TRUE)

ReadKeyStrokeEx ==
  /\ ReadPrologue
  /\ ReadExQueued \/ \E F \in SUBSET Flaky : ReadExDevices(F)
  /\ UNCHANGED <<consoleVars, exVars, notifyVars, keyQueueSize, stateVars, typed>>

(* Fault: only the first keyboard is looked at.                              *)
WaitForFirstKey ==
  /\ keyEventSignal' = \/ keyEventSignal
                       \/ textInList # <<>> /\ devKeys[textInList[1]] # <<>>
  /\ Returns("Wait", NoHandle, keyEventSignal')
  /\ UNCHANGED <<consoleVars, exVars, notifyVars, queueVars, stateVars,
                 conInIsConnect, keyVars>>

(* ConSplitterTextInWaitForKey, the notify function of both wait events: ok  *)
(* tells whether it signals the event.                                       *)
WaitForKey ==
  /\ keyEventSignal' = (keyEventSignal \/ \E d \in TextDevs : devKeys[d] # <<>>)
  /\ Returns("Wait", NoHandle, keyEventSignal')
  /\ UNCHANGED <<consoleVars, exVars, notifyVars, queueVars, stateVars,
                 conInIsConnect, keyVars>>

-----------------------------------------------------------------------------
(* Toggle state                                                              *)

(* ConSplitterTextInReset and ConSplitterTextInResetEx, on the devices D.  A *)
(* keyboard that resets forgets its toggle bits, its partial key reports and *)
(* its keystrokes; only if all of them did does the virtual device follow    *)
(* (ToggleStateSyncReInitialization and the emptied queue).                  *)
ResetDevices(D) ==
  \E F \in SUBSET Flaky, G \in SUBSET Flaky :
    LET done == D \ F
        told == ExDevs \ G
    IN  /\ keyEventSignal' = FALSE
        /\ devKeys' = [d \in Dev |-> IF d \in done THEN <<>> ELSE devKeys[d]]
        /\ IF D \cap F # {}
           THEN /\ toggle' = ToggleAfter(done, NoLock)
                /\ exposed' = [d \in Dev |-> exposed[d] /\ d \notin done]
                /\ UNCHANGED <<physicalState, virtualExported, keyQueue>>
           ELSE /\ physicalState' = [lock |-> NoLock, valid |-> TRUE]
                /\ virtualExported' = FALSE
                /\ toggle' = ToggleAfter(done \cup told, NoLock)
                /\ exposed' = [d \in Dev |-> \/ d \in told
                                             \/ exposed[d] /\ d \notin done]
                /\ keyQueue' = <<>>
        /\ Returns("Reset", NoHandle, D \cap F = {})

Reset   == ResetDevices(TextDevs)
ResetEx == ResetDevices(ExDevs)

ResetEither ==
  /\ Reset \/ ResetEx
  /\ UNCHANGED <<consoleVars, exVars, notifyVars, keyQueueSize, keyPeak,
                 conInIsConnect, typed, got>>

(* ConSplitterTextInSetState: the first keyboard that refuses ends the call; *)
(* those before it keep the new state.                                       *)
SetState(caller) ==
  /\ \E F \in SUBSET Flaky :
       LET refusing == {i \in DOMAIN textInExList :
                          textInExList[i] \in Refusing(caller, F)}
           told == {textInExList[i] : i \in
                     {j \in DOMAIN textInExList : \A r \in refusing : j < r}}
       IN  /\ toggle' = ToggleAfter(told, caller.lock)
           /\ exposed' = ExposedAfter(told)
           /\ IF refusing = {}
              THEN /\ physicalState' = [lock |-> caller.lock, valid |-> caller.valid]
                   /\ virtualExported' = caller.exposed
              ELSE UNCHANGED <<physicalState, virtualExported>>
           /\ Returns("SetState", NoHandle, refusing = {})
  /\ UNCHANGED <<consoleVars, exVars, notifyVars, queueVars, eventVars, keyVars>>

-----------------------------------------------------------------------------
(* The keyboards (external)                                                  *)

(* A keystroke; a partial one is reported only when the keyboard was told to.*)
PressKey(d) ==
  /\ d \in HasTextIn /\ typed[d] < MaxKeys
  /\ \E part \in {FALSE} \cup (IF exposed[d] THEN {TRUE} ELSE {}) :
       devKeys' = [devKeys EXCEPT ![d] =
                     Append(@, [dev |-> d, num |-> typed[d] + 1, part |-> part])]
  /\ typed' = [typed EXCEPT ![d] = @ + 1]
  /\ Returns("Type", NoHandle, TRUE)
  /\ UNCHANGED <<consoleVars, exVars, notifyVars, queueVars, stateVars,
                 eventVars, got>>

(* A lock key.  The partial keystroke it makes, if the keyboard reports      *)
(* those, runs ToggleStateSyncKeyNotify where that is registered; the state  *)
(* it carries has TOGGLE_STATE_VALID and KEY_STATE_EXPOSED set.              *)
PressLock(d, lock) ==
  /\ d \in HasEx /\ toggle[d] # lock
  /\ LET state == [lock |-> lock, valid |-> TRUE]
     IN  IF exposed[d] /\ ToggleNotify \in regs[d] /\ state # physicalState
         THEN /\ \E F \in SUBSET Flaky :
                   /\ toggle' = ToggleAfter({d} \cup (ExDevs \ F), lock)
                   /\ exposed' = ExposedAfter(ExDevs \ F)
              /\ physicalState' = state
         ELSE /\ toggle' = ToggleAfter({d}, lock)
              /\ UNCHANGED <<exposed, physicalState>>
  /\ Returns("Type", NoHandle, TRUE)
  /\ UNCHANGED <<consoleVars, exVars, notifyVars, queueVars, virtualExported,
                 eventVars, keyVars>>

(* A keyboard no driver has open is unplugged and its handle reused.         *)
Replug(d) ==
  /\ d \notin opened
  /\ regs' = [regs EXCEPT ![d] = {}]
  /\ toggle' = ToggleAfter({d}, NoLock)
  /\ exposed' = [exposed EXCEPT ![d] = FALSE]
  /\ devKeys' = [devKeys EXCEPT ![d] = <<>>]
  /\ Returns("Replug", NoHandle, TRUE)
  /\ UNCHANGED <<consoleVars, exVars, notifyList, handles, held, queueVars,
                 physicalState, virtualExported, eventVars, typed, got>>

-----------------------------------------------------------------------------
Next ==
  \/ \E d \in Dev : \/ Start(d) \/ StopNotFound(d) \/ Stop(d)
                    \/ PressKey(d) \/ Replug(d)
                    \/ \E lock \in Locks : PressLock(d, lock)
  \/ \E n \in NotifyIds : RegisterKeyNotify(n) \/ UnregisterKeyNotify(n)
  \/ ReadKeyStroke \/ ReadKeyStrokeEx \/ WaitForKey \/ ResetEither
  \/ \E caller \in CallerStates : SetState(caller)

Spec == Init /\ [][Next]_vars

-----------------------------------------------------------------------------
(* Properties                                                                *)

(* The types of the device and notify registry.                              *)
RegistryTypeOK ==
  /\ opened \in SUBSET Dev
  /\ textInList \in Seq(Dev) /\ textInListCount \in Nat
  /\ textInExList \in Seq(Dev) /\ textInExListCount \in Nat
  /\ shifted \in SUBSET Dev
  /\ notifyList \in Seq(NotifyIds)
  /\ handles \in [NotifyIds -> Seq(Handle \cup {NoHandle})]
  /\ held \in [NotifyIds -> NotifyIds \cup {NoHandle}]
  /\ regs \in [Dev -> SUBSET NotifyIds]
  /\ keyQueueSize \in Nat /\ keyPeak \in Nat

(* The lists hold no device twice, and only devices the driver still has     *)
(* open: a device that was closed, whose memory its driver may free, is in   *)
(* neither list, whichever of the Start and Stop steps failed before.        *)
ListedDevicesAreOpen ==
  /\ Distinct(textInList) /\ Distinct(textInExList)
  /\ TextDevs \subseteq opened \cap HasTextIn
  /\ ExDevs \subseteq TextDevs \cap HasEx

(* The arrays are grown together: every index the code uses is inside every  *)
(* array, also after a growth that failed half way through.                  *)
NoOverrun ==
  /\ Len(textInList) <= textInListCount
  /\ Len(textInExList) <= textInExListCount
  /\ \A n \in Live : Len(handles[n]) >= textInExListCount
  /\ keyPeak <= keyQueueSize

(* A key notify that the virtual keyboard reports as registered is           *)
(* registered on every keyboard in the list, whenever either was added.      *)
RegisteredEverywhere == \A d \in ExDevs : Live \subseteq regs[d]

(* The i-th handle of a notify is the one the i-th keyboard gave, unless a   *)
(* removal moved that keyboard since: TextInExDeleteDevice moves the devices *)
(* and leaves every NotifyHandleList as it was.                              *)
HandlesAligned ==
  \A n \in Live, i \in DOMAIN textInExList :
    textInExList[i] \notin shifted => handles[n][i] = <<textInExList[i], n>>

(* The inductive invariant of the registry: the properties above, that a     *)
(* notify is listed once, and that the queue has a slot for every device     *)
(* TextInExList can hold (it is one growth ahead after one that failed).     *)
RegistryInv ==
  /\ RegistryTypeOK
  /\ ListedDevicesAreOpen
  /\ Distinct(notifyList)
  /\ NoOverrun
  /\ keyQueueSize \in {textInExListCount, textInExListCount + AllocUnit}
  /\ RegisteredEverywhere
  /\ HandlesAligned

(* A successful UnregisterKeyNotify leaves nothing registered on a keyboard  *)
(* whose index did not change.                                               *)
UnregisterIsComplete ==
  [][ret'.op = "Unregister" /\ ret'.ok =>
       \A d \in ExDevs \ shifted : ret'.arg \notin regs'[d]]_vars

(* A Start or Register that fails half way leaves no registration that was   *)
(* not there before, and a Register that fails lists nothing.                *)
FailedCallLeavesNoTrace ==
  [][ret'.op \in {"Start", "Register"} /\ ~ret'.ok =>
       /\ \A d \in Dev : regs'[d] \subseteq regs[d]
       /\ notifyList' = notifyList]_vars

(* While calls on keyboards succeed, every listed keyboard has the toggle    *)
(* state the splitter recorded and reports partial keystrokes, whichever     *)
(* keyboard's lock key was pressed, and whenever keyboards come and go.      *)
ToggleInSync ==
  physicalState.valid =>
    \A d \in ExDevs : toggle[d] = physicalState.lock /\ exposed[d]

(* Keystrokes of one keyboard are returned in the order they were typed and  *)
(* none is returned twice, however the two read functions, which share the   *)
(* queue, are interleaved.                                                   *)
KeysInOrder ==
  [][/\ \A d \in Dev : got'[d] >= got[d]
     /\ ret'.op \in {"Read", "ReadEx"} /\ ret'.ok => got' # got]_vars

(* Only a Reset, or a keyboard that goes away, discards a full keystroke:    *)
(* whatever a read takes from a keyboard it returns or leaves in the queue.  *)
FullKeysAreKept ==
  [][\A k \in (UNION {Elems(devKeys[d]) : d \in Dev}) \cup Elems(keyQueue) :
       Full(k) =>
         \/ k \in (UNION {Elems(devKeys'[d]) : d \in Dev}) \cup Elems(keyQueue')
         \/ k.num = got'[k.dev]
         \/ ret'.op \in {"Reset", "Replug"}]_vars

(* Claims of the source's comments that the code does not keep: see the     *)
(* README.                                                                   *)

(* "The notification function was unregistered successfully."                *)
UnregisterRemoves ==
  ret.op = "Unregister" /\ ret.ok => \A d \in ExDevs : ret.arg \notin regs[d]

(* "The WaitForKey Event can be used to test for existence of a keystroke    *)
(* via WaitForEvent () call."                                                *)
QueuedKeyIsSignalled == ret.op = "Wait" /\ ~ret.ok => keyQueue = <<>>

(* "other  Console In Consplitter does not support this device."             *)
StartErrorMeansNotAdded ==
  [][ret'.op = "Start" /\ ~ret'.ok => textInList' = textInList]_vars

(* "It will be initialized and synced between console input devices": also   *)
(* for the keyboards whose calls succeed while another's fail.               *)
GoodDevicesInSync ==
  physicalState.valid =>
    \A d \in ExDevs \ Flaky : toggle[d] = physicalState.lock

(* "the unique handle assigned to the registered notification"               *)
UniqueHandle ==
  \A m, n \in NotifyIds : held[m] = held[n] /\ held[m] # NoHandle => m = n

=============================================================================
