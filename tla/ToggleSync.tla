------------------------------ MODULE ToggleSync ------------------------------
(***************************************************************************)
(* The toggle-state synchronisation of the virtual keyboard at the grain of *)
(* single calls on keyboards.  ConSplitterTextInSetState, the two resets    *)
(* and ConSplitterTextInExAddDevice run at the caller's TPL and raise it    *)
(* nowhere; ToggleStateSyncKeyNotify runs at TPL_CALLBACK when a keyboard   *)
(* driver delivers a keystroke, so it can run, to its end, between any two  *)
(* calls their loops make.  A keyboard records the keystroke when the key   *)
(* is pressed and delivers it later, with the toggle bits of that moment.   *)
(* Calls on keyboards succeed here; ConInSplitter has those that fail.      *)
(***************************************************************************)
EXTENDS Integers, Sequences

CONSTANTS
  Dev,        \* keyboards with SimpleTextInputEx
  Locks,      \* values of the toggle bits
  NoLock,     \* all toggle bits clear
  MaxPresses  \* bound: lock keys pressed in a behaviour

ASSUME LockAssumption  == NoLock \in Locks
ASSUME PressAssumption == MaxPresses \in Nat

VARIABLES
  textInExList,   \* TextInExList
  physicalState,  \* the toggle bits of PhysicalKeyToggleState
  call,           \* the splitter function in progress: its phase, the index it
                  \* has reached and the caller's toggle bits
  toggle,         \* each keyboard's toggle bits (external)
  exposed,        \* keyboards that report partial keystrokes (external)
  pending,        \* keystrokes each keyboard has yet to deliver (external)
  presses,        \* lock keys pressed so far
  torn            \* history: a notify ran inside the last SetState, after that
                  \* had told some keyboard, with another state

vars == <<textInExList, physicalState, call, toggle, exposed, pending, presses, torn>>

Listed == {textInExList[i] : i \in DOMAIN textInExList}

Call == [phase : {"idle", "set", "reset", "tell", "add"},
         next : Nat \ {0}, lock : Locks]

Idle == [phase |-> "idle", next |-> 1, lock |-> NoLock]

Init ==
  /\ textInExList = <<>>
  /\ physicalState = NoLock
  /\ call = Idle
  /\ toggle = [d \in Dev |-> NoLock]
  /\ exposed = {}
  /\ pending = [d \in Dev |-> <<>>]
  /\ presses = 0
  /\ torn = FALSE

Begin(phase, lock) ==
  /\ call.phase = "idle"
  /\ call' = [phase |-> phase, next |-> 1, lock |-> lock]

(* EFI_SIMPLE_TEXT_INPUT_EX.SetState on the keyboards of D.                  *)
Told(D, lock) ==
  /\ toggle' = [d \in Dev |-> IF d \in D THEN lock ELSE toggle[d]]
  /\ exposed' = exposed \cup D

InLoop(phase) == call.phase = phase /\ call.next \in DOMAIN textInExList
LoopDone(phase) == call.phase = phase /\ call.next \notin DOMAIN textInExList
Current == textInExList[call.next]
Advance == call' = [call EXCEPT !.next = @ + 1]

-----------------------------------------------------------------------------
(* ConSplitterTextInSetState: every keyboard is told the caller's state, and *)
(* only after the loop is it recorded.                                       *)
SetStateBegin(lock) ==
  /\ Begin("set", lock)
  /\ torn' = FALSE
  /\ UNCHANGED <<textInExList, physicalState, toggle, exposed, pending, presses>>

SetStateDevice ==
  /\ InLoop("set")
  /\ Told({Current}, call.lock)
  /\ Advance
  /\ UNCHANGED <<textInExList, physicalState, pending, presses, torn>>

(* Fault: PhysicalKeyToggleState is not recorded.                            *)
SetStateForgets ==
  /\ LoopDone("set")
  /\ call' = Idle
  /\ UNCHANGED <<textInExList, physicalState, toggle, exposed, pending, presses, torn>>

SetStateEnd ==
  /\ LoopDone("set")
  /\ physicalState' = call.lock
  /\ call' = Idle
  /\ UNCHANGED <<textInExList, toggle, exposed, pending, presses, torn>>

-----------------------------------------------------------------------------
(* ConSplitterTextInResetEx: the keyboards are reset one by one, ...         *)
ResetBegin ==
  /\ Begin("reset", NoLock)
  /\ UNCHANGED <<textInExList, physicalState, toggle, exposed, pending, presses, torn>>

(* (a keyboard may keep the keystrokes it has not delivered)                 *)
ResetDevice ==
  /\ InLoop("reset")
  /\ toggle' = [toggle EXCEPT ![Current] = NoLock]
  /\ exposed' = exposed \ {Current}
  /\ pending' \in {pending, [pending EXCEPT ![Current] = <<>>]}
  /\ Advance
  /\ UNCHANGED <<textInExList, physicalState, presses, torn>>

(* ... then ToggleStateSyncReInitialization records the initial state and    *)
(* tells each keyboard what is recorded by the time of that call.            *)
ReInitialize ==
  /\ LoopDone("reset")
  /\ physicalState' = NoLock
  /\ call' = [phase |-> "tell", next |-> 1, lock |-> NoLock]
  /\ UNCHANGED <<textInExList, toggle, exposed, pending, presses, torn>>

ReInitializeDevice ==
  /\ InLoop("tell")
  /\ Told({Current}, physicalState)
  /\ Advance
  /\ UNCHANGED <<textInExList, physicalState, pending, presses, torn>>

ReInitializeEnd ==
  /\ LoopDone("tell")
  /\ call' = Idle
  /\ torn' = FALSE
  /\ UNCHANGED <<textInExList, physicalState, toggle, exposed, pending, presses>>

-----------------------------------------------------------------------------
(* ConSplitterTextInExAddDevice: the keyboard is listed, then told the state.*)
AddDevice(d) ==
  /\ d \notin Listed
  /\ Begin("add", NoLock)
  /\ textInExList' = Append(textInExList, d)
  /\ UNCHANGED <<physicalState, toggle, exposed, pending, presses, torn>>

(* Fault: the keyboard is not told the recorded state.                       *)
AddDeviceSilent ==
  /\ call.phase = "add"
  /\ call' = Idle
  /\ UNCHANGED <<textInExList, physicalState, toggle, exposed, pending, presses, torn>>

AddDeviceEnd ==
  /\ call.phase = "add"
  /\ Told({textInExList[Len(textInExList)]}, physicalState)
  /\ call' = Idle
  /\ UNCHANGED <<textInExList, physicalState, pending, presses, torn>>

-----------------------------------------------------------------------------
(* A lock key is pressed (external).                                         *)
Press(d, lock) ==
  /\ presses < MaxPresses
  /\ toggle[d] # lock
  /\ toggle' = [toggle EXCEPT ![d] = lock]
  /\ presses' = presses + 1
  /\ pending' = IF d \in exposed THEN [pending EXCEPT ![d] = Append(@, lock)]
                                 ELSE pending
  /\ UNCHANGED <<textInExList, physicalState, call, exposed, torn>>

(* ToggleStateSyncKeyNotify, with the state of the oldest keystroke.         *)
KeyNotify(d) ==
  LET state == Head(pending[d])
  IN  /\ pending[d] # <<>>
      /\ pending' = [pending EXCEPT ![d] = Tail(@)]
      /\ IF state # physicalState
         THEN /\ Told(Listed, state)
              /\ physicalState' = state
         ELSE UNCHANGED <<toggle, exposed, physicalState>>
      /\ torn' = IF call.phase = "set"
                 THEN torn \/ (call.next > 1 /\ state # call.lock)
                 ELSE torn /\ state = physicalState
      /\ UNCHANGED <<textInExList, call, presses>>

-----------------------------------------------------------------------------
Splitter ==
  \/ \E lock \in Locks : SetStateBegin(lock)
  \/ SetStateDevice \/ SetStateEnd
  \/ ResetBegin \/ ResetDevice \/ ReInitialize
  \/ ReInitializeDevice \/ ReInitializeEnd
  \/ \E d \in Dev : AddDevice(d)
  \/ AddDeviceEnd

Keyboards == \E d \in Dev : KeyNotify(d) \/ \E lock \in Locks : Press(d, lock)

Next == Splitter \/ Keyboards

Spec == Init /\ [][Next]_vars

(* Keyboard drivers deliver what they recorded: a timer event polls them.    *)
FairSpec == Spec /\ \A d \in Dev : WF_vars(KeyNotify(d))

-----------------------------------------------------------------------------
(* Properties                                                                *)

(* Every variable keeps its type, and a call is only where its loop can be.  *)
TypeOK ==
  /\ textInExList \in Seq(Dev)
  /\ \A i, j \in DOMAIN textInExList : textInExList[i] = textInExList[j] => i = j
  /\ physicalState \in Locks
  /\ call \in Call
  /\ toggle \in [Dev -> Locks]
  /\ exposed \subseteq Dev
  /\ pending \in [Dev -> Seq(Locks)]
  /\ presses \in 0..MaxPresses
  /\ torn \in BOOLEAN
  /\ call.phase = "add" => textInExList # <<>>

Quiet == call.phase = "idle" /\ \A d \in Listed : pending[d] = <<>>

InSync == \A d \in Listed : toggle[d] = physicalState /\ d \in exposed

(* Once every call has returned and every keystroke is delivered, all        *)
(* keyboards have the recorded state, in whatever order keys were pressed on *)
(* several keyboards and however keystrokes interrupted a Reset or the       *)
(* arrival of a keyboard; a SetState counts unless a keystroke tore it.      *)
SyncedUnlessTorn == Quiet /\ ~torn => InSync

(* A keyboard is as recorded, or the keystroke that made the difference is   *)
(* still to come.                                                            *)
Settled(d, state) ==
  /\ d \in exposed
  /\ \/ toggle[d] = state
     \/ pending[d] # <<>> /\ pending[d][Len(pending[d])] = toggle[d]

(* The keyboards that the call in progress has not told yet.                 *)
Before(n) == {textInExList[i] : i \in {j \in DOMAIN textInExList : j < n}}

(* The inductive invariant: how far the keyboards have settled in each phase *)
(* of a call.                                                                *)
SettledInv ==
  /\ TypeOK
  /\ call.phase = "idle" /\ ~torn => \A d \in Listed : Settled(d, physicalState)
  /\ call.phase = "set" /\ ~torn => \A d \in Before(call.next) : Settled(d, call.lock)
  /\ call.phase = "tell" => \A d \in Before(call.next) : Settled(d, physicalState)
  /\ call.phase = "add" /\ ~torn =>
       \A d \in Before(Len(textInExList)) : Settled(d, physicalState)

(* When no further call is made and the last SetState was not torn, the      *)
(* keyboards come to agree and stay so, whatever keys were pressed last.     *)
AgreeInTheEnd == <>[](call.phase = "idle" /\ ~torn) => <>[]InSync

(* "It will be initialized and synced between console input devices": a      *)
(* claim the code does not keep for a SetState that a keystroke interrupts.  *)
QuietMeansInSync == Quiet => InSync

=============================================================================
