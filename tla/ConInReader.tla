----------------------------- MODULE ConInReader -----------------------------
(***************************************************************************)
(* ConInSplitter with the client its wait event is for: it waits for the    *)
(* event and then calls ReadKeyStroke once (the comment of                  *)
(* ConSplitterTextInWaitForKey: signalling "will cause the calling code to  *)
(* call ConSplitterTextInReadKeyStroke ()").  Boot-manager and shell code   *)
(* outside the package are such clients.  While it runs keyboards may       *)
(* arrive and keys may be typed; nobody resets or removes a keyboard, which *)
(* would discard keystrokes.                                                *)
(***************************************************************************)
EXTENDS ConInSplitter

VARIABLE reading     \* the client saw the event signalled and has not read yet

readerVars == <<vars, reading>>

ReaderInit == Init /\ reading = FALSE

(* gBS->WaitForEvent polls the event: its notify function runs each time.    *)
Poll ==
  /\ ~reading
  /\ WaitForKey
  /\ reading' = ret'.ok

ReadOne ==
  /\ reading
  /\ ReadKeyStroke
  /\ reading' = FALSE

Arrivals ==
  /\ \/ \E d \in Dev : StartPlain(d) \/ StartEx(d) \/ PressKey(d)
     \/ \E caller \in CallerStates : SetState(caller)
  /\ UNCHANGED reading

ReaderNext == Poll \/ ReadOne \/ Arrivals

(* The client is a loop: it never stops polling, nor reading once told to.   *)
ReaderSpec ==
  /\ ReaderInit /\ [][ReaderNext]_readerVars
  /\ WF_readerVars(Poll) /\ WF_readerVars(ReadOne)

Waiting(d, num) ==
  d \in TextDevs /\ \E k \in Elems(devKeys[d]) : Full(k) /\ k.num = num

(* Every full keystroke on a listed keyboard is returned, also when the      *)
(* event was signalled for another keyboard and several are waiting.         *)
EveryKeyIsRead ==
  \A d \in Dev : \A num \in 1..MaxKeys : Waiting(d, num) ~> got[d] >= num

=============================================================================
