--------------------------- MODULE PointerSplitter ---------------------------
(***************************************************************************)
(* The virtual pointers of Drivers/ConSplitterDxe: mConIn.SimplePointer and *)
(* mConIn.AbsolutePointer, each of which merges the pointing devices of its *)
(* list.  The two share nothing, so a behaviour is that of one of them,     *)
(* chosen at its start.  One action is one call of the driver binding or of *)
(* the protocol, run to its end, or something a device does.  A device is   *)
(* external: its buttons, what it has moved since it was last read, or      *)
(* where it points, and whether that is news.  GetState of a device whose   *)
(* state is not news returns EFI_NOT_READY.                                 *)
(***************************************************************************)
EXTENDS DeviceLists, FiniteSets, FiniteSetsExt, SequencesExt

CONSTANTS
  SimpleDev,     \* handles with SimplePointer
  AbsoluteDev,   \* handles with AbsolutePointer
  Axes,          \* of X, Y and Z, which the code treats alike
  Buttons,
  Half,          \* half the numbers of an INT32, 2^31
  VirtualSide,   \* the virtual pointers' Resolution and AbsoluteMax, 0x10000
  Resolution,    \* Resolution[d][x] of a simple pointer, 0 for no such axis
  Side,          \* Side[d][x]: AbsoluteMin and AbsoluteMax, both 0 for none
  Flaky,         \* devices whose calls may fail
  MayRunOut,     \* whether a pool allocation may fail
  AllocUnit,     \* CONSOLE_SPLITTER_ALLOC_UNIT
  MaxMoves       \* bound on what all devices move

ASSUME DevAssumption   == IsFiniteSet(SimpleDev \cup AbsoluteDev) /\ Flaky \subseteq SimpleDev \cup AbsoluteDev
ASSUME ScaleAssumption ==
  /\ Half \in Nat \ {0} /\ VirtualSide \in 0..Half - 1
  /\ Resolution \in [SimpleDev -> [Axes -> 0..Half - 1]]
  /\ Side \in [AbsoluteDev -> [Axes -> Nat \X Nat]]
  /\ \A d \in AbsoluteDev, x \in Axes : Side[d][x] = <<0, 0>> \/ Side[d][x][1] < Side[d][x][2]
ASSUME BoundAssumption == AllocUnit \in Nat \ {0} /\ MaxMoves \in 0..Half - 1 /\ MayRunOut \in BOOLEAN

VARIABLES
  kind,      \* of the virtual pointer
  opened,    \* devices whose guid is open BY_DRIVER
  list,      \* PointerList or AbsolutePointerList
  capacity,  \* PointerListCount or AbsolutePointerListCount
  signal,    \* InputEventSignalState or AbsoluteInputEventSignalState
  device,    \* per device: news, buttons, and on each axis the motion not
             \* read yet (Simple) or the position (Absolute)
  moves,     \* motions and changes of position so far
  told,      \* history: per axis, the motion that GetState returned with
             \* success
  dropped,   \* history: per axis, the motion it returned with an error
  moved,     \* history: per simple pointer and axis, all motion since Reset
  exact,     \* history: whether no motion that was read was too large to
             \* be scaled and added in an INT32
  ready,     \* whether the client saw the event and has not read yet
  ret        \* history: the state that GetState returned last

deviceVars == <<device, moves, moved>>
listVars   == <<kind, opened, list, capacity>>
readVars   == <<told, dropped, exact>>
vars == <<listVars, deviceVars, readVars, signal, ready, ret>>

Dev   == IF kind = "Simple" THEN SimpleDev ELSE AbsoluteDev
Still == [x \in Axes |-> 0]

(* mConIn's template and ConSplitterTextInConstructor                        *)
Init ==
  /\ kind \in {"Simple", "Absolute"}
  /\ opened = {} /\ list = <<>> /\ capacity = AllocUnit
  /\ signal = FALSE /\ ready = FALSE
  /\ device = [d \in Dev |-> [news |-> FALSE, buttons |-> {},
       at |-> IF kind = "Simple" THEN Still ELSE [x \in Axes |-> Side[d][x][1]]]]
  /\ moves = 0
  /\ told = Still /\ dropped = Still /\ exact = TRUE
  /\ moved = [d \in SimpleDev |-> Still]
  /\ ret = Still

-----------------------------------------------------------------------------
(* Driver bindings                                                           *)

(* The guid is opened; a device for which the list cannot grow is not added  *)
(* and the guid stays open.                                                  *)
Start(d) ==
  /\ d \in Dev \ opened
  /\ opened' = opened \cup {d}
  /\ \/ /\ list' = Append(list, d)
        /\ capacity' = GrownCount(list, capacity, AllocUnit)
     \/ /\ MayRunOut /\ Len(list) >= capacity
        /\ UNCHANGED <<list, capacity>>
  /\ UNCHANGED <<kind, deviceVars, readVars, signal, ready, ret>>

(* The guid is closed and the device removed, if it was added.               *)
Stop(d) ==
  /\ d \in opened
  /\ opened' = opened \ {d}
  /\ list' = IF d \in Elems(list) THEN Deleted(list, IndexOf(list, d)) ELSE list
  /\ UNCHANGED <<kind, deviceVars, capacity, readVars, signal, ready, ret>>

-----------------------------------------------------------------------------
(* Protocol functions; the devices of F fail their calls.                    *)

(* The arithmetic of the simple pointer is that of INT32, which wraps in the *)
(* build; a position of the absolute one is a UINT64.                        *)
Signed32(n)   == ((n + Half) % (2 * Half)) - Half
Unsigned64(n) == n % (4 * Half * Half)

(* Division of a signed number, which C truncates towards zero.              *)
Quotient(a, b) == IF a >= 0 THEN a \div b ELSE -((-a) \div b)

(* The motion of a simple pointer in the virtual pointer's units.            *)
Scaled(d, at) ==
  [x \in Axes |-> IF Resolution[d][x] = 0 THEN 0
                  ELSE Quotient(Signed32(at[x] * VirtualSide), Resolution[d][x])]

(* Fault: the motion of an earlier device is overwritten.                    *)
MergeSimpleLast(st, d) ==
  [state |-> Scaled(d, device[d].at), buttons |-> st.buttons \cup device[d].buttons]

MergeSimple(st, d) ==
  [state |-> [x \in Axes |-> Signed32(st.state[x] + Scaled(d, device[d].at)[x])],
   buttons |-> st.buttons \cup device[d].buttons]

(* Fault: not divided by the length of the device's side.                   *)
RescaledLong(d, x) == device[d].at[x] * VirtualSide

(* The lower end of the device's side is not subtracted.                     *)
Rescaled(d, x) ==
  LET side == Side[d][x]
  IN Unsigned64(device[d].at[x] * VirtualSide) \div (side[2] - side[1])

(* The position and the buttons of a later device replace the earlier ones', *)
(* on the axes that it has.                                                  *)
MergeAbsolute(st, d) ==
  [state |-> [x \in Axes |-> IF Side[d][x] = <<0, 0>> THEN st.state[x] ELSE Rescaled(d, x)],
   buttons |-> device[d].buttons]

(* The loop over the list; the devices of read have a state to return.       *)
Merged(read) ==
  LET merged[i \in 0..Len(list)] ==
        IF i = 0 THEN [state |-> Still, buttons |-> {}]
        ELSE IF list[i] \notin read THEN merged[i - 1]
        ELSE IF kind = "Simple" THEN MergeSimple(merged[i - 1], list[i])
                                ELSE MergeAbsolute(merged[i - 1], list[i])
  IN merged[Len(list)]

(* The motion in the virtual pointer's units, had the numbers no width.      *)
InVirtual(d, at) ==
  [x \in Axes |-> IF Resolution[d][x] = 0 THEN 0
                  ELSE Quotient(at[x] * VirtualSide, Resolution[d][x])]

Magnitude(n) == IF n >= 0 THEN n ELSE -n

(* The sum of a sequence of numbers.                                         *)
SumOf(v) ==
  LET sum[i \in 0..Len(v)] == IF i = 0 THEN 0 ELSE sum[i - 1] + v[i]
  IN sum[Len(v)]

(* The motion that is read can be scaled, and in the virtual pointer's units *)
(* it can be added up, within an INT32.                                      *)
Fits(read) ==
  kind = "Simple" => \A x \in Axes :
    /\ \A d \in read : Magnitude(device[d].at[x] * VirtualSide) < Half
    /\ SumOf([i \in 1..Len(list) |->
                IF list[i] \in read THEN Magnitude(InVirtual(list[i], device[list[i]].at)[x])
                                    ELSE 0]) < Half

Plus(a, b) == [x \in Axes |-> a[x] + b[x]]

(* The devices after those of D are read or reset.                           *)
Emptied(D) ==
  [d \in Dev |-> IF d \notin D THEN device[d]
                 ELSE [device[d] EXCEPT !.news = FALSE, !.at = IF kind = "Simple" THEN Still ELSE @]]

(* GetState reads every device of the list.  One that fails makes the result *)
(* an error, with the state of the others in it.                             *)
GetState(F) ==
  LET read  == {d \in Elems(list) \ F : device[d].news}
      state == Merged(read).state
      fails == Elems(list) \cap F # {}
  IN /\ signal' = FALSE
     /\ device' = Emptied(read)
     /\ ret' = state
     /\ told' = IF kind = "Simple" /\ ~fails THEN Plus(told, state) ELSE told
     /\ dropped' = IF kind = "Simple" /\ fails THEN Plus(dropped, state) ELSE dropped
     /\ exact' = (exact /\ Fits(read))
     /\ UNCHANGED <<listVars, moves, moved>>

(* Reset forwards to every device.  One that is reset forgets its motion.    *)
Reset(F) ==
  LET done == Elems(list) \ F
  IN /\ signal' = FALSE
     /\ device' = Emptied(done)
     /\ moved' = [d \in SimpleDev |-> IF d \notin done THEN moved[d]
                                      ELSE [x \in Axes |-> moved[d][x] - device[d].at[x]]]
     /\ UNCHANGED <<listVars, moves, readVars, ret>>

(* Fault: only the first device is asked.                                    *)
WaitForInputFirst ==
  LET pending == list # <<>> /\ device[list[1]].news
  IN /\ signal' = (signal \/ pending)
     /\ ready' = (signal \/ pending)
     /\ UNCHANGED <<listVars, deviceVars, readVars, ret>>

(* The notify function of the event, run when a client polls it: a state     *)
(* that is remembered signals it, else any device with news.                 *)
WaitForInput ==
  LET pending == \E d \in Elems(list) : device[d].news
  IN /\ signal' = (signal \/ pending)
     /\ ready' = (signal \/ pending)
     /\ UNCHANGED <<listVars, deviceVars, readVars, ret>>

-----------------------------------------------------------------------------
(* The devices, and the clients: one waits for the event and then reads      *)
(* once, others reset and read at any time.                                  *)

Move(d, x, step) ==
  /\ kind = "Simple" /\ moves < MaxMoves /\ moves' = moves + 1
  /\ device' = [device EXCEPT ![d].news = TRUE, ![d].at[x] = @ + step]
  /\ moved' = [moved EXCEPT ![d][x] = @ + step]
  /\ UNCHANGED <<listVars, readVars, signal, ready, ret>>

Point(d, x, place) ==
  /\ kind = "Absolute" /\ moves < MaxMoves /\ moves' = moves + 1
  /\ Side[d][x][1] <= place /\ place <= Side[d][x][2]
  /\ device' = [device EXCEPT ![d].news = TRUE, ![d].at[x] = place]
  /\ UNCHANGED <<listVars, moved, readVars, signal, ready, ret>>

Press(d, b) ==
  /\ moves < MaxMoves /\ moves' = moves + 1
  /\ device' = [device EXCEPT ![d].news = TRUE, ![d].buttons = SymDiff(@, {b})]
  /\ UNCHANGED <<listVars, moved, readVars, signal, ready, ret>>

Poll == ~ready /\ WaitForInput
Read == \E F \in SUBSET (Flaky \cap Dev) : ready /\ GetState(F) /\ ready' = FALSE
Others == \E F \in SUBSET (Flaky \cap Dev) : (GetState(F) \/ Reset(F)) /\ UNCHANGED ready

Next ==
  \/ Poll \/ Read \/ Others
  \/ \E d \in Dev : Start(d) \/ Stop(d)
  \/ \E d \in Dev, b \in Buttons : Press(d, b)
  \/ \E d \in SimpleDev, x \in Axes, step \in {-1, 1} : Move(d, x, step)
  \/ \E d \in AbsoluteDev, x \in Axes, place \in 0..VirtualSide : Point(d, x, place)

Spec == Init /\ [][Next]_vars

(* The client is a loop that does not stop.                                  *)
FairSpec == Spec /\ WF_vars(Poll) /\ WF_vars(Read)

-----------------------------------------------------------------------------
(* Properties                                                                *)

(* Types; a listed device is open, listed once, and inside the array         *)
(* (ConSplitterSimplePointerAddDevice, ...DeleteDevice).                     *)
TypeOK ==
  /\ kind \in {"Simple", "Absolute"}
  /\ list \in Seq(Dev) /\ capacity \in Nat
  /\ opened \subseteq Dev
  /\ Elems(list) \subseteq opened /\ Distinct(list)
  /\ Len(list) <= capacity
  /\ signal \in BOOLEAN /\ ready \in BOOLEAN /\ moves \in 0..MaxMoves

(* What the client was told of each axis, what was returned with an error    *)
(* and what the devices still hold is what they moved.                       *)
MotionAddsUp ==
  kind = "Simple" => \A x \in Axes :
    LET all == SetToSeq(SimpleDev)
    IN told[x] + dropped[x] =
         SumOf([i \in 1..Len(all) |-> InVirtual(all[i], moved[all[i]])[x]
                                     - InVirtual(all[i], device[all[i]].at)[x]])

(* No motion is lost or told twice, however devices are added, removed,      *)
(* reset and read together, until one is read that is too large for INT32    *)
(* arithmetic, if the resolutions divide the virtual one (GetState).         *)
MotionIsConserved == exact => MotionAddsUp

(* The position that the virtual absolute pointer reports is in the range of *)
(* its mode: "Rescale to Con Splitter virtual Absolute Pointer's resolution" *)
(* (GetState).                                                               *)
PositionIsInRange ==
  kind = "Absolute" => \A x \in Axes : ret[x] \in 0..VirtualSide

(* A client that waits for the event and reads once each time gets all news  *)
(* of a device that stays and does not fail, also when the event was         *)
(* signalled for another device (WaitForInput, GetState).                    *)
EveryChangeIsRead ==
  \A d \in (SimpleDev \cup AbsoluteDev) \ Flaky :
    (d \in Elems(list) /\ device[d].news) ~> (d \notin Elems(list) \/ ~device[d].news)

-----------------------------------------------------------------------------
(* Claims of the source's comments that the code does not keep               *)

(* "if any physical console input device has key input, return the key and   *)
(* EFI_SUCCESS."                                                             *)
MotionIsReturned == dropped = Still
=============================================================================
