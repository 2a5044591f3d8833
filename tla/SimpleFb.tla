------------------------------ MODULE SimpleFb -------------------------------
(***************************************************************************)
(* Drivers/SimpleFbDxe: the graphics output on one BGR frame buffer in       *)
(* cached memory.  A Blt raises the task priority level to TPL_NOTIFY,      *)
(* draws with FrameBufferBltLib, restores the level and writes the caches   *)
(* back.  Calls come from events of any level up to TPL_NOTIFY; one that is *)
(* higher than the level at which a call runs may preempt it between any    *)
(* two lines.  The caches are external: they also write back on their own.  *)
(*                                                                         *)
(* With user = "client" the library is called without the driver.           *)
(***************************************************************************)
EXTENDS FrameBufferBlt

CONSTANTS
  TPL_NOTIFY,     \* the highest level that calls the driver; the lowest is 1
  DriverAsked     \* what is asked of the driver

ASSUME TplAssumption == TPL_NOTIFY \in Nat \ {0}

ASSUME DriverAssumption == Nothing \notin DriverAsked /\ \A r \in DriverAsked : IsRequest(r)

VARIABLES
  user,       \* "client" or "driver"
  installed,  \* whether the protocol is: "no", "yes", or "never" after an error
  call,       \* per level, the DisplayBlt in progress
  lineBuffer, \* Configure->LineBuffer
  seen        \* the memory that the screen shows, without the caches

driverVars  == <<installed, call, lineBuffer, seen>>
displayVars == <<user, bltVars, driverVars>>

Tpl    == 1..TPL_NOTIFY
NoCall == [stage |-> "none", request |-> Nothing, line |-> 0, ready |-> FALSE,
           before |-> Nothing]

(* What SimpleFbDxeInitialize configures the library for.                    *)
IsSimple(c) == c.format = "BGR" /\ c.pixelsPerScanLine = c.width

DisplayInit ==
  /\ user \in {"client", "driver"}
  /\ BltInit
  /\ user = "driver" => IsSimple(config)
  /\ installed = "no"
  /\ call = [l \in Tpl |-> NoCall]
  /\ lineBuffer = NoLine
  /\ seen = frameBuffer

-----------------------------------------------------------------------------
(* SimpleFbDxeInitialize                                                     *)

FrameBufferSize == Width * BytesPerPixel * Height

(* WriteBackInvalidateDataCacheRange of one line of the frame                *)
WrittenBack(line) ==
  [b \in FrameBytes |-> IF b \div Stride = line /\ b < FrameBufferSize THEN frameBuffer[b] ELSE seen[b]]

(* A parameter of the frame buffer is zero or memory runs out: the entry     *)
(* point returns the error, or stops at an assertion.                        *)
FailToInitialize ==
  /\ installed = "no" /\ installed' = "never"
  /\ UNCHANGED <<bltVars, call, lineBuffer, seen>>

(* The screen is cleared and the protocol installed.                         *)
Initialize ==
  /\ installed = "no" /\ installed' = "yes"
  /\ frameBuffer' = [b \in FrameBytes |-> IF b < FrameBufferSize THEN {} ELSE frameBuffer[b]]
  /\ seen' = [b \in FrameBytes |-> IF b < FrameBufferSize THEN {} ELSE seen[b]]
  /\ UNCHANGED <<config, asked, refused, call, lineBuffer>>

-----------------------------------------------------------------------------
(* DisplayBlt                                                                *)

(* Fault: calls draw at the level of their caller.                           *)
RaisedNever == FALSE

(* A call raises the current level to TPL_NOTIFY while it draws.             *)
Raised     == \E l \in Tpl : call[l].stage \in {"draw", "restore"}
Running(l) == call[l].stage # "none" /\ \A k \in l + 1..TPL_NOTIFY : call[k].stage = "none"

Blt(l, r) ==
  /\ installed = "yes"
  /\ ~Raised /\ \A k \in l..TPL_NOTIFY : call[k].stage = "none"
  /\ call' = [call EXCEPT ![l] = [NoCall EXCEPT !.stage = "raise", !.request = r]]
  /\ UNCHANGED <<bltVars, installed, lineBuffer, seen>>

RaiseTPL(l) ==
  /\ Running(l) /\ call[l].stage = "raise"
  /\ call' = [call EXCEPT ![l].stage = IF Refused(call[l].request) THEN "restore" ELSE "draw",
                           ![l].before = frameBuffer]
  /\ UNCHANGED <<bltVars, installed, lineBuffer, seen>>

(* FrameBufferBlt draws a line.                                              *)
DrawLine(l) ==
  /\ Running(l) /\ call[l].stage = "draw"
  /\ LET c     == call[l]
         after == Line([frame |-> frameBuffer, line |-> lineBuffer, ready |-> c.ready],
                       c.request, c.line)
     IN /\ frameBuffer' = after.frame
        /\ lineBuffer' = after.line
        /\ call' = [call EXCEPT ![l].ready = after.ready, ![l].line = @ + 1,
                      ![l].stage = IF c.line + 1 = Lines(c.request) THEN "restore" ELSE "draw"]
  /\ UNCHANGED <<config, asked, refused, installed, seen>>

(* Fault: writing back is left to the call that was preempted.               *)
RestoreAndReturn(l) ==
  /\ Running(l) /\ call[l].stage = "restore"
  /\ refused' = Refused(call[l].request)
  /\ call' = [call EXCEPT ![l] =
       IF \E k \in 1..l - 1 : call[k].stage # "none" THEN NoCall ELSE [NoCall EXCEPT !.stage = "flush"]]
  /\ UNCHANGED <<config, frameBuffer, asked, installed, lineBuffer, seen>>

RestoreTPL(l) ==
  /\ Running(l) /\ call[l].stage = "restore"
  /\ refused' = Refused(call[l].request)
  /\ call' = [call EXCEPT ![l] = [NoCall EXCEPT !.stage = "flush"]]
  /\ UNCHANGED <<config, frameBuffer, asked, installed, lineBuffer, seen>>

(* Line after line of the frame is written back; then the call returns.      *)
Flush(l) ==
  /\ Running(l) /\ call[l].stage = "flush"
  /\ seen' = WrittenBack(call[l].line)
  /\ call' = IF call[l].line + 1 = Height THEN [call EXCEPT ![l] = NoCall]
             ELSE [call EXCEPT ![l].line = @ + 1]
  /\ UNCHANGED <<bltVars, installed, lineBuffer>>

(* A line of the frame leaves the caches.                                    *)
Evict(line) ==
  /\ line \in 0..Height - 1 /\ seen' = WrittenBack(line)
  /\ UNCHANGED <<bltVars, installed, call, lineBuffer>>

DriverNext ==
  \/ FailToInitialize
  \/ Initialize
  \/ \E l \in Tpl, r \in DriverAsked : Blt(l, r)
  \/ \E l \in Tpl : RaiseTPL(l) \/ DrawLine(l) \/ RestoreTPL(l) \/ Flush(l)
  \/ installed = "yes" /\ \E line \in 0..Height - 1 : Evict(line)

DisplayNext ==
  /\ UNCHANGED user
  /\ \/ user = "client" /\ BltNext /\ UNCHANGED driverVars
     \/ user = "driver" /\ DriverNext

DisplaySpec == DisplayInit /\ [][DisplayNext]_displayVars

-----------------------------------------------------------------------------
(* Properties                                                                *)

(* Called without the driver, the library does what a Blt promises, for      *)
(* every frame buffer that it supports: a drawing changes its rectangle and  *)
(* no other pixel, what is read back is what the screen shows, and neither   *)
(* the padding of lines nor what lies behind the frame is written.           *)
LibraryDoesTheBlt ==
  /\ Screen!ScreenInit /\ [][user = "client" => Screen!ScreenNext]_(Screen!screenVars)
  /\ [][ReadsTheScreen' /\ OnlyPixelsAreWritten']_displayVars

Drawing == {l \in Tpl : call[l].stage \in {"draw", "restore"}}
Whole   == IF Drawing = {} THEN frameBuffer ELSE call[Min(Drawing)].before

Display == INSTANCE PixelScreen WITH
  Callers <- Tpl, Requests <- DriverAsked, keeps <- Keeps, refused <- refused,
  screen <- ShownOf(Whole),
  asked <- [l \in Tpl |-> IF call[l].stage \in {"raise", "draw", "restore"}
                          THEN call[l].request ELSE Nothing]

(* "We have to raise to TPL_NOTIFY, so we make an atomic write to the frame  *)
(* buffer": although lines are drawn one after the other and a call may      *)
(* preempt another, each changes the screen in one step (DisplayBlt).        *)
BltsAreAtomic ==
  /\ Display!ScreenInit
  /\ [][installed = "yes" => Display!ScreenNext]_(Display!screenVars)

(* When a Blt returns, whatever preempted it or was preempted by it, the     *)
(* screen shows all of the frame buffer, and when the protocol is installed  *)
(* it is black (the write-backs of DisplayBlt and SimpleFbDxeInitialize).    *)
ReturnsShown ==
  [][/\ \A l \in Tpl : call[l].stage # "none" /\ call'[l].stage = "none" => seen' = frameBuffer'
     /\ installed' # installed /\ installed' = "yes" =>
          \A b \in FrameBytes : seen'[b] = {}]_displayVars
==============================================================================
