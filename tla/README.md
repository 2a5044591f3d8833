# TLA+ models of OrangePiZero3Pkg

The package is an EDK2 platform for the Orange Pi Zero 3 (Allwinner H618): the first stage
that takes over from the previous boot loader, the memory table, serial and frame buffer
libraries, a GPIO driver, a frame buffer driver, the boot manager's platform library, and its
own copies of the console drivers of MdeModulePkg (ConSplitter, GraphicsConsole), which are
most of its logic. Paths below are relative to `src/OrangePiZero3Pkg/`; `CS` is
`Drivers/ConSplitterDxe/ConSplitter.c`, `GC` is `Drivers/GraphicsConsoleDxe/GraphicsConsole.c`.

The project models the code of the package. What the package calls and does not contain (the
physical keyboards, pointers, text consoles and graphics outputs, the font, the UART, the pin
registers, the caches, the DXE core's handle database, event and pool services) is modelled from how the package uses it, and marked external in `PROJECT.json`.

## 1. Inventory

| Component | State it keeps | Operations | Meets | What is hard |
|---|---|---|---|---|
| **Virtual keyboard** `mConIn` (CS 602-737, 1169-1222, 1502-1614, 1871-2079, 3470-4149) | two device lists, the notify list with one handle per keyboard, the key queue, `PhysicalKeyToggleState`, `VirtualKeyStateExported`, `KeyEventSignalState`, `mConInIsConnect` | driver binding Start/Stop; ReadKeyStroke, ReadKeyStrokeEx, WaitForKey, Reset, ResetEx, SetState, RegisterKeyNotify, UnregisterKeyNotify; the key notify of the toggle sync | every physical keyboard; clients (shell, boot manager) through two protocols on one handle | arrays that grow together in separate allocations; a keyboard in the middle of a list disappears; two read functions share one queue; key notifies preempt the loops over keyboards |
| **Virtual text consoles** `mConOut`, `mStdErr` (CS 749-861, 1327-1484, 1731-1816, 2246-2733, 3050-3457, 4571-5132) | list of consoles, query data, the mode map (virtual mode x console), current mode, cursor, attribute, `AddingConOutDevice`; two PCDs | Start/Stop for each; Reset, OutputString, TestString, QueryMode, SetMode, SetAttribute, ClearScreen, SetCursorPosition, EnableCursor | physical text consoles, some of them in both lists; each other, through the intersection of their modes | the modes are an intersection that is narrowed step by step and recomputed on removal; the current mode's number moves; consoles that refuse |
| **Virtual graphics output** (`Drivers/ConSplitterDxe/ConSplitterGraphics.c`, CS 2746-3038) | the mode array of the intersection, current mode, counts of graphics consoles | QueryMode, SetMode, Blt; UGA variants; adding and removing modes | the graphics outputs of ConOut's devices | mode indexes into an array that is replaced |
| **Virtual pointers** `mConIn.SimplePointer`, `.AbsolutePointer` (CS 2091-2233, 4162-4557) | two device lists | Start/Stop, Reset, GetState, WaitForInput | physical pointers | the worst and the best status of a loop over devices; merging their states |
| **GraphicsConsole** (`Drivers/GraphicsConsoleDxe/GraphicsConsole.c`) | mode data, line buffer, cursor and attribute per graphics output | driver binding Start/Stop; the text-output protocol; font registration | graphics output; ConSplitter above it | scrolling, wrapping, a SetMode that fails half way, mode 0 of 90x80 |
| **Frame buffer serial port** (`Library/FrameBufferSerialPortLib`) | cursor, colours, screen size | Initialize, Write, glyph drawing, scroll, reset | the frame buffer | small screens, wrap and scroll |
| **Memory and UART serial ports** (`Library/InMemorySerialPortLib`, `Library/SerialPortLib`) | ring offset; none | Initialize, Write, Read, Poll | a memory region; the UART | ring wrap; Read stores each character at the same place |
| **Frame buffer Blt** (`Library/FrameBufferBltLib`) | configuration of the pixel format | Configure and four Blt operations | frame buffer | overlapping copies, pixel masks |
| **Simple frame buffer GOP** (`Drivers/SimpleFbDxe`) | one mode | QueryMode, SetMode, Blt | Blt library | range checks |
| **GPIO and heartbeat** (`Drivers/SunxiGpioDxe`, `Drivers/HeartbeatDxe`) | the pin registers | ConfigurePin, SetDrive, SetOutput | pin controller | read-modify-write; register aliasing |
| **Memory map and PrePi** (`Library/MemoryInitPeiLib`, `PrePi`) | table of regions, hand-off blocks | building blocks, MMU table | DXE core | regions that overlap or are missed |
| **Boot manager library** (`Library/PlatformBootManagerLib`) | boot options, keys, console variables | BeforeConsole, AfterConsole, WaitCallback, UnableToBoot | boot manager | order of registration; a zero timeout |
| Component names, SMBIOS tables, logo, ACPI tables, platform driver and library | none or constant tables | lookups | | nothing that a model would find |

**How they meet.** The boot manager connects consoles; for every handle with a console guid the
DXE core calls a ConSplitter driver binding, whose Start lists the device and brings it in step
with the devices listed before it (toggle state and key notifies of a keyboard; modes, current
mode and attribute of a text console). Clients call the virtual protocols, which loop over the
lists. GraphicsConsole produces the text consoles that ConSplitter lists on top of a graphics
output. Nothing in the package runs in parallel, but a key notify runs at `TPL_CALLBACK` in the
middle of anything that runs below it, which includes every loop of ConSplitter over keyboards; so
does any event that prints, sets a pin or draws, in the middle of a serial port's, the pin driver's
or the frame buffer driver's accesses. HeartbeatDxe calls the pin driver five times when it starts;
SimpleFbDxe draws with FrameBufferBltLib.

**What is built.** `OrangePiZero3Pkg.dsc` builds ConSplitterDxe, GraphicsConsoleDxe, SerialPortLib,
SunxiGpioDxe and HeartbeatDxe, among those with logic. FrameBufferBltLib (line 77) and SimpleFbDxe
(line 225) are commented out, and nothing refers to InMemorySerialPortLib and
FrameBufferSerialPortLib, which are drop-in replacements of SerialPortLib. They are modelled all the
same: their code is what the next board configuration switches on.

**What makes each correct.** Keyboard: no index outside an array, no device in a list after it
was closed, every notify on every keyboard, unregistering removes it everywhere, no key lost,
repeated or reordered, every key reported, the keyboards agree on the lock keys. Text consoles:
the virtual modes are the intersection of the consoles' modes and the map leads to them, the
current mode is one of them and every console is in it, each splitter's text has its own
attribute. Pointers: no motion lost or told twice, positions in range, every change reported.
GraphicsConsole: offered modes fit the screen, text is where printing puts it, the cursor is drawn
once and in its place. Virtual graphics output: the modes are an intersection, a mode number keeps
its meaning, a frame buffer is told only of a single output, drawing reaches every output. Serial
ports: what a caller wrote goes onto the line once and in order, also when calls preempt each other,
and every Write returns; the memory holds the last bytes; the screen shows the end of what was
printed. Pins: a call changes the pin it names. Blt: a call changes its rectangle, at once and as
asked, and what was drawn is visible when it returns.

All hazards found, with the line where each bites and the property that would catch it (or why
none does yet), are in `PROJECT.json` under `hazards`.

## 2. Modules

    DeviceLists <- CommonLemmas                operators on device lists; lemmas that all proofs share
        ^
    ConInSplitter <- ConInReader               keyboard; composed with a client that waits and reads
        ^      ^----- ConInSplitterProofs      theorems
    ToggleSync <- ToggleSyncProofs             toggle sync at the grain of single device calls
    TextModes <- ConOutSplitter                mode arithmetic; the two text consoles
        ^----- ConOutSplitterProofs
    DeviceLists <- PointerSplitter             the two virtual pointers
        ^----- PointerSplitterProofs
    GraphicsModes <- GraphicsConsole           modes of a screen; the text console drawn on it
    DeviceLists <- GraphicsSplitter            the virtual graphics output
        ^----- GraphicsSplitterProofs
    SerialBytes <- UartPort                    UART, implements SerialLine
        ^----- RingPort                        memory, implements RollingLog
        ^----- ScreenPort                      frame buffer
    UartPort, RingPort, ScreenPort <- SerialPorts    one of the three
    UartPort, RingPort, ScreenPort <- SerialPortsProofs
    Words <- SunxiGpio                         pins and heartbeat, implements GpioPins
    Words <- FrameBufferBlt <- SimpleFb        Blt and the driver on it, implement PixelScreen
    SunxiGpio, SimpleFb <- Peripherals         one of the two
    Peripherals, GraphicsConsole <- BoardProofs

Every `...Proofs` module but that of ToggleSync extends `CommonLemmas` as well.
`SerialLine`, `RollingLog`, `GpioPins` and `PixelScreen` are the abstract specifications.

Each component has an `MC...` module that gives the instance's values; one `.cfg` per question.
Operators under a comment that begins with "Fault:" are plausible bugs in the definition that follows
them; nothing uses them but the mutants of `PROJECT.json`, each of which breaks one property.

**`ConInSplitter`.** One action is one call, run to its end: `Start` (refused, no memory,
keyboard without SimpleTextInputEx, growth that fails after its k-th handle list, registration
that fails at the k-th notify and is undone, success), `Stop`, `RegisterKeyNotify` (known, no
memory, refused by the k-th keyboard and undone, new), `UnregisterKeyNotify`, `ReadKeyStroke`,
`ReadKeyStrokeEx`, `WaitForKey`, `Reset`, `ResetEx`, `SetState`; and what the keyboards do:
`PressKey`, `PressLock` (with the notify it causes), `Replug`. The loops that register and
unregister a notify, and those that walk back after one is refused, are kept as loops: a fold over the
places of a list, one keyboard's call in each round (`Registered`, `Unregistered`, `WalkedBack`). Variables carry the names of the
fields; lists are sequences without the slots behind their count, except that a notify's handle
list keeps all its slots, because a removal moves the devices and not the handles. `ret` is the
last call and its status, `held` the handle a client was given, `got` the last key of each
keyboard that was returned, `shifted` the keyboards that a removal has moved: history for the
properties. A keystroke is a record of its keyboard, its number and whether it is partial; the
merging of shift states into it is left out.

**`ConInReader`** adds the client that the wait event is for: it polls the event and then reads
once. Its fairness is weak fairness of the client's own two steps, a loop that does not stop;
keys and keyboards arrive without any.

**`ToggleSync`** takes the loops of SetState, ResetEx, the re-initialisation and AddDevice apart
into one step per call on a keyboard, and lets `KeyNotify` run between any two, as code at
`TPL_CALLBACK` may: the loops raise the TPL nowhere. A keyboard delivers a keystroke some time
after the key was pressed, with the lock bits of that moment. `FairSpec` assumes weak fairness
of the splitter's own steps (a call in progress runs on) and of each keyboard's delivery (its
driver polls on a timer).

**`TextModes`** is the pure part of the text consoles: `AddOutputMode`, `SyncOutputMode` with its
`Column` of the map, `GetIntersection`, and `Rebuilt`, the recomputation after a removal. A map
is a function from virtual modes to one row per mode, as in the code; rows below `MaxMode` and
columns of listed consoles are kept.

**`ConOutSplitter`** composes the two text consoles over shared physical ones. A physical console
is external: its mode and its attribute. The steps of a call are operators on the pair of the
splitters and the consoles, because the code's functions call one another (`SetModeFn` from
`IntersectBoth` from `StartAdds`); each operator has the name of its function. The consoles of a
set `F` fail their calls in this step. `slots` keeps the entries behind the list, because
the scan for a shared console runs on into them.

**`PointerSplitter`** has both virtual pointers in one module. They share no state and differ in how
they merge, so a behaviour is that of one `kind`, chosen at its start. `GetState` reads every
listed device; the devices of a set `F` fail in this call. The axes are members of a set, because
the code treats them alike, and a device lacks an axis whose resolution, or range, is 0. `told`,
`dropped` and `moved` are history: the motion returned with success, the motion returned with an
error, and all motion since a device was last reset. A motion is scaled and added in the code's INT32
(`Signed32`, `Half` is 2^31): multiplied by 0x10000, 32768 counts that nobody read are too many. `exact`
is history: nothing too large has been read yet (`Fits`). Overflow of a signed number is
undefined in C; the model lets it wrap, as the shifts, divisions and additions that a compiler makes of
these lines do, and the property says nothing of the motion from then on, whatever they give. A position
is multiplied in UINT64 (`Unsigned64`). Weak fairness is assumed of a client that
polls the event and then reads, as for the keyboard; others may read and reset in between.

**`GraphicsModes`** is the pure part of GraphicsConsole: the search for a graphics mode in
DriverStart (`Highest`, `CheckModeSupported`, `FallbackMode`, `Chosen`), the text modes offered on
a screen, the one a console starts in, and the place of a cell on the screen in unsigned
arithmetic. The modes a graphics output refuses are a parameter.

**`GraphicsConsole`** is the console on one graphics output. All of a call's steps are operators on
the record `con`, as the code's functions call one another: OutputString prints a line end and a
space with itself, so `CrLfString` and `SpaceStr` are operators with the two flushes of the cursor
of such a call. The screen is kept as `text`, what each cell shows, and `marks`, the cursor glyphs
on it; a Blt outside the screen does nothing. `FlushCursor` is the XOR of the code, which adds a
mark or takes it away. `loose` counts the calls since the screen stopped being what the console
drew (start without a clear, another program's graphics mode, a failed SetMode or draw), during
which nothing is claimed of the cursor. A draw fails for a whole call or not at all.

**`GraphicsSplitter`** is the graphics half of the console lists: `Start` and `StartWithoutBuffer`
(AddDevice with AddGraphicsOutputMode, and then the SetMode of the text consoles that a new text
mode causes), `Stop`, `SetMode`, `TextSetMode`, `Draw`, `Read`, and `Query`, which changes nothing. The
mode buffer is a sequence of resolutions. What a screen shows is the last picture that was drawn on
it, because every Blt goes to every output with the same arguments; the outputs of a set `F` fail
in this call. `since`, `lastSet`, `drawn` and `ret` are history.

**`UartPort`** takes Write and Read of SerialPortLib apart into their accesses to the line status and the
data register. Calls of a higher task priority level preempt one of a lower level between any two
accesses, and run to their end first. A byte written to a full transmitter takes the place of the
last one. **`RingPort`** is the memory log: its region and, per image, its offset. Nothing raises the level or masks
interrupts here either, so a step is one access of a level's `mem_putchar` or Initialize: reading the
offset, storing the byte, setting the offset, wrapping it. The store may come before or after the
accesses to the offset, and the comparison may see the register or the memory. `torn`, `latest` and
`used` are history: which calls another one came in between of, the image that wrote last, and how much
of the region is the log. **`ScreenPort`** is the frame buffer log, a step
per call, since it disables interrupts; what may come after a line end has enabled them again is left out
(section 5). The position of `m_Position` is kept in the code's two
units, and `hangs` is the case in which FbConPutCharWithFactor loops for ever.

**`SunxiGpio`**: a register is a set of bits; each function of the protocol is a read of a register, in
which the addresses and shifts are computed as the macros do, and a write of what was read with one
field replaced. Clients call at several levels, and a call of a higher one may come between the two
accesses of another. The five calls of HeartbeatDxe are a client of their own.

**`FrameBufferBlt`** is the library on bytes: the pixel format with its masks, shifts and sizes, the three
ways to fill, and the copies, each of which is done by `Line`, one line of the request. The library
alone does all lines in one step; **`SimpleFb`** puts the driver's RaiseTPL, RestoreTPL and the write-back of
the caches around and between them.

**`SerialPorts`** and **`Peripherals`** put modules that share nothing beside each other: a behaviour is that
of one of them, chosen at its start, so that one run explores all.

**Abstract specifications.** `SerialLine`: what each caller owes the line is carried in order, once, and
what arrives is read once and in order. `RollingLog`: the last `Size` bytes. `GpioPins`: an array of pins
with a configuration, a drive level and an output each; a SetOutput turns on an output for each bit of
its number, which is less than the header says (`EnablesOrDisables`, refuted in section 3). `PixelScreen`: a map from points to colours,
of which a call changes one rectangle in one step. The detailed module names its refinement mapping
in the `INSTANCE` and the property that it implements the abstract one: `KeepsThePromise` (what a
level owes is its bytes in the FIFO, then the rest of its message with a return before each line
end), `KeepsTheLog` (the ring read backwards from where
the writer stands; a print that is stored and not yet advanced counts), `ImplementsPins` (the fields that the
hardware gives a pin), `LibraryDoesTheBlt` and `BltsAreAtomic` (the bytes as pixels; while a call draws,
the screen is the one from before it).

## 3. What the runs check

Passing runs:

| Run | Instance | Shows |
|---|---|---|
| `ConIn_registry` | 3 keyboards, one without the Ex protocol and one flaky, 2 notifies, unit 1, allocations fail | the arrays are never overrun, also after a growth that failed half way (`NoOverrun`); every notify on every keyboard (`RegisteredEverywhere`); the inductive invariant `RegistryInv`, which says that lists hold open devices once; `UnregisterIsComplete`; failed Start and Register undo what they did (`FailedCallLeavesNoTrace`) |
| `ConIn_keys` | 2 keyboards, 2 keystrokes each, partial ones included, 2 lock states, any SetState, connect on demand | `KeysInOrder`, `FullKeysAreKept`: with two read functions on one queue nothing is lost, repeated or reordered; `ToggleInSync`: after every call the keyboards are in the recorded lock state |
| `ConIn_reader` | 2 keyboards, one without the Ex protocol, 2 keystrokes each | `EveryKeyIsRead` (liveness) |
| `ToggleSync_sync` | 3 keyboards, 2 lock states, 3 key presses | `SyncedUnlessTorn`: with notifies between any two calls, once every keystroke is delivered the keyboards agree, unless a SetState was torn; `AgreeInTheEnd` (liveness) |
| `ConOut_modes` | a graphics console and two terminals of 4, 5 and 4 modes on ConOut, unit 1, allocations fail | `MapIsSound` and `MapIsComplete`: the virtual modes from 2 on are exactly the sizes that all listed consoles have and the map leads to them |
| `ConOut_step` | ConOut and StdErr share one console and have one of their own each, unit 1, no removals or failures, cursor in the corners of 4 sizes | `ConsolesInStep`; with a shared first console neither offers a size that the other does not have (`FirstSharedMeansSynced`) |
| `Graphics_console` | a graphics output of 3 modes, two of them alike, each of which it may refuse; glyphs of 2x2 pixels, a mode 0 that no screen holds, text windows of 2x2 to 3x2 cells; strings of 1 to 6 characters with backspaces, line ends and wide characters | `ModesAreUsable`; the XOR cursor is on the screen once and in its place after every call (`CursorShown`); printing is writing on paper, whatever wraps and scrolls (`PrintsAsOnPaper`); `BackspaceErases`; the searches of Start end on the screen that the text modes are for (`StartsOnItsScreen`) |
| `Gop_modes` | 3 outputs of 4, 2 and 2 modes, one twice in a list, each two with a mode in common and all three with none; one output flaky once it is listed | `ModesAreTheIntersection`; mode number and information agree after modes are dropped and renumbered (`CurrentModeIsOffered`); the protocol is offered while an output is listed, and a frame buffer only of a single one (`OfferIsSound`); a client reads back what it drew (`ReadsBackWhatItDrew`); SetMode sets what QueryMode told (`QueryTellsTheMode`) |
| `Pointer_merge` | 2 simple pointers of different resolutions, or 2 absolute ones of different ranges, the second without an axis; one simple pointer flaky; 2 motions, unit 1, an INT32 of -6 to 5, in which neither two counts of one pointer can be multiplied by the virtual resolution of 4 nor one of each added, allocations fail | until a motion is read that is too large for it, no motion is lost or told twice (`MotionIsConserved`); `PositionIsInRange` for ranges that begin at 0; a waiting client gets all news (`EveryChangeIsRead`, liveness) |
| `Serial_ports` | UART: 2 levels, both of which write and one of which reads single bytes, a FIFO of 2, messages of 1 and 2 bytes with line ends, one call above each call at a time; memory: a ring of 3 bytes, one image, 2 levels that print messages of 1 and 2 bytes and initialise, between any two accesses of each other; screen: 2 columns, 2 lines, glyphs of 2 lines of pixels, 4 calls | whoever saw the transmitter empty finds room (`RoomWhenReady`); `KeepsThePromise` and `KeepsTheLog` (refinements); every Write returns (`WriteReturns`, liveness); the page shows the end of what was printed, nothing of it twice or out of place (`ScreenShowsTheEnd`), and the glyph that fills a page is on the next one (`LastGlyphShows`) |
| `Peripherals` | pins 7, 12 and 13 of bank C and pin 3 of bank F, calls for pin 13 at one level and for the pin of bank F at a higher one that comes between their accesses, or the heartbeat; registers that are 0 or as after reset; frame buffers of 2x2 and 3x2 pixels in five formats (BGR, RGB, packed, 5-6-5, 10-10-10), lines with and without padding; a driver called at two levels | `ImplementsPins` (refinement); the heartbeat leaves the LEDs as it says (`LedsAreSet`); `LibraryDoesTheBlt` and `BltsAreAtomic` (refinements); what a Blt drew is in memory when it returns (`ReturnsShown`) |

A run that finds a counterexample to what the source says of itself (the quoted line is under
`findings`):

| Run | Refutes | Because |
|---|---|---|
| `ToggleSync_torn` | keyboards are synchronised (`QuietMeansInSync`) | a notify in the middle of SetState |

**Further disagreements.** Each is a property of a module, most of them under "Claims of the source",
and is refuted in seconds by a run of the configuration in the table's heading with the property
and the constants of the row in place of its own: the code does one thing and says another. They
are not among the runs of `PROJECT.json`, which are kept to the ones that say most.

*Keyboard.* The row's constants replace those of `ConIn_keys` (first three, which also do without
`VIEW`) or `ConIn_registry` (the others).

| Property | Constants | What the code does, and what it says |
|---|---|---|
| `GoodDevicesInSync` | `Flaky = {d2}`, `ConnectOnDemand = FALSE`, `MaxKeys = 0` | a keyboard that refuses SetState ends the loop (CS 3970) with the earlier ones told and nothing recorded; `ConSplitter.h` 126: "initialized and synced between console input devices" |
| `QueuedKeyIsSignalled` | `Locks = {NoLock}`, `CallerStates <- MCNoStates`, `ConnectOnDemand = FALSE`, `MaxKeys = 3` | a keystroke that ReadKeyStrokeEx left in KeyQueue (3889) does not signal the wait event (3688); 3616: "The WaitForKey Event can be used to test for existence of a keystroke" |
| `StartErrorMeansNotAdded` | `HasEx = {d1}`, `Locks = {NoLock}`, `CallerStates <- MCNoStates`, `AllocUnit = 1`, `ConnectOnDemand = FALSE`, `MaxKeys = 0` | Start returns the status of opening the Ex protocol (1205) for a keyboard it has added (1200); 1166: "other Console In Consplitter does not support this device" |
| `UniqueHandle` | `Dev = HasTextIn = {d1, d2}`, `Flaky = {}`, `NotifyIds = {tog, n1, n2}`, `Covered <- MCShared`, `AllocUnit = 2`, `MayRunOut = FALSE` | a registration that an earlier one covers returns its handle (4038); 3999: "Points to the unique handle assigned to the registered notification" |
| `UnregisterRemoves` | `Dev = HasTextIn = {d1, d2}`, `Flaky = {}`, `AllocUnit = 2`, `MayRunOut = FALSE` | a removal moves the devices (2069) and leaves their handles, so a later unregistration pairs a keyboard with the handle of another; 4105: "The notification function was unregistered successfully" |

*Text consoles.* The constants of `ConOut_modes` without `VIEW`, with `AllocUnit = 2`, `MayStop = FALSE`,
`MayRunOut = FALSE`, `Attributes = {7}`, and of the row (`Dev` and `ConOutDev` are its consoles).

| Property | Constants | What the code does, and what it says |
|---|---|---|
| `FallbackIs80x25`, `FallbackSucceeds` | `{wide}`, or `{term}` for the second; `HasGop = {}`, the console flaky | the fallback is the 90x80 mode (CS 3115), which a terminal lacks: the ASSERT of 3116 is reached; 3113: "default 80x25 mode will be set" |
| `ModeZeroIsCommon` | `{gfx, term}` | mode 0 is never intersected (2443) although GraphicsConsole's is 90x80 (GC 293), so a terminal has no common mode 0 and is passed mode -1; 2409: "EFI/UEFI spec require mode 0 is 80x25" |
| `SetModeIsShown` | `{wide}`, `HasGop = {}`, `Flaky = {wide}` | SetMode records a mode that a console refused (4897), so a retry only clears the screen and succeeds; 4833: "The requested text mode was set" |
| `SharedMeansSynced` | `{wide, slim}`, `StdErrDev = {wide}`, `HasGop = {}` | the scan advances the list of StdErr and does not set it back for ConOut's next console (2628), so a shared console that is not ConOut's first is not found; 3203: "Scan both TextOutList, for the intersection TextOut device [...] thus the output of both should be synced" |
| `CurrentModeKept` | `{term, wide}`, `HasGop = {}`, `MayStop = TRUE` | a removal computes the mode map anew from the remaining consoles (3439) and `TextOutMode.Mode` keeps its number, so the current mode becomes one of another size and no console is told; 2508: "Must make sure that current mode won't change even if mode number changes" |
| `StartErrorMeansNotListed` | `{term}`, `HasGop = {}` | Start returns the status of the graphics half (3211) for a console it has listed; 1324: "other Console Out Consplitter does not support this device" |
| `MapFitsList` | `{wide, term}`, `HasGop = {}`, `MayRunOut = TRUE`, `AllocUnit = 1` | the list grows (3167), the map's allocation fails (3180) and the old map is read with the new row length; 3177: "Also need to reallocate the TextOutModeMap table" |

*Graphics, pointers.* The constants of `Graphics_console`, `Gop_modes` (with `Flaky = {}`) and `Pointer_merge`.

| Property | Constants | What the code does, and what it says |
|---|---|---|
| `EveryModeFits` | of `Graphics_console` | mode 0 is 90x80 on every screen (GC 293), also on those lower than 1520 pixels, where DeltaY wraps around and nothing is drawn; with no size asked for it is the mode a 1920x1080 console starts in (615), because no mode has more rows; GC 282: "does not include the invalid modes which exceed the max column and row" |
| `OutOfResourcesChangesNothing` | of `Graphics_console` | SetMode erases the cursor and frees the line buffer (GC 1372-1374) before it allocates the new one; the pointer stays, so the next SetMode or Stop frees it again; 1385: "No changes to the state of the current console have been made" |
| `CountNeverWraps` | of `Gop_modes`, `MayRunOut = TRUE` | a console whose mode buffer is not allocated (CS 2802) is listed and not counted, and counted down when it leaves (3361) |
| `ModesAreUsable` | of `Gop_modes`, `FlakyStart = {g1}` | when the outputs refuse the mode of the console that joins, entry 0 of the mode buffer is overwritten with 800x600 (CS 3031), which they may not have; 3028: "not valid for display device, set to the default mode 800x600" |
| `QueryAlwaysTells` | of `Gop_modes` | QueryMode asks the last output that is left under the number of the virtual mode (`ConSplitterGraphics.c` 71), whose list is another one; SetMode goes by the mode buffer |
| `SameModeEverywhere` | of `Gop_modes` | a console that joins with the virtual resolution, and one whose output is started anew, leave the others where they are; CS 2916: "Graphics console driver can ensure the same mode for all GOP devices" |
| `MotionIsReturned` | of `Pointer_merge`, `SPECIFICATION Spec` | one pointer that fails makes the result an error (CS 4264-4265), and the motion of the others, which they have forgotten by then, is in a state that came with an error; 4231: "if any physical console input device has key input, return the key and EFI_SUCCESS" |
| `MotionAddsUp` | of `Pointer_merge`, `SPECIFICATION Spec` | the motion is multiplied by 0x10000 as an INT32 (CS 4254, 4258, 4262), so 32768 counts that nobody read, or a sum over several pointers of as much, come out as another motion, with success; 4203: "The state information of simple pointer device" |
| `PositionIsInRange` | of `Pointer_merge`, `Side <- MCSideOff` | a position is scaled by the length of the device's range and the range's lower end is not subtracted (CS 4476-4484), so a pointer whose range does not begin at 0 leaves the virtual range; 4473: "Rescale to Con Splitter virtual Absolute Pointer's resolution" |

*Libraries and drivers of the board.* The constants of `Serial_ports` with `SPECIFICATION PortSpec`, or of
`Peripherals`.

| Property | Constants | What the code does, and what it says |
|---|---|---|
| `KeepsThePromise` | `FifoDepth = 1` | the library does not switch the FIFO on, and with one holding register a preempting call that writes between the look at the line status and the write (`SerialPortLib.c` 63-64) has its byte overwritten |
| `KeepsThePromise` | `ReadLengths <- MCTwoBytes` | Read does not advance `Buffer` (96): of several bytes the last remains; 73: "Reads NumberOfBytes data bytes from a serial device into the buffer" |
| `KeepsThePromise` | `Readers = {1, 2}` | a preempting Read takes the byte whose arrival the first has seen (95-96), which then reads what is not there |
| `KeepsTheLog` | `Images = {i1, i2}`, with a second model value | every image has an offset of its own into the one region (`InMemorySerialPortLib.c` 44-53), so they write over each other |
| `StaysInRegion` | of `Serial_ports` | a print that preempts another between `offset++` and the wrap reads the size as its offset and writes behind the region (48-51) |
| `EveryByteIsKept` | of `Serial_ports` | a print that preempts another between the reading of the offset and `offset++` has its byte written over (48) |
| `InterruptsAreRestored` | of `Serial_ports` | the line end restores the interrupts from a variable that it has not set (`FrameBufferSerialPortLib.c` 127, 182) |
| `WritesReturn` | `MaxY = 4` | on a screen without a second line a line end begins a page that ends at once, for ever (170-177) |
| `OutputsObey` | of `Peripherals` | SetOutput only sets bits (`SunxiGpioDxe.c` 201-216): an output once enabled is never disabled. The heartbeat passes a configuration (7) as SetOutput's enable (`HeartbeatDxe.c` 23), which sets the outputs of pins 12, 13 and 14; `SunxiGpio.h` 128: "enables or disables the output of the defined pin" |
| `ImplementsPins` | `Pins <- MCHigh`, `Called <- MCHighCalled` | `GPIO_CFG2_BASE` (`SunxiGpio.h` 24) is the address of the second register, so pins from 16 on configure pins 8 to 15; `GPIO_MDR_BIT` shifts them by 32 and more |
| `ImplementsPins` | `Called <- MCShared` | a call between the read and the write of another to the same register is lost: there is no lock |
| `ReturnsShown` | of `Peripherals`, `DriverAsked <- MCDriverUp` | a move to a higher address also writes one line below the rectangle (`FrameBufferBltLib.c` 612-616); below the last line of the screen that is memory which the write-back of the frame buffer (`SimpleFbDxe.c` 195) leaves in the cache |
| `LibraryDoesTheBlt` | module `MCFrameBufferBlt`, `SPECIFICATION BltSpec`, property `DoesTheBlt`, `Left = {}`, `Infos` and `Asked` as follows | |
| | `MCBgr`, `MCAskedUp` | a move to a higher address begins one line below the last (`FrameBufferBltLib.c` 612-616) |
| | `MCBgr`, `MCAskedSub` | on a BGR frame buffer BufferToVideo ignores SourceX (515) |
| | `MCOne`, `MCAskedAll` | a fill at once of less than 8 bytes, one pixel of 4, sets all its bytes to the first (279-289) |
| | `MCOdd`, `MCAskedAll` | a fill at once of an odd number of 2-byte pixels fills the last one with twice the same byte (279-289) |
| | `MCNine`, `MCAskedAll` | pixels of 9 bits are given one byte, `(8 + 7) / 8`, and lose their highest bit (85-86) |
| | `MCOverlap`, `MCAsked` | channels that share bits show each other's (the ASSERT of 70 forbids them) |
| | `MCHole`, `MCAsked` | a channel is shifted as a whole, by the place of its highest bit (72): a hole in its mask drops a high bit of the colour, not the lowest |
| | `MCUneven`, `MCAsked` | a channel of more than 8 bits takes the high bits of the next lower colour in its lowest (`Stored`), and is read back with them: more of that colour than its own two bits hold |

**Bounds, and why they are enough.** Every list operation concerns a device and those before and
behind it: with two there is a first and a last, with three one in the middle; the
allocation unit 1 makes every addition grow every array, 2 makes some not. A key queue that
mixes two keyboards' keystrokes needs two of each. Toggle races need one notify inside a loop
and one behind it. The consoles' modes are chosen so that lists overlap, are numbered
differently, lack mode 1 and lack a common mode 0; those of the graphics outputs so that the
intersection shrinks to one mode, to none, and drops a mode listed twice. The only unbounded
data, keystrokes, key presses, motions and printed messages, is bounded by `MaxKeys`, `MaxPresses`,
`MaxMoves` and `MaxPrinted`; the physical consoles' strings are reduced to
where the cursor ends (`Cells`). A text window of 2 columns and 2 rows has a first and a last of
both, and three characters wrap and scroll it; the wide character that finds one column left
needs no more. `MaxLoose` is 1: what happens on a screen that is not the console's own is explored
for one call after it ceased to be, then only calls that clear the screen are. Two motions, one on
each pointer, are what a merge needs, and two on one pointer are what an INT32 of `Half = 6` cannot
take times the virtual resolution, which stands for the 32768 counts of the code's. Two levels that use the UART give one preemption, and a
message with a line end two places for it; a ring of 3 bytes is written once around by a message and
a half. A page of two lines and two columns is filled by four glyphs, which two calls print; the
remaining two calls begin the next page. Frame buffers of two lines of two or three pixels have
lines with and without padding and rectangles at every edge; the colours differ in the bits that
each format drops. `ConIn_keys`, `ConOut_modes`, `ConOut_step`
and `Graphics_console` use a view without `ret`: their invariants do not mention it, and their
action properties look at steps, of which none is skipped.

A shared console is in whatever mode and attribute the splitter that set it last gave it: that is
why `ConsolesInStep` speaks of a splitter's own consoles, and why OutputString sets the attribute of
every console first.

**Fairness.** `ConInReader` and `PointerSplitter`: weak fairness of a client that polls the event and then
reads, in a loop that does not stop. `ToggleSync`: weak fairness of the steps of a call in progress
(it runs on) and of each keyboard's delivery (its driver polls on a timer). `UartPort`: weak fairness of the
line, which carries what is in the transmitter, and of the call that runs, at each level: the
processor runs it. A call of a level runs only while no higher one does, and weak fairness alone
allows calls above without end, which is a system that is too busy; `MaxAbove` bounds how many
preempt one call. Keys, motions, calls and arriving bytes come without any fairness.

Deadlock is checked in every run but `Peripherals`, in which the heartbeat ends after five calls
and a driver that failed to start does nothing more.

## 4. What is proved

Theorems hold for every value of the constants that meets the named `ASSUME`s of the modules and the
hypotheses that a theorem states for itself. Each such hypothesis is one that TLC shows to be needed:
the row of the tables above that refutes the property without it is named below.

**`ConInSplitterProofs`**, for any finite set of keyboards, any notifies, any allocation unit, with
allocations and keyboards failing:

* `RegistryInvariant`: `Spec => []RegistryInv`. The properties alone are not inductive: that the
  queue is not overrun needs its size to follow `TextInExListCount`, and that is exact only up to
  one growth, because a Start that fails after growing the queue leaves it one unit ahead
  (`keyQueueSize \in {count, count + unit}`). That every notify is on every keyboard needs the
  notify list to be without duplicates. That a removal leaves the other handles usable needs
  `HandlesAligned`, which exempts `shifted` keyboards: those are exactly the ones that refute
  `UnregisterRemoves`.
* from it `ArraysAreNotOverrun`, `ListedAreOpen`, `NotifiesAreEverywhere`, and the action properties
  `UnregisterCompletes` and `FailuresAreUndone`: what a Start or a registration has put on keyboards before it
  fails is what it takes off again. The loops that register (CS 2005-2012, 4066-4072), walk back (2014-2020,
  4077-4082) and unregister (4130-4135) are folds over the places of the list, one call on a keyboard each
  round; what they leave behind is proved by induction over the rounds (`DeviceRegistered`,
  `DeviceWalkedBack`, `KeyboardsRegistered`, `KeyboardsUnregistered`).
* `TogglesFollow`: every listed keyboard is in the recorded lock state after every call. A keyboard that
  presses a lock key tells the others through the toggle notify, so `RegistryInv` is needed to know that
  this is on every keyboard. Hypotheses: no keyboard refuses a call (`GoodDevicesInSync`), and no client's
  registration covers the toggle notify (`ToggleIsOwn`: the function is the driver's own and compared by
  address, so a client cannot register it and then take it away).
* `OrderIsKept`, `NoKeyIsLost`: from `KeysInv`, which orders the whole way of a keystroke: what a client
  got of a keyboard comes before what the queue holds, that before what the keyboard still has. No
  hypotheses. ReadKeyStroke and ReadKeyStrokeEx leave the queue in different shapes (the one drops
  partial keystrokes as it goes), and both keep it `Ascending`.

**`ToggleSyncProofs`**, for any keyboards, lock states and number of presses: `KeyboardsSettle`
(`SettledInv`: in every phase of every call, each listed keyboard that the phase has passed has
settled, that is, will agree with the recorded state once it has delivered what it has typed)
and `QuietIsSynced`. The invariant follows the index of each loop; `torn` is what breaks it.

**`ConOutSplitterProofs`**, for any consoles, mode lists and sizes, with allocations and consoles failing:

* `ConsolesAlways`: `Spec => []ConsolesInv`. Its core (`ConsoleOK`) says that the rows of a map are in the
  order of the first console's modes. That is why each step of a call keeps the tables: adding a
  console's mode finds its row by size, the intersection of the two splitters drops rows
  and moves the others up without reordering them (`Nth`, the k-th of the rows that are kept), and a
  removal computes the map anew (`Rebuilt`, by induction on the number of consoles).
* `SoundMap` follows from it without hypotheses. `CompleteMap` is for splitters that cannot share a
  console: intersecting ConOut with StdErr drops modes that all of ConOut's consoles have, and a
  removal at StdErr does not bring them back.
* `FirstShared`: with a shared first console neither splitter offers, from mode 2 on, a size that the other
  does not have. It needs the intersection to get its memory, and nothing of the mode lists: the first two
  modes, which no intersection looks at (CS 2443), may differ, as GraphicsConsole's mode 0 does. With
  `{gfx, wide}` on ConOut and all three on StdErr TLC finds no counterexample to the property, and one to the
  two offering the same sizes: they do when their first two modes are alike. That a mode whose number
  is kept on one side is found by its size on the other needs the first mode of a size (`FirstOfSize`),
  because the code looks for that one (CS 2683-2694).
* `InStep`: a splitter is in one of its modes, its own consoles are in that mode and the cursor is inside
  it (`ConsolesInStep`). The property is false within a Start, so `StepInv` is carried through its steps
  with two cases: a console is being added and the mode is a number behind all modes (`Above`), also after
  rows were dropped and the number counted down with them; otherwise the splitter is in its mode (`InMode`),
  which moves with its row when rows before it go, and mode 0 is set when its own row goes. The preferred
  mode exists because mode 0 is reported (`HighestIsReported`), and no console refuses it because the map
  is sound and filled (`EntryLeads`). Hypotheses: nothing fails, nothing leaves, memory suffices, and all
  consoles have the same mode 0 and, where they support it, the same mode 1 (`UsualModes`). TLC
  refutes the property when one of these is dropped: a console `wide` that fails while it is added;
  `MayStop` or `MayRunOut` with `{wide, term}`; `{gfx, term}`, whose modes 0 differ, the case of
  `ModeZeroIsCommon`; a second console with mode 0 only, or with 128x40 as its mode 1.

**`PointerSplitterProofs`**, for any pointers, axes and allocation unit:

* `PointerTypes`: both lists hold open devices, each once, and never more than their array has room for.
* `MotionConservation`: what was moved is what was told, what was dropped with an error, and what is
  still in the devices (`Conserved`), summed over the set of devices, until something is read that is too
  large for an INT32 (`exact`; the row of `MotionAddsUp`). That what is read fits is a bound on the
  magnitudes; the proof carries it along the loop of GetState, where the partial sums never exceed it
  (`LoopIsExact`), so no product and no sum wraps. Hypothesis: each resolution divides
  the virtual one, so that scaling loses nothing.
* `PositionRange`: hypothesis, ranges begin at 0 (`PositionIsInRange`, last row of its table).

**`GraphicsSplitterProofs`**, for any outputs, mode lists and failures:

* `ReadsBack`: `GopSpec => ReadsBackWhatItDrew`. The invariant is that what was drawn is on every
  listed output (`DrawnInv`): a failing output makes `drawn` unknown, a new one too, and a removal
  keeps it.
* `OfferStaysSound`: `~MayRunOut /\ GopSpec => []OfferIsSound`. The count of outputs must be the length
  of the list (`Counted`), which a failing allocation breaks (`CountNeverWraps`), and the first output
  must be in a mode that it has, so that its number is found and the first Start succeeds: a search
  for a first number needs that sets of numbers have a least element.
* `CurrentMode`, `SharedModes`, `ToldMode`: the intersection of the mode buffer with a new output's modes (a
  fold) keeps those that both have, each once, and in their order; so the number of the current mode is
  found again after the drop. The last two need that the outputs accept the mode of the one that
  joins (`ModesAreUsable`).

**`SerialPortsProofs`**:

* `TransmitterHasRoom`: `UartSpec => []RoomWhenReady`, for any number of levels and any messages. The
  invariant counts: bytes in the FIFO and levels that saw it empty and have not written since are
  together at most `Levels` (`UartInv`). Whoever sees it empty adds one to the second when the first
  is 0, and writing moves one from the second to the first.
* `UartKeepsPromise`: `UartSpec => KeepsThePromise`, step by step: a write to the data register maps to a
  stutter, because a byte moves from what a call still has to what the FIFO owes for the level; the
  line's taking the first byte of the FIFO maps to the abstract delivery. The three hypotheses are the
  rows of `KeepsThePromise` in the table: a place in the FIFO for each level, reads of one byte, one level
  that reads.
* `RingImplementsLog`: with one image, `RingSpec => KeepsTheLog`, for any size of the ring, any messages
  and any number of levels that print and initialise between any two accesses of each other. A print
  maps to the abstract `Put` at its store and to stutters at its other accesses; one that comes in
  between another's accesses makes the log begin anew (`used = 0`), and what it and the one under it
  write until both are over is not counted. The invariant (`RingInv`) says that a call nothing came in between
  of is the only one and how far the offset is at each of its accesses, that there is no log while a
  torn call or Initialize runs, and that the offset is the size or more only while a call that moved it
  there has yet to wrap it. The arithmetic of the mapping is in the lemmas on `Ago`, the place of the byte
  written k bytes ago.
* `ScreenShows`: `ScreenSpec => []ScreenShowsTheEnd`, for any screen on which a glyph fits and any
  messages, each written by a call that no other comes in between of. What a page reads as is one sequence over its cells, so a glyph put on it is appended only if
  all cells behind it are blank; the invariant (`Sound`) therefore says how far the current line is
  filled (`FilledTo`): up to the position, or, after a return, up to any column with the position at the
  first. Nothing is behind that. A glyph put on a blank cell is read last; one put on a cell with a
  glyph sets `over`, until the page is cleared; a clearing begins anew, and the glyph that filled the page is
  put again, so the page is the end of the log once more. With room for two lines (`MaxY > 2 * Scale`) a
  cleared page takes a line end, which is why nothing hangs.
* `LastGlyph`: `ScreenSpec => LastGlyphShows`, from the same invariant along the fold of the message: after
  the character that is put last, the last glyph that is read is the last of the log.

**`BoardProofs`**, the drivers of the board's own devices. The pins:

* `GpioImplementsPins`: `AsUsed /\ GpioSpec => ImplementsPins`, for any number of levels, registers,
  configurations, drive levels and output values, and for the heartbeat's calls too. `AsUsed` says that
  clients name pins up to 15, and those of different levels pins of different banks; the table above shows
  that both are needed. The invariant ties the word that a call has read to the register and to the pin's
  fields (`InCall`), at each level, since calls of different levels have different registers
  (`CallsApart`); the lemmas say that a field written leaves the fields of other pins, and of the pin's
  other registers, as they are.
* `LedsSet`: the heartbeat's five calls leave its two pins as it means to, for any registers
  before (`LedInv`: what each completed call has set is still there after the next ones).

The simple frame buffer:

* `ReturnShows`: `DisplaySpec => ReturnsShown`, for any frame, pixel format, number of levels and requests.
  Drawing is done at TPL_NOTIFY, the write-back after it at the caller's level, so that calls of higher
  levels draw between two of its lines. `FlushInv` says that a call which flushes and above which
  no call draws has on the screen what the frame holds, up to its line: a call that preempted it has
  flushed all of the frame before it returned. Hypothesis `NoMovesUp`: the row of `ReturnsShown` in the
  table; such a move writes behind the screen, where no write-back goes. Every other line that the
  library copies is shown to stay inside (`LineStays`).
* `LibraryBlts`: `Served /\ Driven => (DisplaySpec => LibraryDoesTheBlt)` and `AtomicBlts`:
  `Driven => (DisplaySpec => BltsAreAtomic)`, the two refinements of `PixelScreen`, for any size of the
  frame, padding of its lines, pixel format, colours and requests, the second for any number of levels. First,
  bytes: after k lines of a request the frame is what it was, with the first k lines of the rectangle painted
  (`Painted`, byte by byte, over places `(x, y, j)`), whichever way the library takes: a fill at once or in
  lines from the line buffer, a write through the line buffer or past it, a move (`Begins`, `Proceeds`,
  `Ends`). Then, colours: a frame so painted shows the colours of the abstract screen (`ColourShown`: shifting
  into the masks and back keeps of each channel the high bits that it has room for). The library alone folds the
  lines (`LineFoldExists`), and `BltInv` adds that only bytes of pixels are ever written. The driver draws
  line by line; its invariant `DrawInv` says that at most one call draws, with nothing above it
  (`OneDraws`: that is what raising to TPL_NOTIFY is for), and that the frame is, for that call, what it found
  with its lines so far painted (`Draws`); so the screen as it was before the call, up to the drawing of the last
  line, is the abstract one. The driver's theorem needs no `Shows`: it configures the library for BGR (`BgrShows`).
  Hypotheses: `Does`, what the library draws as it is asked (moves to lower addresses, writes from the
  first column of the buffer on BGR, no fill at once that ends in less than a word), for the driver's
  requests (`Driven`) and the clients' (`Served`), and for the latter `Shows`, a format whose channels
  are disjoint runs of bits inside the pixel's bytes, none or all of them longer than 8. The rows of
  `LibraryDoesTheBlt` in the table refute the property without each of them; `Driven` and `Served` are true of the
  constants of the run.

The console that is drawn on it, for any glyph size, screens, mode lists, strings and refusals:

* `CursorIsShown`: `Spec => []CursorShown`. The cursor is an XOR, so what counts is that each call toggles it
  in pairs. The invariant (`ConsoleInv`) says that while the screen is the console's own, the marks on it
  are exactly the one that the recorded position, visibility and colour call for (`Expected`). Two facts
  carry it. A window is either wholly on the screen or not at all (`WindowOnScreen`): only mode 0 can be larger
  than the screen, its origin is then half of a negative number taken modulo the word, and `RoomAssumption`
  (screens and sizes are far from overflow) keeps that apart from every place on it. And a string, with the
  cursor off, leaves no mark wherever it wraps, scrolls, steps back or prints a line end with itself (`Printed`,
  which also says when the position is in the first column: a wide character that does not fit is
  preceded by a line end); a draw that fails may leave a glyph behind, and `loose` counts it.
* `PaperShows` and `BackspacesErase`: `Spec => []PrintsAsOnPaper` and `Spec => []BackspaceErases`, for any
  strings, modes and screens that hold the window. `ConsoleInv` says where the cursor is, `SheetInv` adds
  that the text is a function on the cells of the window. When the window is on the screen, so is every
  cell and every block that a scroll moves, so no Blt is refused (`InSide`, `InWindow`). The properties are
  then about one call, from any state of the invariant: by induction over the characters of the
  string, after n of them the window is the paper with n characters on it, from the row `Above(con, n)` on,
  and the cursor is at character n (`OnPaper`, `PaperStep`). The paper is numbered by place, one row after
  the other, so that wrapping does nothing to it; only a character at the last place of the
  window scrolls, which makes the paper's next row the window's first.
* `UsableModes`: `Spec => []ModesAreUsable`, from the list that InitializeGraphicsConsoleTextMode builds
  (`TextModesFacts`) and the searches for the mode to start in.
* `OwnScreenAtStart`: `Spec => StartsOnItsScreen`: of the three searches of Start the last one, which may
  fall back on another resolution, decides for both the screen and the text modes (`ChosenFacts`).

The folds of the console (characters of a string, sizes offered, modes searched) are unfolded step by step
in lemmas of one pattern each (`...FoldExists`, `...FoldSteps`): the community modules define a fold from
the left over a set of positions, of which it takes the largest last.

**`CommonLemmas`** holds what these rest on: removal from a device list, the k-th member of a set of
numbers, places in lines of a given length, the largest of a finite set of numbers (what a fold over
positions takes first), and induction over the natural numbers as a statement about an explicit set (`SetInduction`:
a set with 0 and with the successor of each of its numbers is `Nat`), which follows from the library's theorem that `<` is
well-founded. The library's own induction theorems take an operator as a parameter and cannot be used with
the provers at hand; with `SetInduction` the proofs go through what recursive functions and folds compute
(`Rebuilt`, the intersection of modes, `FlattenSeq`).

The assumptions are the named `ASSUME`s of the modules: finite sets of devices, units and depths of at
least 1, `IsKeyRegistered` reflexive, no handle that is the null pointer, one lock state
that is all bits clear, consoles with at least one mode; requests of the frame buffer's clients that are
numbers and have the pixels they write, the two fixed layouts of RGB and BGR, mode sizes of at least 2 columns and a row, screens far from overflow, strings of characters; a serial
screen of at least a column and a glyph's height. `ListedAreOpen`, `KeyboardsSettle`, `PointerTypes`, `KeysAlways` and
`ConsolesAlways` are about invariants that no run lists by themselves: the first is part of
`RegistryInv`, the second is why `SyncedUnlessTorn` holds, the third is what the other properties of the
pointers take for granted, the last two are what the theorems after them follow from.

**Only model-checked:** liveness (`EveryKeyIsRead`, `AgreeInTheEnd`, `EveryChangeIsRead`, `WriteReturns`), which
is beyond the proof system's temporal reasoning.

## 5. Not modelled

Of the keyboard: shift-state merging of ReadKeyStrokeEx and which fields `IsKeyRegistered`
compares (a relation `Covered` between registrations stands for it). Of the text consoles: cursor
visibility, TestString, a failing allocation in `AddOutputMode` (the map is then NULL), a QueryMode
that fails for a mode other than 1, physical cursors, and reads with the wrong row length once
`MapFitsList` is violated (`SetMode` and the intersection with the other splitter, `MayIntersect`, are
disabled there: the memory read is not the map's); their
graphics half is `GraphicsSplitter`. Of the virtual graphics output and GraphicsConsole: UGA Draw,
which is compiled in and which nothing in the package produces. Of the former: failing calls of
the handle database and of QueryMode, pixel contents. Of the latter: Supported, the stateless
QueryMode and TestString, the registration of the font, a font that lacks a glyph in the middle of a
string, and a graphics output whose QueryMode fails; a screen smaller than the ASSERT's 80x25
disables Start. Of the pointers: what the buttons of several pointers add up to is modelled, and no
property is about it. Of the serial ports: control and attribute functions, which return
constants, Read and Poll of the two that do not read, the shape of glyphs, and `FbConScrollUp`, which
nothing calls; and, of the frame buffer port, a call that another one comes in between of. Write disables
the interrupts, but a line end restores them from a variable that it has not set
(`FrameBufferSerialPortLib.c` 127, 182, the row of `InterruptsAreRestored`), so when that happens to be
nonzero, an event that prints can come between the characters behind it, and inside a line end.
`ScreenShowsTheEnd` and `LastGlyphShows`, the run and the theorems, speak of writes that nothing
preempts. Of SimpleFb: QueryMode and SetMode, which change nothing.

Without a module, because a model would say nothing that a reading does not:

* the memory table and PrePi: one pass over a constant table, each entry of which is handed to
  external code that builds a hand-off block or a page table;
* the boot manager library: a straight line of calls into the external UefiBootManagerLib, which
  keeps the variables and decides what each call does; with a timeout of 0 its progress callback is
  not called;
* component names, SMBIOS tables, logo, ACPI tables, the platform driver and library: constant data
  and lookups in it.

## 6. Plan

Done: `ConInSplitter`, `ConInReader`, `ToggleSync`; `TextModes`, `ConOutSplitter`; `GraphicsModes`, `GraphicsConsole`;
`PointerSplitter`; `GraphicsSplitter`; the serial ports against `SerialLine` and `RollingLog`; the pins against
`GpioPins`; Blt and SimpleFb against `PixelScreen`; the proofs of section 4.

What is left, in order of worth:

1. `GraphicsConsole` as an implementation of the physical console of `ConOutSplitter` (abstract
   specification: mode in range, cursor inside the mode, a failed call changes neither), and
   `GraphicsSplitter` as the graphics half of its Start and Stop in one composition.
2. A map that is NULL after a failed allocation in `AddOutputMode`, cursor visibility.
