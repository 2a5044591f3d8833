---------------------------- MODULE ConOutSplitter ----------------------------
(***************************************************************************)
(* The text-output half of Drivers/ConSplitterDxe: the two virtual text     *)
(* consoles mConOut and mStdErr (TEXT_OUT_SPLITTER_PRIVATE_DATA), each of   *)
(* which aggregates physical text consoles, possibly the same ones.  One    *)
(* action is one call of a protocol or driver-binding function, run to its  *)
(* end; the steps of a call are operators on the record                     *)
(*   st = [con |-> the splitters, dev |-> the physical consoles].           *)
(* The graphics half of the same functions, the visibility of the cursor    *)
(* and the characters of a string are left out.                             *)
(***************************************************************************)
EXTENDS TextModes

CONSTANTS
  Dev,          \* handles with SimpleTextOutput
  Sizes,        \* Sizes[d][k]: the size of mode k of d, or NoSize
  ConOutDev,    \* handles that carry gEfiConsoleOutDeviceGuid
  StdErrDev,    \* handles that carry gEfiStandardErrorDeviceGuid
  HasGop,       \* handles with GraphicsOutput
  Flaky,        \* consoles whose calls may fail
  MayStop,      \* whether consoles are disconnected
  MayRunOut,    \* whether a pool allocation may fail
  AllocUnit,    \* CONSOLE_SPLITTER_ALLOC_UNIT
  Attributes,   \* attributes clients set
  Cells         \* cursor positions <<column, row>> that strings and clients reach

ASSUME ConsoleAssumption ==
  /\ IsFiniteSet(Dev)
  /\ ConOutDev \subseteq Dev /\ StdErrDev \subseteq Dev
  /\ HasGop \subseteq Dev /\ Flaky \subseteq Dev
ASSUME SizesAssumption ==
  \A d \in Dev : LET n == Cardinality(DOMAIN Sizes[d]) IN
    /\ n \in Nat \ {0} /\ Sizes[d] \in [0..n - 1 -> Nat \X Nat]
    /\ \A k \in 0..n - 1 : k # 1 => Sizes[d][k] # NoSize
    /\ \A k, l \in 0..n - 1 : Sizes[d][k] = Sizes[d][l] => k = l
ASSUME AllocAssumption     == AllocUnit \in Nat \ {0}
ASSUME SwitchAssumption    == MayStop \in BOOLEAN /\ MayRunOut \in BOOLEAN
ASSUME AttributeAssumption == Attributes \subseteq 0..127
ASSUME CellAssumption      == Cells \subseteq Nat \X Nat

Splitters == {"ConOut", "StdErr"}
Carrying(s) == IF s = "ConOut" THEN ConOutDev ELSE StdErrDev

VARIABLES
  con,      \* mConOut and mStdErr
  wanted,   \* <<PcdConOutColumn, PcdConOutRow>>
  opened,   \* per splitter, the devices whose guid is open BY_DRIVER
  dev,      \* the physical consoles: mode and attribute (external)
  ret       \* history: the last call, whether it succeeded, and how
            \* ConsplitterSetConsoleOutMode fell back (no, well, badly)

vars == <<con, wanted, opened, dev, ret>>

Unset     == 255                     \* 0xFF, while a console is being added
Origin    == <<0, 0>>
LightGray == 7                       \* EFI_TEXT_ATTR (EFI_LIGHTGRAY, EFI_BLACK)
OnBlack(a) == a % 16                 \* EFI_TEXT_ATTR (a & 0x0F, EFI_BLACK)
Inside(cell, size) == cell[1] < size[1] /\ cell[2] < size[2]

(* The listed consoles; the slots behind them keep what was in them.         *)
List(c)   == SubSeq(c.slots, 1, c.count)
Listed(c) == {c.slots[i] : i \in 1..c.count}
IndexIn(c, d) == CHOOSE i \in 1..c.count : c.slots[i] = d

Supports(d, k) == k \in DOMAIN Sizes[d] /\ Sizes[d][k] # NoSize

(* The map table is indexed with TextOutListCount as the length of a row.    *)
MapFits(c) == c.count = 0 \/ c.stride = c.listCount

-----------------------------------------------------------------------------
(* ConSplitterTextOutConstructor                                             *)
NoConsoles(c) ==
  [c EXCEPT !.count = 0, !.queryData = [k \in {0} |-> <<80, 25>>],
            !.map = [m \in {0} |-> <<>>], !.mode = 0, !.cursor = Origin]

Init ==
  /\ con = [s \in Splitters |->
       NoConsoles([slots |-> <<>>, count |-> 0, listCount |-> AllocUnit,
                   stride |-> AllocUnit, queryData |-> <<>>, map |-> <<>>,
                   mode |-> 0, cursor |-> Origin, attr |-> 0, adding |-> FALSE])]
  /\ wanted = <<0, 0>>
  /\ opened = [s \in Splitters |-> {}]
  /\ dev = [d \in Dev |-> [mode |-> 0, attr |-> LightGray]]
  /\ ret = [op |-> "Init", on |-> "ConOut", ok |-> TRUE, fell |-> "no"]

-----------------------------------------------------------------------------
(* The protocol functions, with the consoles of F failing their calls.       *)

ClearScreenFn(st, s, F) ==
  [st |-> [st EXCEPT !.con[s].cursor = Origin], ok |-> Listed(st.con[s]) \cap F = {}]

SetAttributeFn(st, s, a, F) ==
  [st |-> [con |-> [st.con EXCEPT ![s].attr = a],
           dev |-> [d \in Dev |-> IF d \in Listed(st.con[s]) \ F
                                  THEN [st.dev[d] EXCEPT !.attr = a] ELSE st.dev[d]]],
   ok |-> Listed(st.con[s]) \cap F = {}]

(* ConSplitterTextOutSetMode: a mode in force is not set again; while a      *)
(* console is added, nor is a console that is in the mode already.  The mode *)
(* is recorded whatever the consoles answer.                                 *)
SetModeFn(st, s, m, F) ==
  LET c     == st.con[s]
      to(d) == c.map[m][IndexIn(c, d)]
      told  == {d \in Listed(c) : ~c.adding \/ to(d) # st.dev[d].mode}
      set   == {d \in told \ F : Supports(d, to(d))}
  IN IF m \notin VirtualModes(c) THEN [st |-> st, ok |-> FALSE]
     ELSE IF m = c.mode THEN ClearScreenFn(st, s, F)
     ELSE [st |-> [con |-> [st.con EXCEPT ![s].mode = m, ![s].cursor = Origin],
                   dev |-> [d \in Dev |-> IF d \in set THEN [st.dev[d] EXCEPT !.mode = to(d)]
                                                       ELSE st.dev[d]]],
           ok |-> set = told]

-----------------------------------------------------------------------------
(* ConSplitterGetIntersectionBetweenConOutAndStrErr                          *)

(* The scan for a console in both lists: the StdErr pointer is not set back  *)
(* for the next console of ConOut, so it runs on behind the listed ones.     *)
SeenInBoth(out, err) ==
  \E i \in 1..out.count, j \in 1..err.count :
    LET p == (i - 1) * err.count + j
    IN p \in DOMAIN err.slots /\ out.slots[i] = err.slots[p]

(* Both maps are read where a console is found in both lists.                *)
MayIntersect(cons) ==
  SeenInBoth(cons["ConOut"], cons["StdErr"]) => \A s \in Splitters : MapFits(cons[s])

SameSize(c, m, size) == SizeOf(c, m) = size

(* A splitter whose mode was dropped goes to mode 0.                         *)
Narrowed(st, s, supported, F) ==
  LET cut == [st EXCEPT !.con[s] = GetIntersection(@, supported)]
  IN IF cut.con[s].mode < 0 THEN SetModeFn(cut, s, 0, F).st ELSE cut

(* Fault: the modes of StdErr are left as they were.                         *)
IntersectConOutOnly(st, F) ==
  LET out == st.con["ConOut"]
      err == st.con["StdErr"]
      inErr == {m \in VirtualModes(out) :
                  \E k \in VirtualModes(err) : SameSize(err, k, SizeOf(out, m))}
  IN IF SeenInBoth(out, err) THEN Narrowed(st, "ConOut", inErr, F) ELSE st

IntersectBoth(st, F) ==
  LET out   == st.con["ConOut"]
      err   == st.con["StdErr"]
      inErr == {m \in VirtualModes(out) :
                  \E k \in VirtualModes(err) : SameSize(err, k, SizeOf(out, m))}
      inOut == {k \in VirtualModes(err) :
                  \E m \in VirtualModes(out) : IsFirst(err, k, SizeOf(out, m))}
  IN IF SeenInBoth(out, err)
     THEN Narrowed(Narrowed(st, "ConOut", inErr, F), "StdErr", inOut, F)
     ELSE st

-----------------------------------------------------------------------------
(* ConsplitterSetConsoleOutMode                                              *)
Reported(c) == {m \in VirtualModes(c) : SizeOf(c, m) # NoSize}

LastOfSize(c, size) ==
  LET modes == {m \in Reported(c) : SizeOf(c, m) = size}
  IN IF modes = {} THEN Unset ELSE CHOOSE m \in modes : \A l \in modes : l <= m

(* The highest mode: a later mode replaces it unless smaller in one direction.*)
Highest(c) ==
  LET best[m \in 0..MaxMode(c)] ==
        IF m = 0 THEN Unset
        ELSE LET so_far == best[m - 1]
                 size   == SizeOf(c, m - 1)
             IN IF /\ m - 1 \in Reported(c)
                   /\ so_far # Unset => /\ size[1] >= SizeOf(c, so_far)[1]
                                        /\ size[2] >= SizeOf(c, so_far)[2]
                THEN m - 1 ELSE so_far
  IN best[MaxMode(c)]

Preferred(c) ==
  IF wanted[1] # 0 /\ wanted[2] # 0 THEN LastOfSize(c, wanted) ELSE Highest(c)

(* The preferred mode, or else (G failing now) the one of 90x80.             *)
SetConsoleOutMode(st, s, F, G) ==
  LET c     == st.con[s]
      first == SetModeFn(st, s, Preferred(c), F)
      base  == SetModeFn(first.st, s, LastOfSize(c, <<90, 80>>), G)
  IN IF first.ok THEN [st |-> first.st, fell |-> "no"]
     ELSE [st |-> base.st, fell |-> IF base.ok THEN "well" ELSE "badly"]

-----------------------------------------------------------------------------
(* ConSplitterConOutDriverBindingStart, ConSplitterStdErrDriverBindingStart  *)

Returns(op, s, ok, fell) == ret' = [op |-> op, on |-> s, ok |-> ok, fell |-> fell]

Takes(st) == con' = st.con /\ dev' = st.dev

StartRefused(s, d) ==
  /\ d \in opened[s] \/ d \notin Carrying(s)
  /\ Returns("Start", s, FALSE, "no")
  /\ UNCHANGED <<con, wanted, opened, dev>>

Joining(s, d) ==
  /\ d \in Carrying(s) \ opened[s]
  /\ MapFits(con[s])
  /\ opened' = [opened EXCEPT ![s] = @ \cup {d}]

ListFull(c) == c.count >= c.listCount

(* TextOutList, or only the map table after it, cannot grow: the mode stays  *)
(* unset and AddingConOutDevice set.                                         *)
StartNoMemory(s, d) ==
  /\ Joining(s, d)
  /\ MayRunOut /\ ListFull(con[s])
  /\ \E grown \in {con[s].listCount, con[s].listCount + AllocUnit} :
       LET c == [con[s] EXCEPT !.mode = Unset, !.adding = TRUE, !.listCount = grown]
       IN Takes(SetAttributeFn([con |-> [con EXCEPT ![s] = c], dev |-> dev],
                               s, LightGray, {}).st)
  /\ Returns("Start", s, FALSE, "no")
  /\ UNCHANGED wanted

(* The new console in its slot, behind the listed ones, and in the map.      *)
Added(c, d) ==
  LET unset  == [c EXCEPT !.mode = Unset, !.adding = TRUE,
                          !.slots = IF c.count < Len(@) THEN [@ EXCEPT ![c.count + 1] = d]
                                                        ELSE Append(@, d),
                          !.listCount = IF ListFull(c) THEN @ + AllocUnit ELSE @]
      fitted == [unset EXCEPT !.stride = unset.listCount]
  IN IF c.count = 0 THEN AddOutputMode(fitted, Sizes[d])
                    ELSE SyncOutputMode(fitted, Sizes[d])

(* Fault: the new console is only set to the mode with the next SetMode.     *)
StartNoSetMode(s, d) ==
  /\ Joining(s, d)
  /\ LET added == [con |-> [con EXCEPT ![s] = Added(con[s], d)], dev |-> dev]
         both  == IntersectBoth(added, {})
         there == [both EXCEPT !.con[s].adding = FALSE,
                               !.con[s].mode = Preferred(both.con[s])]
     IN Takes(SetAttributeFn(there, s, LightGray, {}).st)
  /\ UNCHANGED wanted
  /\ Returns("Start", s, TRUE, "no")

(* The status is EFI_DEVICE_ERROR unless GraphicsOutput is installed on the  *)
(* virtual handle for the first console that has it.                         *)
StartAdds(s, d) ==
  /\ Joining(s, d)
  /\ \E F \in SUBSET Flaky, G \in SUBSET Flaky, skip \in {FALSE, MayRunOut} :
       LET added == [con |-> [con EXCEPT ![s] = Added(con[s], d)], dev |-> dev]
           both  == IF skip THEN added ELSE IntersectBoth(added, F)
           mode  == SetConsoleOutMode(both, s, F, G)
           there == [mode.st EXCEPT !.con[s].adding = FALSE]
       IN /\ skip \/ MayIntersect(added.con)
          /\ Takes(SetAttributeFn(there, s, LightGray, G).st)
          /\ wanted' = IF mode.fell = "no" THEN wanted ELSE <<90, 80>>
          /\ Returns("Start", s,
                     s = "ConOut" /\ d \in HasGop /\ Listed(con[s]) \cap HasGop = {},
                     mode.fell)

Start(s, d) == StartRefused(s, d) \/ StartNoMemory(s, d) \/ StartAdds(s, d)

-----------------------------------------------------------------------------
(* ConSplitterConOutDriverBindingStop, ConSplitterStdErrDriverBindingStop    *)

(* ConSplitterTextOutDeleteDevice: the slots behind the console move down,   *)
(* and the modes are computed anew from the consoles that remain.            *)
Removed(c, d) ==
  LET i    == IndexIn(c, d)
      left == [c EXCEPT !.count = @ - 1,
                        !.slots = [j \in DOMAIN @ |-> IF i <= j /\ j < c.count
                                                      THEN @[j + 1] ELSE @[j]]]
      fits == [left EXCEPT !.stride = left.listCount]
  IN IF left.count = 0 THEN NoConsoles(left)
     ELSE Rebuilt(fits, [j \in 1..left.count |-> Sizes[left.slots[j]]])

(* Fault: the consoles move down, the map keeps its columns.                 *)
StopKeepsMap(s, d) ==
  /\ MayStop /\ d \in opened[s]
  /\ opened' = [opened EXCEPT ![s] = @ \ {d}]
  /\ d \in Listed(con[s])
  /\ LET c == con[s]
         i == IndexIn(c, d)
         left == [c EXCEPT !.count = @ - 1,
                           !.slots = [j \in DOMAIN @ |-> IF i <= j /\ j < c.count
                                                         THEN @[j + 1] ELSE @[j]]]
     IN Takes([con |-> [con EXCEPT ![s] = IF left.count = 0 THEN NoConsoles(left) ELSE left],
               dev |-> dev])
  /\ Returns("Stop", s, TRUE, "no")
  /\ UNCHANGED wanted

Stop(s, d) ==
  /\ MayStop /\ d \in opened[s]
  /\ opened' = [opened EXCEPT ![s] = @ \ {d}]
  /\ \/ /\ d \notin Listed(con[s])
        /\ UNCHANGED <<con, dev>>
     \/ /\ d \in Listed(con[s])
        /\ \E F \in SUBSET Flaky, skip \in {FALSE, MayRunOut} :
             LET left == [con |-> [con EXCEPT ![s] = Removed(con[s], d)], dev |-> dev]
             IN /\ skip \/ left.con[s].count = 0 \/ MayIntersect(left.con)
                /\ Takes(IF skip \/ left.con[s].count = 0 THEN left ELSE IntersectBoth(left, F))
  /\ Returns("Stop", s, d \in Listed(con[s]), "no")
  /\ UNCHANGED wanted

-----------------------------------------------------------------------------
(* Calls of clients                                                          *)
Now == [con |-> con, dev |-> dev]

Does(op, s, result) ==
  /\ Takes(result.st)
  /\ Returns(op, s, result.ok, "no")
  /\ UNCHANGED <<wanted, opened>>

SetMode(s, m) ==
  /\ MapFits(con[s])
  /\ \E F \in SUBSET Flaky : Does("SetMode", s, SetModeFn(Now, s, m, F))

SetAttribute(s, a) ==
  \E F \in SUBSET Flaky : Does("SetAttribute", s, SetAttributeFn(Now, s, a, F))

ClearScreen(s) ==
  \E F \in SUBSET Flaky : Does("ClearScreen", s, ClearScreenFn(Now, s, F))

(* A mode that is not in the map is not looked up here: the code reads       *)
(* outside the tables.                                                       *)
SetCursorPosition(s, cell) ==
  /\ MapFits(con[s]) /\ con[s].mode \in VirtualModes(con[s])
  /\ \E F \in SUBSET Flaky :
       Does("SetCursorPosition", s,
            IF Inside(cell, SizeOf(con[s], con[s].mode))
            THEN [st |-> [Now EXCEPT !.con[s].cursor = cell],
                  ok |-> Listed(con[s]) \cap F = {}]
            ELSE [st |-> Now, ok |-> FALSE])

(* The consoles get the attribute first; the virtual cursor is then where    *)
(* the first console's is, somewhere in its mode.  Without consoles it moves *)
(* within the virtual mode.                                                  *)
OutputString(s) ==
  LET c    == con[s]
      size == IF c.count = 0 THEN SizeOf(c, c.mode)
              ELSE Sizes[c.slots[1]][dev[c.slots[1]].mode]
  IN \E F \in SUBSET Flaky, cell \in Cells :
       /\ Inside(cell, size)
       /\ LET colored == SetAttributeFn(Now, s, c.attr, F).st
          IN Does("OutputString", s, [st |-> [colored EXCEPT !.con[s].cursor = cell],
                                      ok |-> Listed(c) \cap F = {}])

(* Each console resets itself, to its own mode 0, and gets the attribute on  *)
(* black; the virtual mode becomes 0.                                        *)
Reset(s) ==
  \E F \in SUBSET Flaky :
    LET c     == con[s]
        done  == [d \in Dev |-> IF d \in Listed(c) \ F THEN [dev[d] EXCEPT !.mode = 0]
                                                      ELSE dev[d]]
        black == SetAttributeFn([con |-> con, dev |-> done], s, OnBlack(c.attr), F).st
    IN Does("Reset", s, [st |-> [black EXCEPT !.con[s].mode = 0, !.con[s].cursor = Origin],
                         ok |-> Listed(c) \cap F = {}])

-----------------------------------------------------------------------------
Next ==
  \E s \in Splitters :
    \/ \E d \in Dev : Start(s, d) \/ Stop(s, d)
    \/ \E m \in 0..MaxMode(con[s]) : SetMode(s, m)
    \/ \E a \in Attributes : SetAttribute(s, a)
    \/ \E cell \in Cells : SetCursorPosition(s, cell)
    \/ ClearScreen(s) \/ OutputString(s) \/ Reset(s)

Spec == Init /\ [][Next]_vars

-----------------------------------------------------------------------------
(* Properties                                                                *)

(* Columns and rows of a mode.                                               *)
Size == Nat \X Nat

(* Every entry of the map leads to a mode of its console that has the size   *)
(* QueryMode reports, from mode 2 on for every console, whatever consoles    *)
(* came and went and however often rows were dropped and moved.              *)
MapIsSound ==
  \A s \in Splitters : \A m \in VirtualModes(con[s]), i \in 1..con[s].count :
    LET c == con[s]
        k == c.map[m][i]
    IN \/ Supports(c.slots[i], k) /\ Sizes[c.slots[i]][k] = SizeOf(c, m)
       \/ m = 0 /\ k = None
       \/ m = 1 /\ (k = None \/ SizeOf(c, m) = NoSize)

(* "Max Mode is really an intersection of the QueryMode command to all       *)
(* devices": from mode 2 on the virtual modes are exactly the sizes that     *)
(* every listed console has, each once.  (Of one splitter without the other.)*)
MapIsComplete ==
  \A s \in Splitters :
    LET c == con[s]
        common == {Sizes[c.slots[1]][k] : k \in
                    {l \in DOMAIN Sizes[c.slots[1]] : l >= 2 /\
                       \A d \in Listed(c) : \E j \in DOMAIN Sizes[d] :
                         Sizes[d][j] = Sizes[c.slots[1]][l]}}
        offered == {m \in VirtualModes(c) : m >= 2}
    IN c.count > 0 /\ Listed(con["ConOut"]) \cap Listed(con["StdErr"]) = {} =>
         /\ {SizeOf(c, m) : m \in offered} = common
         /\ Cardinality(offered) = Cardinality(common)

Offered(c) == {SizeOf(c, m) : m \in VirtualModes(c) \ {0, 1}}

Told(c)    == {SizeOf(c, m) : m \in VirtualModes(c)}

(* When ConOut's first console is also one of StdErr, each offers, from mode *)
(* 2 on, no size that the other does not have, in whatever order the         *)
(* consoles joined and left the two lists.  (The first two modes are never   *)
(* intersected, so of them the one may lack what the other has.)             *)
FirstSharedMeansSynced ==
  LET out == con["ConOut"]
      err == con["StdErr"]
  IN out.count > 0 /\ out.slots[1] \in Listed(err) =>
       Offered(out) \subseteq Told(err) /\ Offered(err) \subseteq Told(out)

(* The consoles of one splitter that the other does not list.                *)
Own(s) == Listed(con[s]) \ UNION {Listed(con[t]) : t \in Splitters \ {s}}

(* A SetMode that succeeds, for a mode that QueryMode reports, leaves every   *)
(* console that is the splitter's own in a mode of that size.                *)
SetModeIsShown ==
  [][\A s \in Splitters :
       LET size == SizeOf(con'[s], con'[s].mode)
       IN ret'.op = "SetMode" /\ ret'.on = s /\ ret'.ok /\ size # NoSize =>
            \A d \in Own(s) : Sizes[d][dev'[d].mode] = size]_vars

(* While no console is removed or fails, the current mode is a virtual one   *)
(* and, unless it is a mode 1 without size, the splitter's own consoles are  *)
(* in it and the cursor is inside it (if no console is shared), whatever the *)
(* order of additions, intersections and mode changes.                       *)
ConsolesInStep ==
  \A s \in Splitters :
    LET c == con[s]
    IN /\ c.mode \in VirtualModes(c)
       /\ SizeOf(c, c.mode) # NoSize =>
            /\ \A i \in 1..c.count :
                 c.slots[i] \in Own(s) => dev[c.slots[i]].mode = c.map[c.mode][i]
            /\ Listed(c) \subseteq Own(s) => Inside(c.cursor, SizeOf(c, c.mode))

(* Claims of the source's comments that the code does not keep: see the     *)
(* README.                                                                   *)

(* "Must make sure that current mode won't change even if mode number        *)
(* changes".                                                                 *)
CurrentModeKept ==
  [][\A s \in Splitters :
       ret'.op = "Stop" /\ ret'.on = s /\ con'[s].count > 0 =>
         /\ con'[s].mode \in VirtualModes(con'[s])
         /\ SizeOf(con'[s], con'[s].mode) = SizeOf(con[s], con[s].mode)]_vars

(* "this routine will not check the intersection for mode 0 and mode 1":     *)
(* every console is supposed to have mode 0 in common.                       *)
ModeZeroIsCommon ==
  \A s \in Splitters : \A i \in 1..con[s].count : con[s].map[0][i] # None

(* "maybe both ConOut and StdErr incorporate the same Text Out device in     *)
(* them, thus the output of both should be synced."                          *)
SharedMeansSynced ==
  Listed(con["ConOut"]) \cap Listed(con["StdErr"]) # {} =>
    Offered(con["ConOut"]) = Offered(con["StdErr"])

(* "if current mode setting is failed, default 80x25 mode will be set."      *)
FallbackIs80x25 ==
  ret.fell # "no" => SizeOf(con[ret.on], con[ret.on].mode) = <<80, 25>>

(* ASSERT (!EFI_ERROR (Status)): the fallback mode can be set.               *)
FallbackSucceeds == ret.fell # "badly"

(* "other  Console Out Consplitter does not support this device."            *)
StartErrorMeansNotListed ==
  [][ret'.op = "Start" /\ ~ret'.ok => con'[ret'.on].count = con[ret'.on].count]_vars

(* "Also need to reallocate the TextOutModeMap table".                       *)
MapFitsList == \A s \in Splitters : MapFits(con[s])

=============================================================================
