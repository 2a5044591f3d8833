-------------------------- MODULE GraphicsSplitter --------------------------
(***************************************************************************)
(* The virtual graphics output of Drivers/ConSplitterDxe:                   *)
(* mConOut.GraphicsOutput, one screen in front of the graphics outputs of   *)
(* the consoles in TextOutList.  The package installs no UGA Draw and has   *)
(* no driver that produces it, so the list here holds the consoles with a   *)
(* graphics output.  One action is one call, run to its end.                *)
(*                                                                         *)
(* A graphics output is external: ModesOf[g] are the resolutions of its     *)
(* modes in the order of their numbers, of which QueryMode always tells;    *)
(* only SetMode and Blt may fail, and SetMode blanks the screen.  Mode      *)
(* numbers count from 1 here, and NoMode stands for the code's 0xffff.      *)
(***************************************************************************)
EXTENDS DeviceLists, FiniteSets, SequencesExt

CONSTANTS
  Gop,         \* consoles with a graphics output
  ModesOf,     \* ModesOf[g]: a sequence of resolutions
  Home,        \* Home[g]: the resolution of its graphics console's text modes
  Default,     \* 800 x 600
  Flaky,       \* outputs whose SetMode or Blt may fail
  FlakyStart,  \* those whose SetMode may fail while a console is added
  MayRunOut,   \* whether the mode buffer may not be allocated
  Pictures,    \* what clients draw
  Blank, Nobody

Resolutions == (UNION {Elems(ModesOf[g]) : g \in Gop}) \cup {Default}
NoMode      == 0

ASSUME GopAssumption ==
  /\ IsFiniteSet(Gop) /\ Nobody \notin Gop /\ Blank \notin Pictures
  /\ \A g \in Gop : ModesOf[g] \in Seq(Resolutions) /\ Home[g] \in Elems(ModesOf[g])
  /\ Flaky \subseteq Gop /\ FlakyStart \subseteq Gop /\ MayRunOut \in BOOLEAN

VARIABLES
  list,       \* the consoles of TextOutList
  count,      \* CurrentNumberOfGraphicsOutput
  modes,      \* GraphicsOutputModeBuffer, of GraphicsOutput.Mode->MaxMode entries
  mode,       \* GraphicsOutput.Mode->Mode
  info,       \* GraphicsOutput.Mode->Info
  frame,      \* whose frame buffer GraphicsOutput.Mode->FrameBufferBase is
  installed,  \* whether the protocol is on the virtual handle
  current,    \* per output: its resolution
  shown,      \* per output: its picture
  since,      \* history: outputs added since the list was last empty
  lastSet,    \* history: what the last SetMode of the virtual output returned
  drawn,      \* history: what the last successful Blt drew, until a mode is set
  ret         \* history: the picture the last successful Blt read

splitterVars == <<list, count, modes, mode, info, frame, installed, since>>
vars == <<splitterVars, current, shown, lastSet, drawn, ret>>

Listed  == Elems(list)
MaxMode == Len(modes)

(* ConSplitterTextOutConstructor: the null device of one mode.               *)
Init ==
  /\ list = <<>> /\ count = 0 /\ since = {}
  /\ modes = <<Default>> /\ mode = 1 /\ info = Default /\ frame = Nobody
  /\ installed = FALSE
  /\ current = Home
  /\ shown = [g \in Gop |-> Blank]
  /\ lastSet = TRUE /\ drawn = Blank /\ ret = Blank

-----------------------------------------------------------------------------
(* Setting modes                                                             *)

(* The lookup by resolution finds no number of a mode that g does not have,  *)
(* and g then refuses the number after its last.                             *)
Takes(g, r, F) == g \notin F /\ r \in Elems(ModesOf[g])

(* Each output of G is put in the mode r, where it can be.                   *)
Put(cur, G, r, F) == [g \in Gop |-> IF g \in G /\ Takes(g, r, F) THEN r ELSE cur[g]]

(* What the mode structure then says; the order of the list is kept, so the  *)
(* output whose information is copied is the last.                           *)
Told(l, n, cur, r) == IF n = 1 /\ l # <<>> THEN cur[Last(l)] ELSE r

(* ConSplitterGraphicsOutputSetMode of a number below MaxMode.               *)
SetMode(n, F) ==
  /\ installed /\ n \in 1..MaxMode
  /\ current' = Put(current, Listed, modes[n], F)
  /\ shown' = [g \in Gop |-> IF g \in Listed /\ Takes(g, modes[n], F) THEN Blank ELSE shown[g]]
  /\ mode' = n
  /\ info' = Told(list, count, current', modes[n])
  /\ frame' = IF count = 1 /\ list # <<>> THEN Last(list) ELSE frame
  /\ lastSet' = (\A g \in Listed : Takes(g, modes[n], F))
  /\ drawn' = Blank
  /\ UNCHANGED <<list, count, modes, installed, since, ret>>

(* GraphicsConsoleConOutSetMode on the consoles of T, which a SetMode of the *)
(* virtual text console calls: back to the resolution of the text modes.     *)
TextPut(cur, T, F)  == [g \in Gop |-> IF g \in T \ F THEN Home[g] ELSE cur[g]]
TextBlank(pic, T)   == [g \in Gop |-> IF g \in T THEN Blank ELSE pic[g]]

TextSetMode(T, F) ==
  /\ current' = TextPut(current, T, F)
  /\ shown' = TextBlank(shown, T)
  /\ drawn' = Blank
  /\ UNCHANGED <<splitterVars, lastSet, ret>>

-----------------------------------------------------------------------------
(* Adding and removing consoles                                              *)

(* Fault: the duplicates are kept.                                           *)
IntersectedTwice(g) == SelectSeq(modes, LAMBDA r : r \in Elems(ModesOf[g]))

(* The match loops: what is left of the buffer, each resolution once.        *)
Intersected(g) ==
  LET kept[i \in 0..MaxMode] ==
        IF i = 0 THEN <<>>
        ELSE IF modes[i] \in Elems(ModesOf[g]) \ Elems(kept[i - 1])
             THEN Append(kept[i - 1], modes[i]) ELSE kept[i - 1]
  IN kept[MaxMode]

(* The first number of r in a mode list, if it has one.                      *)
NumberOf(ms, r) == CHOOSE n \in DOMAIN ms : ms[n] = r /\ \A k \in 1..n - 1 : ms[k] # r

(* The index that is forced: of g's own mode, else of the default, else the  *)
(* first.                                                                    *)
Preferred(ms, own) ==
  IF own \in Elems(ms) THEN NumberOf(ms, own)
  ELSE IF Default \in Elems(ms) THEN NumberOf(ms, Default) ELSE 1

(* "Force GraphicsOutput mode to be set": ms is the mode buffer, l the list, *)
(* told the virtual Info, cur the resolutions, and the result the new value  *)
(* of each, with the outputs whose mode was set in blank.                    *)
InStep(g, l, ms, n, told, cur, F) ==
  [ok |-> told = cur[g] \/ Takes(g, told, F), modes |-> ms, mode |-> n, info |-> told,
   current |-> Put(cur, {g}, told, F), blank |-> {h \in {g} : told # cur[g] /\ Takes(g, told, F)},
   set |-> lastSet]

(* Fault: only the number is recorded.                                       *)
OutOfStepQuiet(g, l, ms, n, told, cur, F) ==
  [ok |-> TRUE, modes |-> ms, mode |-> n, info |-> told, current |-> cur, blank |-> {},
   set |-> lastSet]

OutOfStep(g, l, ms, n, told, cur, F) ==
  LET ok(r) == \A h \in Elems(l) : Takes(h, r, F)
      once  == Put(cur, Elems(l), ms[n], F)
      twice == Put(once, Elems(l), Default, F)
      now   == IF ok(ms[n]) THEN once ELSE twice
  IN [ok      |-> ok(ms[n]) \/ ok(Default),
      modes   |-> IF ok(ms[n]) THEN ms ELSE [ms EXCEPT ![1] = Default],
      mode    |-> IF ok(ms[n]) THEN n ELSE 1,
      info    |-> Told(l, count + 1, now, IF ok(ms[n]) THEN ms[n] ELSE Default),
      current |-> now,
      blank   |-> {h \in Elems(l) : Takes(h, ms[n], F) \/ (~ok(ms[n]) /\ Takes(h, Default, F))},
      set     |-> ok(ms[n]) \/ ok(Default)]

(* No mode is left and the virtual SetMode refuses every number.             *)
NoModeLeft(told, cur) ==
  [ok |-> FALSE, modes |-> <<>>, mode |-> NoMode, info |-> told, current |-> cur,
   blank |-> {}, set |-> FALSE]

(* With no mode left the entry read is that of a buffer of no entries; stray *)
(* tells whether it happens to equal the virtual Info.                       *)
Forced(g, l, ms, told, cur, F, stray) ==
  LET n == Preferred(ms, cur[g])
  IN IF IF ms = <<>> THEN stray ELSE ms[n] = told
     THEN InStep(g, l, ms, n, told, cur, F)
     ELSE IF ms = <<>> THEN NoModeLeft(told, cur)
     ELSE OutOfStep(g, l, ms, n, told, cur, F)

(* Fault: the frame buffer of a first output stays with the second.          *)
FrameKept(g) == IF count = 0 THEN g ELSE frame

(* The frame buffer is available only with a single output.                  *)
FrameOf(g) == IF count = 0 THEN g ELSE Nobody

(* ConSplitterTextOutAddDevice with ConSplitterAddGraphicsOutputMode; then   *)
(* SetMode of the text consoles of T, those that are not in the text mode    *)
(* that is set.  The graphics console of g may have been started anew before. *)
Start(g, F, T, anew, stray) ==
  LET cur   == IF anew THEN [current EXCEPT ![g] = Home[g]] ELSE current
      l     == Append(list, g)
      told  == IF count = 0 THEN cur[g] ELSE info
      force == Forced(g, l, IF count = 0 THEN ModesOf[g] ELSE Intersected(g), told, cur, F, stray)
  IN /\ anew => current[g] # Home[g]
     /\ stray => count # 0 /\ Intersected(g) = <<>>
     /\ list' = l
     /\ count' = count + 1
     /\ frame' = FrameOf(g)
     /\ modes' = force.modes /\ mode' = force.mode /\ info' = force.info
     /\ lastSet' = force.set
     /\ installed' = (installed \/ (force.ok /\ count + 1 = 1))
     /\ current' = TextPut(force.current, T, F)
     /\ shown' = TextBlank(shown, T \cup force.blank)
     /\ since' = since \cup {g}
     /\ drawn' = Blank
     /\ UNCHANGED ret

(* The mode buffer is not allocated: the console is listed and not counted.  *)
(* MaxMode is then that of the first output and the buffer is not, so what   *)
(* lies behind its end counts as modes.                                      *)
StartWithoutBuffer(g, F, T) ==
  /\ MayRunOut
  /\ list' = Append(list, g)
  /\ IF count = 0
     THEN /\ \E junk \in Resolutions :
               modes' = [n \in 1..Len(ModesOf[g]) |-> IF n <= MaxMode THEN modes[n] ELSE junk]
          /\ mode' = NumberOf(ModesOf[g], current[g])
          /\ info' = current[g] /\ frame' = g
     ELSE UNCHANGED <<modes, mode, info, frame>>
  /\ current' = TextPut(current, T, F)
  /\ shown' = TextBlank(shown, T)
  /\ since' = since \cup {g}
  /\ drawn' = Blank
  /\ UNCHANGED <<count, installed, lastSet, ret>>

(* ConSplitterTextOutDeleteDevice: every console with a graphics output is   *)
(* counted down, and the mode buffer stays.                                  *)
Stop(g) ==
  /\ g \in Listed
  /\ list' = Deleted(list, IndexOf(list, g))
  /\ count' = count - 1
  /\ installed' = (installed /\ count - 1 # 0)
  /\ since' = IF Len(list) = 1 THEN {} ELSE since
  /\ UNCHANGED <<modes, mode, info, frame, current, shown, lastSet, drawn, ret>>

-----------------------------------------------------------------------------
(* ConSplitterGraphicsOutputBlt                                              *)

(* Fault: the first output that works is the only one.                       *)
ReachedFirst == IF list = <<>> THEN {} ELSE {Head(list)}

(* The outputs of the list that a drawing reaches: all of them.              *)
Reached == Listed

(* EfiBltVideoFill, EfiBltBufferToVideo and EfiBltVideoToVideo               *)
Draw(p, F) ==
  /\ installed
  /\ shown' = [g \in Gop |-> IF g \in Reached \ F THEN p ELSE shown[g]]
  /\ drawn' = IF Listed \cap F = {} THEN p ELSE Blank
  /\ UNCHANGED <<splitterVars, current, lastSet, ret>>

(* EfiBltVideoToBltBuffer: of the first output that works.                   *)
Read(F) ==
  /\ installed
  /\ \E i \in DOMAIN list :
       /\ list[i] \notin F /\ \A j \in 1..i - 1 : list[j] \in F
       /\ ret' = shown[list[i]]
  /\ UNCHANGED <<splitterVars, current, shown, lastSet, drawn>>

(* Fault: it is asked of the first output always.                            *)
QueryFirst(n) == ModesOf[list[1]][n]

(* What QueryMode tells of a number below MaxMode: of a single output it is  *)
(* asked under the same number.                                              *)
Query(n) == IF count = 1 /\ list # <<>> THEN ModesOf[list[1]][n] ELSE modes[n]

-----------------------------------------------------------------------------
Next ==
  \/ \E g \in Gop \ Listed : \E F \in SUBSET FlakyStart, T \in SUBSET (Listed \cup {g}) :
       \/ \E anew, stray \in BOOLEAN : Start(g, F, T, anew, stray)
       \/ StartWithoutBuffer(g, F, T)
  \/ \E g \in Gop : Stop(g)
  \/ \E n \in 1..MaxMode, F \in SUBSET Flaky : SetMode(n, F)
  \/ \E T \in SUBSET Listed, F \in SUBSET Flaky : TextSetMode(T, F)
  \/ \E p \in Pictures, F \in SUBSET Flaky : Draw(p, F)
  \/ \E F \in SUBSET Flaky : Read(F)

GopSpec == Init /\ [][Next]_vars

-----------------------------------------------------------------------------
(* Properties                                                                *)

GopTypeOK ==
  /\ list \in Seq(Gop) /\ Distinct(list) /\ count \in Int
  /\ modes \in Seq(Resolutions) /\ mode \in Nat /\ info \in Resolutions
  /\ frame \in Gop \cup {Nobody} /\ installed \in BOOLEAN
  /\ current \in [Gop -> Resolutions] /\ \A g \in Gop : current[g] \in Elems(ModesOf[g])
  /\ shown \in [Gop -> Pictures \cup {Blank}] /\ {drawn, ret} \subseteq Pictures \cup {Blank}
  /\ Listed \subseteq since /\ since \subseteq Gop /\ lastSet \in BOOLEAN

(* The virtual output offers the modes that every output has which was added *)
(* since there was none, once each when there are several, whatever was      *)
(* removed between (AddGraphicsOutputMode, DeleteDevice).                    *)
ModesAreTheIntersection ==
  list # <<>> =>
    /\ Elems(modes) = {r \in Resolutions : \A g \in since : r \in Elems(ModesOf[g])}
    /\ Cardinality(since) > 1 => Distinct(modes)

(* Unless the last SetMode failed, the mode number and the information that  *)
(* clients read in the protocol's Mode agree, through additions that drop    *)
(* modes and renumber the rest.                                              *)
CurrentModeIsOffered ==
  installed /\ lastSet /\ MaxMode > 0 => mode \in 1..MaxMode /\ modes[mode] = info

(* The protocol is on the virtual handle exactly while some console has a    *)
(* graphics output, and clients are given a frame buffer to write to only if *)
(* it is that of a single output: with two, what they write would show on    *)
(* one, and after a removal on none (TextOutAddDevice, TextOutDeleteDevice). *)
OfferIsSound ==
  /\ installed <=> list # <<>>
  /\ installed /\ frame # Nobody => Listed = {frame}

(* A client that drew with success, and reads with success before a mode is  *)
(* set or a console comes, reads what it drew, also when consoles were       *)
(* removed or fail since (Blt asks the first output that works).             *)
ReadsBackWhatItDrew ==
  [][\A F \in SUBSET Flaky : Read(F) /\ drawn # Blank => ret' = drawn]_vars

(* SetMode of a number that QueryMode told of, called with success, puts all *)
(* outputs in the mode that QueryMode told.  This is claimed while no output *)
(* was removed: QueryMode asks the last one left under the number of the     *)
(* mode buffer.                                                              *)
QueryTellsTheMode ==
  [][\A n \in 1..MaxMode, F \in SUBSET Flaky :
       SetMode(n, F) /\ lastSet' /\ since = Listed => \A g \in Listed : current'[g] = Query(n)]_vars

(* The same after removals.                                                  *)
QueryAlwaysTells ==
  [][\A n \in 1..MaxMode, F \in SUBSET Flaky :
       list # <<>> /\ n <= Len(ModesOf[list[1]]) /\ SetMode(n, F) /\ lastSet' =>
         \A g \in Listed : current'[g] = Query(n)]_vars

(* The number of graphics outputs, an unsigned one, is not counted below 0.  *)
CountNeverWraps == count >= 0

(* "Graphics console driver can ensure the same mode for all GOP devices".   *)
SameModeEverywhere == MaxMode > 0 => \A g, h \in Listed : current[g] = current[h]

(* The mode that the virtual output offers under a number is one that each   *)
(* output can be put in.                                                     *)
ModesAreUsable == \A g \in Listed, r \in Elems(modes) : r \in Elems(ModesOf[g])
=============================================================================
