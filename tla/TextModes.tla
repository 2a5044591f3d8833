------------------------------ MODULE TextModes ------------------------------
(***************************************************************************)
(* The mode arithmetic of the text-console splitter: how the virtual modes  *)
(* of a set of text consoles are computed, and renumbered, when a console   *)
(* joins.  A splitter record c has, besides what ConOutSplitter keeps in    *)
(* it, the fields                                                           *)
(*   count      CurrentNumberOfConsoles                                     *)
(*   queryData  TextOutQueryData: sizes, by mode number of the first console*)
(*   map        TextOutModeMap: map[m][i] is the mode number of the i-th    *)
(*              console for the virtual mode m, -1 for none                 *)
(*   mode       TextOutMode.Mode                                            *)
(* Only the rows below MaxMode and the columns of listed consoles are kept: *)
(* the code reads no others.  A console is given by the sizes of its modes, *)
(* NoSize where its QueryMode fails.                                        *)
(***************************************************************************)
EXTENDS Integers, Sequences, FiniteSets

NoSize == <<0, 0>>
None   == -1

VirtualModes(c) == DOMAIN c.map
MaxMode(c)      == Cardinality(DOMAIN c.map)

(* The size of the virtual mode m; without consoles the map is not used.     *)
SizeOf(c, m) == c.queryData[IF c.count = 0 THEN m ELSE c.map[m][1]]

(* The lowest virtual mode of that size, if any.                             *)
IsFirst(c, m, size) ==
  SizeOf(c, m) = size /\ \A l \in VirtualModes(c) : l < m => SizeOf(c, l) # size

(* The k-th member, from 0, of a set of modes.                               *)
Nth(S, k) == CHOOSE m \in S : Cardinality({l \in S : l < m}) = k

(* Fault: the first mode that can be dropped is kept.                        *)
GetIntersectionFromThree(c, supported) ==
  LET kept == {m \in VirtualModes(c) : m < 3 \/ m \in supported}
      dropped == VirtualModes(c) \ kept
  IN [c EXCEPT !.map = [k \in 0..Cardinality(kept) - 1 |-> c.map[Nth(kept, k)]],
               !.mode = IF @ \in dropped THEN None
                        ELSE @ - Cardinality({m \in dropped : m < @})]

(* ConSplitterGetIntersection: the modes from 2 on that are not supported    *)
(* are dropped, the later ones move up, and the current mode is renumbered.  *)
GetIntersection(c, supported) ==
  LET kept    == {m \in VirtualModes(c) : m < 2 \/ m \in supported}
      dropped == VirtualModes(c) \ kept
  IN [c EXCEPT !.map = [k \in 0..Cardinality(kept) - 1 |-> c.map[Nth(kept, k)]],
               !.mode = IF @ \in dropped THEN None
                        ELSE @ - Cardinality({m \in dropped : m < @})]

(* ConSplitterAddOutputMode: the first console's modes are the virtual ones. *)
AddOutputMode(c, sizes) ==
  [c EXCEPT !.queryData = sizes, !.map = [m \in DOMAIN sizes |-> <<m>>], !.count = 1]

(* A console may lack mode 1; the virtual mode 1 then has no size.           *)
LacksMode1(sizes) == 1 \in DOMAIN sizes /\ sizes[1] = NoSize

WithoutMode1(c) ==
  [c EXCEPT !.queryData = [k \in DOMAIN @ |-> IF k = 1 THEN NoSize ELSE @[k]]]

(* The new console's column: its last mode whose size the virtual mode is    *)
(* the first to have.                                                        *)
Column(c, sizes, m) ==
  LET modes == {k \in DOMAIN sizes : sizes[k] # NoSize /\ IsFirst(c, m, sizes[k])}
  IN IF m = 1 /\ LacksMode1(sizes) THEN 1
     ELSE IF modes = {} THEN None
     ELSE CHOOSE k \in modes : \A l \in modes : l <= k

(* ConSplitterSyncOutputMode, for a console after the first.                 *)
SyncOutputMode(c, sizes) ==
  LET q    == IF LacksMode1(sizes) THEN WithoutMode1(c) ELSE c
      more == [q EXCEPT !.map = [m \in VirtualModes(q) |-> Append(@[m], Column(q, sizes, m))]]
      both == {m \in VirtualModes(q) : Column(q, sizes, m) # None}
  IN [GetIntersection(more, both) EXCEPT !.count = @ + 1]

(* The same for a list of consoles, from the first: what a removal does.     *)
Rebuilt(c, sizes) ==
  LET built[i \in 1..Len(sizes)] ==
        IF i = 1 THEN AddOutputMode(c, sizes[1])
                 ELSE SyncOutputMode(built[i - 1], sizes[i])
  IN built[Len(sizes)]
=============================================================================
