----------------------------- MODULE DeviceLists -----------------------------
(***************************************************************************)
(* The device arrays of the console splitter: TextInList, TextInExList,     *)
(* PointerList, AbsolutePointerList and TextOutList are all counted arrays  *)
(* that are appended to and compacted in the same way.  The key-notify list *)
(* is a linked list with the same operations.                               *)
(***************************************************************************)
EXTENDS Integers, Sequences

Elems(s) == {s[i] : i \in DOMAIN s}

Distinct(s) == \A i, j \in DOMAIN s : s[i] = s[j] => i = j

IndexOf(s, x) == CHOOSE i \in DOMAIN s : s[i] = x

(* The deletion loop: the entries after i move down by one.                  *)
Deleted(s, i) == [j \in 1..Len(s) - 1 |-> IF j < i THEN s[j] ELSE s[j + 1]]

(* The Grow test of every AddDevice: a full array gets unit more slots.      *)
GrownCount(s, count, unit) == IF Len(s) >= count THEN count + unit ELSE count
=============================================================================
