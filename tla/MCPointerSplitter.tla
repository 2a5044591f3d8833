-------------------------- MODULE MCPointerSplitter --------------------------
(***************************************************************************)
(* Two simple pointers of different resolutions, two absolute ones of       *)
(* different ranges; the second of each lacks the axis Z.                   *)
(***************************************************************************)
EXTENDS PointerSplitter, TLC

CONSTANTS s1, s2, a1, a2

MCResolution == s1 :> [X |-> 1, Z |-> 2] @@ s2 :> [X |-> 2, Z |-> 0]
MCSide       == a1 :> [X |-> <<0, 2>>, Z |-> <<0, 1>>] @@ a2 :> [X |-> <<0, 1>>, Z |-> <<0, 0>>]
MCSideOff    == a1 :> [X |-> <<1, 2>>, Z |-> <<0, 1>>] @@ a2 :> [X |-> <<0, 1>>, Z |-> <<0, 0>>]
=============================================================================
