------------------------- MODULE MCGraphicsSplitter -------------------------
EXTENDS GraphicsSplitter

CONSTANTS g1, g2, g3, small, default, wide, odd

(* g1 lists a mode twice; each two outputs share a mode and all three none. *)
MCModesOf ==
  g1 :> <<small, default, small, wide>> @@ g2 :> <<wide, small>> @@ g3 :> <<odd, default>>
MCHome == g1 :> small @@ g2 :> wide @@ g3 :> odd
=============================================================================
