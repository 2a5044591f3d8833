-------------------------- MODULE MCGraphicsConsole --------------------------
(***************************************************************************)
(* A small instance of GraphicsConsole: glyphs of 2 by 2 pixels; a graphics *)
(* output with two modes of one resolution; mode 0 is too high for each, as *)
(* 90 by 80 is for a screen of 1920 by 1080.                                *)
(***************************************************************************)
EXTENDS GraphicsConsole

MCGlyph      == <<2, 2>>
MCMode0      == <<2, 3>>
MCMode1      == <<2, 2>>
MCMinSize    == <<2, 2>>
MCPredefined == <<<<2, 2>>, <<3, 2>>, <<5, 3>>>>
MCFallback   == <<5, 5>>
MCGopModes   == <<<<7, 5>>, <<5, 5>>, <<5, 5>>>>
MCResolutions == {<<0, 0>>, <<7, 5>>, <<9, 9>>, <<0, 9>>}
MCAskedSizes  == {<<0, 0>>, <<3, 2>>, <<9, 9>>}
MCStrings ==
  {<<"x">>, <<"x", "x", "x">>, <<"x", "BACKSPACE", "BACKSPACE">>,
   <<"CARRIAGE_RETURN", "LINEFEED", "x">>, <<"x", "WIDE_CHAR", "x", "x", "NARROW_CHAR", "x">>}
MCAttributes == {18, 128}

(* What invariants that do not look at the last call depend on; action       *)
(* properties look at steps, none of which is skipped.                       *)
StateView == <<started, con, loose>>
=============================================================================
