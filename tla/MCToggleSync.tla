----------------------------- MODULE MCToggleSync -----------------------------
(***************************************************************************)
(* Small instances of ToggleSync: two or three keyboards, a few lock states *)
(* and key presses, all given in the configurations.                        *)
(***************************************************************************)
EXTENDS ToggleSync
=============================================================================
