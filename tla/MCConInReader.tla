---------------------------- MODULE MCConInReader ----------------------------
(***************************************************************************)
(* A small instance of ConInReader: two keyboards, one of them without      *)
(* SimpleTextInputEx, partial keystrokes included.                          *)
(***************************************************************************)
EXTENDS ConInReader, TLC

CONSTANTS d1, d2, d3, tog, n1, n2, caps

MCSelfOnly == {<<n, n>> : n \in NotifyIds}
MCExposed  == {[lock |-> NoLock, valid |-> TRUE, exposed |-> x] : x \in BOOLEAN}
=============================================================================
