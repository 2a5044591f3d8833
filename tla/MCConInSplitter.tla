--------------------------- MODULE MCConInSplitter ---------------------------
(***************************************************************************)
(* Small instances of ConInSplitter.  Each cfg opens one dimension (devices *)
(* and registrations, keystrokes, toggle states) and closes the others.     *)
(***************************************************************************)
EXTENDS ConInSplitter, TLC

CONSTANTS d1, d2, d3, tog, n1, n2, caps

MCSelfOnly   == {<<n, n>> : n \in NotifyIds}
MCShared     == MCSelfOnly \cup {<<n1, n2>>}
MCNoStates   == {}
MCCaller     == {[lock |-> l, valid |-> v, exposed |-> x] :
                   l \in Locks, v \in BOOLEAN, x \in BOOLEAN}
MCValid      == {[lock |-> l, valid |-> TRUE, exposed |-> x] :
                   l \in Locks, x \in BOOLEAN}
MCExposed    == {[lock |-> NoLock, valid |-> TRUE, exposed |-> x] : x \in BOOLEAN}

(* What invariants that do not look at the last call depend on; action       *)
(* properties look at steps, none of which is skipped.                       *)
StateView == <<consoleVars, exVars, notifyVars, queueVars, stateVars, eventVars, keyVars>>
=============================================================================
