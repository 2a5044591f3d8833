----------------------------- MODULE SerialPorts -----------------------------
(***************************************************************************)
(* The three libraries of the class SerialPortLib.  An image is linked with *)
(* one of them, and they share nothing: a behaviour is that of one, chosen  *)
(* at its start.                                                            *)
(***************************************************************************)
EXTENDS UartPort, RingPort, ScreenPort

VARIABLE library

portVars == <<library, uartVars, ringVars, screenVars>>

PortInit == library \in {"uart", "memory", "screen"} /\ UartInit /\ RingInit /\ ScreenInit

PortNext ==
  /\ UNCHANGED library
  /\ \/ library = "uart" /\ UartNext /\ UNCHANGED <<ringVars, screenVars>>
     \/ library = "memory" /\ RingNext /\ UNCHANGED <<uartVars, screenVars>>
     \/ library = "screen" /\ ScreenNext /\ UNCHANGED <<uartVars, ringVars>>

PortSpec == PortInit /\ [][PortNext]_portVars

FairPortSpec == PortSpec /\ UartFairness
=============================================================================
