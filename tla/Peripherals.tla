---------------------------- MODULE Peripherals -----------------------------
(***************************************************************************)
(* The drivers of the board's pins and of its simple frame buffer.  They    *)
(* share nothing but the processor: a behaviour is that of one of them,     *)
(* chosen at its start.                                                     *)
(***************************************************************************)
EXTENDS SunxiGpio, SimpleFb

VARIABLE device

peripheralVars == <<device, gpioVars, displayVars>>

PeripheralInit ==
  /\ device \in {"pins", "display"}
  /\ GpioInit /\ (device = "display" => client = "any")
  /\ DisplayInit /\ (device = "pins" => user = "driver")

PeripheralNext ==
  /\ UNCHANGED device
  /\ \/ device = "pins" /\ GpioNext /\ UNCHANGED displayVars
     \/ device = "display" /\ DisplayNext /\ UNCHANGED gpioVars

PeripheralSpec == PeripheralInit /\ [][PeripheralNext]_peripheralVars
=============================================================================
