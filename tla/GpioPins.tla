------------------------------ MODULE GpioPins ------------------------------
(***************************************************************************)
(* What the GPIO protocol does: every pin has a configuration, a drive level *)
(* and an output of its own.  A call changes the configuration or the drive *)
(* of "the defined pin" of Include/Protocol/SunxiGpio.h, or turns outputs    *)
(* on from that pin on, and nothing else.  Numbers are the sets of their    *)
(* bits, and the pins of a bank are 32 consecutive ones.                     *)
(***************************************************************************)
EXTENDS Integers

CONSTANTS Pins

VARIABLES
  config,  \* config[p]: SUNXI_GPIO_INPUT ... SUNXI_GPIO_IO_DISABLE
  drive,   \* drive[p]: SUNXI_DRIVE_L0 ... SUNXI_DRIVE_L3
  output,  \* output[p]: whether the output is enabled
  last     \* the call that was last made

pinVars == <<config, drive, output, last>>

PinsInit ==
  /\ config \in [Pins -> SUBSET (0..2)]
  /\ drive  \in [Pins -> SUBSET (0..1)]
  /\ output \in [Pins -> BOOLEAN]
  /\ last = <<>>

(* "This function configures the defined pin."                               *)
Configure(p, c) ==
  /\ last' = <<"ConfigurePin", p, c>> /\ config' = [config EXCEPT ![p] = c]
  /\ UNCHANGED <<drive, output>>

(* "This function sets the drive of the defined pin."                        *)
Drive(p, v) ==
  /\ last' = <<"SetDrive", p, v>> /\ drive' = [drive EXCEPT ![p] = v]
  /\ UNCHANGED <<config, output>>

(* The pins of the bits of e, of which bit 0 is p.                           *)
From(p, e) == {q \in Pins : q \div 32 = p \div 32 /\ q - p \in e}

(* What is given as Enable has a bit for each output, and none is turned off. *)
Enable(p, e) ==
  /\ last' = <<"SetOutput", p, e>>
  /\ output' = [q \in Pins |-> output[q] \/ q \in From(p, e)]
  /\ UNCHANGED <<config, drive>>

PinsNext ==
  \E p \in Pins :
    \/ \E c \in SUBSET (0..2) : Configure(p, c)
    \/ \E v \in SUBSET (0..1) : Drive(p, v)
    \/ \E e \in SUBSET (0..2) : Enable(p, e)

PinsSpec == PinsInit /\ [][PinsNext]_pinVars

(* What the header says of it: "This function enables or disables the output *)
(* of the defined pin."                                                      *)
EnablesOrDisables ==
  [][\A p \in Pins, e \in SUBSET (0..2) :
       last' = <<"SetOutput", p, e>> => output' = [output EXCEPT ![p] = e # {}]]_pinVars
=============================================================================
