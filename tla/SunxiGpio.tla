----------------------------- MODULE SunxiGpio ------------------------------
(***************************************************************************)
(* Drivers/SunxiGpioDxe: the pins are fields of the registers of their      *)
(* bank, and each function of the protocol reads a register, changes the    *)
(* field of a pin and writes the register back.  A call at a higher task    *)
(* priority level may come between the two accesses.  The registers are     *)
(* external: 32 bits each, as sets of bits, and nothing else writes them.   *)
(* They are numbered from H6_PIO_BASE in words of 4 bytes.                  *)
(*                                                                         *)
(* A client is any user of the protocol, or Drivers/HeartbeatDxe, whose     *)
(* entry point makes five calls.                                            *)
(***************************************************************************)
EXTENDS Words, Integers, Sequences, FiniteSets

CONSTANTS
  Pins,       \* the pins of which this speaks
  Called,     \* Called[l]: those that clients of the level l name in calls
  Configs,    \* what they configure: sets of bits 0..2
  Drives,     \* sets of bits 0..1
  Enables,    \* what they give SetOutput: sets of bits
  Levels,     \* task priority levels of the clients: 1..Levels
  ResetWords  \* what the registers may hold at the start

(* GPIO_BANK, GPIO_NUM and the numbers of the banks                          *)
Bank(p)   == p \div 32
Number(p) == p % 32
BankC == 2
BankF == 5
BankG == 6
BankH == 7
BankI == 9

(* The last pin of each bank that ConfigurePin has a case for, and SetDrive  *)
(* (a pin without a case fails an assertion).                                *)
LastConfigured(b) ==
  CASE b = BankC -> 16 [] b = BankF -> 6 [] b = BankG -> 19 [] b = BankH -> 10 [] b = BankI -> 19
    [] OTHER -> -1
LastDriven(b) == IF b = BankI THEN 16 ELSE LastConfigured(b)

ASSUME GpioAssumption ==
  /\ Pins \subseteq {p \in 0..319 : Number(p) <= LastConfigured(Bank(p))}
  /\ Called \in [1..Levels -> SUBSET Pins]
  /\ Configs \subseteq SUBSET (0..2) /\ Drives \subseteq SUBSET (0..1)
  /\ Enables \subseteq SUBSET (0..2) /\ ResetWords \subseteq SUBSET Bits
  /\ Levels \in Nat \ {0}

(* The registers of a bank, which has H6_PIO_BANK_SIZE / 4 = 9 words.        *)
GPIO_CFG0_BASE(b) == 9 * b
GPIO_CFG1_BASE(b) == 9 * b + 1
GPIO_CFG2_BASE(b) == 9 * b + 1
GPIO_DAT_BASE(b)  == 9 * b + 4
GPIO_MDR0_BASE(b) == 9 * b + 5
GPIO_MDR1_BASE(b) == 9 * b + 6

VARIABLES
  client,    \* "any" or "heartbeat"
  register,  \* contents by number
  access,    \* per level: the call between its accesses, or NoAccess
  done,      \* calls that the heartbeat has made
  last       \* history: the call that was last completed

gpioVars == <<client, register, access, done, last>>

NoAccess    == [name |-> <<>>, at |-> -1, word |-> {}, field |-> {}, value |-> {}]
Addresses == {9 * Bank(p) + w : p \in Pins, w \in 0..8}

GpioInit ==
  /\ client \in {"any", "heartbeat"}
  /\ \E w \in ResetWords : register = [a \in Addresses |-> w]
  /\ access = [l \in 1..Levels |-> NoAccess]
  /\ done = 0 /\ last = <<>>

-----------------------------------------------------------------------------
(* The two accesses of a call                                                *)

MmioRead32(l, name, a, field, value) ==
  /\ \A k \in l..Levels : access[k] = NoAccess
  /\ access' = [access EXCEPT ![l] = [name |-> name, at |-> a, word |-> register[a],
                                   field |-> field, value |-> value]]
  /\ UNCHANGED <<client, register, last>>

(* Fault: the field is not cleared first.                                    *)
FieldOred(c) == c.word \cup c.value

FieldReplaced(c) == (c.word \ c.field) \cup c.value

MmioWrite32(l) ==
  /\ access[l] # NoAccess /\ \A k \in l + 1..Levels : access[k] = NoAccess
  /\ register' = [register EXCEPT ![access[l].at] = FieldReplaced(access[l])]
  /\ access' = [access EXCEPT ![l] = NoAccess]
  /\ last' = access[l].name
  /\ UNCHANGED <<client, done>>

-----------------------------------------------------------------------------
(* The functions of the protocol                                             *)

(* Fault: GPIO_CFG_BIT of a field of two bits.                               *)
ConfigBitOfTwo(p) == 2 * (Number(p) % 8)

(* GPIO_CFG_BIT                                                              *)
ConfigBit(p) == 4 * (Number(p) % 8)

ConfigAddress(p) ==
  IF Number(p) <= 7 THEN GPIO_CFG0_BASE(Bank(p))
  ELSE IF Number(p) <= 15 THEN GPIO_CFG1_BASE(Bank(p)) ELSE GPIO_CFG2_BASE(Bank(p))

ConfigurePin(l, p, c) ==
  MmioRead32(l, <<"ConfigurePin", p, c>>, ConfigAddress(p),
             Shifted(0..2, ConfigBit(p)), Shifted(c, ConfigBit(p)))

(* GPIO_MDR_BIT; a shift by 32 or more is undefined: it is taken modulo 32   *)
(* or leaves nothing.                                                        *)
DriveBit(p) == 2 * Number(p)

DriveAddress(p) ==
  IF Number(p) <= 15 THEN GPIO_MDR0_BASE(Bank(p)) ELSE GPIO_MDR1_BASE(Bank(p))

SetDrive(l, p, v) ==
  /\ Number(p) <= LastDriven(Bank(p))
  /\ \E bit \in IF DriveBit(p) < 32 THEN {DriveBit(p)} ELSE {DriveBit(p), DriveBit(p) % 32} :
       MmioRead32(l, <<"SetDrive", p, v>>, DriveAddress(p),
                  Shifted(0..1, bit), Shifted(v, bit))

SetOutput(l, p, e) ==
  MmioRead32(l, <<"SetOutput", p, e>>, GPIO_DAT_BASE(Bank(p)), {}, Shifted(e, Number(p)))

AnyCall ==
  /\ client = "any"
  /\ \E l \in 1..Levels : \E p \in Called[l] :
       \/ \E c \in Configs : ConfigurePin(l, p, c)
       \/ \E v \in Drives : SetDrive(l, p, v)
       \/ \E e \in Enables : SetOutput(l, p, e)
  /\ UNCHANGED done

-----------------------------------------------------------------------------
(* HeartbeatDxeInitialize: SUNXI_GPC(12) is the red LED and SUNXI_GPC(13)    *)
(* the green one.                                                            *)

RedLed     == 32 * BankC + 12
GreenLed   == 32 * BankC + 13
IO_DISABLE == 0..2
OUTPUT     == {0}
L0         == {}

HeartbeatCall ==
  /\ client = "heartbeat" /\ {RedLed, GreenLed} \subseteq Pins
  /\ done < 5 /\ done' = done + 1
  /\ CASE done = 0 -> SetOutput(1, RedLed, IO_DISABLE)
       [] done = 1 -> ConfigurePin(1, RedLed, IO_DISABLE)
       [] done = 2 -> ConfigurePin(1, GreenLed, OUTPUT)
       [] done = 3 -> SetDrive(1, GreenLed, L0)
       [] done = 4 -> SetOutput(1, GreenLed, OUTPUT)

-----------------------------------------------------------------------------
GpioNext == AnyCall \/ HeartbeatCall \/ \E l \in 1..Levels : MmioWrite32(l)

GpioSpec == GpioInit /\ [][GpioNext]_gpioVars

-----------------------------------------------------------------------------
(* Properties                                                                *)

(* The fields that the hardware gives a pin: four configuration registers of *)
(* eight pins, one of data and two drive registers of sixteen pins.          *)
Field(a, bit, n) == {b \in 0..n - 1 : b + bit \in register[a]}

Pin == INSTANCE GpioPins WITH
  config <- [p \in Pins |-> Field(9 * Bank(p) + Number(p) \div 8, 4 * (Number(p) % 8), 3)],
  drive  <- [p \in Pins |-> Field(9 * Bank(p) + 5 + Number(p) \div 16, 2 * (Number(p) % 16), 2)],
  output <- [p \in Pins |-> Number(p) \in register[GPIO_DAT_BASE(Bank(p))]]

(* Every call changes what it names of the pins it names and nothing of any  *)
(* other pin, whatever fields share the registers and whatever calls come    *)
(* between its two accesses (the whole of SunxiGpioDxe.c): for pins below    *)
(* 16, and levels that call for pins of different banks.                     *)
ImplementsPins == Pin!PinsSpec

(* "Turn off red LED and enable green": after the five calls the red LED's   *)
(* pin is disabled and the green LED's is an enabled output, whatever the    *)
(* firmware before left in the registers.                                    *)
LedsAreSet ==
  done = 5 /\ (\A l \in 1..Levels : access[l] = NoAccess) =>
    /\ Field(ConfigAddress(RedLed), ConfigBit(RedLed), 3) = IO_DISABLE
    /\ Field(ConfigAddress(GreenLed), ConfigBit(GreenLed), 3) = OUTPUT
    /\ Number(GreenLed) \in register[GPIO_DAT_BASE(BankC)]

(* "This function enables or disables the output of the defined pin."        *)
OutputsObey == Pin!EnablesOrDisables
=============================================================================
