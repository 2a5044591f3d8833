------------------------------ MODULE BoardProofs ------------------------------
(***************************************************************************)
(* The drivers of the board's own devices, for any of their parameters.      *)
(* SunxiGpioDxe: as long as no call for a pin of the same bank comes between *)
(* the two accesses of a call, and the pins that are named are below 16, it  *)
(* changes what it is asked to and nothing else, and the heartbeat sets its  *)
(* LEDs. SimpleFbDxe: unless a client moves a rectangle towards the end of   *)
(* the frame, a Blt that returns has put on the screen all that is in the    *)
(* frame buffer. As long as the library is not asked for what it draws       *)
(* otherwise (Does, Shows), it draws what it is asked, and calls of the      *)
(* driver that preempt each other each draw in one step. GraphicsConsoleDxe: *)
(* the text console offers modes that the screen holds, starts on the screen *)
(* that they were computed for, shows its cursor once and in its place, and  *)
(* prints as on paper.                                                       *)
(***************************************************************************)
EXTENDS Peripherals, GraphicsConsole, CommonLemmas

-----------------------------------------------------------------------------
(* SunxiGpioDxe                                                              *)

(* The pins are below 16, and different levels call for different banks.     *)
AsUsed ==
  /\ \A l \in 1..Levels : \A p \in Called[l] : Number(p) <= 15
  /\ \A k, l \in 1..Levels : k # l => \A p \in Called[k], q \in Called[l] : Bank(p) # Bank(q)

(* The pins that calls of a level name.                                      *)
Named(l) ==
  IF client = "any" THEN Called[l] ELSE IF l = 1 THEN Pins \cap {RedLed, GreenLed} ELSE {}

(* Where the hardware has the fields of a pin.                               *)
ConfigPlace(p) == 9 * Bank(p) + Number(p) \div 8
DrivePlace(p)  == 9 * Bank(p) + 5 + Number(p) \div 16
PlacesOf(p)    == {ConfigPlace(p), DrivePlace(p), GPIO_DAT_BASE(Bank(p))}

(* A call of this name has read the register a as it still is, to put v in   *)
(* the n bits from bit on.                                                   *)
Between(l, name, a, bit, n, v) ==
  access[l] = [name |-> name, at |-> a, word |-> register[a],
               field |-> Shifted(0..n - 1, bit), value |-> Shifted(v, bit)]

(* An output is set and not cleared first.                                   *)
BetweenOutput(l, p, e) ==
  access[l] = [name |-> <<"SetOutput", p, e>>, at |-> GPIO_DAT_BASE(Bank(p)),
               word |-> register[GPIO_DAT_BASE(Bank(p))],
               field |-> {}, value |-> Shifted(e, Number(p))]

InCall(l, p) ==
  \/ \E c \in SUBSET (0..2) :
       Between(l, <<"ConfigurePin", p, c>>, ConfigPlace(p), 4 * (Number(p) % 8), 3, c)
  \/ \E v \in SUBSET (0..1) :
       Between(l, <<"SetDrive", p, v>>, DrivePlace(p), 2 * (Number(p) % 16), 2, v)
  \/ \E e \in SUBSET (0..2) : BetweenOutput(l, p, e)

GpioInv ==
  /\ done \in 0..5
  /\ register \in [Addresses -> SUBSET Bits]
  /\ DOMAIN access = 1..Levels
  /\ \A l \in 1..Levels : access[l] = NoAccess \/ \E p \in Named(l) : InCall(l, p)

-----------------------------------------------------------------------------
(* Numbers                                                                   *)

LEMMA PinNumbers ==
  ASSUME NEW p \in Pins
  PROVE  /\ p \in Nat /\ Bank(p) \in 0..9 /\ Number(p) \in 0..31
         /\ p = 32 * Bank(p) + Number(p)
<1>1. p \in 0..319
  BY GpioAssumption
<1> QED BY <1>1 DEF Bank, Number

LEMMA Places ==
  ASSUME NEW p \in Pins
  PROVE  /\ ConfigPlace(p) \in Addresses /\ DrivePlace(p) \in Addresses
         /\ GPIO_DAT_BASE(Bank(p)) \in Addresses
         /\ Number(p) \div 8 \in 0..3 /\ Number(p) % 8 \in 0..7
         /\ Number(p) = 8 * (Number(p) \div 8) + (Number(p) % 8)
         /\ Number(p) \div 16 \in 0..1 /\ Number(p) % 16 \in 0..15
         /\ Number(p) = 16 * (Number(p) \div 16) + (Number(p) % 16)
<1>1. Number(p) \in 0..31 /\ Bank(p) \in 0..9
  BY PinNumbers
<1>2. ASSUME NEW w \in 0..8 PROVE 9 * Bank(p) + w \in Addresses
  BY <1>1 DEF Addresses
<1>3. /\ Number(p) \div 8 \in 0..3 /\ Number(p) % 8 \in 0..7
      /\ Number(p) = 8 * (Number(p) \div 8) + (Number(p) % 8)
  BY <1>1
<1>4. /\ Number(p) \div 16 \in 0..1 /\ Number(p) % 16 \in 0..15
      /\ Number(p) = 16 * (Number(p) \div 16) + (Number(p) % 16)
  BY <1>1
<1>5. ConfigPlace(p) \in Addresses
  BY <1>2, <1>3 DEF ConfigPlace
<1>6. DrivePlace(p) \in Addresses
  <2>1. 5 + Number(p) \div 16 \in 0..8
    BY <1>4
  <2>2. DrivePlace(p) = 9 * Bank(p) + (5 + Number(p) \div 16)
    BY <1>1, <1>4 DEF DrivePlace
  <2> QED BY <1>2, <2>1, <2>2
<1>7. GPIO_DAT_BASE(Bank(p)) \in Addresses
  BY <1>2 DEF GPIO_DAT_BASE
<1> QED BY <1>3, <1>4, <1>5, <1>6, <1>7

(* The code's arithmetic is that of the hardware for pins below 16.          *)
LEMMA CodePlaces ==
  ASSUME NEW p \in Pins, Number(p) <= 15
  PROVE  /\ ConfigAddress(p) = ConfigPlace(p) /\ ConfigBit(p) = 4 * (Number(p) % 8)
         /\ DriveAddress(p) = DrivePlace(p) /\ DriveBit(p) = 2 * (Number(p) % 16)
         /\ DriveBit(p) < 32
<1>1. Number(p) \in 0..15 /\ Bank(p) \in 0..9
  BY PinNumbers
<1>2. Number(p) \div 8 = (IF Number(p) <= 7 THEN 0 ELSE 1)
  BY <1>1
<1>3. Number(p) \div 16 = 0 /\ Number(p) % 16 = Number(p)
  BY <1>1
<1>4. ConfigAddress(p) = ConfigPlace(p)
  BY <1>1, <1>2 DEF ConfigAddress, ConfigPlace, GPIO_CFG0_BASE, GPIO_CFG1_BASE
<1>5. DriveAddress(p) = DrivePlace(p)
  BY <1>1, <1>3 DEF DriveAddress, DrivePlace, GPIO_MDR0_BASE
<1> QED BY <1>1, <1>3, <1>4, <1>5 DEF ConfigBit, DriveBit

-----------------------------------------------------------------------------
(* Fields                                                                    *)

(* The word w with v in the n bits from bit on.                              *)
With(w, bit, n, v) == (w \ Shifted(0..n - 1, bit)) \cup Shifted(v, bit)

LEMMA FieldIsSet ==
  ASSUME NEW w \in SUBSET Bits, NEW bit \in Nat, NEW n \in Nat, bit + n <= 32,
         NEW v \in SUBSET (0..n - 1)
  PROVE  {b \in 0..n - 1 : b + bit \in With(w, bit, n, v)} = v
<1>1. ASSUME NEW b \in 0..n - 1 PROVE b + bit \in Shifted(0..n - 1, bit)
  BY <1>1 DEF Shifted, Bits
<1>2. ASSUME NEW b \in 0..n - 1 PROVE b + bit \in Shifted(v, bit) <=> b \in v
  <2>1. ASSUME b + bit \in Shifted(v, bit) PROVE b \in v
    <3>1. PICK d \in v : d + bit = b + bit
      BY <2>1 DEF Shifted
    <3>2. d = b
      BY <3>1
    <3> QED BY <3>2
  <2>2. ASSUME b \in v PROVE b + bit \in Shifted(v, bit)
    BY <2>2 DEF Shifted, Bits
  <2> QED BY <2>1, <2>2
<1> QED BY <1>1, <1>2 DEF With

LEMMA OtherBitsStay ==
  ASSUME NEW w \in SUBSET Bits, NEW bit \in Nat, NEW n \in Nat,
         NEW v \in SUBSET (0..n - 1), NEW b \in Nat, b < bit \/ bit + n <= b
  PROVE  b \in With(w, bit, n, v) <=> b \in w
<1>1. ASSUME NEW s \in SUBSET (0..n - 1) PROVE b \notin Shifted(s, bit)
  <2> SUFFICES ASSUME b \in Shifted(s, bit) PROVE FALSE
    OBVIOUS
  <2>1. PICK d \in s : d + bit = b
    BY DEF Shifted
  <2>2. d \in 0..n - 1
    OBVIOUS
  <2> QED BY <2>1, <2>2
<1>2. 0..n - 1 \in SUBSET (0..n - 1)
  OBVIOUS
<1> QED BY <1>1, <1>2 DEF With
(* What a write of v to the n bits from bit on of register a does.           *)
Writes(a, bit, n, v) == register' = [register EXCEPT ![a] = With(register[a], bit, n, v)]

LEMMA WrittenField ==
  ASSUME register \in [Addresses -> SUBSET Bits],
         NEW a \in Addresses, NEW bit \in Nat, NEW n \in Nat, bit + n <= 32,
         NEW v \in SUBSET (0..n - 1), Writes(a, bit, n, v)
  PROVE  Field(a, bit, n)' = v
<1>1. register'[a] = With(register[a], bit, n, v) /\ register[a] \in SUBSET Bits
  BY DEF Writes
<1> QED BY <1>1, FieldIsSet DEF Field

LEMMA OtherBit ==
  ASSUME register \in [Addresses -> SUBSET Bits],
         NEW a \in Addresses, NEW bit \in Nat, NEW n \in Nat,
         NEW v \in SUBSET (0..n - 1), Writes(a, bit, n, v),
         NEW a2 \in Addresses, NEW b \in Nat, a2 # a \/ b < bit \/ bit + n <= b
  PROVE  b \in register'[a2] <=> b \in register[a2]
<1>1. CASE a2 # a
  BY <1>1 DEF Writes
<1>2. CASE a2 = a
  <2>1. register'[a2] = With(register[a], bit, n, v) /\ register[a] \in SUBSET Bits
    BY <1>2 DEF Writes
  <2>2. b < bit \/ bit + n <= b
    BY <1>2
  <2> QED BY <1>2, <2>1, <2>2, OtherBitsStay
<1> QED BY <1>1, <1>2

LEMMA OtherField ==
  ASSUME register \in [Addresses -> SUBSET Bits],
         NEW a \in Addresses, NEW bit \in Nat, NEW n \in Nat,
         NEW v \in SUBSET (0..n - 1), Writes(a, bit, n, v),
         NEW a2 \in Addresses, NEW bit2 \in Nat, NEW n2 \in Nat,
         a2 # a \/ bit2 + n2 <= bit \/ bit + n <= bit2
  PROVE  Field(a2, bit2, n2)' = Field(a2, bit2, n2)
<1>1. ASSUME NEW b \in 0..n2 - 1
      PROVE  b + bit2 \in register'[a2] <=> b + bit2 \in register[a2]
  <2>1. b + bit2 \in Nat /\ (a2 # a \/ b + bit2 < bit \/ bit + n <= b + bit2)
    OBVIOUS
  <2> QED BY <2>1, OtherBit
<1> QED BY <1>1 DEF Field

LEMMA RegisterType ==
  ASSUME register \in [Addresses -> SUBSET Bits],
         NEW a \in Addresses, NEW bit \in Nat, NEW n \in Nat, NEW v,
         Writes(a, bit, n, v)
  PROVE  register' \in [Addresses -> SUBSET Bits]
<1>1. With(register[a], bit, n, v) \in SUBSET Bits
  BY DEF With, Shifted
<1> QED BY <1>1 DEF Writes

-----------------------------------------------------------------------------
(* Different pins have different places, and so have the three kinds.        *)

LEMMA ConfigApart ==
  ASSUME NEW p \in Pins, NEW q \in Pins, p # q
  PROVE  \/ ConfigPlace(q) # ConfigPlace(p)
         \/ 4 * (Number(q) % 8) + 3 <= 4 * (Number(p) % 8)
         \/ 4 * (Number(p) % 8) + 3 <= 4 * (Number(q) % 8)
<1> DEFINE k == Number(p) \div 8
           m == Number(q) \div 8
           i == Number(p) % 8
           j == Number(q) % 8
<1>1. /\ p = 32 * Bank(p) + 8 * k + i /\ q = 32 * Bank(q) + 8 * m + j
      /\ Bank(p) \in 0..9 /\ Bank(q) \in 0..9 /\ k \in 0..3 /\ m \in 0..3
      /\ i \in 0..7 /\ j \in 0..7
  BY PinNumbers, Places
<1>2. ConfigPlace(p) = 9 * Bank(p) + k /\ ConfigPlace(q) = 9 * Bank(q) + m
  BY DEF ConfigPlace
<1> HIDE DEF k, m, i, j
<1>3. ASSUME ConfigPlace(q) = ConfigPlace(p) PROVE i # j
  BY <1>1, <1>2, <1>3
<1>4. i # j => 4 * j + 3 <= 4 * i \/ 4 * i + 3 <= 4 * j
  BY <1>1
<1> QED BY <1>3, <1>4 DEF i, j

LEMMA DriveApart ==
  ASSUME NEW p \in Pins, NEW q \in Pins, p # q
  PROVE  \/ DrivePlace(q) # DrivePlace(p)
         \/ 2 * (Number(q) % 16) + 2 <= 2 * (Number(p) % 16)
         \/ 2 * (Number(p) % 16) + 2 <= 2 * (Number(q) % 16)
<1> DEFINE k == Number(p) \div 16
           m == Number(q) \div 16
           i == Number(p) % 16
           j == Number(q) % 16
<1>1. /\ p = 32 * Bank(p) + 16 * k + i /\ q = 32 * Bank(q) + 16 * m + j
      /\ Bank(p) \in 0..9 /\ Bank(q) \in 0..9 /\ k \in 0..1 /\ m \in 0..1
      /\ i \in 0..15 /\ j \in 0..15
  BY PinNumbers, Places
<1>2. DrivePlace(p) = 9 * Bank(p) + 5 + k /\ DrivePlace(q) = 9 * Bank(q) + 5 + m
  BY DEF DrivePlace
<1> HIDE DEF k, m, i, j
<1>3. ASSUME DrivePlace(q) = DrivePlace(p) PROVE i # j
  BY <1>1, <1>2, <1>3
<1>4. i # j => 2 * j + 2 <= 2 * i \/ 2 * i + 2 <= 2 * j
  BY <1>1
<1> QED BY <1>3, <1>4 DEF i, j

LEMMA KindsApart ==
  ASSUME NEW p \in Pins, NEW q \in Pins
  PROVE  /\ ConfigPlace(p) # DrivePlace(q)
         /\ ConfigPlace(p) # GPIO_DAT_BASE(Bank(q))
         /\ DrivePlace(p) # GPIO_DAT_BASE(Bank(q))
<1> DEFINE k == Number(p) \div 8
           m == Number(q) \div 16
           h == Number(p) \div 16
<1>1. /\ Bank(p) \in 0..9 /\ Bank(q) \in 0..9 /\ k \in 0..3 /\ m \in 0..1 /\ h \in 0..1
  BY PinNumbers, Places
<1>2. /\ ConfigPlace(p) = 9 * Bank(p) + k /\ DrivePlace(q) = 9 * Bank(q) + 5 + m
      /\ DrivePlace(p) = 9 * Bank(p) + 5 + h /\ GPIO_DAT_BASE(Bank(q)) = 9 * Bank(q) + 4
  BY DEF ConfigPlace, DrivePlace, GPIO_DAT_BASE
<1> HIDE DEF k, m, h
<1> QED BY <1>1, <1>2
-----------------------------------------------------------------------------
(* What is written is what the protocol promises                             *)

ConfigOf(p) == Field(ConfigPlace(p), 4 * (Number(p) % 8), 3)
DriveOf(p)  == Field(DrivePlace(p), 2 * (Number(p) % 16), 2)
IsOn(p)     == Number(p) \in register[GPIO_DAT_BASE(Bank(p))]

LEMMA ConfigWritten ==
  ASSUME register \in [Addresses -> SUBSET Bits], NEW p \in Pins, NEW c \in SUBSET (0..2),
         Writes(ConfigPlace(p), 4 * (Number(p) % 8), 3, c)
  PROVE  /\ ConfigOf(p)' = c
         /\ \A q \in Pins \ {p} : ConfigOf(q)' = ConfigOf(q)
         /\ \A q \in Pins : DriveOf(q)' = DriveOf(q) /\ (IsOn(q)' <=> IsOn(q))
<1> DEFINE bit == 4 * (Number(p) % 8)
<1>1. bit \in Nat /\ bit + 3 <= 32 /\ ConfigPlace(p) \in Addresses /\ 3 \in Nat
  BY Places
<1>2. c \in SUBSET (0..3 - 1)
  OBVIOUS
<1>3. ConfigOf(p)' = c
  <2>1. Field(ConfigPlace(p), bit, 3)' = c
    <3> HIDE DEF bit
    <3> QED BY <1>1, <1>2, WrittenField DEF bit
  <2> QED BY <2>1 DEF ConfigOf, ConfigPlace
<1>4. ASSUME NEW q \in Pins \ {p} PROVE ConfigOf(q)' = ConfigOf(q)
  <2>1. 4 * (Number(q) % 8) \in Nat /\ ConfigPlace(q) \in Addresses
    BY Places
  <2>2. Field(ConfigPlace(q), 4 * (Number(q) % 8), 3)' = Field(ConfigPlace(q), 4 * (Number(q) % 8), 3)
    BY <1>1, <1>2, <2>1, ConfigApart, OtherField
  <2> QED BY <2>2 DEF ConfigOf
<1>5. ASSUME NEW q \in Pins PROVE DriveOf(q)' = DriveOf(q)
  <2>1. 2 * (Number(q) % 16) \in Nat /\ DrivePlace(q) \in Addresses /\ 2 \in Nat
    BY Places
  <2>2. Field(DrivePlace(q), 2 * (Number(q) % 16), 2)' = Field(DrivePlace(q), 2 * (Number(q) % 16), 2)
    BY <1>1, <1>2, <2>1, KindsApart, OtherField
  <2> QED BY <2>2 DEF DriveOf
<1>6. ASSUME NEW q \in Pins PROVE IsOn(q)' <=> IsOn(q)
  <2>1. Number(q) \in Nat /\ GPIO_DAT_BASE(Bank(q)) \in Addresses
    BY Places, PinNumbers
  <2> QED BY <1>1, <1>2, <2>1, KindsApart, OtherBit DEF IsOn
<1> QED BY <1>3, <1>4, <1>5, <1>6

LEMMA DriveWritten ==
  ASSUME register \in [Addresses -> SUBSET Bits], NEW p \in Pins, NEW v \in SUBSET (0..1),
         Writes(DrivePlace(p), 2 * (Number(p) % 16), 2, v)
  PROVE  /\ DriveOf(p)' = v
         /\ \A q \in Pins \ {p} : DriveOf(q)' = DriveOf(q)
         /\ \A q \in Pins : ConfigOf(q)' = ConfigOf(q) /\ (IsOn(q)' <=> IsOn(q))
<1> DEFINE bit == 2 * (Number(p) % 16)
<1>1. bit \in Nat /\ bit + 2 <= 32 /\ DrivePlace(p) \in Addresses /\ 2 \in Nat
  BY Places
<1>2. v \in SUBSET (0..2 - 1)
  OBVIOUS
<1>3. DriveOf(p)' = v
  <2>1. Field(DrivePlace(p), bit, 2)' = v
    <3> HIDE DEF bit
    <3> QED BY <1>1, <1>2, WrittenField DEF bit
  <2> QED BY <2>1 DEF DriveOf
<1>4. ASSUME NEW q \in Pins \ {p} PROVE DriveOf(q)' = DriveOf(q)
  <2>1. 2 * (Number(q) % 16) \in Nat /\ DrivePlace(q) \in Addresses
    BY Places
  <2>2. Field(DrivePlace(q), 2 * (Number(q) % 16), 2)' = Field(DrivePlace(q), 2 * (Number(q) % 16), 2)
    BY <1>1, <1>2, <2>1, DriveApart, OtherField
  <2> QED BY <2>2 DEF DriveOf
<1>5. ASSUME NEW q \in Pins PROVE ConfigOf(q)' = ConfigOf(q)
  <2>1. 4 * (Number(q) % 8) \in Nat /\ ConfigPlace(q) \in Addresses /\ 3 \in Nat
    BY Places
  <2>2. Field(ConfigPlace(q), 4 * (Number(q) % 8), 3)' = Field(ConfigPlace(q), 4 * (Number(q) % 8), 3)
    BY <1>1, <1>2, <2>1, KindsApart, OtherField
  <2> QED BY <2>2 DEF ConfigOf
<1>6. ASSUME NEW q \in Pins PROVE IsOn(q)' <=> IsOn(q)
  <2>1. Number(q) \in Nat /\ GPIO_DAT_BASE(Bank(q)) \in Addresses
    BY Places, PinNumbers
  <2> QED BY <1>1, <1>2, <2>1, KindsApart, OtherBit DEF IsOn
<1> QED BY <1>3, <1>4, <1>5, <1>6

(* What a write to the data register does.                                   *)
TurnsOn(p, e) ==
  register' = [register EXCEPT ![GPIO_DAT_BASE(Bank(p))] = @ \cup Shifted(e, Number(p))]

LEMMA OutputWritten ==
  ASSUME register \in [Addresses -> SUBSET Bits], NEW p \in Pins, NEW e \in SUBSET (0..2),
         TurnsOn(p, e)
  PROVE  /\ \A q \in Pins : IsOn(q)' <=> IsOn(q) \/ q \in Pin!From(p, e)
         /\ \A q \in Pins : ConfigOf(q)' = ConfigOf(q) /\ DriveOf(q)' = DriveOf(q)
         /\ register' \in [Addresses -> SUBSET Bits]
<1> DEFINE at == GPIO_DAT_BASE(Bank(p))
<1>1. at \in Addresses /\ register[at] \in SUBSET Bits
  BY Places
<1>2. ASSUME NEW a, a # at PROVE register'[a] = register[a]
  BY <1>2 DEF TurnsOn
<1>3. register'[at] = register[at] \cup Shifted(e, Number(p))
  BY <1>1 DEF TurnsOn
<1>4. ASSUME NEW q \in Pins PROVE IsOn(q)' <=> IsOn(q) \/ q \in Pin!From(p, e)
  <2>1. /\ p \in Nat /\ Bank(p) \in 0..9 /\ Number(p) \in 0..31 /\ p = 32 * Bank(p) + Number(p)
        /\ q \in Nat /\ Bank(q) \in 0..9 /\ Number(q) \in 0..31 /\ q = 32 * Bank(q) + Number(q)
    BY PinNumbers
  <2>2. q \in Pin!From(p, e) <=> Bank(q) = Bank(p) /\ q - p \in e
    BY DEF Pin!From, Bank
  <2>3. CASE Bank(q) # Bank(p)
    <3>1. GPIO_DAT_BASE(Bank(q)) # at
      BY <2>1, <2>3 DEF GPIO_DAT_BASE
    <3> QED BY <1>2, <2>2, <2>3, <3>1 DEF IsOn
  <2>4. CASE Bank(q) = Bank(p)
    <3>1. q - p = Number(q) - Number(p)
      <4>1. ASSUME NEW b \in 0..9, NEW m \in 0..31, NEW n \in 0..31
            PROVE  (32 * b + n) - (32 * b + m) = n - m
        OBVIOUS
      <4> QED BY <2>1, <2>4, <4>1
    <3>2. Number(q) \in Shifted(e, Number(p)) <=> q - p \in e
      <4>1. ASSUME Number(q) \in Shifted(e, Number(p)) PROVE q - p \in e
        <5>1. PICK d \in e : d + Number(p) = Number(q)
          BY <4>1 DEF Shifted
        <5>2. d = q - p
          BY <2>1, <3>1, <5>1
        <5> QED BY <5>2
      <4>2. ASSUME q - p \in e PROVE Number(q) \in Shifted(e, Number(p))
        <5>1. (q - p) + Number(p) = Number(q) /\ Number(q) \in Bits
          BY <2>1, <3>1 DEF Bits
        <5> QED BY <4>2, <5>1 DEF Shifted
      <4> QED BY <4>1, <4>2
    <3> QED BY <1>3, <2>2, <2>4, <3>2 DEF IsOn
  <2> QED BY <2>3, <2>4
<1>5. ASSUME NEW q \in Pins PROVE ConfigOf(q)' = ConfigOf(q) /\ DriveOf(q)' = DriveOf(q)
  BY <1>2, KindsApart DEF ConfigOf, DriveOf, Field
<1>6. register' \in [Addresses -> SUBSET Bits]
  BY <1>1 DEF TurnsOn, Shifted
<1> QED BY <1>4, <1>5, <1>6
-----------------------------------------------------------------------------
(* Steps of the protocol                                                     *)

configs == [p \in Pins |-> ConfigOf(p)]
drives  == [p \in Pins |-> DriveOf(p)]
outputs == [p \in Pins |-> IsOn(p)]

LEMMA SameConfigs ==
  ASSUME \A q \in Pins : ConfigOf(q)' = ConfigOf(q) PROVE configs' = configs
  BY DEF configs

LEMMA SameDrives ==
  ASSUME \A q \in Pins : DriveOf(q)' = DriveOf(q) PROVE drives' = drives
  BY DEF drives

LEMMA SameOutputs ==
  ASSUME \A q \in Pins : IsOn(q)' <=> IsOn(q) PROVE outputs' = outputs
<1>1. \A q \in Pins : IsOn(q)' = IsOn(q)
  BY DEF IsOn
<1> QED BY <1>1 DEF outputs

LEMMA ConfigStep ==
  ASSUME register \in [Addresses -> SUBSET Bits], NEW p \in Pins, NEW c \in SUBSET (0..2),
         Writes(ConfigPlace(p), 4 * (Number(p) % 8), 3, c), last' = <<"ConfigurePin", p, c>>
  PROVE  Pin!PinsNext
<1>1. configs' = [configs EXCEPT ![p] = c]
  BY ConfigWritten DEF configs
<1>2. drives' = drives /\ outputs' = outputs
  BY ConfigWritten, SameDrives, SameOutputs
<1>3. Pin!Configure(p, c)
  BY <1>1, <1>2 DEF Pin!Configure, configs, drives, outputs, ConfigOf, DriveOf, IsOn,
                    ConfigPlace, DrivePlace
<1> QED BY <1>3 DEF Pin!PinsNext

LEMMA DriveStep ==
  ASSUME register \in [Addresses -> SUBSET Bits], NEW p \in Pins, NEW v \in SUBSET (0..1),
         Writes(DrivePlace(p), 2 * (Number(p) % 16), 2, v), last' = <<"SetDrive", p, v>>
  PROVE  Pin!PinsNext
<1>1. drives' = [drives EXCEPT ![p] = v]
  BY DriveWritten DEF drives
<1>2. configs' = configs /\ outputs' = outputs
  BY DriveWritten, SameConfigs, SameOutputs
<1>3. Pin!Drive(p, v)
  BY <1>1, <1>2 DEF Pin!Drive, configs, drives, outputs, ConfigOf, DriveOf, IsOn,
                    ConfigPlace, DrivePlace
<1> QED BY <1>3 DEF Pin!PinsNext

LEMMA OutputStep ==
  ASSUME register \in [Addresses -> SUBSET Bits], NEW p \in Pins, NEW e \in SUBSET (0..2),
         TurnsOn(p, e), last' = <<"SetOutput", p, e>>
  PROVE  Pin!PinsNext
<1>1. outputs' = [q \in Pins |-> outputs[q] \/ q \in Pin!From(p, e)]
  <2>1. \A q \in Pins : IsOn(q)' = (IsOn(q) \/ q \in Pin!From(p, e))
    BY OutputWritten DEF IsOn
  <2> QED BY <2>1 DEF outputs
<1>2. configs' = configs /\ drives' = drives
  BY OutputWritten, SameConfigs, SameDrives
<1>3. Pin!Enable(p, e)
  BY <1>1, <1>2 DEF Pin!Enable, configs, drives, outputs, ConfigOf, DriveOf, IsOn,
                    ConfigPlace, DrivePlace
<1> QED BY <1>3 DEF Pin!PinsNext

LEMMA NamedPins ==
  ASSUME AsUsed, NEW l \in 1..Levels, NEW p \in Named(l)
  PROVE  p \in Pins /\ Number(p) <= 15
<1>1. Number(RedLed) = 12 /\ Number(GreenLed) = 13
  BY DEF RedLed, GreenLed, BankC, Number
<1> QED BY <1>1, GpioAssumption DEF AsUsed, Named

(* Calls of different levels have different registers.                       *)
LEMMA CallsApart ==
  ASSUME AsUsed, NEW k \in 1..Levels, NEW l \in 1..Levels, k # l,
         NEW p \in Named(k), NEW q \in Named(l)
  PROVE  PlacesOf(p) \cap PlacesOf(q) = {}
<1>1. p \in Pins /\ q \in Pins /\ Bank(p) # Bank(q)
  BY NamedPins DEF AsUsed, Named
<1>2. ASSUME NEW r \in Pins, NEW a \in PlacesOf(r)
      PROVE  Bank(r) \in 0..9 /\ \E w \in 0..8 : a = 9 * Bank(r) + w
  <2>1. Bank(r) \in 0..9 /\ Number(r) \div 8 \in 0..3 /\ Number(r) \div 16 \in 0..1
    BY <1>2, Places, PinNumbers
  <2>2. a \in {9 * Bank(r) + Number(r) \div 8, 9 * Bank(r) + (5 + Number(r) \div 16), 9 * Bank(r) + 4}
    BY <1>2, <2>1 DEF PlacesOf, ConfigPlace, DrivePlace, GPIO_DAT_BASE
  <2>3. Number(r) \div 8 \in 0..8 /\ 5 + Number(r) \div 16 \in 0..8 /\ 4 \in 0..8
    BY <2>1
  <2> QED BY <2>1, <2>2, <2>3
<1>3. ASSUME NEW i \in 0..9, NEW j \in 0..9, i # j, NEW w \in 0..8, NEW x \in 0..8
      PROVE  9 * i + w # 9 * j + x
  BY <1>3
<1> QED BY <1>1, <1>2, <1>3

LEMMA CallStays ==
  ASSUME NEW l, NEW p, InCall(l, p), access'[l] = access[l],
         \A a \in PlacesOf(p) : register'[a] = register[a]
  PROVE  InCall(l, p)'
<1>1. /\ register'[ConfigPlace(p)] = register[ConfigPlace(p)]
      /\ register'[DrivePlace(p)] = register[DrivePlace(p)]
      /\ register'[GPIO_DAT_BASE(Bank(p))] = register[GPIO_DAT_BASE(Bank(p))]
  BY DEF PlacesOf
<1> QED BY <1>1 DEF InCall, Between, BetweenOutput

(* The second access of a call is a step of the protocol.                    *)
LEMMA WriteStep ==
  ASSUME AsUsed, GpioInv, NEW l \in 1..Levels, MmioWrite32(l)
  PROVE  Pin!PinsNext /\ GpioInv'
<1>1. access[l] # NoAccess
  BY DEF MmioWrite32
<1>2. PICK p \in Named(l) : InCall(l, p)
  BY <1>1 DEF GpioInv
<1>3. register \in [Addresses -> SUBSET Bits] /\ DOMAIN access = 1..Levels /\ p \in Pins
  BY NamedPins DEF GpioInv
<1>4. /\ register' = [register EXCEPT ![access[l].at] = FieldReplaced(access[l])]
      /\ last' = access[l].name /\ access' = [access EXCEPT ![l] = NoAccess]
      /\ UNCHANGED <<client, done>>
  BY DEF MmioWrite32
<1>5. ASSUME NEW name, NEW a, NEW bit, NEW n, NEW v, Between(l, name, a, bit, n, v)
      PROVE  Writes(a, bit, n, v) /\ last' = name /\ access[l].at = a
  BY <1>4, <1>5 DEF Between, Writes, With, FieldReplaced
<1>6. Pin!PinsNext /\ register' \in [Addresses -> SUBSET Bits] /\ access[l].at \in PlacesOf(p)
  <2>1. CASE \E c \in SUBSET (0..2) :
               Between(l, <<"ConfigurePin", p, c>>, ConfigPlace(p), 4 * (Number(p) % 8), 3, c)
    <3>1. PICK c \in SUBSET (0..2) :
               Between(l, <<"ConfigurePin", p, c>>, ConfigPlace(p), 4 * (Number(p) % 8), 3, c)
      BY <2>1
    <3>2. /\ Writes(ConfigPlace(p), 4 * (Number(p) % 8), 3, c)
          /\ last' = <<"ConfigurePin", p, c>> /\ access[l].at = ConfigPlace(p)
      BY <1>5, <3>1
    <3>3. 4 * (Number(p) % 8) \in Nat /\ 3 \in Nat /\ ConfigPlace(p) \in Addresses
      BY <1>3, Places
    <3>4. register' \in [Addresses -> SUBSET Bits]
      BY <1>3, <3>2, <3>3, RegisterType
    <3> QED BY <1>3, <3>2, <3>4, ConfigStep DEF PlacesOf
  <2>2. CASE \E v \in SUBSET (0..1) :
               Between(l, <<"SetDrive", p, v>>, DrivePlace(p), 2 * (Number(p) % 16), 2, v)
    <3>1. PICK v \in SUBSET (0..1) :
               Between(l, <<"SetDrive", p, v>>, DrivePlace(p), 2 * (Number(p) % 16), 2, v)
      BY <2>2
    <3>2. /\ Writes(DrivePlace(p), 2 * (Number(p) % 16), 2, v)
          /\ last' = <<"SetDrive", p, v>> /\ access[l].at = DrivePlace(p)
      BY <1>5, <3>1
    <3>3. 2 * (Number(p) % 16) \in Nat /\ 2 \in Nat /\ DrivePlace(p) \in Addresses
      <4>1. Number(p) % 16 \in 0..15 /\ DrivePlace(p) \in Addresses
        BY <1>3, Places
      <4> QED BY <4>1
    <3>4. register' \in [Addresses -> SUBSET Bits]
      BY <1>3, <3>2, <3>3, RegisterType
    <3> QED BY <1>3, <3>2, <3>4, DriveStep DEF PlacesOf
  <2>3. CASE \E e \in SUBSET (0..2) : BetweenOutput(l, p, e)
    <3>1. PICK e \in SUBSET (0..2) : BetweenOutput(l, p, e)
      BY <2>3
    <3>2. TurnsOn(p, e) /\ last' = <<"SetOutput", p, e>> /\ access[l].at = GPIO_DAT_BASE(Bank(p))
      BY <1>4, <3>1 DEF BetweenOutput, FieldReplaced, TurnsOn
    <3> QED BY <1>3, <3>2, OutputWritten, OutputStep DEF PlacesOf
  <2> QED BY <1>2, <2>1, <2>2, <2>3 DEF InCall
<1>7. DOMAIN access' = 1..Levels /\ access'[l] = NoAccess
  BY <1>3, <1>4
<1>8. ASSUME NEW k \in 1..Levels, k # l, access[k] # NoAccess
      PROVE  \E q \in Named(k)' : InCall(k, q)'
  <2>1. PICK q \in Named(k) : InCall(k, q)
    BY <1>8 DEF GpioInv
  <2>2. access'[k] = access[k] /\ Named(k)' = Named(k)
    BY <1>3, <1>4, <1>8 DEF Named, RedLed, GreenLed, BankC
  <2>3. \A a \in PlacesOf(q) : register'[a] = register[a]
    BY <1>2, <1>4, <1>6, <1>8, <2>1, CallsApart
  <2> QED BY <2>1, <2>2, <2>3, CallStays
<1>9. \A k \in 1..Levels : (access[k] = NoAccess \/ \E q \in Named(k) : InCall(k, q))'
  <2> SUFFICES ASSUME NEW k \in 1..Levels, access'[k] # NoAccess
               PROVE  \E q \in Named(k)' : InCall(k, q)'
    OBVIOUS
  <2>1. k # l /\ access'[k] = access[k]
    BY <1>3, <1>4, <1>7
  <2> QED BY <1>8, <2>1
<1> QED BY <1>4, <1>6, <1>7, <1>9 DEF GpioInv

PinCall(l, p) ==
  \/ \E c \in SUBSET (0..2) : ConfigurePin(l, p, c)
  \/ \E v \in SUBSET (0..1) : SetDrive(l, p, v)
  \/ \E e \in SUBSET (0..2) : SetOutput(l, p, e)

(* The first access of a call changes no pin.                                *)
LEMMA ReadStep ==
  ASSUME AsUsed, GpioInv, NEW l \in 1..Levels, NEW p \in Named(l), PinCall(l, p), done' \in 0..5
  PROVE  UNCHANGED Pin!pinVars /\ GpioInv'
<1>1. p \in Pins /\ Number(p) <= 15
  BY NamedPins
<1>2. UNCHANGED <<client, register, last>>
  BY DEF PinCall, ConfigurePin, SetDrive, SetOutput, MmioRead32
<1>3. register \in [Addresses -> SUBSET Bits] /\ DOMAIN access = 1..Levels
  BY DEF GpioInv
<1> DEFINE Read == DOMAIN access' = 1..Levels /\ \A k \in 1..Levels : k # l => access'[k] = access[k]
<1>4. ASSUME NEW name, NEW a, NEW f, NEW v, MmioRead32(l, name, a, f, v)
      PROVE  /\ Read
             /\ access'[l] = [name |-> name, at |-> a, word |-> register'[a], field |-> f, value |-> v]
  BY <1>2, <1>3, <1>4 DEF MmioRead32
<1>5. Read /\ InCall(l, p)'
  <2>1. CASE \E c \in SUBSET (0..2) : ConfigurePin(l, p, c)
    <3>1. PICK c \in SUBSET (0..2) : ConfigurePin(l, p, c)
      BY <2>1
    <3>2. MmioRead32(l, <<"ConfigurePin", p, c>>, ConfigPlace(p),
                     Shifted(0..2, 4 * (Number(p) % 8)), Shifted(c, 4 * (Number(p) % 8)))
      BY <1>1, <3>1, CodePlaces DEF ConfigurePin
    <3>3. 0..3 - 1 = 0..2
      OBVIOUS
    <3>4. Read /\ Between(l, <<"ConfigurePin", p, c>>, ConfigPlace(p), 4 * (Number(p) % 8), 3, c)'
      BY <1>4, <3>2, <3>3 DEF Between
    <3> QED BY <3>4 DEF InCall
  <2>2. CASE \E v \in SUBSET (0..1) : SetDrive(l, p, v)
    <3>1. PICK v \in SUBSET (0..1) : SetDrive(l, p, v)
      BY <2>2
    <3>2. MmioRead32(l, <<"SetDrive", p, v>>, DrivePlace(p),
                     Shifted(0..1, 2 * (Number(p) % 16)), Shifted(v, 2 * (Number(p) % 16)))
      BY <1>1, <3>1, CodePlaces DEF SetDrive
    <3>3. 0..2 - 1 = 0..1
      OBVIOUS
    <3>4. Read /\ Between(l, <<"SetDrive", p, v>>, DrivePlace(p), 2 * (Number(p) % 16), 2, v)'
      BY <1>4, <3>2, <3>3 DEF Between
    <3> QED BY <3>4 DEF InCall
  <2>3. CASE \E e \in SUBSET (0..2) : SetOutput(l, p, e)
    <3>1. PICK e \in SUBSET (0..2) : SetOutput(l, p, e)
      BY <2>3
    <3>2. MmioRead32(l, <<"SetOutput", p, e>>, GPIO_DAT_BASE(Bank(p)), {}, Shifted(e, Number(p)))
      BY <3>1 DEF SetOutput
    <3>3. Read /\ BetweenOutput(l, p, e)'
      <4> HIDE DEF Read
      <4> QED BY <1>4, <3>2 DEF BetweenOutput
    <3> QED BY <3>3 DEF InCall
  <2> QED BY <2>1, <2>2, <2>3 DEF PinCall
<1>6. \A k \in 1..Levels : Named(k)' = Named(k)
  BY <1>2 DEF Named, RedLed, GreenLed, BankC
<1>7. ASSUME NEW k \in 1..Levels, k # l, access'[k] # NoAccess
      PROVE  \E q \in Named(k)' : InCall(k, q)'
  <2>1. access'[k] = access[k]
    BY <1>5, <1>7
  <2>2. PICK q \in Named(k) : InCall(k, q)
    BY <1>7, <2>1 DEF GpioInv
  <2> QED BY <1>2, <1>6, <2>1, <2>2, CallStays
<1>8. GpioInv'
  BY <1>2, <1>3, <1>5, <1>6, <1>7 DEF GpioInv
<1>9. UNCHANGED Pin!pinVars
  BY <1>2 DEF Pin!pinVars, Field
<1> QED BY <1>8, <1>9

LEMMA GpioStep ==
  ASSUME AsUsed, GpioInv, [GpioNext]_gpioVars
  PROVE  GpioInv' /\ [Pin!PinsNext]_(Pin!pinVars)
<1>1. CASE AnyCall
  <2>1. PICK l \in 1..Levels : \E p \in Called[l] : PinCall(l, p)
    BY <1>1, GpioAssumption DEF AnyCall, PinCall
  <2>2. Called[l] = Named(l) /\ done' \in 0..5
    BY <1>1 DEF AnyCall, Named, GpioInv
  <2> QED BY <2>1, <2>2, ReadStep
<1>2. CASE HeartbeatCall
  <2>1. 1 \in 1..Levels /\ Named(1) = {RedLed, GreenLed} /\ done' \in 0..5
    BY <1>2, GpioAssumption DEF HeartbeatCall, Named, GpioInv
  <2>2. PinCall(1, RedLed) \/ PinCall(1, GreenLed)
    <3>1. IO_DISABLE \in SUBSET (0..2) /\ OUTPUT \in SUBSET (0..2) /\ L0 \in SUBSET (0..1)
      BY DEF IO_DISABLE, OUTPUT, L0
    <3>2. \/ SetOutput(1, RedLed, IO_DISABLE) \/ ConfigurePin(1, RedLed, IO_DISABLE)
          \/ ConfigurePin(1, GreenLed, OUTPUT) \/ SetDrive(1, GreenLed, L0)
          \/ SetOutput(1, GreenLed, OUTPUT)
      <4>1. done \in {0, 1, 2, 3, 4}
        BY <1>2 DEF HeartbeatCall, GpioInv
      <4> QED BY <1>2, <4>1 DEF HeartbeatCall
    <3> QED BY <3>1, <3>2 DEF PinCall
  <2> QED BY <2>1, <2>2, ReadStep
<1>3. CASE \E l \in 1..Levels : MmioWrite32(l)
  BY <1>3, WriteStep
<1>4. CASE UNCHANGED gpioVars
  <2>1. UNCHANGED Pin!pinVars
    BY <1>4 DEF gpioVars, Pin!pinVars, Field
  <2>2. GpioInv'
    BY <1>4 DEF gpioVars, GpioInv, InCall, Between, BetweenOutput, Named, RedLed, GreenLed, BankC
  <2> QED BY <2>1, <2>2
<1> QED BY <1>1, <1>2, <1>3, <1>4 DEF GpioNext

(* For any pins, levels and contents of the registers, and whatever the      *)
(* clients give: each call changes what it names, and nothing of other pins. *)
THEOREM GpioImplementsPins == AsUsed /\ GpioSpec => ImplementsPins
<1>1. ASSUME AsUsed, GpioInit PROVE GpioInv /\ Pin!PinsInit
  <2>1. register \in [Addresses -> SUBSET Bits]
    BY <1>1, GpioAssumption DEF GpioInit
  <2>2. access = [l \in 1..Levels |-> NoAccess]
    BY <1>1 DEF GpioInit
  <2>3. Pin!PinsInit
    BY <1>1 DEF GpioInit, Pin!PinsInit, Field
  <2> QED BY <1>1, <2>1, <2>2, <2>3 DEF GpioInv, GpioInit
<1>2. AsUsed /\ GpioInv /\ [GpioNext]_gpioVars => GpioInv' /\ [Pin!PinsNext]_(Pin!pinVars)
  BY GpioStep
<1>3. CASE AsUsed
  <2>1. GpioInit => GpioInv /\ Pin!PinsInit
    BY <1>1, <1>3
  <2>2. GpioInv /\ [GpioNext]_gpioVars => GpioInv' /\ [Pin!PinsNext]_(Pin!pinVars)
    BY <1>2, <1>3
  <2> QED BY <2>1, <2>2, PTL DEF GpioSpec, ImplementsPins, Pin!PinsSpec
<1>4. CASE ~AsUsed
  BY <1>4
<1> QED BY <1>3, <1>4

-----------------------------------------------------------------------------
(* The heartbeat                                                             *)

(* The registers of the LEDs, which are of bank C: configurations, drive     *)
(* levels and data.                                                          *)
LEMMA LedPlaces ==
  /\ Bank(RedLed) = 2 /\ Number(RedLed) = 12 /\ Bank(GreenLed) = 2 /\ Number(GreenLed) = 13
  /\ ConfigAddress(RedLed) = 19 /\ ConfigBit(RedLed) = 16
  /\ ConfigAddress(GreenLed) = 19 /\ ConfigBit(GreenLed) = 20
  /\ DriveAddress(GreenLed) = 23 /\ DriveBit(GreenLed) = 26
  /\ GPIO_DAT_BASE(2) = 22 /\ BankC = 2
<1>1. RedLed = 76 /\ GreenLed = 77
  BY DEF RedLed, GreenLed, BankC
<1>2. /\ Bank(RedLed) = 2 /\ Number(RedLed) = 12 /\ Bank(GreenLed) = 2 /\ Number(GreenLed) = 13
  BY <1>1 DEF Bank, Number
<1> QED BY <1>2 DEF ConfigAddress, ConfigBit, DriveAddress, DriveBit, BankC, GPIO_CFG1_BASE,
                    GPIO_MDR0_BASE, GPIO_DAT_BASE

(* The registers and the fields of the heartbeat's calls.                    *)
Names(n, a, field, value) ==
  /\ n = 1 => a = 22 /\ field = {} /\ value = Shifted(0..2, 12)
  /\ n = 2 => a = 19 /\ field = Shifted(0..2, 16) /\ value = Shifted(0..2, 16)
  /\ n = 3 => a = 19 /\ field = Shifted(0..2, 20) /\ value = Shifted({0}, 20)
  /\ n = 4 => a = 23 /\ field = Shifted(0..1, 26) /\ value = Shifted({}, 26)
  /\ n = 5 => a = 22 /\ field = {} /\ value = Shifted({0}, 13)

(* The n-th call is between its accesses, the register being as it was read. *)
CallOf(n, c) == Names(n, c.at, c.field, c.value) /\ c.word = register[c.at]

(* The n-th call is completed.                                               *)
Completed(n) == done > n \/ (done = n /\ access[1] = NoAccess)

LedInv ==
  /\ done \in 0..5
  /\ client = "any" => done = 0
  /\ client # "any" =>
       /\ DOMAIN access = 1..Levels /\ \A l \in 2..Levels : access[l] = NoAccess
       /\ done > 0 => {RedLed, GreenLed} \subseteq Pins
       /\ register \in [Addresses -> SUBSET Bits]
       /\ access[1] # NoAccess => done > 0 /\ CallOf(done, access[1])
       /\ Completed(2) => Field(19, 16, 3) = IO_DISABLE
       /\ Completed(3) => Field(19, 20, 3) = OUTPUT
       /\ Completed(5) => 13 \in register[22]

LEMMA LedInit == GpioInit => LedInv
<1> SUFFICES ASSUME GpioInit PROVE LedInv
  OBVIOUS
<1>1. PICK w \in ResetWords : register = [a \in Addresses |-> w]
  BY DEF GpioInit
<1>2. register \in [Addresses -> SUBSET Bits]
  BY <1>1, GpioAssumption
<1>3. /\ access = [l \in 1..Levels |-> NoAccess] /\ done = 0
  BY DEF GpioInit
<1>4. 1 \in 1..Levels
  BY GpioAssumption
<1>5. access[1] = NoAccess /\ \A l \in 2..Levels : access[l] = NoAccess
  BY <1>3, <1>4, GpioAssumption
<1>6. ~Completed(2) /\ ~Completed(3) /\ ~Completed(5)
  BY <1>3 DEF Completed
<1> QED BY <1>2, <1>3, <1>5, <1>6 DEF LedInv

(* The calls are made one after the other.                                   *)
LEMMA LedCall == LedInv /\ HeartbeatCall => LedInv'
<1> SUFFICES ASSUME LedInv, HeartbeatCall PROVE LedInv'
  OBVIOUS
<1>1. /\ client = "heartbeat" /\ {RedLed, GreenLed} \subseteq Pins
      /\ done < 5 /\ done' = done + 1 /\ done \in 0..5
  BY DEF HeartbeatCall, LedInv
<1>2. 1 \in 1..Levels /\ Levels \in Nat /\ DOMAIN access = 1..Levels
  BY <1>1, GpioAssumption DEF LedInv
<1>3. ASSUME NEW name, NEW a \in Nat, NEW field, NEW value, MmioRead32(1, name, a, field, value)
      PROVE  /\ access[1] = NoAccess /\ UNCHANGED <<client, register>>
             /\ access'[1].at = a /\ access'[1].word = register[a]
             /\ access'[1].field = field /\ access'[1].value = value
             /\ access'[1] # NoAccess
             /\ DOMAIN access' = 1..Levels /\ \A l \in 2..Levels : access'[l] = NoAccess
  <2>1. access' = [access EXCEPT ![1] = [name |-> name, at |-> a, word |-> register[a],
                                         field |-> field, value |-> value]]
    BY <1>3 DEF MmioRead32
  <2>2. access[1] = NoAccess /\ UNCHANGED <<client, register>>
    BY <1>2, <1>3 DEF MmioRead32
  <2>3. /\ access'[1] = [name |-> name, at |-> a, word |-> register[a],
                         field |-> field, value |-> value]
        /\ DOMAIN access' = 1..Levels /\ \A l \in 2..Levels : access'[l] = access[l]
    BY <1>2, <2>1
  <2>4. \A l \in 2..Levels : access'[l] = NoAccess
    BY <1>1, <2>3 DEF LedInv
  <2>5. access'[1].at = a /\ NoAccess.at = -1 /\ a # -1
    BY <2>3 DEF NoAccess
  <2>6. access'[1] # NoAccess
    BY <2>5
  <2> QED BY <2>2, <2>3, <2>4, <2>6
<1>4. ASSUME NEW name, NEW a \in Nat, NEW field, NEW value, MmioRead32(1, name, a, field, value),
             Names(done + 1, a, field, value)
      PROVE  LedInv'
  <2>1. /\ access[1] = NoAccess /\ UNCHANGED <<client, register>>
        /\ access'[1].at = a /\ access'[1].word = register[a]
        /\ access'[1].field = field /\ access'[1].value = value
        /\ access'[1] # NoAccess
        /\ DOMAIN access' = 1..Levels /\ \A l \in 2..Levels : access'[l] = NoAccess
    BY <1>3, <1>4
  <2>2. CallOf(done, access[1])'
    <3>1. done' = done + 1 /\ register' = register
      BY <1>1, <2>1
    <3>2. access'[1].word = register'[access'[1].at]
      BY <2>1, <3>1
    <3>3. Names(done', access'[1].at, access'[1].field, access'[1].value)
      BY <1>4, <2>1, <3>1
    <3>4. Names(done, access[1].at, access[1].field, access[1].value)'
      BY <3>3 DEF Names
    <3> QED BY <3>2, <3>4 DEF CallOf
  <2>3. ASSUME NEW n \in {2, 3, 5}, Completed(n)' PROVE Completed(n)
    BY <1>1, <2>1, <2>3 DEF Completed
  <2>4. register \in [Addresses -> SUBSET Bits]
    BY <1>1 DEF LedInv
  <2>5. Completed(2)' => Field(19, 16, 3) = IO_DISABLE
    BY <1>1, <2>3 DEF LedInv
  <2>6. Completed(3)' => Field(19, 20, 3) = OUTPUT
    BY <1>1, <2>3 DEF LedInv
  <2>7. Completed(5)' => 13 \in register[22]
    BY <1>1, <2>3 DEF LedInv
  <2>8. client # "any" /\ done' \in 0..5 /\ done' > 0
    BY <1>1
  <2>9. Field(19, 16, 3)' = Field(19, 16, 3) /\ Field(19, 20, 3)' = Field(19, 20, 3)
    BY <2>1 DEF Field
  <2>10. IO_DISABLE' = IO_DISABLE /\ OUTPUT' = OUTPUT
    BY DEF IO_DISABLE, OUTPUT
  <2>11. /\ {RedLed, GreenLed}' = {RedLed, GreenLed} /\ Pins' = Pins
         /\ client' = client /\ register' = register
    BY <2>1 DEF RedLed, GreenLed, BankC
  <2> QED BY <1>1, <2>1, <2>2, <2>4, <2>5, <2>6, <2>7, <2>8, <2>9, <2>10, <2>11 DEF LedInv
<1>5. CASE done = 0
  <2>1. MmioRead32(1, <<"SetOutput", RedLed, 0..2>>, 22, {}, Shifted(0..2, 12))
    BY <1>5, LedPlaces DEF HeartbeatCall, SetOutput, IO_DISABLE
  <2>2. Names(done + 1, 22, {}, Shifted(0..2, 12))
    BY <1>5 DEF Names
  <2> QED BY <1>4, <2>1, <2>2
<1>6. CASE done = 1
  <2>1. MmioRead32(1, <<"ConfigurePin", RedLed, 0..2>>, 19, Shifted(0..2, 16), Shifted(0..2, 16))
    BY <1>6, LedPlaces DEF HeartbeatCall, ConfigurePin, IO_DISABLE
  <2>2. Names(done + 1, 19, Shifted(0..2, 16), Shifted(0..2, 16))
    BY <1>6 DEF Names
  <2> QED BY <1>4, <2>1, <2>2
<1>7. CASE done = 2
  <2>1. MmioRead32(1, <<"ConfigurePin", GreenLed, {0}>>, 19, Shifted(0..2, 20), Shifted({0}, 20))
    BY <1>7, LedPlaces DEF HeartbeatCall, ConfigurePin, OUTPUT
  <2>2. Names(done + 1, 19, Shifted(0..2, 20), Shifted({0}, 20))
    BY <1>7 DEF Names
  <2> QED BY <1>4, <2>1, <2>2
<1>8. CASE done = 3
  <2>1. SetDrive(1, GreenLed, {})
    BY <1>8 DEF HeartbeatCall, L0
  <2>2. MmioRead32(1, <<"SetDrive", GreenLed, {}>>, 23, Shifted(0..1, 26), Shifted({}, 26))
    BY <2>1, LedPlaces DEF SetDrive
  <2>3. Names(done + 1, 23, Shifted(0..1, 26), Shifted({}, 26))
    BY <1>8 DEF Names
  <2> QED BY <1>4, <2>2, <2>3
<1>9. CASE done = 4
  <2>1. MmioRead32(1, <<"SetOutput", GreenLed, {0}>>, 22, {}, Shifted({0}, 13))
    BY <1>9, LedPlaces DEF HeartbeatCall, SetOutput, OUTPUT
  <2>2. Names(done + 1, 22, {}, Shifted({0}, 13))
    BY <1>9 DEF Names
  <2> QED BY <1>4, <2>1, <2>2
<1>10. done \in {0, 1, 2, 3, 4}
  BY <1>1
<1> QED BY <1>5, <1>6, <1>7, <1>8, <1>9, <1>10

(* The write of a call leaves the fields that the calls before it have set,  *)
(* and sets its own.                                                         *)
LEMMA LedWrite ==
  ASSUME LedInv, client # "any", NEW l \in 1..Levels, MmioWrite32(l)
  PROVE  LedInv'
<1>1. /\ DOMAIN access = 1..Levels /\ \A k \in 2..Levels : access[k] = NoAccess
      /\ register \in [Addresses -> SUBSET Bits] /\ Levels \in Nat \ {0}
  BY GpioAssumption DEF LedInv
<1>2. l = 1
  <2>1. access[l] # NoAccess
    BY DEF MmioWrite32
  <2> QED BY <1>1, <2>1
<1>3. /\ access[1] # NoAccess /\ done > 0 /\ done \in 0..5 /\ CallOf(done, access[1])
      /\ {RedLed, GreenLed} \subseteq Pins
  BY <1>2 DEF LedInv, MmioWrite32
<1>4. /\ access' = [access EXCEPT ![1] = NoAccess] /\ UNCHANGED <<client, done>>
      /\ register' = [register EXCEPT ![access[1].at] = FieldReplaced(access[1])]
  BY <1>2 DEF MmioWrite32
<1>5. access'[1] = NoAccess /\ DOMAIN access' = 1..Levels /\ \A k \in 2..Levels : access'[k] = NoAccess
  BY <1>1, <1>4
<1>6. 19 \in Addresses /\ 22 \in Addresses /\ 23 \in Addresses
  <2>1. ASSUME NEW w \in 0..8 PROVE 9 * 2 + w \in Addresses
    BY <1>3, LedPlaces DEF Addresses
  <2>2. 9 * 2 + 1 = 19 /\ 9 * 2 + 4 = 22 /\ 9 * 2 + 5 = 23
    OBVIOUS
  <2> QED BY <2>1, <2>2
<1>7. ASSUME NEW n \in {2, 3, 5} PROVE Completed(n)' <=> Completed(n) \/ done = n
  BY <1>3, <1>4, <1>5 DEF Completed
<1>8. /\ Completed(2) => Field(19, 16, 3) = IO_DISABLE
      /\ Completed(3) => Field(19, 20, 3) = OUTPUT
      /\ Completed(5) => 13 \in register[22]
  BY DEF LedInv
<1>9. /\ ~Completed(done) /\ (Completed(2) => done # 2 /\ done # 1)
      /\ (Completed(3) => done \notin {1, 2, 3}) /\ ~Completed(5)
  BY <1>3 DEF Completed
<1> DEFINE LedPins ==
      /\ register' \in [Addresses -> SUBSET Bits]
      /\ done = 2 \/ Completed(2) => Field(19, 16, 3)' = IO_DISABLE
      /\ done = 3 \/ Completed(3) => Field(19, 20, 3)' = OUTPUT
      /\ done = 5 => 13 \in register'[22]
<1>10. ASSUME NEW a \in Addresses, NEW bit \in Nat, NEW n \in Nat, NEW v \in SUBSET (0..n - 1),
              bit + n <= 32, access[1].at = a, access[1].field = Shifted(0..n - 1, bit),
              access[1].value = Shifted(v, bit)
       PROVE  Writes(a, bit, n, v)
  BY <1>3, <1>4, <1>10 DEF Writes, With, FieldReplaced, CallOf
<1>11. ASSUME access[1].at = 22, access[1].field = {}
       PROVE  /\ register' \in [Addresses -> SUBSET Bits]
              /\ \A a \in Addresses \ {22} : register'[a] = register[a]
              /\ register'[22] = register[22] \cup access[1].value
  <2>1. register' = [register EXCEPT ![22] = register[22] \cup access[1].value]
    BY <1>3, <1>4, <1>11 DEF FieldReplaced, CallOf
  <2>2. access[1].value \subseteq Bits
    <3>1. done = 1 \/ done = 5
      <4>1. done \in {1, 2, 3, 4, 5}
        BY <1>3
      <4> QED BY <1>3, <1>11, <4>1 DEF CallOf, Names
    <3> QED BY <1>3, <3>1 DEF CallOf, Names, Shifted
  <2> QED BY <1>1, <1>6, <2>1, <2>2
<1>12. LedPins
  <2>1. CASE done = 1 \/ done = 5
    <3>1. access[1].at = 22 /\ access[1].field = {} /\ (done = 5 => access[1].value = Shifted({0}, 13))
      BY <1>3, <2>1 DEF CallOf, Names
    <3>2. /\ register' \in [Addresses -> SUBSET Bits] /\ register'[19] = register[19]
          /\ register'[22] = register[22] \cup access[1].value
      BY <1>6, <1>11, <3>1
    <3>3. Field(19, 16, 3)' = Field(19, 16, 3) /\ Field(19, 20, 3)' = Field(19, 20, 3)
      BY <3>2 DEF Field
    <3>4. 13 \in Shifted({0}, 13)
      BY DEF Shifted, Bits
    <3>5. done = 5 => 13 \in register'[22]
      BY <3>1, <3>2, <3>4
    <3>6. done # 2 /\ done # 3
      BY <2>1
    <3> QED BY <1>8, <3>2, <3>3, <3>5, <3>6
  <2>2. CASE done = 2
    <3>1. access[1].at = 19 /\ access[1].field = Shifted(0..2, 16) /\ access[1].value = Shifted(0..2, 16)
      BY <1>3, <2>2 DEF CallOf, Names
    <3>2. Writes(19, 16, 3, 0..2)
      <4>1. 0..3 - 1 = 0..2
        OBVIOUS
      <4>2. access[1].field = Shifted(0..3 - 1, 16)
        BY <3>1, <4>1
      <4>3. 0..2 \in SUBSET (0..3 - 1) /\ 16 \in Nat /\ 3 \in Nat /\ 16 + 3 <= 32
        OBVIOUS
      <4> QED BY <1>6, <1>10, <3>1, <4>2, <4>3
    <3>3. Field(19, 16, 3)' = 0..2
      BY <1>1, <1>6, <3>2, WrittenField
    <3>4. register' \in [Addresses -> SUBSET Bits]
      BY <1>1, <1>6, <3>2, RegisterType
    <3> QED BY <1>9, <2>2, <3>3, <3>4 DEF IO_DISABLE
  <2>3. CASE done = 3
    <3>1. access[1].at = 19 /\ access[1].field = Shifted(0..2, 20) /\ access[1].value = Shifted({0}, 20)
      BY <1>3, <2>3 DEF CallOf, Names
    <3>2. Writes(19, 20, 3, {0})
      <4>1. 0..3 - 1 = 0..2
        OBVIOUS
      <4>2. access[1].field = Shifted(0..3 - 1, 20)
        BY <3>1, <4>1
      <4>3. {0} \in SUBSET (0..3 - 1) /\ 20 \in Nat /\ 3 \in Nat /\ 20 + 3 <= 32
        OBVIOUS
      <4> QED BY <1>6, <1>10, <3>1, <4>2, <4>3
    <3>3. Field(19, 20, 3)' = {0} /\ Field(19, 16, 3)' = Field(19, 16, 3)
      BY <1>1, <1>6, <3>2, WrittenField, OtherField
    <3>4. register' \in [Addresses -> SUBSET Bits]
      BY <1>1, <1>6, <3>2, RegisterType
    <3> QED BY <1>8, <1>9, <2>3, <3>3, <3>4 DEF OUTPUT
  <2>4. CASE done = 4
    <3>1. access[1].at = 23 /\ access[1].field = Shifted(0..1, 26) /\ access[1].value = Shifted({}, 26)
      BY <1>3, <2>4 DEF CallOf, Names
    <3>2. Writes(23, 26, 2, {})
      <4>1. 0..2 - 1 = 0..1
        OBVIOUS
      <4>2. access[1].field = Shifted(0..2 - 1, 26)
        BY <3>1, <4>1
      <4>3. {} \in SUBSET (0..2 - 1) /\ 26 \in Nat /\ 2 \in Nat /\ 26 + 2 <= 32
        OBVIOUS
      <4> QED BY <1>6, <1>10, <3>1, <4>2, <4>3
    <3>3. Field(19, 20, 3)' = Field(19, 20, 3) /\ Field(19, 16, 3)' = Field(19, 16, 3)
      BY <1>1, <1>6, <3>2, OtherField
    <3>4. register' \in [Addresses -> SUBSET Bits]
      BY <1>1, <1>6, <3>2, RegisterType
    <3> QED BY <1>8, <1>9, <2>4, <3>3, <3>4
  <2>5. done \in {1, 2, 3, 4, 5}
    BY <1>3
  <2> QED BY <2>1, <2>2, <2>3, <2>4, <2>5
<1>13. /\ Completed(2)' => Field(19, 16, 3)' = IO_DISABLE
       /\ Completed(3)' => Field(19, 20, 3)' = OUTPUT
       /\ Completed(5)' => 13 \in register'[22]
  BY <1>7, <1>9, <1>12
<1>14. {RedLed, GreenLed}' = {RedLed, GreenLed} /\ IO_DISABLE' = IO_DISABLE /\ OUTPUT' = OUTPUT
  BY DEF RedLed, GreenLed, BankC, IO_DISABLE, OUTPUT
<1> QED BY <1>1, <1>3, <1>4, <1>5, <1>12, <1>13, <1>14 DEF LedInv

(* Whatever the registers held, after the five calls the pin of the red LED  *)
(* is disabled and that of the green LED an enabled output.                  *)
THEOREM LedsSet == GpioSpec => []LedsAreSet
<1>1. LedInv /\ [GpioNext]_gpioVars => LedInv'
  <2> SUFFICES ASSUME LedInv, [GpioNext]_gpioVars PROVE LedInv'
    OBVIOUS
  <2>1. CASE HeartbeatCall
    BY <2>1, LedCall
  <2>2. CASE AnyCall
    <3>1. client = "any" /\ done' = done
      BY <2>2 DEF AnyCall
    <3>2. client' = client
      BY <2>2 DEF AnyCall, ConfigurePin, SetDrive, SetOutput, MmioRead32
    <3> QED BY <3>1, <3>2 DEF LedInv
  <2>3. CASE \E l \in 1..Levels : MmioWrite32(l)
    <3>1. PICK l \in 1..Levels : MmioWrite32(l)
      BY <2>3
    <3>2. CASE client = "any"
      BY <3>1, <3>2 DEF LedInv, MmioWrite32
    <3>3. CASE client # "any"
      BY <3>1, <3>3, LedWrite
    <3> QED BY <3>2, <3>3
  <2>4. CASE UNCHANGED gpioVars
    <3>1. UNCHANGED <<client, register, access, done>>
      BY <2>4 DEF gpioVars
    <3> QED BY <3>1 DEF LedInv, CallOf, Completed, Field
  <2> QED BY <2>1, <2>2, <2>3, <2>4 DEF GpioNext
<1>2. LedInv => LedsAreSet
  <2> SUFFICES ASSUME LedInv, done = 5, \A l \in 1..Levels : access[l] = NoAccess
               PROVE  /\ Field(19, 16, 3) = IO_DISABLE /\ Field(19, 20, 3) = OUTPUT
                      /\ 13 \in register[22]
    BY LedPlaces DEF LedsAreSet
  <2>1. access[1] = NoAccess
    BY GpioAssumption
  <2>2. client # "any" /\ Completed(2) /\ Completed(3) /\ Completed(5)
    BY <2>1 DEF Completed, LedInv
  <2> QED BY <2>2 DEF LedInv
<1> QED BY <1>1, <1>2, LedInit, PTL DEF GpioSpec

-----------------------------------------------------------------------------
(* Places in the frame                                                       *)

(* A line of pixels inside the screen lies inside the frame.                 *)
LEMMA LineInFrame ==
  ASSUME NEW p \in Nat, NEW w \in Nat, NEW h \in Nat,
         NEW x \in Nat, NEW n \in Nat, NEW y \in Nat, x + n <= w, y < h
  PROVE  /\ p * (y * w + x) \in Nat
         /\ p * (y * w + x) + n * p <= w * p * h
<1>1. w * (y + 1) <= w * h
  BY TimesMonotone
<1>2. y * w + x + n <= w * h /\ y * w + x + n \in Nat /\ w * h \in Nat /\ y * w \in Nat
  <2>1. w * (y + 1) = y * w + w /\ y * w \in Nat /\ w * h \in Nat
    OBVIOUS
  <2> QED BY <1>1, <2>1
<1>3. p * (y * w + x + n) <= p * (w * h)
  BY <1>2, TimesMonotone
<1> DEFINE z == y * w + x
<1>4. z \in Nat
  BY <1>2
<1>5. p * (z + n) = p * z + n * p /\ p * z \in Nat /\ p * (w * h) = w * p * h
  <2> HIDE DEF z
  <2>1. p * (z + n) = p * z + n * p
    BY <1>4
  <2>2. p * z \in Nat
    BY <1>4
  <2>3. p * (w * h) = w * p * h
    OBVIOUS
  <2> QED BY <2>1, <2>2, <2>3
<1>6. p * (z + n) <= w * p * h
  BY <1>3, <1>5
<1> QED BY <1>5, <1>6 DEF z

(* All lines of the screen from y on, h of them, as well.                    *)
LEMMA LinesInFrame ==
  ASSUME NEW p \in Nat, NEW w \in Nat, NEW hh \in Nat, NEW y \in Nat, NEW h \in Nat, y + h <= hh
  PROVE  /\ p * (y * w) \in Nat
         /\ w * p * h \in Nat
         /\ p * (y * w) + w * p * h <= w * p * hh
<1>1. (w * p) * (y + h) <= (w * p) * hh
  BY TimesMonotone
<1>2. (w * p) * (y + h) = p * (y * w) + w * p * h
  OBVIOUS
<1> QED BY <1>1, <1>2

-----------------------------------------------------------------------------
(* Drawing                                                                   *)

(* The driver's frame buffer.                                                *)
FrameOK ==
  /\ BytesPerPixel \in Nat /\ Width \in Nat /\ Height \in Nat
  /\ config.pixelsPerScanLine = Width

(* g is a frame that has f's bytes behind the screen.                        *)
SameBehind(f, g) ==
  /\ g = [b \in FrameBytes |-> g[b]]
  /\ \A b \in FrameBytes : b >= FrameBufferSize => g[b] = f[b]

(* No request moves pixels to a higher address, where the library begins     *)
(* one line too low.                                                         *)
NoMovesUp ==
  \A r \in DriverAsked : r.op = "VideoToVideo" => r.y < r.sy \/ (r.y = r.sy /\ r.x <= r.sx)

LEMMA FrameNumbers ==
  ASSUME FrameOK
  PROVE  /\ Stride \in Nat /\ FrameBufferSize \in Nat
         /\ Stride * Height = FrameBufferSize
         /\ FrameBytes \subseteq Nat
BY DEF FrameOK, Stride, FrameBufferSize, FrameBytes

LEMMA CopiedStays ==
  ASSUME FrameOK, NEW f, f = [b \in FrameBytes |-> f[b]],
         NEW to \in Nat, NEW n \in Nat, to + n <= FrameBufferSize,
         NEW bytes, DOMAIN bytes = 0..n - 1
  PROVE  SameBehind(f, Copied(f, to, bytes))
<1> DEFINE g == Copied(f, to, bytes)
<1>1. DOMAIN f = FrameBytes
  BY Zenon
<1>2. g = [b \in FrameBytes |-> IF b - to \in DOMAIN bytes THEN bytes[b - to] ELSE f[b]]
  BY <1>1, Zenon DEF Copied
<1>3. ASSUME NEW b \in FrameBytes, b >= FrameBufferSize PROVE b - to \notin DOMAIN bytes
  BY <1>3, FrameNumbers
<1> HIDE DEF g
<1>4. ASSUME NEW b \in FrameBytes, b >= FrameBufferSize PROVE g[b] = f[b]
  BY <1>2, <1>3, <1>4
<1>5. g = [b \in FrameBytes |-> g[b]]
  BY <1>2
<1> QED BY <1>4, <1>5 DEF SameBehind, g

(* Every line that an accepted request draws is on the screen.               *)
LEMMA LineStays ==
  ASSUME FrameOK, NoMovesUp, NEW r \in DriverAsked, ~Refused(r), NEW k \in Nat, k < Lines(r),
         NEW f, f = [b \in FrameBytes |-> f[b]], NEW line, NEW ready
  PROVE  SameBehind(f, Line([frame |-> f, line |-> line, ready |-> ready], r, k).frame)
<1> DEFINE m == [frame |-> f, line |-> line, ready |-> ready]
           p == BytesPerPixel
           n == r.w * p
<1>1. /\ r.op \in {"VideoFill", "BufferToVideo", "VideoToVideo"}
      /\ r.x \in Nat /\ r.y \in Nat /\ r.w \in Nat /\ r.h \in Nat
      /\ r.op = "VideoToVideo" => r.sx \in Nat /\ r.sy \in Nat
  BY DriverAssumption DEF IsRequest
<1>2. r.y + r.h <= Height /\ r.x + r.w <= Width
  BY <1>1 DEF Refused, Invalid, FrameOK
<1>3. p \in Nat /\ Width \in Nat /\ Height \in Nat /\ config.pixelsPerScanLine = Width /\ n \in Nat
  BY <1>1 DEF FrameOK
<1>4. ASSUME NEW i \in Nat, i < r.h
      PROVE  Offset(r.x, r.y + i) \in Nat /\ Offset(r.x, r.y + i) + n <= FrameBufferSize
  <2>1. r.y + i \in Nat /\ r.y + i < Height
    BY <1>1, <1>2, <1>3, <1>4
  <2> HIDE DEF p
  <2>2. /\ p * ((r.y + i) * Width + r.x) \in Nat
        /\ p * ((r.y + i) * Width + r.x) + r.w * p <= Width * p * Height
    BY <1>1, <1>2, <1>3, <2>1, LineInFrame
  <2> QED BY <1>3, <2>2 DEF p, Offset, FrameBufferSize
<1>5. m.frame = f
  OBVIOUS
<1>6. CASE r.op = "VideoFill"
  <2>1. Line(m, r, k) = VideoFill(m, r, k)
    BY <1>6 DEF Line
  <2>2. CASE OneShot(r)
    <3>1. r.x = 0 /\ r.w = Width
      BY <1>3, <2>2 DEF OneShot
    <3> DEFINE all == n * r.h
    <3>2. Offset(0, r.y) \in Nat /\ all \in Nat /\ Offset(0, r.y) + all <= FrameBufferSize
      <4> HIDE DEF p
      <4>1. /\ p * (r.y * Width) \in Nat
            /\ Width * p * r.h \in Nat
            /\ p * (r.y * Width) + Width * p * r.h <= Width * p * Height
        BY <1>1, <1>2, <1>3, LinesInFrame
      <4>2. r.y * Width + 0 = r.y * Width
        BY <1>1, <1>3
      <4> QED BY <1>3, <3>1, <4>1, <4>2 DEF p, Offset, FrameBufferSize
    <3>3. PICK bytes : /\ DOMAIN bytes = 0..all - 1
                       /\ FillAtOnce(m, r).frame = Copied(f, Offset(0, r.y), bytes)
      <4> DEFINE wide  == WideFill(StoredBytes(r.color))
                 bytes == [b \in 0..all - 1 |-> wide[IF all >= 8 /\ b < all - (all % 4) THEN b % 4 ELSE 0]]
      <4>1. FillAtOnce(m, r) = [m EXCEPT !.frame = Copied(f, Offset(0, r.y), bytes)]
        BY <1>5 DEF FillAtOnce
      <4>2. FillAtOnce(m, r).frame = Copied(f, Offset(0, r.y), bytes)
        <5> HIDE DEF bytes
        <5> QED BY <4>1
      <4>3. DOMAIN bytes = 0..all - 1
        OBVIOUS
      <4> QED BY <4>2, <4>3, Zenon
    <3> HIDE DEF all, m
    <3>4. Line(m, r, k) = FillAtOnce(m, r)
      BY <2>1, <2>2 DEF VideoFill
    <3> QED BY <3>2, <3>3, <3>4, CopiedStays DEF m
  <2>3. CASE ~OneShot(r)
    <3>1. k < r.h
      BY <1>6, <2>3 DEF Lines
    <3>2. PICK bytes : /\ DOMAIN bytes = 0..n - 1
                       /\ FillLine(m, r, k).frame = Copied(f, Offset(r.x, r.y + k), bytes)
      <4> DEFINE to    == Offset(r.x, r.y + k)
                 pixel == StoredBytes(r.color)
                 wide  == WideFill(pixel)
                 drawn == IF m.ready THEN m.line
                          ELSE Copied(m.line, 0, [b \in 0..n - 1 |-> pixel[b % BytesPerPixel]])
                 one   == [b \in 0..n - 1 |-> wide[b % 8]]
                 two   == [b \in 0..n - 1 |-> drawn[b]]
      <4>1. FillLine(m, r, k) =
              IF UseWideFill(pixel) /\ to % 8 = 0
              THEN [m EXCEPT !.frame = Copied(f, to, one)]
              ELSE [frame |-> Copied(f, to, two), line |-> drawn, ready |-> TRUE]
        BY <1>5 DEF FillLine
      <4>2. DOMAIN one = 0..n - 1 /\ DOMAIN two = 0..n - 1
        OBVIOUS
      <4> HIDE DEF one, two, drawn, pixel
      <4>3. \/ FillLine(m, r, k).frame = Copied(f, to, one)
            \/ FillLine(m, r, k).frame = Copied(f, to, two)
        BY <4>1
      <4> QED BY <4>2, <4>3, Zenon
    <3> HIDE DEF m, n
    <3>3. Line(m, r, k) = FillLine(m, r, k)
      BY <2>1, <2>3 DEF VideoFill
    <3> QED BY <1>3, <1>4, <3>1, <3>2, <3>3, CopiedStays DEF m
  <2> QED BY <2>2, <2>3
<1>7. CASE r.op = "BufferToVideo"
  <2>1. k < r.h
    BY <1>7 DEF Lines
  <2>2. PICK bytes : /\ DOMAIN bytes = 0..n - 1
                     /\ BufferToVideo(m, r, k).frame = Copied(f, Offset(r.x, r.y + k), bytes)
    <3> DEFINE to     == Offset(r.x, r.y + k)
               copied == [b \in 0..n - 1 |-> ByteOf(BufferPixel(r, b \div 4, r.sy + k), b % 4)]
               pixels == [x \in 0..r.w - 1 |-> StoredBytes(BufferPixel(r, r.sx + x, r.sy + k))]
               bytes  == [b \in 0..n - 1 |-> pixels[b \div BytesPerPixel][b % BytesPerPixel]]
    <3>1. BufferToVideo(m, r, k) =
            IF config.format = "BGR"
            THEN [m EXCEPT !.frame = Copied(f, to, copied)]
            ELSE [m EXCEPT !.frame = Copied(f, to, bytes), !.line = Copied(m.line, 0, bytes)]
      BY <1>5 DEF BufferToVideo
    <3>2. DOMAIN copied = 0..n - 1 /\ DOMAIN bytes = 0..n - 1
      OBVIOUS
    <3> HIDE DEF copied, bytes, pixels
    <3>3. \/ BufferToVideo(m, r, k).frame = Copied(f, to, copied)
          \/ BufferToVideo(m, r, k).frame = Copied(f, to, bytes)
      BY <3>1
    <3> QED BY <3>2, <3>3, Zenon
  <2> HIDE DEF m, n
  <2>3. Line(m, r, k) = BufferToVideo(m, r, k)
    BY <1>7 DEF Line
  <2> QED BY <1>3, <1>4, <2>1, <2>2, <2>3, CopiedStays DEF m
<1>8. CASE r.op = "VideoToVideo"
  <2>1. k < r.h
    BY <1>8 DEF Lines
  <2>2. ~(Offset(r.x, r.y) > Offset(r.sx, r.sy))
    <3> DEFINE W  == Width
               to == r.y * W + r.x
               at == r.sy * W + r.sx
    <3>1. r.sx \in Nat /\ r.sy \in Nat /\ r.x <= W
      BY <1>1, <1>2, <1>3, <1>8
    <3>2. r.y < r.sy \/ (r.y = r.sy /\ r.x <= r.sx)
      BY <1>8 DEF NoMovesUp
    <3>3. to \in Nat /\ at \in Nat /\ to <= at
      <4>1. r.y * W \in Nat /\ r.sy * W \in Nat
        BY <1>1, <1>3, <3>1
      <4>2. CASE r.y < r.sy
        <5>0. r.y + 1 \in Nat /\ r.sy \in Nat /\ r.y + 1 <= r.sy /\ W \in Nat
          BY <1>1, <1>3, <3>1, <4>2
        <5>1. W * (r.y + 1) <= W * r.sy
          <6> HIDE DEF W
          <6> QED BY <5>0, TimesMonotone
        <5>2. W * (r.y + 1) = r.y * W + W /\ W * r.sy = r.sy * W
          BY <1>1, <1>3, <3>1
        <5> QED BY <1>1, <1>3, <3>1, <4>1, <5>1, <5>2
      <4>3. CASE r.y = r.sy /\ r.x <= r.sx
        BY <1>1, <3>1, <4>1, <4>3
      <4> QED BY <3>2, <4>2, <4>3
    <3> HIDE DEF to, at
    <3>4. p * to <= p * at /\ p * to \in Nat /\ p * at \in Nat
      BY <1>3, <3>3, TimesMonotone
    <3> QED BY <1>3, <3>4 DEF Offset, p, to, at
  <2>3. Offset(r.x, r.y) + k * Stride = Offset(r.x, r.y + k)
    <3>1. r.x \in Nat /\ r.y \in Nat
      BY <1>1
    <3> HIDE DEF p
    <3> DEFINE W == Width
    <3>2. W \in Nat
      BY <1>3
    <3> HIDE DEF W
    <3>3. p * (r.y * W + r.x) + k * (p * W) = p * ((r.y + k) * W + r.x)
      BY <1>3, <3>1, <3>2
    <3> QED BY <1>3, <3>3 DEF p, W, Offset, Stride
  <2>4. PICK bytes : /\ DOMAIN bytes = 0..n - 1
                     /\ VideoToVideo(m, r, k).frame = Copied(f, Offset(r.x, r.y + k), bytes)
    <3> DEFINE d     == k * Stride
               bytes == [b \in 0..n - 1 |-> f[Offset(r.sx, r.sy) + d + b]]
    <3>1. VideoToVideo(m, r, k) = [m EXCEPT !.frame = Copied(f, Offset(r.x, r.y) + d, bytes)]
      BY <1>5, <2>2 DEF VideoToVideo
    <3>2. DOMAIN bytes = 0..n - 1
      OBVIOUS
    <3> HIDE DEF bytes
    <3>3. VideoToVideo(m, r, k).frame = Copied(f, Offset(r.x, r.y + k), bytes)
      BY <2>3, <3>1
    <3> QED BY <3>2, <3>3, Zenon
  <2> HIDE DEF m, n
  <2>5. Line(m, r, k) = VideoToVideo(m, r, k)
    BY <1>8 DEF Line
  <2> QED BY <1>3, <1>4, <2>1, <2>4, <2>5, CopiedStays DEF m
<1> QED BY <1>1, <1>6, <1>7, <1>8

-----------------------------------------------------------------------------
(* What the caches still have                                                *)

Stages == {"none", "raise", "draw", "restore", "flush"}

Fields == {"stage", "request", "line", "ready", "before"}

IsCall(c) ==
  /\ DOMAIN c = Fields
  /\ c.stage \in Stages /\ c.line \in Nat
  /\ c.stage = "raise" => c.line = 0
  /\ c.stage \in {"raise", "draw", "restore"} => c.request \in DriverAsked
  /\ c.stage = "draw" => ~Refused(c.request) /\ c.line < Lines(c.request)

CallsOK(calls) ==
  /\ calls = [l \in Tpl |-> calls[l]]
  /\ \A l \in Tpl : IsCall(calls[l])

(* Nothing above l has touched the frame buffer.                             *)
Undisturbed(calls, l) ==
  \A k \in l + 1..TPL_NOTIFY : calls[k].stage \in {"none", "raise"}

(* What a call has written back, and nobody has drawn over, is seen.         *)
WrittenUpTo(calls, frame, shown, l) ==
  calls[l].stage = "flush" /\ Undisturbed(calls, l) =>
    \A b \in FrameBytes : b \div Stride < calls[l].line => shown[b] = frame[b]

FlushInv ==
  user = "driver" =>
    /\ FrameOK /\ CallsOK(call)
    /\ frameBuffer = [b \in FrameBytes |-> frameBuffer[b]]
    /\ seen = [b \in FrameBytes |-> seen[b]]
    /\ \A b \in FrameBytes : b >= FrameBufferSize => seen[b] = frameBuffer[b]
    /\ installed = "no" =>
         /\ \A l \in Tpl : call[l].stage = "none"
         /\ \A b \in FrameBytes : b >= FrameBufferSize => seen[b] = {}
    /\ \A l \in Tpl : WrittenUpTo(call, frameBuffer, seen, l)

LEMMA HighBitIsNumber ==
  ASSUME NEW s \in SUBSET Bits
  PROVE  HighBitSet(s) \in Int /\ HighBitSet(s) >= -1 /\ HighBitSet(s) <= 31
<1>1. CASE s = {}
  BY <1>1 DEF HighBitSet
<1>2. CASE s # {}
  <2>1. s \in SUBSET (0..31)
    BY DEF Bits
  <2>2. \E g \in s : \A m \in s : m <= g
    <3>1. 31 \in Nat
      OBVIOUS
    <3> QED BY <1>2, <2>1, <3>1, GreatestNumber
  <2>3. \E g \in s : \A m \in s : g >= m
    BY <2>1, <2>2
  <2>4. Max(s) \in s
    BY <2>3 DEF Max
  <2>5. Max(s) \in 0..31 /\ HighBitSet(s) = Max(s)
    BY <1>2, <2>1, <2>4 DEF HighBitSet
  <2> QED BY <2>5
<1> QED BY <1>1, <1>2

LEMMA NewCall == DOMAIN NoCall = Fields /\ NoCall.stage = "none" /\ NoCall.line = 0
BY DEF NoCall, Fields

LEMMA FlushInit == DisplayInit => FlushInv
<1> SUFFICES ASSUME DisplayInit, user = "driver" PROVE FlushInv
  BY DEF FlushInv
<1>1. PICK i \in Infos : config = Configured(i)
  BY DEF DisplayInit, BltInit
<1>2. FrameOK
  <2> DEFINE u == UNION {i.masks[k] : k \in 1..4}
  <2>1. i.masks \in [1..4 -> SUBSET Bits] /\ i.width \in Nat /\ i.height \in Nat
    BY InfoAssumption
  <2>2. u \in SUBSET Bits
    BY <2>1
  <2> HIDE DEF u
  <2>3. (HighBitSet(u) + 7) \div 8 \in Nat
    BY <2>2, HighBitIsNumber
  <2>4. /\ config.bytesPerPixel = (HighBitSet(u) + 7) \div 8
        /\ config.width = i.width /\ config.height = i.height
    BY <1>1 DEF Configured, u
  <2>5. config.pixelsPerScanLine = config.width
    BY DEF DisplayInit, IsSimple
  <2> QED BY <2>1, <2>3, <2>4, <2>5 DEF FrameOK, BytesPerPixel, Width, Height
<1>3. call = [l \in Tpl |-> NoCall] /\ installed = "no" /\ seen = frameBuffer
  BY DEF DisplayInit
<1>4. CallsOK(call)
  <2>1. IsCall(NoCall)
    BY NewCall DEF IsCall, Stages
  <2> QED BY <1>3, <2>1 DEF CallsOK
<1>5. frameBuffer = [b \in FrameBytes |->
         IF b < Stride * Height /\ b % Stride < Width * BytesPerPixel THEN Left ELSE {}]
  BY DEF DisplayInit, BltInit
<1>6. frameBuffer = [b \in FrameBytes |-> frameBuffer[b]]
  BY <1>5
<1>7. ASSUME NEW b \in FrameBytes, b >= FrameBufferSize PROVE frameBuffer[b] = {}
  <2>1. ~(b < Stride * Height)
    BY <1>2, <1>7, FrameNumbers
  <2> QED BY <1>5, <2>1
<1>8. \A l \in Tpl : call[l].stage = "none"
  BY <1>3 DEF NoCall
<1> QED BY <1>2, <1>3, <1>4, <1>6, <1>7, <1>8 DEF FlushInv, WrittenUpTo

(* Writing a line back.                                                      *)
LEMMA WrittenBackSees ==
  ASSUME FrameOK, NEW line \in Nat,
         \A b \in FrameBytes : b >= FrameBufferSize => seen[b] = frameBuffer[b]
  PROVE  /\ WrittenBack(line) = [b \in FrameBytes |-> WrittenBack(line)[b]]
         /\ \A b \in FrameBytes :
              /\ b >= FrameBufferSize => WrittenBack(line)[b] = seen[b]
              /\ b \div Stride = line \/ seen[b] = frameBuffer[b] =>
                   WrittenBack(line)[b] = frameBuffer[b]
<1>1. \A b \in FrameBytes :
        WrittenBack(line)[b] =
          IF b \div Stride = line /\ b < FrameBufferSize THEN frameBuffer[b] ELSE seen[b]
  BY DEF WrittenBack
<1>2. WrittenBack(line) = [b \in FrameBytes |-> WrittenBack(line)[b]]
  BY DEF WrittenBack
<1>3. \A b \in FrameBytes : b \in Nat /\ FrameBufferSize \in Nat
  BY FrameNumbers
<1> QED BY <1>1, <1>2, <1>3

(* A call that runs has nothing above it, so what is below is disturbed.     *)
LEMMA TplNumbers == Tpl \subseteq Nat /\ \A l \in Tpl : \A k \in l + 1..TPL_NOTIFY : k \in Tpl
BY TplAssumption DEF Tpl

LEMMA BelowIsDisturbed ==
  ASSUME NEW calls, NEW l \in Tpl, calls[l].stage \notin {"none", "raise"}
  PROVE  \A k \in Tpl : k < l => ~Undisturbed(calls, k)
<1> SUFFICES ASSUME NEW k \in Tpl, k < l PROVE ~Undisturbed(calls, k)
  OBVIOUS
<1>1. l \in k + 1..TPL_NOTIFY
  BY TplAssumption DEF Tpl
<1> QED BY <1>1 DEF Undisturbed

(* One call changes.                                                         *)
LEMMA OneCallChanges ==
  ASSUME CallsOK(call), NEW l \in Tpl, NEW c, IsCall(c)
  PROVE  LET calls == [call EXCEPT ![l] = c]
         IN CallsOK(calls) /\ calls[l] = c /\ \A k \in Tpl \ {l} : calls[k] = call[k]
BY DEF CallsOK

-----------------------------------------------------------------------------
(* The steps                                                                 *)

(* What a step that leaves the configuration alone has the same.             *)
LEMMA FrameStays ==
  ASSUME UNCHANGED config
  PROVE  /\ FrameOK => FrameOK'
         /\ FrameBytes' = FrameBytes /\ Stride' = Stride
         /\ FrameBufferSize' = FrameBufferSize /\ Height' = Height
BY DEF FrameOK, BytesPerPixel, Width, Height, FrameBytes, Stride, FrameBufferSize

LEMMA RequestsStay ==
  ASSUME UNCHANGED config, NEW r
  PROVE  /\ Refused(r)' = Refused(r) /\ Lines(r)' = Lines(r)
         /\ OneShot(r)' = OneShot(r) /\ StoredBytes(r.color)' = StoredBytes(r.color)
<1>1. Width' = Width /\ Height' = Height /\ BytesPerPixel' = BytesPerPixel
  BY DEF Width, Height, BytesPerPixel
<1>2. Refused(r)' = Refused(r)
  BY <1>1 DEF Refused, Invalid
<1>3. Stored(r.color)' = Stored(r.color)
  BY DEF Stored
<1>4. StoredBytes(r.color)' = StoredBytes(r.color)
  BY <1>1, <1>3, Zenon DEF StoredBytes
<1>5. UseWideFill(StoredBytes(r.color))' = UseWideFill(StoredBytes(r.color))
  BY <1>1, <1>4, Zenon DEF UseWideFill
<1>6. OneShot(r)' = OneShot(r)
  BY <1>5, Zenon DEF OneShot
<1>7. Lines(r)' = Lines(r)
  BY <1>6, Zenon DEF Lines
<1> QED BY <1>2, <1>4, <1>6, <1>7

LEMMA CallsStay ==
  ASSUME UNCHANGED config, NEW calls, CallsOK(calls), call' = calls
  PROVE  CallsOK(call)'
<1>1. ASSUME NEW l \in Tpl PROVE IsCall(call[l])'
  <2> DEFINE r == calls[l].request
  <2>1. IsCall(calls[l])
    BY DEF CallsOK
  <2>2. Refused(r)' = Refused(r) /\ Lines(r)' = Lines(r)
    BY RequestsStay
  <2> QED BY <2>1, <2>2 DEF IsCall
<1> QED BY <1>1 DEF CallsOK

(* What a step must do to keep the invariant.                                *)
LEMMA StepKeeps ==
  ASSUME FlushInv, user = "driver", UNCHANGED config, installed' # "no",
         NEW calls, CallsOK(calls), call' = calls,
         frameBuffer' = [b \in FrameBytes |-> frameBuffer'[b]],
         seen' = [b \in FrameBytes |-> seen'[b]],
         \A b \in FrameBytes : b >= FrameBufferSize => seen'[b] = frameBuffer'[b],
         \A l \in Tpl : WrittenUpTo(calls, frameBuffer', seen', l)
  PROVE  FlushInv'
<1>1. FrameOK' /\ FrameBytes' = FrameBytes /\ Stride' = Stride /\ FrameBufferSize' = FrameBufferSize
  BY FrameStays DEF FlushInv
<1>2. CallsOK(call)'
  BY CallsStay
<1>3. \A l \in Tpl : WrittenUpTo(call, frameBuffer, seen, l)'
  BY <1>1 DEF WrittenUpTo, Undisturbed
<1> QED BY <1>1, <1>2, <1>3 DEF FlushInv

LEMMA InvFacts ==
  ASSUME FlushInv, user = "driver"
  PROVE  /\ FrameOK /\ CallsOK(call)
         /\ frameBuffer = [b \in FrameBytes |-> frameBuffer[b]]
         /\ seen = [b \in FrameBytes |-> seen[b]]
         /\ \A b \in FrameBytes : b >= FrameBufferSize => seen[b] = frameBuffer[b]
         /\ \A l \in Tpl : WrittenUpTo(call, frameBuffer, seen, l) /\ IsCall(call[l])
BY DEF FlushInv, CallsOK

LEMMA InitializeKeeps ==
  ASSUME FlushInv, user = "driver", Initialize
  PROVE  FlushInv' /\ \A b \in FrameBytes : seen'[b] = {}
<1>1. /\ UNCHANGED config /\ installed' # "no" /\ call' = call
      /\ frameBuffer' = [b \in FrameBytes |-> IF b < FrameBufferSize THEN {} ELSE frameBuffer[b]]
      /\ seen' = [b \in FrameBytes |-> IF b < FrameBufferSize THEN {} ELSE seen[b]]
  BY DEF Initialize
<1>2. \A b \in FrameBytes : b \in Nat /\ FrameBufferSize \in Nat
  BY InvFacts, FrameNumbers
<1>3. \A b \in FrameBytes : b >= FrameBufferSize => frameBuffer[b] = {} /\ seen[b] = {}
  BY DEF FlushInv, Initialize
<1>4. \A b \in FrameBytes : seen'[b] = {} /\ frameBuffer'[b] = {}
  BY <1>1, <1>2, <1>3
<1>5. /\ frameBuffer' = [b \in FrameBytes |-> frameBuffer'[b]]
      /\ seen' = [b \in FrameBytes |-> seen'[b]]
  BY <1>1
<1>6. \A l \in Tpl : WrittenUpTo(call, frameBuffer', seen', l)
  BY <1>4 DEF WrittenUpTo
<1> QED BY <1>1, <1>4, <1>5, <1>6, InvFacts, StepKeeps

LEMMA FailKeeps ==
  ASSUME FlushInv, user = "driver", FailToInitialize
  PROVE  FlushInv'
BY InvFacts, StepKeeps DEF FailToInitialize, bltVars

LEMMA BltKeeps ==
  ASSUME FlushInv, user = "driver", NEW l \in Tpl, NEW r \in DriverAsked, Blt(l, r)
  PROVE  FlushInv'
<1> DEFINE c == [NoCall EXCEPT !.stage = "raise", !.request = r]
           calls == [call EXCEPT ![l] = c]
<1>1. DOMAIN c = Fields /\ c.stage = "raise" /\ c.request = r /\ c.line = 0
  BY NewCall DEF Fields
<1>2. IsCall(c) /\ c.stage = "raise"
  <2> HIDE DEF c
  <2> QED BY <1>1 DEF IsCall, Stages
<1>3. CallsOK(calls) /\ calls[l] = c /\ \A k \in Tpl \ {l} : calls[k] = call[k]
  BY <1>2, InvFacts, OneCallChanges
<1>4. /\ UNCHANGED config /\ installed' # "no" /\ call' = calls
      /\ frameBuffer' = frameBuffer /\ seen' = seen /\ call[l].stage = "none"
  <2>1. l \in l..TPL_NOTIFY
    BY TplAssumption DEF Tpl
  <2> QED BY <2>1 DEF Blt, bltVars
<1> HIDE DEF c, calls
<1>5. ASSUME NEW k \in Tpl PROVE WrittenUpTo(calls, frameBuffer, seen, k)
  <2>1. SUFFICES ASSUME calls[k].stage = "flush", Undisturbed(calls, k)
                 PROVE  \A b \in FrameBytes : b \div Stride < calls[k].line => seen[b] = frameBuffer[b]
    BY DEF WrittenUpTo
  <2>2. k # l /\ calls[k] = call[k]
    BY <1>2, <1>3, <2>1
  <2>3. Undisturbed(call, k)
    BY <1>3, <1>4, <2>1, TplNumbers DEF Undisturbed
  <2> QED BY <2>1, <2>2, <2>3, InvFacts DEF WrittenUpTo
<1> QED BY <1>3, <1>4, <1>5, InvFacts, StepKeeps

(* A step of the call that runs and draws: it is not flushing afterwards, or *)
(* it has just begun to.                                                     *)
LEMMA RunningKeeps ==
  ASSUME FlushInv, user = "driver", UNCHANGED <<config, installed, seen>>, installed # "no",
         NEW l \in Tpl, Running(l), NEW c, IsCall(c), c.stage \in {"draw", "restore", "flush"},
         c.stage = "flush" => c.line = 0,
         call' = [call EXCEPT ![l] = c],
         SameBehind(frameBuffer, frameBuffer')
  PROVE  FlushInv' /\ \A k \in Tpl : call'[k].stage = "none" => call[k].stage = "none"
<1> DEFINE calls == [call EXCEPT ![l] = c]
<1>1. CallsOK(calls) /\ calls[l] = c /\ \A k \in Tpl \ {l} : calls[k] = call[k]
  <2>1. CallsOK(call) /\ IsCall(c)
    BY InvFacts
  <2>2. \A d : IsCall(d) =>
          /\ CallsOK([call EXCEPT ![l] = d]) /\ [call EXCEPT ![l] = d][l] = d
          /\ \A k \in Tpl \ {l} : [call EXCEPT ![l] = d][k] = call[k]
    BY <2>1, OneCallChanges
  <2> QED BY <2>1, <2>2, Zenon
<1>2. /\ frameBuffer' = [b \in FrameBytes |-> frameBuffer'[b]]
      /\ seen' = [b \in FrameBytes |-> seen'[b]]
      /\ \A b \in FrameBytes : b >= FrameBufferSize => seen'[b] = frameBuffer'[b]
  BY InvFacts DEF SameBehind
<1> HIDE DEF calls
<1>3. ASSUME NEW k \in Tpl PROVE WrittenUpTo(calls, frameBuffer', seen, k)
  <2> SUFFICES ASSUME calls[k].stage = "flush", Undisturbed(calls, k),
                      NEW b \in FrameBytes, b \div Stride < calls[k].line
               PROVE  seen[b] = frameBuffer'[b]
    BY DEF WrittenUpTo
  <2>1. CASE k = l
    <3>1. calls[k].line = 0
      BY <1>1, <2>1
    <3>2. b \div Stride < 0 /\ b \in Nat /\ Stride \in Nat
      BY <3>1, InvFacts, FrameNumbers
    <3>3. Stride = 0
      <4> SUFFICES ASSUME Stride # 0 PROVE FALSE
        OBVIOUS
      <4> QED BY <3>2
    <3>4. FrameBytes = {}
      BY <3>3, InvFacts DEF FrameBytes, FrameOK
    <3> QED BY <3>4
  <2>2. CASE k # l
    <3>1. calls[k] = call[k]
      BY <1>1, <2>2
    <3>2. CASE l < k
      <4>1. k \in l + 1..TPL_NOTIFY
        BY <3>2, TplAssumption DEF Tpl
      <4> QED BY <3>1, <4>1 DEF Running
    <3>3. CASE k < l
      <4>1. l \in k + 1..TPL_NOTIFY
        BY <3>3, TplAssumption DEF Tpl
      <4>2. c.stage \in {"none", "raise"}
        BY <1>1, <4>1 DEF Undisturbed
      <4> QED BY <4>2
    <3> QED BY <2>2, <3>2, <3>3, TplNumbers
  <2> QED BY <2>1, <2>2
<1> QED BY <1>1, <1>2, <1>3, InvFacts, StepKeeps DEF calls

LEMMA RaiseKeeps ==
  ASSUME FlushInv, user = "driver", installed # "no", NEW l \in Tpl, RaiseTPL(l)
  PROVE  FlushInv' /\ \A k \in Tpl : call'[k].stage = "none" => call[k].stage = "none"
<1> DEFINE s == IF Refused(call[l].request) THEN "restore" ELSE "draw"
           c == [call[l] EXCEPT !.stage = s, !.before = frameBuffer]
<1>1. IsCall(call[l]) /\ call[l].stage = "raise" /\ Running(l) /\ DOMAIN call[l] = Fields
  BY InvFacts DEF RaiseTPL, IsCall
<1>2. s \in {"draw", "restore"} /\ (s = "draw" => ~Refused(call[l].request))
  OBVIOUS
<1>3. call' = [call EXCEPT ![l] = c]
  BY <1>1, InvFacts DEF RaiseTPL, CallsOK
<1> HIDE DEF s
<1>4. DOMAIN c = Fields /\ c.stage = s /\ c.request = call[l].request /\ c.line = call[l].line
  BY <1>1 DEF Fields
<1> HIDE DEF c
<1>5. ~Refused(c.request) => 0 < Lines(c.request)
  <2>1. c.request.h \in Nat
    BY <1>1, <1>4, DriverAssumption DEF IsCall, IsRequest
  <2> QED BY <2>1 DEF Refused, Invalid, Lines
<1>6. IsCall(c)
  BY <1>1, <1>2, <1>4, <1>5 DEF IsCall, Stages
<1>7. /\ UNCHANGED <<config, installed, seen>> /\ frameBuffer' = frameBuffer
      /\ SameBehind(frameBuffer, frameBuffer')
  BY InvFacts DEF RaiseTPL, bltVars, SameBehind
<1> QED BY <1>1, <1>2, <1>3, <1>4, <1>6, <1>7, RunningKeeps

LEMMA DrawKeeps ==
  ASSUME FlushInv, NoMovesUp, user = "driver", installed # "no", NEW l \in Tpl, DrawLine(l)
  PROVE  FlushInv' /\ \A k \in Tpl : call'[k].stage = "none" => call[k].stage = "none"
<1> DEFINE d     == call[l]
           after == Line([frame |-> frameBuffer, line |-> lineBuffer, ready |-> d.ready], d.request, d.line)
           s     == IF d.line + 1 = Lines(d.request) THEN "restore" ELSE "draw"
           c     == [d EXCEPT !.ready = after.ready, !.line = @ + 1, !.stage = s]
<1>1. /\ IsCall(d) /\ d.stage = "draw" /\ Running(l) /\ DOMAIN d = Fields
      /\ d.request \in DriverAsked /\ ~Refused(d.request) /\ d.line \in Nat /\ d.line < Lines(d.request)
  BY InvFacts DEF DrawLine, IsCall
<1>2. call' = [call EXCEPT ![l] = c] /\ frameBuffer' = after.frame
  <2> HIDE DEF after
  <2>1. /\ call' = [call EXCEPT ![l].ready = after.ready, ![l].line = @ + 1, ![l].stage = s]
        /\ frameBuffer' = after.frame
    BY DEF DrawLine, after
  <2> QED BY <1>1, <2>1, InvFacts DEF CallsOK
<1>3. SameBehind(frameBuffer, frameBuffer')
  BY <1>1, <1>2, InvFacts, LineStays
<1> HIDE DEF after
<1>4. s \in {"draw", "restore"} /\ (s = "draw" => d.line + 1 # Lines(d.request))
  OBVIOUS
<1> HIDE DEF s
<1>5. DOMAIN c = Fields /\ c.stage = s /\ c.request = d.request /\ c.line = d.line + 1
  BY <1>1 DEF Fields
<1> HIDE DEF c, d
<1>6. Lines(c.request) \in Nat
  BY <1>1, <1>5, DriverAssumption DEF Lines, IsRequest
<1>7. IsCall(c)
  BY <1>1, <1>4, <1>5, <1>6 DEF IsCall, Stages
<1>8. UNCHANGED <<config, installed, seen>>
  BY DEF DrawLine
<1> QED BY <1>1, <1>2, <1>3, <1>4, <1>5, <1>7, <1>8, RunningKeeps

LEMMA RestoreKeeps ==
  ASSUME FlushInv, user = "driver", installed # "no", NEW l \in Tpl, RestoreTPL(l)
  PROVE  FlushInv' /\ \A k \in Tpl : call'[k].stage = "none" => call[k].stage = "none"
<1> DEFINE c == [NoCall EXCEPT !.stage = "flush"]
<1>1. Running(l) /\ call' = [call EXCEPT ![l] = c]
  BY DEF RestoreTPL
<1>2. DOMAIN c = Fields /\ c.stage = "flush" /\ c.line = 0
  BY NewCall DEF Fields
<1> HIDE DEF c
<1>3. IsCall(c)
  BY <1>2 DEF IsCall, Stages
<1>4. UNCHANGED <<config, installed, seen>> /\ SameBehind(frameBuffer, frameBuffer')
  BY InvFacts DEF RestoreTPL, SameBehind
<1> QED BY <1>1, <1>2, <1>3, <1>4, RunningKeeps

LEMMA EvictKeeps ==
  ASSUME FlushInv, user = "driver", installed # "no", NEW line, Evict(line)
  PROVE  FlushInv' /\ call' = call
<1>1. /\ line \in 0..Height - 1 /\ seen' = WrittenBack(line)
      /\ UNCHANGED config /\ frameBuffer' = frameBuffer /\ call' = call /\ installed' = installed
  BY DEF Evict, bltVars
<1>2. line \in Nat
  BY <1>1, InvFacts DEF FrameOK
<1>3. /\ seen' = [b \in FrameBytes |-> seen'[b]]
      /\ \A b \in FrameBytes :
           /\ b >= FrameBufferSize => seen'[b] = seen[b]
           /\ seen[b] = frameBuffer[b] => seen'[b] = frameBuffer[b]
  BY <1>1, <1>2, InvFacts, WrittenBackSees
<1>4. \A l \in Tpl : WrittenUpTo(call, frameBuffer, seen', l)
  BY <1>3, InvFacts DEF WrittenUpTo
<1> QED BY <1>1, <1>3, <1>4, InvFacts, StepKeeps

(* The last line written back, all is seen.                                  *)
LEMMA FlushKeeps ==
  ASSUME FlushInv, user = "driver", installed # "no", NEW l \in Tpl, Flush(l)
  PROVE  /\ FlushInv'
         /\ \A k \in Tpl : call[k].stage # "none" /\ call'[k].stage = "none" => seen' = frameBuffer'
<1> DEFINE d == call[l]
           n == d.line
           c == IF n + 1 = Height THEN NoCall ELSE [d EXCEPT !.line = n + 1]
           calls == [call EXCEPT ![l] = c]
<1>1. /\ IsCall(d) /\ d.stage = "flush" /\ Running(l) /\ DOMAIN d = Fields /\ n \in Nat
      /\ FrameOK
  BY InvFacts DEF Flush, IsCall
<1>2. /\ seen' = WrittenBack(n) /\ UNCHANGED config /\ frameBuffer' = frameBuffer
      /\ installed' = installed /\ call' = calls
  <2>1. /\ seen' = WrittenBack(n)
        /\ call' = IF n + 1 = Height THEN [call EXCEPT ![l] = NoCall]
                   ELSE [call EXCEPT ![l].line = n + 1]
    BY DEF Flush
  <2>2. call' = calls
    BY <2>1, InvFacts DEF CallsOK
  <2> QED BY <2>1, <2>2 DEF Flush, bltVars
<1>3. /\ IsCall(c)
      /\ c.stage # "none" => c.line = n + 1
      /\ c.stage = "none" => n + 1 = Height
  <2>1. CASE n + 1 = Height
    <3>1. c = NoCall
      BY <2>1
    <3> QED BY <2>1, <3>1, NewCall DEF IsCall, Stages
  <2>2. CASE n + 1 # Height
    <3>1. c = [d EXCEPT !.line = n + 1]
      BY <2>2
    <3> HIDE DEF c, d
    <3>2. DOMAIN c = Fields /\ c.line = n + 1 /\ c.stage = d.stage
      BY <1>1, <3>1 DEF Fields
    <3> QED BY <1>1, <3>2 DEF IsCall
  <2> QED BY <2>1, <2>2
<1> HIDE DEF c
<1>4. CallsOK(calls) /\ calls[l] = c /\ \A k \in Tpl \ {l} : calls[k] = call[k]
  <2>1. \A x : IsCall(x) =>
          /\ CallsOK([call EXCEPT ![l] = x]) /\ [call EXCEPT ![l] = x][l] = x
          /\ \A k \in Tpl \ {l} : [call EXCEPT ![l] = x][k] = call[k]
    BY InvFacts, OneCallChanges
  <2> QED BY <1>3, <2>1, Zenon
<1> HIDE DEF calls, d
<1>5. Undisturbed(call, l)
  BY <1>1 DEF Running, Undisturbed
<1>6. \A b \in FrameBytes : b \div Stride < n => seen[b] = frameBuffer[b]
  BY <1>1, <1>5, InvFacts DEF WrittenUpTo, d
<1>7. /\ seen' = [b \in FrameBytes |-> seen'[b]]
      /\ \A b \in FrameBytes :
           /\ b >= FrameBufferSize => seen'[b] = seen[b]
           /\ b \div Stride = n \/ seen[b] = frameBuffer[b] => seen'[b] = frameBuffer[b]
  BY <1>1, <1>2, InvFacts, WrittenBackSees
<1>8. ASSUME NEW b \in FrameBytes, b \div Stride < n + 1 PROVE seen'[b] = frameBuffer[b]
  <2>1. CASE b \div Stride < n
    BY <1>6, <1>7, <2>1
  <2>2. CASE ~(b \div Stride < n)
    <3>1. Stride \in Nat /\ b \in Nat /\ Stride # 0
      <4>1. Stride \in Nat /\ b \in Nat
        BY <1>1, FrameNumbers
      <4>2. Stride # 0
        <5>1. SUFFICES ASSUME Stride = 0 PROVE FALSE
          OBVIOUS
        <5>2. FrameBytes = {}
          BY <1>1, <5>1 DEF FrameBytes, FrameOK
        <5> QED BY <5>2
      <4> QED BY <4>1, <4>2
    <3>2. b \div Stride \in Nat
      BY <3>1
    <3>3. b \div Stride = n
      BY <1>1, <1>8, <2>2, <3>2
    <3> QED BY <1>7, <3>3
  <2> QED BY <2>1, <2>2
<1>9. ASSUME n + 1 = Height PROVE seen' = frameBuffer
  <2>1. ASSUME NEW b \in FrameBytes PROVE seen'[b] = frameBuffer[b]
    <3>1. CASE b >= FrameBufferSize
      BY <1>7, <3>1, InvFacts
    <3>2. CASE ~(b >= FrameBufferSize)
      <4>1. b \in Nat /\ Stride \in Nat /\ Height \in Nat /\ b < Stride * Height
        BY <1>1, <3>2, FrameNumbers DEF FrameOK
      <4>2. Stride # 0
        BY <4>1
      <4>3. b \div Stride < Height
        BY <4>1, <4>2, LineOfByte
      <4> QED BY <1>8, <1>9, <4>3
    <3> QED BY <3>1, <3>2
  <2>2. frameBuffer = [b \in FrameBytes |-> frameBuffer[b]]
    BY InvFacts
  <2>3. seen' = [b \in FrameBytes |-> seen'[b]]
    BY <1>7
  <2> QED BY <2>1, <2>2, <2>3, Zenon
<1>10. ASSUME NEW k \in Tpl PROVE WrittenUpTo(calls, frameBuffer, seen', k)
  <2> SUFFICES ASSUME calls[k].stage = "flush", Undisturbed(calls, k),
                      NEW b \in FrameBytes, b \div Stride < calls[k].line
               PROVE  seen'[b] = frameBuffer[b]
    BY DEF WrittenUpTo
  <2>1. CASE k = l
    BY <1>3, <1>4, <1>8, <2>1
  <2>2. CASE n + 1 = Height
    BY <1>9, <2>2
  <2>3. CASE k # l /\ n + 1 # Height
    <3>1. c.stage = "flush"
      BY <2>3, <1>1 DEF c, d, Fields
    <3>2. CASE l < k
      <4>1. k \in l + 1..TPL_NOTIFY
        BY <3>2, TplAssumption DEF Tpl
      <4> QED BY <1>1, <1>4, <2>3, <4>1 DEF Running
    <3>3. CASE k < l
      <4>1. l \in k + 1..TPL_NOTIFY
        BY <3>3, TplAssumption DEF Tpl
      <4>2. c.stage \in {"none", "raise"}
        BY <1>4, <4>1 DEF Undisturbed
      <4> QED BY <3>1, <4>2
    <3> QED BY <2>3, <3>2, <3>3, TplNumbers
  <2> QED BY <2>1, <2>2, <2>3
<1>11. \A b \in FrameBytes : b >= FrameBufferSize => seen'[b] = frameBuffer'[b]
  BY <1>2, <1>7, InvFacts
<1>12. FlushInv'
  BY <1>2, <1>4, <1>7, <1>10, <1>11, InvFacts, StepKeeps
<1>13. ASSUME NEW k \in Tpl, call[k].stage # "none", call'[k].stage = "none" PROVE seen' = frameBuffer'
  <2>1. k = l
    BY <1>2, <1>4, <1>13
  <2>2. c.stage = "none"
    BY <1>2, <1>4, <1>13, <2>1
  <2> QED BY <1>2, <1>3, <1>9, <2>2
<1> QED BY <1>12, <1>13

(* The driver's calls step by step.                                          *)
LEMMA CallKeeps ==
  ASSUME FlushInv, NoMovesUp, user = "driver", installed # "no", NEW l \in Tpl,
         RaiseTPL(l) \/ DrawLine(l) \/ RestoreTPL(l) \/ Flush(l)
  PROVE  /\ FlushInv'
         /\ \A k \in Tpl : call[k].stage # "none" /\ call'[k].stage = "none" => seen' = frameBuffer'
<1>1. CASE RaiseTPL(l)
  BY <1>1, RaiseKeeps
<1>2. CASE DrawLine(l)
  BY <1>2, DrawKeeps
<1>3. CASE RestoreTPL(l)
  BY <1>3, RestoreKeeps
<1>4. CASE Flush(l)
  BY <1>4, FlushKeeps
<1> QED BY <1>1, <1>2, <1>3, <1>4

ReturnStep ==
  /\ \A l \in Tpl : call[l].stage # "none" /\ call'[l].stage = "none" => seen' = frameBuffer'
  /\ installed' # installed /\ installed' = "yes" => \A b \in FrameBytes : seen'[b] = {}

LEMMA DisplayStep ==
  ASSUME FlushInv, user = "driver" => NoMovesUp, [DisplayNext]_displayVars
  PROVE  FlushInv' /\ [ReturnStep]_displayVars
<1>1. CASE UNCHANGED displayVars
  <2>1. UNCHANGED <<user, config, frameBuffer, seen, call, installed>>
    BY <1>1 DEF displayVars, bltVars, driverVars
  <2>2. ASSUME user = "driver" PROVE FlushInv'
    <3>1. installed # "no" => FlushInv'
      BY <2>1, <2>2, InvFacts, StepKeeps
    <3>2. ASSUME installed = "no" PROVE FlushInv'
      <4>1. /\ FrameOK' /\ FrameBytes' = FrameBytes /\ FrameBufferSize' = FrameBufferSize
            /\ CallsOK(call)'
        BY <2>1, <2>2, InvFacts, FrameStays, CallsStay
      <4>2. \A l \in Tpl : call[l].stage = "none"
        BY <2>2, <3>2 DEF FlushInv
      <4> QED BY <2>1, <2>2, <3>2, <4>1, <4>2 DEF FlushInv, WrittenUpTo
    <3> QED BY <3>1, <3>2
  <2>3. user # "driver" => FlushInv'
    BY <2>1 DEF FlushInv
  <2> QED BY <1>1, <2>2, <2>3
<1>2. CASE user # "driver" /\ DisplayNext
  <2>1. UNCHANGED <<user, call, installed>>
    BY <1>2 DEF DisplayNext, driverVars
  <2> QED BY <1>2, <2>1 DEF FlushInv, ReturnStep
<1>3. CASE user = "driver" /\ DisplayNext
  <2> USE <1>3
  <2>0. DriverNext
    BY DEF DisplayNext
  <2>1. CASE FailToInitialize
    <3>1. call' = call /\ installed' # "yes"
      BY <2>1 DEF FailToInitialize
    <3> QED BY <2>1, <3>1, FailKeeps DEF ReturnStep
  <2>2. CASE Initialize
    <3>1. call' = call
      BY <2>2 DEF Initialize
    <3>2. FrameBytes' = FrameBytes
      BY <2>2, FrameStays DEF Initialize
    <3> QED BY <2>2, <3>1, <3>2, InitializeKeeps DEF ReturnStep
  <2>3. ASSUME NEW l \in Tpl, NEW r \in DriverAsked, Blt(l, r) PROVE FlushInv' /\ ReturnStep
    <3>1. \A k \in Tpl : call'[k].stage = "none" => call[k].stage = "none"
      BY <2>3, InvFacts DEF Blt, CallsOK
    <3>2. installed' = installed
      BY <2>3 DEF Blt
    <3> QED BY <2>3, <3>1, <3>2, BltKeeps DEF ReturnStep
  <2>4. ASSUME NEW l \in Tpl, RaiseTPL(l) \/ DrawLine(l) \/ RestoreTPL(l) \/ Flush(l)
        PROVE  FlushInv' /\ ReturnStep
    <3>1. installed' = installed
      BY <2>4 DEF RaiseTPL, DrawLine, RestoreTPL, Flush
    <3>2. installed # "no"
      <4>1. call[l].stage # "none"
        BY <2>4 DEF RaiseTPL, DrawLine, RestoreTPL, Flush
      <4> QED BY <4>1 DEF FlushInv
    <3> QED BY <2>4, <3>1, <3>2, CallKeeps DEF ReturnStep
  <2>5. ASSUME installed = "yes", NEW line \in 0..Height - 1, Evict(line) PROVE FlushInv' /\ ReturnStep
    <3>1. installed' = installed
      BY <2>5 DEF Evict
    <3> QED BY <2>5, <3>1, EvictKeeps DEF ReturnStep
  <2> QED BY <2>0, <2>1, <2>2, <2>3, <2>4, <2>5 DEF DriverNext
<1> QED BY <1>1, <1>2, <1>3 DEF DisplayNext

(* For any frame buffer, any number of levels and any requests but moves to  *)
(* a higher address: when a Blt returns, the screen shows all that was drawn *)
(* by it, by what preempted it and by what it preempted, although each call  *)
(* writes back line by line with the level restored (DisplayBlt).            *)
THEOREM ReturnShows ==
  ASSUME NoMovesUp
  PROVE  DisplaySpec => ReturnsShown
<1>1. DisplayInit => FlushInv
  BY FlushInit
<1>2. FlushInv /\ [DisplayNext]_displayVars => FlushInv' /\ [ReturnStep]_displayVars
  BY DisplayStep
<1> QED BY <1>1, <1>2, PTL DEF DisplaySpec, ReturnsShown, ReturnStep

-----------------------------------------------------------------------------
(* Folds                                                                     *)

(* The function that TextModes folds with.                                   *)
OfferFold(g, base, seq, max, n) ==
  g = [s \in SUBSET (1..n) |-> IF s = {} THEN base
                               ELSE Offer(g[s \ {Max(s)}], seq[Max(s)], max)]

LEMMA OfferFoldExists ==
  ASSUME NEW base, NEW seq, NEW max, NEW n \in Nat
  PROVE  \E g : OfferFold(g, base, seq, max, n)
<1> DEFINE T == {m \in Nat : \E g : OfferFold(g, base, seq, max, m)}
<1>1. 0 \in T
  <2> DEFINE g == [s \in SUBSET (1..0) |-> base]
  <2>1. \A s \in SUBSET (1..0) : s = {}
    OBVIOUS
  <2>2. g = [s \in SUBSET (1..0) |-> IF s = {} THEN base
                                    ELSE Offer(g[s \ {Max(s)}], seq[Max(s)], max)]
    BY <2>1, Zenon
  <2>3. OfferFold(g, base, seq, max, 0)
    BY <2>2, Zenon DEF OfferFold
  <2> QED BY <2>3
<1>2. ASSUME NEW m \in Nat, m \in T PROVE m + 1 \in T
  <2>1. PICK g : OfferFold(g, base, seq, max, m)
    BY <1>2
  <2> DEFINE S == SUBSET (1..m + 1)
             h == [s \in S |-> IF m + 1 \in s THEN Offer(g[s \ {m + 1}], seq[m + 1], max)
                               ELSE g[s]]
             v(s) == IF s = {} THEN base ELSE Offer(h[s \ {Max(s)}], seq[Max(s)], max)
  <2>2. \A s \in S : m + 1 \notin s => s \in SUBSET (1..m)
    <3>1. \A x \in 1..m + 1 : x # m + 1 => x \in 1..m
      OBVIOUS
    <3> QED BY <3>1
  <2>3. \A s \in SUBSET (1..m) : s \in S /\ m + 1 \notin s
    <3>1. \A x \in 1..m : x \in 1..m + 1 /\ x # m + 1
      OBVIOUS
    <3> QED BY <3>1
  <2>4. \A s \in SUBSET (1..m) : h[s] = g[s]
    BY <2>3, Zenon
  <2>5. ASSUME NEW s \in S PROVE h[s] = v(s)
    <3>1. CASE m + 1 \in s
      <4>1. Max(s) = m + 1 /\ s \ {m + 1} \in SUBSET (1..m) /\ s # {}
        BY <3>1, LargestIs
      <4>2. h[s] = Offer(g[s \ {m + 1}], seq[m + 1], max)
        BY <3>1, Zenon
      <4>3. h[s \ {m + 1}] = g[s \ {m + 1}]
        BY <2>4, <4>1, Zenon
      <4> HIDE DEF h
      <4> QED BY <4>1, <4>2, <4>3, Zenon
    <3>2. CASE m + 1 \notin s
      <4>1. s \in SUBSET (1..m)
        BY <2>2, <3>2, Zenon
      <4>2. h[s] = g[s]
        BY <2>4, <4>1, Zenon
      <4>3. g[s] = IF s = {} THEN base ELSE Offer(g[s \ {Max(s)}], seq[Max(s)], max)
        BY <2>1, <4>1, Zenon DEF OfferFold
      <4>4. h[s \ {Max(s)}] = g[s \ {Max(s)}]
        <5>1. s \ {Max(s)} \in SUBSET (1..m)
          BY <4>1, Zenon
        <5> HIDE DEF h
        <5> QED BY <2>4, <5>1, Zenon
      <4> HIDE DEF h
      <4> QED BY <4>2, <4>3, <4>4, Zenon
    <3> QED BY <3>1, <3>2, Zenon
  <2>6. h = [s \in S |-> v(s)]
    <3>1. h = [s \in S |-> h[s]]
      BY Zenon
    <3> HIDE DEF h
    <3> QED BY <2>5, <3>1, Zenon
  <2>7. OfferFold(h, base, seq, max, m + 1)
    <3> HIDE DEF h
    <3> QED BY <2>6, Zenon DEF OfferFold
  <2> QED BY <2>7
<1> HIDE DEF T
<1>3. n \in T
  BY <1>1, <1>2, SetInduction
<1> QED BY <1>3 DEF T

OfferRun(g, base, seq, max, n) ==
  /\ g[1..0] = base
  /\ \A k \in 0..n - 1 : g[1..k + 1] = Offer(g[1..k], seq[k + 1], max)

LEMMA OfferFoldSteps ==
  ASSUME NEW base, NEW seq, NEW max, NEW n \in Nat, NEW g, OfferFold(g, base, seq, max, n)
  PROVE  OfferRun(g, base, seq, max, n)
<1>1. g[1..0] = base
  <2>1. 1..0 = {} /\ {} \in SUBSET (1..n)
    OBVIOUS
  <2>2. g[{}] = base
    BY <2>1, Zenon DEF OfferFold
  <2> QED BY <2>1, <2>2
<1>2. ASSUME NEW k \in 0..n - 1 PROVE g[1..k + 1] = Offer(g[1..k], seq[k + 1], max)
  <2> DEFINE s == 1..k + 1
  <2>1. k \in Nat /\ s \in SUBSET (1..n) /\ s \in SUBSET (1..k + 1) /\ k + 1 \in s /\ s # {}
    OBVIOUS
  <2>2. s \ {k + 1} = 1..k
    OBVIOUS
  <2> HIDE DEF s
  <2>3. Max(s) = k + 1
    BY <2>1, LargestIs
  <2>4. g[s] = Offer(g[s \ {Max(s)}], seq[Max(s)], max)
    BY <2>1, Zenon DEF OfferFold
  <2>5. g[s] = Offer(g[1..k], seq[k + 1], max)
    BY <2>2, <2>3, <2>4, Zenon
  <2> QED BY <2>5 DEF s
<1> QED BY <1>1, <1>2 DEF OfferRun

-----------------------------------------------------------------------------
(* The list of text modes                                                    *)

Usable(size) ==
  /\ size \in Nat \X Nat /\ size[1] >= 2 /\ size[2] >= 1
  /\ 4 * (size[1] * Glyph[1]) <= Word /\ 4 * (size[2] * Glyph[2]) <= Word

TextList(list, max) ==
  /\ list \in Seq(Nat \X Nat) /\ Len(list) >= 2
  /\ \A i \in 1..Len(list) : list[i] = NoSize \/ Usable(list[i])
  /\ \A i \in 2..Len(list) : FitsIn(list[i], max)
  /\ \A i, j \in 1..Len(list) : list[i] = list[j] /\ list[i] # NoSize => i = j

LEMMA OfferKeeps ==
  ASSUME NEW max, NEW list, TextList(list, max), NEW size, Usable(size)
  PROVE  TextList(Offer(list, size, max), max)
<1>1. CASE HasZero(size) \/ ~FitsIn(size, max) \/ size \in ToSet(list)
  BY <1>1 DEF Offer
<1>2. CASE ~(HasZero(size) \/ ~FitsIn(size, max) \/ size \in ToSet(list))
  <2> DEFINE new == Append(list, size)
             n == Len(list)
  <2>1. /\ Offer(list, size, max) = new
        /\ FitsIn(size, max) /\ \A i \in DOMAIN list : list[i] # size
    BY <1>2 DEF Offer, ToSet
  <2>2. /\ n \in Nat /\ n >= 2 /\ DOMAIN list = 1..n /\ list \in Seq(Nat \X Nat) /\ size \in Nat \X Nat
        /\ new \in Seq(Nat \X Nat) /\ Len(new) = n + 1 /\ new[n + 1] = size
        /\ \A i \in 1..n : new[i] = list[i]
    <3>1. list \in Seq(Nat \X Nat) /\ size \in Nat \X Nat /\ n >= 2
      BY DEF TextList, Usable
    <3> QED BY <3>1
  <2>3. \A i \in 1..n + 1 : i \in 1..n \/ i = n + 1
    BY <2>2
  <2> HIDE DEF new, n
  <2>4. ASSUME NEW i \in 1..n + 1 PROVE new[i] = NoSize \/ Usable(new[i])
    BY <2>2, <2>3 DEF TextList, n
  <2>5. ASSUME NEW i \in 2..n + 1 PROVE FitsIn(new[i], max)
    <3>1. i \in 2..n \/ i = n + 1
      BY <2>2
    <3>2. i \in 2..n => i \in 1..n
      BY <2>2
    <3> QED BY <2>1, <2>2, <3>1, <3>2 DEF TextList, n
  <2>6. ASSUME NEW i \in 1..n + 1, NEW j \in 1..n + 1, new[i] = new[j], new[i] # NoSize PROVE i = j
    BY <2>1, <2>2, <2>3, <2>6 DEF TextList, n
  <2>7. new \in Seq(Nat \X Nat) /\ Len(new) = n + 1 /\ Len(new) >= 2
    BY <2>2
  <2>8. TextList(new, max)
    BY <2>4, <2>5, <2>6, <2>7, Zenon DEF TextList
  <2> QED BY <2>1, <2>8
<1> QED BY <1>1, <1>2

LEMMA OfferListed ==
  ASSUME NEW list \in Seq(Nat \X Nat), NEW size \in Nat \X Nat
  PROVE  HasZero(size) \/ size \in ToSet(Offer(list, size, size))
<1>1. FitsIn(size, size)
  BY DEF FitsIn
<1>2. size \in ToSet(Append(list, size))
  <2>1. Len(list) + 1 \in DOMAIN Append(list, size) /\ Append(list, size)[Len(list) + 1] = size
    OBVIOUS
  <2> QED BY <2>1, Zenon DEF ToSet
<1> QED BY <1>1, <1>2 DEF Offer

LEMMA SizesUsable ==
  /\ Usable(Mode0) /\ Usable(Mode1)
  /\ \A i \in 1..Len(Predefined) : Usable(Predefined[i])
<1>1. /\ {Mode0, Mode1} \subseteq Nat \X Nat
      /\ \A i \in 1..Len(Predefined) : Predefined[i] \in Nat \X Nat /\ Predefined[i] \in ToSet(Predefined)
  BY SizeAssumption DEF ToSet
<1>2. \A size \in {Mode0, Mode1} \cup ToSet(Predefined) :
        /\ size[1] >= 2 /\ size[2] >= 1
        /\ 4 * (size[1] * Glyph[1]) <= Word /\ 4 * (size[2] * Glyph[2]) <= Word
  <2>1. 1 \in 1..2 /\ 2 \in 1..2
    OBVIOUS
  <2> QED BY <2>1, SizeAssumption, RoomAssumption
<1> QED BY <1>1, <1>2 DEF Usable

LEMMA TextModesFacts ==
  ASSUME NEW res \in Nat \X Nat, Usable(MaxSize(res))
  PROVE  /\ TextList(TextModes(res), MaxSize(res))
         /\ MaxSize(res) \in ToSet(TextModes(res))
<1> DEFINE max == MaxSize(res)
           base == <<Mode0, IF FitsIn(Mode1, max) THEN Mode1 ELSE NoSize>>
           sizes == Append(Predefined, max)
           n == Len(Predefined)
<1>1. /\ n \in Nat /\ sizes \in Seq(Nat \X Nat) /\ Len(sizes) = n + 1 /\ sizes[n + 1] = max
      /\ \A k \in 1..n + 1 : Usable(sizes[k])
  <2>1. Predefined \in Seq(Nat \X Nat) /\ max \in Nat \X Nat
    BY SizeAssumption DEF Usable
  <2> HIDE DEF max
  <2>2. /\ n \in Nat /\ sizes \in Seq(Nat \X Nat) /\ Len(sizes) = n + 1 /\ sizes[n + 1] = max
        /\ \A k \in 1..n : sizes[k] = Predefined[k]
    BY <2>1
  <2>3. \A k \in 1..n + 1 : k \in 1..n \/ k = n + 1
    BY <2>2
  <2>4. Usable(max)
    BY DEF max
  <2> QED BY <2>2, <2>3, <2>4, SizesUsable
<1>2. TextList(base, max)
  <2>1. max \in Nat \X Nat
    BY DEF Usable
  <2>2. NoSize \in Nat \X Nat /\ FitsIn(NoSize, max)
    BY <2>1 DEF NoSize, FitsIn
  <2>3. Mode0 # Mode1 /\ Mode0 \in Nat \X Nat /\ Mode1 \in Nat \X Nat /\ Mode0 # NoSize /\ Mode1 # NoSize
    BY SizesUsable, SizeAssumption DEF Usable, NoSize
  <2> HIDE DEF max
  <2> DEFINE second == IF FitsIn(Mode1, max) THEN Mode1 ELSE NoSize
  <2>4. /\ second \in Nat \X Nat /\ FitsIn(second, max)
        /\ (second = NoSize \/ Usable(second)) /\ second # Mode0
    BY <2>2, <2>3, SizesUsable
  <2> HIDE DEF second
  <2>5. \A i \in 1..2 : i = 1 \/ i = 2
    OBVIOUS
  <2>6. <<Mode0, second>> \in Seq(Nat \X Nat) /\ Len(<<Mode0, second>>) = 2
    BY <2>3, <2>4
  <2>7. TextList(<<Mode0, second>>, max)
    <3>1. \A i \in 2..2 : i = 2
      OBVIOUS
    <3> QED BY <2>3, <2>4, <2>5, <2>6, <3>1, SizesUsable DEF TextList
  <2> QED BY <2>7 DEF second
<1> HIDE DEF max, base, sizes, n
<1> DEFINE m == n + 1
           g == CHOOSE f : OfferFold(f, base, sizes, max, m)
<1>3. m \in Nat /\ DOMAIN sizes = 1..m
  BY <1>1
<1> HIDE DEF m
<1>4. OfferFold(g, base, sizes, max, m)
  BY <1>3, OfferFoldExists
<1>5. TextModes(res) = g[1..m]
  BY <1>3, Zenon DEF TextModes, max, base, sizes, FoldLeft, MapThenFoldSet, OfferFold
<1> HIDE DEF g
<1>12. g[1..0] = base /\ \A k \in 0..m - 1 : g[1..k + 1] = Offer(g[1..k], sizes[k + 1], max)
  <2>1. OfferRun(g, base, sizes, max, m)
    BY <1>3, <1>4, OfferFoldSteps, Zenon
  <2> QED BY <2>1 DEF OfferRun
<1> DEFINE T == {k \in Nat : k <= m => TextList(g[1..k], max)}
<1>6. 0 \in T
  BY <1>2, <1>12
<1>7. ASSUME NEW k \in Nat, k \in T PROVE k + 1 \in T
  <2> SUFFICES ASSUME k + 1 <= m PROVE TextList(g[1..k + 1], max)
    OBVIOUS
  <2>1. k \in 0..m - 1 /\ k <= m /\ k + 1 \in 1..n + 1
    BY <1>1, <1>3 DEF m
  <2>2. TextList(g[1..k], max) /\ Usable(sizes[k + 1])
    BY <1>1, <1>7, <2>1
  <2> QED BY <1>12, <2>1, <2>2, OfferKeeps
<1> HIDE DEF T
<1>8. n \in T /\ n + 1 \in T
  BY <1>1, <1>6, <1>7, SetInduction
<1>9. TextList(g[1..n], max) /\ TextList(g[1..n + 1], max)
  BY <1>1, <1>8 DEF T, m
<1>10. g[1..n + 1] = Offer(g[1..n], max, max)
  BY <1>1, <1>12 DEF m
<1>11. max \in ToSet(g[1..n + 1])
  <2>1. g[1..n] \in Seq(Nat \X Nat) /\ max \in Nat \X Nat /\ ~HasZero(max)
    <3>1. g[1..n] \in Seq(Nat \X Nat)
      BY <1>9, Zenon DEF TextList
    <3>2. Usable(max)
      BY DEF max
    <3> QED BY <3>1, <3>2 DEF Usable, HasZero
  <2> QED BY <1>10, <2>1, OfferListed
<1> QED BY <1>5, <1>9, <1>11 DEF max, m

-----------------------------------------------------------------------------
(* The mode a console starts in                                              *)

(* The function that PreferMode folds with.                                  *)
LargerFold(g, base, seq, modes, n) ==
  g = [s \in SUBSET (1..n) |-> IF s = {} THEN base
                               ELSE Larger(modes, g[s \ {Max(s)}], seq[Max(s)])]

LEMMA LargerFoldExists ==
  ASSUME NEW base, NEW seq, NEW modes, NEW n \in Nat
  PROVE  \E g : LargerFold(g, base, seq, modes, n)
<1> DEFINE T == {m \in Nat : \E g : LargerFold(g, base, seq, modes, m)}
<1>1. 0 \in T
  <2> DEFINE g == [s \in SUBSET (1..0) |-> base]
  <2>1. \A s \in SUBSET (1..0) : s = {}
    OBVIOUS
  <2>2. g = [s \in SUBSET (1..0) |-> IF s = {} THEN base
                                    ELSE Larger(modes, g[s \ {Max(s)}], seq[Max(s)])]
    BY <2>1, Zenon
  <2>3. LargerFold(g, base, seq, modes, 0)
    BY <2>2, Zenon DEF LargerFold
  <2> QED BY <2>3
<1>2. ASSUME NEW m \in Nat, m \in T PROVE m + 1 \in T
  <2>1. PICK g : LargerFold(g, base, seq, modes, m)
    BY <1>2
  <2> DEFINE S == SUBSET (1..m + 1)
             h == [s \in S |-> IF m + 1 \in s THEN Larger(modes, g[s \ {m + 1}], seq[m + 1])
                               ELSE g[s]]
             v(s) == IF s = {} THEN base ELSE Larger(modes, h[s \ {Max(s)}], seq[Max(s)])
  <2>2. \A s \in S : m + 1 \notin s => s \in SUBSET (1..m)
    <3>1. \A x \in 1..m + 1 : x # m + 1 => x \in 1..m
      OBVIOUS
    <3> QED BY <3>1
  <2>3. \A s \in SUBSET (1..m) : s \in S /\ m + 1 \notin s
    <3>1. \A x \in 1..m : x \in 1..m + 1 /\ x # m + 1
      OBVIOUS
    <3> QED BY <3>1
  <2>4. \A s \in SUBSET (1..m) : h[s] = g[s]
    BY <2>3, Zenon
  <2>5. ASSUME NEW s \in S PROVE h[s] = v(s)
    <3>1. CASE m + 1 \in s
      <4>1. Max(s) = m + 1 /\ s \ {m + 1} \in SUBSET (1..m) /\ s # {}
        BY <3>1, LargestIs
      <4>2. h[s] = Larger(modes, g[s \ {m + 1}], seq[m + 1])
        BY <3>1, Zenon
      <4>3. h[s \ {m + 1}] = g[s \ {m + 1}]
        BY <2>4, <4>1, Zenon
      <4> HIDE DEF h
      <4> QED BY <4>1, <4>2, <4>3, Zenon
    <3>2. CASE m + 1 \notin s
      <4>1. s \in SUBSET (1..m)
        BY <2>2, <3>2, Zenon
      <4>2. h[s] = g[s]
        BY <2>4, <4>1, Zenon
      <4>3. g[s] = IF s = {} THEN base ELSE Larger(modes, g[s \ {Max(s)}], seq[Max(s)])
        BY <2>1, <4>1, Zenon DEF LargerFold
      <4>4. h[s \ {Max(s)}] = g[s \ {Max(s)}]
        <5>1. s \ {Max(s)} \in SUBSET (1..m)
          BY <4>1, Zenon
        <5> HIDE DEF h
        <5> QED BY <2>4, <5>1, Zenon
      <4> HIDE DEF h
      <4> QED BY <4>2, <4>3, <4>4, Zenon
    <3> QED BY <3>1, <3>2, Zenon
  <2>6. h = [s \in S |-> v(s)]
    <3>1. h = [s \in S |-> h[s]]
      BY Zenon
    <3> HIDE DEF h
    <3> QED BY <2>5, <3>1, Zenon
  <2>7. LargerFold(h, base, seq, modes, m + 1)
    <3> HIDE DEF h
    <3> QED BY <2>6, Zenon DEF LargerFold
  <2> QED BY <2>7
<1> HIDE DEF T
<1>3. n \in T
  BY <1>1, <1>2, SetInduction
<1> QED BY <1>3 DEF T

LargerRun(g, base, seq, modes, n) ==
  /\ g[1..0] = base
  /\ \A k \in 0..n - 1 : g[1..k + 1] = Larger(modes, g[1..k], seq[k + 1])

LEMMA LargerFoldSteps ==
  ASSUME NEW base, NEW seq, NEW modes, NEW n \in Nat, NEW g, LargerFold(g, base, seq, modes, n)
  PROVE  LargerRun(g, base, seq, modes, n)
<1>1. g[1..0] = base
  <2>1. 1..0 = {} /\ {} \in SUBSET (1..n)
    OBVIOUS
  <2>2. g[{}] = base
    BY <2>1, Zenon DEF LargerFold
  <2> QED BY <2>1, <2>2
<1>2. ASSUME NEW k \in 0..n - 1 PROVE g[1..k + 1] = Larger(modes, g[1..k], seq[k + 1])
  <2> DEFINE s == 1..k + 1
  <2>1. k \in Nat /\ s \in SUBSET (1..n) /\ s \in SUBSET (1..k + 1) /\ k + 1 \in s /\ s # {}
    OBVIOUS
  <2>2. s \ {k + 1} = 1..k
    OBVIOUS
  <2> HIDE DEF s
  <2>3. Max(s) = k + 1
    BY <2>1, LargestIs
  <2>4. g[s] = Larger(modes, g[s \ {Max(s)}], seq[Max(s)])
    BY <2>1, Zenon DEF LargerFold
  <2>5. g[s] = Larger(modes, g[1..k], seq[k + 1])
    BY <2>2, <2>3, <2>4, Zenon
  <2> QED BY <2>5 DEF s
<1> QED BY <1>1, <1>2 DEF LargerRun

ValidMode(modes, m) == m = -1 \/ (m \in 0..Len(modes) - 1 /\ modes[m + 1] # NoSize)

LEMMA LargerKeeps ==
  ASSUME NEW modes \in Seq(Nat \X Nat), NEW best, ValidMode(modes, best), NEW n \in 0..Len(modes) - 1
  PROVE  ValidMode(modes, Larger(modes, best, n))
<1>1. modes[n + 1] \in Nat \X Nat
  OBVIOUS
<1>2. best # -1 => modes[best + 1] \in Nat \X Nat
  BY DEF ValidMode
<1>3. CASE Larger(modes, best, n) = best
  BY <1>3
<1>4. CASE Larger(modes, best, n) # best
  <2>1. Larger(modes, best, n) = n /\ modes[n + 1][1] > 0
    BY <1>1, <1>2, <1>4 DEF Larger, NoSize
  <2> QED BY <2>1 DEF ValidMode, NoSize
<1> QED BY <1>3, <1>4

LEMMA PreferModeValid ==
  ASSUME NEW modes \in Seq(Nat \X Nat), NEW wish \in Nat \X Nat
  PROVE  ValidMode(modes, PreferMode(modes, wish))
<1>1. CASE HasZero(wish)
  <2> DEFINE m == Len(modes)
             seq == [k \in 1..m |-> k - 1]
             g == CHOOSE f : LargerFold(f, -1, seq, modes, m)
  <2>1. m \in Nat /\ DOMAIN seq = 1..m /\ \A k \in 1..m : seq[k] = k - 1
    OBVIOUS
  <2>2. PreferMode(modes, wish) = FoldLeft(LAMBDA best, n : Larger(modes, best, n), -1, seq)
    BY <1>1, Zenon DEF PreferMode
  <2> HIDE DEF m, seq
  <2>3. LargerFold(g, -1, seq, modes, m)
    BY <2>1, LargerFoldExists
  <2>4. PreferMode(modes, wish) = g[1..m]
    BY <2>1, <2>2, Zenon DEF FoldLeft, MapThenFoldSet, LargerFold
  <2> HIDE DEF g
  <2>5. LargerRun(g, -1, seq, modes, m)
    BY <2>1, <2>3, LargerFoldSteps, Zenon
  <2> DEFINE T == {k \in Nat : k <= m => ValidMode(modes, g[1..k])}
  <2>6. 0 \in T
    BY <2>5 DEF LargerRun, ValidMode
  <2>7. ASSUME NEW k \in Nat, k \in T PROVE k + 1 \in T
    <3> SUFFICES ASSUME k + 1 <= m PROVE ValidMode(modes, g[1..k + 1])
      OBVIOUS
    <3>1. k \in 0..m - 1 /\ k + 1 \in 1..m /\ (k + 1) - 1 = k
      BY <2>1
    <3>2. g[1..k + 1] = Larger(modes, g[1..k], k)
      BY <2>1, <2>5, <3>1 DEF LargerRun
    <3>3. ValidMode(modes, g[1..k]) /\ k \in 0..Len(modes) - 1
      BY <2>1, <2>7, <3>1 DEF m
    <3> QED BY <3>2, <3>3, LargerKeeps
  <2> HIDE DEF T
  <2>8. m \in T
    BY <2>1, <2>6, <2>7, SetInduction
  <2> QED BY <2>1, <2>4, <2>8 DEF T
<1>2. CASE ~HasZero(wish)
  <2> DEFINE I == {i \in 1..Len(modes) : modes[i] = wish}
  <2>1. PreferMode(modes, wish) = (IF I # {} THEN Min(I) ELSE 0) - 1
    BY <1>2, Zenon DEF PreferMode, SelectInSeq
  <2>2. CASE I = {}
    BY <2>1, <2>2 DEF ValidMode
  <2>3. CASE I # {}
    <3>1. I \in SUBSET Nat
      OBVIOUS
    <3>2. PICK n \in I : \A m \in I : n <= m
      BY <2>3, <3>1, LeastNumber
    <3>3. Min(I) \in I
      BY <3>2 DEF Min
    <3>4. wish # NoSize
      BY <1>2 DEF HasZero, NoSize
    <3> DEFINE i == Min(I)
    <3>5. i \in 1..Len(modes) /\ modes[i] = wish
      BY <3>3
    <3> HIDE DEF i, I
    <3>6. ValidMode(modes, i - 1)
      BY <3>4, <3>5 DEF ValidMode
    <3> QED BY <2>1, <2>3, <3>6 DEF i
  <2> QED BY <2>2, <2>3
<1> QED BY <1>1, <1>2

-----------------------------------------------------------------------------
(* The graphics mode a console starts in                                     *)

(* The function that Highest folds with.                                     *)
HigherFold(g, base, seq, n) ==
  g = [s \in SUBSET (1..n) |-> IF s = {} THEN base
                               ELSE Higher(g[s \ {Max(s)}], seq[Max(s)])]

LEMMA HigherFoldExists ==
  ASSUME NEW base, NEW seq, NEW n \in Nat
  PROVE  \E g : HigherFold(g, base, seq, n)
<1> DEFINE T == {m \in Nat : \E g : HigherFold(g, base, seq, m)}
<1>1. 0 \in T
  <2> DEFINE g == [s \in SUBSET (1..0) |-> base]
  <2>1. \A s \in SUBSET (1..0) : s = {}
    OBVIOUS
  <2>2. g = [s \in SUBSET (1..0) |-> IF s = {} THEN base
                                    ELSE Higher(g[s \ {Max(s)}], seq[Max(s)])]
    BY <2>1, Zenon
  <2>3. HigherFold(g, base, seq, 0)
    BY <2>2, Zenon DEF HigherFold
  <2> QED BY <2>3
<1>2. ASSUME NEW m \in Nat, m \in T PROVE m + 1 \in T
  <2>1. PICK g : HigherFold(g, base, seq, m)
    BY <1>2
  <2> DEFINE S == SUBSET (1..m + 1)
             h == [s \in S |-> IF m + 1 \in s THEN Higher(g[s \ {m + 1}], seq[m + 1])
                               ELSE g[s]]
             v(s) == IF s = {} THEN base ELSE Higher(h[s \ {Max(s)}], seq[Max(s)])
  <2>2. \A s \in S : m + 1 \notin s => s \in SUBSET (1..m)
    <3>1. \A x \in 1..m + 1 : x # m + 1 => x \in 1..m
      OBVIOUS
    <3> QED BY <3>1
  <2>3. \A s \in SUBSET (1..m) : s \in S /\ m + 1 \notin s
    <3>1. \A x \in 1..m : x \in 1..m + 1 /\ x # m + 1
      OBVIOUS
    <3> QED BY <3>1
  <2>4. \A s \in SUBSET (1..m) : h[s] = g[s]
    BY <2>3, Zenon
  <2>5. ASSUME NEW s \in S PROVE h[s] = v(s)
    <3>1. CASE m + 1 \in s
      <4>1. Max(s) = m + 1 /\ s \ {m + 1} \in SUBSET (1..m) /\ s # {}
        BY <3>1, LargestIs
      <4>2. h[s] = Higher(g[s \ {m + 1}], seq[m + 1])
        BY <3>1, Zenon
      <4>3. h[s \ {m + 1}] = g[s \ {m + 1}]
        BY <2>4, <4>1, Zenon
      <4> HIDE DEF h
      <4> QED BY <4>1, <4>2, <4>3, Zenon
    <3>2. CASE m + 1 \notin s
      <4>1. s \in SUBSET (1..m)
        BY <2>2, <3>2, Zenon
      <4>2. h[s] = g[s]
        BY <2>4, <4>1, Zenon
      <4>3. g[s] = IF s = {} THEN base ELSE Higher(g[s \ {Max(s)}], seq[Max(s)])
        BY <2>1, <4>1, Zenon DEF HigherFold
      <4>4. h[s \ {Max(s)}] = g[s \ {Max(s)}]
        <5>1. s \ {Max(s)} \in SUBSET (1..m)
          BY <4>1, Zenon
        <5> HIDE DEF h
        <5> QED BY <2>4, <5>1, Zenon
      <4> HIDE DEF h
      <4> QED BY <4>2, <4>3, <4>4, Zenon
    <3> QED BY <3>1, <3>2, Zenon
  <2>6. h = [s \in S |-> v(s)]
    <3>1. h = [s \in S |-> h[s]]
      BY Zenon
    <3> HIDE DEF h
    <3> QED BY <2>5, <3>1, Zenon
  <2>7. HigherFold(h, base, seq, m + 1)
    <3> HIDE DEF h
    <3> QED BY <2>6, Zenon DEF HigherFold
  <2> QED BY <2>7
<1> HIDE DEF T
<1>3. n \in T
  BY <1>1, <1>2, SetInduction
<1> QED BY <1>3 DEF T

HigherRun(g, base, seq, n) ==
  /\ g[1..0] = base
  /\ \A k \in 0..n - 1 : g[1..k + 1] = Higher(g[1..k], seq[k + 1])

LEMMA HigherFoldSteps ==
  ASSUME NEW base, NEW seq, NEW n \in Nat, NEW g, HigherFold(g, base, seq, n)
  PROVE  HigherRun(g, base, seq, n)
<1>1. g[1..0] = base
  <2>1. 1..0 = {} /\ {} \in SUBSET (1..n)
    OBVIOUS
  <2>2. g[{}] = base
    BY <2>1, Zenon DEF HigherFold
  <2> QED BY <2>1, <2>2
<1>2. ASSUME NEW k \in 0..n - 1 PROVE g[1..k + 1] = Higher(g[1..k], seq[k + 1])
  <2> DEFINE s == 1..k + 1
  <2>1. k \in Nat /\ s \in SUBSET (1..n) /\ s \in SUBSET (1..k + 1) /\ k + 1 \in s /\ s # {}
    OBVIOUS
  <2>2. s \ {k + 1} = 1..k
    OBVIOUS
  <2> HIDE DEF s
  <2>3. Max(s) = k + 1
    BY <2>1, LargestIs
  <2>4. g[s] = Higher(g[s \ {Max(s)}], seq[Max(s)])
    BY <2>1, Zenon DEF HigherFold
  <2>5. g[s] = Higher(g[1..k], seq[k + 1])
    BY <2>2, <2>3, <2>4, Zenon
  <2> QED BY <2>5 DEF s
<1> QED BY <1>1, <1>2 DEF HigherRun

(* A mode found so far has the resolution found so far.                      *)
Candidate(wish, best) ==
  /\ DOMAIN best = {"res", "mode"} /\ best.mode \in GopNumbers
  /\ best.res = wish \/ best.res = ResolutionOf(best.mode)

LEMMA HigherKeeps ==
  ASSUME NEW wish, NEW best, Candidate(wish, best), NEW n \in GopNumbers
  PROVE  Candidate(wish, Higher(best, n))
BY DEF Candidate, Higher

LEMMA HighestFacts ==
  ASSUME NEW wish PROVE Candidate(wish, Highest(wish))
<1> DEFINE m == Len(GopModes)
           seq == [k \in 1..m |-> k - 1]
           base == [res |-> wish, mode |-> 0]
           g == CHOOSE f : HigherFold(f, base, seq, m)
<1>1. /\ m \in Nat /\ m > 0 /\ DOMAIN seq = 1..m /\ \A k \in 1..m : seq[k] = k - 1
  <2>1. GopModes \in Seq(Nat \X Nat) /\ GopModes # <<>>
    BY GopAssumption
  <2> QED BY <2>1
<1>2. Highest(wish) = FoldLeft(Higher, base, seq)
  BY Zenon DEF Highest
<1>3. Candidate(wish, base)
  BY <1>1 DEF Candidate, GopNumbers
<1> HIDE DEF m, seq, base
<1>4. HigherFold(g, base, seq, m)
  BY <1>1, HigherFoldExists
<1>5. Highest(wish) = g[1..m]
  BY <1>1, <1>2, Zenon DEF FoldLeft, MapThenFoldSet, HigherFold
<1> HIDE DEF g
<1>6. HigherRun(g, base, seq, m)
  BY <1>1, <1>4, HigherFoldSteps, Zenon
<1> DEFINE T == {k \in Nat : k <= m => Candidate(wish, g[1..k])}
<1>7. 0 \in T
  BY <1>3, <1>6 DEF HigherRun
<1>8. ASSUME NEW k \in Nat, k \in T PROVE k + 1 \in T
  <2> SUFFICES ASSUME k + 1 <= m PROVE Candidate(wish, g[1..k + 1])
    OBVIOUS
  <2>1. k \in 0..m - 1 /\ k + 1 \in 1..m /\ (k + 1) - 1 = k /\ k \in GopNumbers
    BY <1>1 DEF m, GopNumbers
  <2>2. g[1..k + 1] = Higher(g[1..k], k)
    BY <1>1, <1>6, <2>1 DEF HigherRun
  <2>3. Candidate(wish, g[1..k])
    BY <1>1, <1>8, <2>1
  <2> QED BY <2>1, <2>2, <2>3, HigherKeeps
<1> HIDE DEF T
<1>9. m \in T
  BY <1>1, <1>7, <1>8, SetInduction
<1> QED BY <1>1, <1>5, <1>9 DEF T

(* What a search for a mode returns.                                         *)
SearchFields == {"ok", "set", "res", "mode", "gop"}
Searched(w) ==
  /\ DOMAIN w = SearchFields
  /\ w.gop \in GopNumbers
  /\ w.ok => w.mode \in GopNumbers /\ ResolutionOf(w.mode) = w.res

LEMMA CheckedMode ==
  ASSUME NEW res, NEW gop \in GopNumbers, NEW barred,
         NEW c, c = CheckModeSupported(res, gop, barred)
  PROVE  /\ c.gop \in GopNumbers
         /\ c.ok => c.mode \in GopNumbers /\ ResolutionOf(c.mode) = res
<1> DEFINE alike  == {n \in GopNumbers : ResolutionOf(n) = res}
           usable == IF ResolutionOf(gop) = res THEN alike ELSE alike \ barred
           k      == Min(usable)
<1>1. CASE usable = {}
  BY <1>1 DEF CheckModeSupported
<1>2. CASE usable # {}
  <2>1. usable \in SUBSET Nat /\ usable \subseteq alike
    BY DEF GopNumbers
  <2>2. PICK n \in usable : \A m \in usable : n <= m
    BY <1>2, <2>1, LeastNumber
  <2>3. k \in usable
    BY <2>2 DEF Min
  <2>4. c = [ok |-> TRUE, mode |-> k, gop |-> IF ResolutionOf(gop) = res THEN gop ELSE k]
    BY <1>2, Zenon DEF CheckModeSupported
  <2>5. k \in GopNumbers /\ ResolutionOf(k) = res
    BY <2>1, <2>3
  <2> HIDE DEF k
  <2> QED BY <2>4, <2>5
<1> QED BY <1>1, <1>2

LEMMA WantedFacts ==
  ASSUME NEW wish, NEW gop \in GopNumbers, NEW barred
  PROVE  Searched(Wanted(wish, gop, barred))
<1> DEFINE w == Wanted(wish, gop, barred)
<1>1. CASE HasZero(wish)
  <2> DEFINE h == Highest(wish)
  <2>1. w = [ok |-> ~HasZero(h.res), set |-> TRUE, res |-> h.res, mode |-> h.mode, gop |-> gop]
    BY <1>1, Zenon DEF Wanted
  <2>2. Candidate(wish, h)
    BY HighestFacts
  <2> HIDE DEF h, w
  <2>3. ~HasZero(h.res) => h.mode \in GopNumbers /\ ResolutionOf(h.mode) = h.res
    BY <1>1, <2>2 DEF Candidate
  <2>4. Searched(w)
    BY <2>1, <2>3 DEF Searched, SearchFields
  <2> QED BY <2>4 DEF w
<1>2. CASE ~HasZero(wish)
  <2> DEFINE c == CheckModeSupported(wish, gop, barred)
             f == CheckModeSupported(Fallback, gop, barred)
  <2>1. /\ c.gop \in GopNumbers /\ (c.ok => c.mode \in GopNumbers /\ ResolutionOf(c.mode) = wish)
        /\ f.gop \in GopNumbers /\ (f.ok => f.mode \in GopNumbers /\ ResolutionOf(f.mode) = Fallback)
    <3>1. \A res : LET x == CheckModeSupported(res, gop, barred)
                   IN /\ x.gop \in GopNumbers
                      /\ x.ok => x.mode \in GopNumbers /\ ResolutionOf(x.mode) = res
      BY CheckedMode
    <3> QED BY <3>1, Zenon
  <2>2. w = IF c.ok THEN [ok |-> TRUE, set |-> TRUE, res |-> wish, mode |-> c.mode, gop |-> c.gop]
            ELSE IF f.ok THEN [ok |-> TRUE, set |-> TRUE, res |-> Fallback, mode |-> f.mode, gop |-> f.gop]
            ELSE [ok |-> TRUE, set |-> FALSE, res |-> ResolutionOf(gop), mode |-> gop, gop |-> gop]
    BY <1>2, Zenon DEF Wanted, FallbackMode
  <2> HIDE DEF c, f, w
  <2>3. Searched(w)
    BY <2>1, <2>2 DEF Searched, SearchFields
  <2> QED BY <2>3 DEF w
<1> QED BY <1>1, <1>2

LEMMA ChosenFacts ==
  ASSUME NEW wish, NEW gop \in GopNumbers, NEW barred, NEW g, g = Chosen(wish, gop, barred)
  PROVE  Searched(g) /\ (g.ok => g.gop = g.mode)
<1> DEFINE w == Wanted(wish, gop, barred)
<1>1. Searched(w)
  BY WantedFacts
<1>2. g = IF ~w.ok \/ (w.set /\ w.mode = w.gop) THEN w
          ELSE IF w.mode \in barred THEN [w EXCEPT !.ok = FALSE]
          ELSE [w EXCEPT !.gop = w.mode]
  BY Zenon DEF Chosen
<1> HIDE DEF w
<1> QED BY <1>1, <1>2 DEF Searched, SearchFields

-----------------------------------------------------------------------------
(* Consoles                                                                  *)

ConFields == {"modes", "res", "gopMode", "mode", "cursor", "attr", "visible",
              "lineBuffer", "gop", "text", "marks"}

(* A console that differs in its cursor and in what is on the screen only.   *)
Same(d, c) ==
  /\ DOMAIN d = ConFields
  /\ d.modes = c.modes /\ d.res = c.res /\ d.gopMode = c.gopMode /\ d.mode = c.mode
  /\ d.attr = c.attr /\ d.visible = c.visible /\ d.lineBuffer = c.lineBuffer /\ d.gop = c.gop

(* The cursor glyph that is to be seen.                                      *)
Expected(c) ==
  IF c.visible /\ Foreground(c.attr) # 0 /\ OnScreen(c, c.cursor, <<1, 1>>)
  THEN {<<c.cursor, Foreground(c.attr)>>} ELSE {}

Console(c) ==
  /\ DOMAIN c = ConFields
  /\ c.gopMode \in GopNumbers /\ c.gop \in GopNumbers /\ ResolutionOf(c.gopMode) = c.res
  /\ TextList(c.modes, MaxSize(c.res)) /\ MaxSize(c.res) \in ToSet(c.modes)
  /\ ValidMode(c.modes, c.mode)
  /\ c.attr \in Nat
  /\ c.mode # -1 => c.cursor \in Cells(c)

LEMMA SameScreen ==
  ASSUME NEW c, NEW d, Same(d, c)
  PROVE  /\ Size(d) = Size(c) /\ Columns(d) = Columns(c) /\ Rows(d) = Rows(c) /\ Cells(d) = Cells(c)
         /\ OwnScreen(d) = OwnScreen(c)
         /\ \A cell, block : OnScreen(d, cell, block) = OnScreen(c, cell, block)
<1>1. d.mode = c.mode /\ d.modes = c.modes /\ d.res = c.res /\ d.gop = c.gop
  BY DEF Same
<1>2. Size(d) = Size(c)
  BY <1>1, Zenon DEF Size
<1> QED BY <1>1, <1>2, Zenon DEF Columns, Rows, Cells, OwnScreen, OnScreen

LEMMA SameExpected ==
  ASSUME NEW c, NEW d, Same(d, c), d.cursor = c.cursor
  PROVE  Expected(d) = Expected(c)
<1>1. \A cell, block : OnScreen(d, cell, block) = OnScreen(c, cell, block)
  BY SameScreen
<1>2. d.visible = c.visible /\ d.attr = c.attr
  BY DEF Same
<1> QED BY <1>1, <1>2, Zenon DEF Expected

LEMMA SameTransitive ==
  ASSUME NEW c, NEW d, NEW e, Same(d, c), Same(e, d)
  PROVE  Same(e, c)
BY Zenon DEF Same

LEMMA SameConsole ==
  ASSUME NEW c, NEW d, Console(c), Same(d, c), d.mode # -1 => d.cursor \in Cells(c)
  PROVE  Console(d)
<1>1. Cells(d) = Cells(c)
  BY SameScreen
<1> QED BY <1>1, Zenon DEF Console, Same

(* What a text mode in force is like.                                        *)
LEMMA ModeInForce ==
  ASSUME NEW c, Console(c), c.mode # -1
  PROVE  /\ Usable(Size(c)) /\ Columns(c) \in Nat /\ Columns(c) >= 2 /\ Rows(c) \in Nat /\ Rows(c) >= 1
         /\ c.cursor \in Nat \X Nat /\ c.cursor[1] < Columns(c) /\ c.cursor[2] < Rows(c)
<1>1. c.mode \in 0..Len(c.modes) - 1 /\ c.modes[c.mode + 1] # NoSize
  BY DEF Console, ValidMode
<1>2. Usable(Size(c))
  <2>1. c.mode + 1 \in 1..Len(c.modes)
    BY <1>1
  <2> QED BY <1>1, <2>1 DEF Console, TextList, Size
<1>3. Columns(c) \in Nat /\ Columns(c) >= 2 /\ Rows(c) \in Nat /\ Rows(c) >= 1
  BY <1>2 DEF Usable, Columns, Rows
<1>4. c.cursor \in Cells(c)
  BY DEF Console
<1>5. c.cursor \in Nat \X Nat /\ c.cursor[1] < Columns(c) /\ c.cursor[2] < Rows(c)
  <2>1. c.cursor \in (0..Columns(c) - 1) \X (0..Rows(c) - 1)
    BY <1>4 DEF Cells
  <2> HIDE DEF Cells
  <2> QED BY <1>3, <2>1
<1> QED BY <1>2, <1>3, <1>5

(* A position with a column and a row of the window is a cell.               *)
LEMMA CellOf ==
  ASSUME NEW c, Console(c), c.mode # -1, NEW x \in Nat, NEW y \in Nat, x < Columns(c), y < Rows(c)
  PROVE  <<x, y>> \in Cells(c)
<1>1. Columns(c) \in Nat /\ Rows(c) \in Nat
  BY ModeInForce
<1>2. x \in 0..Columns(c) - 1 /\ y \in 0..Rows(c) - 1
  BY <1>1
<1> QED BY <1>2 DEF Cells

-----------------------------------------------------------------------------
(* Where the text window lies                                                *)

LEMMA Remainder ==
  ASSUME NEW w \in Nat \ {0}, NEW x \in Int
  PROVE  /\ 0 <= x /\ x < w => x % w = x
         /\ -w <= x /\ x < 0 => x % w = x + w
<1> QED OBVIOUS

(* A block of cells of the window is on the screen if the window is.         *)
LEMMA OnSide ==
  ASSUME NEW w \in Nat \ {0}, NEW need \in Nat, NEW have \in Nat, 4 * need <= w, 4 * have <= w,
         NEW a \in Nat, NEW b \in Nat, a + b <= need, b >= 1
  PROVE  ((a + ((have - need) % w) \div 2) % w) + b <= have <=> need <= have
<1> DEFINE r == (have - need) % w
           h == r \div 2
           p == (a + h) % w
<1>1. r = IF need <= have THEN have - need ELSE have - need + w
  <2>1. have - need \in Int
    OBVIOUS
  <2>2. need <= have => 0 <= have - need /\ have - need < w
    OBVIOUS
  <2>3. ~(need <= have) => -w <= have - need /\ have - need < 0
    OBVIOUS
  <2> QED BY <2>1, <2>2, <2>3, Remainder
<1>2. r \in Nat /\ r <= w
  BY <1>1
<1> HIDE DEF r
<1>3. h \in Nat /\ 2 * h <= r /\ r <= 2 * h + 1
  BY <1>2
<1> HIDE DEF h
<1>4. a + h \in Int /\ 0 <= a + h /\ a + h < w
  BY <1>1, <1>2, <1>3
<1>5. p = a + h
  BY <1>4, Remainder
<1> HIDE DEF p
<1>6. p + b <= have <=> need <= have
  BY <1>1, <1>3, <1>5
<1> QED BY <1>6 DEF p, h, r

Fits(c) == \A i \in 1..2 : Size(c)[i] * Glyph[i] <= c.res[i]

LEMMA WindowOnScreen ==
  ASSUME NEW c, Console(c), c.mode # -1, OwnScreen(c),
         NEW cell \in Nat \X Nat, NEW block \in (Nat \ {0}) \X (Nat \ {0}),
         cell[1] + block[1] <= Columns(c), cell[2] + block[2] <= Rows(c)
  PROVE  OnScreen(c, cell, block) <=> Fits(c)
<1> DEFINE pixel(i) == CellPixel(cell, Size(c), c.res)[i]
           have(i) == ResolutionOf(c.gop)[i]
<1>1. ASSUME NEW i \in 1..2
      PROVE  pixel(i) + block[i] * Glyph[i] <= have(i) <=> Size(c)[i] * Glyph[i] <= c.res[i]
  <2> DEFINE G == Glyph[i]
             s == Size(c)[i]
             k == cell[i]
             n == block[i]
             r == c.res[i]
  <2>1. G \in Nat \ {0} /\ s \in Nat /\ k \in Nat /\ n \in Nat \ {0} /\ k + n <= s
        /\ 4 * (s * G) <= Word
    <3>1. Glyph \in (Nat \ {0}) \X (Nat \ {0})
      BY GlyphAssumption
    <3>2. i = 1 \/ i = 2
      OBVIOUS
    <3>3. Usable(Size(c))
      BY ModeInForce
    <3> QED BY <3>1, <3>2, <3>3 DEF Usable, Columns, Rows
  <2>2. r \in Nat /\ 4 * r <= Word /\ have(i) = r
    <3>1. c.gop \in GopNumbers /\ ResolutionOf(c.gop) = c.res
      BY DEF Console, OwnScreen
    <3>2. c.gop + 1 \in 1..Len(GopModes) /\ GopModes \in Seq(Nat \X Nat)
      <4>1. GopModes \in Seq(Nat \X Nat) /\ Len(GopModes) \in Nat
        BY GopAssumption
      <4>2. c.gop \in 0..Len(GopModes) - 1
        BY <3>1 DEF GopNumbers
      <4>3. \A x \in 0..Len(GopModes) - 1 : x + 1 \in 1..Len(GopModes)
        BY <4>1
      <4> QED BY <4>1, <4>2, <4>3
    <3>3. GopModes[c.gop + 1] \in Nat \X Nat /\ c.res = GopModes[c.gop + 1]
      BY <3>1, <3>2 DEF ResolutionOf
    <3>4. 4 * GopModes[c.gop + 1][i] <= Word
      BY <3>2, RoomAssumption
    <3>5. c.res[i] \in Nat
      <4>1. i = 1 \/ i = 2
        OBVIOUS
      <4> QED BY <3>3, <4>1
    <3> QED BY <3>1, <3>3, <3>4, <3>5
  <2>3. pixel(i) = (k * G + Delta(r, s * G)) % Word
    BY DEF CellPixel
  <2> HIDE DEF G, s, k, n, r, pixel, have
  <2> DEFINE a == k * G
             b == n * G
             need == s * G
  <2>4. a \in Nat /\ b \in Nat /\ need \in Nat /\ b >= 1 /\ a + b <= need
    <3>1. G * (k + n) <= G * s
      BY <2>1, TimesMonotone
    <3>2. G * (k + n) = k * G + n * G /\ G * s = s * G /\ k * G \in Nat /\ n * G \in Nat /\ s * G \in Nat
      BY <2>1
    <3>3. G * 1 <= G * n
      BY <2>1, TimesMonotone
    <3>4. G * n = n * G /\ G * 1 = G
      BY <2>1
    <3> QED BY <2>1, <3>1, <3>2, <3>3, <3>4
  <2>5. Word \in Nat \ {0} /\ 4 * need <= Word
    BY <2>1, WordAssumption
  <2>6. pixel(i) = (a + ((r - need) % Word) \div 2) % Word
    BY <2>3 DEF Delta
  <2> HIDE DEF a, b, need
  <2>7. ((a + ((r - need) % Word) \div 2) % Word) + b <= r <=> need <= r
    BY <2>2, <2>4, <2>5, OnSide
  <2>8. pixel(i) + b <= have(i) <=> need <= r
    BY <2>2, <2>6, <2>7, Zenon
  <2> QED BY <2>8 DEF b, need, n, G, s, r
<1>2. OnScreen(c, cell, block) <=> \A i \in 1..2 : pixel(i) + block[i] * Glyph[i] <= have(i)
  BY Zenon DEF OnScreen
<1> HIDE DEF pixel, have
<1> QED BY <1>1, <1>2, Zenon DEF Fits

-----------------------------------------------------------------------------
(* FlushCursor, Draw and Scroll                                              *)

LEMMA Flushed ==
  ASSUME NEW c, DOMAIN c = ConFields, NEW d, d = FlushCursor(c)
  PROVE  /\ Same(d, c) /\ d.cursor = c.cursor
         /\ c.marks = {} => d.marks = Expected(c)
         /\ c.marks = Expected(c) => d.marks = {}
<1>1. Same(d, c) /\ d.cursor = c.cursor
  BY DEF FlushCursor, Same, ConFields
<1>2. CASE ~c.visible \/ Foreground(c.attr) = 0 \/ ~OnScreen(c, c.cursor, <<1, 1>>)
  BY <1>1, <1>2, Zenon DEF FlushCursor, Expected
<1>3. CASE ~(~c.visible \/ Foreground(c.attr) = 0 \/ ~OnScreen(c, c.cursor, <<1, 1>>))
  <2> DEFINE x == <<c.cursor, Foreground(c.attr)>>
  <2>1. d = [c EXCEPT !.marks = SymDiff(@, {x})]
    BY <1>3, Zenon DEF FlushCursor
  <2>2. Expected(c) = {x}
    BY <1>3, Zenon DEF Expected
  <2> HIDE DEF x
  <2>3. d.marks = SymDiff(c.marks, {x})
    BY <2>1 DEF ConFields
  <2> QED BY <1>1, <2>2, <2>3 DEF SymDiff
<1> QED BY <1>1, <1>2, <1>3

(* Two in a row change nothing on the screen.                                *)
LEMMA FlushedTwice ==
  ASSUME NEW c, DOMAIN c = ConFields, NEW d, d = FlushCursor(c), NEW e, e = FlushCursor(d)
  PROVE  Same(e, c) /\ e.cursor = c.cursor /\ e.marks = c.marks
<1>1. Same(d, c) /\ d.cursor = c.cursor /\ DOMAIN d = ConFields
  BY Flushed DEF Same
<1>2. Same(e, d) /\ e.cursor = d.cursor
  BY <1>1, Flushed
<1>3. d.visible = c.visible /\ d.attr = c.attr
      /\ OnScreen(d, d.cursor, <<1, 1>>) = OnScreen(c, c.cursor, <<1, 1>>)
  <2>1. \A cell, block : OnScreen(d, cell, block) = OnScreen(c, cell, block)
    BY <1>1, SameScreen
  <2> QED BY <1>1, <2>1, Zenon DEF Same
<1>4. CASE ~c.visible \/ Foreground(c.attr) = 0 \/ ~OnScreen(c, c.cursor, <<1, 1>>)
  <2>1. d = c /\ e = d
    BY <1>3, <1>4, Zenon DEF FlushCursor
  <2> QED BY <1>1, <2>1
<1>5. CASE ~(~c.visible \/ Foreground(c.attr) = 0 \/ ~OnScreen(c, c.cursor, <<1, 1>>))
  <2> DEFINE x == <<c.cursor, Foreground(c.attr)>>
  <2>1. d = [c EXCEPT !.marks = SymDiff(@, {x})]
    BY <1>5, Zenon DEF FlushCursor
  <2>2. e = [d EXCEPT !.marks = SymDiff(@, {x})]
    <3>1. ~(~d.visible \/ Foreground(d.attr) = 0 \/ ~OnScreen(d, d.cursor, <<1, 1>>))
      BY <1>3, <1>5, Zenon
    <3>2. x = <<d.cursor, Foreground(d.attr)>>
      BY <1>1, <1>3, Zenon
    <3> HIDE DEF x
    <3> QED BY <3>1, <3>2, Zenon DEF FlushCursor
  <2> HIDE DEF x
  <2>3. d.marks = SymDiff(c.marks, {x})
    BY <2>1 DEF ConFields
  <2>4. e.marks = SymDiff(d.marks, {x})
    BY <1>1, <2>2 DEF ConFields
  <2>5. e.marks = c.marks
    BY <2>3, <2>4 DEF SymDiff
  <2> QED BY <1>1, <1>2, <2>5, SameTransitive
<1> QED BY <1>4, <1>5

LEMMA Drew ==
  ASSUME NEW c, DOMAIN c = ConFields, NEW ch, NEW n, NEW draws, NEW d, d = Draw(c, ch, n, draws)
  PROVE  /\ Same(d, c) /\ d.cursor = c.cursor
         /\ c.marks = {} => d.marks = {}
BY DEF Draw, Same, ConFields

(* Drawing over the cursor glyph erases it.                                  *)
LEMMA DrewOver ==
  ASSUME NEW c, Console(c), c.mode # -1, OwnScreen(c), c.marks = Expected(c),
         NEW n \in Nat \ {0}, c.cursor[1] + n <= Columns(c),
         NEW ch, NEW d, d = Draw(c, ch, n, TRUE)
  PROVE  d.marks = {}
<1>1. /\ DOMAIN c = ConFields /\ c.cursor \in Nat \X Nat
      /\ c.cursor[1] + 1 <= Columns(c) /\ c.cursor[2] + 1 <= Rows(c)
  <2>1. Columns(c) \in Nat /\ Rows(c) \in Nat /\ c.cursor \in Nat \X Nat
        /\ c.cursor[1] < Columns(c) /\ c.cursor[2] < Rows(c)
    BY ModeInForce
  <2> QED BY <2>1 DEF Console
<1>2. OnScreen(c, c.cursor, <<1, 1>>) <=> Fits(c)
  <2>1. <<1, 1>> \in (Nat \ {0}) \X (Nat \ {0}) /\ <<1, 1>>[1] = 1 /\ <<1, 1>>[2] = 1
    OBVIOUS
  <2> DEFINE b == <<1, 1>>
  <2> HIDE DEF b
  <2>2. OnScreen(c, c.cursor, b) <=> Fits(c)
    BY <1>1, <2>1, WindowOnScreen DEF b
  <2> QED BY <2>2 DEF b
<1>3. OnScreen(c, c.cursor, <<n, 1>>) <=> Fits(c)
  <2> DEFINE b == <<n, 1>>
  <2>1. b \in (Nat \ {0}) \X (Nat \ {0}) /\ b[1] = n /\ b[2] = 1
    OBVIOUS
  <2> HIDE DEF b
  <2>2. OnScreen(c, c.cursor, b) <=> Fits(c)
    BY <1>1, <2>1, WindowOnScreen
  <2> QED BY <2>2 DEF b
<1>4. CASE ~OnScreen(c, c.cursor, <<n, 1>>)
  <2>1. c.marks = {}
    BY <1>2, <1>3, <1>4, Zenon DEF Expected
  <2> QED BY <1>1, <2>1, Drew
<1>5. CASE OnScreen(c, c.cursor, <<n, 1>>)
  <2> DEFINE block == {<<c.cursor[1] + k, c.cursor[2]>> : k \in 0..n - 1}
  <2>1. d = [c EXCEPT !.text  = [cell \in DOMAIN @ |-> IF cell \in block THEN ch ELSE @[cell]],
                      !.marks = {m \in @ : m[1] \notin block}]
    BY <1>5, Zenon DEF Draw
  <2>2. c.cursor \in block
    <3>1. 0 \in 0..n - 1 /\ c.cursor = <<c.cursor[1] + 0, c.cursor[2]>>
      BY <1>1
    <3> QED BY <3>1
  <2> HIDE DEF block
  <2>3. d.marks = {m \in c.marks : m[1] \notin block}
    BY <1>1, <2>1 DEF ConFields
  <2>4. \A m \in c.marks : m[1] = c.cursor
    BY DEF Expected
  <2> QED BY <2>2, <2>3, <2>4
<1> QED BY <1>4, <1>5

LEMMA Scrolled ==
  ASSUME NEW c, DOMAIN c = ConFields, NEW d, d = Scroll(c)
  PROVE  /\ Same(d, c) /\ d.cursor = c.cursor
         /\ c.marks = {} => d.marks = {}
BY DEF Scroll, Same, ConFields

-----------------------------------------------------------------------------
(* OutputString                                                              *)

(* The console c with the cursor anywhere up to the end of a row, and no     *)
(* cursor glyph if neat.                                                     *)
InRow(c, neat) ==
  /\ c.cursor \in Nat \X Nat /\ c.cursor[1] <= Columns(c) /\ c.cursor[2] < Rows(c)
  /\ neat => c.marks = {}

LEMMA CrLf ==
  ASSUME NEW c, Console(c), c.mode # -1, NEW d, Same(d, c), NEW neat \in BOOLEAN, InRow(d, neat),
         NEW e, e = CrLfString(FlushCursor(d)), NEW f, f = FlushCursor(e)
  PROVE  /\ Same(f, c) /\ f.cursor \in Cells(c) /\ f.cursor[1] = 0
         /\ neat => f.marks = {}
<1> DEFINE d1 == FlushCursor(d)
           d2 == FlushCursor(d1)
           d3 == CarriageReturn(d2)
           d4 == LineFeed(d3)
<1>1. e = FlushCursor(d4) /\ f = FlushCursor(FlushCursor(d4))
  BY Zenon DEF CrLfString
<1>2. DOMAIN d = ConFields
  BY DEF Same
<1>3. Same(d2, d) /\ d2.cursor = d.cursor /\ d2.marks = d.marks
  BY <1>2, FlushedTwice
<1> HIDE DEF d1, d2
<1>4. Columns(d2) = Columns(c) /\ Rows(d2) = Rows(c) /\ Same(d2, c)
  <2>1. Same(d2, c)
    BY <1>3, SameTransitive
  <2> QED BY <2>1, SameScreen
<1>5. /\ Columns(c) \in Nat /\ Columns(c) >= 2 /\ Rows(c) \in Nat /\ Rows(c) >= 1
  BY ModeInForce
<1>6. d2.cursor \in Nat \X Nat /\ d2.cursor[2] < Rows(c) /\ (neat => d2.marks = {})
  <2>1. Rows(d) = Rows(c)
    BY SameScreen
  <2> QED BY <1>3, <2>1 DEF InRow
<1>7. /\ Same(d3, c) /\ d3.cursor = <<0, d2.cursor[2]>> /\ d3.marks = d2.marks
  <2>1. DOMAIN d2 = ConFields
    BY <1>4 DEF Same
  <2>2. /\ Same(d3, d2) /\ d3.marks = d2.marks
    BY <2>1 DEF CarriageReturn, Same, ConFields
  <2>3. d3.cursor = <<0, d2.cursor[2]>>
    <3>1. d3.cursor = [d2.cursor EXCEPT ![1] = 0]
      BY <2>1 DEF CarriageReturn, ConFields
    <3> QED BY <1>6, <3>1
  <2> QED BY <1>4, <2>2, <2>3, SameTransitive
<1> HIDE DEF d3
<1>8. Rows(d3) = Rows(c) /\ DOMAIN d3 = ConFields
  <2>1. DOMAIN d3 = ConFields
    BY <1>7 DEF Same
  <2> QED BY <1>7, <2>1, SameScreen
<1>9. Same(d4, c) /\ d4.cursor \in Cells(c) /\ d4.cursor[1] = 0 /\ (neat => d4.marks = {})
  <2>1. CASE d3.cursor[2] = Rows(d3) - 1
    <3>1. d4 = Scroll(d3)
      BY <2>1, Zenon DEF LineFeed
    <3> HIDE DEF d4
    <3>2. Same(d4, d3) /\ d4.cursor = d3.cursor /\ (d3.marks = {} => d4.marks = {})
      BY <1>8, <3>1, Scrolled
    <3>3. <<0, d2.cursor[2]>> \in Cells(c)
      BY <1>5, <1>6, CellOf
    <3> QED BY <1>6, <1>7, <3>2, <3>3, SameTransitive
  <2>2. CASE d3.cursor[2] # Rows(d3) - 1
    <3>1. d4 = [d3 EXCEPT !.cursor[2] = @ + 1]
      BY <2>2, Zenon DEF LineFeed
    <3> HIDE DEF d4
    <3>2. Same(d4, d3) /\ d4.marks = d3.marks
      BY <1>8, <3>1 DEF Same, ConFields
    <3>3. d4.cursor = <<0, d2.cursor[2] + 1>>
      <4>1. d4.cursor = [d3.cursor EXCEPT ![2] = @ + 1]
        BY <1>8, <3>1 DEF ConFields
      <4> QED BY <1>6, <1>7, <4>1
    <3>4. <<0, d2.cursor[2] + 1>> \in Cells(c)
      <4>1. d2.cursor[2] \in Nat /\ d2.cursor[2] # Rows(c) - 1
        BY <1>6, <1>7, <1>8, <2>2
      <4>2. d2.cursor[2] + 1 \in Nat /\ d2.cursor[2] + 1 < Rows(c)
        BY <1>5, <1>6, <4>1
      <4> QED BY <1>5, <4>2, CellOf
    <3> QED BY <1>6, <1>7, <3>2, <3>3, <3>4, SameTransitive
  <2> QED BY <2>1, <2>2
<1> HIDE DEF d4
<1>10. DOMAIN d4 = ConFields
  BY <1>9 DEF Same
<1>11. Same(f, d4) /\ f.cursor = d4.cursor /\ f.marks = d4.marks
  BY <1>1, <1>10, FlushedTwice
<1> QED BY <1>9, <1>11, SameTransitive

LEMMA Wrapped ==
  ASSUME NEW c, Console(c), c.mode # -1, NEW d, Same(d, c), NEW neat \in BOOLEAN, InRow(d, neat),
         NEW e, e = Wrap(d)
  PROVE  /\ Same(e, c) /\ e.cursor \in Cells(c) /\ (d.cursor[1] >= Columns(c) => e.cursor[1] = 0)
         /\ neat => e.marks = {}
<1>1. Columns(d) = Columns(c) /\ Rows(d) = Rows(c)
  BY SameScreen
<1>2. Columns(c) \in Nat /\ Rows(c) \in Nat
  BY ModeInForce
<1>3. CASE d.cursor[1] >= Columns(d)
  <2>1. e = FlushCursor(CrLfString(FlushCursor(d)))
    BY <1>3, Zenon DEF Wrap
  <2> QED BY <2>1, CrLf
<1>4. CASE ~(d.cursor[1] >= Columns(d))
  <2>1. e = d
    BY <1>4, Zenon DEF Wrap
  <2>2. /\ d.cursor \in Nat \X Nat /\ d.cursor[1] < Columns(c) /\ d.cursor[2] < Rows(c)
        /\ d.cursor = <<d.cursor[1], d.cursor[2]>>
    BY <1>1, <1>2, <1>4 DEF InRow
  <2>3. d.cursor \in Cells(c)
    BY <2>2, CellOf
  <2> QED BY <1>1, <1>4, <2>1, <2>3 DEF InRow
<1> QED BY <1>3, <1>4

(* What printing a character leaves.                                         *)
Printed(e, c, neat) == Same(e, c) /\ e.cursor \in Cells(c) /\ (neat => e.marks = {})

(* A character that fills its row is followed by the next row.               *)
Advanced(d, n, c, e) == d.cursor[1] + n = Columns(c) => e.cursor[1] = 0

Drawable(d, c, draws, neat) ==
  neat => draws = TRUE /\ OwnScreen(c) /\ (d.marks = {} \/ d.marks = Expected(d))

(* A character that takes n cells, without or over the cursor glyph.         *)
LEMMA PutChar ==
  ASSUME NEW c, Console(c), c.mode # -1, NEW d, Same(d, c), d.cursor \in Cells(c),
         NEW n \in 1..2, d.cursor[1] + n <= Columns(c),
         NEW ch, NEW draws, NEW neat \in BOOLEAN, Drawable(d, c, draws, neat),
         NEW e, e = Wrap([Draw(d, ch, n, draws) EXCEPT !.cursor[1] = @ + n])
  PROVE  Printed(e, c, neat) /\ Advanced(d, n, c, e)
<1> DEFINE d1 == Draw(d, ch, n, draws)
           d2 == [d1 EXCEPT !.cursor[1] = @ + n]
<1>1. /\ DOMAIN d = ConFields /\ Columns(d) = Columns(c) /\ Rows(d) = Rows(c) /\ d.mode = c.mode
      /\ OwnScreen(d) = OwnScreen(c)
  <2>1. DOMAIN d = ConFields /\ d.mode = c.mode
    BY DEF Same
  <2> QED BY <2>1, SameScreen
<1>2. Console(d)
  BY <1>1, SameConsole
<1>3. d.cursor \in Nat \X Nat /\ d.cursor[2] < Rows(c) /\ Columns(c) \in Nat
  BY <1>1, <1>2, ModeInForce
<1>4. Same(d1, d) /\ d1.cursor = d.cursor /\ (d.marks = {} => d1.marks = {})
  BY <1>1, Drew
<1>5. neat => d1.marks = {}
  <2> SUFFICES ASSUME neat PROVE d1.marks = {}
    OBVIOUS
  <2>0. draws = TRUE /\ OwnScreen(c) /\ (d.marks = {} \/ d.marks = Expected(d))
    BY DEF Drawable
  <2>1. CASE d.marks = {}
    BY <1>4, <2>1
  <2>2. CASE d.marks = Expected(d)
    <3>1. n \in Nat \ {0} /\ d.cursor[1] + n <= Columns(d) /\ OwnScreen(d) /\ d1 = Draw(d, ch, n, TRUE)
      BY <1>1, <2>0
    <3> HIDE DEF d1
    <3> QED BY <1>1, <1>2, <2>2, <3>1, DrewOver
  <2> QED BY <2>0, <2>1, <2>2
<1> HIDE DEF d1
<1>6. DOMAIN d1 = ConFields
  BY <1>4 DEF Same
<1>7. Same(d2, d1) /\ d2.marks = d1.marks /\ d2.cursor = <<d.cursor[1] + n, d.cursor[2]>>
  <2>1. Same(d2, d1) /\ d2.marks = d1.marks /\ d2.cursor = [d1.cursor EXCEPT ![1] = @ + n]
    BY <1>6 DEF Same, ConFields
  <2> QED BY <1>3, <1>4, <2>1
<1> HIDE DEF d2
<1>8. Same(d2, c)
  BY <1>4, <1>7, SameTransitive
<1>9. InRow(d2, neat)
  <2>1. Columns(d2) = Columns(c) /\ Rows(d2) = Rows(c)
    BY <1>8, SameScreen
  <2>2. d2.cursor \in Nat \X Nat /\ d2.cursor[1] <= Columns(c) /\ d2.cursor[2] < Rows(c)
    BY <1>3, <1>7
  <2> QED BY <1>5, <1>7, <2>1, <2>2 DEF InRow
<1>10. e = Wrap(d2)
  BY DEF d1, d2
<1>11. d.cursor[1] + n = Columns(c) => d2.cursor[1] >= Columns(c)
  BY <1>3, <1>7
<1>12. /\ Same(e, c) /\ e.cursor \in Cells(c) /\ (d2.cursor[1] >= Columns(c) => e.cursor[1] = 0)
       /\ neat => e.marks = {}
  BY <1>8, <1>9, <1>10, Wrapped
<1> QED BY <1>11, <1>12 DEF Printed, Advanced

PrintedSpace(d, e, c, neat) ==
  /\ Same(e, c) /\ e.cursor \in Cells(c) /\ (d.cursor[1] + 1 = Columns(c) => e.cursor[1] = 0)
  /\ neat => e.marks = Expected(e)

(* A space over the cursor glyph, or where none is to be seen.               *)
LEMMA Spaced ==
  ASSUME NEW c, Console(c), c.mode # -1, NEW d, Same(d, c), d.cursor \in Cells(c),
         NEW draws, NEW neat \in BOOLEAN, neat => draws = TRUE /\ OwnScreen(c) /\ d.marks = {},
         NEW e, e = SpaceStr(d, draws)
  PROVE  PrintedSpace(d, e, c, neat)
<1> DEFINE d1 == FlushCursor(d)
           d2 == PutNarrow(d1, " ", draws)
<1>1. DOMAIN d = ConFields
  BY DEF Same
<1>2. Same(d1, d) /\ d1.cursor = d.cursor /\ (d.marks = {} => d1.marks = Expected(d))
  BY <1>1, Flushed
<1>3. e = FlushCursor(d2)
  BY Zenon DEF SpaceStr
<1>4. d2 = Wrap([Draw(d1, " ", 1, draws) EXCEPT !.cursor[1] = @ + 1])
  BY Zenon DEF PutNarrow
<1> HIDE DEF d1, d2
<1>5. Same(d1, c) /\ d1.cursor \in Cells(c) /\ (d.marks = {} => d1.marks = Expected(d1))
  BY <1>2, SameTransitive, SameExpected
<1>6. d1.cursor[1] + 1 <= Columns(c)
  <2>1. Console(d1) /\ d1.mode # -1 /\ Columns(d1) = Columns(c)
    <3>1. Columns(d1) = Columns(c)
      BY <1>5, SameScreen
    <3> QED BY <1>5, <3>1, SameConsole DEF Same
  <2>2. d1.cursor \in Nat \X Nat /\ d1.cursor[1] < Columns(c) /\ Columns(c) \in Nat
    BY <2>1, ModeInForce
  <2> QED BY <2>2
<1>7. /\ Same(d2, c) /\ d2.cursor \in Cells(c) /\ (neat => d2.marks = {})
      /\ d1.cursor[1] + 1 = Columns(c) => d2.cursor[1] = 0
  <2>1. Drawable(d1, c, draws, neat)
    BY <1>5 DEF Drawable
  <2>2. 1 \in 1..2
    OBVIOUS
  <2>3. Printed(d2, c, neat) /\ Advanced(d1, 1, c, d2)
    BY <1>4, <1>5, <1>6, <2>1, <2>2, PutChar
  <2> QED BY <2>3 DEF Printed, Advanced
<1>8. Same(e, d2) /\ e.cursor = d2.cursor /\ (d2.marks = {} => e.marks = Expected(d2))
  <2>1. DOMAIN d2 = ConFields
    BY <1>7 DEF Same
  <2> QED BY <1>3, <2>1, Flushed
<1>9. Same(e, c) /\ Expected(e) = Expected(d2)
  BY <1>7, <1>8, SameTransitive, SameExpected
<1> QED BY <1>2, <1>7, <1>8, <1>9 DEF PrintedSpace

LEMMA NarrowPut ==
  ASSUME NEW c, Console(c), c.mode # -1, NEW d, Same(d, c), d.cursor \in Cells(c),
         NEW ch, NEW draws, NEW neat \in BOOLEAN, neat => draws = TRUE /\ OwnScreen(c) /\ d.marks = {},
         NEW e, e = PutNarrow(d, ch, draws)
  PROVE  Printed(e, c, neat)
<1>1. d.cursor[1] + 1 <= Columns(c)
  <2>1. Console(d) /\ d.mode # -1 /\ Columns(d) = Columns(c)
    <3>1. Columns(d) = Columns(c)
      BY SameScreen
    <3> QED BY <3>1, SameConsole DEF Same
  <2>2. d.cursor \in Nat \X Nat /\ d.cursor[1] < Columns(c) /\ Columns(c) \in Nat
    BY <2>1, ModeInForce
  <2> QED BY <2>2
<1>2. e = Wrap([Draw(d, ch, 1, draws) EXCEPT !.cursor[1] = @ + 1])
  BY Zenon DEF PutNarrow
<1>3. 1 \in 1..2 /\ Drawable(d, c, draws, neat)
  BY DEF Drawable
<1> QED BY <1>1, <1>2, <1>3, PutChar

LEMMA WidePut ==
  ASSUME NEW c, Console(c), c.mode # -1, NEW d, Same(d, c), d.cursor \in Cells(c),
         NEW ch, NEW draws, NEW neat \in BOOLEAN, neat => draws = TRUE /\ OwnScreen(c) /\ d.marks = {},
         NEW e, e = PutWide(d, ch, draws)
  PROVE  Printed(e, c, neat)
<1> DEFINE sp == SpaceStr(d, draws)
           at == IF d.cursor[1] + 1 < Columns(d) THEN d ELSE Wrap(sp)
<1>1. /\ Console(d) /\ d.mode # -1 /\ Columns(d) = Columns(c) /\ Columns(c) \in Nat /\ Columns(c) >= 2
      /\ d.cursor \in Nat \X Nat /\ d.cursor[1] < Columns(c)
  <2>1. Console(d) /\ d.mode # -1 /\ Columns(d) = Columns(c)
    <3>1. Columns(d) = Columns(c)
      BY SameScreen
    <3> QED BY <3>1, SameConsole DEF Same
  <2> QED BY <2>1, ModeInForce
<1>2. e = Wrap([Draw(at, ch, 2, draws) EXCEPT !.cursor[1] = @ + 2])
  BY Zenon DEF PutWide
<1>3. /\ Same(at, c) /\ at.cursor \in Cells(c) /\ at.cursor[1] + 2 <= Columns(c)
      /\ Drawable(at, c, draws, neat)
  <2>1. CASE d.cursor[1] + 1 < Columns(d)
    <3>1. at = d
      BY <2>1
    <3> HIDE DEF at
    <3>2. d.cursor[1] + 2 <= Columns(c)
      BY <1>1, <2>1
    <3> QED BY <3>1, <3>2 DEF Drawable
  <2>2. CASE ~(d.cursor[1] + 1 < Columns(d))
    <3>1. at = Wrap(sp)
      BY <2>2
    <3> HIDE DEF at, sp
    <3>2. d.cursor[1] + 1 = Columns(c)
      BY <1>1, <2>2
    <3>3. sp = SpaceStr(d, draws)
      BY DEF sp
    <3>4. /\ Same(sp, c) /\ sp.cursor \in Cells(c) /\ sp.cursor[1] = 0
          /\ neat => sp.marks = Expected(sp)
      <4>1. PrintedSpace(d, sp, c, neat)
        BY <3>3, Spaced
      <4> QED BY <3>2, <4>1 DEF PrintedSpace
    <3>5. at = sp
      <4>1. Columns(sp) = Columns(c)
        BY <3>4, SameScreen
      <4>2. ~(sp.cursor[1] >= Columns(sp))
        BY <1>1, <3>4, <4>1
      <4> QED BY <3>1, <4>2, Zenon DEF Wrap
    <3> QED BY <1>1, <3>4, <3>5 DEF Drawable
  <2> QED BY <2>1, <2>2
<1> HIDE DEF at
<1>4. 2 \in 1..2
  OBVIOUS
<1> QED BY <1>2, <1>3, <1>4, PutChar

LEMMA BackedUp ==
  ASSUME NEW c, Console(c), c.mode # -1, NEW d, Same(d, c), d.cursor \in Cells(c),
         NEW draws, NEW neat \in BOOLEAN, neat => draws = TRUE /\ OwnScreen(c) /\ d.marks = {},
         NEW e, e = Backspace(d, draws)
  PROVE  Printed(e, c, neat)
<1> DEFINE before == IF d.cursor[1] > 0 THEN <<d.cursor[1] - 1, d.cursor[2]>>
                                        ELSE <<Columns(d) - 1, d.cursor[2] - 1>>
           d1 == [d EXCEPT !.cursor = before]
           d2 == SpaceStr(d1, draws)
           d3 == FlushCursor(d2)
<1>1. CASE d.cursor = Origin
  BY <1>1, Zenon DEF Backspace, Printed
<1>2. CASE d.cursor # Origin
  <2>1. e = [d3 EXCEPT !.cursor = before]
    BY <1>2, Zenon DEF Backspace
  <2>2. /\ DOMAIN d = ConFields /\ Columns(d) = Columns(c) /\ Columns(c) \in Nat /\ Columns(c) >= 2
        /\ Rows(c) \in Nat /\ d.cursor \in Nat \X Nat /\ d.cursor[1] < Columns(c) /\ d.cursor[2] < Rows(c)
    <3>1. Console(d) /\ d.mode # -1 /\ Columns(d) = Columns(c) /\ Rows(d) = Rows(c) /\ DOMAIN d = ConFields
      <4>1. Columns(d) = Columns(c) /\ Rows(d) = Rows(c)
        BY SameScreen
      <4> QED BY <4>1, SameConsole DEF Same
    <3> QED BY <3>1, ModeInForce
  <2>3. before \in Cells(c)
    <3>1. CASE d.cursor[1] > 0
      <4>1. d.cursor[1] - 1 \in Nat /\ d.cursor[1] - 1 < Columns(c) /\ d.cursor[2] \in Nat
        BY <2>2, <3>1
      <4> QED BY <2>2, <3>1, <4>1, CellOf
    <3>2. CASE ~(d.cursor[1] > 0)
      <4>1. d.cursor[2] # 0
        BY <1>2, <2>2, <3>2 DEF Origin
      <4>2. Columns(c) - 1 \in Nat /\ Columns(c) - 1 < Columns(c)
            /\ d.cursor[2] - 1 \in Nat /\ d.cursor[2] - 1 < Rows(c)
        BY <2>2, <4>1
      <4> QED BY <2>2, <3>2, <4>2, CellOf
    <3> QED BY <3>1, <3>2
  <2> HIDE DEF before
  <2>4. Same(d1, d) /\ d1.cursor = before /\ d1.marks = d.marks
    BY <2>2 DEF Same, ConFields
  <2>5. Same(d1, c)
    BY <2>4, SameTransitive
  <2> HIDE DEF d1
  <2>6. PrintedSpace(d1, d2, c, neat)
    <3>1. d1.cursor \in Cells(c) /\ (neat => draws = TRUE /\ OwnScreen(c) /\ d1.marks = {})
      BY <2>3, <2>4
    <3> QED BY <2>5, <3>1, Spaced
  <2> HIDE DEF d2
  <2>7. Same(d2, c) /\ DOMAIN d2 = ConFields /\ (neat => d2.marks = Expected(d2))
    BY <2>6 DEF PrintedSpace, Same
  <2>8. Same(d3, d2) /\ (d2.marks = Expected(d2) => d3.marks = {})
    BY <2>7, Flushed
  <2> HIDE DEF d3
  <2>9. Same(e, d3) /\ e.cursor = before /\ e.marks = d3.marks
    BY <2>1, <2>8 DEF Same, ConFields
  <2>10. Same(e, c)
    BY <2>7, <2>8, <2>9, SameTransitive
  <2> QED BY <2>3, <2>7, <2>8, <2>9, <2>10 DEF Printed
<1> QED BY <1>1, <1>2

LEMMA LineFed ==
  ASSUME NEW c, Console(c), c.mode # -1, NEW d, Same(d, c), d.cursor \in Cells(c),
         NEW neat \in BOOLEAN, neat => d.marks = {},
         NEW e, e = LineFeed(d)
  PROVE  Printed(e, c, neat)
<1>1. /\ DOMAIN d = ConFields /\ Rows(d) = Rows(c) /\ Columns(c) \in Nat
      /\ Rows(c) \in Nat /\ d.cursor \in Nat \X Nat /\ d.cursor[1] < Columns(c) /\ d.cursor[2] < Rows(c)
  <2>1. Console(d) /\ d.mode # -1 /\ Columns(d) = Columns(c) /\ Rows(d) = Rows(c) /\ DOMAIN d = ConFields
    <3>1. Columns(d) = Columns(c) /\ Rows(d) = Rows(c)
      BY SameScreen
    <3> QED BY <3>1, SameConsole DEF Same
  <2> QED BY <2>1, ModeInForce
<1>2. CASE d.cursor[2] = Rows(d) - 1
  <2>1. e = Scroll(d)
    BY <1>2, Zenon DEF LineFeed
  <2> QED BY <1>1, <2>1, Scrolled, SameTransitive DEF Printed
<1>3. CASE d.cursor[2] # Rows(d) - 1
  <2>1. e = [d EXCEPT !.cursor[2] = @ + 1]
    BY <1>3, Zenon DEF LineFeed
  <2>2. Same(e, d) /\ e.marks = d.marks /\ e.cursor = [d.cursor EXCEPT ![2] = @ + 1]
    BY <1>1, <2>1 DEF Same, ConFields
  <2>3. e.cursor = <<d.cursor[1], d.cursor[2] + 1>>
    BY <1>1, <2>2
  <2>4. d.cursor[1] \in Nat /\ d.cursor[2] + 1 \in Nat /\ d.cursor[2] + 1 < Rows(c)
    BY <1>1, <1>3
  <2>5. e.cursor \in Cells(c)
    BY <1>1, <2>3, <2>4, CellOf
  <2> QED BY <2>2, <2>5, SameTransitive DEF Printed
<1> QED BY <1>2, <1>3

LEMMA Returned ==
  ASSUME NEW c, Console(c), c.mode # -1, NEW d, Same(d, c), d.cursor \in Cells(c),
         NEW neat \in BOOLEAN, neat => d.marks = {},
         NEW e, e = CarriageReturn(d)
  PROVE  Printed(e, c, neat)
<1>1. /\ DOMAIN d = ConFields /\ Columns(c) \in Nat /\ Columns(c) >= 2
      /\ Rows(c) \in Nat /\ d.cursor \in Nat \X Nat /\ d.cursor[2] < Rows(c)
  <2>1. Console(d) /\ d.mode # -1 /\ Columns(d) = Columns(c) /\ Rows(d) = Rows(c) /\ DOMAIN d = ConFields
    <3>1. Columns(d) = Columns(c) /\ Rows(d) = Rows(c)
      BY SameScreen
    <3> QED BY <3>1, SameConsole DEF Same
  <2> QED BY <2>1, ModeInForce
<1>2. Same(e, d) /\ e.marks = d.marks /\ e.cursor = [d.cursor EXCEPT ![1] = 0]
  BY <1>1 DEF CarriageReturn, Same, ConFields
<1>3. e.cursor = <<0, d.cursor[2]>>
  BY <1>1, <1>2
<1>4. 0 \in Nat /\ d.cursor[2] \in Nat /\ 0 < Columns(c)
  BY <1>1
<1>5. e.cursor \in Cells(c)
  BY <1>1, <1>3, <1>4, CellOf
<1> QED BY <1>2, <1>5, SameTransitive DEF Printed

LEMMA PutKeeps ==
  ASSUME NEW c, Console(c), c.mode # -1, NEW draws, NEW neat \in BOOLEAN,
         neat => draws = TRUE /\ OwnScreen(c),
         NEW d, Printed(d, c, neat), NEW wide, NEW ch,
         NEW e, e = Put(d, wide, ch, draws)
  PROVE  Printed(e.con, c, neat)
<1>0. /\ Same(d, c) /\ d.cursor \in Cells(c) /\ (neat => d.marks = {})
      /\ neat => draws = TRUE /\ OwnScreen(c) /\ d.marks = {}
  BY DEF Printed
<1>1. CASE ch = "BACKSPACE"
  <2>1. e.con = Backspace(d, draws)
    BY <1>1 DEF Put
  <2> QED BY <1>0, <2>1, BackedUp
<1>2. CASE ch = "LINEFEED"
  <2>1. e.con = LineFeed(d)
    BY <1>2 DEF Put
  <2> QED BY <1>0, <2>1, LineFed
<1>3. CASE ch = "CARRIAGE_RETURN"
  <2>1. e.con = CarriageReturn(d)
    BY <1>3 DEF Put
  <2> QED BY <1>0, <2>1, Returned
<1>4. CASE ch \in {"WIDE_CHAR", "NARROW_CHAR"}
  <2>1. e.con = d
    BY <1>4 DEF Put
  <2> QED BY <2>1
<1>5. CASE ch \notin Controls
  <2>1. e.con = IF wide THEN PutWide(d, ch, draws) ELSE PutNarrow(d, ch, draws)
    BY <1>5 DEF Put, Controls
  <2>2. CASE wide
    BY <1>0, <2>1, <2>2, WidePut
  <2>3. CASE ~wide
    BY <1>0, <2>1, <2>3, NarrowPut
  <2> QED BY <2>2, <2>3
<1> QED BY <1>1, <1>2, <1>3, <1>4, <1>5 DEF Controls

(* The function that OutputString folds with.                                *)
PutFold(g, base, seq, draws, n) ==
  g = [s \in SUBSET (1..n) |-> IF s = {} THEN base
                               ELSE Put(g[s \ {Max(s)}].con, g[s \ {Max(s)}].wide, seq[Max(s)], draws)]

LEMMA PutFoldExists ==
  ASSUME NEW base, NEW seq, NEW draws, NEW n \in Nat
  PROVE  \E g : PutFold(g, base, seq, draws, n)
<1> DEFINE T == {m \in Nat : \E g : PutFold(g, base, seq, draws, m)}
<1>1. 0 \in T
  <2> DEFINE g == [s \in SUBSET (1..0) |-> base]
  <2>1. \A s \in SUBSET (1..0) : s = {}
    OBVIOUS
  <2>2. g = [s \in SUBSET (1..0) |-> IF s = {} THEN base
                                    ELSE Put(g[s \ {Max(s)}].con, g[s \ {Max(s)}].wide, seq[Max(s)], draws)]
    BY <2>1, Zenon
  <2>3. PutFold(g, base, seq, draws, 0)
    BY <2>2, Zenon DEF PutFold
  <2> QED BY <2>3
<1>2. ASSUME NEW m \in Nat, m \in T PROVE m + 1 \in T
  <2>1. PICK g : PutFold(g, base, seq, draws, m)
    BY <1>2
  <2> DEFINE S == SUBSET (1..m + 1)
             h == [s \in S |-> IF m + 1 \in s THEN Put(g[s \ {m + 1}].con, g[s \ {m + 1}].wide, seq[m + 1], draws)
                               ELSE g[s]]
             v(s) == IF s = {} THEN base ELSE Put(h[s \ {Max(s)}].con, h[s \ {Max(s)}].wide, seq[Max(s)], draws)
  <2>2. \A s \in S : m + 1 \notin s => s \in SUBSET (1..m)
    <3>1. \A x \in 1..m + 1 : x # m + 1 => x \in 1..m
      OBVIOUS
    <3> QED BY <3>1
  <2>3. \A s \in SUBSET (1..m) : s \in S /\ m + 1 \notin s
    <3>1. \A x \in 1..m : x \in 1..m + 1 /\ x # m + 1
      OBVIOUS
    <3> QED BY <3>1
  <2>4. \A s \in SUBSET (1..m) : h[s] = g[s]
    BY <2>3, Zenon
  <2>5. ASSUME NEW s \in S PROVE h[s] = v(s)
    <3>1. CASE m + 1 \in s
      <4>1. Max(s) = m + 1 /\ s \ {m + 1} \in SUBSET (1..m) /\ s # {}
        BY <3>1, LargestIs
      <4>2. h[s] = Put(g[s \ {m + 1}].con, g[s \ {m + 1}].wide, seq[m + 1], draws)
        BY <3>1, Zenon
      <4>3. h[s \ {m + 1}] = g[s \ {m + 1}]
        BY <2>4, <4>1, Zenon
      <4> HIDE DEF h
      <4> QED BY <4>1, <4>2, <4>3, Zenon
    <3>2. CASE m + 1 \notin s
      <4>1. s \in SUBSET (1..m)
        BY <2>2, <3>2, Zenon
      <4>2. h[s] = g[s]
        BY <2>4, <4>1, Zenon
      <4>3. g[s] = IF s = {} THEN base ELSE Put(g[s \ {Max(s)}].con, g[s \ {Max(s)}].wide, seq[Max(s)], draws)
        BY <2>1, <4>1, Zenon DEF PutFold
      <4>4. h[s \ {Max(s)}] = g[s \ {Max(s)}]
        <5>1. s \ {Max(s)} \in SUBSET (1..m)
          BY <4>1, Zenon
        <5> HIDE DEF h
        <5> QED BY <2>4, <5>1, Zenon
      <4> HIDE DEF h
      <4> QED BY <4>2, <4>3, <4>4, Zenon
    <3> QED BY <3>1, <3>2, Zenon
  <2>6. h = [s \in S |-> v(s)]
    <3>1. h = [s \in S |-> h[s]]
      BY Zenon
    <3> HIDE DEF h
    <3> QED BY <2>5, <3>1, Zenon
  <2>7. PutFold(h, base, seq, draws, m + 1)
    <3> HIDE DEF h
    <3> QED BY <2>6, Zenon DEF PutFold
  <2> QED BY <2>7
<1> HIDE DEF T
<1>3. n \in T
  BY <1>1, <1>2, SetInduction
<1> QED BY <1>3 DEF T

PutRun(g, base, seq, draws, n) ==
  /\ g[1..0] = base
  /\ \A k \in 0..n - 1 : g[1..k + 1] = Put(g[1..k].con, g[1..k].wide, seq[k + 1], draws)

LEMMA PutFoldSteps ==
  ASSUME NEW base, NEW seq, NEW draws, NEW n \in Nat, NEW g, PutFold(g, base, seq, draws, n)
  PROVE  PutRun(g, base, seq, draws, n)
<1>1. g[1..0] = base
  <2>1. 1..0 = {} /\ {} \in SUBSET (1..n)
    OBVIOUS
  <2>2. g[{}] = base
    BY <2>1, Zenon DEF PutFold
  <2> QED BY <2>1, <2>2
<1>2. ASSUME NEW k \in 0..n - 1 PROVE g[1..k + 1] = Put(g[1..k].con, g[1..k].wide, seq[k + 1], draws)
  <2> DEFINE s == 1..k + 1
  <2>1. k \in Nat /\ s \in SUBSET (1..n) /\ s \in SUBSET (1..k + 1) /\ k + 1 \in s /\ s # {}
    OBVIOUS
  <2>2. s \ {k + 1} = 1..k
    OBVIOUS
  <2> HIDE DEF s
  <2>3. Max(s) = k + 1
    BY <2>1, LargestIs
  <2>4. g[s] = Put(g[s \ {Max(s)}].con, g[s \ {Max(s)}].wide, seq[Max(s)], draws)
    BY <2>1, Zenon DEF PutFold
  <2>5. g[s] = Put(g[1..k].con, g[1..k].wide, seq[k + 1], draws)
    BY <2>2, <2>3, <2>4, Zenon
  <2> QED BY <2>5 DEF s
<1> QED BY <1>1, <1>2 DEF PutRun

LEMMA StringPut ==
  ASSUME NEW c, Console(c), c.mode # -1, NEW draws, NEW neat \in BOOLEAN,
         neat => draws = TRUE /\ OwnScreen(c) /\ c.marks = Expected(c),
         NEW str \in Seq(STRING), NEW d, d = OutputStringFn(c, str, draws)
  PROVE  /\ Same(d, c) /\ d.cursor \in Cells(c)
         /\ neat => d.marks = Expected(d)
<1> DEFINE base == [con |-> FlushCursor(c), wide |-> FALSE]
           n == Len(str)
           g == CHOOSE f : PutFold(f, base, str, draws, n)
<1>1. n \in Nat /\ DOMAIN str = 1..n
  OBVIOUS
<1>2. Printed(base.con, c, neat)
  <2> DEFINE c1 == FlushCursor(c)
  <2>1. Same(c1, c) /\ c1.cursor = c.cursor /\ (c.marks = Expected(c) => c1.marks = {})
    BY Flushed DEF Console
  <2> HIDE DEF c1
  <2>2. base.con = c1
    BY DEF c1
  <2> HIDE DEF base
  <2> QED BY <2>1, <2>2 DEF Printed, Console
<1> HIDE DEF n, base
<1>3. PutFold(g, base, str, draws, n)
  BY <1>1, PutFoldExists
<1>4. d = FlushCursor(g[1..n].con)
  BY <1>1, Zenon DEF OutputStringFn, base, FoldLeft, MapThenFoldSet, PutFold
<1> HIDE DEF g
<1>5. PutRun(g, base, str, draws, n)
  BY <1>1, <1>3, PutFoldSteps, Zenon
<1> DEFINE T == {k \in Nat : k <= n => Printed(g[1..k].con, c, neat)}
<1>6. 0 \in T
  BY <1>2, <1>5 DEF PutRun
<1>7. ASSUME NEW k \in Nat, k \in T PROVE k + 1 \in T
  <2> SUFFICES ASSUME k + 1 <= n PROVE Printed(g[1..k + 1].con, c, neat)
    OBVIOUS
  <2>1. k \in 0..n - 1
    BY <1>1
  <2>2. g[1..k + 1] = Put(g[1..k].con, g[1..k].wide, str[k + 1], draws)
    BY <1>5, <2>1, Zenon DEF PutRun
  <2>3. Printed(g[1..k].con, c, neat)
    BY <1>1, <1>7, <2>1
  <2>4. neat => draws = TRUE /\ OwnScreen(c)
    OBVIOUS
  <2> QED BY <2>2, <2>3, <2>4, PutKeeps
<1> HIDE DEF T
<1>8. n \in T
  BY <1>1, <1>6, <1>7, SetInduction
<1> DEFINE e == g[1..n].con
<1>9. Printed(e, c, neat)
  BY <1>1, <1>8 DEF T
<1> HIDE DEF e
<1>10. d = FlushCursor(e)
  BY <1>4 DEF e
<1>11. Same(d, e) /\ d.cursor = e.cursor /\ (e.marks = {} => d.marks = Expected(e))
  BY <1>9, <1>10, Flushed DEF Printed, Same
<1>12. Expected(d) = Expected(e) /\ Same(d, c)
  BY <1>9, <1>11, SameExpected, SameTransitive DEF Printed
<1> QED BY <1>9, <1>11, <1>12 DEF Printed

-----------------------------------------------------------------------------
(* The other functions                                                       *)

(* The first cell is in every window.                                        *)
LEMMA OriginCell ==
  ASSUME NEW c, Usable(Size(c)) PROVE Origin \in Cells(c)
<1>1. Columns(c) \in Nat /\ Columns(c) >= 2 /\ Rows(c) \in Nat /\ Rows(c) >= 1
  BY DEF Usable, Columns, Rows
<1>2. 0 \in 0..Columns(c) - 1 /\ 0 \in 0..Rows(c) - 1
  BY <1>1
<1> QED BY <1>2 DEF Cells, Origin

LEMMA Cleared ==
  ASSUME NEW c, Console(c), c.mode # -1, NEW d, d = ClearScreenFn(c).con
  PROVE  /\ Same(d, c) /\ d.cursor \in Cells(c)
         /\ OwnScreen(c) => d.marks = Expected(d) /\ ClearScreenFn(c).status = "SUCCESS"
<1> DEFINE fits  == FitsIn(c.res, ResolutionOf(c.gop))
           clear == IF fits THEN [c EXCEPT !.text = Filled(c, " "), !.marks = {}] ELSE c
           moved == [clear EXCEPT !.cursor = Origin]
<1>1. d = FlushCursor(moved) /\ ClearScreenFn(c).status = (IF fits THEN "SUCCESS" ELSE "DEVICE_ERROR")
  BY DEF ClearScreenFn
<1>2. DOMAIN c = ConFields
  BY DEF Console
<1>3. OwnScreen(c) => fits
  <2>1. c.gop + 1 \in 1..Len(GopModes)
    <3>1. Len(GopModes) \in Nat /\ c.gop \in 0..Len(GopModes) - 1
      BY GopAssumption DEF Console, GopNumbers
    <3>2. \A x \in 0..Len(GopModes) - 1 : x + 1 \in 1..Len(GopModes)
      BY <3>1
    <3> QED BY <3>1, <3>2
  <2>2. ResolutionOf(c.gop) \in Nat \X Nat
    BY <2>1, GopAssumption DEF ResolutionOf
  <2>3. FitsIn(ResolutionOf(c.gop), ResolutionOf(c.gop))
    BY <2>2 DEF FitsIn
  <2> QED BY <2>3, Zenon DEF OwnScreen
<1> HIDE DEF fits
<1>4. Same(clear, c) /\ (fits => clear.marks = {})
  BY <1>2 DEF Same, ConFields
<1> HIDE DEF clear
<1>5. Same(moved, clear) /\ moved.cursor = Origin /\ moved.marks = clear.marks
  BY <1>4 DEF Same, ConFields
<1> HIDE DEF moved
<1>6. Same(moved, c)
  BY <1>4, <1>5, SameTransitive
<1>7. Same(d, moved) /\ d.cursor = Origin /\ (fits => d.marks = Expected(moved))
  <2>1. DOMAIN moved = ConFields
    BY <1>6 DEF Same
  <2> QED BY <1>1, <1>4, <1>5, <2>1, Flushed
<1>8. Same(d, c) /\ Expected(d) = Expected(moved)
  BY <1>5, <1>6, <1>7, SameTransitive, SameExpected
<1>9. Origin \in Cells(c)
  BY ModeInForce, OriginCell
<1> QED BY <1>1, <1>3, <1>7, <1>8, <1>9

(* A change between two toggles of the cursor: fields other than those in    *)
(* Fixed may change.                                                         *)
LEMMA Toggled ==
  ASSUME NEW c, DOMAIN c = ConFields, NEW d1, d1 = FlushCursor(c),
         NEW d2, DOMAIN d2 = ConFields, d2.marks = d1.marks, NEW d, d = FlushCursor(d2)
  PROVE  /\ Same(d1, c) /\ d1.cursor = c.cursor /\ Same(d, d2) /\ d.cursor = d2.cursor
         /\ c.marks = Expected(c) => d.marks = Expected(d)
<1>1. Same(d1, c) /\ d1.cursor = c.cursor /\ (c.marks = Expected(c) => d1.marks = {})
  BY Flushed
<1>2. Same(d, d2) /\ d.cursor = d2.cursor /\ (d2.marks = {} => d.marks = Expected(d2))
  BY Flushed
<1>3. Expected(d) = Expected(d2)
  BY <1>2, SameExpected
<1> QED BY <1>1, <1>2, <1>3

LEMMA Coloured ==
  ASSUME NEW c, Console(c), NEW a \in Nat, NEW d, d = SetAttributeFn(c, a)
  PROVE  /\ Console(d) /\ d.mode = c.mode /\ d.gop = c.gop /\ d.res = c.res
         /\ c.marks = Expected(c) => d.marks = Expected(d)
<1>1. CASE a = c.attr
  BY <1>1 DEF SetAttributeFn
<1>2. CASE a # c.attr
  <2> DEFINE d1 == FlushCursor(c)
             d2 == [d1 EXCEPT !.attr = a]
  <2>1. d = FlushCursor(d2)
    BY <1>2, Zenon DEF SetAttributeFn
  <2>2. DOMAIN c = ConFields
    BY DEF Console
  <2>3. Same(d1, c) /\ d1.cursor = c.cursor
    BY <2>2, Flushed
  <2> HIDE DEF d1
  <2>4. /\ DOMAIN d2 = ConFields /\ d2.marks = d1.marks /\ d2.cursor = c.cursor /\ d2.attr = a
        /\ d2.modes = c.modes /\ d2.res = c.res /\ d2.gopMode = c.gopMode /\ d2.mode = c.mode
        /\ d2.gop = c.gop
    BY <2>3 DEF Same, ConFields
  <2> HIDE DEF d2
  <2>5. Same(d, d2) /\ d.cursor = d2.cursor /\ (c.marks = Expected(c) => d.marks = Expected(d))
    BY <2>1, <2>2, <2>4, Toggled DEF d1
  <2>6. Cells(d2) = Cells(c)
    BY <2>4, Zenon DEF Cells, Columns, Rows, Size
  <2>7. Console(d2)
    BY <2>4, <2>6 DEF Console
  <2>8. Console(d)
    <3>1. d.mode # -1 => d.cursor \in Cells(d2)
      BY <2>5, <2>7 DEF Console, Same
    <3> QED BY <2>5, <2>7, <3>1, SameConsole
  <2> QED BY <2>4, <2>5, <2>8 DEF Same
<1> QED BY <1>1, <1>2

(* What a call leaves of a console, and of its cursor if it was shown right. *)
Shown(c) == c.mode # -1 /\ OwnScreen(c) /\ c.marks = Expected(c)

LEMMA CommittedFacts ==
  ASSUME NEW c, DOMAIN c = ConFields, Console([c EXCEPT !.mode = -1]),
         NEW n \in 0..Len(c.modes) - 1, c.modes[n + 1] # NoSize, NEW d, d = Committed(c, n)
  PROVE  Console(d) /\ Shown(d)
<1> DEFINE moved == [c EXCEPT !.gop = c.gopMode, !.mode = n, !.cursor = Origin]
           d1 == [moved EXCEPT !.text = Filled(moved, " "), !.marks = {}]
           b == [c EXCEPT !.mode = -1]
<1>1. d = FlushCursor(d1)
  BY Zenon DEF Committed
<1>2. /\ b.modes = c.modes /\ b.res = c.res /\ b.gopMode = c.gopMode /\ b.gop = c.gop /\ b.attr = c.attr
  BY DEF ConFields
<1>3. Console(b)
  OBVIOUS
<1> HIDE DEF b
<1>4. /\ c.gopMode \in GopNumbers /\ ResolutionOf(c.gopMode) = c.res
      /\ TextList(c.modes, MaxSize(c.res)) /\ MaxSize(c.res) \in ToSet(c.modes) /\ c.attr \in Nat
  BY <1>2, <1>3 DEF Console
<1>5. /\ DOMAIN d1 = ConFields /\ d1.modes = c.modes /\ d1.res = c.res /\ d1.gopMode = c.gopMode
      /\ d1.gop = c.gopMode /\ d1.mode = n /\ d1.cursor = Origin /\ d1.attr = c.attr /\ d1.marks = {}
  <2>1. /\ DOMAIN moved = ConFields /\ moved.modes = c.modes /\ moved.res = c.res
        /\ moved.gopMode = c.gopMode /\ moved.gop = c.gopMode /\ moved.mode = n
        /\ moved.cursor = Origin /\ moved.attr = c.attr
    BY DEF ConFields
  <2> HIDE DEF moved
  <2> QED BY <2>1 DEF ConFields
<1> HIDE DEF d1
<1>6. Usable(Size(d1)) /\ n # -1
  <2>1. n # -1 /\ n + 1 \in 1..Len(c.modes)
    <3>1. Len(c.modes) \in Nat
      BY <1>4 DEF TextList
    <3> QED BY <3>1
  <2>2. Usable(c.modes[n + 1])
    BY <1>4, <2>1 DEF TextList
  <2> QED BY <1>5, <2>1, <2>2 DEF Size
<1>7. Console(d1)
  <2>1. d1.cursor \in Cells(d1)
    BY <1>5, <1>6, OriginCell
  <2>2. ValidMode(d1.modes, d1.mode)
    BY <1>5 DEF ValidMode
  <2> QED BY <1>4, <1>5, <2>1, <2>2 DEF Console
<1>8. Same(d, d1) /\ d.cursor = d1.cursor /\ d.marks = Expected(d1)
  BY <1>1, <1>5, Flushed
<1>9. Console(d) /\ Expected(d) = Expected(d1)
  <2>1. d.mode # -1 => d.cursor \in Cells(d1)
    BY <1>5, <1>6, <1>7, <1>8 DEF Console
  <2> QED BY <1>7, <1>8, <2>1, SameConsole, SameExpected
<1>10. d.mode # -1 /\ OwnScreen(d)
  BY <1>4, <1>5, <1>6, <1>8 DEF Same, OwnScreen
<1> QED BY <1>8, <1>9, <1>10 DEF Shown

(* Where the call fails nothing is promised of the cursor.                   *)
LEMMA ModeSet ==
  ASSUME NEW c, Console(c), NEW n \in Nat, NEW alloc \in BOOLEAN, NEW accepts \in BOOLEAN,
         NEW r, r = SetModeFn(c, n, alloc, accepts)
  PROVE  /\ Console(r.con)
         /\ r.status \in {"SUCCESS", "UNSUPPORTED", "OUT_OF_RESOURCES", "DEVICE_ERROR"}
         /\ r.status = "UNSUPPORTED" => r.con = c
         /\ r.status = "SUCCESS" => (OwnScreen(r.con) \/ Shown(c) => Shown(r.con))
<1> DEFINE flushed == FlushCursor(c)
           freed  == [flushed EXCEPT !.lineBuffer = "freed"]
           erased == IF c.lineBuffer = "none" THEN c ELSE freed
           ready  == [erased EXCEPT !.lineBuffer = "live"]
<1>1. CASE n >= Len(c.modes) \/ c.modes[n + 1] = NoSize
  <2>1. r = [con |-> c, status |-> "UNSUPPORTED"]
    BY <1>1, Zenon DEF SetModeFn
  <2> QED BY <2>1
<1>2. CASE ~(n >= Len(c.modes) \/ c.modes[n + 1] = NoSize) /\ c.lineBuffer # "none" /\ n = c.mode
  <2> DEFINE d == ClearScreenFn(c).con
  <2>1. r = [con |-> d, status |-> "SUCCESS"]
    BY <1>2, Zenon DEF SetModeFn
  <2>2. c.mode # -1
    BY <1>2
  <2>3. Same(d, c) /\ d.cursor \in Cells(c) /\ (OwnScreen(c) => d.marks = Expected(d))
    BY <2>2, Cleared
  <2> HIDE DEF d
  <2>4. Console(d)
    BY <2>3, SameConsole
  <2>5. OwnScreen(d) = OwnScreen(c) /\ d.mode = c.mode
    BY <2>3, SameScreen DEF Same
  <2> QED BY <2>1, <2>2, <2>3, <2>4, <2>5 DEF Shown
<1>3. CASE ~(n >= Len(c.modes) \/ c.modes[n + 1] = NoSize) /\ ~(c.lineBuffer # "none" /\ n = c.mode)
  <2>1. r = IF ~alloc THEN [con |-> erased, status |-> "OUT_OF_RESOURCES"]
            ELSE IF c.gop # c.gopMode /\ ~accepts THEN [con |-> ready, status |-> "DEVICE_ERROR"]
            ELSE [con |-> Committed(ready, n), status |-> "SUCCESS"]
    BY <1>3, Zenon DEF SetModeFn
  <2>2. DOMAIN c = ConFields
    BY DEF Console
  <2>3. Same(flushed, c) /\ flushed.cursor = c.cursor
    BY <2>2, Flushed
  <2> HIDE DEF flushed
  <2>4. /\ DOMAIN freed = ConFields /\ freed.cursor = c.cursor /\ freed.modes = c.modes
        /\ freed.res = c.res /\ freed.gopMode = c.gopMode /\ freed.mode = c.mode
        /\ freed.attr = c.attr /\ freed.gop = c.gop
    BY <2>3 DEF Same, ConFields
  <2> HIDE DEF freed
  <2>5. /\ DOMAIN erased = ConFields /\ erased.cursor = c.cursor /\ erased.modes = c.modes
        /\ erased.res = c.res /\ erased.gopMode = c.gopMode /\ erased.mode = c.mode
        /\ erased.attr = c.attr /\ erased.gop = c.gop
    BY <2>2, <2>4
  <2> HIDE DEF erased
  <2>6. /\ DOMAIN ready = ConFields /\ ready.cursor = c.cursor /\ ready.modes = c.modes
        /\ ready.res = c.res /\ ready.gopMode = c.gopMode /\ ready.mode = c.mode
        /\ ready.attr = c.attr /\ ready.gop = c.gop
    BY <2>5 DEF ConFields
  <2> HIDE DEF ready
  <2>7. Console(erased) /\ Console(ready)
    <3>1. Cells(erased) = Cells(c) /\ Cells(ready) = Cells(c)
      BY <2>5, <2>6, Zenon DEF Cells, Columns, Rows, Size
    <3> QED BY <2>5, <2>6, <3>1 DEF Console
  <2>8. CASE ~alloc \/ (c.gop # c.gopMode /\ ~accepts)
    BY <2>1, <2>7, <2>8
  <2>9. CASE ~(~alloc \/ (c.gop # c.gopMode /\ ~accepts))
    <3> DEFINE d == Committed(ready, n)
    <3>1. r = [con |-> d, status |-> "SUCCESS"]
      BY <2>1, <2>9, Zenon
    <3>2. n \in 0..Len(ready.modes) - 1 /\ ready.modes[n + 1] # NoSize
      <4>1. Len(c.modes) \in Nat
        BY DEF Console, TextList
      <4> QED BY <1>3, <2>6, <4>1
    <3>3. Console([ready EXCEPT !.mode = -1])
      <4> DEFINE b == [ready EXCEPT !.mode = -1]
      <4>1. /\ DOMAIN b = ConFields /\ b.modes = c.modes /\ b.res = c.res /\ b.gopMode = c.gopMode
            /\ b.mode = -1 /\ b.attr = c.attr /\ b.gop = c.gop
        BY <2>6 DEF ConFields
      <4> HIDE DEF b
      <4>2. Console(b)
        BY <4>1 DEF Console, ValidMode
      <4> QED BY <4>2 DEF b
    <3>4. Console(d) /\ Shown(d)
      BY <2>6, <3>2, <3>3, CommittedFacts
    <3> HIDE DEF d
    <3> QED BY <3>1, <3>4
  <2> QED BY <2>8, <2>9
<1> QED BY <1>1, <1>2, <1>3

-----------------------------------------------------------------------------
(* The invariant: while the driver manages the output, the console is sound; *)
(* while the screen holds what the console drew on it, a mode is in force,   *)
(* the screen has the resolution that the console takes it to have, and the  *)
(* cursor glyph is where it is expected.                                     *)

ConsoleInv ==
  /\ started \in BOOLEAN /\ loose \in Nat
  /\ DOMAIN con = ConFields /\ con.gop \in GopNumbers
  /\ started => Console(con)
  /\ started /\ loose = 0 => Shown(con)

LEMMA ConsoleInit == Init => ConsoleInv
<1> SUFFICES ASSUME Init PROVE ConsoleInv
  OBVIOUS
<1>1. DOMAIN con = ConFields /\ con.gop = 0
  BY DEF Init, Stopped, ConFields
<1>2. 0 \in GopNumbers
  <2>1. Len(GopModes) \in Nat /\ Len(GopModes) > 0
    BY GopAssumption
  <2> QED BY <2>1 DEF GopNumbers
<1> QED BY <1>1, <1>2 DEF Init, ConsoleInv

(* What a call keeps if its result is sound and, when the screen is still or *)
(* again the console's, shows the cursor.                                    *)
LEMMA ConsoleCallKeeps ==
  ASSUME ConsoleInv, NEW op, NEW c, NEW status, NEW clears \in BOOLEAN, NEW disturbs \in BOOLEAN,
         DOMAIN c = ConFields, c.gop \in GopNumbers,
         started => Console(c),
         started /\ clears => Shown(c),
         started /\ Shown(con) /\ (status = "UNSUPPORTED" \/ ~disturbs) => Shown(c),
         Call(op, c, status, clears, disturbs)
  PROVE  ConsoleInv'
<1>1. con' = c /\ started' = started
  BY DEF Call
<1>2. /\ loose' = CASE clears -> 0
                    [] status # "UNSUPPORTED" /\ (loose > 0 \/ disturbs) -> loose + 1
                    [] OTHER -> loose
      /\ loose \in Nat
  BY DEF Call, ConsoleInv
<1>3. /\ loose' \in Nat
      /\ loose' = 0 => clears \/ (loose = 0 /\ (status = "UNSUPPORTED" \/ ~disturbs))
  <2>1. CASE clears
    BY <1>2, <2>1
  <2>2. CASE ~clears /\ status # "UNSUPPORTED" /\ (loose > 0 \/ disturbs)
    <3>1. loose' = loose + 1
      BY <1>2, <2>2
    <3> QED BY <1>2, <3>1
  <2>3. CASE ~clears /\ ~(status # "UNSUPPORTED" /\ (loose > 0 \/ disturbs))
    <3>1. loose' = loose
      BY <1>2, <2>3
    <3> QED BY <1>2, <2>3, <3>1
  <2> QED BY <2>1, <2>2, <2>3
<1>4. started /\ loose' = 0 => Shown(c)
  BY <1>3 DEF ConsoleInv
<1> QED BY <1>1, <1>3, <1>4 DEF ConsoleInv

(* A call that is not supported changes nothing.                             *)
LEMMA RefusedKeeps ==
  ASSUME ConsoleInv, NEW op, Call(op, con, "UNSUPPORTED", FALSE, FALSE)
  PROVE  ConsoleInv'
<1>1. DOMAIN con = ConFields /\ con.gop \in GopNumbers /\ (started => Console(con))
  BY DEF ConsoleInv
<1> QED BY <1>1, ConsoleCallKeeps

(* A call in a mode that keeps the console.                                  *)
LEMMA DoneKeeps ==
  ASSUME ConsoleInv, started, NEW op, NEW status, NEW clears \in BOOLEAN, NEW disturbs \in BOOLEAN,
         NEW c, Console(c), clears => Shown(c), Shown(con) /\ ~disturbs => Shown(c),
         status # "UNSUPPORTED", Call(op, c, status, clears, disturbs)
  PROVE  ConsoleInv'
<1>1. DOMAIN c = ConFields /\ c.gop \in GopNumbers
  BY DEF Console
<1> QED BY <1>1, ConsoleCallKeeps

LEMMA StartFacts ==
  ASSUME ConsoleInv, NEW wish \in Resolutions, NEW size \in AskedSizes, NEW barred,
         Start(wish, size, barred)
  PROVE  /\ started' = TRUE /\ loose' = 1
         /\ Console(con') /\ OwnScreen(con') /\ ResolutionOf(con'.gopMode) = con'.res
<1> DEFINE g     == Chosen(wish, con.gop, barred)
           modes == TextModes(g.res)
           max   == MaxSize(g.res)
           new   == [Stopped(g.gop) EXCEPT !.modes = modes, !.res = g.res, !.gopMode = g.mode,
                                           !.mode = PreferMode(modes, size)]
           d     == [new EXCEPT !.text = Filled(new, "stale")]
<1>1. g.ok /\ FitsIn(MinSize, max) /\ con' = d /\ started' = TRUE /\ loose' = 1
  BY Zenon DEF Start
<1>2. g.gop = g.mode /\ g.mode \in GopNumbers /\ ResolutionOf(g.mode) = g.res
  <2>1. con.gop \in GopNumbers
    BY DEF ConsoleInv
  <2>2. Searched(g) /\ (g.ok => g.gop = g.mode)
    BY <2>1, ChosenFacts
  <2> QED BY <1>1, <2>2 DEF Searched
<1> HIDE DEF g
<1>3. /\ g.res \in Nat \X Nat /\ 4 * g.res[1] <= Word /\ 4 * g.res[2] <= Word
  <2>1. g.mode + 1 \in 1..Len(GopModes)
    <3>1. Len(GopModes) \in Nat /\ g.mode \in 0..Len(GopModes) - 1
      BY <1>2, GopAssumption DEF GopNumbers
    <3>2. \A x \in 0..Len(GopModes) - 1 : x + 1 \in 1..Len(GopModes)
      BY <3>1
    <3> QED BY <3>1, <3>2
  <2>2. g.res = GopModes[g.mode + 1]
    BY <1>2 DEF ResolutionOf
  <2>3. 1 \in 1..2 /\ 2 \in 1..2
    OBVIOUS
  <2> QED BY <2>1, <2>2, <2>3, GopAssumption, RoomAssumption
<1>4. Usable(max)
  <2>1. Glyph[1] \in Nat \ {0} /\ Glyph[2] \in Nat \ {0}
    BY GlyphAssumption
  <2>2. /\ max[1] = g.res[1] \div Glyph[1] /\ max[2] = g.res[2] \div Glyph[2]
        /\ max = <<max[1], max[2]>>
    BY DEF MaxSize
  <2>3. g.res[1] \in Nat /\ g.res[2] \in Nat
    BY <1>3
  <2>4. \A w \in Nat, n \in Nat \ {0} : w \div n \in Nat /\ (w \div n) * n <= w
    OBVIOUS
  <2>5. /\ max[1] \in Nat /\ max[1] * Glyph[1] <= g.res[1]
        /\ max[2] \in Nat /\ max[2] * Glyph[2] <= g.res[2]
    BY <2>1, <2>2, <2>3, <2>4
  <2>6. MinSize[1] <= max[1] /\ MinSize[2] <= max[2] /\ MinSize[1] >= 2 /\ MinSize[2] >= 1
        /\ MinSize[1] \in Nat /\ MinSize[2] \in Nat
    BY <1>1, SizeAssumption DEF FitsIn
  <2>7. max \in Nat \X Nat
    BY <2>2, <2>5
  <2> HIDE DEF max
  <2> DEFINE p == max[1] * Glyph[1]
             q == max[2] * Glyph[2]
  <2>8. p \in Nat /\ q \in Nat
    BY <2>1, <2>5
  <2>9. p <= g.res[1] /\ q <= g.res[2]
    BY <2>5
  <2> HIDE DEF p, q
  <2>10. 4 * p <= Word /\ 4 * q <= Word
    BY <1>3, <2>3, <2>8, <2>9, WordAssumption
  <2>11. max[1] >= 2 /\ max[2] >= 1
    BY <2>5, <2>6
  <2> QED BY <2>7, <2>10, <2>11 DEF Usable, p, q
<1>5. TextList(modes, max) /\ max \in ToSet(modes)
  BY <1>3, <1>4, TextModesFacts
<1> DEFINE m == PreferMode(modes, size)
<1>6. ValidMode(modes, m)
  <2>1. modes \in Seq(Nat \X Nat)
    BY <1>5 DEF TextList
  <2>2. size \in Nat \X Nat
    BY AskedAssumption
  <2> QED BY <2>1, <2>2, PreferModeValid
<1> HIDE DEF modes, m
<1>7. /\ DOMAIN new = ConFields /\ new.modes = modes /\ new.res = g.res /\ new.gopMode = g.mode
      /\ new.mode = m /\ new.gop = g.gop /\ new.cursor = Origin /\ new.attr = LightGray
  BY DEF Stopped, ConFields, m
<1> HIDE DEF new
<1>8. /\ DOMAIN d = ConFields /\ d.modes = modes /\ d.res = g.res /\ d.gopMode = g.mode
      /\ d.mode = m /\ d.gop = g.gop /\ d.cursor = Origin /\ d.attr = LightGray
  BY <1>7 DEF ConFields
<1> HIDE DEF d
<1>9. d.mode # -1 => d.cursor \in Cells(d)
  <2> SUFFICES ASSUME d.mode # -1 PROVE d.cursor \in Cells(d)
    OBVIOUS
  <2>1. m \in 0..Len(modes) - 1 /\ modes[m + 1] # NoSize
    BY <1>6, <1>8 DEF ValidMode
  <2>2. m + 1 \in 1..Len(modes)
    <3>1. Len(modes) \in Nat
      BY <1>5 DEF TextList
    <3> QED BY <2>1, <3>1
  <2>3. Usable(modes[m + 1])
    BY <1>5, <2>1, <2>2 DEF TextList
  <2>4. Size(d) = modes[m + 1]
    BY <1>8, Zenon DEF Size
  <2> QED BY <1>8, <2>3, <2>4, OriginCell
<1>10. Console(d)
  BY <1>2, <1>5, <1>6, <1>8, <1>9 DEF Console, LightGray, max
<1> QED BY <1>1, <1>2, <1>8, <1>10 DEF OwnScreen

-----------------------------------------------------------------------------
(* Each action keeps it.                                                     *)

LEMMA StartKeeps ==
  ASSUME ConsoleInv, NEW wish \in Resolutions, NEW size \in AskedSizes, NEW barred,
         Start(wish, size, barred)
  PROVE  ConsoleInv'
<1>1. started' = TRUE /\ loose' = 1 /\ Console(con')
  BY StartFacts
<1> QED BY <1>1 DEF ConsoleInv, Console

LEMMA StartFailsKeeps ==
  ASSUME ConsoleInv, NEW wish, NEW barred, StartFails(wish, barred)
  PROVE  ConsoleInv'
<1>1. con.gop \in GopNumbers
  BY DEF ConsoleInv
<1>2. Chosen(wish, con.gop, barred).gop \in GopNumbers
  <2> DEFINE g == Chosen(wish, con.gop, barred)
  <2>1. Searched(g)
    BY <1>1, ChosenFacts
  <2> QED BY <2>1 DEF Searched
<1>3. PICK gop \in GopNumbers : con' = Stopped(gop)
  <2>1. \E gop \in {con.gop, Chosen(wish, con.gop, barred).gop} : con' = Stopped(gop)
    BY DEF StartFails
  <2> QED BY <1>1, <1>2, <2>1
<1>4. ~started /\ started' = started /\ loose' = loose
  BY DEF StartFails
<1>5. DOMAIN con' = ConFields /\ con'.gop = gop
  BY <1>3 DEF Stopped, ConFields
<1> QED BY <1>4, <1>5 DEF ConsoleInv

LEMMA StopKeeps ==
  ASSUME ConsoleInv, Stop PROVE ConsoleInv'
<1>1. started' = FALSE /\ loose' = 0 /\ con' = Stopped(con.gop)
  BY DEF Stop
<1>2. DOMAIN con' = ConFields /\ con'.gop = con.gop
  BY <1>1 DEF Stopped, ConFields
<1> QED BY <1>1, <1>2 DEF ConsoleInv

LEMMA OtherKeeps ==
  ASSUME ConsoleInv, NEW n \in GopNumbers, OtherSetsGraphicsMode(n) PROVE ConsoleInv'
<1> DEFINE c == [con EXCEPT !.gop = n, !.marks = {}, !.text = [cell \in DOMAIN @ |-> " "]]
<1>1. Call("GopSetMode", c, "SUCCESS", FALSE, started)
  BY Zenon DEF OtherSetsGraphicsMode
<1>2. /\ DOMAIN con = ConFields /\ started \in BOOLEAN /\ (started => Console(con))
  BY DEF ConsoleInv
<1>3. /\ DOMAIN c = ConFields /\ c.gop = n /\ c.modes = con.modes /\ c.res = con.res
      /\ c.gopMode = con.gopMode /\ c.mode = con.mode /\ c.cursor = con.cursor /\ c.attr = con.attr
  BY <1>2 DEF ConFields
<1> HIDE DEF c
<1>4. started => Console(c)
  <2>1. Cells(c) = Cells(con)
    BY <1>3, Zenon DEF Cells, Columns, Rows, Size
  <2> QED BY <1>2, <1>3, <2>1 DEF Console
<1>5. started /\ FALSE => Shown(c)
  OBVIOUS
<1>6. started /\ Shown(con) /\ ("SUCCESS" = "UNSUPPORTED" \/ ~started) => Shown(c)
  OBVIOUS
<1> QED BY <1>1, <1>2, <1>3, <1>4, <1>5, <1>6, ConsoleCallKeeps

LEMMA SetModeKeeps ==
  ASSUME ConsoleInv, NEW n \in 0..Len(con.modes), NEW alloc \in BOOLEAN, NEW accepts \in BOOLEAN,
         SetMode(n, alloc, accepts)
  PROVE  ConsoleInv'
<1> DEFINE r == SetModeFn(con, n, alloc, accepts)
           clears   == r.status = "SUCCESS" /\ OwnScreen(r.con)
           disturbs == r.status \in {"OUT_OF_RESOURCES", "DEVICE_ERROR"}
<1>1. started /\ Call("SetMode", r.con, r.status, clears, disturbs)
  BY Zenon DEF SetMode
<1>2. Console(con) /\ n \in Nat
  <2>1. Console(con)
    BY <1>1 DEF ConsoleInv
  <2>2. Len(con.modes) \in Nat
    BY <2>1 DEF Console, TextList
  <2> QED BY <2>1, <2>2
<1>3. /\ Console(r.con)
      /\ r.status \in {"SUCCESS", "UNSUPPORTED", "OUT_OF_RESOURCES", "DEVICE_ERROR"}
      /\ r.status = "UNSUPPORTED" => r.con = con
      /\ r.status = "SUCCESS" => (OwnScreen(r.con) \/ Shown(con) => Shown(r.con))
  BY <1>2, ModeSet
<1> HIDE DEF r
<1>4. DOMAIN r.con = ConFields /\ r.con.gop \in GopNumbers
  BY <1>3 DEF Console
<1>5. clears \in BOOLEAN /\ disturbs \in BOOLEAN
  OBVIOUS
<1>6. started /\ clears => Shown(r.con)
  BY <1>3
<1>7. started /\ Shown(con) /\ (r.status = "UNSUPPORTED" \/ ~disturbs) => Shown(r.con)
  BY <1>3
<1> HIDE DEF clears, disturbs
<1> QED BY <1>1, <1>3, <1>4, <1>5, <1>6, <1>7, ConsoleCallKeeps

LEMMA ResetKeeps ==
  ASSUME ConsoleInv, NEW alloc \in BOOLEAN, NEW accepts \in BOOLEAN, Reset(alloc, accepts)
  PROVE  ConsoleInv'
<1> DEFINE r == SetModeFn(con, 0, alloc, accepts)
           d == SetAttributeFn(r.con, Foreground(r.con.attr))
           c == IF r.status = "SUCCESS" THEN d ELSE r.con
           clears   == r.status = "SUCCESS" /\ OwnScreen(c)
           disturbs == r.status \in {"OUT_OF_RESOURCES", "DEVICE_ERROR"}
<1>1. started /\ Call("Reset", c, r.status, clears, disturbs)
  BY Zenon DEF Reset
<1>2. Console(con) /\ 0 \in Nat
  BY <1>1 DEF ConsoleInv
<1>3. /\ Console(r.con)
      /\ r.status \in {"SUCCESS", "UNSUPPORTED", "OUT_OF_RESOURCES", "DEVICE_ERROR"}
      /\ r.status = "UNSUPPORTED" => r.con = con
      /\ r.status = "SUCCESS" => (OwnScreen(r.con) \/ Shown(con) => Shown(r.con))
  BY <1>2, ModeSet
<1> HIDE DEF r
<1>4. Foreground(r.con.attr) \in Nat
  BY <1>3 DEF Console, Foreground
<1>5. /\ Console(d) /\ d.mode = r.con.mode /\ d.gop = r.con.gop /\ d.res = r.con.res
      /\ r.con.marks = Expected(r.con) => d.marks = Expected(d)
  BY <1>3, <1>4, Coloured
<1> HIDE DEF d
<1>6. Console(c) /\ DOMAIN c = ConFields /\ c.gop \in GopNumbers
  BY <1>3, <1>5 DEF Console
<1>7. OwnScreen(d) = OwnScreen(r.con) /\ (Shown(r.con) => Shown(d))
  BY <1>5 DEF OwnScreen, Shown
<1>8. clears \in BOOLEAN /\ disturbs \in BOOLEAN
  OBVIOUS
<1>9. started /\ clears => Shown(c)
  BY <1>3, <1>7
<1>10. started /\ Shown(con) /\ (r.status = "UNSUPPORTED" \/ ~disturbs) => Shown(c)
  BY <1>3, <1>7
<1> HIDE DEF c, clears, disturbs
<1> QED BY <1>1, <1>6, <1>8, <1>9, <1>10, ConsoleCallKeeps

LEMMA OutputStringKeeps ==
  ASSUME ConsoleInv, NEW str \in Strings, NEW draws \in BOOLEAN, OutputString(str, draws)
  PROVE  ConsoleInv'
<1>1. started /\ Console(con)
  BY DEF OutputString, ConsoleInv
<1>2. CASE con.mode = -1
  BY <1>2, RefusedKeeps, Zenon DEF OutputString
<1>3. CASE con.mode # -1
  <2> DEFINE c == OutputStringFn(con, str, draws)
             status == IF draws THEN "SUCCESS" ELSE "WARN_UNKNOWN_GLYPH"
             neat == draws /\ Shown(con)
  <2>1. Call("OutputString", c, status, FALSE, ~draws)
    BY <1>3, Zenon DEF OutputString
  <2>2. str \in Seq(STRING) /\ neat \in BOOLEAN
    BY StringAssumption
  <2>3. neat => draws = TRUE /\ OwnScreen(con) /\ con.marks = Expected(con)
    BY DEF Shown
  <2> HIDE DEF neat
  <2>4. /\ Same(c, con) /\ c.cursor \in Cells(con)
        /\ neat => c.marks = Expected(c)
    BY <1>1, <1>3, <2>2, <2>3, StringPut
  <2> HIDE DEF c
  <2>5. Console(c)
    BY <1>1, <2>4, SameConsole
  <2>6. Shown(con) /\ draws => Shown(c)
    <3>1. OwnScreen(c) = OwnScreen(con) /\ c.mode = con.mode
      BY <2>4, SameScreen DEF Same
    <3> QED BY <2>4, <3>1 DEF Shown, neat
  <2>7. status # "UNSUPPORTED" /\ (~draws) \in BOOLEAN /\ FALSE \in BOOLEAN
        /\ (FALSE => Shown(c)) /\ (Shown(con) /\ ~~draws => Shown(c))
    BY <2>6
  <2> HIDE DEF status
  <2> QED BY <1>1, <2>1, <2>5, <2>7, DoneKeeps
<1> QED BY <1>2, <1>3

LEMMA SetAttributeKeeps ==
  ASSUME ConsoleInv, NEW a \in Attributes, SetAttribute(a) PROVE ConsoleInv'
<1>1. started /\ Console(con)
  BY DEF SetAttribute, ConsoleInv
<1>2. CASE a > 127
  BY <1>2, RefusedKeeps, Zenon DEF SetAttribute
<1>3. CASE ~(a > 127)
  <2> DEFINE c == SetAttributeFn(con, a)
  <2>1. Call("SetAttribute", c, "SUCCESS", FALSE, FALSE)
    BY <1>3, Zenon DEF SetAttribute
  <2>2. a \in Nat
    BY AttributeAssumption
  <2>3. /\ Console(c) /\ c.mode = con.mode /\ c.gop = con.gop /\ c.res = con.res
        /\ con.marks = Expected(con) => c.marks = Expected(c)
    BY <1>1, <2>2, Coloured
  <2> HIDE DEF c
  <2>4. Shown(con) => Shown(c)
    BY <2>3 DEF Shown, OwnScreen
  <2>5. FALSE \in BOOLEAN /\ (FALSE => Shown(c)) /\ (Shown(con) /\ ~FALSE => Shown(c))
        /\ "SUCCESS" # "UNSUPPORTED"
    BY <2>4
  <2> QED BY <1>1, <2>1, <2>3, <2>5, DoneKeeps
<1> QED BY <1>2, <1>3

LEMMA ClearScreenKeeps ==
  ASSUME ConsoleInv, ClearScreen PROVE ConsoleInv'
<1>1. started /\ Console(con)
  BY DEF ClearScreen, ConsoleInv
<1>2. CASE con.mode = -1
  BY <1>2, RefusedKeeps, Zenon DEF ClearScreen
<1>3. CASE con.mode # -1
  <2> DEFINE r == ClearScreenFn(con)
             c == r.con
             clears == OwnScreen(con)
  <2>1. Call("ClearScreen", c, r.status, clears, FALSE)
    BY <1>3, Zenon DEF ClearScreen
  <2>2. /\ Same(c, con) /\ c.cursor \in Cells(con)
        /\ OwnScreen(con) => c.marks = Expected(c)
    BY <1>1, <1>3, Cleared
  <2>3. r.status # "UNSUPPORTED"
    BY DEF ClearScreenFn
  <2> HIDE DEF r, c
  <2>4. Console(c)
    BY <1>1, <2>2, SameConsole
  <2>5. OwnScreen(con) => Shown(c)
    <3>1. OwnScreen(c) = OwnScreen(con) /\ c.mode = con.mode
      BY <2>2, SameScreen DEF Same
    <3> QED BY <1>3, <2>2, <3>1 DEF Shown
  <2>6. clears \in BOOLEAN /\ FALSE \in BOOLEAN /\ (clears => Shown(c)) /\ (Shown(con) /\ ~FALSE => Shown(c))
    BY <2>5 DEF OwnScreen, Shown
  <2> HIDE DEF clears
  <2> QED BY <1>1, <2>1, <2>3, <2>4, <2>6, DoneKeeps
<1> QED BY <1>2, <1>3

LEMMA SetCursorPositionKeeps ==
  ASSUME ConsoleInv, NEW cell, SetCursorPosition(cell) PROVE ConsoleInv'
<1>1. started /\ Console(con)
  BY DEF SetCursorPosition, ConsoleInv
<1>2. CASE con.mode = -1 \/ cell \notin Cells(con)
  BY <1>2, RefusedKeeps, Zenon DEF SetCursorPosition
<1>3. CASE ~(con.mode = -1 \/ cell \notin Cells(con))
  <2> DEFINE d1 == FlushCursor(con)
             d2 == [d1 EXCEPT !.cursor = cell]
             d == FlushCursor(d2)
             c == IF cell = con.cursor THEN con ELSE d
  <2>1. Call("SetCursorPosition", c, "SUCCESS", FALSE, FALSE)
    BY <1>3, Zenon DEF SetCursorPosition
  <2>2. DOMAIN con = ConFields
    BY DEF ConsoleInv
  <2>3. Same(d1, con)
    BY <2>2, Flushed
  <2> HIDE DEF d1
  <2>4. DOMAIN d2 = ConFields /\ d2.marks = d1.marks /\ d2.cursor = cell /\ Same(d2, d1)
    BY <2>3 DEF Same, ConFields
  <2> HIDE DEF d2
  <2>5. Same(d, d2) /\ d.cursor = cell /\ (con.marks = Expected(con) => d.marks = Expected(d))
    BY <2>2, <2>4, Toggled DEF d1
  <2> HIDE DEF d
  <2>6. Same(d, con)
    BY <2>3, <2>4, <2>5, SameTransitive
  <2>7. Console(d)
    BY <1>1, <1>3, <2>5, <2>6, SameConsole
  <2>8. Shown(con) => Shown(d)
    <3>1. OwnScreen(d) = OwnScreen(con) /\ d.mode = con.mode
      BY <2>6, SameScreen DEF Same
    <3> QED BY <2>5, <3>1 DEF Shown
  <2>9. Console(c) /\ FALSE \in BOOLEAN /\ (FALSE => Shown(c)) /\ (Shown(con) /\ ~FALSE => Shown(c))
        /\ "SUCCESS" # "UNSUPPORTED"
    BY <1>1, <2>7, <2>8
  <2> HIDE DEF c
  <2> QED BY <1>1, <2>1, <2>9, DoneKeeps
<1> QED BY <1>2, <1>3

LEMMA EnableCursorKeeps ==
  ASSUME ConsoleInv, NEW visible, EnableCursor(visible) PROVE ConsoleInv'
<1>1. started /\ Console(con)
  BY DEF EnableCursor, ConsoleInv
<1>2. CASE con.mode = -1
  BY <1>2, RefusedKeeps, Zenon DEF EnableCursor
<1>3. CASE con.mode # -1
  <2> DEFINE d1 == FlushCursor(con)
             d2 == [d1 EXCEPT !.visible = visible]
             c == FlushCursor(d2)
  <2>1. Call("EnableCursor", c, "SUCCESS", FALSE, FALSE)
    BY <1>3, Zenon DEF EnableCursor
  <2>2. DOMAIN con = ConFields
    BY DEF ConsoleInv
  <2>3. Same(d1, con) /\ d1.cursor = con.cursor
    BY <2>2, Flushed
  <2> HIDE DEF d1
  <2>4. /\ DOMAIN d2 = ConFields /\ d2.marks = d1.marks /\ d2.cursor = con.cursor
        /\ d2.modes = con.modes /\ d2.res = con.res /\ d2.gopMode = con.gopMode
        /\ d2.mode = con.mode /\ d2.attr = con.attr /\ d2.gop = con.gop
    BY <2>3 DEF Same, ConFields
  <2> HIDE DEF d2
  <2>5. Same(c, d2) /\ c.cursor = con.cursor /\ (con.marks = Expected(con) => c.marks = Expected(c))
    BY <2>2, <2>4, Toggled DEF d1
  <2> HIDE DEF c
  <2>6. Cells(d2) = Cells(con)
    BY <2>4, Zenon DEF Cells, Columns, Rows, Size
  <2>7. Console(d2)
    BY <1>1, <2>4, <2>6 DEF Console
  <2>8. Console(c)
    <3>1. c.mode # -1 => c.cursor \in Cells(d2)
      BY <1>1, <1>3, <2>5, <2>6 DEF Console
    <3> QED BY <2>5, <2>7, <3>1, SameConsole
  <2>9. Shown(con) => Shown(c)
    BY <2>4, <2>5 DEF Shown, OwnScreen, Same
  <2>10. FALSE \in BOOLEAN /\ (FALSE => Shown(c)) /\ (Shown(con) /\ ~FALSE => Shown(c))
         /\ "SUCCESS" # "UNSUPPORTED"
    BY <2>9
  <2> QED BY <1>1, <2>1, <2>8, <2>10, DoneKeeps
<1> QED BY <1>2, <1>3

-----------------------------------------------------------------------------
(* The theorems                                                              *)

LEMMA ConsoleStep == ConsoleInv /\ [Next]_vars => ConsoleInv'
<1> SUFFICES ASSUME ConsoleInv, [Next]_vars PROVE ConsoleInv'
  OBVIOUS
<1>1. CASE \E wish \in Resolutions, size \in AskedSizes, barred \in Refusals : Start(wish, size, barred)
  BY <1>1, StartKeeps
<1>2. CASE \E wish \in Resolutions, barred \in Refusals : StartFails(wish, barred)
  BY <1>2, StartFailsKeeps
<1>3. CASE Stop
  BY <1>3, StopKeeps
<1>4. CASE \E n \in GopNumbers : OtherSetsGraphicsMode(n)
  BY <1>4, OtherKeeps
<1>5. CASE \E n \in 0..Len(con.modes), alloc, accepts \in BOOLEAN : SetMode(n, alloc, accepts)
  BY <1>5, SetModeKeeps
<1>6. CASE \E alloc, accepts \in BOOLEAN : Reset(alloc, accepts)
  BY <1>6, ResetKeeps
<1>7. CASE \E str \in Strings, draws \in BOOLEAN : OutputString(str, draws)
  BY <1>7, OutputStringKeeps
<1>8. CASE \E a \in Attributes : SetAttribute(a)
  BY <1>8, SetAttributeKeeps
<1>9. CASE ClearScreen
  BY <1>9, ClearScreenKeeps
<1>10. CASE \E cell \in Cells(con) \cup {Size(con)} : SetCursorPosition(cell)
  BY <1>10, SetCursorPositionKeeps
<1>11. CASE \E visible \in BOOLEAN : EnableCursor(visible)
  BY <1>11, EnableCursorKeeps
<1>12. CASE UNCHANGED vars
  BY <1>12 DEF vars, ConsoleInv
<1> QED
  BY <1>1, <1>2, <1>3, <1>4, <1>5, <1>6, <1>7, <1>8, <1>9, <1>10, <1>11, <1>12, Zenon DEF Next

LEMMA InvShows == ConsoleInv => CursorShown /\ ModesAreUsable
<1> SUFFICES ASSUME ConsoleInv PROVE CursorShown /\ ModesAreUsable
  OBVIOUS
<1>1. CursorShown
  BY DEF ConsoleInv, Console, Shown, Expected, CursorShown
<1>2. ModesAreUsable
  BY DEF ConsoleInv, Console, TextList, ModesAreUsable
<1> QED BY <1>1, <1>2

(* On any graphics output, of any resolutions, and for any strings: the      *)
(* cursor stays in the text window and, while the screen holds what the      *)
(* console drew on it, is shown once, at its cell and in its colour.         *)
THEOREM CursorIsShown == Spec => []CursorShown
BY ConsoleInit, ConsoleStep, InvShows, PTL DEF Spec

(* The mode list of a console offers the full screen and, mode 0 apart, only *)
(* sizes that the screen holds, each of them once.                           *)
THEOREM UsableModes == Spec => []ModesAreUsable
BY ConsoleInit, ConsoleStep, InvShows, PTL DEF Spec

LEMMA StartStep ==
  ConsoleInv /\ [Next]_vars =>
    [~started /\ started' => OwnScreen(con') /\ ResolutionOf(con'.gopMode) = con'.res]_vars
<1> SUFFICES ASSUME ConsoleInv, Next, ~started, started'
             PROVE  OwnScreen(con') /\ ResolutionOf(con'.gopMode) = con'.res
  OBVIOUS
<1>1. CASE \E wish \in Resolutions, size \in AskedSizes, barred \in Refusals : Start(wish, size, barred)
  BY <1>1, StartFacts
<1>2. CASE \E wish \in Resolutions, barred \in Refusals : StartFails(wish, barred)
  BY <1>2 DEF StartFails
<1>3. CASE \E n \in GopNumbers : OtherSetsGraphicsMode(n)
  BY <1>3, Zenon DEF OtherSetsGraphicsMode, Call
<1> QED
  BY <1>1, <1>2, <1>3, Zenon DEF Next, Stop, SetMode, Reset, OutputString, SetAttribute, ClearScreen,
     SetCursorPosition, EnableCursor

(* However the resolution is asked for and whatever modes the output         *)
(* refuses, the console starts on a screen of the resolution that its text   *)
(* modes were computed for.                                                  *)
THEOREM OwnScreenAtStart == Spec => StartsOnItsScreen
BY ConsoleInit, ConsoleStep, StartStep, PTL DEF Spec, StartsOnItsScreen

-----------------------------------------------------------------------------
(* What the window shows: the text is a function on its cells.               *)

Sheet(c) == DOMAIN c = ConFields /\ c.text = [cell \in Cells(c) |-> c.text[cell]]

(* A change of what the cells show.                                          *)
LEMMA SheetKept ==
  ASSUME NEW c, NEW d, Sheet(c), Same(d, c), d.text = [cell \in DOMAIN c.text |-> d.text[cell]]
  PROVE  Sheet(d) /\ DOMAIN c.text = Cells(c)
<1>1. Cells(d) = Cells(c) /\ DOMAIN d = ConFields
  BY SameScreen DEF Same
<1>2. DOMAIN c.text = Cells(c)
  BY Zenon DEF Sheet
<1>3. d.text = [cell \in Cells(d) |-> d.text[cell]]
  BY <1>1, <1>2, Zenon
<1> QED BY <1>1, <1>2, <1>3, Zenon DEF Sheet

LEMMA SheetSame ==
  ASSUME NEW c, NEW d, Sheet(c), Same(d, c), d.text = c.text
  PROVE  Sheet(d)
<1>1. Cells(d) = Cells(c) /\ DOMAIN d = ConFields
  BY SameScreen DEF Same
<1> QED BY <1>1, Zenon DEF Sheet

LEMMA FlushedSheet ==
  ASSUME NEW c, Sheet(c), NEW d, d = FlushCursor(c)
  PROVE  Sheet(d) /\ Same(d, c) /\ d.cursor = c.cursor /\ d.text = c.text
<1>1. DOMAIN c = ConFields
  BY DEF Sheet
<1>2. Same(d, c) /\ d.cursor = c.cursor
  BY <1>1, Flushed
<1>3. d.text = c.text
  BY <1>1 DEF FlushCursor, ConFields
<1> QED BY <1>2, <1>3, SheetSame

LEMMA MovedSheet ==
  ASSUME NEW c, Sheet(c), NEW at, NEW d, d = [c EXCEPT !.cursor = at]
  PROVE  Sheet(d) /\ Same(d, c) /\ d.cursor = at /\ d.text = c.text
<1>1. DOMAIN c = ConFields
  BY DEF Sheet
<1>2. Same(d, c) /\ d.cursor = at /\ d.text = c.text
  BY <1>1 DEF Same, ConFields
<1> QED BY <1>2, SheetSame

(* The block of cells that a character of n cells takes.                     *)
BlockAt(at, n) == {<<at[1] + k, at[2]>> : k \in 0..n - 1}

DrawnOn(d, c, ch, n, draws) ==
  /\ Sheet(d) /\ Same(d, c) /\ d.cursor = c.cursor
  /\ draws /\ OnScreen(c, c.cursor, <<n, 1>>) =>
       \A cell \in Cells(c) : d.text[cell] = IF cell \in BlockAt(c.cursor, n) THEN ch ELSE c.text[cell]

LEMMA DrewSheet ==
  ASSUME NEW c, Sheet(c), NEW ch, NEW n, NEW draws, NEW d, d = Draw(c, ch, n, draws)
  PROVE  DrawnOn(d, c, ch, n, draws)
<1>1. DOMAIN c = ConFields
  BY DEF Sheet
<1>2. Same(d, c) /\ d.cursor = c.cursor
  BY <1>1, Drew
<1>3. CASE ~draws \/ ~OnScreen(c, c.cursor, <<n, 1>>)
  <2>1. d = c
    BY <1>3, Zenon DEF Draw
  <2> QED BY <1>2, <1>3, <2>1 DEF DrawnOn
<1>4. CASE ~(~draws \/ ~OnScreen(c, c.cursor, <<n, 1>>))
  <2> DEFINE block == BlockAt(c.cursor, n)
             v(cell) == IF cell \in block THEN ch ELSE c.text[cell]
  <2>1. d = [c EXCEPT !.text  = [cell \in DOMAIN @ |-> IF cell \in block THEN ch ELSE @[cell]],
                      !.marks = {m \in @ : m[1] \notin block}]
    BY <1>4, Zenon DEF Draw, BlockAt
  <2> HIDE DEF block
  <2>2. d.text = [cell \in DOMAIN c.text |-> v(cell)]
    BY <1>1, <2>1 DEF ConFields
  <2> HIDE DEF v
  <2>3. d.text = [cell \in DOMAIN c.text |-> d.text[cell]] /\ \A cell \in DOMAIN c.text : d.text[cell] = v(cell)
    BY <2>2, Zenon
  <2>4. Sheet(d) /\ DOMAIN c.text = Cells(c)
    BY <1>2, <2>3, SheetKept
  <2> QED BY <1>2, <2>3, <2>4, Zenon DEF DrawnOn, v, block
<1> QED BY <1>3, <1>4

(* What moving up by one row makes of the text.                              *)
Up(c, cell) == IF cell[2] < Rows(c) - 1 THEN c.text[<<cell[1], cell[2] + 1>>] ELSE " "

LEMMA ScrolledSheet ==
  ASSUME NEW c, Sheet(c), NEW d, d = Scroll(c)
  PROVE  /\ Sheet(d) /\ Same(d, c) /\ d.cursor = c.cursor
         /\ OnScreen(c, <<0, Rows(c) - 1>>, <<Columns(c), 1>>) =>
              \A cell \in Cells(c) : d.text[cell] = Up(c, cell)
<1>1. DOMAIN c = ConFields
  BY DEF Sheet
<1>2. Same(d, c) /\ d.cursor = c.cursor
  BY <1>1, Scrolled
<1>3. CASE ~OnScreen(c, <<0, Rows(c) - 1>>, <<Columns(c), 1>>)
  <2>1. d = c
    BY <1>3, Zenon DEF Scroll
  <2> QED BY <1>2, <1>3, <2>1
<1>4. CASE OnScreen(c, <<0, Rows(c) - 1>>, <<Columns(c), 1>>)
  <2>1. d = [c EXCEPT
    !.text  = [cell \in DOMAIN @ |->
                 IF cell[2] < Rows(c) - 1 THEN @[<<cell[1], cell[2] + 1>>] ELSE " "],
    !.marks = {m \in @ : m[1][1] >= Columns(c)} \cup
              {<<<<m[1][1], m[1][2] - 1>>, m[2]>> :
                 m \in {k \in @ : k[1][1] < Columns(c) /\ k[1][2] > 0}}]
    BY <1>4, Zenon DEF Scroll
  <2>2. d.text = [cell \in DOMAIN c.text |-> Up(c, cell)]
    BY <1>1, <2>1 DEF ConFields, Up
  <2>3. /\ d.text = [cell \in DOMAIN c.text |-> d.text[cell]]
        /\ \A cell \in DOMAIN c.text : d.text[cell] = Up(c, cell)
    BY <2>2, Zenon
  <2>4. Sheet(d) /\ DOMAIN c.text = Cells(c)
    BY <1>2, <2>3, SheetKept
  <2> QED BY <1>2, <2>3, <2>4
<1> QED BY <1>3, <1>4

LEMMA LineFedSheet ==
  ASSUME NEW c, Sheet(c), NEW d, d = LineFeed(c)
  PROVE  Sheet(d)
<1>1. CASE c.cursor[2] = Rows(c) - 1
  <2>1. d = Scroll(c)
    BY <1>1, Zenon DEF LineFeed
  <2> QED BY <2>1, ScrolledSheet
<1>2. CASE c.cursor[2] # Rows(c) - 1
  <2>1. d = [c EXCEPT !.cursor[2] = @ + 1]
    BY <1>2, Zenon DEF LineFeed
  <2>2. d = [c EXCEPT !.cursor = [c.cursor EXCEPT ![2] = @ + 1]]
    BY <2>1
  <2> QED BY <2>2, MovedSheet
<1> QED BY <1>1, <1>2

LEMMA ReturnedSheet ==
  ASSUME NEW c, Sheet(c), NEW d, d = CarriageReturn(c)
  PROVE  Sheet(d)
<1>1. d = [c EXCEPT !.cursor = [c.cursor EXCEPT ![1] = 0]]
  BY DEF CarriageReturn
<1> QED BY <1>1, MovedSheet

LEMMA CrLfSheet ==
  ASSUME NEW c, Sheet(c), NEW d, d = CrLfString(c)
  PROVE  Sheet(d)
<1> DEFINE c1 == FlushCursor(c)
           c2 == CarriageReturn(c1)
           c3 == LineFeed(c2)
<1>1. Sheet(c1)
  BY FlushedSheet
<1> HIDE DEF c1
<1>2. Sheet(c2)
  BY <1>1, ReturnedSheet
<1> HIDE DEF c2
<1>3. Sheet(c3)
  BY <1>2, LineFedSheet
<1> HIDE DEF c3
<1>4. d = FlushCursor(c3)
  BY Zenon DEF CrLfString, c1, c2, c3
<1> QED BY <1>3, <1>4, FlushedSheet

LEMMA WrappedSheet ==
  ASSUME NEW c, Sheet(c), NEW d, d = Wrap(c)
  PROVE  Sheet(d)
<1>1. CASE c.cursor[1] >= Columns(c)
  <2> DEFINE c1 == FlushCursor(c)
             c2 == CrLfString(c1)
  <2>1. Sheet(c1)
    BY FlushedSheet
  <2> HIDE DEF c1
  <2>2. Sheet(c2)
    BY <2>1, CrLfSheet
  <2> HIDE DEF c2
  <2>3. d = FlushCursor(c2)
    BY <1>1, Zenon DEF Wrap, c1, c2
  <2> QED BY <2>2, <2>3, FlushedSheet
<1>2. CASE ~(c.cursor[1] >= Columns(c))
  <2>1. d = c
    BY <1>2, Zenon DEF Wrap
  <2> QED BY <2>1
<1> QED BY <1>1, <1>2

(* A character of n cells.                                                   *)
LEMMA PutSheet ==
  ASSUME NEW c, Sheet(c), NEW ch, NEW n, NEW draws,
         NEW d, d = Wrap([Draw(c, ch, n, draws) EXCEPT !.cursor[1] = @ + n])
  PROVE  Sheet(d)
<1> DEFINE c1 == Draw(c, ch, n, draws)
           c2 == [c1 EXCEPT !.cursor[1] = @ + n]
<1>1. Sheet(c1)
  BY DrewSheet DEF DrawnOn
<1> HIDE DEF c1
<1>2. c2 = [c1 EXCEPT !.cursor = [c1.cursor EXCEPT ![1] = @ + n]]
  OBVIOUS
<1> HIDE DEF c2
<1>3. Sheet(c2)
  BY <1>1, <1>2, MovedSheet
<1>4. d = Wrap(c2)
  BY Zenon DEF c1, c2
<1> QED BY <1>3, <1>4, WrappedSheet

LEMMA SpacedSheet ==
  ASSUME NEW c, Sheet(c), NEW draws, NEW d, d = SpaceStr(c, draws)
  PROVE  Sheet(d)
<1> DEFINE c1 == FlushCursor(c)
           c2 == PutNarrow(c1, " ", draws)
<1>1. Sheet(c1)
  BY FlushedSheet
<1> HIDE DEF c1
<1>2. Sheet(c2)
  BY <1>1, PutSheet, Zenon DEF PutNarrow
<1> HIDE DEF c2
<1>3. d = FlushCursor(c2)
  BY Zenon DEF SpaceStr, c1, c2
<1> QED BY <1>2, <1>3, FlushedSheet

LEMMA WideSheet ==
  ASSUME NEW c, Sheet(c), NEW ch, NEW draws, NEW d, d = PutWide(c, ch, draws)
  PROVE  Sheet(d)
<1> DEFINE sp == SpaceStr(c, draws)
           wr == Wrap(sp)
           at == IF c.cursor[1] + 1 < Columns(c) THEN c ELSE wr
<1>1. Sheet(sp)
  BY SpacedSheet
<1> HIDE DEF sp
<1>2. Sheet(wr)
  BY <1>1, WrappedSheet
<1> HIDE DEF wr
<1>3. Sheet(at)
  BY <1>2
<1> HIDE DEF at
<1>4. d = Wrap([Draw(at, ch, 2, draws) EXCEPT !.cursor[1] = @ + 2])
  BY Zenon DEF PutWide, at, wr, sp
<1> QED BY <1>3, <1>4, PutSheet

LEMMA BackedUpSheet ==
  ASSUME NEW c, Sheet(c), NEW draws, NEW d, d = Backspace(c, draws)
  PROVE  Sheet(d)
<1> DEFINE before == IF c.cursor[1] > 0 THEN <<c.cursor[1] - 1, c.cursor[2]>>
                                        ELSE <<Columns(c) - 1, c.cursor[2] - 1>>
           c1 == [c EXCEPT !.cursor = before]
           c2 == SpaceStr(c1, draws)
           c3 == FlushCursor(c2)
<1>1. CASE c.cursor = Origin
  BY <1>1, Zenon DEF Backspace
<1>2. CASE c.cursor # Origin
  <2>1. d = [c3 EXCEPT !.cursor = before]
    BY <1>2, Zenon DEF Backspace
  <2> HIDE DEF before
  <2>2. Sheet(c1)
    BY MovedSheet
  <2> HIDE DEF c1
  <2>3. Sheet(c2)
    BY <2>2, SpacedSheet
  <2> HIDE DEF c2
  <2>4. Sheet(c3)
    BY <2>3, FlushedSheet
  <2> HIDE DEF c3
  <2> QED BY <2>1, <2>4, MovedSheet
<1> QED BY <1>1, <1>2

LEMMA PutKeepsSheet ==
  ASSUME NEW c, Sheet(c), NEW wide, NEW ch, NEW draws, NEW e, e = Put(c, wide, ch, draws)
  PROVE  Sheet(e.con)
<1>1. CASE ch = "BACKSPACE"
  <2>1. e.con = Backspace(c, draws)
    BY <1>1 DEF Put
  <2> QED BY <2>1, BackedUpSheet
<1>2. CASE ch = "LINEFEED"
  <2>1. e.con = LineFeed(c)
    BY <1>2 DEF Put
  <2> QED BY <2>1, LineFedSheet
<1>3. CASE ch = "CARRIAGE_RETURN"
  <2>1. e.con = CarriageReturn(c)
    BY <1>3 DEF Put
  <2> QED BY <2>1, ReturnedSheet
<1>4. CASE ch \in {"WIDE_CHAR", "NARROW_CHAR"}
  <2>1. e.con = c
    BY <1>4 DEF Put
  <2> QED BY <2>1
<1>5. CASE ch \notin Controls
  <2>1. e.con = IF wide THEN PutWide(c, ch, draws) ELSE PutNarrow(c, ch, draws)
    BY <1>5 DEF Put, Controls
  <2>2. CASE wide
    BY <2>1, <2>2, WideSheet
  <2>3. CASE ~wide
    <3>1. e.con = Wrap([Draw(c, ch, 1, draws) EXCEPT !.cursor[1] = @ + 1])
      BY <2>1, <2>3, Zenon DEF PutNarrow
    <3> QED BY <3>1, PutSheet
  <2> QED BY <2>2, <2>3
<1> QED BY <1>1, <1>2, <1>3, <1>4, <1>5 DEF Controls

(* A string is printed character by character.                               *)
LEMMA StringRun ==
  ASSUME NEW c, NEW draws, NEW S, NEW str \in Seq(S), NEW d, d = OutputStringFn(c, str, draws)
  PROVE  \E g : /\ PutRun(g, [con |-> FlushCursor(c), wide |-> FALSE], str, draws, Len(str))
                /\ d = FlushCursor(g[1..Len(str)].con)
<1> DEFINE base == [con |-> FlushCursor(c), wide |-> FALSE]
           n == Len(str)
           g == CHOOSE f : PutFold(f, base, str, draws, n)
<1>1. n \in Nat /\ DOMAIN str = 1..n
  OBVIOUS
<1> HIDE DEF n, base
<1>2. PutFold(g, base, str, draws, n)
  BY <1>1, PutFoldExists
<1>3. d = FlushCursor(g[1..n].con)
  BY <1>1, Zenon DEF OutputStringFn, base, FoldLeft, MapThenFoldSet, PutFold
<1> HIDE DEF g
<1>4. PutRun(g, base, str, draws, n)
  BY <1>1, <1>2, PutFoldSteps, Zenon
<1>5. \E f : PutRun(f, base, str, draws, n) /\ d = FlushCursor(f[1..n].con)
  BY <1>3, <1>4, Zenon
<1> QED BY <1>5 DEF base, n

LEMMA StringSheet ==
  ASSUME NEW c, Sheet(c), NEW draws, NEW str \in Seq(STRING), NEW d, d = OutputStringFn(c, str, draws)
  PROVE  Sheet(d)
<1> DEFINE base == [con |-> FlushCursor(c), wide |-> FALSE]
           n == Len(str)
<1>1. PICK g : PutRun(g, base, str, draws, n) /\ d = FlushCursor(g[1..n].con)
  BY StringRun
<1>2. n \in Nat
  OBVIOUS
<1>3. Sheet(base.con)
  <2> DEFINE c1 == FlushCursor(c)
  <2>1. Sheet(c1)
    BY FlushedSheet
  <2> HIDE DEF c1
  <2>2. base.con = c1
    BY DEF c1
  <2> QED BY <2>1, <2>2
<1> HIDE DEF base, n
<1> DEFINE T == {k \in Nat : k <= n => Sheet(g[1..k].con)}
<1>4. 0 \in T
  BY <1>1, <1>3 DEF PutRun
<1>5. ASSUME NEW k \in Nat, k \in T PROVE k + 1 \in T
  <2> SUFFICES ASSUME k + 1 <= n PROVE Sheet(g[1..k + 1].con)
    OBVIOUS
  <2>1. k \in 0..n - 1
    BY <1>2
  <2>2. g[1..k + 1] = Put(g[1..k].con, g[1..k].wide, str[k + 1], draws)
    BY <1>1, <2>1, Zenon DEF PutRun
  <2>3. Sheet(g[1..k].con)
    BY <1>2, <1>5, <2>1
  <2> QED BY <2>2, <2>3, PutKeepsSheet
<1> HIDE DEF T
<1>6. n \in T
  BY <1>2, <1>4, <1>5, SetInduction
<1>7. Sheet(g[1..n].con)
  BY <1>2, <1>6 DEF T
<1> QED BY <1>1, <1>7, FlushedSheet

LEMMA ClearedSheet ==
  ASSUME NEW c, Sheet(c), NEW d, d = ClearScreenFn(c).con
  PROVE  Sheet(d)
<1> DEFINE fits  == FitsIn(c.res, ResolutionOf(c.gop))
           blank == [c EXCEPT !.text = Filled(c, " "), !.marks = {}]
           clear == IF fits THEN blank ELSE c
           moved == [clear EXCEPT !.cursor = Origin]
<1>1. d = FlushCursor(moved)
  BY DEF ClearScreenFn
<1>2. Sheet(blank)
  <2>1. DOMAIN c = ConFields
    BY DEF Sheet
  <2>2. Same(blank, c) /\ blank.text = Filled(c, " ")
    BY <2>1 DEF Same, ConFields
  <2> HIDE DEF blank
  <2>3. Cells(blank) = Cells(c) /\ DOMAIN blank = ConFields
    BY <2>2, SameScreen DEF Same
  <2> QED BY <2>2, <2>3, Zenon DEF Sheet, Filled
<1> HIDE DEF blank, fits
<1>3. Sheet(clear)
  BY <1>2
<1> HIDE DEF clear
<1>4. Sheet(moved)
  BY <1>3, MovedSheet
<1> HIDE DEF moved
<1> QED BY <1>1, <1>4, FlushedSheet

(* Fields on which the cells do not depend.                                  *)
LEMMA SheetOther ==
  ASSUME NEW c, NEW d, Sheet(c), DOMAIN d = ConFields, d.mode = c.mode, d.modes = c.modes,
         d.text = c.text
  PROVE  Sheet(d)
<1>1. Cells(d) = Cells(c)
  BY Zenon DEF Cells, Columns, Rows, Size
<1> QED BY <1>1, Zenon DEF Sheet

LEMMA ColouredSheet ==
  ASSUME NEW c, Sheet(c), NEW a, NEW d, d = SetAttributeFn(c, a)
  PROVE  Sheet(d)
<1>1. CASE a = c.attr
  BY <1>1 DEF SetAttributeFn
<1>2. CASE a # c.attr
  <2> DEFINE d1 == FlushCursor(c)
             d2 == [d1 EXCEPT !.attr = a]
  <2>1. d = FlushCursor(d2)
    BY <1>2, Zenon DEF SetAttributeFn
  <2>2. Sheet(d1)
    BY FlushedSheet
  <2> HIDE DEF d1
  <2>3. DOMAIN d2 = ConFields /\ d2.mode = d1.mode /\ d2.modes = d1.modes /\ d2.text = d1.text
    BY <2>2 DEF Sheet, ConFields
  <2> HIDE DEF d2
  <2>4. Sheet(d2)
    BY <2>2, <2>3, SheetOther
  <2> QED BY <2>1, <2>4, FlushedSheet
<1> QED BY <1>1, <1>2

LEMMA CommittedSheet ==
  ASSUME NEW c, DOMAIN c = ConFields, NEW n, NEW d, d = Committed(c, n)
  PROVE  Sheet(d)
<1> DEFINE moved == [c EXCEPT !.gop = c.gopMode, !.mode = n, !.cursor = Origin]
           d1 == [moved EXCEPT !.text = Filled(moved, " "), !.marks = {}]
<1>1. d = FlushCursor(d1)
  BY Zenon DEF Committed
<1>2. DOMAIN moved = ConFields
  BY DEF ConFields
<1> HIDE DEF moved
<1>3. DOMAIN d1 = ConFields /\ d1.mode = moved.mode /\ d1.modes = moved.modes
      /\ d1.text = Filled(moved, " ")
  BY <1>2 DEF ConFields
<1> HIDE DEF d1
<1>4. Cells(d1) = Cells(moved)
  BY <1>3, Zenon DEF Cells, Columns, Rows, Size
<1>5. Sheet(d1)
  BY <1>3, <1>4, Zenon DEF Sheet, Filled
<1> QED BY <1>1, <1>5, FlushedSheet

LEMMA ModeSetSheet ==
  ASSUME NEW c, Sheet(c), NEW n, NEW alloc, NEW accepts, NEW r, r = SetModeFn(c, n, alloc, accepts)
  PROVE  Sheet(r.con)
<1> DEFINE flushed == FlushCursor(c)
           freed  == [flushed EXCEPT !.lineBuffer = "freed"]
           erased == IF c.lineBuffer = "none" THEN c ELSE freed
           ready  == [erased EXCEPT !.lineBuffer = "live"]
           clear  == ClearScreenFn(c).con
           set    == Committed(ready, n)
<1>1. r.con \in {c, clear, erased, ready, set}
  BY DEF SetModeFn
<1>2. Sheet(clear)
  BY ClearedSheet
<1>3. Sheet(flushed)
  BY FlushedSheet
<1> HIDE DEF flushed, clear
<1>4. DOMAIN freed = ConFields /\ freed.mode = flushed.mode /\ freed.modes = flushed.modes
      /\ freed.text = flushed.text
  BY <1>3 DEF Sheet, ConFields
<1> HIDE DEF freed
<1>5. Sheet(erased)
  BY <1>3, <1>4, SheetOther
<1> HIDE DEF erased
<1>6. DOMAIN ready = ConFields /\ ready.mode = erased.mode /\ ready.modes = erased.modes
      /\ ready.text = erased.text
  BY <1>5 DEF Sheet, ConFields
<1> HIDE DEF ready
<1>7. Sheet(ready)
  BY <1>5, <1>6, SheetOther
<1>8. Sheet(set)
  BY <1>6, CommittedSheet
<1> HIDE DEF set
<1> QED BY <1>1, <1>2, <1>5, <1>7, <1>8

-----------------------------------------------------------------------------
(* The invariant: a console that is started shows text on all of its cells.  *)

SheetInv == started => Sheet(con)

LEMMA SheetStep == SheetInv /\ [Next]_vars => SheetInv'
<1> SUFFICES ASSUME SheetInv, [Next]_vars PROVE SheetInv'
  OBVIOUS
<1>1. ASSUME NEW wish \in Resolutions, NEW size \in AskedSizes, NEW barred, Start(wish, size, barred)
      PROVE  SheetInv'
  <2> DEFINE g     == Chosen(wish, con.gop, barred)
             modes == TextModes(g.res)
             new   == [Stopped(g.gop) EXCEPT !.modes = modes, !.res = g.res, !.gopMode = g.mode,
                                             !.mode = PreferMode(modes, size)]
             d     == [new EXCEPT !.text = Filled(new, "stale")]
  <2>1. con' = d
    BY <1>1, Zenon DEF Start
  <2>2. DOMAIN new = ConFields
    BY DEF Stopped, ConFields
  <2> HIDE DEF new
  <2>3. DOMAIN d = ConFields /\ d.mode = new.mode /\ d.modes = new.modes /\ d.text = Filled(new, "stale")
    BY <2>2 DEF ConFields
  <2> HIDE DEF d
  <2>4. Cells(d) = Cells(new)
    BY <2>3, Zenon DEF Cells, Columns, Rows, Size
  <2>5. Sheet(d)
    BY <2>3, <2>4, Zenon DEF Sheet, Filled
  <2> QED BY <2>1, <2>5 DEF SheetInv
<1>2. ASSUME NEW op, NEW c, NEW status, NEW clears, NEW disturbs, Call(op, c, status, clears, disturbs),
             started => Sheet(c)
      PROVE  SheetInv'
  BY <1>2, Zenon DEF Call, SheetInv
<1>3. ASSUME NEW wish \in Resolutions, NEW barred, StartFails(wish, barred) PROVE SheetInv'
  BY <1>3, Zenon DEF StartFails, SheetInv
<1>4. CASE Stop
  BY <1>4, Zenon DEF Stop, SheetInv
<1>5. ASSUME NEW n, OtherSetsGraphicsMode(n) PROVE SheetInv'
  <2> DEFINE c == [con EXCEPT !.gop = n, !.marks = {}, !.text = [cell \in DOMAIN @ |-> " "]]
  <2>1. Call("GopSetMode", c, "SUCCESS", FALSE, started)
    BY <1>5, Zenon DEF OtherSetsGraphicsMode
  <2>2. started => Sheet(c)
    <3> SUFFICES ASSUME started PROVE Sheet(c)
      OBVIOUS
    <3>1. Sheet(con)
      BY DEF SheetInv
    <3>2. DOMAIN c = ConFields /\ c.mode = con.mode /\ c.modes = con.modes
          /\ c.text = [cell \in DOMAIN con.text |-> " "]
      BY <3>1 DEF Sheet, ConFields
    <3> HIDE DEF c
    <3>3. Cells(c) = Cells(con)
      BY <3>2, Zenon DEF Cells, Columns, Rows, Size
    <3>4. DOMAIN con.text = Cells(con)
      BY <3>1, Zenon DEF Sheet
    <3> QED BY <3>2, <3>3, <3>4, Zenon DEF Sheet
  <2> HIDE DEF c
  <2> QED BY <1>2, <2>1, <2>2
<1>6. ASSUME NEW n, NEW alloc, NEW accepts, SetMode(n, alloc, accepts) PROVE SheetInv'
  <2> DEFINE r == SetModeFn(con, n, alloc, accepts)
  <2>1. Call("SetMode", r.con, r.status, r.status = "SUCCESS" /\ OwnScreen(r.con),
             r.status \in {"OUT_OF_RESOURCES", "DEVICE_ERROR"})
    BY <1>6, Zenon DEF SetMode
  <2>2. started => Sheet(r.con)
    BY ModeSetSheet DEF SheetInv
  <2> HIDE DEF r
  <2> QED BY <1>2, <2>1, <2>2
<1>7. ASSUME NEW alloc, NEW accepts, Reset(alloc, accepts) PROVE SheetInv'
  <2> DEFINE r == SetModeFn(con, 0, alloc, accepts)
             d == SetAttributeFn(r.con, Foreground(r.con.attr))
             c == IF r.status = "SUCCESS" THEN d ELSE r.con
  <2>1. Call("Reset", c, r.status, r.status = "SUCCESS" /\ OwnScreen(c),
             r.status \in {"OUT_OF_RESOURCES", "DEVICE_ERROR"})
    BY <1>7, Zenon DEF Reset
  <2>2. started => Sheet(r.con)
    BY ModeSetSheet DEF SheetInv
  <2> HIDE DEF r
  <2>3. started => Sheet(d)
    BY <2>2, ColouredSheet
  <2> HIDE DEF d
  <2>4. started => Sheet(c)
    BY <2>2, <2>3
  <2> HIDE DEF c
  <2> QED BY <1>2, <2>1, <2>4
<1>8. ASSUME NEW str \in Strings, NEW draws, OutputString(str, draws) PROVE SheetInv'
  <2> DEFINE c == OutputStringFn(con, str, draws)
             status == IF draws THEN "SUCCESS" ELSE "WARN_UNKNOWN_GLYPH"
  <2>1. \/ Call("OutputString", con, "UNSUPPORTED", FALSE, FALSE)
        \/ Call("OutputString", c, status, FALSE, ~draws)
    BY <1>8, Zenon DEF OutputString
  <2>2. started => Sheet(c)
    <3>1. str \in Seq(STRING)
      BY StringAssumption
    <3> QED BY <3>1, StringSheet DEF SheetInv
  <2>3. started => Sheet(con)
    BY DEF SheetInv
  <2> HIDE DEF c, status
  <2> QED BY <1>2, <2>1, <2>2, <2>3
<1>9. ASSUME NEW a, SetAttribute(a) PROVE SheetInv'
  <2> DEFINE c == SetAttributeFn(con, a)
  <2>1. \/ Call("SetAttribute", con, "UNSUPPORTED", FALSE, FALSE)
        \/ Call("SetAttribute", c, "SUCCESS", FALSE, FALSE)
    BY <1>9, Zenon DEF SetAttribute
  <2>2. started => Sheet(con) /\ Sheet(c)
    BY ColouredSheet DEF SheetInv
  <2> HIDE DEF c
  <2> QED BY <1>2, <2>1, <2>2
<1>10. CASE ClearScreen
  <2> DEFINE r == ClearScreenFn(con)
  <2>1. \/ Call("ClearScreen", con, "UNSUPPORTED", FALSE, FALSE)
        \/ Call("ClearScreen", r.con, r.status, OwnScreen(con), FALSE)
    BY <1>10, Zenon DEF ClearScreen
  <2>2. started => Sheet(con) /\ Sheet(r.con)
    BY ClearedSheet DEF SheetInv
  <2> HIDE DEF r
  <2> QED BY <1>2, <2>1, <2>2
<1>11. ASSUME NEW cell, SetCursorPosition(cell) PROVE SheetInv'
  <2> DEFINE d1 == FlushCursor(con)
             d2 == [d1 EXCEPT !.cursor = cell]
             d == FlushCursor(d2)
             c == IF cell = con.cursor THEN con ELSE d
  <2>1. \/ Call("SetCursorPosition", con, "UNSUPPORTED", FALSE, FALSE)
        \/ Call("SetCursorPosition", c, "SUCCESS", FALSE, FALSE)
    BY <1>11, Zenon DEF SetCursorPosition
  <2>2. started => Sheet(con) /\ Sheet(d1)
    BY FlushedSheet DEF SheetInv
  <2> HIDE DEF d1
  <2>3. started => Sheet(d2)
    BY <2>2, MovedSheet
  <2> HIDE DEF d2
  <2>4. started => Sheet(d)
    BY <2>3, FlushedSheet
  <2> HIDE DEF d
  <2>5. started => Sheet(con) /\ Sheet(c)
    BY <2>2, <2>4
  <2> HIDE DEF c
  <2> QED BY <1>2, <2>1, <2>5
<1>12. ASSUME NEW visible, EnableCursor(visible) PROVE SheetInv'
  <2> DEFINE d1 == FlushCursor(con)
             d2 == [d1 EXCEPT !.visible = visible]
             d == FlushCursor(d2)
  <2>1. \/ Call("EnableCursor", con, "UNSUPPORTED", FALSE, FALSE)
        \/ Call("EnableCursor", d, "SUCCESS", FALSE, FALSE)
    BY <1>12, Zenon DEF EnableCursor
  <2>2. started => Sheet(con) /\ Sheet(d1)
    BY FlushedSheet DEF SheetInv
  <2> HIDE DEF d1
  <2>3. started => DOMAIN d2 = ConFields /\ d2.mode = d1.mode /\ d2.modes = d1.modes /\ d2.text = d1.text
    BY <2>2 DEF Sheet, ConFields
  <2> HIDE DEF d2
  <2>4. started => Sheet(d2)
    BY <2>2, <2>3, SheetOther
  <2>5. started => Sheet(d)
    BY <2>4, FlushedSheet
  <2> HIDE DEF d
  <2> QED BY <1>2, <2>1, <2>2, <2>5
<1>13. CASE UNCHANGED vars
  BY <1>13 DEF vars, SheetInv
<1> QED
  BY <1>1, <1>3, <1>4, <1>5, <1>6, <1>7, <1>8, <1>9, <1>10, <1>11, <1>12, <1>13, Zenon DEF Next

-----------------------------------------------------------------------------
(* What a character writes in a text window that is on the screen            *)

Legible(c) == Console(c) /\ c.mode # -1 /\ OnScreen(c, Origin, Size(c))

LEMMA InSide ==
  ASSUME NEW w \in Nat \ {0}, NEW need \in Nat, NEW have \in Nat, 4 * have <= w, NEW r \in Int,
         NEW a \in Nat, NEW b \in Nat, a + b <= need,
         (((r % w) \div 2) % w) + need <= have
  PROVE  ((a + ((r % w) \div 2)) % w) + b <= have
<1> DEFINE m == r % w
           h == m \div 2
           p == (a + h) % w
<1>1. m \in Nat /\ m < w
  OBVIOUS
<1> HIDE DEF m
<1>2. h \in Nat /\ h < w
  BY <1>1
<1> HIDE DEF h
<1>3. h % w = h
  BY <1>2, Remainder
<1>4. h + need <= have
  BY <1>3 DEF h, m
<1>5. a + h \in Int /\ 0 <= a + h /\ a + h < w
  BY <1>2, <1>4
<1>6. p = a + h
  BY <1>5, Remainder
<1> HIDE DEF p
<1>7. p + b <= have
  BY <1>2, <1>4, <1>6
<1> QED BY <1>7 DEF p, h, m

(* What lies in the window is on the screen.                                 *)
LEMMA InWindow ==
  ASSUME NEW c, Legible(c), NEW cell \in Nat \X Nat, NEW block \in (Nat \ {0}) \X (Nat \ {0}),
         cell[1] + block[1] <= Columns(c), cell[2] + block[2] <= Rows(c)
  PROVE  OnScreen(c, cell, block)
<1> DEFINE pixel(i) == CellPixel(cell, Size(c), c.res)[i]
           first(i) == CellPixel(Origin, Size(c), c.res)[i]
           have(i) == ResolutionOf(c.gop)[i]
<1>0. \A i \in 1..2 : first(i) + Size(c)[i] * Glyph[i] <= have(i)
  BY Zenon DEF Legible, OnScreen
<1>1. ASSUME NEW i \in 1..2
      PROVE  pixel(i) + block[i] * Glyph[i] <= have(i)
  <2> DEFINE G == Glyph[i]
             s == Size(c)[i]
             k == cell[i]
             n == block[i]
             r == c.res[i]
             h == have(i)
  <2>1. G \in Nat \ {0} /\ s \in Nat /\ k \in Nat /\ n \in Nat \ {0} /\ k + n <= s
    <3>1. Glyph \in (Nat \ {0}) \X (Nat \ {0})
      BY GlyphAssumption
    <3>2. i = 1 \/ i = 2
      OBVIOUS
    <3>3. Usable(Size(c))
      BY ModeInForce DEF Legible
    <3> QED BY <3>1, <3>2, <3>3 DEF Usable, Columns, Rows
  <2>2. r \in Nat /\ h \in Nat /\ 4 * h <= Word
    <3>1. \A m \in GopNumbers : ResolutionOf(m)[i] \in Nat /\ 4 * ResolutionOf(m)[i] <= Word
      <4> TAKE m \in GopNumbers
      <4>1. GopModes \in Seq(Nat \X Nat) /\ Len(GopModes) \in Nat /\ m \in 0..Len(GopModes) - 1
        BY GopAssumption DEF GopNumbers
      <4>2. \A x \in 0..Len(GopModes) - 1 : x + 1 \in 1..Len(GopModes)
        BY <4>1
      <4>3. GopModes[m + 1] \in Nat \X Nat /\ 4 * GopModes[m + 1][i] <= Word
        BY <4>1, <4>2, RoomAssumption
      <4>4. i = 1 \/ i = 2
        OBVIOUS
      <4> QED BY <4>3, <4>4 DEF ResolutionOf
    <3>2. c.gop \in GopNumbers /\ c.gopMode \in GopNumbers /\ ResolutionOf(c.gopMode) = c.res
      BY DEF Legible, Console
    <3> QED BY <3>1, <3>2, Zenon
  <2>3. pixel(i) = (k * G + Delta(r, s * G)) % Word /\ first(i) = (0 * G + Delta(r, s * G)) % Word
    <3>1. Origin[i] = 0
      BY DEF Origin
    <3> QED BY <3>1 DEF CellPixel
  <2>4. first(i) + s * G <= h
    BY <1>0
  <2> HIDE DEF G, s, k, n, r, pixel, first, have, h
  <2> DEFINE a == k * G
             b == n * G
             need == s * G
             v == r - need
  <2>5. a \in Nat /\ b \in Nat /\ need \in Nat /\ a + b <= need
    <3>1. G * (k + n) <= G * s
      BY <2>1, TimesMonotone
    <3>2. G * (k + n) = k * G + n * G /\ G * s = s * G /\ k * G \in Nat /\ n * G \in Nat /\ s * G \in Nat
      BY <2>1
    <3> QED BY <2>1, <3>1, <3>2
  <2>6. Word \in Nat \ {0}
    BY WordAssumption
  <2>7. pixel(i) = (a + ((v % Word) \div 2)) % Word /\ first(i) = (0 * G + ((v % Word) \div 2)) % Word
    BY <2>3 DEF Delta
  <2>8. 0 * G + ((v % Word) \div 2) = (v % Word) \div 2
    <3>1. v \in Int
      BY <2>2, <2>5
    <3> HIDE DEF v
    <3>2. v % Word \in Nat
      BY <2>6, <3>1
    <3> QED BY <2>1, <3>2
  <2>9. v \in Int
    BY <2>2, <2>5
  <2> HIDE DEF v
  <2>10. first(i) = ((v % Word) \div 2) % Word
    BY <2>7, <2>8, Zenon
  <2>11. (((v % Word) \div 2) % Word) + need <= h
    BY <2>4, <2>10, Zenon
  <2> HIDE DEF a, b, need
  <2>12. ((a + ((v % Word) \div 2)) % Word) + b <= h
    BY <2>2, <2>5, <2>6, <2>9, <2>11, InSide
  <2>13. pixel(i) + b <= h
    BY <2>7, <2>12, Zenon
  <2> QED BY <2>13 DEF b, h, have, n, G
<1>2. OnScreen(c, cell, block) <=> \A i \in 1..2 : pixel(i) + block[i] * Glyph[i] <= have(i)
  BY Zenon DEF OnScreen
<1> HIDE DEF pixel, have, first
<1> QED BY <1>1, <1>2, Zenon

(* What a character changes: its cell, and then, if that was the last one,   *)
(* all cells move up by a row.                                               *)
New(d, ch, cell) == IF cell = d.cursor THEN ch ELSE d.text[cell]
AtEnd(d, c)      == d.cursor[1] + 1 = Columns(c) /\ d.cursor[2] + 1 = Rows(c)
After(d, c) ==
  IF d.cursor[1] + 1 < Columns(c) THEN <<d.cursor[1] + 1, d.cursor[2]>>
  ELSE IF d.cursor[2] + 1 < Rows(c) THEN <<0, d.cursor[2] + 1>> ELSE <<0, d.cursor[2]>>

Typed(d, ch, e, c) ==
  /\ Same(e, c) /\ Sheet(e) /\ e.cursor = After(d, c)
  /\ ~AtEnd(d, c) => \A cell \in Cells(c) : e.text[cell] = New(d, ch, cell)
  /\ AtEnd(d, c) =>
       \A cell \in Cells(c) :
         e.text[cell] = IF cell[2] < Rows(c) - 1 THEN New(d, ch, <<cell[1], cell[2] + 1>>) ELSE " "

(* The end of a line: to the start of the next row, or of a blank one.       *)
LineEnded(d, e, c) ==
  /\ Same(e, c) /\ Sheet(e)
  /\ d.cursor[2] + 1 < Rows(c) => e.cursor = <<0, d.cursor[2] + 1>> /\ e.text = d.text
  /\ d.cursor[2] + 1 = Rows(c) =>
       e.cursor = <<0, d.cursor[2]>> /\ \A cell \in Cells(c) : e.text[cell] = Up(d, cell)
LEMMA CrLfWrites ==
  ASSUME NEW c, Legible(c), NEW d, Same(d, c), Sheet(d), d.cursor \in Nat \X Nat, d.cursor[2] < Rows(c),
         NEW e, e = FlushCursor(CrLfString(FlushCursor(d)))
  PROVE  LineEnded(d, e, c)
<1> DEFINE d1 == FlushCursor(d)
           d2 == FlushCursor(d1)
           d3 == CarriageReturn(d2)
           d4 == LineFeed(d3)
           d5 == FlushCursor(d4)
<1>1. e = FlushCursor(d5)
  BY Zenon DEF CrLfString
<1>2. Sheet(d1) /\ Same(d1, d) /\ d1.cursor = d.cursor /\ d1.text = d.text
  BY FlushedSheet
<1> HIDE DEF d1
<1>3. Sheet(d2) /\ Same(d2, d1) /\ d2.cursor = d.cursor /\ d2.text = d.text
  BY <1>2, FlushedSheet
<1> HIDE DEF d2
<1>4. Same(d2, c)
  BY <1>2, <1>3, SameTransitive
<1>5. d3 = [d2 EXCEPT !.cursor = <<0, d.cursor[2]>>]
  <2>1. d3 = [d2 EXCEPT !.cursor = [d2.cursor EXCEPT ![1] = 0]]
    BY DEF CarriageReturn
  <2>2. [d2.cursor EXCEPT ![1] = 0] = <<0, d.cursor[2]>>
    BY <1>3
  <2> QED BY <2>1, <2>2
<1> HIDE DEF d3
<1>6. Sheet(d3) /\ Same(d3, d2) /\ d3.cursor = <<0, d.cursor[2]>> /\ d3.text = d.text
  BY <1>3, <1>5, MovedSheet
<1>7. Same(d3, c)
  BY <1>4, <1>6, SameTransitive
<1>8. Rows(d3) = Rows(c) /\ Columns(d3) = Columns(c) /\ Cells(d3) = Cells(c) /\ Rows(d) = Rows(c)
      /\ Rows(c) \in Nat /\ Columns(c) \in Nat /\ Columns(c) >= 2 /\ Rows(c) >= 1
  BY <1>7, SameScreen, ModeInForce DEF Legible
<1>9. CASE d.cursor[2] + 1 = Rows(c)
  <2>1. d3.cursor[2] = Rows(d3) - 1
    BY <1>6, <1>8, <1>9
  <2>2. d4 = Scroll(d3)
    BY <2>1, Zenon DEF LineFeed
  <2> HIDE DEF d4
  <2>3. OnScreen(d3, <<0, Rows(d3) - 1>>, <<Columns(d3), 1>>)
    <3> DEFINE at == <<0, Rows(c) - 1>>
               b == <<Columns(c), 1>>
    <3>1. at \in Nat \X Nat /\ b \in (Nat \ {0}) \X (Nat \ {0})
          /\ at[1] + b[1] <= Columns(c) /\ at[2] + b[2] <= Rows(c)
      BY <1>8
    <3> HIDE DEF at, b
    <3>2. OnScreen(c, at, b)
      BY <3>1, InWindow
    <3>3. OnScreen(d3, at, b)
      BY <1>7, <3>2, SameScreen
    <3> QED BY <1>8, <3>3 DEF at, b
  <2>4. /\ Sheet(d4) /\ Same(d4, d3) /\ d4.cursor = d3.cursor
        /\ \A cell \in Cells(c) : d4.text[cell] = Up(d3, cell)
    BY <1>6, <1>8, <2>2, <2>3, ScrolledSheet
  <2>5. Sheet(d5) /\ Same(d5, d4) /\ d5.cursor = d4.cursor /\ d5.text = d4.text
    BY <2>4, FlushedSheet
  <2> HIDE DEF d5
  <2>6. Sheet(e) /\ Same(e, d5) /\ e.cursor = d5.cursor /\ e.text = d5.text
    BY <1>1, <2>5, FlushedSheet
  <2>7. Same(e, c)
    BY <1>7, <2>4, <2>5, <2>6, SameTransitive
  <2>8. \A cell \in Cells(c) : Up(d3, cell) = Up(d, cell)
    BY <1>6, <1>8, Zenon DEF Up
  <2> QED BY <1>6, <1>8, <1>9, <2>4, <2>5, <2>6, <2>7, <2>8 DEF LineEnded
<1>10. CASE d.cursor[2] + 1 < Rows(c)
  <2>1. d3.cursor[2] # Rows(d3) - 1
    BY <1>6, <1>8, <1>10
  <2>2. d4 = [d3 EXCEPT !.cursor = <<0, d.cursor[2] + 1>>]
    <3>1. d4 = [d3 EXCEPT !.cursor[2] = @ + 1]
      BY <2>1, Zenon DEF LineFeed
    <3>2. d4 = [d3 EXCEPT !.cursor = [d3.cursor EXCEPT ![2] = @ + 1]]
      BY <3>1
    <3>3. [d3.cursor EXCEPT ![2] = @ + 1] = <<0, d.cursor[2] + 1>>
      BY <1>6
    <3> QED BY <3>2, <3>3
  <2> HIDE DEF d4
  <2>4. Sheet(d4) /\ Same(d4, d3) /\ d4.cursor = <<0, d.cursor[2] + 1>> /\ d4.text = d.text
    BY <1>6, <2>2, MovedSheet
  <2>5. Sheet(d5) /\ Same(d5, d4) /\ d5.cursor = d4.cursor /\ d5.text = d4.text
    BY <2>4, FlushedSheet
  <2> HIDE DEF d5
  <2>6. Sheet(e) /\ Same(e, d5) /\ e.cursor = d5.cursor /\ e.text = d5.text
    BY <1>1, <2>5, FlushedSheet
  <2>7. Same(e, c)
    BY <1>7, <2>4, <2>5, <2>6, SameTransitive
  <2> QED BY <1>8, <1>10, <2>4, <2>5, <2>6, <2>7 DEF LineEnded
<1>11. d.cursor[2] + 1 = Rows(c) \/ d.cursor[2] + 1 < Rows(c)
  BY <1>8
<1> QED BY <1>8, <1>9, <1>10, <1>11

LEMMA NarrowTyped ==
  ASSUME NEW c, Legible(c), NEW d, Same(d, c), Sheet(d), d.cursor \in Cells(c),
         NEW ch, NEW draws, draws = TRUE, NEW e, e = PutNarrow(d, ch, draws)
  PROVE  Typed(d, ch, e, c)
<1> DEFINE d1 == Draw(d, ch, 1, draws)
           d2 == [d1 EXCEPT !.cursor[1] = @ + 1]
           x == d.cursor[1]
           y == d.cursor[2]
<1>1. e = Wrap(d2)
  BY Zenon DEF PutNarrow
<1>2. /\ Columns(d) = Columns(c) /\ Rows(d) = Rows(c) /\ Cells(d) = Cells(c)
      /\ Rows(c) \in Nat /\ Columns(c) \in Nat /\ Columns(c) >= 2 /\ Rows(c) >= 1
      /\ d.cursor \in Nat \X Nat /\ x < Columns(c) /\ y < Rows(c) /\ d.cursor = <<x, y>>
  <2>1. Columns(d) = Columns(c) /\ Rows(d) = Rows(c) /\ Cells(d) = Cells(c)
    BY SameScreen
  <2>2. Console(d) /\ d.mode # -1
    <3>1. Console(c) /\ d.mode = c.mode /\ c.mode # -1
      BY DEF Legible, Same
    <3> QED BY <3>1, SameConsole
  <2>3. /\ Columns(d) \in Nat /\ Columns(d) >= 2 /\ Rows(d) \in Nat /\ Rows(d) >= 1
        /\ d.cursor \in Nat \X Nat /\ x < Columns(d) /\ y < Rows(d)
    BY <2>2, ModeInForce
  <2> QED BY <2>1, <2>3
<1> HIDE DEF x, y
<1>3. OnScreen(d, d.cursor, <<1, 1>>)
  <2> DEFINE b == <<1, 1>>
  <2>1. b \in (Nat \ {0}) \X (Nat \ {0}) /\ b[1] = 1 /\ b[2] = 1
    OBVIOUS
  <2> HIDE DEF b
  <2>2. d.cursor[1] + b[1] <= Columns(c) /\ d.cursor[2] + b[2] <= Rows(c)
    BY <1>2, <2>1 DEF x, y
  <2>3. OnScreen(c, d.cursor, b)
    BY <1>2, <2>1, <2>2, InWindow
  <2>4. OnScreen(d, d.cursor, b)
    BY <2>3, SameScreen
  <2> QED BY <2>4 DEF b
<1>4. BlockAt(d.cursor, 1) = {d.cursor}
  <2>1. \A k \in 0..1 - 1 : k = 0
    OBVIOUS
  <2>2. <<d.cursor[1] + 0, d.cursor[2]>> = d.cursor
    BY <1>2 DEF x, y
  <2> QED BY <2>1, <2>2 DEF BlockAt
<1>5. /\ Sheet(d1) /\ Same(d1, d) /\ d1.cursor = d.cursor
      /\ \A cell \in Cells(c) : d1.text[cell] = New(d, ch, cell)
  <2>1. /\ Sheet(d1) /\ Same(d1, d) /\ d1.cursor = d.cursor
        /\ \A cell \in Cells(c) : d1.text[cell] = IF cell \in BlockAt(d.cursor, 1) THEN ch ELSE d.text[cell]
    <3>1. d1 = Draw(d, ch, 1, draws)
      OBVIOUS
    <3> HIDE DEF d1
    <3>2. DrawnOn(d1, d, ch, 1, draws)
      BY <3>1, DrewSheet
    <3> QED BY <1>2, <1>3, <3>2, Zenon DEF DrawnOn
  <2> HIDE DEF d1
  <2> QED BY <1>4, <2>1, Zenon DEF New
<1> HIDE DEF d1
<1>6. d2 = [d1 EXCEPT !.cursor = <<x + 1, y>>]
  <2>1. d2 = [d1 EXCEPT !.cursor = [d1.cursor EXCEPT ![1] = @ + 1]]
    OBVIOUS
  <2>2. [d1.cursor EXCEPT ![1] = @ + 1] = <<x + 1, y>>
    BY <1>2, <1>5
  <2> QED BY <2>1, <2>2
<1> HIDE DEF d2
<1>7. Sheet(d2) /\ Same(d2, d1) /\ d2.cursor = <<x + 1, y>> /\ d2.text = d1.text
  BY <1>5, <1>6, MovedSheet
<1>8. Same(d2, c)
  BY <1>5, <1>7, SameTransitive
<1>9. Columns(d2) = Columns(c) /\ Rows(d2) = Rows(c) /\ Cells(d2) = Cells(c)
      /\ d2.cursor[1] = x + 1 /\ d2.cursor[2] = y /\ x \in Nat /\ y \in Nat
  BY <1>2, <1>7, <1>8, SameScreen
<1>10. CASE x + 1 < Columns(c)
  <2>1. ~(d2.cursor[1] >= Columns(d2))
    BY <1>2, <1>9, <1>10
  <2>2. e = d2
    BY <1>1, <2>1, Zenon DEF Wrap
  <2>3. ~AtEnd(d, c) /\ After(d, c) = <<x + 1, y>>
    BY <1>2, <1>10 DEF AtEnd, After, x, y
  <2> QED BY <1>5, <1>7, <1>8, <2>2, <2>3 DEF Typed
<1>11. CASE x + 1 = Columns(c)
  <2>1. d2.cursor[1] >= Columns(d2)
    BY <1>2, <1>9, <1>11
  <2>2. e = FlushCursor(CrLfString(FlushCursor(d2)))
    BY <1>1, <2>1, Zenon DEF Wrap
  <2>3. d2.cursor \in Nat \X Nat /\ d2.cursor[2] < Rows(c)
    BY <1>2, <1>7, <1>9
  <2>4. /\ Same(e, c) /\ Sheet(e)
        /\ y + 1 < Rows(c) => e.cursor = <<0, y + 1>> /\ e.text = d2.text
        /\ y + 1 = Rows(c) =>
              e.cursor = <<0, y>> /\ \A cell \in Cells(c) : e.text[cell] = Up(d2, cell)
    <3>1. LineEnded(d2, e, c)
      BY <1>7, <1>8, <2>2, <2>3, CrLfWrites
    <3> QED BY <1>9, <3>1 DEF LineEnded
  <2>5. CASE y + 1 < Rows(c)
    <3>1. ~AtEnd(d, c) /\ After(d, c) = <<0, y + 1>>
      BY <1>2, <1>11, <2>5 DEF AtEnd, After, x, y
    <3> QED BY <1>5, <1>7, <2>4, <2>5, <3>1 DEF Typed
  <2>6. CASE y + 1 = Rows(c)
    <3>1. AtEnd(d, c) /\ After(d, c) = <<0, y>>
      BY <1>2, <1>11, <2>6 DEF AtEnd, After, x, y
    <3>2. \A cell \in Cells(c) : e.text[cell] = IF cell[2] < Rows(c) - 1 THEN New(d, ch, <<cell[1], cell[2] + 1>>) ELSE " "
      <4> TAKE cell \in Cells(c)
      <4>1. e.text[cell] = IF cell[2] < Rows(c) - 1 THEN d1.text[<<cell[1], cell[2] + 1>>] ELSE " "
        BY <1>7, <1>9, <2>4, <2>6, Zenon DEF Up
      <4>2. cell[2] < Rows(c) - 1 => <<cell[1], cell[2] + 1>> \in Cells(c)
        BY <1>2 DEF Cells
      <4> QED BY <1>5, <4>1, <4>2, Zenon
    <3> QED BY <2>4, <2>6, <3>1, <3>2 DEF Typed
  <2>7. y + 1 < Rows(c) \/ y + 1 = Rows(c)
    BY <1>2, <1>9
  <2> QED BY <2>5, <2>6, <2>7
<1>12. x + 1 < Columns(c) \/ x + 1 = Columns(c)
  BY <1>2, <1>9
<1> QED BY <1>10, <1>11, <1>12

LEMMA TypedFrom ==
  ASSUME NEW c, NEW d, NEW q, q.cursor = d.cursor, q.text = d.text, NEW ch, NEW e, Typed(q, ch, e, c)
  PROVE  Typed(d, ch, e, c)
BY Zenon DEF Typed, New, AtEnd, After

LEMMA SpaceTyped ==
  ASSUME NEW c, Legible(c), NEW d, Same(d, c), Sheet(d), d.cursor \in Cells(c),
         NEW draws, draws = TRUE, NEW e, e = SpaceStr(d, draws)
  PROVE  Typed(d, " ", e, c)
<1> DEFINE d1 == FlushCursor(d)
           d2 == PutNarrow(d1, " ", draws)
<1>1. Sheet(d1) /\ Same(d1, d) /\ d1.cursor = d.cursor /\ d1.text = d.text
  BY FlushedSheet
<1> HIDE DEF d1
<1>2. Same(d1, c)
  BY <1>1, SameTransitive
<1>3. Typed(d1, " ", d2, c)
  BY <1>1, <1>2, NarrowTyped
<1>4. e = FlushCursor(d2)
  BY Zenon DEF SpaceStr, d1
<1> HIDE DEF d2
<1>5. Sheet(e) /\ Same(e, d2) /\ e.cursor = d2.cursor /\ e.text = d2.text
  BY <1>3, <1>4, FlushedSheet DEF Typed
<1>6. Same(e, c)
  BY <1>3, <1>5, SameTransitive DEF Typed
<1>7. Typed(d1, " ", e, c)
  BY <1>3, <1>5, <1>6, Zenon DEF Typed
<1> QED BY <1>1, <1>7, TypedFrom

-----------------------------------------------------------------------------
(* A character and a backspace                                               *)

LEMMA CursorIn ==
  ASSUME NEW c, Legible(c), NEW d, Same(d, c), d.cursor \in Cells(c)
  PROVE  /\ Columns(d) = Columns(c) /\ Rows(d) = Rows(c) /\ Cells(d) = Cells(c)
         /\ Columns(c) \in Nat /\ Columns(c) >= 2 /\ Rows(c) \in Nat /\ Rows(c) >= 1
         /\ d.cursor \in Nat \X Nat /\ d.cursor = <<d.cursor[1], d.cursor[2]>>
         /\ d.cursor[1] \in Nat /\ d.cursor[2] \in Nat
         /\ d.cursor[1] < Columns(c) /\ d.cursor[2] < Rows(c)
<1>1. Columns(d) = Columns(c) /\ Rows(d) = Rows(c) /\ Cells(d) = Cells(c)
  BY SameScreen
<1>2. Console(d) /\ d.mode # -1
  <2>1. Console(c) /\ d.mode = c.mode /\ c.mode # -1
    BY DEF Legible, Same
  <2> QED BY <2>1, SameConsole
<1>3. /\ Columns(d) \in Nat /\ Columns(d) >= 2 /\ Rows(d) \in Nat /\ Rows(d) >= 1
      /\ d.cursor \in Nat \X Nat /\ d.cursor[1] < Columns(d) /\ d.cursor[2] < Rows(d)
  BY <1>2, ModeInForce
<1> QED BY <1>1, <1>3

LEMMA PutCharacter ==
  ASSUME NEW c, NEW ch, ch \notin Controls, NEW draws, NEW wide, ~wide,
         NEW e, e = Put(c, wide, ch, draws)
  PROVE  e.con = PutNarrow(c, ch, draws) /\ e.wide = wide
BY DEF Put, Controls

LEMMA PutBackspace ==
  ASSUME NEW c, NEW ch, ch = "BACKSPACE", NEW draws, NEW wide, NEW e, e = Put(c, wide, ch, draws)
  PROVE  e.con = Backspace(c, draws)
BY DEF Put

Surely(draws) == draws = TRUE

Erasing(str) ==
  /\ \E S : str \in Seq(S)
  /\ Len(str) = 2 /\ str[1] \notin Controls /\ str[2] = "BACKSPACE"

Blanked(d, c) == d.cursor = c.cursor /\ d.text = [c.text EXCEPT ![c.cursor] = " "]

LEMMA Erased ==
  ASSUME NEW c, Legible(c), Sheet(c), ~AtEnd(c, c), NEW draws, Surely(draws), NEW str, Erasing(str),
         NEW d, d = OutputStringFn(c, str, draws)
  PROVE  Blanked(d, c)
<1> DEFINE c1 == FlushCursor(c)
           ch == str[1]
           base == [con |-> FlushCursor(c), wide |-> FALSE]
           c2 == PutNarrow(c1, ch, draws)
           c3 == Backspace(c2, draws)
           b1 == [c2 EXCEPT !.cursor = c.cursor]
           b2 == SpaceStr(b1, draws)
           b3 == FlushCursor(b2)
<1>1. d = FlushCursor(c3)
  <2>1. \E g : PutRun(g, base, str, draws, Len(str)) /\ d = FlushCursor(g[1..Len(str)].con)
    <3>1. PICK S : str \in Seq(S)
      BY DEF Erasing
    <3> QED BY <3>1, StringRun
  <2>2. PICK g : PutRun(g, base, str, draws, 2) /\ d = FlushCursor(g[1..2].con)
    BY <2>1, Zenon DEF Erasing
  <2>3. base.con = c1 /\ base.wide = FALSE
    OBVIOUS
  <2> HIDE DEF base, c1
  <2>4. \A k \in 0..2 - 1 : g[1..k + 1] = Put(g[1..k].con, g[1..k].wide, str[k + 1], draws)
    BY <2>2, Zenon DEF PutRun
  <2>5. 0 \in 0..2 - 1 /\ 1 \in 0..2 - 1 /\ 0 + 1 = 1 /\ 1 + 1 = 2
    OBVIOUS
  <2>6. g[1..0] = base
    BY <2>2, Zenon DEF PutRun
  <2>7. g[1..1] = Put(g[1..0].con, g[1..0].wide, ch, draws)
    BY <2>4, <2>5
  <2>8. g[1..1].con = PutNarrow(g[1..0].con, ch, draws)
    <3>1. ch \notin Controls
      BY Zenon DEF Erasing
    <3> HIDE DEF ch
    <3>2. ~g[1..0].wide
      BY <2>3, <2>6
    <3> QED BY <2>7, <3>1, <3>2, PutCharacter
  <2>9. g[1..2] = Put(g[1..1].con, g[1..1].wide, str[2], draws)
    BY <2>4, <2>5
  <2>10. g[1..2].con = Backspace(g[1..1].con, draws)
    <3>1. str[2] = "BACKSPACE"
      BY Zenon DEF Erasing
    <3> QED BY <2>9, <3>1, PutBackspace
  <2> QED BY <2>2, <2>3, <2>6, <2>8, <2>10, Zenon
<1>2. Sheet(c1) /\ Same(c1, c) /\ c1.cursor = c.cursor /\ c1.text = c.text
  BY FlushedSheet
<1> HIDE DEF c1
<1>3. c.cursor \in Cells(c) /\ Same(c, c)
  BY DEF Legible, Console, Same
<1>4. Typed(c1, ch, c2, c)
  BY <1>2, <1>3, NarrowTyped DEF Surely
<1>5. Typed(c, ch, c2, c)
  BY <1>2, <1>4, TypedFrom
<1> HIDE DEF c2, ch
<1>6. /\ Columns(c) \in Nat /\ Columns(c) >= 2 /\ Rows(c) \in Nat /\ Rows(c) >= 1
      /\ c.cursor = <<c.cursor[1], c.cursor[2]>> /\ c.cursor[1] \in Nat /\ c.cursor[2] \in Nat
      /\ c.cursor[1] < Columns(c) /\ c.cursor[2] < Rows(c)
  BY <1>3, CursorIn
<1>7. Same(c2, c) /\ Sheet(c2) /\ c2.cursor = After(c, c)
      /\ \A cell \in Cells(c) : c2.text[cell] = New(c, ch, cell)
  BY <1>5 DEF Typed
<1>8. Columns(c2) = Columns(c)
  BY <1>7, SameScreen
<1>9. /\ c2.cursor # Origin
      /\ c.cursor = IF c2.cursor[1] > 0 THEN <<c2.cursor[1] - 1, c2.cursor[2]>>
                    ELSE <<Columns(c2) - 1, c2.cursor[2] - 1>>
  <2>1. CASE c.cursor[1] + 1 < Columns(c)
    <3>1. c2.cursor = <<c.cursor[1] + 1, c.cursor[2]>>
      BY <1>7, <2>1 DEF After
    <3>2. c2.cursor[1] = c.cursor[1] + 1 /\ c2.cursor[2] = c.cursor[2] /\ c2.cursor[1] > 0
          /\ c2.cursor[1] - 1 = c.cursor[1]
      BY <1>6, <3>1
    <3> QED BY <1>6, <3>2 DEF Origin
  <2>2. CASE ~(c.cursor[1] + 1 < Columns(c))
    <3>1. c.cursor[1] + 1 = Columns(c) /\ c.cursor[2] + 1 < Rows(c)
      BY <1>6, <2>2 DEF AtEnd
    <3>2. c2.cursor = <<0, c.cursor[2] + 1>>
      BY <1>7, <2>2, <3>1 DEF After
    <3>3. c2.cursor[1] = 0 /\ c2.cursor[2] = c.cursor[2] + 1 /\ c2.cursor[2] - 1 = c.cursor[2]
          /\ Columns(c2) - 1 = c.cursor[1] /\ c2.cursor[2] > 0
      BY <1>6, <1>8, <3>1, <3>2
    <3> QED BY <1>6, <3>3 DEF Origin
  <2> QED BY <2>1, <2>2
<1>10. c3 = [b3 EXCEPT !.cursor = c.cursor]
  BY <1>9, Zenon DEF Backspace
<1> HIDE DEF c3
<1>11. Sheet(b1) /\ Same(b1, c2) /\ b1.cursor = c.cursor /\ b1.text = c2.text
  BY <1>7, MovedSheet
<1> HIDE DEF b1
<1>12. Same(b1, c)
  BY <1>7, <1>11, SameTransitive
<1>13. Typed(b1, " ", b2, c)
  BY <1>3, <1>11, <1>12, SpaceTyped DEF Surely
<1> HIDE DEF b2
<1>14. Sheet(b2) /\ \A cell \in Cells(c) : b2.text[cell] = New(b1, " ", cell)
  <2>1. ~AtEnd(b1, c)
    BY <1>11 DEF AtEnd
  <2> QED BY <1>13, <2>1 DEF Typed
<1>15. Sheet(b3) /\ b3.text = b2.text
  BY <1>14, FlushedSheet
<1> HIDE DEF b3
<1>16. Sheet(c3) /\ c3.cursor = c.cursor /\ c3.text = b3.text
  BY <1>10, <1>15, MovedSheet
<1>17. Sheet(d) /\ Same(d, c3) /\ d.cursor = c.cursor /\ d.text = b2.text
  BY <1>1, <1>15, <1>16, FlushedSheet
<1>18. Cells(b2) = Cells(c)
  BY <1>13, SameScreen DEF Typed
<1>19. b2.text = [cell \in Cells(c) |-> IF cell = c.cursor THEN " " ELSE c.text[cell]]
  <2>1. b2.text = [cell \in Cells(c) |-> b2.text[cell]]
    BY <1>14, <1>18, Zenon DEF Sheet
  <2>2. \A cell \in Cells(c) : b2.text[cell] = IF cell = c.cursor THEN " " ELSE c.text[cell]
    BY <1>7, <1>11, <1>14, Zenon DEF New
  <2> QED BY <2>1, <2>2, Zenon
<1>20. [c.text EXCEPT ![c.cursor] = " "] = [cell \in Cells(c) |-> IF cell = c.cursor THEN " " ELSE c.text[cell]]
  <2>1. DOMAIN c.text = Cells(c)
    BY Zenon DEF Sheet
  <2> DEFINE t == c.text
             at == c.cursor
             S == Cells(c)
  <2>2. DOMAIN t = S
    BY <2>1
  <2> HIDE DEF t, at, S
  <2>3. [t EXCEPT ![at] = " "] = [cell \in S |-> IF cell = at THEN " " ELSE t[cell]]
    BY <2>2
  <2> QED BY <2>3 DEF t, at, S
<1> QED BY <1>17, <1>19, <1>20 DEF Blanked

LEMMA ReadableIsLegible ==
  ASSUME ConsoleInv, SheetInv, Readable
  PROVE  Legible(con) /\ Sheet(con)
BY DEF ConsoleInv, SheetInv, Readable, Legible

LEMMA SheetErases == ConsoleInv /\ SheetInv => BackspaceErases
<1> SUFFICES ASSUME ConsoleInv, SheetInv, Readable, con.cursor # <<Columns(con) - 1, Rows(con) - 1>>
             PROVE  LET after == OutputStringFn(con, <<"x", "BACKSPACE">>, TRUE)
                    IN after.cursor = con.cursor /\ after.text = [con.text EXCEPT ![con.cursor] = " "]
  BY DEF BackspaceErases
<1>1. Legible(con) /\ Sheet(con)
  BY ReadableIsLegible
<1>2. ~AtEnd(con, con)
  <2>1. con.cursor \in Cells(con) /\ Same(con, con)
    BY <1>1 DEF Legible, Console, Same
  <2>2. /\ Columns(con) \in Nat /\ Rows(con) \in Nat
        /\ con.cursor = <<con.cursor[1], con.cursor[2]>> /\ con.cursor[1] \in Nat /\ con.cursor[2] \in Nat
    BY <1>1, <2>1, CursorIn
  <2> QED BY <2>2 DEF AtEnd
<1> DEFINE str == <<"x", "BACKSPACE">>
<1>3. Erasing(str)
  <2>1. str[1] = "x" /\ str[2] = "BACKSPACE" /\ Len(str) = 2
    OBVIOUS
  <2>4. str \in Seq({"x", "BACKSPACE"})
    OBVIOUS
  <2> QED BY <2>1, <2>4 DEF Controls, Erasing
<1> HIDE DEF str
<1>4. \A d, draws : draws = TRUE /\ d = OutputStringFn(con, str, draws) =>
                      d.cursor = con.cursor /\ d.text = [con.text EXCEPT ![con.cursor] = " "]
  <2>1. \A d, draws : Surely(draws) /\ d = OutputStringFn(con, str, draws) => Blanked(d, con)
    BY <1>1, <1>2, <1>3, Erased
  <2> QED BY <2>1, Zenon DEF Surely, Blanked
<1>5. LET after == OutputStringFn(con, str, TRUE)
      IN after.cursor = con.cursor /\ after.text = [con.text EXCEPT ![con.cursor] = " "]
  BY <1>4, Zenon
<1> QED BY <1>5, Zenon DEF str

LEMMA SheetInit == Init => SheetInv
BY DEF Init, SheetInv

(* On any screen that holds the window, for any modes: a character and a     *)
(* backspace after it leave the cursor where it was, at a blank cell, and    *)
(* every other cell as it was.                                               *)
THEOREM BackspacesErase == Spec => []BackspaceErases
BY ConsoleInit, ConsoleStep, SheetInit, SheetStep, SheetErases, PTL DEF Spec

-----------------------------------------------------------------------------
(* Printing on paper                                                         *)

LEMMA PlaceSplit ==
  ASSUME NEW w \in Nat \ {0}, NEW y \in Nat, NEW x \in Nat, x < w
  PROVE  (y * w + x) \div w = y /\ (y * w + x) % w = x /\ y * w + x \in Nat
<1> DEFINE n == y * w + x
           q == n \div w
           r == n % w
<1>1. n \in Nat /\ y * w \in Nat
  OBVIOUS
<1> HIDE DEF n
<1>2. q \in Nat /\ r \in Nat /\ r < w /\ n = w * q + r
  BY <1>1
<1> HIDE DEF q, r
<1>3. w * q + r = w * y + x
  BY <1>2 DEF n
<1>4. ~(q < y)
  <2> SUFFICES ASSUME q < y PROVE FALSE
    OBVIOUS
  <2>1. w * (q + 1) <= w * y
    BY <1>2, TimesMonotone
  <2>2. w * (q + 1) = w * q + w /\ w * q \in Nat /\ w * y \in Nat
    BY <1>2
  <2> QED BY <1>2, <1>3, <2>1, <2>2
<1>5. ~(y < q)
  <2> SUFFICES ASSUME y < q PROVE FALSE
    OBVIOUS
  <2>1. w * (y + 1) <= w * q
    BY <1>2, TimesMonotone
  <2>2. w * (y + 1) = w * y + w /\ w * q \in Nat /\ w * y \in Nat
    BY <1>2
  <2> QED BY <1>2, <1>3, <2>1, <2>2
<1>6. q = y
  BY <1>2, <1>4, <1>5
<1>7. r = x
  BY <1>2, <1>3, <1>6
<1> QED BY <1>1, <1>6, <1>7 DEF q, r, n

LEMMA PlaceJoin ==
  ASSUME NEW w \in Nat \ {0}, NEW n \in Nat
  PROVE  n \div w \in Nat /\ n % w \in Nat /\ n % w < w /\ n = (n \div w) * w + (n % w)
<1>1. n \div w \in Nat /\ n % w \in Nat /\ n % w < w /\ n = w * (n \div w) + (n % w)
  OBVIOUS
<1> DEFINE q == n \div w
           r == n % w
<1>2. q \in Nat /\ r \in Nat /\ r < w /\ n = w * q + r
  BY <1>1
<1> HIDE DEF q, r
<1>3. w * q = q * w
  BY <1>2
<1> QED BY <1>2, <1>3 DEF q, r

(* The place after one.                                                      *)
LEMMA PlaceNext ==
  ASSUME NEW w \in Nat \ {0}, NEW n \in Nat
  PROVE  IF (n % w) + 1 < w
         THEN (n + 1) \div w = n \div w /\ (n + 1) % w = (n % w) + 1
         ELSE (n % w) + 1 = w /\ (n + 1) \div w = (n \div w) + 1 /\ (n + 1) % w = 0
<1> DEFINE q == n \div w
           r == n % w
<1>1. q \in Nat /\ r \in Nat /\ r < w /\ n = q * w + r
  BY PlaceJoin
<1> HIDE DEF q, r
<1>2. CASE r + 1 < w
  <2>1. n + 1 = q * w + (r + 1) /\ r + 1 \in Nat
    BY <1>1
  <2>2. (q * w + (r + 1)) \div w = q /\ (q * w + (r + 1)) % w = r + 1
    BY <1>1, <1>2, PlaceSplit
  <2>3. (n + 1) \div w = q /\ (n + 1) % w = r + 1
    BY <2>1, <2>2
  <2> QED BY <1>2, <2>3 DEF q, r
<1>3. CASE ~(r + 1 < w)
  <2>1. r + 1 = w
    BY <1>1, <1>3
  <2>2. (q + 1) * w = q * w + w
    BY <1>1
  <2>3. n + 1 = (q + 1) * w + 0 /\ q + 1 \in Nat
    BY <1>1, <2>1, <2>2
  <2>4. ((q + 1) * w + 0) \div w = q + 1 /\ ((q + 1) * w + 0) % w = 0
    BY <1>1, <2>3, PlaceSplit
  <2>5. (n + 1) \div w = q + 1 /\ (n + 1) % w = 0
    BY <2>3, <2>4
  <2> QED BY <1>3, <2>1, <2>5 DEF q, r
<1> QED BY <1>2, <1>3

(* After i characters of str printed on the console c: where the next one    *)
(* goes, how many rows of paper are above the window, and what the paper     *)
(* shows in its row y, column x.                                             *)
Begin(c)      == c.cursor[2] * Columns(c) + c.cursor[1]
Reached(c, i)   == Begin(c) + i
PaperRow(c, i)    == Reached(c, i) \div Columns(c)
PaperColumn(c, i) == Reached(c, i) % Columns(c)
Above(c, i) == IF PaperRow(c, i) > Rows(c) - 1 THEN PaperRow(c, i) - (Rows(c) - 1) ELSE 0
Paper(c, str, i, j) ==
  IF j \in Begin(c)..Reached(c, i) - 1 THEN str[j - Begin(c) + 1]
  ELSE IF j < Columns(c) * Rows(c) THEN c.text[<<j % Columns(c), j \div Columns(c)>>] ELSE " "

OnPaper(d, c, str, i) ==
  /\ Same(d, c) /\ Sheet(d) /\ d.cursor = <<PaperColumn(c, i), PaperRow(c, i) - Above(c, i)>>
  /\ \A x \in 0..Columns(c) - 1, y \in 0..Rows(c) - 1 :
       d.text[<<x, y>>] = Paper(c, str, i, (y + Above(c, i)) * Columns(c) + x)

PaperNumbers(c, i) ==
  /\ Columns(c) \in Nat \ {0} /\ Rows(c) \in Nat \ {0}
  /\ Begin(c) \in Nat /\ Reached(c, i) \in Nat /\ Begin(c) <= Reached(c, i)
  /\ PaperRow(c, i) \in Nat /\ PaperColumn(c, i) \in Nat /\ PaperColumn(c, i) < Columns(c)
  /\ Reached(c, i) = PaperRow(c, i) * Columns(c) + PaperColumn(c, i)
  /\ Above(c, i) \in Nat /\ PaperRow(c, i) - Above(c, i) \in 0..Rows(c) - 1
  /\ Above(c, i) > 0 => PaperRow(c, i) - Above(c, i) = Rows(c) - 1

LEMMA PaperFacts ==
  ASSUME NEW c, Legible(c), NEW i \in Nat
  PROVE  PaperNumbers(c, i)
<1>1. c.cursor \in Cells(c) /\ Same(c, c)
  BY DEF Legible, Console, Same
<1>2. /\ Columns(c) \in Nat \ {0} /\ Rows(c) \in Nat \ {0}
      /\ c.cursor[1] \in Nat /\ c.cursor[2] \in Nat /\ c.cursor[1] < Columns(c)
  BY <1>1, CursorIn
<1>3. Begin(c) \in Nat
  BY <1>2 DEF Begin
<1>4. Reached(c, i) \in Nat /\ Begin(c) <= Reached(c, i)
  BY <1>3 DEF Reached
<1>5. /\ PaperRow(c, i) \in Nat /\ PaperColumn(c, i) \in Nat /\ PaperColumn(c, i) < Columns(c)
      /\ Reached(c, i) = PaperRow(c, i) * Columns(c) + PaperColumn(c, i)
  <2> DEFINE n == Reached(c, i)
             w == Columns(c)
  <2>1. n \in Nat /\ w \in Nat \ {0}
    BY <1>2, <1>4
  <2> HIDE DEF n, w
  <2>2. n \div w \in Nat /\ n % w \in Nat /\ n % w < w /\ n = (n \div w) * w + (n % w)
    BY <2>1, PlaceJoin
  <2> QED BY <2>2, Zenon DEF PaperRow, PaperColumn, n, w
<1>6. /\ Above(c, i) \in Nat /\ PaperRow(c, i) - Above(c, i) \in 0..Rows(c) - 1
      /\ Above(c, i) > 0 => PaperRow(c, i) - Above(c, i) = Rows(c) - 1
  BY <1>2, <1>5 DEF Above
<1> QED BY <1>2, <1>3, <1>4, <1>5, <1>6 DEF PaperNumbers

LEMMA PaperStart ==
  ASSUME NEW c, Legible(c), Sheet(c), NEW str, NEW d, Same(d, c), Sheet(d), d.cursor = c.cursor, d.text = c.text
  PROVE  OnPaper(d, c, str, 0)
<1>1. c.cursor \in Cells(c) /\ Same(c, c)
  BY DEF Legible, Console, Same
<1>2. /\ Columns(c) \in Nat \ {0} /\ Rows(c) \in Nat \ {0} /\ c.cursor = <<c.cursor[1], c.cursor[2]>>
      /\ c.cursor[1] \in Nat /\ c.cursor[2] \in Nat /\ c.cursor[1] < Columns(c) /\ c.cursor[2] < Rows(c)
  BY <1>1, CursorIn
<1>3. Begin(c) \div Columns(c) = c.cursor[2] /\ Begin(c) % Columns(c) = c.cursor[1] /\ Begin(c) \in Nat
  BY <1>2, PlaceSplit DEF Begin
<1>4. Reached(c, 0) = Begin(c)
  BY <1>3 DEF Reached
<1>5. PaperRow(c, 0) = c.cursor[2] /\ PaperColumn(c, 0) = c.cursor[1] /\ Above(c, 0) = 0
  <2>1. PaperRow(c, 0) = c.cursor[2] /\ PaperColumn(c, 0) = c.cursor[1]
    BY <1>3, <1>4 DEF PaperRow, PaperColumn
  <2> QED BY <1>2, <2>1 DEF Above
<1>6. d.cursor = <<PaperColumn(c, 0), PaperRow(c, 0) - Above(c, 0)>>
  BY <1>2, <1>5
<1>7. ASSUME NEW x \in 0..Columns(c) - 1, NEW y \in 0..Rows(c) - 1
      PROVE  d.text[<<x, y>>] = Paper(c, str, 0, (y + Above(c, 0)) * Columns(c) + x)
  <2> DEFINE w == Columns(c)
             j == y * w + x
  <2>1. w \in Nat \ {0} /\ x \in Nat /\ y \in Nat /\ x < w /\ y + 1 <= Rows(c) /\ Rows(c) \in Nat
    BY <1>2
  <2>2. j \div w = y /\ j % w = x /\ j \in Nat
    BY <2>1, PlaceSplit
  <2>3. j < w * Rows(c)
    <3>1. w * (y + 1) <= w * Rows(c)
      BY <2>1, TimesMonotone
    <3>2. w * (y + 1) = y * w + w /\ y * w \in Nat /\ w * Rows(c) \in Nat
      BY <2>1
    <3> QED BY <2>1, <3>1, <3>2
  <2>4. (y + Above(c, 0)) * Columns(c) + x = j
    BY <1>5, <2>1
  <2> HIDE DEF j
  <2>5. j \notin Begin(c)..Reached(c, 0) - 1
    BY <1>3, <1>4, <2>2
  <2>6. Paper(c, str, 0, j) = c.text[<<x, y>>]
    BY <2>2, <2>3, <2>5, Zenon DEF Paper, w
  <2> QED BY <2>4, <2>6
<1> QED BY <1>6, <1>7 DEF OnPaper

(* What the paper shows after one more character, in terms of before.        *)
LEMMA PaperWritten ==
  ASSUME NEW c, NEW i \in Nat, PaperNumbers(c, i), NEW str, NEW j \in Nat
  PROVE  Paper(c, str, i + 1, j) = IF j = Reached(c, i) THEN str[i + 1] ELSE Paper(c, str, i, j)
<1>1. Reached(c, i + 1) = Reached(c, i) + 1 /\ Reached(c, i) = Begin(c) + i /\ Begin(c) \in Nat
  BY DEF Reached, PaperNumbers
<1>2. CASE j = Reached(c, i)
  <2>1. j \in Begin(c)..Reached(c, i + 1) - 1 /\ j - Begin(c) + 1 = i + 1
    BY <1>1, <1>2
  <2> QED BY <1>2, <2>1 DEF Paper
<1>3. CASE j # Reached(c, i)
  <2>1. j \in Begin(c)..Reached(c, i + 1) - 1 <=> j \in Begin(c)..Reached(c, i) - 1
    BY <1>1, <1>3
  <2> QED BY <1>3, <2>1, Zenon DEF Paper
<1> QED BY <1>2, <1>3

LEMMA PaperPlace ==
  ASSUME NEW w \in Nat \ {0}, NEW y \in Nat, NEW x \in Nat, NEW v \in Nat, NEW u \in Nat, x < w, u < w
  PROVE  y * w + x = v * w + u <=> y = v /\ x = u
<1>1. (y * w + x) \div w = y /\ (y * w + x) % w = x /\ (v * w + u) \div w = v /\ (v * w + u) % w = u
  BY PlaceSplit
<1> QED BY <1>1

(* A cell of the window after the character is drawn and before it scrolls.  *)
LEMMA PaperCell ==
  ASSUME NEW c, NEW i \in Nat, PaperNumbers(c, i), NEW str, NEW d, OnPaper(d, c, str, i),
         NEW x \in 0..Columns(c) - 1, NEW y \in 0..Rows(c) - 1
  PROVE  New(d, str[i + 1], <<x, y>>) = Paper(c, str, i + 1, (y + Above(c, i)) * Columns(c) + x)
<1> DEFINE w == Columns(c)
           m == Above(c, i)
           q == PaperRow(c, i)
           r == PaperColumn(c, i)
           j == (y + m) * w + x
<1>1. /\ w \in Nat \ {0} /\ m \in Nat /\ q \in Nat /\ r \in Nat /\ r < w /\ x \in Nat /\ x < w
      /\ y \in Nat /\ y + m \in Nat /\ Reached(c, i) = q * w + r /\ q - m \in Nat
  BY DEF PaperNumbers
<1>2. d.cursor = <<r, q - m>> /\ d.text[<<x, y>>] = Paper(c, str, i, j)
  BY Zenon DEF OnPaper
<1> HIDE DEF w, m, q, r
<1>3. j \in Nat
  BY <1>1
<1>4. j = Reached(c, i) <=> y + m = q /\ x = r
  BY <1>1, PaperPlace
<1>5. <<x, y>> = d.cursor <=> j = Reached(c, i)
  <2>1. <<x, y>> = <<r, q - m>> <=> x = r /\ y = q - m
    OBVIOUS
  <2>2. y = q - m <=> y + m = q
    BY <1>1
  <2> QED BY <1>2, <1>4, <2>1, <2>2
<1> HIDE DEF j
<1>6. Paper(c, str, i + 1, j) = IF j = Reached(c, i) THEN str[i + 1] ELSE Paper(c, str, i, j)
  BY <1>3, PaperWritten
<1>7. New(d, str[i + 1], <<x, y>>) = IF <<x, y>> = d.cursor THEN str[i + 1] ELSE d.text[<<x, y>>]
  BY Zenon DEF New
<1>8. New(d, str[i + 1], <<x, y>>) = Paper(c, str, i + 1, j)
  BY <1>2, <1>5, <1>6, <1>7, Zenon
<1> QED BY <1>8 DEF j, w, m

LEMMA PaperStep ==
  ASSUME NEW c, Legible(c), NEW i \in Nat, NEW str, NEW d, OnPaper(d, c, str, i),
         NEW e, Typed(d, str[i + 1], e, c)
  PROVE  OnPaper(e, c, str, i + 1)
<1> DEFINE w == Columns(c)
           h == Rows(c)
           m == Above(c, i)
           q == PaperRow(c, i)
           r == PaperColumn(c, i)
           ch == str[i + 1]
<1>1. PaperNumbers(c, i) /\ PaperNumbers(c, i + 1)
  BY PaperFacts
<1>2. /\ w \in Nat \ {0} /\ h \in Nat \ {0} /\ m \in Nat /\ q \in Nat /\ r \in Nat /\ r < w
      /\ q - m \in 0..h - 1 /\ (m > 0 => q - m = h - 1)
      /\ Reached(c, i) \in Nat /\ Reached(c, i + 1) = Reached(c, i) + 1 /\ Reached(c, i) = q * w + r
  BY <1>1 DEF PaperNumbers, Reached
<1>3. d.cursor = <<r, q - m>> /\ d.cursor[1] = r /\ d.cursor[2] = q - m
  BY DEF OnPaper
<1>4. Same(e, c) /\ Sheet(e) /\ e.cursor = After(d, c)
  BY DEF Typed
<1>5. IF r + 1 < w THEN PaperRow(c, i + 1) = q /\ PaperColumn(c, i + 1) = r + 1
      ELSE r + 1 = w /\ PaperRow(c, i + 1) = q + 1 /\ PaperColumn(c, i + 1) = 0
  <2> DEFINE n == Reached(c, i)
  <2>1. n \in Nat /\ Reached(c, i + 1) = n + 1 /\ q = n \div w /\ r = n % w
    BY <1>2 DEF PaperRow, PaperColumn
  <2> HIDE DEF n, q, r, w
  <2>2. IF (n % w) + 1 < w
        THEN (n + 1) \div w = n \div w /\ (n + 1) % w = (n % w) + 1
        ELSE (n % w) + 1 = w /\ (n + 1) \div w = (n \div w) + 1 /\ (n + 1) % w = 0
    BY <1>2, <2>1, PlaceNext
  <2>3. PaperRow(c, i + 1) = (n + 1) \div w /\ PaperColumn(c, i + 1) = (n + 1) % w
    BY <2>1 DEF PaperRow, PaperColumn, w
  <2> QED BY <2>1, <2>2, <2>3
<1>6. m = IF q > h - 1 THEN q - (h - 1) ELSE 0
  BY DEF Above
<1>7. Above(c, i + 1) = IF PaperRow(c, i + 1) > h - 1 THEN PaperRow(c, i + 1) - (h - 1) ELSE 0
  BY DEF Above
<1>8. \A x \in 0..w - 1, y \in 0..h - 1 : New(d, ch, <<x, y>>) = Paper(c, str, i + 1, (y + m) * w + x)
  BY <1>1, PaperCell
<1>9. \A x \in 0..w - 1, y \in 0..h - 1 : <<x, y>> \in Cells(c)
  BY DEF Cells
<1>10. AtEnd(d, c) <=> r + 1 = w /\ q - m + 1 = h
  BY <1>3 DEF AtEnd
<1>11. After(d, c) = IF r + 1 < w THEN <<r + 1, q - m>>
                     ELSE IF q - m + 1 < h THEN <<0, q - m + 1>> ELSE <<0, q - m>>
  BY <1>3, Zenon DEF After
<1>12. ~AtEnd(d, c) => \A x \in 0..w - 1, y \in 0..h - 1 : e.text[<<x, y>>] = New(d, ch, <<x, y>>)
  BY <1>9, Zenon DEF Typed
<1>13. AtEnd(d, c) => \A x \in 0..w - 1, y \in 0..h - 1 :
         e.text[<<x, y>>] = IF y < h - 1 THEN New(d, ch, <<x, y + 1>>) ELSE " "
  <2> SUFFICES ASSUME AtEnd(d, c), NEW x \in 0..w - 1, NEW y \in 0..h - 1
               PROVE  e.text[<<x, y>>] = IF y < h - 1 THEN New(d, ch, <<x, y + 1>>) ELSE " "
    BY Zenon
  <2> DEFINE cell == <<x, y>>
  <2>1. cell \in Cells(c)
    BY <1>9
  <2>2. cell[1] = x /\ cell[2] = y
    OBVIOUS
  <2> HIDE DEF cell
  <2>3. e.text[cell] = IF cell[2] < Rows(c) - 1 THEN New(d, ch, <<cell[1], cell[2] + 1>>) ELSE " "
    BY <2>1, Zenon DEF Typed
  <2> QED BY <2>2, <2>3 DEF cell
<1> HIDE DEF m, q, r, ch, w, h
<1>14. CASE ~AtEnd(d, c)
  <2>1. Above(c, i + 1) = m /\ After(d, c) = <<PaperColumn(c, i + 1), PaperRow(c, i + 1) - m>>
    <3>1. CASE r + 1 < w
      BY <1>2, <1>5, <1>6, <1>7, <1>11, <3>1
    <3>2. CASE ~(r + 1 < w)
      <4>1. r + 1 = w /\ q - m + 1 # h
        BY <1>5, <1>10, <1>14, <3>2
      <4>2. q - m + 1 < h /\ m = 0 /\ q < h - 1
        BY <1>2, <4>1
      <4> QED BY <1>2, <1>5, <1>7, <1>11, <3>2, <4>2
    <3> QED BY <3>1, <3>2
  <2>2. \A x \in 0..w - 1, y \in 0..h - 1 : e.text[<<x, y>>] = Paper(c, str, i + 1, (y + m) * w + x)
    BY <1>8, <1>12, <1>14, Zenon
  <2> QED BY <1>4, <2>1, <2>2, Zenon DEF OnPaper, w, h
<1>15. CASE AtEnd(d, c)
  <2>1. r + 1 = w /\ q - m + 1 = h
    BY <1>10, <1>15
  <2>2. Above(c, i + 1) = m + 1 /\ PaperColumn(c, i + 1) = 0 /\ PaperRow(c, i + 1) = q + 1
        /\ q = h - 1 + m
    BY <1>2, <1>5, <1>6, <1>7, <2>1
  <2>3. After(d, c) = <<PaperColumn(c, i + 1), PaperRow(c, i + 1) - Above(c, i + 1)>>
    BY <1>2, <1>11, <2>1, <2>2
  <2>4. ASSUME NEW x \in 0..w - 1, NEW y \in 0..h - 1
        PROVE  e.text[<<x, y>>] = Paper(c, str, i + 1, (y + (m + 1)) * w + x)
    <3>1. CASE y < h - 1
      <4>1. y + 1 \in 0..h - 1 /\ (y + 1) + m = y + (m + 1)
        BY <1>2, <3>1
      <4>2. New(d, ch, <<x, y + 1>>) = Paper(c, str, i + 1, ((y + 1) + m) * w + x)
        BY <1>8, <4>1
      <4>3. e.text[<<x, y>>] = New(d, ch, <<x, y + 1>>)
        BY <1>13, <1>15, <3>1
      <4> QED BY <4>1, <4>2, <4>3
    <3>2. CASE ~(y < h - 1)
      <4>1. y = h - 1 /\ y + (m + 1) = h + m
        BY <1>2, <3>2
      <4> DEFINE j == (h + m) * w + x
      <4>2. (h + m) * w = q * w + w /\ (h + m) * w = w * h + m * w /\ m * w \in Nat /\ w * h \in Nat /\ q * w \in Nat
        <5>1. h + m = q + 1
          BY <1>2, <2>2
        <5>2. (q + 1) * w = q * w + w /\ (h + m) * w = w * h + m * w
          BY <1>2
        <5> QED BY <1>2, <5>1, <5>2
      <4>3. j > Reached(c, i) /\ j >= w * h /\ j \in Int
        BY <1>2, <2>1, <4>2
      <4> HIDE DEF j
      <4>4. j \notin Begin(c)..Reached(c, i + 1) - 1 /\ ~(j < w * h)
        <5>1. Begin(c) \in Nat
          BY <1>1 DEF PaperNumbers
        <5> QED BY <1>2, <4>2, <4>3, <5>1
      <4>5. Paper(c, str, i + 1, j) = " "
        BY <4>4, Zenon DEF Paper, w, h
      <4>6. e.text[<<x, y>>] = " "
        BY <1>13, <1>15, <3>2
      <4>7. (y + (m + 1)) * w + x = j
        BY <4>1 DEF j
      <4> QED BY <4>5, <4>6, <4>7
    <3> QED BY <3>1, <3>2
  <2> QED BY <1>4, <2>2, <2>3, <2>4, Zenon DEF OnPaper, w, h
<1> QED BY <1>14, <1>15

Plain(str) == (\E S : str \in Seq(S)) /\ ToSet(str) \cap Controls = {}

LEMMA PaperPrinted ==
  ASSUME NEW c, Legible(c), Sheet(c), NEW draws, Surely(draws), NEW str, Plain(str),
         NEW d, d = OutputStringFn(c, str, draws)
  PROVE  OnPaper(d, c, str, Len(str))
<1> DEFINE c1 == FlushCursor(c)
           base == [con |-> FlushCursor(c), wide |-> FALSE]
           n == Len(str)
<1>1. n \in Nat /\ DOMAIN str = 1..n /\ \A k \in 1..n : str[k] \notin Controls
  <2>1. PICK S : str \in Seq(S)
    BY DEF Plain
  <2>2. n \in Nat /\ DOMAIN str = 1..n
    BY <2>1
  <2>3. \A k \in 1..n : str[k] \in ToSet(str)
    BY <2>2, Zenon DEF ToSet
  <2> QED BY <2>2, <2>3 DEF Plain
<1>2. PICK g : PutRun(g, base, str, draws, n) /\ d = FlushCursor(g[1..n].con)
  <2>1. PICK S : str \in Seq(S)
    BY DEF Plain
  <2> QED BY <2>1, StringRun
<1>3. base.con = c1 /\ ~base.wide
  OBVIOUS
<1> HIDE DEF base, n, c1
<1>4. Sheet(c1) /\ Same(c1, c) /\ c1.cursor = c.cursor /\ c1.text = c.text
  BY FlushedSheet DEF c1
<1> DEFINE State(k) == OnPaper(g[1..k].con, c, str, k) /\ ~g[1..k].wide
           T == {k \in Nat : k <= n => State(k)}
<1>5. 0 \in T
  <2>1. OnPaper(c1, c, str, 0)
    BY <1>4, PaperStart
  <2>2. g[1..0] = base
    BY <1>2, Zenon DEF PutRun
  <2>3. State(0)
    BY <1>3, <2>1, <2>2
  <2> HIDE DEF State
  <2> QED BY <2>3
<1>6. ASSUME NEW k \in Nat, k \in T PROVE k + 1 \in T
  <2> SUFFICES ASSUME k + 1 <= n PROVE State(k + 1)
    OBVIOUS
  <2>1. k \in 0..n - 1 /\ k + 1 \in 1..n
    BY <1>1
  <2>2. State(k)
    <3> HIDE DEF State
    <3> QED BY <1>1, <1>6, <2>1
  <2>3. g[1..k + 1] = Put(g[1..k].con, g[1..k].wide, str[k + 1], draws)
    BY <1>2, <2>1, Zenon DEF PutRun
  <2>4. str[k + 1] \notin Controls
    BY <1>1, <2>1
  <2> DEFINE q == g[1..k].con
             e == g[1..k + 1].con
             ch == str[k + 1]
             wide == g[1..k].wide
  <2>5. OnPaper(q, c, str, k) /\ ~wide
    BY <2>2
  <2>6. e = PutNarrow(q, ch, draws) /\ g[1..k + 1].wide = wide
    <3> DEFINE v == g[1..k + 1]
    <3>1. v = Put(q, wide, ch, draws) /\ ch \notin Controls /\ ~wide
      BY <2>3, <2>4, <2>5
    <3> HIDE DEF v, q, ch, wide
    <3>2. v.con = PutNarrow(q, ch, draws) /\ v.wide = wide
      BY <3>1, PutCharacter
    <3> QED BY <3>2 DEF v
  <2> HIDE DEF q, e, ch, wide
  <2>7. Same(q, c) /\ Sheet(q) /\ q.cursor \in Cells(c)
    <3>1. Same(q, c) /\ Sheet(q) /\ q.cursor = <<PaperColumn(c, k), PaperRow(c, k) - Above(c, k)>>
      BY <2>5, Zenon DEF OnPaper
    <3>2. PaperNumbers(c, k)
      BY PaperFacts
    <3>3. PaperColumn(c, k) \in 0..Columns(c) - 1 /\ PaperRow(c, k) - Above(c, k) \in 0..Rows(c) - 1
      BY <3>2 DEF PaperNumbers
    <3> QED BY <3>1, <3>3 DEF Cells
  <2>8. Typed(q, ch, e, c)
    BY <2>6, <2>7, NarrowTyped DEF Surely
  <2>9. OnPaper(e, c, str, k + 1)
    BY <2>5, <2>8, PaperStep DEF ch
  <2> QED BY <2>5, <2>6, <2>9 DEF e
<1> HIDE DEF T
<1>7. n \in T
  BY <1>1, <1>5, <1>6, SetInduction
<1> DEFINE e == g[1..n].con
<1>8. OnPaper(e, c, str, n)
  <2> HIDE DEF State
  <2>1. State(n)
    BY <1>1, <1>7 DEF T
  <2> QED BY <2>1 DEF State
<1> HIDE DEF e
<1>9. d = FlushCursor(e)
  BY <1>2 DEF e
<1>10. Sheet(d) /\ Same(d, e) /\ d.cursor = e.cursor /\ d.text = e.text
  BY <1>8, <1>9, FlushedSheet DEF OnPaper
<1>11. Same(d, c)
  BY <1>8, <1>10, SameTransitive DEF OnPaper
<1> QED BY <1>8, <1>10, <1>11, Zenon DEF OnPaper, n

LEMMA SheetPrints == ConsoleInv /\ SheetInv => PrintsAsOnPaper
<1> SUFFICES ASSUME ConsoleInv, SheetInv, Readable,
                    NEW str \in Strings, ToSet(str) \cap Controls = {}
             PROVE  LET after   == OutputStringFn(con, str, TRUE)
                        end     == Place(con.cursor) + Len(str)
                        above   == end \div Columns(con) - (Rows(con) - 1)
                        shift   == IF above > 0 THEN above * Columns(con) ELSE 0
                        paper   == [k \in 0..Length + shift - 1 |->
                                      IF k \in Place(con.cursor)..end - 1 THEN str[k - Place(con.cursor) + 1]
                                      ELSE IF k < Length THEN con.text[CellAt(k)] ELSE " "]
                    IN /\ Place(after.cursor) = end - shift
                       /\ \A k \in 0..Length - 1 : after.text[CellAt(k)] = paper[k + shift]
  BY Zenon DEF PrintsAsOnPaper
<1> DEFINE after   == OutputStringFn(con, str, TRUE)
           end     == Place(con.cursor) + Len(str)
           above   == end \div Columns(con) - (Rows(con) - 1)
           shift   == IF above > 0 THEN above * Columns(con) ELSE 0
           paper   == [k \in 0..Length + shift - 1 |->
                         IF k \in Place(con.cursor)..end - 1 THEN str[k - Place(con.cursor) + 1]
                         ELSE IF k < Length THEN con.text[CellAt(k)] ELSE " "]
           n == Len(str)
           w == Columns(con)
           h == Rows(con)
           q == PaperRow(con, n)
           r == PaperColumn(con, n)
           m == Above(con, n)
<1>1. Legible(con) /\ Sheet(con) /\ n \in Nat /\ Plain(str)
  <2>1. str \in Seq(STRING)
    BY StringAssumption
  <2>2. Plain(str)
    BY <2>1 DEF Plain
  <2> QED BY <2>1, <2>2, ReadableIsLegible
<1>2. PaperNumbers(con, n)
  BY <1>1, PaperFacts
<1>3. OnPaper(after, con, str, n)
  <2>1. \A d, draws : Surely(draws) /\ d = OutputStringFn(con, str, draws) => OnPaper(d, con, str, Len(str))
    BY <1>1, PaperPrinted
  <2> QED BY <2>1, Zenon DEF Surely
<1>4. Begin(con) = Place(con.cursor) /\ end = Reached(con, n) /\ Length = w * h
  BY DEF Begin, Place, Reached, Length
<1> HIDE DEF after
<1>5. /\ w \in Nat \ {0} /\ h \in Nat \ {0} /\ q \in Nat /\ r \in Nat /\ r < w /\ m \in Nat
      /\ q - m \in 0..h - 1 /\ end = q * w + r /\ end \in Nat
  BY <1>2, <1>4 DEF PaperNumbers
<1>6. above = q - (h - 1) /\ m = (IF above > 0 THEN above ELSE 0) /\ shift = m * w
  <2>1. q = end \div w
    BY <1>4, Zenon DEF PaperRow
  <2>2. m = IF q > h - 1 THEN q - (h - 1) ELSE 0
    BY DEF Above
  <2> HIDE DEF q, m, h, w, end
  <2>3. above = q - (h - 1)
    BY <2>1 DEF h, w
  <2>4. m = (IF above > 0 THEN above ELSE 0)
    BY <1>5, <2>2, <2>3
  <2> HIDE DEF above
  <2>5. above > 0 => above * Columns(con) = m * w
    BY <2>4 DEF w
  <2>6. ~(above > 0) => 0 = m * w
    BY <1>5, <2>4
  <2> QED BY <2>3, <2>4, <2>5, <2>6
<1>7. shift \in Nat
  <2> HIDE DEF shift, m, w
  <2>1. m * w \in Nat
    BY <1>5
  <2> QED BY <1>6, <2>1
<1>8. Place(after.cursor) = end - shift
  <2>1. after.cursor = <<r, q - m>>
    BY <1>3, Zenon DEF OnPaper
  <2>2. Place(after.cursor) = (q - m) * w + r
    BY <2>1 DEF Place
  <2> HIDE DEF q, m, w, r, end, shift
  <2>3. (q - m) * w = q * w - m * w
    BY <1>5
  <2>4. (q - m) * w + r = end - m * w
    BY <1>5, <2>3
  <2> QED BY <1>6, <2>2, <2>4
<1>9. ASSUME NEW k \in 0..Length - 1
      PROVE  after.text[CellAt(k)] = paper[k + shift]
  <2> DEFINE x == k % w
             y == k \div w
             j == (y + m) * w + x
  <2>1. w * h \in Nat /\ k \in Nat /\ k < w * h
    BY <1>4, <1>5
  <2>2. x \in Nat /\ x < w /\ y \in Nat /\ k = y * w + x
    <3> HIDE DEF w
    <3>1. k \div w \in Nat /\ k % w \in Nat /\ k % w < w /\ k = (k \div w) * w + (k % w)
      BY <1>5, <2>1, PlaceJoin
    <3> QED BY <3>1
  <2>3. y < h
    <3> HIDE DEF w, h
    <3> QED BY <1>5, <2>1, LineOfByte
  <2>4. CellAt(k) = <<x, y>>
    BY Zenon DEF CellAt
  <2> HIDE DEF x, y
  <2>5. x \in 0..Columns(con) - 1 /\ y \in 0..Rows(con) - 1
    BY <1>5, <2>2, <2>3
  <2>6. after.text[<<x, y>>] = Paper(con, str, n, j)
    BY <1>3, <2>5, Zenon DEF OnPaper
  <2>7. j = k + shift
    <3> HIDE DEF m, w, shift
    <3>1. (y + m) * w = y * w + m * w
      BY <1>5, <2>2
    <3>2. y * w \in Nat /\ m * w \in Nat
      BY <1>5, <2>2
    <3> QED BY <1>6, <2>2, <3>1, <3>2
  <2>8. j \in 0..Length + shift - 1
    <3> HIDE DEF shift, j
    <3> QED BY <1>4, <1>7, <2>1, <2>7
  <2> HIDE DEF j
  <2>9. paper[j] = IF j \in Place(con.cursor)..end - 1 THEN str[j - Place(con.cursor) + 1]
                   ELSE IF j < Length THEN con.text[CellAt(j)] ELSE " "
    <3> HIDE DEF end, shift
    <3> QED BY <2>8
  <2>10. Paper(con, str, n, j) =
           IF j \in Place(con.cursor)..end - 1 THEN str[j - Place(con.cursor) + 1]
           ELSE IF j < Length THEN con.text[CellAt(j)] ELSE " "
    <3> HIDE DEF end
    <3> QED BY <1>4, Zenon DEF Paper, CellAt, w, h
  <2> HIDE DEF paper
  <2>11. paper[j] = paper[k + shift]
    BY <2>7, Zenon
  <2> QED BY <2>4, <2>6, <2>9, <2>10, <2>11, Zenon
<1>10. \A k \in 0..Length - 1 : after.text[CellAt(k)] = paper[k + shift]
  BY <1>9
<1> QED BY <1>8, <1>10, Zenon DEF after

(* On any screen that holds the window, for any modes and any string of      *)
(* characters: what the window shows are the last rows of the paper on which *)
(* all was written, and the cursor is behind what was written.               *)
THEOREM PaperShows == Spec => []PrintsAsOnPaper
BY ConsoleInit, ConsoleStep, SheetInit, SheetStep, SheetPrints, PTL DEF Spec

-----------------------------------------------------------------------------
(* Pixels and their bytes in the frame                                       *)

(* Whole groups of n before b * n + r.                                       *)
LEMMA GroupsBefore ==
  ASSUME NEW n \in Nat \ {0}, NEW a \in Nat, NEW b \in Nat, NEW r \in Nat, r < n
  PROVE  n * a <= n * b + r <=> a <= b
<1>1. n * a \in Nat /\ n * b \in Nat
  OBVIOUS
<1>2. ASSUME a <= b PROVE n * a <= n * b + r
  <2>1. n * a <= n * b
    BY <1>2, TimesMonotone
  <2> QED BY <1>1, <2>1
<1>3. ASSUME ~(a <= b) PROVE ~(n * a <= n * b + r)
  <2>1. b + 1 <= a /\ b + 1 \in Nat
    BY <1>3
  <2>2. n * (b + 1) <= n * a
    BY <2>1, TimesMonotone
  <2>3. n * (b + 1) = n * b + n
    OBVIOUS
  <2> QED BY <1>1, <2>2, <2>3
<1> QED BY <1>2, <1>3

(* Byte j of pixel u is among the bytes of n pixels from v on if u is one of *)
(* them.                                                                     *)
LEMMA PixelAmong ==
  ASSUME NEW p \in Nat \ {0}, NEW u \in Nat, NEW v \in Nat, NEW n \in Nat, NEW j \in 0..p - 1
  PROVE  /\ p * u + j - p * v \in 0..n * p - 1 <=> v <= u /\ u < v + n
         /\ v <= u => p * u + j - p * v = (u - v) * p + j
<1>1. j \in Nat /\ j < p /\ p * u \in Nat /\ p * v \in Nat /\ n * p \in Nat
  OBVIOUS
<1>2. p * v <= p * u + j <=> v <= u
  BY <1>1, GroupsBefore
<1>3. p * (v + n) <= p * u + j <=> v + n <= u
  <2>1. v + n \in Nat
    OBVIOUS
  <2> QED BY <1>1, <2>1, GroupsBefore
<1>4. p * (v + n) = p * v + n * p
  OBVIOUS
<1>5. (u - v) * p = p * u - p * v
  OBVIOUS
<1>6. p * u + j - p * v \in 0..n * p - 1 <=> p * v <= p * u + j /\ ~(p * v + n * p <= p * u + j)
  BY <1>1
<1> QED BY <1>1, <1>2, <1>3, <1>4, <1>5, <1>6

(* The pixels of one line, and those of whole lines, by their numbers.       *)
LEMMA PixelInLine ==
  ASSUME NEW w \in Nat \ {0}, NEW x \in Nat, NEW y \in Nat, x < w,
         NEW a \in Nat, NEW c \in Nat, NEW n \in Nat, a + n <= w
  PROVE  /\ y * w + x \in Nat /\ c * w + a \in Nat
         /\ c * w + a <= y * w + x /\ y * w + x < c * w + a + n <=> y = c /\ x \in a..a + n - 1
         /\ y = c => (y * w + x) - (c * w + a) = x - a
<1>1. y * w \in Nat /\ c * w \in Nat /\ w * y = y * w /\ w * c = c * w
  OBVIOUS
<1>2. ASSUME c * w + a <= y * w + x, y * w + x < c * w + a + n PROVE y = c
  <2>1. c <= y
    <3>1. w * c <= w * y + x
      BY <1>1, <1>2
    <3> QED BY <3>1, GroupsBefore
  <2>2. y <= c
    <3> SUFFICES ASSUME c + 1 <= y PROVE FALSE
      OBVIOUS
    <3>1. w * (c + 1) <= w * y
      BY TimesMonotone
    <3>2. w * (c + 1) = c * w + w
      OBVIOUS
    <3> QED BY <1>1, <1>2, <3>1, <3>2
  <2> QED BY <2>1, <2>2
<1> QED BY <1>1, <1>2

LEMMA PixelInLines ==
  ASSUME NEW w \in Nat \ {0}, NEW x \in Nat, NEW y \in Nat, x < w,
         NEW c \in Nat, NEW h \in Nat
  PROVE  /\ y * w + x \in Nat /\ c * w \in Nat /\ w * h \in Nat
         /\ c * w <= y * w + x /\ y * w + x < c * w + w * h <=> y \in c..c + h - 1
<1>1. y * w \in Nat /\ c * w \in Nat /\ w * y = y * w /\ w * c = c * w /\ w * h \in Nat
      /\ w * (c + h) = c * w + w * h
  OBVIOUS
<1>2. w * c <= w * y + x <=> c <= y
  BY GroupsBefore
<1>3. w * (c + h) <= w * y + x <=> c + h <= y
  <2>1. c + h \in Nat
    OBVIOUS
  <2> QED BY <2>1, GroupsBefore
<1> QED BY <1>1, <1>2, <1>3

-----------------------------------------------------------------------------
(* Frames                                                                    *)

FrameShape ==
  /\ BytesPerPixel \in 1..4
  /\ {Width, Height, config.pixelsPerScanLine} \subseteq Nat \ {0}
  /\ Width <= config.pixelsPerScanLine

Columned == 0..config.pixelsPerScanLine - 1
Lined    == 0..Height - 1
Parts    == 0..BytesPerPixel - 1

Framed(f)        == f = [b \in FrameBytes |-> f[b]]
Byte(f, x, y, j) == f[Offset(x, y) + j]

(* g and f are the same behind the lines of the screen.                      *)
SameAfter(g, f) == \A b \in FrameBytes : b >= Stride * Height => g[b] = f[b]

LEMMA Shape ==
  ASSUME FrameShape
  PROVE  /\ BytesPerPixel \in Nat \ {0} /\ config.pixelsPerScanLine \in Nat \ {0}
         /\ Width \in Nat \ {0} /\ Height \in Nat \ {0} /\ Width <= config.pixelsPerScanLine
         /\ Stride \in Nat \ {0} /\ Stride * Height \in Nat
<1>1. /\ BytesPerPixel \in Nat \ {0} /\ config.pixelsPerScanLine \in Nat \ {0}
      /\ Width \in Nat \ {0} /\ Height \in Nat \ {0} /\ Width <= config.pixelsPerScanLine
  BY DEF FrameShape
<1> DEFINE p == BytesPerPixel
           w == config.pixelsPerScanLine
<1>2. p \in Nat \ {0} /\ w \in Nat \ {0}
  BY <1>1
<1>3. p * w \in Nat \ {0}
  <2> HIDE DEF p, w
  <2>1. p * 1 <= p * w
    BY <1>2, TimesMonotone
  <2> QED BY <1>2, <2>1
<1>4. Stride = p * w
  BY DEF Stride
<1> HIDE DEF p, w
<1>5. Stride * Height \in Nat
  BY <1>1, <1>3, <1>4
<1> QED BY <1>1, <1>3, <1>4, <1>5

(* The bytes of a pixel of a line are in the frame.                          *)
LEMMA PixelBytes ==
  ASSUME FrameShape, NEW x \in Columned, NEW y \in Lined, NEW j \in Parts
  PROVE  /\ Offset(x, y) \in Nat /\ Offset(x, y) + j \in FrameBytes
         /\ Offset(x, y) + j < Stride * Height
<1> DEFINE p == BytesPerPixel
           w == config.pixelsPerScanLine
           u == y * w + x
<1>1. p \in Nat \ {0} /\ w \in Nat \ {0} /\ Height \in Nat \ {0} /\ Stride = p * w
  BY Shape DEF Stride
<1>2. x \in Nat /\ x < w /\ y \in Nat /\ y < Height /\ j \in 0..p - 1
  BY <1>1 DEF Columned, Lined, Parts
<1>3. Offset(x, y) = p * u
  BY DEF Offset
<1> HIDE DEF p, w
<1>4. u \in Nat /\ 0 * w \in Nat /\ w * Height \in Nat /\ 0 * w <= u /\ u < 0 * w + w * Height
  <2>1. y \in 0..0 + Height - 1
    BY <1>1, <1>2
  <2> QED BY <1>1, <1>2, <2>1, PixelInLines
<1>5. 0 <= u /\ u < 0 + w * Height
  BY <1>1, <1>4
<1> HIDE DEF u
<1>6. p * u + j - p * 0 \in 0..(w * Height) * p - 1
  <2>1. w * Height \in Nat /\ 0 \in Nat
    BY <1>4
  <2> QED BY <1>1, <1>2, <1>4, <1>5, <2>1, PixelAmong
<1>7. (w * Height) * p = (p * w) * Height
  BY <1>1
<1>8. p * u \in Nat /\ p * u + j \in 0..(p * w) * Height - 1
  BY <1>1, <1>2, <1>4, <1>6, <1>7
<1>9. (p * w) * (Height + 1) = (p * w) * Height + p * w /\ p * w \in Nat /\ (p * w) * Height \in Nat
  BY <1>1
<1>10. p * u + j \in 0..(p * w) * (Height + 1) - 1
  BY <1>8, <1>9
<1> QED BY <1>1, <1>2, <1>3, <1>8, <1>10 DEF FrameBytes

(* A line of n pixels is copied to (a, c).                                   *)
LineCopied(g, f, a, c, n, bytes) ==
  /\ Framed(g) /\ SameAfter(g, f)
  /\ \A x \in Columned, y \in Lined, j \in Parts :
       Byte(g, x, y, j) = IF y = c /\ x \in a..a + n - 1
                          THEN bytes[(x - a) * BytesPerPixel + j] ELSE Byte(f, x, y, j)

LEMMA CopiedLine ==
  ASSUME FrameShape, NEW f, Framed(f), NEW a \in Nat, NEW c \in Lined, NEW n \in Nat,
         a + n <= config.pixelsPerScanLine,
         NEW bytes, DOMAIN bytes = 0..n * BytesPerPixel - 1,
         NEW g, g = Copied(f, Offset(a, c), bytes)
  PROVE  LineCopied(g, f, a, c, n, bytes)
<1> DEFINE p == BytesPerPixel
           w == config.pixelsPerScanLine
           v == c * w + a
<1>1. p \in Nat \ {0} /\ w \in Nat \ {0} /\ Height \in Nat \ {0} /\ Stride = p * w
  BY Shape DEF Stride
<1>2. c \in Nat /\ c < Height /\ a + n <= w
  BY <1>1 DEF Lined
<1>3. g = [b \in FrameBytes |-> IF b - Offset(a, c) \in 0..n * p - 1 THEN bytes[b - Offset(a, c)] ELSE f[b]]
  <2>1. DOMAIN f = FrameBytes
    BY Zenon DEF Framed
  <2> QED BY <2>1, Zenon DEF Copied
<1>4. Offset(a, c) = p * v
  BY DEF Offset
<1>5. ASSUME NEW x \in Columned, NEW y \in Lined, NEW j \in Parts
      PROVE  Byte(g, x, y, j) = IF y = c /\ x \in a..a + n - 1
                                THEN bytes[(x - a) * p + j] ELSE Byte(f, x, y, j)
  <2> DEFINE u == y * w + x
             b == p * u + j
  <2>1. x \in Nat /\ x < w /\ y \in Nat /\ y < Height /\ j \in 0..p - 1
    BY <1>1 DEF Columned, Lined, Parts
  <2>2. Offset(x, y) + j = b /\ b \in FrameBytes
    BY PixelBytes DEF Offset
  <2>3. g[b] = IF b - p * v \in 0..n * p - 1 THEN bytes[b - p * v] ELSE f[b]
    <3> HIDE DEF b, p, v
    <3> QED BY <1>3, <1>4, <2>2
  <2> HIDE DEF p, w
  <2>4. /\ u \in Nat /\ v \in Nat
        /\ v <= u /\ u < v + n <=> y = c /\ x \in a..a + n - 1
        /\ y = c => u - v = x - a
    <3>1. /\ u \in Nat /\ v \in Nat
          /\ v <= u /\ u < c * w + a + n <=> y = c /\ x \in a..a + n - 1
          /\ y = c => u - v = x - a
      BY <1>1, <1>2, <2>1, PixelInLine
    <3> QED BY <3>1
  <2> HIDE DEF u, v
  <2>5. /\ b - p * v \in 0..n * p - 1 <=> v <= u /\ u < v + n
        /\ v <= u => b - p * v = (u - v) * p + j
    BY <1>1, <2>1, <2>4, PixelAmong
  <2> HIDE DEF b
  <2>6. CASE y = c /\ x \in a..a + n - 1
    <3>1. b - p * v \in 0..n * p - 1 /\ b - p * v = (x - a) * p + j
      BY <2>4, <2>5, <2>6
    <3>2. g[b] = bytes[(x - a) * p + j]
      BY <2>3, <3>1
    <3> QED BY <2>2, <2>6, <3>2 DEF Byte
  <2>7. CASE ~(y = c /\ x \in a..a + n - 1)
    <3>1. g[b] = f[b]
      BY <2>3, <2>4, <2>5, <2>7
    <3> QED BY <2>2, <2>7, <3>1 DEF Byte
  <2> QED BY <2>6, <2>7
<1>6. SameAfter(g, f)
  <2> SUFFICES ASSUME NEW b \in FrameBytes, b >= Stride * Height PROVE g[b] = f[b]
    BY DEF SameAfter
  <2> HIDE DEF p, w, v
  <2>1. p * v \in Nat /\ p * v + n * p <= (p * w) * Height
    <3>1. p * (c * w + a) \in Nat /\ p * (c * w + a) + n * p <= w * p * Height
      BY <1>1, <1>2, LineInFrame
    <3>2. w * p * Height = (p * w) * Height
      BY <1>1
    <3> QED BY <3>1, <3>2 DEF v
  <2>2. b \in Nat
    <3>1. Stride \in Nat /\ Height \in Nat
      BY Shape
    <3> QED BY <3>1 DEF FrameBytes
  <2>3. b - p * v \notin 0..n * p - 1
    <3>1. n * p \in Nat /\ (p * w) * Height \in Nat
      BY <1>1
    <3> QED BY <1>1, <2>1, <2>2, <3>1
  <2> QED BY <1>3, <1>4, <2>3
<1>7. Framed(g)
  BY <1>3, Zenon DEF Framed
<1> QED BY <1>5, <1>6, <1>7 DEF LineCopied

(* Whole lines, from line c on.                                              *)
LEMMA CopiedLines ==
  ASSUME FrameShape, NEW f, Framed(f), NEW c \in Nat, NEW h \in Nat, c + h <= Height,
         NEW n, n = config.pixelsPerScanLine * BytesPerPixel * h,
         NEW bytes, DOMAIN bytes = 0..n - 1,
         NEW g, g = Copied(f, Offset(0, c), bytes)
  PROVE  /\ Framed(g) /\ SameAfter(g, f)
         /\ \A x \in Columned, y \in Lined, j \in Parts :
              IF y \in c..c + h - 1
              THEN \E i \in 0..n - 1 : i % BytesPerPixel = j /\ Byte(g, x, y, j) = bytes[i]
              ELSE Byte(g, x, y, j) = Byte(f, x, y, j)
<1> DEFINE p == BytesPerPixel
           w == config.pixelsPerScanLine
           v == c * w
<1>1. p \in Nat \ {0} /\ w \in Nat \ {0} /\ Height \in Nat \ {0} /\ Stride = p * w
  BY Shape DEF Stride
<1>2. n \in Nat /\ n = (w * h) * p
  <2> HIDE DEF p, w
  <2>1. (w * p) * h = (w * h) * p /\ (w * h) * p \in Nat
    BY <1>1
  <2> QED BY <2>1 DEF p, w
<1>3. g = [b \in FrameBytes |-> IF b - Offset(0, c) \in 0..n - 1 THEN bytes[b - Offset(0, c)] ELSE f[b]]
  <2>1. DOMAIN f = FrameBytes
    BY Zenon DEF Framed
  <2> QED BY <2>1, Zenon DEF Copied
<1>4. Offset(0, c) = p * v
  <2>1. c * w + 0 = c * w
    BY <1>1
  <2> QED BY <2>1 DEF Offset
<1>5. ASSUME NEW x \in Columned, NEW y \in Lined, NEW j \in Parts
      PROVE  IF y \in c..c + h - 1
             THEN \E i \in 0..n - 1 : i % p = j /\ Byte(g, x, y, j) = bytes[i]
             ELSE Byte(g, x, y, j) = Byte(f, x, y, j)
  <2> DEFINE u == y * w + x
             b == p * u + j
             m == w * h
  <2>1. x \in Nat /\ x < w /\ y \in Nat /\ y < Height /\ j \in 0..p - 1
    BY <1>1 DEF Columned, Lined, Parts
  <2>2. Offset(x, y) + j = b /\ b \in FrameBytes
    BY PixelBytes DEF Offset
  <2>3. g[b] = IF b - p * v \in 0..n - 1 THEN bytes[b - p * v] ELSE f[b]
    <3> HIDE DEF b, p, v
    <3> QED BY <1>3, <1>4, <2>2
  <2> HIDE DEF p, w
  <2>4. /\ u \in Nat /\ v \in Nat /\ m \in Nat
        /\ v <= u /\ u < v + m <=> y \in c..c + h - 1
    BY <1>1, <2>1, PixelInLines
  <2> HIDE DEF u, v, m
  <2>5. /\ b - p * v \in 0..m * p - 1 <=> v <= u /\ u < v + m
        /\ v <= u => b - p * v = (u - v) * p + j
    BY <1>1, <2>1, <2>4, PixelAmong
  <2>6. n = m * p
    BY <1>2 DEF m
  <2> HIDE DEF b
  <2>7. CASE y \in c..c + h - 1
    <3>1. b - p * v \in 0..n - 1 /\ b - p * v = (u - v) * p + j /\ u - v \in Nat
      BY <2>4, <2>5, <2>6, <2>7
    <3>2. (b - p * v) % p = j
      <4> DEFINE e == u - v
      <4>1. e \in Nat /\ b - p * v = e * p + j /\ j \in Nat /\ j < p
        BY <1>1, <2>1, <3>1
      <4> HIDE DEF e
      <4>2. (e * p + j) % p = j
        BY <1>1, <4>1, PlaceSplit
      <4> QED BY <4>1, <4>2
    <3>3. Byte(g, x, y, j) = bytes[b - p * v]
      BY <2>2, <2>3, <3>1 DEF Byte
    <3>4. \E i \in 0..n - 1 : i % p = j /\ Byte(g, x, y, j) = bytes[i]
      BY <3>1, <3>2, <3>3, Zenon
    <3> QED BY <2>7, <3>4
  <2>8. CASE y \notin c..c + h - 1
    <3>1. g[b] = f[b]
      BY <2>3, <2>4, <2>5, <2>6, <2>8
    <3> QED BY <2>2, <2>8, <3>1 DEF Byte
  <2> QED BY <2>7, <2>8
<1>6. SameAfter(g, f)
  <2> SUFFICES ASSUME NEW b \in FrameBytes, b >= Stride * Height PROVE g[b] = f[b]
    BY DEF SameAfter
  <2> HIDE DEF p, w
  <2>1. p * (c * w) \in Nat /\ w * p * h \in Nat /\ p * (c * w) + w * p * h <= w * p * Height
    BY <1>1, LinesInFrame
  <2>2. b \in Nat
    <3>1. Stride \in Nat /\ Height \in Nat
      BY Shape
    <3> QED BY <3>1 DEF FrameBytes
  <2>3. w * p * Height = (p * w) * Height /\ w * p * h = n
    BY <1>1, <1>2
  <2>4. p * v = p * (c * w)
    BY DEF v
  <2> HIDE DEF v
  <2>5. b - p * v \notin 0..n - 1
    <3>1. (p * w) * Height \in Nat
      BY <1>1
    <3> QED BY <1>1, <1>2, <2>1, <2>2, <2>3, <2>4, <3>1
  <2> QED BY <1>3, <1>4, <2>5
<1>7. Framed(g)
  BY <1>3, Zenon DEF Framed
<1> QED BY <1>5, <1>6, <1>7

-----------------------------------------------------------------------------
(* Colours                                                                   *)

Run(s) == \E a, b \in Bits : s = a..b

(* A pixel format of which a screen can show the colours: it has bytes for   *)
(* all bits of them, each channel is a run of bits that no other channel     *)
(* has, and none or all of them are longer than the client's.                *)
Shows(c) ==
  /\ c.bytesPerPixel > 0
  /\ \A k \in Channels : c.masks[k] \subseteq 0..8 * c.bytesPerPixel - 1 /\ Run(c.masks[k])
  /\ \A k, l \in Channels : k # l => c.masks[k] \cap c.masks[l] = {}
  /\ \/ \A k \in Channels : Cardinality(c.masks[k]) <= 8
     \/ \A k \in Channels : Cardinality(c.masks[k]) >= 8

Masks == [1..4 -> SUBSET Bits]

(* Where the bits of a channel come from: the highest bits of its byte.      *)
LEMMA ChannelBits ==
  ASSUME NEW k \in Channels, NEW s \in SUBSET Bits, Run(s), NEW d, d = HighBitSet(s) - 23 + 8 * (k - 1)
  PROVE  \E n \in Nat : /\ Cardinality(s) = n
                        /\ \A x \in Int : x + d \in s <=> 31 - 8 * k - n < x /\ x <= 31 - 8 * k
<1>1. k \in {1, 2, 3}
  BY DEF Channels
<1>2. CASE s = {}
  <2>1. Cardinality(s) = 0
    BY <1>2, FS_EmptySet
  <2>2. \A x \in Int : x + d \in s <=> 31 - 8 * k - 0 < x /\ x <= 31 - 8 * k
    BY <1>1, <1>2
  <2>3. 0 \in Nat
    OBVIOUS
  <2> QED BY <2>1, <2>2, <2>3, Zenon
<1>3. CASE s # {}
  <2>1. PICK a \in Int, b \in Int : s = a..b
    BY DEF Run, Bits
  <2>2. a <= b /\ b \in s /\ \A m \in s : m \in Int /\ m <= b
    BY <1>3, <2>1
  <2>3. HighBitSet(s) = b
    <3>1. Max(s) \in s /\ \A m \in s : Max(s) >= m
      <4>1. \E g \in s : \A m \in s : g >= m
        BY <2>2
      <4> QED BY <4>1 DEF Max
    <3>2. Max(s) = b
      <4> HIDE DEF Max
      <4>1. b \in Int /\ Max(s) \in Int /\ Max(s) <= b /\ b <= Max(s)
        BY <2>2, <3>1
      <4> QED BY <4>1
    <3> QED BY <1>3, <3>2 DEF HighBitSet
  <2>4. Cardinality(s) = b - a + 1 /\ b - a + 1 \in Nat
    BY <2>1, <2>2, FS_Interval
  <2>5. \A x \in Int : x + d \in s <=> 31 - 8 * k - (b - a + 1) < x /\ x <= 31 - 8 * k
    <3>1. d = b - 31 + 8 * k
      BY <1>1, <2>3
    <3> QED BY <1>1, <2>1, <3>1
  <2> QED BY <2>4, <2>5, Zenon
<1> QED BY <1>2, <1>3

(* The frame buffer's pixel format, as Configured leaves it.                 *)
ShowsColours ==
  /\ config.masks \in Masks /\ Shows(config)
  /\ \A k \in Channels : config.shift[k] = PixelShift(config.masks, k)
  /\ config.format = "BGR" =>
       BytesPerPixel = 4 /\ config.masks = mBgrPixelMasks /\ \A k \in Channels : config.shift[k] = 0

LEMMA Shifts ==
  ASSUME ShowsColours, NEW k \in Channels
  PROVE  /\ config.shift[k] \in Int /\ config.masks[k] \in SUBSET Bits
         /\ \E n \in Nat :
              /\ Cardinality(config.masks[k]) = n
              /\ \A x \in Int : x + config.shift[k] \in config.masks[k] <=>
                   31 - 8 * k - n < x /\ x <= 31 - 8 * k
<1>1. k \in {1, 2, 3}
  BY DEF Channels
<1>2. config.masks[k] \in SUBSET Bits
  BY <1>1 DEF ShowsColours, Masks
<1>3. config.shift[k] = HighBitSet(config.masks[k]) - 23 + 8 * (k - 1) /\ Run(config.masks[k])
  BY DEF ShowsColours, PixelShift, Shows
<1>4. config.shift[k] \in Int
  <2>1. HighBitSet(config.masks[k]) \in Int
    BY <1>2, HighBitIsNumber
  <2> QED BY <1>1, <1>3, <2>1
<1> QED BY <1>2, <1>3, <1>4, ChannelBits

(* The bits of a colour that the screen keeps are those with a place in the  *)
(* frame buffer.                                                             *)
LEMMA KeptBits ==
  ASSUME ShowsColours, NEW x \in Bits
  PROVE  x \in Keeps <=> \E k \in Channels : x + config.shift[k] \in config.masks[k]
<1> DEFINE At(k) == x + config.shift[k] \in config.masks[k]
           m == config.masks
<1>0. 1 \in Channels /\ 2 \in Channels /\ 3 \in Channels
  BY DEF Channels
<1>1. x \in Int /\ x \in 0..31
  BY DEF Bits
<1>2. PICK n1 \in Nat : Cardinality(m[1]) = n1 /\ (At(1) <=> 31 - 8 * 1 - n1 < x /\ x <= 31 - 8 * 1)
  BY <1>0, <1>1, Shifts
<1>3. PICK n2 \in Nat : Cardinality(m[2]) = n2 /\ (At(2) <=> 31 - 8 * 2 - n2 < x /\ x <= 31 - 8 * 2)
  BY <1>0, <1>1, Shifts
<1>4. PICK n3 \in Nat : Cardinality(m[3]) = n3 /\ (At(3) <=> 31 - 8 * 3 - n3 < x /\ x <= 31 - 8 * 3)
  BY <1>0, <1>1, Shifts
<1>5. (n1 <= 8 /\ n2 <= 8 /\ n3 <= 8) \/ (n1 >= 8 /\ n2 >= 8 /\ n3 >= 8)
  <2>1. \/ \A k \in Channels : Cardinality(m[k]) <= 8
        \/ \A k \in Channels : Cardinality(m[k]) >= 8
    BY DEF ShowsColours, Shows
  <2> QED BY <1>0, <1>2, <1>3, <1>4, <2>1
<1>6. (\E k \in Channels : At(k)) <=> At(1) \/ At(2) \/ At(3)
  <2>1. Channels = {1, 2, 3}
    BY DEF Channels
  <2> QED BY <2>1
<1> DEFINE n == Cardinality(m[3 - x \div 8])
<1>7. x \in Keeps <=> x <= 23 /\ 7 - (x % 8) < n
  BY <1>1 DEF Keeps
<1>8. /\ x \div 8 = 0 => n = n3
      /\ x \div 8 = 1 => n = n2
      /\ x \div 8 = 2 => n = n1
  BY <1>2, <1>3, <1>4
<1> HIDE DEF At, m, n
<1>9. x \in Keeps <=> At(1) \/ At(2) \/ At(3)
  <2>1. CASE x \div 8 = 0
    <3>1. x <= 7 /\ x % 8 = x
      BY <1>1, <2>1
    <3> QED BY <1>1, <1>2, <1>3, <1>4, <1>5, <1>7, <1>8, <2>1, <3>1
  <2>2. CASE x \div 8 = 1
    <3>1. 8 <= x /\ x <= 15 /\ x % 8 = x - 8
      BY <1>1, <2>2
    <3> QED BY <1>1, <1>2, <1>3, <1>4, <1>5, <1>7, <1>8, <2>2, <3>1
  <2>3. CASE x \div 8 = 2
    <3>1. 16 <= x /\ x <= 23 /\ x % 8 = x - 16
      BY <1>1, <2>3
    <3> QED BY <1>1, <1>2, <1>3, <1>4, <1>5, <1>7, <1>8, <2>3, <3>1
  <2>4. CASE x \div 8 = 3
    <3>1. 24 <= x
      BY <1>1, <2>4
    <3> QED BY <1>1, <1>2, <1>3, <1>4, <1>7, <3>1
  <2>5. x \div 8 \in 0..3
    BY <1>1
  <2> QED BY <2>1, <2>2, <2>3, <2>4, <2>5
<1> QED BY <1>6, <1>9 DEF At

LEMMA ShiftedBit ==
  ASSUME NEW w \in SUBSET Bits, NEW n \in Int, NEW x
  PROVE  x \in Shifted(w, n) <=> x \in Bits /\ x - n \in w
<1>1. \A b \in w : b \in Int
  BY DEF Bits
<1>2. x \in Bits => x \in Int
  BY DEF Bits
<1>3. ASSUME x \in Shifted(w, n) PROVE x \in Bits /\ x - n \in w
  <2>1. PICK b \in w : x = b + n /\ x \in Bits
    BY <1>3 DEF Shifted
  <2>2. x - n = b
    BY <1>1, <2>1
  <2> QED BY <2>1, <2>2
<1>4. ASSUME x \in Bits, x - n \in w PROVE x \in Shifted(w, n)
  <2>1. x = (x - n) + n
    BY <1>2, <1>4
  <2> QED BY <1>4, <2>1, Zenon DEF Shifted
<1> QED BY <1>3, <1>4

LEMMA StoredBit ==
  ASSUME ShowsColours, NEW c \in SUBSET Bits, NEW y
  PROVE  y \in Stored(c) <=>
           \E k \in Channels : y \in config.masks[k] /\ y - config.shift[k] \in c
<1>1. \A k \in Channels : config.shift[k] \in Int /\ config.masks[k] \in SUBSET Bits
  BY Shifts
<1>2. \A k \in Channels :
        y \in Shifted(c, config.shift[k]) <=> y \in Bits /\ y - config.shift[k] \in c
  BY <1>1, ShiftedBit
<1>3. y \in Stored(c) <=> \E k \in Channels : y \in Shifted(c, config.shift[k]) \cap config.masks[k]
  BY Zenon DEF Stored
<1> QED BY <1>1, <1>2, <1>3, Zenon

LEMMA LoadedBit ==
  ASSUME ShowsColours, NEW p \in SUBSET Bits, NEW x
  PROVE  x \in Loaded(p) <=>
           x \in Bits /\ \E k \in Channels : x + config.shift[k] \in p \cap config.masks[k]
<1>1. \A k \in Channels : config.shift[k] \in Int /\ config.masks[k] \in SUBSET Bits
  BY Shifts
<1>2. ASSUME NEW k \in Channels
      PROVE  x \in Shifted(p \cap config.masks[k], -config.shift[k]) <=>
               x \in Bits /\ x + config.shift[k] \in p \cap config.masks[k]
  <2>1. p \cap config.masks[k] \in SUBSET Bits /\ -config.shift[k] \in Int
    BY <1>1
  <2>2. x \in Shifted(p \cap config.masks[k], -config.shift[k]) <=>
          x \in Bits /\ x - (-config.shift[k]) \in p \cap config.masks[k]
    BY <2>1, ShiftedBit
  <2>3. x \in Bits => x - (-config.shift[k]) = x + config.shift[k]
    BY <1>1 DEF Bits
  <2> QED BY <2>2, <2>3
<1>3. x \in Loaded(p) <=>
        \E k \in Channels : x \in Shifted(p \cap config.masks[k], -config.shift[k])
  BY Zenon DEF Loaded
<1> QED BY <1>2, <1>3, Zenon

(* What is shown of a colour that is stored, converted or as it is.          *)
LEMMA ColourShown ==
  ASSUME ShowsColours, NEW c \in SUBSET Bits
  PROVE  /\ Stored(c) \in SUBSET Bits /\ Loaded(Stored(c)) = c \cap Keeps
         /\ config.format = "BGR" => Loaded(c) = c \cap Keeps
<1>1. \A k \in Channels : config.shift[k] \in Int /\ config.masks[k] \in SUBSET Bits
  BY Shifts
<1>2. Stored(c) \in SUBSET Bits
  BY <1>1, StoredBit
<1>3. ASSUME NEW x \in Bits, NEW k \in Channels
      PROVE  x + config.shift[k] \in Stored(c) \cap config.masks[k] <=>
               x \in c /\ x + config.shift[k] \in config.masks[k]
  <2> DEFINE y == x + config.shift[k]
  <2>1. y - config.shift[k] = x
    BY <1>1 DEF Bits
  <2> HIDE DEF y
  <2>2. ASSUME NEW l \in Channels, y \in config.masks[k], y \in config.masks[l] PROVE l = k
    BY <2>2 DEF ShowsColours, Shows
  <2>3. y \in Stored(c) <=> \E l \in Channels : y \in config.masks[l] /\ y - config.shift[l] \in c
    BY StoredBit
  <2> QED BY <2>1, <2>2, <2>3 DEF y
<1>4. \A x : x \in Keeps => x \in Bits
  BY DEF Keeps, Bits
<1>5. Loaded(Stored(c)) = c \cap Keeps
  <2>1. ASSUME NEW x PROVE x \in Loaded(Stored(c)) <=> x \in c \cap Keeps
    <3>1. x \in Loaded(Stored(c)) <=>
            x \in Bits /\ \E k \in Channels : x + config.shift[k] \in Stored(c) \cap config.masks[k]
      BY <1>2, LoadedBit
    <3>2. x \in Bits => (x \in Keeps <=> \E k \in Channels : x + config.shift[k] \in config.masks[k])
      BY KeptBits
    <3> QED BY <1>3, <1>4, <3>1, <3>2, Zenon
  <2> QED BY <2>1
<1>6. ASSUME config.format = "BGR" PROVE Loaded(c) = c \cap Keeps
  <2>1. ASSUME NEW x PROVE x \in Loaded(c) <=> x \in c \cap Keeps
    <3>1. x \in Loaded(c) <=>
            x \in Bits /\ \E k \in Channels : x + config.shift[k] \in c \cap config.masks[k]
      BY LoadedBit
    <3>2. x \in Bits => (x \in Keeps <=> \E k \in Channels : x + config.shift[k] \in config.masks[k])
      BY KeptBits
    <3>3. ASSUME x \in Bits, NEW k \in Channels PROVE x + config.shift[k] = x
      <4>1. config.shift[k] = 0
        BY <1>6 DEF ShowsColours
      <4> QED BY <3>3, <4>1 DEF Bits
    <3> QED BY <1>4, <3>1, <3>2, <3>3
  <2> QED BY <2>1
<1> QED BY <1>2, <1>5, <1>6

(* A pixel with these bytes, and one with the bytes of another.              *)
LEMMA PixelOfBytes ==
  ASSUME FrameShape, NEW f, NEW x, NEW y, NEW p \in SUBSET (0..8 * BytesPerPixel - 1),
         \A j \in Parts : Byte(f, x, y, j) = ByteOf(p, j)
  PROVE  PixelOf(f, x, y) = p
<1>1. BytesPerPixel \in 1..4
  BY DEF FrameShape
<1>2. ASSUME NEW j \in Parts
      PROVE  ByteOf(p, j) \in SUBSET Bits /\ \A i : i \in ByteOf(p, j) <=> i \in 0..7 /\ i + 8 * j \in p
  <2>1. j \in 0..3
    BY <1>1 DEF Parts
  <2>2. ASSUME NEW i \in ByteOf(p, j) PROVE i \in 0..7 /\ i + 8 * j \in p
    <3>1. PICK b \in p : b \div 8 = j /\ i = b - 8 * j
      BY DEF ByteOf
    <3>2. b \in Nat
      BY <1>1
    <3>3. b - 8 * j \in 0..7 /\ (b - 8 * j) + 8 * j = b
      BY <2>1, <3>1, <3>2
    <3> QED BY <3>1, <3>3
  <2>3. ASSUME NEW i \in 0..7, i + 8 * j \in p PROVE i \in ByteOf(p, j)
    <3>1. (i + 8 * j) \div 8 = j /\ i = (i + 8 * j) - 8 * j
      BY <2>1
    <3> QED BY <2>3, <3>1 DEF ByteOf
  <2>4. 0..7 \subseteq Bits
    BY DEF Bits
  <2>5. \A i : i \in ByteOf(p, j) <=> i \in 0..7 /\ i + 8 * j \in p
    BY <2>2, <2>3, Zenon
  <2>6. ByteOf(p, j) \subseteq Bits
    BY <2>2, <2>4
  <2> QED BY <2>5, <2>6
<1>3. ASSUME NEW v PROVE v \in PixelOf(f, x, y) <=> v \in p
  <2>1. v \in PixelOf(f, x, y) <=> \E j \in Parts : v \in Shifted(Byte(f, x, y, j), 8 * j)
    BY Zenon DEF PixelOf, Byte, Parts
  <2>2. ASSUME NEW j \in Parts
        PROVE  v \in Shifted(Byte(f, x, y, j), 8 * j) <=> v \in Bits /\ v - 8 * j \in 0..7 /\ v \in p
    <3>1. j \in 0..3 /\ 8 * j \in Int
      BY <1>1 DEF Parts
    <3>2. v \in Shifted(ByteOf(p, j), 8 * j) <=> v \in Bits /\ v - 8 * j \in ByteOf(p, j)
      BY <1>2, <3>1, ShiftedBit
    <3>3. v \in Bits => (v - 8 * j) + 8 * j = v
      BY <3>1 DEF Bits
    <3> QED BY <1>2, <3>2, <3>3
  <2>3. ASSUME v \in p PROVE \E j \in Parts : v \in Bits /\ v - 8 * j \in 0..7
    <3>1. v \in 0..8 * BytesPerPixel - 1 /\ v \in Bits /\ v \div 8 \in 0..BytesPerPixel - 1
      BY <1>1, <2>3 DEF Bits
    <3>2. v - 8 * (v \div 8) \in 0..7
      BY <1>1, <3>1
    <3> QED BY <3>1, <3>2 DEF Parts
  <2> QED BY <2>1, <2>2, <2>3, Zenon
<1> QED BY <1>3

LEMMA PixelOfSame ==
  ASSUME NEW g, NEW x, NEW y, NEW f, NEW u, NEW v,
         \A j \in Parts : Byte(g, x, y, j) = Byte(f, u, v, j)
  PROVE  PixelOf(g, x, y) = PixelOf(f, u, v)
<1>1. ASSUME NEW b PROVE b \in PixelOf(g, x, y) <=> b \in PixelOf(f, u, v)
  <2>1. b \in PixelOf(g, x, y) <=> \E j \in Parts : b \in Shifted(Byte(g, x, y, j), 8 * j)
    BY Zenon DEF PixelOf, Byte, Parts
  <2>2. b \in PixelOf(f, u, v) <=> \E j \in Parts : b \in Shifted(Byte(f, u, v, j), 8 * j)
    BY Zenon DEF PixelOf, Byte, Parts
  <2>3. \A j \in Parts : Shifted(Byte(g, x, y, j), 8 * j) = Shifted(Byte(f, u, v, j), 8 * j)
    BY Zenon
  <2> QED BY <2>1, <2>2, <2>3, Zenon
<1> QED BY <1>1

(* A stored colour has no bits behind its bytes.                             *)
LEMMA StoredFits ==
  ASSUME ShowsColours, NEW c \in SUBSET Bits
  PROVE  Stored(c) \in SUBSET (0..8 * BytesPerPixel - 1)
<1>1. \A k \in Channels : config.masks[k] \subseteq 0..8 * BytesPerPixel - 1
  BY DEF ShowsColours, Shows, BytesPerPixel
<1> QED BY <1>1, StoredBit

-----------------------------------------------------------------------------
(* What a request makes of the bytes of a frame f                            *)

PixelFor(r, x, y) == BufferPixel(r, r.sx + x - r.x, r.sy + y - r.y)

Meant(f, r, x, y, j) ==
  IF r.op = "VideoFill" THEN ByteOf(Stored(r.color), j)
  ELSE IF r.op = "BufferToVideo"
  THEN ByteOf(IF config.format = "BGR" THEN PixelFor(r, x, y) ELSE Stored(PixelFor(r, x, y)), j)
  ELSE Byte(f, x - r.x + r.sx, y - r.y + r.sy, j)

(* Its first k lines are in g, and all else is as it was.                    *)
Painted(g, f, r, k) ==
  /\ Framed(g) /\ SameAfter(g, f)
  /\ \A x \in Columned, y \in Lined, j \in Parts :
       Byte(g, x, y, j) = IF x \in r.x..r.x + r.w - 1 /\ y \in r.y..r.y + k - 1
                          THEN Meant(f, r, x, y, j) ELSE Byte(f, x, y, j)

Inside(r) ==
  /\ {r.x, r.y, r.w, r.h} \subseteq Nat
  /\ r.x + r.w <= config.pixelsPerScanLine /\ r.y + r.h <= Height

LEMMA PaintedMore ==
  ASSUME FrameShape, NEW r, Inside(r), NEW k \in Nat, k < r.h,
         NEW f, NEW g, Painted(g, f, r, k),
         NEW bytes, DOMAIN bytes = 0..r.w * BytesPerPixel - 1,
         \A x \in r.x..r.x + r.w - 1, j \in Parts :
           bytes[(x - r.x) * BytesPerPixel + j] = Meant(f, r, x, r.y + k, j),
         NEW d, d = Copied(g, Offset(r.x, r.y + k), bytes)
  PROVE  Painted(d, f, r, k + 1)
<1>1. r.x \in Nat /\ r.y \in Nat /\ r.w \in Nat /\ r.h \in Nat /\ Height \in Nat
      /\ r.x + r.w <= config.pixelsPerScanLine /\ r.y + r.h <= Height
  BY Shape DEF Inside
<1>2. r.y + k \in Lined
  BY <1>1 DEF Lined
<1>3. Framed(g) /\ SameAfter(g, f)
  BY Zenon DEF Painted
<1>4. /\ Framed(d) /\ SameAfter(d, g)
      /\ \A x \in Columned, y \in Lined, j \in Parts :
           Byte(d, x, y, j) = IF y = r.y + k /\ x \in r.x..r.x + r.w - 1
                              THEN bytes[(x - r.x) * BytesPerPixel + j] ELSE Byte(g, x, y, j)
  <2> DEFINE a == r.x
             n == r.w
             c == r.y + k
  <2>1. /\ a \in Nat /\ n \in Nat /\ c \in Lined /\ a + n <= config.pixelsPerScanLine
        /\ DOMAIN bytes = 0..n * BytesPerPixel - 1 /\ d = Copied(g, Offset(a, c), bytes)
    BY <1>1, <1>2
  <2> HIDE DEF a, n, c
  <2>2. LineCopied(d, g, a, c, n, bytes)
    BY <1>3, <2>1, CopiedLine
  <2> QED BY <2>2, Zenon DEF a, n, c, LineCopied
<1>5. SameAfter(d, f)
  BY <1>3, <1>4 DEF SameAfter
<1>6. ASSUME NEW x \in Columned, NEW y \in Lined, NEW j \in Parts
      PROVE  Byte(d, x, y, j) = IF x \in r.x..r.x + r.w - 1 /\ y \in r.y..r.y + (k + 1) - 1
                                THEN Meant(f, r, x, y, j) ELSE Byte(f, x, y, j)
  <2>1. y \in Int
    BY DEF Lined
  <2>2. Byte(g, x, y, j) = IF x \in r.x..r.x + r.w - 1 /\ y \in r.y..r.y + k - 1
                           THEN Meant(f, r, x, y, j) ELSE Byte(f, x, y, j)
    BY Zenon DEF Painted
  <2>3. Byte(d, x, y, j) = IF y = r.y + k /\ x \in r.x..r.x + r.w - 1
                           THEN bytes[(x - r.x) * BytesPerPixel + j] ELSE Byte(g, x, y, j)
    BY <1>4, Zenon
  <2>4. y \in r.y..r.y + (k + 1) - 1 <=> y \in r.y..r.y + k - 1 \/ y = r.y + k
    <3> DEFINE c == r.y
    <3>1. c \in Nat
      BY <1>1
    <3> HIDE DEF c
    <3>2. y \in c..c + (k + 1) - 1 <=> y \in c..c + k - 1 \/ y = c + k
      BY <2>1, <3>1
    <3> QED BY <3>2 DEF c
  <2>5. y = r.y + k /\ x \in r.x..r.x + r.w - 1 =>
          bytes[(x - r.x) * BytesPerPixel + j] = Meant(f, r, x, y, j)
    BY Zenon
  <2> QED BY <2>2, <2>3, <2>4, <2>5, Zenon
<1> QED BY <1>4, <1>5, <1>6, Zenon DEF Painted

-----------------------------------------------------------------------------
(* Fills                                                                     *)

(* The bytes of a pixel, repeated over the words of a wide fill.             *)
LEMMA WideByte ==
  ASSUME FrameShape, NEW pixel, DOMAIN pixel = Parts, UseWideFill(pixel), NEW i \in Nat
  PROVE  /\ WideFill(pixel)[i % 8] = pixel[i % BytesPerPixel]
         /\ BytesPerPixel # 3 => WideFill(pixel)[i % 4] = pixel[i % BytesPerPixel]
<1>1. BytesPerPixel \in {1, 2, 3, 4}
  BY DEF FrameShape
<1>2. i % 8 \in 0..7 /\ i % 4 \in 0..7
  OBVIOUS
<1>3. \A n \in 0..7 : WideFill(pixel)[n] =
        pixel[IF 8 % BytesPerPixel = 0 THEN n % BytesPerPixel ELSE 0]
  BY DEF WideFill
<1>4. CASE BytesPerPixel = 3
  <2>1. \A n \in Parts : pixel[n] = pixel[0]
    BY <1>4 DEF UseWideFill
  <2>2. i % 3 \in Parts
    BY <1>4 DEF Parts
  <2> QED BY <1>2, <1>3, <1>4, <2>1, <2>2
<1>5. CASE BytesPerPixel = 1
  BY <1>2, <1>3, <1>5
<1>6. CASE BytesPerPixel = 2
  <2>1. (i % 8) % 2 = i % 2 /\ (i % 4) % 2 = i % 2
    OBVIOUS
  <2> QED BY <1>2, <1>3, <1>6, <2>1
<1>7. CASE BytesPerPixel = 4
  <2>1. (i % 8) % 4 = i % 4 /\ (i % 4) % 4 = i % 4
    OBVIOUS
  <2> QED BY <1>2, <1>3, <1>7, <2>1
<1> QED BY <1>1, <1>4, <1>5, <1>6, <1>7

(* The line buffer has the colour of a fill in its first n bytes.            *)
Holds(line, n, pixel) == \A b \in 0..n - 1 : line[b] = pixel[b % BytesPerPixel]

LineReady(line, ready, n, pixel) ==
  DOMAIN line = 0..Width * BytesPerPixel - 1 /\ (ready => Holds(line, n, pixel))

LEMMA FillPixel ==
  ASSUME FrameShape, NEW r, r.op = "VideoFill", NEW f, NEW x, NEW y, NEW j \in Parts
  PROVE  DOMAIN StoredBytes(r.color) = Parts /\ StoredBytes(r.color)[j] = Meant(f, r, x, y, j)
<1>1. StoredBytes(r.color) = [k \in Parts |-> ByteOf(Stored(r.color), k)]
  BY Zenon DEF StoredBytes, Parts
<1>2. StoredBytes(r.color)[j] = ByteOf(Stored(r.color), j) /\ DOMAIN StoredBytes(r.color) = Parts
  BY <1>1
<1> QED BY <1>2 DEF Meant

(* The bytes of n pixels, one after the other.                               *)
LEMMA PixelByPixel ==
  ASSUME FrameShape, NEW a \in Nat, NEW n \in Nat, NEW x \in a..a + n - 1, NEW j \in Parts
  PROVE  /\ (x - a) * BytesPerPixel + j \in 0..n * BytesPerPixel - 1
         /\ ((x - a) * BytesPerPixel + j) % BytesPerPixel = j
         /\ ((x - a) * BytesPerPixel + j) \div BytesPerPixel = x - a
<1> DEFINE p == BytesPerPixel
           e == x - a
<1>1. p \in Nat \ {0} /\ j \in Nat /\ j < p
  BY Shape DEF Parts
<1>2. e \in Nat /\ e < n
  OBVIOUS
<1> HIDE DEF p, e
<1>3. (e * p + j) \div p = e /\ (e * p + j) % p = j /\ e * p + j \in Nat
  BY <1>1, <1>2, PlaceSplit
<1>4. e * p + j < n * p
  <2>1. p * (e + 1) <= p * n
    BY <1>1, <1>2, TimesMonotone
  <2>2. p * (e + 1) = e * p + p /\ p * n = n * p /\ e * p \in Nat
    BY <1>1, <1>2
  <2> QED BY <1>1, <2>1, <2>2
<1>5. n * p \in Nat
  BY <1>1
<1>6. e * p + j \in 0..n * p - 1
  BY <1>3, <1>4, <1>5
<1> QED BY <1>3, <1>6 DEF p, e

LEMMA FillPaints ==
  ASSUME FrameShape, NEW r, r.op = "VideoFill", Inside(r), r.w <= Width, NEW k \in Nat, k < r.h,
         NEW f, NEW g, NEW line, NEW ready, Painted(g, f, r, k),
         LineReady(line, ready, r.w * BytesPerPixel, StoredBytes(r.color)),
         NEW d, d = FillLine([frame |-> g, line |-> line, ready |-> ready], r, k)
  PROVE  /\ Painted(d.frame, f, r, k + 1)
         /\ LineReady(d.line, d.ready, r.w * BytesPerPixel, StoredBytes(r.color))
<1> DEFINE m     == [frame |-> g, line |-> line, ready |-> ready]
           to    == Offset(r.x, r.y + k)
           n     == r.w * BytesPerPixel
           pixel == StoredBytes(r.color)
           wide  == WideFill(pixel)
           fresh == [b \in 0..n - 1 |-> pixel[b % BytesPerPixel]]
           used  == IF ready THEN line ELSE Copied(line, 0, fresh)
           one   == [b \in 0..n - 1 |-> wide[b % 8]]
           two   == [b \in 0..n - 1 |-> used[b]]
<1>1. /\ m.frame = g /\ m.line = line /\ m.ready = ready
      /\ d = IF UseWideFill(pixel) /\ to % 8 = 0
             THEN [m EXCEPT !.frame = Copied(m.frame, to, [b \in 0..n - 1 |-> wide[b % 8]])]
             ELSE LET u == IF m.ready THEN m.line ELSE Copied(m.line, 0, [b \in 0..n - 1 |-> pixel[b % BytesPerPixel]])
                  IN [frame |-> Copied(m.frame, to, [b \in 0..n - 1 |-> u[b]]), line |-> u, ready |-> TRUE]
  BY DEF FillLine
<1>2. d = IF UseWideFill(pixel) /\ to % 8 = 0
          THEN [m EXCEPT !.frame = Copied(g, to, one)]
          ELSE [frame |-> Copied(g, to, two), line |-> used, ready |-> TRUE]
  BY <1>1, Zenon
<1>3. DOMAIN one = 0..n - 1 /\ DOMAIN two = 0..n - 1 /\ \A b \in 0..n - 1 : one[b] = wide[b % 8] /\ two[b] = used[b]
  OBVIOUS
<1>4. BytesPerPixel \in Nat \ {0} /\ Width \in Nat /\ r.x \in Nat /\ r.w \in Nat /\ n \in Nat
      /\ n <= Width * BytesPerPixel
  <2>1. BytesPerPixel \in Nat \ {0} /\ Width \in Nat /\ r.x \in Nat /\ r.w \in Nat
    BY Shape DEF Inside
  <2>2. BytesPerPixel * r.w <= BytesPerPixel * Width
    BY <2>1, TimesMonotone
  <2>3. BytesPerPixel * r.w = n /\ BytesPerPixel * Width = Width * BytesPerPixel /\ n \in Nat
    BY <2>1
  <2> QED BY <2>1, <2>2, <2>3
<1>5. DOMAIN pixel = Parts
  <2>1. 0 \in Parts
    BY <1>4 DEF Parts
  <2> QED BY <2>1, FillPixel
<1>6. DOMAIN used = 0..Width * BytesPerPixel - 1 /\ Holds(used, n, pixel)
  <2>1. CASE ready
    BY <2>1 DEF LineReady
  <2>2. CASE ~ready
    <3>1. used = [b \in DOMAIN line |-> IF b - 0 \in DOMAIN fresh THEN fresh[b - 0] ELSE line[b]]
      BY <2>2, Zenon DEF Copied
    <3>2. DOMAIN line = 0..Width * BytesPerPixel - 1
      BY Zenon DEF LineReady
    <3>3. DOMAIN fresh = 0..n - 1 /\ \A b \in 0..n - 1 : fresh[b] = pixel[b % BytesPerPixel]
      OBVIOUS
    <3> HIDE DEF used, fresh, pixel, n
    <3>4. ASSUME NEW b \in 0..n - 1 PROVE used[b] = pixel[b % BytesPerPixel]
      <4>1. b \in 0..Width * BytesPerPixel - 1 /\ b - 0 = b
        BY <1>4
      <4> QED BY <3>1, <3>2, <3>3, <4>1
    <3> QED BY <3>1, <3>2, <3>4 DEF Holds
  <2> QED BY <2>1, <2>2
<1>7. ASSUME NEW x \in r.x..r.x + r.w - 1, NEW j \in Parts, NEW bytes,
             \A b \in 0..n - 1 : bytes[b] = pixel[b % BytesPerPixel]
      PROVE  bytes[(x - r.x) * BytesPerPixel + j] = Meant(f, r, x, r.y + k, j)
  <2> DEFINE i == (x - r.x) * BytesPerPixel + j
  <2>1. i \in 0..n - 1 /\ i % BytesPerPixel = j
    BY <1>4, PixelByPixel
  <2>2. pixel[j] = Meant(f, r, x, r.y + k, j)
    BY FillPixel
  <2> HIDE DEF i, pixel, n
  <2>3. bytes[i] = pixel[j]
    BY <1>7, <2>1
  <2> QED BY <2>2, <2>3 DEF i
<1> HIDE DEF one, two, used
<1>8. CASE UseWideFill(pixel) /\ to % 8 = 0
  <2>1. d.frame = Copied(g, to, one) /\ d.line = line /\ d.ready = ready
    <3> HIDE DEF pixel, to
    <3> QED BY <1>2, <1>8
  <2>2. \A b \in 0..n - 1 : one[b] = pixel[b % BytesPerPixel]
    <3> SUFFICES ASSUME NEW b \in 0..n - 1 PROVE one[b] = pixel[b % BytesPerPixel]
      OBVIOUS
    <3> HIDE DEF pixel, n
    <3>1. b \in Nat
      BY <1>4
    <3>2. wide[b % 8] = pixel[b % BytesPerPixel]
      BY <1>5, <1>8, <3>1, WideByte
    <3> QED BY <1>3, <3>2, Zenon
  <2>3. \A x \in r.x..r.x + r.w - 1, j \in Parts :
          one[(x - r.x) * BytesPerPixel + j] = Meant(f, r, x, r.y + k, j)
    BY <1>7, <2>2, Zenon
  <2>4. Painted(d.frame, f, r, k + 1)
    BY <1>3, <2>1, <2>3, PaintedMore
  <2> QED BY <2>1, <2>4
<1>9. CASE ~(UseWideFill(pixel) /\ to % 8 = 0)
  <2>1. d.frame = Copied(g, to, two) /\ d.line = used /\ d.ready = TRUE
    <3> HIDE DEF pixel, to
    <3> QED BY <1>2, <1>9
  <2>2. \A b \in 0..n - 1 : two[b] = pixel[b % BytesPerPixel]
    BY <1>3, <1>6, Zenon DEF Holds
  <2>3. \A x \in r.x..r.x + r.w - 1, j \in Parts :
          two[(x - r.x) * BytesPerPixel + j] = Meant(f, r, x, r.y + k, j)
    BY <1>7, <2>2, Zenon
  <2>4. Painted(d.frame, f, r, k + 1)
    BY <1>3, <2>1, <2>3, PaintedMore
  <2>5. LineReady(d.line, d.ready, n, pixel)
    BY <1>6, <2>1, Zenon DEF LineReady
  <2> QED BY <2>4, <2>5
<1> QED BY <1>8, <1>9

(* All lines of a fill at once, if it has whole words.                       *)
WholeWords(n) == BytesPerPixel \in {2, 4} => n >= 8 /\ n % 4 = 0

LEMMA FillAtOncePaints ==
  ASSUME FrameShape, NEW r, r.op = "VideoFill", Inside(r), OneShot(r),
         WholeWords(r.w * BytesPerPixel * r.h),
         NEW f, Framed(f), NEW line, NEW ready,
         NEW d, d = FillAtOnce([frame |-> f, line |-> line, ready |-> ready], r)
  PROVE  Painted(d.frame, f, r, r.h) /\ d.line = line /\ d.ready = ready
<1> DEFINE m     == [frame |-> f, line |-> line, ready |-> ready]
           n     == r.w * BytesPerPixel * r.h
           pixel == StoredBytes(r.color)
           wide  == WideFill(pixel)
           all   == [b \in 0..n - 1 |-> wide[IF n >= 8 /\ b < n - (n % 4) THEN b % 4 ELSE 0]]
           w     == config.pixelsPerScanLine
<1>1. m.frame = f /\ d = [m EXCEPT !.frame = Copied(m.frame, Offset(0, r.y), all)]
  BY DEF FillAtOnce
<1>2. d.frame = Copied(f, Offset(0, r.y), all) /\ d.line = line /\ d.ready = ready
  <2> HIDE DEF all
  <2> QED BY <1>1
<1>3. BytesPerPixel \in {1, 2, 3, 4} /\ w \in Nat \ {0} /\ Height \in Nat
  BY Shape DEF FrameShape
<1>4. r.x = 0 /\ r.w = w /\ UseWideFill(pixel) /\ r.y \in Nat /\ r.h \in Nat /\ r.y + r.h <= Height
  BY DEF OneShot, Inside
<1>5. n \in Nat /\ n = w * BytesPerPixel * r.h
  <2> DEFINE p == BytesPerPixel
             h == r.h
  <2>1. p \in Nat /\ h \in Nat
    BY <1>3, <1>4
  <2> HIDE DEF p, h, w
  <2>2. w * p * h \in Nat
    BY <1>3, <2>1
  <2> QED BY <1>4, <2>2 DEF p, h
<1>6. DOMAIN pixel = Parts
  <2>1. 0 \in Parts
    BY <1>3 DEF Parts
  <2> QED BY <2>1, FillPixel
<1>7. DOMAIN all = 0..n - 1
  OBVIOUS
<1>8. ASSUME NEW i \in 0..n - 1 PROVE all[i] = pixel[i % BytesPerPixel]
  <2> DEFINE e == IF n >= 8 /\ i < n - (n % 4) THEN i % 4 ELSE 0
  <2>1. all[i] = wide[e]
    OBVIOUS
  <2> HIDE DEF all, pixel, n
  <2>2. i \in Nat
    BY <1>5
  <2>3. wide[i % 8] = pixel[i % BytesPerPixel] /\ (BytesPerPixel # 3 => wide[i % 4] = pixel[i % BytesPerPixel])
    BY <1>4, <1>6, <2>2, WideByte
  <2>4. \A c \in 0..7 : wide[c] = pixel[IF 8 % BytesPerPixel = 0 THEN c % BytesPerPixel ELSE 0]
    BY DEF WideFill
  <2>5. CASE BytesPerPixel \in {2, 4}
    <3>1. n >= 8 /\ n % 4 = 0
      BY <2>5 DEF WholeWords, n
    <3>2. e = i % 4
      <4>1. i < n - (n % 4)
        BY <1>5, <2>2, <3>1
      <4> QED BY <3>1, <4>1
    <3> QED BY <2>1, <2>3, <2>5, <3>2
  <2>6. CASE BytesPerPixel = 1
    <3>1. e \in 0..7
      BY <2>2
    <3> HIDE DEF e
    <3>2. wide[e] = pixel[0] /\ i % BytesPerPixel = 0
      BY <2>2, <2>4, <2>6, <3>1
    <3> QED BY <2>1, <3>2
  <2>7. CASE BytesPerPixel = 3
    <3>1. e \in 0..7 /\ i % 3 \in Parts
      BY <2>2, <2>7 DEF Parts
    <3> HIDE DEF e
    <3>2. wide[e] = pixel[0]
      BY <2>4, <2>7, <3>1
    <3>3. \A c \in Parts : pixel[c] = pixel[0]
      BY <1>4, <1>6, <2>7 DEF UseWideFill
    <3> QED BY <2>1, <2>7, <3>1, <3>2, <3>3
  <2> QED BY <1>3, <2>5, <2>6, <2>7
<1> HIDE DEF all
<1>9. /\ Framed(d.frame) /\ SameAfter(d.frame, f)
      /\ \A x \in Columned, y \in Lined, j \in Parts :
           IF y \in r.y..r.y + r.h - 1
           THEN \E i \in 0..n - 1 : i % BytesPerPixel = j /\ Byte(d.frame, x, y, j) = all[i]
           ELSE Byte(d.frame, x, y, j) = Byte(f, x, y, j)
  BY <1>2, <1>4, <1>5, <1>7, CopiedLines
<1>10. ASSUME NEW x \in Columned, NEW y \in Lined, NEW j \in Parts
       PROVE  Byte(d.frame, x, y, j) = IF x \in r.x..r.x + r.w - 1 /\ y \in r.y..r.y + r.h - 1
                                       THEN Meant(f, r, x, y, j) ELSE Byte(f, x, y, j)
  <2>1. x \in r.x..r.x + r.w - 1
    BY <1>3, <1>4 DEF Columned
  <2>2. ASSUME y \in r.y..r.y + r.h - 1 PROVE Byte(d.frame, x, y, j) = Meant(f, r, x, y, j)
    <3>1. PICK i \in 0..n - 1 : i % BytesPerPixel = j /\ Byte(d.frame, x, y, j) = all[i]
      BY <1>9, <2>2, Zenon
    <3>2. pixel[j] = Meant(f, r, x, y, j)
      BY FillPixel
    <3> HIDE DEF n, pixel
    <3> QED BY <1>8, <3>1, <3>2
  <2>3. ASSUME y \notin r.y..r.y + r.h - 1 PROVE Byte(d.frame, x, y, j) = Byte(f, x, y, j)
    BY <1>9, <2>3, Zenon
  <2> QED BY <2>1, <2>2, <2>3
<1> QED BY <1>2, <1>9, <1>10 DEF Painted

-----------------------------------------------------------------------------
(* Writes                                                                    *)

LEMMA WritePaints ==
  ASSUME FrameShape, ShowsColours, NEW r, IsRequest(r), r.op = "BufferToVideo",
         config.format = "BGR" => r.sx = 0,
         Inside(r), r.w <= Width, NEW k \in Nat, k < r.h,
         NEW f, NEW g, NEW line, NEW ready, Painted(g, f, r, k), DOMAIN line = 0..Width * BytesPerPixel - 1,
         NEW d, d = BufferToVideo([frame |-> g, line |-> line, ready |-> ready], r, k)
  PROVE  Painted(d.frame, f, r, k + 1) /\ DOMAIN d.line = DOMAIN line /\ d.ready = ready
<1> DEFINE m      == [frame |-> g, line |-> line, ready |-> ready]
           to     == Offset(r.x, r.y + k)
           n      == r.w * BytesPerPixel
           copied == [b \in 0..n - 1 |-> ByteOf(BufferPixel(r, b \div 4, r.sy + k), b % 4)]
           pixels == [x \in 0..r.w - 1 |-> StoredBytes(BufferPixel(r, r.sx + x, r.sy + k))]
           bytes  == [b \in 0..n - 1 |-> pixels[b \div BytesPerPixel][b % BytesPerPixel]]
<1>1. /\ m.frame = g /\ m.line = line /\ m.ready = ready
      /\ d = IF config.format = "BGR"
             THEN [m EXCEPT !.frame = Copied(m.frame, to, copied)]
             ELSE [m EXCEPT !.frame = Copied(m.frame, to, bytes), !.line = Copied(m.line, 0, bytes)]
  BY DEF BufferToVideo
<1>2. BytesPerPixel \in Nat \ {0} /\ r.x \in Nat /\ r.y \in Nat /\ r.w \in Nat /\ r.sx \in Nat /\ r.sy \in Nat
  BY Shape DEF Inside, IsRequest
<1>3. ASSUME NEW x \in r.x..r.x + r.w - 1
      PROVE  /\ PixelFor(r, x, r.y + k) = BufferPixel(r, r.sx + (x - r.x), r.sy + k)
             /\ x - r.x \in 0..r.w - 1
  <2> DEFINE a == r.x
             c == r.y
             e == r.w
             s == r.sx
             t == r.sy
  <2>1. a \in Nat /\ c \in Nat /\ e \in Nat /\ s \in Nat /\ t \in Nat /\ x \in a..a + e - 1
    BY <1>2
  <2> HIDE DEF a, c, e, s, t
  <2>2. s + x - a = s + (x - a) /\ t + (c + k) - c = t + k /\ x - a \in 0..e - 1
    BY <2>1
  <2> QED BY <2>2 DEF a, c, e, s, t, PixelFor
<1>4. DOMAIN copied = 0..n - 1 /\ DOMAIN bytes = 0..n - 1
  OBVIOUS
<1>5. CASE config.format = "BGR"
  <2>1. d.frame = Copied(g, to, copied) /\ d.line = line /\ d.ready = ready
    <3> HIDE DEF copied, bytes, to
    <3> QED BY <1>1, <1>5
  <2>2. ASSUME NEW x \in r.x..r.x + r.w - 1, NEW j \in Parts
        PROVE  copied[(x - r.x) * BytesPerPixel + j] = Meant(f, r, x, r.y + k, j)
    <3> DEFINE i == (x - r.x) * BytesPerPixel + j
    <3>1. i \in 0..n - 1 /\ i % BytesPerPixel = j /\ i \div BytesPerPixel = x - r.x
      <4> DEFINE a == r.x
                 e == r.w
      <4>1. a \in Nat /\ e \in Nat /\ x \in a..a + e - 1
        BY <1>2
      <4> HIDE DEF a, e
      <4>2. /\ (x - a) * BytesPerPixel + j \in 0..e * BytesPerPixel - 1
            /\ ((x - a) * BytesPerPixel + j) % BytesPerPixel = j
            /\ ((x - a) * BytesPerPixel + j) \div BytesPerPixel = x - a
        BY <4>1, PixelByPixel
      <4> QED BY <4>2, Zenon DEF a, e
    <3>2. BytesPerPixel = 4 /\ r.sx = 0
      BY <1>5 DEF ShowsColours
    <3> HIDE DEF i, n
    <3>3. copied[i] = ByteOf(BufferPixel(r, x - r.x, r.sy + k), j)
      BY <3>1, <3>2
    <3>4. PixelFor(r, x, r.y + k) = BufferPixel(r, x - r.x, r.sy + k)
      <4>1. r.sx + (x - r.x) = x - r.x
        BY <1>2, <3>2
      <4> QED BY <1>3, <4>1
    <3>5. Meant(f, r, x, r.y + k, j) = ByteOf(PixelFor(r, x, r.y + k), j)
      BY <1>5 DEF Meant
    <3> QED BY <3>3, <3>4, <3>5 DEF i
  <2> HIDE DEF copied
  <2>3. Painted(d.frame, f, r, k + 1)
    BY <1>4, <2>1, <2>2, PaintedMore
  <2> QED BY <2>1, <2>3
<1>6. CASE config.format # "BGR"
  <2>1. d.frame = Copied(g, to, bytes) /\ d.line = Copied(line, 0, bytes) /\ d.ready = ready
    <3> HIDE DEF copied, bytes, to
    <3> QED BY <1>1, <1>6
  <2>2. ASSUME NEW x \in r.x..r.x + r.w - 1, NEW j \in Parts
        PROVE  bytes[(x - r.x) * BytesPerPixel + j] = Meant(f, r, x, r.y + k, j)
    <3> DEFINE i == (x - r.x) * BytesPerPixel + j
               q == BufferPixel(r, r.sx + (x - r.x), r.sy + k)
    <3>1. i \in 0..n - 1 /\ i % BytesPerPixel = j /\ i \div BytesPerPixel = x - r.x
      <4> DEFINE a == r.x
                 e == r.w
      <4>1. a \in Nat /\ e \in Nat /\ x \in a..a + e - 1
        BY <1>2
      <4> HIDE DEF a, e
      <4>2. /\ (x - a) * BytesPerPixel + j \in 0..e * BytesPerPixel - 1
            /\ ((x - a) * BytesPerPixel + j) % BytesPerPixel = j
            /\ ((x - a) * BytesPerPixel + j) \div BytesPerPixel = x - a
        BY <4>1, PixelByPixel
      <4> QED BY <4>2, Zenon DEF a, e
    <3>2. bytes[i] = pixels[i \div BytesPerPixel][i % BytesPerPixel]
      BY <3>1
    <3>3. pixels[x - r.x] = StoredBytes(q)
      BY <1>3
    <3>4. StoredBytes(q)[j] = ByteOf(Stored(q), j)
      BY DEF StoredBytes, Parts
    <3>5. Meant(f, r, x, r.y + k, j) = ByteOf(Stored(q), j)
      BY <1>3, <1>6 DEF Meant
    <3> HIDE DEF i, n, pixels, bytes, q
    <3>6. bytes[i] = ByteOf(Stored(q), j)
      BY <3>1, <3>2, <3>3, <3>4
    <3> QED BY <3>5, <3>6 DEF i
  <2> HIDE DEF bytes
  <2>3. Painted(d.frame, f, r, k + 1)
    BY <1>4, <2>1, <2>2, PaintedMore
  <2>4. DOMAIN d.line = DOMAIN line
    BY <2>1 DEF Copied
  <2> QED BY <2>1, <2>3, <2>4
<1> QED BY <1>5, <1>6

-----------------------------------------------------------------------------
(* Moves                                                                     *)

MovesBack(r) == r.y < r.sy \/ (r.y = r.sy /\ r.x <= r.sx)

LEMMA MoveOrder ==
  ASSUME FrameShape, NEW r, IsRequest(r), r.op = "VideoToVideo", Inside(r), MovesBack(r), r.w > 0
  PROVE  ~(Offset(r.x, r.y) > Offset(r.sx, r.sy))
<1> DEFINE p == BytesPerPixel
           w == config.pixelsPerScanLine
           x == r.x
           y == r.y
           s == r.sx
           t == r.sy
           u == y * w + x
           v == t * w + s
<1>1. p \in Nat \ {0} /\ w \in Nat \ {0} /\ x \in Nat /\ y \in Nat /\ s \in Nat /\ t \in Nat
      /\ r.w \in Nat /\ x + r.w <= w
  BY Shape DEF Inside, IsRequest
<1>2. x < w
  BY <1>1
<1>3. y < t \/ (y = t /\ x <= s)
  BY DEF MovesBack
<1>4. Offset(r.x, r.y) = p * u /\ Offset(r.sx, r.sy) = p * v
  BY DEF Offset
<1> HIDE DEF p, w, x, y, s, t
<1>5. u \in Nat /\ v \in Nat
  <2>1. y * w \in Nat /\ t * w \in Nat
    BY <1>1
  <2> QED BY <1>1, <2>1
<1>6. u <= v
  <2>1. CASE y = t /\ x <= s
    <3>1. y * w = t * w /\ y * w \in Nat
      BY <1>1, <2>1
    <3> QED BY <1>1, <2>1, <3>1
  <2>2. CASE y < t
    <3>1. y + 1 <= t /\ y + 1 \in Nat
      BY <1>1, <2>2
    <3>2. w * (y + 1) <= w * t
      BY <1>1, <3>1, TimesMonotone
    <3>3. w * (y + 1) = y * w + w /\ w * t = t * w /\ y * w \in Nat /\ t * w \in Nat
      BY <1>1
    <3> QED BY <1>1, <1>2, <3>2, <3>3
  <2> QED BY <1>3, <2>1, <2>2
<1> HIDE DEF u, v
<1>7. p * u <= p * v /\ p * u \in Nat /\ p * v \in Nat
  BY <1>1, <1>5, <1>6, TimesMonotone
<1> QED BY <1>4, <1>7

LEMMA OffsetNumber ==
  ASSUME FrameShape, NEW x \in Nat, NEW y \in Nat
  PROVE  Offset(x, y) \in Nat
<1> DEFINE p == BytesPerPixel
           w == config.pixelsPerScanLine
<1>1. p \in Nat \ {0} /\ w \in Nat \ {0}
  BY Shape
<1> HIDE DEF p, w
<1>2. p * (y * w + x) \in Nat
  BY <1>1
<1> QED BY <1>2 DEF p, w, Offset

(* Line k of a move, from the byte that is d bytes behind the first.         *)
LEMMA OffsetDown ==
  ASSUME FrameShape, NEW x \in Nat, NEW y \in Nat, NEW k \in Nat
  PROVE  Offset(x, y) + k * Stride = Offset(x, y + k) /\ Offset(x, y) \in Nat
<1> DEFINE p == BytesPerPixel
           w == config.pixelsPerScanLine
<1>1. p \in Nat \ {0} /\ w \in Nat \ {0}
  BY Shape
<1> HIDE DEF p, w
<1>2. p * (y * w + x) + k * (p * w) = p * ((y + k) * w + x) /\ p * (y * w + x) \in Nat
  BY <1>1
<1> QED BY <1>2 DEF p, w, Offset, Stride

LEMMA OffsetRight ==
  ASSUME FrameShape, NEW x \in Nat, NEW y \in Nat, NEW e \in Nat
  PROVE  Offset(x, y) + e * BytesPerPixel = Offset(x + e, y)
<1> DEFINE p == BytesPerPixel
           w == config.pixelsPerScanLine
<1>1. p \in Nat \ {0} /\ w \in Nat \ {0}
  BY Shape
<1> HIDE DEF p, w
<1>2. p * (y * w + x) + e * p = p * (y * w + (x + e))
  BY <1>1
<1> QED BY <1>2 DEF p, w, Offset

LEMMA MovePaints ==
  ASSUME FrameShape, NEW r, IsRequest(r), r.op = "VideoToVideo", MovesBack(r),
         Inside(r), r.sx + r.w <= config.pixelsPerScanLine, r.sy + r.h <= Height, r.w > 0,
         NEW k \in Nat, k < r.h,
         NEW f, NEW g, NEW line, NEW ready, Painted(g, f, r, k),
         NEW d, d = VideoToVideo([frame |-> g, line |-> line, ready |-> ready], r, k)
  PROVE  Painted(d.frame, f, r, k + 1) /\ d.line = line /\ d.ready = ready
<1> DEFINE m     == [frame |-> g, line |-> line, ready |-> ready]
           n     == r.w * BytesPerPixel
           bytes == [b \in 0..n - 1 |-> g[Offset(r.sx, r.sy) + k * Stride + b]]
<1>1. ~(Offset(r.x, r.y) > Offset(r.sx, r.sy))
  BY MoveOrder
<1>2. m.frame = g /\ d = [m EXCEPT !.frame = Copied(m.frame, Offset(r.x, r.y) + k * Stride, bytes)]
  BY <1>1 DEF VideoToVideo
<1>3. r.x \in Nat /\ r.y \in Nat /\ r.w \in Nat /\ r.h \in Nat /\ r.sx \in Nat /\ r.sy \in Nat
      /\ BytesPerPixel \in Nat \ {0} /\ Height \in Nat /\ config.pixelsPerScanLine \in Nat /\ Stride \in Nat
  BY Shape DEF IsRequest
<1>4. Offset(r.x, r.y) + k * Stride = Offset(r.x, r.y + k)
  BY <1>3, OffsetDown
<1>5. d.frame = Copied(g, Offset(r.x, r.y + k), bytes) /\ d.line = line /\ d.ready = ready
  <2> HIDE DEF bytes
  <2> QED BY <1>2, <1>4
<1>6. DOMAIN bytes = 0..n - 1
  OBVIOUS
<1>7. ASSUME NEW x \in r.x..r.x + r.w - 1, NEW j \in Parts
      PROVE  bytes[(x - r.x) * BytesPerPixel + j] = Meant(f, r, x, r.y + k, j)
  <2> DEFINE p == BytesPerPixel
             a == r.x
             c == r.y
             e == r.w
             s == r.sx
             t == r.sy
             i == (x - a) * p + j
  <2>1. a \in Nat /\ c \in Nat /\ e \in Nat /\ s \in Nat /\ t \in Nat /\ x \in a..a + e - 1
        /\ s + e <= config.pixelsPerScanLine /\ t + r.h <= Height
    BY <1>3
  <2>2. i \in 0..e * p - 1
    <3> HIDE DEF a, e
    <3> QED BY <2>1, PixelByPixel
  <2>3. bytes[i] = g[Offset(s, t) + k * Stride + i]
    <3> HIDE DEF i
    <3> QED BY <2>2
  <2>4. Offset(s, t) + k * Stride = Offset(s, t + k) /\ Offset(s, t + k) \in Nat
    <3> HIDE DEF s, t
    <3>1. t + k \in Nat
      BY <2>1
    <3>2. Offset(s, t) + k * Stride = Offset(s, t + k)
      BY <2>1, OffsetDown
    <3>3. Offset(s, t + k) \in Nat
      BY <2>1, <3>1, OffsetNumber
    <3> QED BY <3>2, <3>3
  <2>5. Offset(s, t + k) + (x - a) * p = Offset(s + (x - a), t + k)
    <3> HIDE DEF s, t, a, e
    <3>1. t + k \in Nat /\ x - a \in Nat
      BY <2>1
    <3> QED BY <2>1, <3>1, OffsetRight
  <2>6. bytes[i] = Byte(g, s + (x - a), t + k, j)
    <3>1. (x - a) * p \in Nat /\ j \in Nat
      <4> HIDE DEF a, e, p
      <4>1. x - a \in Nat /\ p \in Nat
        BY <1>3, <2>1 DEF p
      <4>2. j \in Nat
        BY <4>1 DEF Parts, p
      <4> QED BY <4>1, <4>2
    <3> DEFINE o == Offset(s, t + k)
               z == (x - a) * p
    <3>2. o \in Nat /\ z \in Nat /\ j \in Nat /\ i = z + j /\ Offset(s, t) + k * Stride = o
          /\ o + z = Offset(s + (x - a), t + k)
      BY <2>4, <2>5, <3>1
    <3> HIDE DEF o, z, i
    <3>3. Offset(s, t) + k * Stride + i = Offset(s + (x - a), t + k) + j
      BY <3>2
    <3> QED BY <2>3, <3>3 DEF Byte
  <2>7. s + (x - a) \in Columned /\ t + k \in Lined /\ s + (x - a) = x - a + s /\ t + k = (c + k) - c + t
    <3> HIDE DEF a, c, e, s, t
    <3> QED BY <1>3, <2>1 DEF Columned, Lined
  <2>8. t + k \notin c..c + k - 1
    <3>1. c <= t
      BY <1>3 DEF MovesBack
    <3> HIDE DEF c, t
    <3> QED BY <2>1, <3>1
  <2>9. Byte(g, s + (x - a), t + k, j) = Byte(f, s + (x - a), t + k, j)
    <3>1. Byte(g, s + (x - a), t + k, j) =
            IF s + (x - a) \in a..a + e - 1 /\ t + k \in c..c + k - 1
            THEN Meant(f, r, s + (x - a), t + k, j) ELSE Byte(f, s + (x - a), t + k, j)
      BY <2>7, Zenon DEF Painted
    <3> QED BY <2>8, <3>1, Zenon
  <2>10. Meant(f, r, x, r.y + k, j) = Byte(f, s + (x - a), t + k, j)
    <3>1. Meant(f, r, x, c + k, j) = Byte(f, x - a + s, (c + k) - c + t, j)
      BY DEF Meant
    <3> QED BY <2>7, <3>1
  <2> HIDE DEF bytes
  <2> QED BY <2>6, <2>9, <2>10
<1> HIDE DEF bytes
<1>8. Painted(d.frame, f, r, k + 1)
  BY <1>5, <1>6, <1>7, PaintedMore
<1> QED BY <1>5, <1>8

-----------------------------------------------------------------------------
(* A request, line by line                                                   *)

(* What the library does as it is asked to: moves to lower addresses, writes *)
(* from the first column of the buffer where it takes no other, and fills at *)
(* once of whole words.                                                      *)
Does(c, r) ==
  /\ r.op = "VideoToVideo" => MovesBack(r)
  /\ r.op = "BufferToVideo" /\ c.format = "BGR" => r.sx = 0
  /\ r.op = "VideoFill" /\ r.x = 0 /\ r.w = c.pixelsPerScanLine /\ r.h > 0 =>
       LET n == r.w * c.bytesPerPixel * r.h
       IN c.bytesPerPixel \in {2, 4} => n >= 8 /\ n % 4 = 0

Accepted(r) == IsRequest(r) /\ ~Refused(r) /\ Does(config, r)

LEMMA AcceptedFacts ==
  ASSUME FrameShape, NEW r, Accepted(r)
  PROVE  /\ r.op \in {"VideoFill", "BufferToVideo", "VideoToVideo"}
         /\ r.x \in Nat /\ r.y \in Nat /\ r.w \in Nat \ {0} /\ r.h \in Nat \ {0}
         /\ r.x + r.w <= Width /\ r.y + r.h <= Height /\ Inside(r) /\ r.w <= Width
         /\ r.op = "VideoToVideo" =>
              /\ r.sx \in Nat /\ r.sy \in Nat /\ MovesBack(r)
              /\ r.sx + r.w <= Width /\ r.sy + r.h <= Height
         /\ r.op = "BufferToVideo" /\ config.format = "BGR" => r.sx = 0
         /\ r.op = "VideoFill" /\ OneShot(r) => WholeWords(r.w * BytesPerPixel * r.h)
<1>1. IsRequest(r) /\ ~Refused(r) /\ Does(config, r)
  BY DEF Accepted
<1>2. r.op \in {"VideoFill", "BufferToVideo", "VideoToVideo"} /\ {r.x, r.y, r.w, r.h} \subseteq Nat
      /\ (r.op = "VideoToVideo" => r.sx \in Nat /\ r.sy \in Nat)
  BY <1>1 DEF IsRequest
<1>3. Width \in Nat /\ Height \in Nat /\ config.pixelsPerScanLine \in Nat /\ Width <= config.pixelsPerScanLine
  BY Shape
<1>4. r.y + r.h <= Height /\ r.x + r.w <= Width /\ r.w # 0 /\ r.h # 0
  BY <1>1, <1>2, <1>3 DEF Refused, Invalid
<1>5. r.op = "VideoToVideo" => r.sx + r.w <= Width /\ r.sy + r.h <= Height
  BY <1>1, <1>2, <1>3 DEF Refused, Invalid
<1>6. Inside(r) /\ r.w <= Width
  BY <1>2, <1>3, <1>4 DEF Inside
<1>7. ASSUME r.op = "VideoFill", OneShot(r) PROVE WholeWords(r.w * BytesPerPixel * r.h)
  <2>1. r.x = 0 /\ r.w = config.pixelsPerScanLine /\ r.h > 0
    BY <1>2, <1>4, <1>7 DEF OneShot
  <2> QED BY <1>1, <1>7, <2>1 DEF Does, WholeWords, BytesPerPixel
<1> QED BY <1>1, <1>2, <1>4, <1>5, <1>6, <1>7 DEF Does

(* How many rows k lines of a request are.                                   *)
Rowed(r, k) == IF r.op = "VideoFill" /\ OneShot(r) /\ k > 0 THEN r.h ELSE k

InProgress(g, f, r, k, line, ready) ==
  /\ Framed(f) /\ Painted(g, f, r, Rowed(r, k)) /\ (k = 0 => g = f)
  /\ DOMAIN line = 0..Width * BytesPerPixel - 1
  /\ r.op = "VideoFill" /\ ready => Holds(line, r.w * BytesPerPixel, StoredBytes(r.color))

LEMMA Begins ==
  ASSUME FrameShape, NEW r, Accepted(r), NEW f, Framed(f),
         NEW line, DOMAIN line = 0..Width * BytesPerPixel - 1, NEW ready, ~ready
  PROVE  InProgress(f, f, r, 0, line, ready)
<1>1. Rowed(r, 0) = 0
  BY DEF Rowed
<1>2. Painted(f, f, r, 0)
  <2>1. ASSUME NEW y PROVE y \notin r.y..r.y + 0 - 1
    BY AcceptedFacts
  <2>2. SameAfter(f, f)
    BY DEF SameAfter
  <2> QED BY <2>1, <2>2, Zenon DEF Painted
<1> QED BY <1>1, <1>2 DEF InProgress

LEMMA Proceeds ==
  ASSUME FrameShape, ShowsColours, NEW r, Accepted(r), NEW k \in Nat, k < Lines(r),
         NEW f, NEW g, NEW line, NEW ready, InProgress(g, f, r, k, line, ready),
         NEW d, d = Line([frame |-> g, line |-> line, ready |-> ready], r, k)
  PROVE  InProgress(d.frame, f, r, k + 1, d.line, d.ready)
<1> DEFINE m == [frame |-> g, line |-> line, ready |-> ready]
<1>1. /\ Framed(f) /\ Painted(g, f, r, Rowed(r, k)) /\ (k = 0 => g = f)
      /\ DOMAIN line = 0..Width * BytesPerPixel - 1
      /\ r.op = "VideoFill" /\ ready => Holds(line, r.w * BytesPerPixel, StoredBytes(r.color))
  BY Zenon DEF InProgress
<1>2. /\ r.op \in {"VideoFill", "BufferToVideo", "VideoToVideo"} /\ Inside(r) /\ r.w <= Width
      /\ r.w \in Nat \ {0} /\ IsRequest(r) /\ k + 1 # 0
  BY AcceptedFacts DEF Accepted
<1> HIDE DEF m
<1>3. CASE r.op = "VideoFill" /\ OneShot(r)
  <2>1. k = 0 /\ Rowed(r, k + 1) = r.h /\ g = f
    BY <1>1, <1>3 DEF Lines, Rowed
  <2>2. d = FillAtOnce(m, r)
    BY <1>3 DEF Line, VideoFill, m
  <2>3. WholeWords(r.w * BytesPerPixel * r.h)
    BY <1>3, AcceptedFacts
  <2>4. Painted(d.frame, f, r, r.h) /\ d.line = line /\ d.ready = ready
    BY <1>1, <1>2, <1>3, <2>1, <2>2, <2>3, FillAtOncePaints DEF m
  <2> QED BY <1>1, <1>2, <2>1, <2>4, Zenon DEF InProgress
<1>4. CASE r.op = "VideoFill" /\ ~OneShot(r)
  <2>1. k < r.h /\ Rowed(r, k) = k /\ Rowed(r, k + 1) = k + 1
    BY <1>4 DEF Lines, Rowed
  <2>2. d = FillLine(m, r, k)
    BY <1>4 DEF Line, VideoFill, m
  <2>3. LineReady(line, ready, r.w * BytesPerPixel, StoredBytes(r.color))
    BY <1>1, <1>4, Zenon DEF LineReady
  <2>4. Painted(g, f, r, k)
    BY <1>1, <2>1
  <2>5. /\ Painted(d.frame, f, r, k + 1)
        /\ LineReady(d.line, d.ready, r.w * BytesPerPixel, StoredBytes(r.color))
    BY <1>2, <1>4, <2>1, <2>2, <2>3, <2>4, FillPaints DEF m
  <2> QED BY <1>1, <1>2, <2>1, <2>5, Zenon DEF InProgress, LineReady
<1>5. CASE r.op = "BufferToVideo"
  <2>1. k < r.h /\ Rowed(r, k) = k /\ Rowed(r, k + 1) = k + 1
    BY <1>5 DEF Lines, Rowed
  <2>2. d = BufferToVideo(m, r, k)
    BY <1>5 DEF Line, m
  <2>3. config.format = "BGR" => r.sx = 0
    BY <1>5, AcceptedFacts
  <2>4. Painted(g, f, r, k)
    BY <1>1, <2>1
  <2>5. Painted(d.frame, f, r, k + 1) /\ DOMAIN d.line = DOMAIN line
    BY <1>1, <1>2, <1>5, <2>1, <2>2, <2>3, <2>4, WritePaints DEF m
  <2>6. r.op # "VideoFill"
    BY <1>5
  <2> QED BY <1>1, <1>2, <2>1, <2>5, <2>6, Zenon DEF InProgress
<1>6. CASE r.op = "VideoToVideo"
  <2>1. k < r.h /\ Rowed(r, k) = k /\ Rowed(r, k + 1) = k + 1
    BY <1>6 DEF Lines, Rowed
  <2>2. d = VideoToVideo(m, r, k)
    BY <1>6 DEF Line, m
  <2>3. /\ MovesBack(r) /\ r.sy + r.h <= Height /\ r.w > 0
        /\ r.sx + r.w <= config.pixelsPerScanLine
    <3>1. /\ MovesBack(r) /\ r.sy + r.h <= Height /\ r.w > 0 /\ r.sx \in Nat /\ r.w \in Nat
          /\ r.sx + r.w <= Width
      BY <1>6, AcceptedFacts
    <3> QED BY <3>1, Shape
  <2>4. Painted(g, f, r, k)
    BY <1>1, <2>1
  <2>5. Painted(d.frame, f, r, k + 1) /\ d.line = line
    BY <1>2, <1>6, <2>1, <2>2, <2>3, <2>4, MovePaints DEF m
  <2>6. r.op # "VideoFill"
    BY <1>6
  <2> QED BY <1>1, <1>2, <2>1, <2>5, <2>6, Zenon DEF InProgress
<1> QED BY <1>2, <1>3, <1>4, <1>5, <1>6

LEMMA Ends ==
  ASSUME FrameShape, NEW r, Accepted(r), NEW f, NEW g, NEW line, NEW ready,
         InProgress(g, f, r, Lines(r), line, ready)
  PROVE  Painted(g, f, r, r.h)
<1>1. Rowed(r, Lines(r)) = r.h
  BY AcceptedFacts DEF Rowed, Lines
<1> QED BY <1>1 DEF InProgress

-----------------------------------------------------------------------------
(* What the screen shows of it                                               *)

Colour(f, x, y) == Loaded(PixelOf(f, x, y))

(* A pixel that a write takes is in the client's buffer.                     *)
LEMMA BufferHasPixel ==
  ASSUME NEW r, IsRequest(r), r.op = "BufferToVideo",
         NEW x \in r.x..r.x + r.w - 1, NEW y \in r.y..r.y + r.h - 1
  PROVE  PixelFor(r, x, y) \in SUBSET Bits
<1> DEFINE D == IF r.delta = 0 THEN r.w ELSE r.delta
           a == r.x
           c == r.y
           w == r.w
           h == r.h
           s == r.sx
           t == r.sy
           n == Len(r.buffer)
           e == t + y - c
           i == 1 + e * D + (s + x - a)
<1>1. a \in Nat /\ c \in Nat /\ w \in Nat /\ h \in Nat /\ s \in Nat /\ t \in Nat /\ D \in Nat
      /\ r.buffer \in Seq(SUBSET Bits) /\ (t + h - 1) * D + s + w <= n
  BY DEF IsRequest
<1>2. n \in Nat /\ \A b \in 1..n : r.buffer[b] \in SUBSET Bits
  <2> DEFINE S   == SUBSET Bits
             all == r.buffer
  <2>1. all \in Seq(S)
    BY <1>1
  <2> HIDE DEF S, all
  <2>2. Len(all) \in Nat /\ \A b \in 1..Len(all) : all[b] \in S
    BY <2>1
  <2> QED BY <2>2 DEF S, all
<1>3. PixelFor(r, x, y) = r.buffer[i]
  BY DEF PixelFor, BufferPixel
<1>4. x \in a..a + w - 1 /\ y \in c..c + h - 1
  OBVIOUS
<1> HIDE DEF D, a, c, w, h, s, t, n
<1>5. e \in Nat /\ e <= t + h - 1 /\ t + h - 1 \in Nat /\ s + x - a \in Nat /\ s + x - a < s + w
  BY <1>1, <1>4
<1> HIDE DEF e
<1>6. e * D <= (t + h - 1) * D /\ e * D \in Nat
  <2> DEFINE b == t + h - 1
  <2>1. e <= b /\ b \in Nat
    BY <1>5
  <2> HIDE DEF b
  <2>2. D * e <= D * b /\ D * e = e * D /\ D * b = b * D /\ e * D \in Nat
    BY <1>1, <1>5, <2>1, TimesMonotone
  <2> QED BY <2>2 DEF b
<1>7. i \in 1..n
  <2> DEFINE z == (t + h - 1) * D
             v == e * D
             o == s + x - a
  <2>1. v <= z /\ v \in Nat /\ o \in Nat /\ o < s + w /\ z + s + w <= n /\ i = 1 + v + o
    BY <1>1, <1>5, <1>6
  <2>2. z \in Int
    BY <1>1, <1>5
  <2> HIDE DEF z, v, o, i
  <2> QED BY <1>1, <1>2, <2>1, <2>2
<1> QED BY <1>2, <1>3, <1>7

LEMMA PaintedShows ==
  ASSUME FrameShape, ShowsColours, NEW r, Accepted(r), NEW f, NEW g, Painted(g, f, r, r.h),
         NEW x \in 0..Width - 1, NEW y \in 0..Height - 1
  PROVE  Colour(g, x, y) =
           IF x \in r.x..r.x + r.w - 1 /\ y \in r.y..r.y + r.h - 1
           THEN IF r.op = "VideoFill" THEN r.color \cap Keeps
                ELSE IF r.op = "BufferToVideo" THEN PixelFor(r, x, y) \cap Keeps
                ELSE Colour(f, x - r.x + r.sx, y - r.y + r.sy)
           ELSE Colour(f, x, y)
<1>1. x \in Columned /\ y \in Lined
  BY Shape DEF Columned, Lined
<1>2. IsRequest(r) /\ r.op \in {"VideoFill", "BufferToVideo", "VideoToVideo"}
  BY DEF Accepted, IsRequest
<1> DEFINE in == x \in r.x..r.x + r.w - 1 /\ y \in r.y..r.y + r.h - 1
<1>3. \A j \in Parts : Byte(g, x, y, j) = IF in THEN Meant(f, r, x, y, j) ELSE Byte(f, x, y, j)
  BY <1>1, Zenon DEF Painted
<1>4. ASSUME ~in PROVE Colour(g, x, y) = Colour(f, x, y)
  <2>1. \A j \in Parts : Byte(g, x, y, j) = Byte(f, x, y, j)
    BY <1>3, <1>4, Zenon
  <2> QED BY <2>1, PixelOfSame DEF Colour
<1>5. ASSUME in, r.op = "VideoFill" PROVE Colour(g, x, y) = r.color \cap Keeps
  <2>1. r.color \in SUBSET Bits
    BY <1>2, <1>5 DEF IsRequest
  <2>2. \A j \in Parts : Byte(g, x, y, j) = ByteOf(Stored(r.color), j)
    BY <1>3, <1>5 DEF Meant
  <2>3. Stored(r.color) \in SUBSET (0..8 * BytesPerPixel - 1)
    BY <2>1, StoredFits
  <2>4. PixelOf(g, x, y) = Stored(r.color)
    BY <2>2, <2>3, PixelOfBytes
  <2> QED BY <2>1, <2>4, ColourShown DEF Colour
<1>6. ASSUME in, r.op = "BufferToVideo" PROVE Colour(g, x, y) = PixelFor(r, x, y) \cap Keeps
  <2> DEFINE q == PixelFor(r, x, y)
  <2>1. q \in SUBSET Bits
    BY <1>2, <1>6, BufferHasPixel
  <2>2. CASE config.format = "BGR"
    <3>1. \A j \in Parts : Byte(g, x, y, j) = ByteOf(q, j)
      BY <1>3, <1>6, <2>2 DEF Meant
    <3>2. q \in SUBSET (0..8 * BytesPerPixel - 1)
      <4>1. BytesPerPixel = 4
        BY <2>2 DEF ShowsColours
      <4> HIDE DEF q
      <4> QED BY <2>1, <4>1 DEF Bits
    <3> HIDE DEF q
    <3>3. PixelOf(g, x, y) = q
      BY <3>1, <3>2, PixelOfBytes
    <3>4. Loaded(q) = q \cap Keeps
      BY <2>1, <2>2, ColourShown
    <3> QED BY <3>3, <3>4 DEF Colour, q
  <2>3. CASE config.format # "BGR"
    <3>1. \A j \in Parts : Byte(g, x, y, j) = ByteOf(Stored(q), j)
      BY <1>3, <1>6, <2>3 DEF Meant
    <3> HIDE DEF q
    <3>2. Stored(q) \in SUBSET (0..8 * BytesPerPixel - 1)
      BY <2>1, StoredFits
    <3>3. PixelOf(g, x, y) = Stored(q)
      BY <3>1, <3>2, PixelOfBytes
    <3>4. Loaded(Stored(q)) = q \cap Keeps
      BY <2>1, ColourShown
    <3> QED BY <3>3, <3>4 DEF Colour, q
  <2> QED BY <2>2, <2>3
<1>7. ASSUME in, r.op = "VideoToVideo" PROVE Colour(g, x, y) = Colour(f, x - r.x + r.sx, y - r.y + r.sy)
  <2>1. \A j \in Parts : Byte(g, x, y, j) = Byte(f, x - r.x + r.sx, y - r.y + r.sy, j)
    BY <1>3, <1>7 DEF Meant
  <2> QED BY <2>1, PixelOfSame DEF Colour
<1> HIDE DEF in
<1>8. \/ r.op = "VideoFill" \/ (r.op # "VideoFill" /\ r.op = "BufferToVideo")
      \/ (r.op # "VideoFill" /\ r.op # "BufferToVideo" /\ r.op = "VideoToVideo")
  BY <1>2
<1> QED BY <1>4, <1>5, <1>6, <1>7, <1>8, Zenon DEF in

(* The screen after a request, as PixelScreen says.                          *)
Frames == (0..Width - 1) \X (0..Height - 1)
Area(x, y, w, h) == (x..x + w - 1) \X (y..y + h - 1)

Redrawn(shown, r) ==
  [at \in DOMAIN shown |->
     IF at \in Area(r.x, r.y, r.w, r.h)
     THEN IF r.op = "VideoFill" THEN r.color \cap Keeps
          ELSE IF r.op = "BufferToVideo"
          THEN r.buffer[1 + (r.sy + at[2] - r.y) * (IF r.delta = 0 THEN r.w ELSE r.delta)
                          + r.sx + at[1] - r.x] \cap Keeps
          ELSE shown[<<at[1] - r.x + r.sx, at[2] - r.y + r.sy>>]
     ELSE shown[at]]

LEMMA DisplayAnswers ==
  ASSUME NEW r, r.op \in {"VideoFill", "BufferToVideo", "VideoToVideo"}
  PROVE  Display!Answer(r) = Redrawn(ShownOf(Whole), r)
<1>1. CASE r.op = "VideoFill"
  BY <1>1, Zenon DEF Display!Answer, Display!Drawn, Display!Rect, Area, Redrawn
<1>2. CASE r.op = "BufferToVideo"
  BY <1>2, Zenon DEF Display!Answer, Display!Drawn, Display!Rect, Display!BufferPixel, Area, Redrawn
<1>3. CASE r.op = "VideoToVideo"
  BY <1>3, Zenon DEF Display!Answer, Display!Drawn, Display!Rect, Area, Redrawn
<1> QED BY <1>1, <1>2, <1>3

LEMMA ShownAfter ==
  ASSUME FrameShape, ShowsColours, NEW r, Accepted(r), NEW f, NEW g, Painted(g, f, r, r.h)
  PROVE  ShownOf(g) = Redrawn(ShownOf(f), r)
<1>1. ASSUME NEW h
      PROVE  /\ ShownOf(h) = [at \in Frames |-> Colour(h, at[1], at[2])]
             /\ DOMAIN ShownOf(h) = Frames
             /\ \A x \in 0..Width - 1, y \in 0..Height - 1 : ShownOf(h)[<<x, y>>] = Colour(h, x, y)
  <2>1. ShownOf(h) = [at \in Frames |-> Colour(h, at[1], at[2])]
    BY Zenon DEF ShownOf, Frames, Colour
  <2>2. ASSUME NEW x \in 0..Width - 1, NEW y \in 0..Height - 1
        PROVE  ShownOf(h)[<<x, y>>] = Colour(h, x, y)
    <3>1. <<x, y>> \in Frames /\ <<x, y>>[1] = x /\ <<x, y>>[2] = y
      BY DEF Frames
    <3> QED BY <2>1, <3>1
  <2> QED BY <2>1, <2>2
<1>2. /\ r.op \in {"VideoFill", "BufferToVideo", "VideoToVideo"}
      /\ r.x \in Nat /\ r.y \in Nat /\ r.w \in Nat \ {0} /\ r.h \in Nat \ {0}
      /\ r.op = "VideoToVideo" => /\ r.sx \in Nat /\ r.sy \in Nat
                                  /\ r.sx + r.w <= Width /\ r.sy + r.h <= Height
  BY AcceptedFacts
<1>3. ASSUME NEW at \in Frames PROVE ShownOf(g)[at] = Redrawn(ShownOf(f), r)[at]
  <2> DEFINE x == at[1]
             y == at[2]
             in == x \in r.x..r.x + r.w - 1 /\ y \in r.y..r.y + r.h - 1
  <2>1. x \in 0..Width - 1 /\ y \in 0..Height - 1 /\ at = <<x, y>>
    BY DEF Frames
  <2>2. at \in Area(r.x, r.y, r.w, r.h) <=> in
    BY <2>1 DEF Area
  <2>3. /\ ShownOf(g)[at] = Colour(g, x, y)
        /\ ShownOf(f)[at] = Colour(f, x, y)
        /\ DOMAIN ShownOf(f) = Frames
    BY <1>1, Zenon
  <2>4. Redrawn(ShownOf(f), r)[at] =
          IF in
          THEN IF r.op = "VideoFill" THEN r.color \cap Keeps
               ELSE IF r.op = "BufferToVideo"
               THEN r.buffer[1 + (r.sy + y - r.y) * (IF r.delta = 0 THEN r.w ELSE r.delta)
                               + r.sx + x - r.x] \cap Keeps
               ELSE ShownOf(f)[<<x - r.x + r.sx, y - r.y + r.sy>>]
          ELSE ShownOf(f)[at]
    BY <2>2, <2>3, Zenon DEF Redrawn
  <2>5. Colour(g, x, y) =
          IF in
          THEN IF r.op = "VideoFill" THEN r.color \cap Keeps
               ELSE IF r.op = "BufferToVideo" THEN PixelFor(r, x, y) \cap Keeps
               ELSE Colour(f, x - r.x + r.sx, y - r.y + r.sy)
          ELSE Colour(f, x, y)
    <3> HIDE DEF x, y
    <3> QED BY <2>1, PaintedShows
  <2>6. ASSUME r.op = "BufferToVideo"
        PROVE  PixelFor(r, x, y) = r.buffer[1 + (r.sy + y - r.y) * (IF r.delta = 0 THEN r.w ELSE r.delta)
                                              + r.sx + x - r.x]
    <3> DEFINE D == IF r.delta = 0 THEN r.w ELSE r.delta
               a == r.x
               c == r.y
               s == r.sx
               t == r.sy
    <3>1. a \in Nat /\ c \in Nat /\ s \in Nat /\ t \in Nat /\ D \in Nat
      BY <1>2, <2>6 DEF Accepted, IsRequest
    <3> HIDE DEF D, a, c, s, t, x, y
    <3>2. (t + y - c) * D \in Int
      BY <2>1, <3>1
    <3> DEFINE z == (t + y - c) * D
    <3> HIDE DEF z
    <3>3. 1 + z + (s + x - a) = 1 + z + s + x - a
      BY <2>1, <3>1, <3>2 DEF z
    <3> QED BY <3>3 DEF D, a, c, s, t, z, PixelFor, BufferPixel
  <2>7. ASSUME in, r.op = "VideoToVideo"
        PROVE  ShownOf(f)[<<x - r.x + r.sx, y - r.y + r.sy>>] = Colour(f, x - r.x + r.sx, y - r.y + r.sy)
    <3>1. x - r.x + r.sx \in 0..Width - 1 /\ y - r.y + r.sy \in 0..Height - 1
      <4> HIDE DEF x, y
      <4>1. Width \in Nat /\ Height \in Nat
        BY Shape
      <4> DEFINE a == r.x
                 c == r.y
                 w == r.w
                 h == r.h
                 s == r.sx
                 t == r.sy
      <4>2. a \in Nat /\ c \in Nat /\ s \in Nat /\ t \in Nat /\ w \in Nat /\ h \in Nat
            /\ s + w <= Width /\ t + h <= Height /\ x \in a..a + w - 1 /\ y \in c..c + h - 1
        BY <1>2, <2>7
      <4> HIDE DEF a, c, w, h, s, t
      <4>3. x - a + s \in 0..Width - 1 /\ y - c + t \in 0..Height - 1
        BY <4>1, <4>2
      <4> QED BY <4>3 DEF a, c, s, t
    <3> QED BY <1>1, <3>1, Zenon
  <2> HIDE DEF in, x, y
  <2>8. \/ r.op = "VideoFill" \/ (r.op # "VideoFill" /\ r.op = "BufferToVideo")
        \/ (r.op # "VideoFill" /\ r.op # "BufferToVideo" /\ r.op = "VideoToVideo")
    BY <1>2
  <2> QED BY <2>3, <2>4, <2>5, <2>6, <2>7, <2>8, Zenon
<1>4. DOMAIN Redrawn(ShownOf(f), r) = Frames /\ DOMAIN ShownOf(g) = Frames
  <2>1. DOMAIN ShownOf(f) = Frames
    BY <1>1, Zenon
  <2> QED BY <1>1, <2>1, Zenon DEF Redrawn
<1>5. /\ ShownOf(g) = [at \in Frames |-> ShownOf(g)[at]]
      /\ Redrawn(ShownOf(f), r) = [at \in Frames |-> Redrawn(ShownOf(f), r)[at]]
  <2>1. ShownOf(g) = [at \in Frames |-> Colour(g, at[1], at[2])]
    BY <1>1, Zenon
  <2>2. DOMAIN ShownOf(f) = Frames
    BY <1>1, Zenon
  <2>3. ShownOf(g) = [at \in Frames |-> ShownOf(g)[at]]
    BY <2>1
  <2>4. Redrawn(ShownOf(f), r) = [at \in Frames |-> Redrawn(ShownOf(f), r)[at]]
    <3>1. Redrawn(ShownOf(f), r) = [at \in DOMAIN Redrawn(ShownOf(f), r) |-> Redrawn(ShownOf(f), r)[at]]
      BY Zenon DEF Redrawn
    <3> QED BY <1>4, <3>1, Zenon
  <2> QED BY <2>3, <2>4
<1> QED BY <1>3, <1>5

(* A request is refused if its rectangle or its source is not on the screen. *)
LEMMA OnScreenIs ==
  ASSUME FrameShape, NEW x \in Nat, NEW y \in Nat, NEW w \in Nat, NEW h \in Nat
  PROVE  Area(x, y, w, h) # {} /\ Area(x, y, w, h) \subseteq Frames <=> ~Invalid(x, y, w, h)
<1>1. Width \in Nat /\ Height \in Nat
  BY Shape
<1>2. ASSUME Invalid(x, y, w, h), Area(x, y, w, h) # {}, Area(x, y, w, h) \subseteq Frames PROVE FALSE
  <2>1. w > 0 /\ h > 0
    BY <1>2 DEF Area
  <2>2. <<x + w - 1, y + h - 1>> \in Area(x, y, w, h)
    BY <2>1 DEF Area
  <2>3. x + w - 1 \in 0..Width - 1 /\ y + h - 1 \in 0..Height - 1
    BY <1>2, <2>2 DEF Frames
  <2> QED BY <1>1, <1>2, <2>1, <2>3 DEF Invalid
<1>3. ASSUME ~Invalid(x, y, w, h) PROVE Area(x, y, w, h) # {} /\ Area(x, y, w, h) \subseteq Frames
  <2>1. w > 0 /\ h > 0 /\ x + w <= Width /\ y + h <= Height
    BY <1>1, <1>3 DEF Invalid
  <2>2. <<x, y>> \in Area(x, y, w, h)
    BY <2>1 DEF Area
  <2>3. ASSUME NEW at \in Area(x, y, w, h) PROVE at \in Frames
    <3>1. at = <<at[1], at[2]>> /\ at[1] \in x..x + w - 1 /\ at[2] \in y..y + h - 1
      BY DEF Area
    <3>2. at[1] \in 0..Width - 1 /\ at[2] \in 0..Height - 1
      BY <1>1, <2>1, <3>1
    <3> QED BY <3>1, <3>2 DEF Frames
  <2> QED BY <2>2, <2>3
<1> QED BY <1>2, <1>3
-----------------------------------------------------------------------------
(* What a supported frame buffer is                                          *)

LEMMA BgrShows ==
  ASSUME NEW i \in Infos, i.format = "BGR"
  PROVE  LET c == Configured(i)
         IN /\ c.masks = mBgrPixelMasks /\ c.bytesPerPixel = 4 /\ Shows(c)
            /\ \A k \in Channels : c.shift[k] = 0
<1> DEFINE c == Configured(i)
           u == UNION {i.masks[k] : k \in 1..4}
<1>1. i.masks = mBgrPixelMasks
  BY InfoAssumption
<1>2. ASSUME NEW a \in Int, NEW b \in Int, a <= b PROVE HighBitSet(a..b) = b
  <2>1. b \in a..b /\ \A m \in a..b : b >= m
    BY <1>2
  <2>2. Max(a..b) \in a..b /\ \A m \in a..b : Max(a..b) >= m
    <3>1. \E g \in a..b : \A m \in a..b : g >= m
      BY <2>1
    <3> QED BY <3>1 DEF Max
  <2>3. Max(a..b) = b
    <3> HIDE DEF Max
    <3> QED BY <2>1, <2>2
  <2> QED BY <2>1, <2>3 DEF HighBitSet
<1>3. /\ i.masks[1] = 16..23 /\ i.masks[2] = 8..15 /\ i.masks[3] = 0..7 /\ i.masks[4] = 24..31
  BY <1>1 DEF mBgrPixelMasks
<1>4. u = 0..31
  <2>1. u = i.masks[1] \cup i.masks[2] \cup i.masks[3] \cup i.masks[4]
    <3>1. 1..4 = {1, 2, 3, 4}
      OBVIOUS
    <3> QED BY <3>1
  <2> QED BY <1>3, <2>1
<1> HIDE DEF u
<1>5. c.masks = i.masks /\ c.bytesPerPixel = 4
  <2>1. HighBitSet(u) = 31
    <3>1. HighBitSet(0..31) = 31
      <4>1. 0 \in Int /\ 31 \in Int /\ 0 <= 31
        OBVIOUS
      <4> QED BY <1>2, <4>1, Zenon
    <3> QED BY <1>4, <3>1
  <2>2. c.masks = i.masks /\ c.bytesPerPixel = (HighBitSet(u) + 7) \div 8
    BY DEF Configured, u
  <2> QED BY <2>1, <2>2
<1>6. c.shift = [k \in Channels |-> PixelShift(i.masks, k)]
  BY DEF Configured
<1> HIDE DEF c
<1>7. \A k \in Channels : c.shift[k] = 0
  <2>1. HighBitSet(i.masks[1]) = 23 /\ HighBitSet(i.masks[2]) = 15 /\ HighBitSet(i.masks[3]) = 7
    <3>1. HighBitSet(16..23) = 23 /\ HighBitSet(8..15) = 15 /\ HighBitSet(0..7) = 7
      <4>1. /\ 16 \in Int /\ 23 \in Int /\ 16 <= 23 /\ 8 \in Int /\ 15 \in Int /\ 8 <= 15
            /\ 0 \in Int /\ 7 \in Int /\ 0 <= 7
        OBVIOUS
      <4> QED BY <1>2, <4>1, Zenon
    <3> QED BY <1>3, <3>1
  <2>2. PixelShift(i.masks, 1) = 0 /\ PixelShift(i.masks, 2) = 0 /\ PixelShift(i.masks, 3) = 0
    BY <2>1 DEF PixelShift
  <2>3. \A k \in Channels : k \in {1, 2, 3}
    BY DEF Channels
  <2> QED BY <1>6, <2>2, <2>3
<1>8. Shows(c)
  <2>1. \A k \in Channels : k \in {1, 2, 3}
    BY DEF Channels
  <2>2. c.masks[1] = 16..23 /\ c.masks[2] = 8..15 /\ c.masks[3] = 0..7
    BY <1>3, <1>5
  <2>3. \A k \in Channels : c.masks[k] \subseteq 0..8 * c.bytesPerPixel - 1
    BY <1>5, <2>1, <2>2
  <2>4. Run(16..23) /\ Run(8..15) /\ Run(0..7)
    <3>1. 16 \in Bits /\ 23 \in Bits /\ 8 \in Bits /\ 15 \in Bits /\ 0 \in Bits /\ 7 \in Bits
      BY DEF Bits
    <3> QED BY <3>1, Zenon DEF Run
  <2>5. \A k \in Channels : Run(c.masks[k])
    BY <2>1, <2>2, <2>4
  <2>6. \A k, l \in Channels : k # l => c.masks[k] \cap c.masks[l] = {}
    BY <2>1, <2>2
  <2>7. Cardinality(16..23) = 8 /\ Cardinality(8..15) = 8 /\ Cardinality(0..7) = 8
    <3>1. ASSUME NEW a \in Nat, NEW b \in Nat, b = a + 7 PROVE Cardinality(a..b) = 8
      <4>1. Cardinality(a..b) = b - a + 1
        BY <3>1, FS_Interval
      <4> QED BY <3>1, <4>1
    <3>2. /\ 16 \in Nat /\ 23 \in Nat /\ 23 = 16 + 7 /\ 8 \in Nat /\ 15 \in Nat /\ 15 = 8 + 7
          /\ 0 \in Nat /\ 7 \in Nat /\ 7 = 0 + 7
      OBVIOUS
    <3> QED BY <3>1, <3>2, Zenon
  <2>8. \A k \in Channels : Cardinality(c.masks[k]) <= 8
    <3>1. 8 <= 8
      OBVIOUS
    <3> QED BY <2>1, <2>2, <2>7, <3>1, Zenon
  <2> QED BY <1>5, <2>3, <2>5, <2>6, <2>8 DEF Shows
<1> QED BY <1>1, <1>5, <1>7, <1>8 DEF c

LEMMA SupportedFrame ==
  ASSUME NEW i \in Infos, Supported(i), config = Configured(i), Shows(config)
  PROVE  FrameShape /\ ShowsColours
<1> DEFINE u == UNION {i.masks[k] : k \in 1..4}
<1>1. /\ i.masks \in Masks /\ {i.width, i.height, i.pixelsPerScanLine} \subseteq Nat \ {0}
      /\ i.pixelsPerScanLine >= i.width
  BY InfoAssumption DEF Masks, Supported
<1>2. u \in SUBSET Bits
  BY <1>1 DEF Masks
<1> HIDE DEF u
<1>3. /\ config.masks = i.masks /\ config.format = i.format
      /\ config.width = i.width /\ config.height = i.height
      /\ config.pixelsPerScanLine = i.pixelsPerScanLine
      /\ config.bytesPerPixel = (HighBitSet(u) + 7) \div 8
      /\ config.shift = [k \in Channels |-> PixelShift(i.masks, k)]
  BY DEF Configured, u
<1>4. BytesPerPixel \in 1..4
  <2>1. HighBitSet(u) \in Int /\ HighBitSet(u) >= -1 /\ HighBitSet(u) <= 31
    BY <1>2, HighBitIsNumber
  <2>2. config.bytesPerPixel > 0
    BY DEF Shows
  <2> QED BY <1>3, <2>1, <2>2 DEF BytesPerPixel
<1>5. FrameShape
  BY <1>1, <1>3, <1>4 DEF FrameShape, Width, Height
<1>6. \A k \in Channels : config.shift[k] = PixelShift(config.masks, k)
  BY <1>3
<1>7. config.format = "BGR" =>
        BytesPerPixel = 4 /\ config.masks = mBgrPixelMasks /\ \A k \in Channels : config.shift[k] = 0
  BY <1>3, BgrShows DEF BytesPerPixel
<1> QED BY <1>1, <1>3, <1>5, <1>6, <1>7 DEF ShowsColours

-----------------------------------------------------------------------------
(* The invariant of the drawing                                              *)

(* At most one call has raised the level, and nothing runs above it.         *)
OneDraws(calls) ==
  \A k, l \in Tpl : calls[l].stage \in {"draw", "restore"} /\ l < k => calls[k].stage = "none"

(* What a call has drawn on what it found.                                   *)
Draws(c, frame, line) ==
  /\ c.stage = "raise" => ~c.ready
  /\ c.stage = "draw" => InProgress(frame, c.before, c.request, c.line, line, c.ready)
  /\ c.stage = "restore" =>
       IF Refused(c.request) THEN frame = c.before
       ELSE Painted(frame, c.before, c.request, c.request.h)

AllDo == \A r \in DriverAsked : Does(config, r)

LineShape(line) == DOMAIN line = 0..Width * BytesPerPixel - 1

DrawInv ==
  /\ user \in {"client", "driver"}
  /\ user = "client" => installed = "no"
  /\ user = "driver" =>
       /\ FrameShape /\ ShowsColours /\ AllDo
       /\ LineShape(lineBuffer) /\ OneDraws(call)
       /\ \A l \in Tpl : Draws(call[l], frameBuffer, lineBuffer)

(* What is asked of the driver is drawn as asked on its frame buffer.        *)
Driven ==
  \A i \in Infos : Supported(i) /\ IsSimple(Configured(i)) =>
    \A r \in DriverAsked : Does(Configured(i), r)

LEMMA DrawInit ==
  ASSUME Driven, DisplayInit
  PROVE  DrawInv
<1>1. user \in {"client", "driver"} /\ installed = "no" /\ call = [l \in Tpl |-> NoCall]
      /\ lineBuffer = NoLine /\ (user = "driver" => IsSimple(config))
  BY DEF DisplayInit
<1>2. PICK i \in Infos : Supported(i) /\ config = Configured(i)
  BY DEF DisplayInit, BltInit
<1>3. ASSUME user = "driver" PROVE FrameShape /\ ShowsColours /\ AllDo
  <2>1. config.format = i.format
    BY <1>2 DEF Configured
  <2>2. i.format = "BGR"
    BY <1>1, <1>3, <2>1 DEF IsSimple
  <2>3. FrameShape /\ ShowsColours
    BY <1>2, <2>2, BgrShows, SupportedFrame
  <2>4. AllDo
    BY <1>1, <1>2, <1>3 DEF Driven, AllDo
  <2> QED BY <2>3, <2>4
<1>4. \A l \in Tpl : call[l].stage = "none"
  BY <1>1, NewCall
<1>5. OneDraws(call) /\ \A l \in Tpl : Draws(call[l], frameBuffer, lineBuffer)
  BY <1>4 DEF OneDraws, Draws
<1>6. LineShape(lineBuffer)
  BY <1>1 DEF LineShape, NoLine
<1> QED BY <1>1, <1>3, <1>5, <1>6 DEF DrawInv

(* What depends on the configuration only.                                   *)
LEMMA SameShape ==
  ASSUME UNCHANGED config
  PROVE  /\ FrameShape => FrameShape'
         /\ ShowsColours => ShowsColours'
         /\ AllDo => AllDo'
         /\ BytesPerPixel' = BytesPerPixel /\ Width' = Width /\ Height' = Height
         /\ Stride' = Stride /\ FrameBytes' = FrameBytes
         /\ Columned' = Columned /\ Lined' = Lined /\ Parts' = Parts
         /\ Keeps' = Keeps
<1>1. /\ BytesPerPixel' = BytesPerPixel /\ Width' = Width /\ Height' = Height
      /\ Stride' = Stride /\ FrameBytes' = FrameBytes
  BY DEF BytesPerPixel, Width, Height, Stride, FrameBytes
<1>2. FrameShape => FrameShape'
  BY <1>1, Zenon DEF FrameShape
<1>3. ShowsColours => ShowsColours'
  BY <1>1, Zenon DEF ShowsColours
<1>4. AllDo => AllDo'
  BY Zenon DEF AllDo
<1>5. Columned' = Columned /\ Lined' = Lined /\ Parts' = Parts
  BY <1>1 DEF Columned, Lined, Parts
<1>6. Keeps' = Keeps
  BY Zenon DEF Keeps
<1> QED BY <1>1, <1>2, <1>3, <1>4, <1>5, <1>6

LEMMA SamePainted ==
  ASSUME UNCHANGED config, NEW f, NEW g, NEW r, NEW k
  PROVE  (Framed(f)' <=> Framed(f)) /\ (Painted(g, f, r, k)' <=> Painted(g, f, r, k))
<1>1. Framed(f)' <=> Framed(f)
  BY SameShape, Zenon DEF Framed
<1>2. Framed(g)' <=> Framed(g)
  BY SameShape, Zenon DEF Framed
<1>3. SameAfter(g, f)' <=> SameAfter(g, f)
  BY SameShape, Zenon DEF SameAfter
<1>4. ASSUME NEW x, NEW y PROVE Offset(x, y)' = Offset(x, y)
  BY SameShape, Zenon DEF Offset
<1>5. ASSUME NEW h, NEW x, NEW y, NEW j PROVE Byte(h, x, y, j)' = Byte(h, x, y, j)
  BY <1>4, Zenon DEF Byte
<1>6. ASSUME NEW c PROVE Stored(c)' = Stored(c)
  BY Zenon DEF Stored
<1>7. ASSUME NEW x, NEW y, NEW j PROVE Meant(f, r, x, y, j)' = Meant(f, r, x, y, j)
  <2>1. Stored(r.color)' = Stored(r.color)
    BY <1>6
  <2>2. PixelFor(r, x, y)' = PixelFor(r, x, y) /\ Stored(PixelFor(r, x, y))' = Stored(PixelFor(r, x, y))
    BY Zenon DEF Stored, PixelFor, BufferPixel
  <2>3. Byte(f, x - r.x + r.sx, y - r.y + r.sy, j)' = Byte(f, x - r.x + r.sx, y - r.y + r.sy, j)
    BY <1>5
  <2> QED BY <2>1, <2>2, <2>3, Zenon DEF Meant
<1>8. Painted(g, f, r, k)' <=> Painted(g, f, r, k)
  <2>1. Columned' = Columned /\ Lined' = Lined /\ Parts' = Parts
    BY SameShape
  <2> DEFINE Is(x, y, j) ==
        Byte(g, x, y, j) = IF x \in r.x..r.x + r.w - 1 /\ y \in r.y..r.y + k - 1
                           THEN Meant(f, r, x, y, j) ELSE Byte(f, x, y, j)
  <2>2. ASSUME NEW x, NEW y, NEW j PROVE Is(x, y, j)' <=> Is(x, y, j)
    <3>1. /\ Byte(g, x, y, j)' = Byte(g, x, y, j) /\ Byte(f, x, y, j)' = Byte(f, x, y, j)
          /\ Meant(f, r, x, y, j)' = Meant(f, r, x, y, j)
      BY <1>5, <1>7
    <3> QED BY <3>1, Zenon
  <2>3. /\ Painted(g, f, r, k) <=>
             Framed(g) /\ SameAfter(g, f) /\ \A x \in Columned, y \in Lined, j \in Parts : Is(x, y, j)
        /\ Painted(g, f, r, k)' <=>
             /\ Framed(g)' /\ SameAfter(g, f)'
             /\ \A x \in Columned', y \in Lined', j \in Parts' : Is(x, y, j)'
    BY Zenon DEF Painted
  <2> HIDE DEF Is
  <2> QED BY <1>2, <1>3, <2>1, <2>2, <2>3, Zenon
<1> QED BY <1>1, <1>8

LEMMA SameDraws ==
  ASSUME UNCHANGED config, NEW c, NEW frame, NEW line
  PROVE  (Draws(c, frame, line)' <=> Draws(c, frame, line)) /\ (LineShape(line)' <=> LineShape(line))
<1> DEFINE r == c.request
           f == c.before
           k == c.line
           ready == c.ready
<1>1. /\ Refused(r)' = Refused(r) /\ OneShot(r)' = OneShot(r)
      /\ StoredBytes(r.color)' = StoredBytes(r.color)
  BY RequestsStay
<1>2. Rowed(r, k)' = Rowed(r, k)
  BY <1>1, Zenon DEF Rowed
<1>3. /\ Framed(f)' <=> Framed(f)
      /\ Painted(frame, f, r, r.h)' <=> Painted(frame, f, r, r.h)
  BY SamePainted
<1>4. Painted(frame, f, r, Rowed(r, k))' <=> Painted(frame, f, r, Rowed(r, k))
  <2>1. \A n : Painted(frame, f, r, n)' <=> Painted(frame, f, r, n)
    BY SamePainted
  <2> QED BY <1>2, <2>1, Zenon
<1>5. Width' = Width /\ BytesPerPixel' = BytesPerPixel
  BY SameShape
<1>6. Holds(line, r.w * BytesPerPixel, StoredBytes(r.color))'
        <=> Holds(line, r.w * BytesPerPixel, StoredBytes(r.color))
  BY <1>1, <1>5, Zenon DEF Holds
<1>7. InProgress(frame, f, r, k, line, ready)' <=> InProgress(frame, f, r, k, line, ready)
  BY <1>3, <1>4, <1>5, <1>6, Zenon DEF InProgress
<1>8. LineShape(line)' <=> LineShape(line)
  BY <1>5, Zenon DEF LineShape
<1> QED BY <1>1, <1>3, <1>7, <1>8, Zenon DEF Draws

(* What a step must do to keep the invariant.                                *)
LEMMA DrawingKeeps ==
  ASSUME DrawInv, user = "driver", UNCHANGED <<user, config>>,
         NEW calls, NEW frame, NEW line, call' = calls, frameBuffer' = frame, lineBuffer' = line,
         LineShape(line), OneDraws(calls), \A l \in Tpl : Draws(calls[l], frame, line)
  PROVE  DrawInv'
<1>1. FrameShape' /\ ShowsColours' /\ AllDo'
  BY SameShape DEF DrawInv
<1>2. LineShape(lineBuffer)'
  <2>1. LineShape(line)'
    BY SameDraws
  <2> QED BY <2>1, Zenon DEF LineShape
<1>3. OneDraws(call)'
  BY DEF OneDraws
<1>4. ASSUME NEW l \in Tpl PROVE Draws(call[l], frameBuffer, lineBuffer)'
  <2> DEFINE c == calls[l]
  <2>1. Draws(c, frame, line)
    OBVIOUS
  <2>2. Draws(c, frame, line)'
    <3> HIDE DEF c
    <3> QED BY <2>1, SameDraws
  <2>3. call[l]' = c /\ frameBuffer' = frame /\ lineBuffer' = line
    OBVIOUS
  <2> QED BY <2>2, <2>3, Zenon
<1> QED BY <1>1, <1>2, <1>3, <1>4 DEF DrawInv

LEMMA DrawFacts ==
  ASSUME FlushInv, DrawInv, user = "driver"
  PROVE  /\ FrameShape /\ ShowsColours /\ AllDo /\ NoMovesUp /\ Framed(frameBuffer)
         /\ LineShape(lineBuffer) /\ OneDraws(call)
         /\ \A l \in Tpl : Draws(call[l], frameBuffer, lineBuffer)
<1>1. NoMovesUp
  BY DEF DrawInv, AllDo, Does, MovesBack, NoMovesUp
<1>2. Framed(frameBuffer)
  BY InvFacts, Zenon DEF Framed
<1> QED BY <1>1, <1>2 DEF DrawInv

(* One call changes.                                                         *)
LEMMA OneDrawKeeps ==
  ASSUME FlushInv, DrawInv, user = "driver", UNCHANGED <<user, config>>,
         NEW l \in Tpl, NEW c, call' = [call EXCEPT ![l] = c],
         NEW frame, NEW line, frameBuffer' = frame, lineBuffer' = line,
         LineShape(line), Draws(c, frame, line),
         \/ frame = frameBuffer /\ line = lineBuffer
         \/ \A k \in Tpl \ {l} : call[k].stage \notin {"draw", "restore"},
         \A k \in Tpl : k < l /\ call[k].stage \in {"draw", "restore"} => c.stage = "none",
         c.stage \in {"draw", "restore"} => \A k \in Tpl : l < k => call[k].stage = "none"
  PROVE  DrawInv'
<1> DEFINE calls == [call EXCEPT ![l] = c]
<1>1. calls[l] = c /\ \A k \in Tpl \ {l} : calls[k] = call[k]
  BY InvFacts DEF CallsOK
<1> HIDE DEF calls
<1>2. OneDraws(calls)
  <2> SUFFICES ASSUME NEW k \in Tpl, NEW m \in Tpl, calls[m].stage \in {"draw", "restore"}, m < k
               PROVE  calls[k].stage = "none"
    BY DEF OneDraws
  <2>1. k # m
    <3>1. k \in Nat /\ m \in Nat
      BY TplNumbers
    <3> QED BY <3>1
  <2>2. CASE m = l
    BY <1>1, <2>1, <2>2
  <2>3. CASE k = l
    BY <1>1, <2>1, <2>3
  <2>4. CASE k # l /\ m # l
    BY <1>1, <2>4, DrawFacts DEF OneDraws
  <2> QED BY <2>2, <2>3, <2>4
<1>3. ASSUME NEW k \in Tpl PROVE Draws(calls[k], frame, line)
  <2>1. CASE k = l
    BY <1>1, <2>1
  <2>2. CASE k # l
    <3>1. calls[k] = call[k] /\ Draws(call[k], frameBuffer, lineBuffer)
      BY <1>1, <2>2, DrawFacts
    <3>2. CASE call[k].stage \notin {"draw", "restore"}
      BY <3>1, <3>2 DEF Draws
    <3> QED BY <2>2, <3>1, <3>2
  <2> QED BY <2>1, <2>2
<1>4. call' = calls
  BY DEF calls
<1> QED BY <1>2, <1>3, <1>4, DrawingKeeps

(* The call that runs: none is above it, and no other draws.                 *)
LEMMA RunningAlone ==
  ASSUME FlushInv, DrawInv, user = "driver", NEW l \in Tpl, Running(l)
  PROVE  /\ \A k \in Tpl : l < k => call[k].stage = "none"
         /\ \A k \in Tpl \ {l} : call[k].stage \notin {"draw", "restore"}
         /\ \A k \in Tpl : k < l => call[k].stage \notin {"draw", "restore"}
<1>1. ASSUME NEW k \in Tpl, l < k PROVE call[k].stage = "none"
  <2>1. k \in l + 1..TPL_NOTIFY
    BY <1>1, TplAssumption DEF Tpl
  <2> QED BY <2>1 DEF Running
<1>2. ASSUME NEW k \in Tpl, k # l, call[k].stage \in {"draw", "restore"} PROVE FALSE
  <2>1. k < l \/ l < k
    <3>1. k \in Nat /\ l \in Nat
      BY TplNumbers
    <3> QED BY <1>2, <3>1
  <2>2. CASE k < l
    BY <1>2, <2>2, DrawFacts DEF OneDraws, Running
  <2>3. CASE l < k
    BY <1>1, <1>2, <2>3
  <2> QED BY <2>1, <2>2, <2>3
<1>3. \A k \in Tpl : k < l => k # l
  <2>1. l \in Nat
    BY TplNumbers
  <2> QED BY <2>1
<1> QED BY <1>1, <1>2, <1>3

LEMMA BltDraws ==
  ASSUME FlushInv, DrawInv, user = "driver", UNCHANGED user, NEW l \in Tpl, NEW r \in DriverAsked, Blt(l, r)
  PROVE  DrawInv'
<1> DEFINE c == [NoCall EXCEPT !.stage = "raise", !.request = r]
<1>1. c.stage = "raise" /\ c.ready = FALSE
  BY DEF NoCall
<1>2. Draws(c, frameBuffer, lineBuffer)
  BY <1>1 DEF Draws
<1> HIDE DEF c
<1>3. /\ call' = [call EXCEPT ![l] = c] /\ UNCHANGED <<config, frameBuffer, lineBuffer>>
      /\ \A k \in Tpl : call[k].stage \notin {"draw", "restore"}
  BY DEF Blt, Raised, bltVars, c
<1> QED BY <1>1, <1>2, <1>3, DrawFacts, OneDrawKeeps

LEMMA RaiseDraws ==
  ASSUME FlushInv, DrawInv, user = "driver", UNCHANGED user, NEW l \in Tpl, RaiseTPL(l)
  PROVE  DrawInv'
<1> DEFINE r == call[l].request
           s == IF Refused(r) THEN "restore" ELSE "draw"
           c == [call[l] EXCEPT !.stage = s, !.before = frameBuffer]
<1>1. IsCall(call[l]) /\ call[l].stage = "raise" /\ Running(l) /\ DOMAIN call[l] = Fields
  BY InvFacts DEF RaiseTPL, IsCall
<1>2. call' = [call EXCEPT ![l] = c] /\ UNCHANGED <<config, frameBuffer, lineBuffer>>
  BY <1>1, InvFacts DEF RaiseTPL, CallsOK, bltVars
<1>3. s = (IF Refused(r) THEN "restore" ELSE "draw")
  OBVIOUS
<1> HIDE DEF s
<1>4. /\ c.stage = s /\ c.request = r /\ c.line = 0 /\ c.before = frameBuffer /\ c.ready = call[l].ready
  BY <1>1 DEF Fields, IsCall
<1> HIDE DEF c
<1>5. ~c.ready /\ r \in DriverAsked
  BY <1>1, <1>4, DrawFacts DEF Draws, IsCall
<1>6. ASSUME ~Refused(r) PROVE InProgress(frameBuffer, frameBuffer, r, 0, lineBuffer, c.ready)
  <2>1. Accepted(r)
    BY <1>5, <1>6, DriverAssumption, DrawFacts DEF Accepted, AllDo
  <2> QED BY <1>5, <2>1, DrawFacts, Begins DEF LineShape
<1> HIDE DEF r
<1>7. Draws(c, frameBuffer, lineBuffer)
  <2>1. CASE Refused(r)
    BY <1>3, <1>4, <2>1 DEF Draws
  <2>2. CASE ~Refused(r)
    <3>1. c.stage = "draw"
      BY <1>3, <1>4, <2>2
    <3>2. InProgress(frameBuffer, c.before, c.request, c.line, lineBuffer, c.ready)
      BY <1>4, <1>6, <2>2, Zenon
    <3> QED BY <3>1, <3>2 DEF Draws
  <2> QED BY <2>1, <2>2
<1> QED BY <1>1, <1>2, <1>7, DrawFacts, RunningAlone, OneDrawKeeps

LEMMA LineDraws ==
  ASSUME FlushInv, DrawInv, user = "driver", UNCHANGED user, NEW l \in Tpl, DrawLine(l)
  PROVE  DrawInv'
<1> DEFINE d     == call[l]
           r     == d.request
           after == Line([frame |-> frameBuffer, line |-> lineBuffer, ready |-> d.ready], r, d.line)
           s     == IF d.line + 1 = Lines(r) THEN "restore" ELSE "draw"
           c     == [d EXCEPT !.ready = after.ready, !.line = @ + 1, !.stage = s]
<1>1. /\ IsCall(d) /\ d.stage = "draw" /\ Running(l) /\ DOMAIN d = Fields
      /\ r \in DriverAsked /\ ~Refused(r) /\ d.line \in Nat /\ d.line < Lines(r)
  BY InvFacts DEF DrawLine, IsCall
<1>2. /\ call' = [call EXCEPT ![l] = c] /\ frameBuffer' = after.frame /\ lineBuffer' = after.line
      /\ UNCHANGED config
  <2> HIDE DEF after
  <2>1. /\ call' = [call EXCEPT ![l].ready = after.ready, ![l].line = @ + 1, ![l].stage = s]
        /\ frameBuffer' = after.frame /\ lineBuffer' = after.line /\ UNCHANGED config
    BY DEF DrawLine, after
  <2> QED BY <1>1, <2>1, InvFacts DEF CallsOK
<1>3. Accepted(r)
  BY <1>1, DriverAssumption, DrawFacts DEF Accepted, AllDo
<1>4. InProgress(frameBuffer, d.before, r, d.line, lineBuffer, d.ready)
  BY <1>1, DrawFacts DEF Draws
<1>5. InProgress(after.frame, d.before, r, d.line + 1, after.line, after.ready)
  BY <1>1, <1>3, <1>4, DrawFacts, Proceeds
<1>6. s = (IF d.line + 1 = Lines(r) THEN "restore" ELSE "draw")
  OBVIOUS
<1> HIDE DEF after, s
<1>7. /\ c.stage = s /\ c.request = r /\ c.line = d.line + 1 /\ c.before = d.before
      /\ c.ready = after.ready
  BY <1>1 DEF Fields
<1>8. Draws(c, after.frame, after.line)
  <2> HIDE DEF c, d, r
  <2>1. CASE d.line + 1 = Lines(r)
    <3>1. Painted(after.frame, d.before, r, r.h)
      <4>1. InProgress(after.frame, d.before, r, Lines(r), after.line, after.ready)
        BY <1>5, <2>1, Zenon
      <4> QED BY <1>3, <4>1, DrawFacts, Ends
    <3>2. c.stage = "restore"
      BY <1>6, <1>7, <2>1
    <3> QED BY <1>1, <1>7, <3>1, <3>2 DEF Draws
  <2>2. CASE d.line + 1 # Lines(r)
    <3>1. c.stage = "draw"
      BY <1>6, <1>7, <2>2
    <3>2. InProgress(after.frame, c.before, c.request, c.line, after.line, c.ready)
      BY <1>5, <1>7, Zenon
    <3> QED BY <3>1, <3>2 DEF Draws
  <2> QED BY <2>1, <2>2
<1>9. LineShape(after.line)
  BY <1>5, Zenon DEF InProgress, LineShape
<1> HIDE DEF c, d, r
<1>10. /\ \A k \in Tpl \ {l} : call[k].stage \notin {"draw", "restore"}
       /\ \A k \in Tpl : k < l /\ call[k].stage \in {"draw", "restore"} => c.stage = "none"
       /\ c.stage \in {"draw", "restore"} => \A k \in Tpl : l < k => call[k].stage = "none"
  BY <1>1, RunningAlone
<1> QED BY <1>2, <1>8, <1>9, <1>10, OneDrawKeeps

LEMMA RestoreDraws ==
  ASSUME FlushInv, DrawInv, user = "driver", UNCHANGED user, NEW l \in Tpl, RestoreTPL(l)
  PROVE  DrawInv'
<1> DEFINE c == [NoCall EXCEPT !.stage = "flush"]
<1>1. c.stage = "flush"
  BY DEF NoCall
<1> HIDE DEF c
<1>2. Running(l) /\ call' = [call EXCEPT ![l] = c] /\ UNCHANGED <<config, frameBuffer, lineBuffer>>
  BY DEF RestoreTPL, c
<1>3. Draws(c, frameBuffer, lineBuffer)
  BY <1>1 DEF Draws
<1>4. /\ \A k \in Tpl : k < l /\ call[k].stage \in {"draw", "restore"} => c.stage = "none"
      /\ c.stage \in {"draw", "restore"} => \A k \in Tpl : l < k => call[k].stage = "none"
  BY <1>1, <1>2, RunningAlone
<1> QED BY <1>2, <1>3, <1>4, DrawFacts, OneDrawKeeps

LEMMA FlushDraws ==
  ASSUME FlushInv, DrawInv, user = "driver", UNCHANGED user, NEW l \in Tpl, Flush(l)
  PROVE  DrawInv'
<1> DEFINE d == call[l]
           n == d.line + 1
           c == IF n = Height THEN NoCall ELSE [d EXCEPT !.line = n]
<1>1. d.stage = "flush" /\ Running(l) /\ DOMAIN d = Fields
  BY InvFacts DEF Flush, IsCall
<1>2. call' = [call EXCEPT ![l] = c] /\ UNCHANGED <<config, frameBuffer, lineBuffer>>
  <2>1. /\ call' = IF n = Height THEN [call EXCEPT ![l] = NoCall] ELSE [call EXCEPT ![l].line = n]
        /\ UNCHANGED <<config, frameBuffer, lineBuffer>>
    BY DEF Flush, bltVars
  <2> QED BY <2>1, InvFacts DEF CallsOK
<1>3. c.stage \in {"none", "flush"}
  <2>1. [d EXCEPT !.line = n].stage = "flush"
    <3> HIDE DEF d, n
    <3> QED BY <1>1 DEF Fields
  <2> QED BY <2>1, NewCall
<1> HIDE DEF c, d
<1>4. Draws(c, frameBuffer, lineBuffer)
  BY <1>3 DEF Draws
<1>5. /\ \A k \in Tpl : k < l /\ call[k].stage \in {"draw", "restore"} => c.stage = "none"
      /\ c.stage \in {"draw", "restore"} => \A k \in Tpl : l < k => call[k].stage = "none"
  BY <1>1, <1>3, RunningAlone
<1> QED BY <1>2, <1>4, <1>5, DrawFacts, OneDrawKeeps

-----------------------------------------------------------------------------
(* The screen that Blts change at once                                       *)

(* Whole, and what callers wait for, of any calls and frame buffer.          *)
WholeOf(calls, frame) ==
  LET drawing == {l \in Tpl : calls[l].stage \in {"draw", "restore"}}
  IN IF drawing = {} THEN frame ELSE calls[Min(drawing)].before

Waiting(calls) ==
  [l \in Tpl |-> IF calls[l].stage \in {"raise", "draw", "restore"} THEN calls[l].request ELSE Nothing]

LEMMA WholeIdle ==
  ASSUME NEW calls, NEW frame, \A l \in Tpl : calls[l].stage \notin {"draw", "restore"}
  PROVE  WholeOf(calls, frame) = frame
<1>1. {l \in Tpl : calls[l].stage \in {"draw", "restore"}} = {}
  OBVIOUS
<1> QED BY <1>1, Zenon DEF WholeOf

LEMMA WholeBefore ==
  ASSUME NEW calls, NEW frame, NEW l \in Tpl, calls[l].stage \in {"draw", "restore"},
         \A k \in Tpl \ {l} : calls[k].stage \notin {"draw", "restore"}
  PROVE  WholeOf(calls, frame) = calls[l].before
<1>1. {k \in Tpl : calls[k].stage \in {"draw", "restore"}} = {l}
  OBVIOUS
<1>2. Min({l}) = l
  <2>1. l \in {l} /\ \A y \in {l} : l <= y
    BY TplNumbers
  <2>2. Min({l}) \in {l}
    BY <2>1, Zenon DEF Min
  <2> QED BY <2>2
<1> QED BY <1>1, <1>2, Zenon DEF WholeOf

LEMMA WholeIs ==
  /\ Whole = WholeOf(call, frameBuffer) /\ Whole' = WholeOf(call', frameBuffer')
BY Zenon DEF Whole, Drawing, WholeOf

LEMMA SameFrame ==
  ASSUME UNCHANGED config, NEW frame
  PROVE  ShownOf(frame)' = ShownOf(frame)
<1>1. Width' = Width /\ Height' = Height /\ BytesPerPixel' = BytesPerPixel
  BY SameShape
<1>2. ASSUME NEW p PROVE Loaded(p)' = Loaded(p)
  BY Zenon DEF Loaded
<1>3. ASSUME NEW x, NEW y PROVE Offset(x, y)' = Offset(x, y)
  BY <1>1, Zenon DEF Offset
<1>4. ASSUME NEW x, NEW y PROVE PixelOf(frame, x, y)' = PixelOf(frame, x, y)
  BY <1>1, <1>3, Zenon DEF PixelOf
<1>5. ASSUME NEW x, NEW y PROVE Loaded(PixelOf(frame, x, y))' = Loaded(PixelOf(frame, x, y))
  <2>1. \A p : Loaded(p)' = Loaded(p)
    BY <1>2
  <2> QED BY <1>4, <2>1, Zenon
<1> QED BY <1>1, <1>5, Zenon DEF ShownOf

LEMMA SameShown ==
  ASSUME UNCHANGED config, NEW frame, Whole' = frame
  PROVE  ShownOf(Whole)' = ShownOf(frame)
<1>1. ShownOf(frame)' = ShownOf(frame)
  BY SameFrame
<1>2. ShownOf(Whole)' = ShownOf(frame)'
  BY Zenon DEF ShownOf
<1> QED BY <1>1, <1>2, Zenon

(* A step that shows nothing.                                                *)
LEMMA Unseen ==
  ASSUME UNCHANGED <<config, refused>>, NEW calls, NEW frame, call' = calls, frameBuffer' = frame,
         WholeOf(calls, frame) = WholeOf(call, frameBuffer), Waiting(calls) = Waiting(call)
  PROVE  UNCHANGED Display!screenVars
<1>1. ShownOf(Whole)' = ShownOf(Whole)
  <2>1. Whole' = WholeOf(calls, frame) /\ Whole = WholeOf(calls, frame)
    BY WholeIs, Zenon
  <2>2. \A f : Whole' = f => ShownOf(Whole)' = ShownOf(f)
    BY SameShown
  <2> QED BY <2>1, <2>2, Zenon
<1>2. Waiting(call)' = Waiting(call)
  BY Zenon DEF Waiting
<1>3. Keeps' = Keeps
  BY SameShape
<1> QED BY <1>1, <1>2, <1>3, Zenon DEF Display!screenVars, Waiting

(* A call is made.                                                           *)
LEMMA BltAsks ==
  ASSUME FlushInv, user = "driver", NEW l \in Tpl, NEW r \in DriverAsked, Blt(l, r)
  PROVE  Display!Ask(l, r)
<1> DEFINE c == [NoCall EXCEPT !.stage = "raise", !.request = r]
           calls == [call EXCEPT ![l] = c]
<1>1. c.stage = "raise" /\ c.request = r
  BY DEF NoCall
<1> HIDE DEF c
<1>2. /\ call' = calls /\ UNCHANGED <<config, frameBuffer, refused>>
      /\ \A k \in Tpl : call[k].stage \notin {"draw", "restore"}
  BY DEF Blt, Raised, bltVars, c
<1>3. call[l].stage = "none"
  <2>1. l \in l..TPL_NOTIFY
    BY TplAssumption DEF Tpl
  <2> QED BY <2>1 DEF Blt
<1>4. calls[l] = c /\ (\A k \in Tpl \ {l} : calls[k] = call[k])
  BY InvFacts DEF CallsOK
<1> HIDE DEF calls
<1>5. WholeOf(calls, frameBuffer) = frameBuffer /\ WholeOf(call, frameBuffer) = frameBuffer
  <2>1. \A k \in Tpl : calls[k].stage \notin {"draw", "restore"}
    BY <1>1, <1>2, <1>4
  <2> QED BY <1>2, <2>1, WholeIdle
<1>6. Waiting(call)[l] = Nothing /\ Waiting(calls) = [Waiting(call) EXCEPT ![l] = r]
  <2>1. Waiting(call)[l] = Nothing
    BY <1>3 DEF Waiting
  <2>2. ASSUME NEW k \in Tpl PROVE Waiting(calls)[k] = IF k = l THEN r ELSE Waiting(call)[k]
    BY <1>1, <1>4 DEF Waiting
  <2>3. /\ Waiting(calls) = [k \in Tpl |-> Waiting(calls)[k]]
        /\ Waiting(call) = [k \in Tpl |-> Waiting(call)[k]]
    BY DEF Waiting
  <2> HIDE DEF Waiting
  <2> QED BY <2>1, <2>2, <2>3
<1>7. ShownOf(Whole)' = ShownOf(Whole)
  <2>1. Whole' = frameBuffer /\ Whole = frameBuffer
    BY <1>2, <1>5, WholeIs, Zenon
  <2>2. \A f : Whole' = f => ShownOf(Whole)' = ShownOf(f)
    BY <1>2, SameShown
  <2> QED BY <2>1, <2>2, Zenon
<1>8. Keeps' = Keeps
  BY <1>2, SameShape
<1>9. Waiting(call)' = Waiting(calls)
  BY <1>2, Zenon DEF Waiting
<1> QED BY <1>2, <1>6, <1>7, <1>8, <1>9, Zenon DEF Display!Ask, Waiting

LEMMA GoodIs ==
  ASSUME FrameShape, NEW r, IsRequest(r)
  PROVE  Display!Good(r) <=> ~Refused(r)
<1>1. DOMAIN ShownOf(Whole) = Frames
  BY Zenon DEF ShownOf, Frames
<1>2. r.x \in Nat /\ r.y \in Nat /\ r.w \in Nat /\ r.h \in Nat
      /\ (r.op = "VideoToVideo" => r.sx \in Nat /\ r.sy \in Nat)
  BY DEF IsRequest
<1>3. Display!OnScreen(Display!Rect(r.x, r.y, r.w, r.h)) <=> ~Invalid(r.x, r.y, r.w, r.h)
  <2>1. Area(r.x, r.y, r.w, r.h) # {} /\ Area(r.x, r.y, r.w, r.h) \subseteq Frames
          <=> ~Invalid(r.x, r.y, r.w, r.h)
    BY <1>2, OnScreenIs
  <2> QED BY <1>1, <2>1, Zenon DEF Display!OnScreen, Display!Rect, Area
<1>4. r.op = "VideoToVideo" =>
        (Display!OnScreen(Display!Rect(r.sx, r.sy, r.w, r.h)) <=> ~Invalid(r.sx, r.sy, r.w, r.h))
  <2>1. r.op = "VideoToVideo" =>
          (Area(r.sx, r.sy, r.w, r.h) # {} /\ Area(r.sx, r.sy, r.w, r.h) \subseteq Frames
             <=> ~Invalid(r.sx, r.sy, r.w, r.h))
    BY <1>2, OnScreenIs
  <2> QED BY <1>1, <2>1, Zenon DEF Display!OnScreen, Display!Rect, Area
<1> QED BY <1>3, <1>4, Zenon DEF Display!Good, Refused

(* A call restores the level: its request is answered.                       *)
LEMMA RestoreServes ==
  ASSUME FlushInv, DrawInv, user = "driver", NEW l \in Tpl, RestoreTPL(l)
  PROVE  Display!Serve(l)
<1> DEFINE r == call[l].request
           c == [NoCall EXCEPT !.stage = "flush"]
           calls == [call EXCEPT ![l] = c]
<1>1. c.stage = "flush"
  BY DEF NoCall
<1> HIDE DEF c
<1>2. /\ Running(l) /\ call[l].stage = "restore" /\ call' = calls /\ refused' = Refused(r)
      /\ UNCHANGED <<config, frameBuffer>>
  BY DEF RestoreTPL, c
<1>3. calls[l] = c /\ (\A k \in Tpl \ {l} : calls[k] = call[k])
  BY InvFacts DEF CallsOK
<1> HIDE DEF calls
<1>4. r \in DriverAsked /\ IsRequest(r) /\ r # Nothing
  BY <1>2, InvFacts, DriverAssumption DEF IsCall
<1>5. \A k \in Tpl \ {l} : call[k].stage \notin {"draw", "restore"}
  BY <1>2, RunningAlone
<1>6. Whole = call[l].before
  <2>1. WholeOf(call, frameBuffer) = call[l].before
    BY <1>2, <1>5, WholeBefore
  <2> QED BY <2>1, WholeIs, Zenon
<1>7. Whole' = frameBuffer
  <2>1. \A k \in Tpl : calls[k].stage \notin {"draw", "restore"}
    BY <1>1, <1>3, <1>5
  <2>2. WholeOf(calls, frameBuffer) = frameBuffer
    BY <2>1, WholeIdle
  <2> QED BY <1>2, <2>2, WholeIs, Zenon
<1>8. ShownOf(Whole)' = ShownOf(frameBuffer)
  <2>1. \A f : Whole' = f => ShownOf(Whole)' = ShownOf(f)
    BY <1>2, SameShown
  <2> QED BY <1>7, <2>1, Zenon
<1>9. Waiting(call)[l] = r /\ Waiting(calls) = [Waiting(call) EXCEPT ![l] = Nothing]
  <2>1. Waiting(call)[l] = r
    BY <1>2 DEF Waiting
  <2>2. ASSUME NEW k \in Tpl PROVE Waiting(calls)[k] = IF k = l THEN Nothing ELSE Waiting(call)[k]
    BY <1>1, <1>3 DEF Waiting
  <2>3. /\ Waiting(calls) = [k \in Tpl |-> Waiting(calls)[k]]
        /\ Waiting(call) = [k \in Tpl |-> Waiting(call)[k]]
    BY DEF Waiting
  <2> HIDE DEF Waiting, r
  <2> QED BY <2>1, <2>2, <2>3
<1>10. Display!Good(r) <=> ~Refused(r)
  BY <1>4, DrawFacts, GoodIs
<1>11. CASE Refused(r)
  <2>1. frameBuffer = call[l].before
    BY <1>2, <1>11, DrawFacts DEF Draws
  <2>2. ShownOf(Whole)' = ShownOf(Whole)
    BY <1>6, <1>8, <2>1, Zenon
  <2>3. Keeps' = Keeps /\ Waiting(call)' = Waiting(calls) /\ refused' = TRUE
    BY <1>2, <1>11, SameShape, Zenon DEF Waiting
  <2> QED BY <1>4, <1>9, <1>10, <1>11, <2>2, <2>3, Zenon DEF Display!Serve, Waiting
<1>12. CASE ~Refused(r)
  <2>1. Painted(frameBuffer, call[l].before, r, r.h)
    BY <1>2, <1>12, DrawFacts DEF Draws
  <2>2. Accepted(r)
    BY <1>4, <1>12, DrawFacts DEF Accepted, AllDo
  <2>3. ShownOf(frameBuffer) = Redrawn(ShownOf(call[l].before), r)
    <3> HIDE DEF r
    <3>1. \A f, g : Painted(g, f, r, r.h) => ShownOf(g) = Redrawn(ShownOf(f), r)
      BY <2>2, DrawFacts, ShownAfter
    <3> QED BY <2>1, <3>1, Zenon
  <2>4. Display!Answer(r) = Redrawn(ShownOf(Whole), r)
    <3> HIDE DEF r
    <3>1. r.op \in {"VideoFill", "BufferToVideo", "VideoToVideo"}
      BY <1>4 DEF IsRequest
    <3> QED BY <3>1, DisplayAnswers
  <2>5. ShownOf(Whole)' = Display!Answer(r)
    BY <1>6, <1>8, <2>3, <2>4, Zenon
  <2>6. Keeps' = Keeps /\ Waiting(call)' = Waiting(calls) /\ refused' = FALSE
    <3>1. Refused(r) = FALSE
      BY <1>12 DEF Refused
    <3> QED BY <1>2, <3>1, SameShape, Zenon DEF Waiting
  <2> QED BY <1>4, <1>9, <1>10, <1>12, <2>5, <2>6, Zenon DEF Display!Serve, Waiting
<1> QED BY <1>11, <1>12

(* The other steps of a call show nothing.                                   *)
LEMMA RaiseUnseen ==
  ASSUME FlushInv, DrawInv, user = "driver", NEW l \in Tpl, RaiseTPL(l)
  PROVE  UNCHANGED Display!screenVars
<1> DEFINE r == call[l].request
           s == IF Refused(r) THEN "restore" ELSE "draw"
           c == [call[l] EXCEPT !.stage = s, !.before = frameBuffer]
           calls == [call EXCEPT ![l] = c]
<1>1. IsCall(call[l]) /\ call[l].stage = "raise" /\ Running(l) /\ DOMAIN call[l] = Fields
  BY InvFacts DEF RaiseTPL, IsCall
<1>2. call' = calls /\ UNCHANGED <<config, frameBuffer, refused>>
  BY <1>1, InvFacts DEF RaiseTPL, CallsOK, bltVars
<1>3. s \in {"draw", "restore"}
  OBVIOUS
<1> HIDE DEF s
<1>4. c.stage = s /\ c.request = r /\ c.before = frameBuffer
  BY <1>1 DEF Fields
<1> HIDE DEF c
<1>5. calls[l] = c /\ (\A k \in Tpl \ {l} : calls[k] = call[k])
  BY InvFacts DEF CallsOK
<1> HIDE DEF calls, r
<1>6. \A k \in Tpl \ {l} : call[k].stage \notin {"draw", "restore"}
  BY <1>1, RunningAlone
<1>7. WholeOf(calls, frameBuffer) = WholeOf(call, frameBuffer)
  <2>1. \A k \in Tpl \ {l} : calls[k].stage \notin {"draw", "restore"}
    BY <1>5, <1>6
  <2>2. WholeOf(calls, frameBuffer) = frameBuffer
    BY <1>3, <1>4, <1>5, <2>1, WholeBefore
  <2>3. \A k \in Tpl : call[k].stage \notin {"draw", "restore"}
    BY <1>1, <1>6
  <2> QED BY <2>2, <2>3, WholeIdle
<1>8. Waiting(calls) = Waiting(call)
  <2>1. ASSUME NEW k \in Tpl PROVE Waiting(calls)[k] = Waiting(call)[k]
    BY <1>1, <1>3, <1>4, <1>5 DEF Waiting, r
  <2>2. /\ Waiting(calls) = [k \in Tpl |-> Waiting(calls)[k]]
        /\ Waiting(call) = [k \in Tpl |-> Waiting(call)[k]]
    BY DEF Waiting
  <2> HIDE DEF Waiting
  <2> QED BY <2>1, <2>2
<1> QED BY <1>2, <1>7, <1>8, Unseen

LEMMA LineUnseen ==
  ASSUME FlushInv, DrawInv, user = "driver", NEW l \in Tpl, DrawLine(l)
  PROVE  UNCHANGED Display!screenVars
<1> DEFINE d     == call[l]
           after == Line([frame |-> frameBuffer, line |-> lineBuffer, ready |-> d.ready], d.request, d.line)
           s     == IF d.line + 1 = Lines(d.request) THEN "restore" ELSE "draw"
           c     == [d EXCEPT !.ready = after.ready, !.line = @ + 1, !.stage = s]
           calls == [call EXCEPT ![l] = c]
<1>1. d.stage = "draw" /\ Running(l) /\ DOMAIN d = Fields
  BY InvFacts DEF DrawLine, IsCall
<1> HIDE DEF after
<1>2. call' = calls /\ frameBuffer' = after.frame /\ UNCHANGED <<config, refused>>
  <2>1. /\ call' = [call EXCEPT ![l].ready = after.ready, ![l].line = @ + 1, ![l].stage = s]
        /\ frameBuffer' = after.frame /\ UNCHANGED <<config, refused>>
    BY DEF DrawLine, after
  <2> QED BY <1>1, <2>1, InvFacts DEF CallsOK
<1>3. s \in {"draw", "restore"}
  OBVIOUS
<1> HIDE DEF s
<1>4. c.stage = s /\ c.request = d.request /\ c.before = d.before
  BY <1>1 DEF Fields
<1> HIDE DEF c, d
<1>5. calls[l] = c /\ (\A k \in Tpl \ {l} : calls[k] = call[k])
  BY InvFacts DEF CallsOK
<1> HIDE DEF calls
<1>6. \A k \in Tpl \ {l} : call[k].stage \notin {"draw", "restore"}
  BY <1>1, RunningAlone
<1>7. WholeOf(calls, after.frame) = WholeOf(call, frameBuffer)
  <2>1. \A k \in Tpl \ {l} : calls[k].stage \notin {"draw", "restore"}
    BY <1>5, <1>6
  <2>2. WholeOf(calls, after.frame) = d.before
    BY <1>3, <1>4, <1>5, <2>1, WholeBefore
  <2>3. WholeOf(call, frameBuffer) = d.before
    BY <1>1, <1>6, WholeBefore DEF d
  <2> QED BY <2>2, <2>3
<1>8. Waiting(calls) = Waiting(call)
  <2>1. ASSUME NEW k \in Tpl PROVE Waiting(calls)[k] = Waiting(call)[k]
    BY <1>1, <1>3, <1>4, <1>5 DEF Waiting, d
  <2>2. /\ Waiting(calls) = [k \in Tpl |-> Waiting(calls)[k]]
        /\ Waiting(call) = [k \in Tpl |-> Waiting(call)[k]]
    BY DEF Waiting
  <2> HIDE DEF Waiting
  <2> QED BY <2>1, <2>2
<1> QED BY <1>2, <1>7, <1>8, Unseen

LEMMA FlushUnseen ==
  ASSUME FlushInv, DrawInv, user = "driver", NEW l \in Tpl, Flush(l)
  PROVE  UNCHANGED Display!screenVars
<1> DEFINE d == call[l]
           n == d.line + 1
           c == IF n = Height THEN NoCall ELSE [d EXCEPT !.line = n]
           calls == [call EXCEPT ![l] = c]
<1>1. d.stage = "flush" /\ Running(l) /\ DOMAIN d = Fields
  BY InvFacts DEF Flush, IsCall
<1>2. call' = calls /\ UNCHANGED <<config, frameBuffer, refused>>
  <2>1. /\ call' = IF n = Height THEN [call EXCEPT ![l] = NoCall] ELSE [call EXCEPT ![l].line = n]
        /\ UNCHANGED <<config, frameBuffer, refused>>
    BY DEF Flush, bltVars
  <2> QED BY <2>1, InvFacts DEF CallsOK
<1>3. c.stage \in {"none", "flush"}
  <2>1. [d EXCEPT !.line = n].stage = "flush"
    <3> HIDE DEF d, n
    <3> QED BY <1>1 DEF Fields
  <2> QED BY <2>1, NewCall
<1> HIDE DEF c, d
<1>4. calls[l] = c /\ (\A k \in Tpl \ {l} : calls[k] = call[k])
  BY InvFacts DEF CallsOK
<1> HIDE DEF calls
<1>5. \A k \in Tpl \ {l} : call[k].stage \notin {"draw", "restore"}
  BY <1>1, RunningAlone
<1>6. WholeOf(calls, frameBuffer) = WholeOf(call, frameBuffer)
  <2>1. \A k \in Tpl : calls[k].stage \notin {"draw", "restore"}
    BY <1>3, <1>4, <1>5
  <2>2. \A k \in Tpl : call[k].stage \notin {"draw", "restore"}
    BY <1>1, <1>5 DEF d
  <2> QED BY <2>1, <2>2, WholeIdle
<1>7. Waiting(calls) = Waiting(call)
  <2>1. ASSUME NEW k \in Tpl PROVE Waiting(calls)[k] = Waiting(call)[k]
    BY <1>1, <1>3, <1>4 DEF Waiting, d
  <2>2. /\ Waiting(calls) = [k \in Tpl |-> Waiting(calls)[k]]
        /\ Waiting(call) = [k \in Tpl |-> Waiting(call)[k]]
    BY DEF Waiting
  <2> HIDE DEF Waiting
  <2> QED BY <2>1, <2>2
<1> QED BY <1>2, <1>6, <1>7, Unseen

(* What the driver's steps are to the screen.                                *)
AtomicStep == [installed = "yes" => Display!ScreenNext]_(Display!screenVars)

LEMMA AtomicSteps ==
  ASSUME FlushInv, DrawInv, [DisplayNext]_displayVars
  PROVE  FlushInv' /\ DrawInv' /\ AtomicStep
<1>1. FlushInv'
  BY DrawFacts, DisplayStep
<1>2. CASE UNCHANGED <<user, config, frameBuffer, refused, installed, call, lineBuffer>>
  <2>1. UNCHANGED Display!screenVars
    <3>1. \A calls, frame :
            call' = calls /\ frameBuffer' = frame /\ WholeOf(calls, frame) = WholeOf(call, frameBuffer)
              /\ Waiting(calls) = Waiting(call) => UNCHANGED Display!screenVars
      BY <1>2, Unseen
    <3> QED BY <1>2, <3>1
  <2>2. ASSUME user = "driver" PROVE DrawInv'
    BY <1>2, <2>2, DrawFacts, DrawingKeeps
  <2>3. ASSUME user # "driver" PROVE DrawInv'
    BY <1>2, <2>3 DEF DrawInv
  <2> QED BY <1>1, <2>1, <2>2, <2>3 DEF AtomicStep
<1>3. CASE user # "driver" /\ DisplayNext
  <2>1. user = "client" /\ UNCHANGED <<user, installed>> /\ installed = "no"
    BY <1>3 DEF DisplayNext, driverVars, DrawInv
  <2>2. DrawInv'
    BY <2>1 DEF DrawInv
  <2> QED BY <1>1, <2>1, <2>2 DEF AtomicStep
<1>4. CASE user = "driver" /\ DisplayNext
  <2> USE <1>4
  <2>0. DriverNext /\ UNCHANGED user
    BY DEF DisplayNext
  <2>1. CASE FailToInitialize \/ Initialize
    <3>1. installed = "no" /\ UNCHANGED <<config, call, lineBuffer>>
      BY <2>1 DEF FailToInitialize, Initialize, bltVars
    <3>2. \A l \in Tpl : call[l].stage = "none"
      BY <3>1 DEF FlushInv
    <3>3. \A frame : \A l \in Tpl : Draws(call[l], frame, lineBuffer)
      BY <3>2 DEF Draws
    <3>4. DrawInv'
      <4>1. /\ LineShape(lineBuffer) /\ OneDraws(call)
            /\ \A l \in Tpl : Draws(call[l], frameBuffer', lineBuffer)
        <5>1. LineShape(lineBuffer) /\ OneDraws(call)
          BY DrawFacts
        <5>2. \A l \in Tpl : Draws(call[l], frameBuffer', lineBuffer)
          BY <3>3
        <5> QED BY <5>1, <5>2
      <4>2. \A calls, frame, line :
              /\ call' = calls /\ frameBuffer' = frame /\ lineBuffer' = line
              /\ LineShape(line) /\ OneDraws(calls) /\ \A l \in Tpl : Draws(calls[l], frame, line)
              => DrawInv'
        BY <2>0, <3>1, DrawingKeeps
      <4> QED BY <3>1, <4>1, <4>2, Zenon
    <3> QED BY <1>1, <3>1, <3>4 DEF AtomicStep
  <2>2. ASSUME NEW l \in Tpl, NEW r \in DriverAsked, Blt(l, r) PROVE DrawInv' /\ AtomicStep
    <3>1. Display!ScreenNext
      BY <2>2, BltAsks DEF Display!ScreenNext
    <3> QED BY <2>0, <2>2, <3>1, BltDraws DEF AtomicStep
  <2>3. ASSUME NEW l \in Tpl, RaiseTPL(l) PROVE DrawInv' /\ AtomicStep
    BY <2>0, <2>3, RaiseDraws, RaiseUnseen DEF AtomicStep
  <2>4. ASSUME NEW l \in Tpl, DrawLine(l) PROVE DrawInv' /\ AtomicStep
    BY <2>0, <2>4, LineDraws, LineUnseen DEF AtomicStep
  <2>5. ASSUME NEW l \in Tpl, RestoreTPL(l) PROVE DrawInv' /\ AtomicStep
    <3>1. Display!ScreenNext
      BY <2>5, RestoreServes DEF Display!ScreenNext
    <3> QED BY <2>0, <2>5, <3>1, RestoreDraws DEF AtomicStep
  <2>6. ASSUME NEW l \in Tpl, Flush(l) PROVE DrawInv' /\ AtomicStep
    BY <2>0, <2>6, FlushDraws, FlushUnseen DEF AtomicStep
  <2>7. ASSUME NEW line, Evict(line) PROVE DrawInv' /\ AtomicStep
    BY <1>2, <2>0, <2>7 DEF Evict, bltVars
  <2> QED BY <1>1, <2>0, <2>1, <2>2, <2>3, <2>4, <2>5, <2>6, <2>7 DEF DriverNext
<1>5. CASE UNCHANGED displayVars
  BY <1>2, <1>5 DEF displayVars, bltVars, driverVars
<1> QED BY <1>3, <1>4, <1>5

(* For any frame buffer that the driver is given, any number of levels and   *)
(* any requests that the library draws as asked: although lines are drawn    *)
(* one after the other and a call may preempt another, each call changes the *)
(* screen in one step, to what was asked of it (DisplayBlt).                 *)
THEOREM AtomicBlts ==
  ASSUME Driven
  PROVE  DisplaySpec => BltsAreAtomic
<1>1. DisplayInit => FlushInv /\ DrawInv
  BY FlushInit, DrawInit
<1>2. FlushInv /\ DrawInv /\ [DisplayNext]_displayVars => FlushInv' /\ DrawInv' /\ AtomicStep
  BY AtomicSteps
<1>3. DisplayInit => Display!ScreenInit
  <2>1. DisplayInit => call = [l \in Tpl |-> NoCall] /\ refused = FALSE
    BY DEF DisplayInit, BltInit
  <2>2. call = [l \in Tpl |-> NoCall] => \A l \in Tpl : call[l].stage = "none"
    BY NewCall
  <2>3. ASSUME \A l \in Tpl : call[l].stage = "none" PROVE Waiting(call) = [l \in Tpl |-> Nothing]
    BY <2>3 DEF Waiting
  <2> QED BY <2>1, <2>2, <2>3, Zenon DEF Display!ScreenInit, Waiting
<1> QED BY <1>1, <1>2, <1>3, PTL DEF DisplaySpec, BltsAreAtomic, AtomicStep
-----------------------------------------------------------------------------
(* The library draws all lines of a request                                  *)

(* The function that FrameBufferBlt folds its lines with.                    *)
LineFold(g, base, seq, r, n) ==
  g = [s \in SUBSET (1..n) |-> IF s = {} THEN base
                               ELSE Line(g[s \ {Max(s)}], r, seq[Max(s)] - 1)]

LEMMA LineFoldExists ==
  ASSUME NEW base, NEW seq, NEW r, NEW n \in Nat
  PROVE  \E g : LineFold(g, base, seq, r, n)
<1> DEFINE T == {m \in Nat : \E g : LineFold(g, base, seq, r, m)}
<1>1. 0 \in T
  <2> DEFINE g == [s \in SUBSET (1..0) |-> base]
  <2>1. \A s \in SUBSET (1..0) : s = {}
    OBVIOUS
  <2>2. g = [s \in SUBSET (1..0) |-> IF s = {} THEN base
                                    ELSE Line(g[s \ {Max(s)}], r, seq[Max(s)] - 1)]
    BY <2>1, Zenon
  <2>3. LineFold(g, base, seq, r, 0)
    BY <2>2, Zenon DEF LineFold
  <2> QED BY <2>3
<1>2. ASSUME NEW m \in Nat, m \in T PROVE m + 1 \in T
  <2>1. PICK g : LineFold(g, base, seq, r, m)
    BY <1>2
  <2> DEFINE S == SUBSET (1..m + 1)
             h == [s \in S |-> IF m + 1 \in s THEN Line(g[s \ {m + 1}], r, seq[m + 1] - 1)
                               ELSE g[s]]
             v(s) == IF s = {} THEN base ELSE Line(h[s \ {Max(s)}], r, seq[Max(s)] - 1)
  <2>2. \A s \in S : m + 1 \notin s => s \in SUBSET (1..m)
    <3>1. \A x \in 1..m + 1 : x # m + 1 => x \in 1..m
      OBVIOUS
    <3> QED BY <3>1
  <2>3. \A s \in SUBSET (1..m) : s \in S /\ m + 1 \notin s
    <3>1. \A x \in 1..m : x \in 1..m + 1 /\ x # m + 1
      OBVIOUS
    <3> QED BY <3>1
  <2>4. \A s \in SUBSET (1..m) : h[s] = g[s]
    BY <2>3, Zenon
  <2>5. ASSUME NEW s \in S PROVE h[s] = v(s)
    <3>1. CASE m + 1 \in s
      <4>1. Max(s) = m + 1 /\ s \ {m + 1} \in SUBSET (1..m) /\ s # {}
        BY <3>1, LargestIs
      <4>2. h[s] = Line(g[s \ {m + 1}], r, seq[m + 1] - 1)
        BY <3>1, Zenon
      <4>3. h[s \ {m + 1}] = g[s \ {m + 1}]
        BY <2>4, <4>1, Zenon
      <4> HIDE DEF h
      <4> QED BY <4>1, <4>2, <4>3, Zenon
    <3>2. CASE m + 1 \notin s
      <4>1. s \in SUBSET (1..m)
        BY <2>2, <3>2, Zenon
      <4>2. h[s] = g[s]
        BY <2>4, <4>1, Zenon
      <4>3. g[s] = IF s = {} THEN base ELSE Line(g[s \ {Max(s)}], r, seq[Max(s)] - 1)
        BY <2>1, <4>1, Zenon DEF LineFold
      <4>4. h[s \ {Max(s)}] = g[s \ {Max(s)}]
        <5>1. s \ {Max(s)} \in SUBSET (1..m)
          BY <4>1, Zenon
        <5> HIDE DEF h
        <5> QED BY <2>4, <5>1, Zenon
      <4> HIDE DEF h
      <4> QED BY <4>2, <4>3, <4>4, Zenon
    <3> QED BY <3>1, <3>2, Zenon
  <2>6. h = [s \in S |-> v(s)]
    <3>1. h = [s \in S |-> h[s]]
      BY Zenon
    <3> HIDE DEF h
    <3> QED BY <2>5, <3>1, Zenon
  <2>7. LineFold(h, base, seq, r, m + 1)
    <3> HIDE DEF h
    <3> QED BY <2>6, Zenon DEF LineFold
  <2> QED BY <2>7
<1> HIDE DEF T
<1>3. n \in T
  BY <1>1, <1>2, SetInduction
<1> QED BY <1>3 DEF T

LineRun(g, base, seq, r, n) ==
  /\ g[1..0] = base
  /\ \A k \in 0..n - 1 : g[1..k + 1] = Line(g[1..k], r, seq[k + 1] - 1)

LEMMA LineFoldSteps ==
  ASSUME NEW base, NEW seq, NEW r, NEW n \in Nat, NEW g, LineFold(g, base, seq, r, n)
  PROVE  LineRun(g, base, seq, r, n)
<1>1. g[1..0] = base
  <2>1. 1..0 = {} /\ {} \in SUBSET (1..n)
    OBVIOUS
  <2>2. g[{}] = base
    BY <2>1, Zenon DEF LineFold
  <2> QED BY <2>1, <2>2
<1>2. ASSUME NEW k \in 0..n - 1 PROVE g[1..k + 1] = Line(g[1..k], r, seq[k + 1] - 1)
  <2> DEFINE s == 1..k + 1
  <2>1. k \in Nat /\ s \in SUBSET (1..n) /\ s \in SUBSET (1..k + 1) /\ k + 1 \in s /\ s # {}
    OBVIOUS
  <2>2. s \ {k + 1} = 1..k
    OBVIOUS
  <2> HIDE DEF s
  <2>3. Max(s) = k + 1
    BY <2>1, LargestIs
  <2>4. g[s] = Line(g[s \ {Max(s)}], r, seq[Max(s)] - 1)
    BY <2>1, Zenon DEF LineFold
  <2>5. g[s] = Line(g[1..k], r, seq[k + 1] - 1)
    BY <2>2, <2>3, <2>4, Zenon
  <2> QED BY <2>5 DEF s
<1> QED BY <1>1, <1>2 DEF LineRun

(* The frame buffer, the line buffer and whether that holds the colour.      *)
IsDrawing(m) == m = [frame |-> m.frame, line |-> m.line, ready |-> m.ready]

LEMMA LineIsDrawing ==
  ASSUME NEW m, IsDrawing(m), NEW r, r.op \in {"VideoFill", "BufferToVideo", "VideoToVideo"}, NEW k
  PROVE  IsDrawing(Line(m, r, k))
<1>1. ASSUME NEW f, NEW l, NEW b PROVE IsDrawing([frame |-> f, line |-> l, ready |-> b])
  BY DEF IsDrawing
<1>2. ASSUME NEW f PROVE IsDrawing([m EXCEPT !.frame = f])
  <2>1. ASSUME NEW a, NEW b, NEW c PROVE IsDrawing([[frame |-> a, line |-> b, ready |-> c] EXCEPT !.frame = f])
    BY <1>1
  <2> DEFINE d == [frame |-> m.frame, line |-> m.line, ready |-> m.ready]
  <2>2. IsDrawing([d EXCEPT !.frame = f])
    BY <2>1, Zenon
  <2>3. m = d
    BY DEF IsDrawing
  <2> HIDE DEF d
  <2> QED BY <2>2, <2>3
<1>3. ASSUME NEW f, NEW l PROVE IsDrawing([m EXCEPT !.frame = f, !.line = l])
  <2>1. ASSUME NEW a, NEW b, NEW c
        PROVE  IsDrawing([[frame |-> a, line |-> b, ready |-> c] EXCEPT !.frame = f, !.line = l])
    <3>1. [[frame |-> a, line |-> b, ready |-> c] EXCEPT !.frame = f, !.line = l]
            = [frame |-> f, line |-> l, ready |-> c]
      <4> DEFINE x == [frame |-> a, line |-> b, ready |-> c]
                 y == [x EXCEPT !.frame = f]
      <4>1. y = [frame |-> f, line |-> b, ready |-> c]
        OBVIOUS
      <4>2. [x EXCEPT !.frame = f, !.line = l] = [y EXCEPT !.line = l]
        <5> HIDE DEF x
        <5> QED OBVIOUS
      <4>3. [y EXCEPT !.line = l] = [frame |-> f, line |-> l, ready |-> c]
        <5>1. [[frame |-> f, line |-> b, ready |-> c] EXCEPT !.line = l] = [frame |-> f, line |-> l, ready |-> c]
          OBVIOUS
        <5> HIDE DEF y
        <5> QED BY <4>1, <5>1
      <4> QED BY <4>2, <4>3
    <3> QED BY <1>1, <3>1
  <2> DEFINE d == [frame |-> m.frame, line |-> m.line, ready |-> m.ready]
  <2>2. IsDrawing([d EXCEPT !.frame = f, !.line = l])
    BY <2>1, Zenon
  <2>3. m = d
    BY DEF IsDrawing
  <2> HIDE DEF d
  <2> QED BY <2>2, <2>3
<1>4. IsDrawing(FillAtOnce(m, r))
  BY <1>2, Zenon DEF FillAtOnce
<1>5. IsDrawing(FillLine(m, r, k))
  BY <1>1, <1>2, Zenon DEF FillLine
<1>6. IsDrawing(BufferToVideo(m, r, k))
  BY <1>2, <1>3, Zenon DEF BufferToVideo
<1>7. IsDrawing(VideoToVideo(m, r, k))
  BY <1>2, Zenon DEF VideoToVideo
<1>8. CASE r.op = "VideoFill"
  <2>1. Line(m, r, k) = VideoFill(m, r, k)
    BY <1>8 DEF Line
  <2> QED BY <1>4, <1>5, <2>1, Zenon DEF VideoFill
<1>9. CASE r.op = "BufferToVideo"
  BY <1>6, <1>9 DEF Line
<1>10. CASE r.op = "VideoToVideo"
  BY <1>7, <1>10 DEF Line
<1> QED BY <1>8, <1>9, <1>10

LEMMA LibraryPaints ==
  ASSUME FrameShape, ShowsColours, NEW r, Accepted(r), NEW f, Framed(f),
         NEW before, before = [frame |-> f, line |-> NoLine, ready |-> FALSE]
  PROVE  Painted(FoldLeft(LAMBDA m, k : Line(m, r, k - 1), before, [k \in 1..Lines(r) |-> k]).frame,
                 f, r, r.h)
<1> DEFINE n   == Lines(r)
           seq == [k \in 1..n |-> k]
           g   == CHOOSE h : LineFold(h, before, seq, r, n)
           end == FoldLeft(LAMBDA m, k : Line(m, r, k - 1), before, seq)
<1>1. n \in Nat /\ r.op \in {"VideoFill", "BufferToVideo", "VideoToVideo"}
  BY AcceptedFacts DEF Lines
<1> HIDE DEF n
<1>2. DOMAIN seq = 1..n /\ \A k \in 1..n : seq[k] = k
  OBVIOUS
<1> HIDE DEF seq
<1>3. LineFold(g, before, seq, r, n)
  BY <1>1, LineFoldExists
<1>4. end = g[1..n]
  BY <1>2, Zenon DEF FoldLeft, MapThenFoldSet, LineFold
<1> HIDE DEF g
<1>5. LineRun(g, before, seq, r, n)
  BY <1>1, <1>3, LineFoldSteps, Zenon
<1> DEFINE m(k) == g[1..k]
           T == {k \in Nat : k <= n =>
                   IsDrawing(m(k)) /\ InProgress(m(k).frame, f, r, k, m(k).line, m(k).ready)}
<1>6. 0 \in T
  <2>1. m(0) = before /\ IsDrawing(before) /\ before.frame = f /\ before.line = NoLine /\ before.ready = FALSE
    BY <1>5 DEF LineRun, IsDrawing
  <2>2. DOMAIN NoLine = 0..Width * BytesPerPixel - 1
    BY DEF NoLine
  <2>3. InProgress(f, f, r, 0, NoLine, FALSE)
    BY <2>2, Begins
  <2> HIDE DEF m
  <2> QED BY <2>1, <2>3, Zenon
<1>7. ASSUME NEW k \in Nat, k \in T PROVE k + 1 \in T
  <2> SUFFICES ASSUME k + 1 <= n
               PROVE  /\ IsDrawing(m(k + 1))
                      /\ InProgress(m(k + 1).frame, f, r, k + 1, m(k + 1).line, m(k + 1).ready)
    OBVIOUS
  <2>1. k \in 0..n - 1 /\ k + 1 \in 1..n /\ (k + 1) - 1 = k /\ k < Lines(r)
    BY <1>1 DEF n
  <2>2. m(k + 1) = Line(m(k), r, k)
    BY <1>2, <1>5, <2>1 DEF LineRun
  <2>3. IsDrawing(m(k)) /\ InProgress(m(k).frame, f, r, k, m(k).line, m(k).ready)
    <3>1. k <= n
      BY <1>1, <2>1
    <3> HIDE DEF m
    <3> QED BY <1>7, <3>1
  <2> HIDE DEF m
  <2>4. m(k) = [frame |-> m(k).frame, line |-> m(k).line, ready |-> m(k).ready]
    BY <2>3 DEF IsDrawing
  <2>5. IsDrawing(m(k + 1))
    BY <1>1, <2>2, <2>3, LineIsDrawing
  <2>6. InProgress(m(k + 1).frame, f, r, k + 1, m(k + 1).line, m(k + 1).ready)
    <3> DEFINE a == m(k).frame
               b == m(k).line
               c == m(k).ready
               d == m(k + 1)
    <3>1. InProgress(a, f, r, k, b, c)
      BY <2>3
    <3>2. d = Line([frame |-> a, line |-> b, ready |-> c], r, k)
      BY <2>2, <2>4
    <3> HIDE DEF a, b, c, d
    <3>3. InProgress(d.frame, f, r, k + 1, d.line, d.ready)
      BY <2>1, <3>1, <3>2, Proceeds
    <3> QED BY <3>3 DEF d
  <2> QED BY <2>5, <2>6
<1> HIDE DEF T
<1>8. n \in T
  BY <1>1, <1>6, <1>7, SetInduction
<1>9. InProgress(m(n).frame, f, r, n, m(n).line, m(n).ready)
  BY <1>1, <1>8 DEF T
<1>10. Painted(m(n).frame, f, r, r.h)
  <2> HIDE DEF m
  <2>1. \A h, l, b : InProgress(h, f, r, Lines(r), l, b) => Painted(h, f, r, r.h)
    BY Ends
  <2> QED BY <1>9, <2>1, Zenon DEF n
<1> QED BY <1>4, <1>10, Zenon DEF seq, n

-----------------------------------------------------------------------------
(* What is not a pixel of the screen                                         *)

OnlyPixels(f) ==
  \A b \in FrameBytes : b \div Stride >= Height \/ b % Stride >= Width * BytesPerPixel => f[b] = {}

LEMMA Divides ==
  ASSUME NEW s \in Nat \ {0}, NEW b \in Nat
  PROVE  b \div s \in Nat /\ b % s \in 0..s - 1 /\ b = s * (b \div s) + (b % s)
<1>1. b \div s \in Nat
  OBVIOUS
<1>2. b % s \in 0..s - 1
  OBVIOUS
<1>3. b = s * (b \div s) + (b % s)
  OBVIOUS
<1> QED BY <1>1, <1>2, <1>3

LEMMA PlaceOfByte ==
  ASSUME FrameShape, NEW b \in FrameBytes
  PROVE  /\ b \div Stride >= Height => b >= Stride * Height
         /\ b \div Stride < Height =>
              \E x \in Columned, y \in Lined, j \in Parts :
                b = Offset(x, y) + j /\ b % Stride = BytesPerPixel * x + j
<1> DEFINE p == BytesPerPixel
           w == config.pixelsPerScanLine
           s == Stride
           h == Height
           y == b \div s
           e == b % s
           x == e \div p
           j == e % p
<1>1. p \in Nat \ {0} /\ w \in Nat \ {0} /\ h \in Nat \ {0} /\ s = p * w /\ s \in Nat \ {0}
  BY Shape DEF Stride
<1>2. b \in Nat
  BY <1>1 DEF FrameBytes
<1>3. Columned = 0..w - 1 /\ Lined = 0..h - 1 /\ Parts = 0..p - 1
  BY DEF Columned, Lined, Parts
<1>4. \A u, v : Offset(u, v) = p * (v * w + u)
  BY DEF Offset
<1> HIDE DEF p, w, s, h
<1>5. b >= s * h \/ b \div s < h
  BY <1>1, <1>2, LineOfByte
<1>6. y \in Nat /\ e \in 0..s - 1 /\ b = s * y + e
  BY <1>1, <1>2, Divides
<1>7. x \in Nat /\ j \in 0..p - 1 /\ e = p * x + j
  <2>1. e \in Nat
    BY <1>1, <1>6
  <2> HIDE DEF e
  <2> QED BY <1>1, <2>1, Divides
<1>8. x < w
  <2>1. e \in Nat /\ e < p * w
    BY <1>1, <1>6
  <2> QED BY <1>1, <2>1, LineOfByte
<1> HIDE DEF y, e, x, j
<1>9. p * (y * w + x) = s * y + p * x
  BY <1>1, <1>6, <1>7
<1>10. b = p * (y * w + x) + j
  <2>1. s * y \in Nat /\ p * x \in Nat
    BY <1>1, <1>6, <1>7
  <2> QED BY <1>6, <1>7, <1>9, <2>1
<1>11. ASSUME y < h PROVE x \in Columned /\ y \in Lined /\ j \in Parts
  BY <1>1, <1>3, <1>6, <1>7, <1>8, <1>11
<1>12. b = Offset(x, y) + j
  BY <1>4, <1>10
<1> QED BY <1>1, <1>5, <1>6, <1>7, <1>11, <1>12 DEF p, s, h, y, e

LEMMA PaintsPixels ==
  ASSUME FrameShape, NEW r, Accepted(r), NEW f, NEW g, Painted(g, f, r, r.h), OnlyPixels(f)
  PROVE  OnlyPixels(g)
<1> SUFFICES ASSUME NEW b \in FrameBytes, b \div Stride >= Height \/ b % Stride >= Width * BytesPerPixel
             PROVE  g[b] = {}
  BY DEF OnlyPixels
<1>1. f[b] = {}
  BY DEF OnlyPixels
<1>2. CASE b \div Stride >= Height
  BY <1>1, <1>2, PlaceOfByte DEF Painted, SameAfter
<1>3. CASE ~(b \div Stride >= Height)
  <2>1. b \div Stride < Height
    <3>1. Stride \in Nat \ {0} /\ Height \in Nat /\ b \in Nat
      BY Shape DEF FrameBytes
    <3> QED BY <1>3, <3>1
  <2>2. PICK x \in Columned, y \in Lined, j \in Parts :
          b = Offset(x, y) + j /\ b % Stride = BytesPerPixel * x + j
    BY <2>1, PlaceOfByte
  <2>3. ~(x < Width)
    <3> DEFINE p == BytesPerPixel
               w == Width
    <3>1. p \in Nat \ {0} /\ w \in Nat /\ x \in Nat /\ j \in 0..p - 1 /\ w * p <= p * x + j
      BY <1>3, <2>2, Shape DEF Columned, Parts
    <3> HIDE DEF p, w
    <3> SUFFICES ASSUME x + 1 <= w PROVE FALSE
      BY <3>1 DEF w
    <3>2. p * (x + 1) <= p * w
      BY <3>1, TimesMonotone
    <3>3. p * (x + 1) = p * x + p /\ p * w = w * p /\ p * x \in Nat
      BY <3>1
    <3> QED BY <3>1, <3>2, <3>3
  <2>4. x \notin r.x..r.x + r.w - 1
    <3>1. r.x \in Nat /\ r.w \in Nat /\ r.x + r.w <= Width /\ Width \in Nat
      BY AcceptedFacts, Shape
    <3> QED BY <2>3, <3>1
  <2>5. Byte(g, x, y, j) = Byte(f, x, y, j)
    BY <2>4, Zenon DEF Painted
  <2> QED BY <1>1, <2>2, <2>5 DEF Byte
<1> QED BY <1>2, <1>3

-----------------------------------------------------------------------------
(* What is read of the screen                                                *)

LEMMA PixelIsColour ==
  ASSUME NEW f, NEW x, NEW y
  PROVE  PixelOf(f, x, y) \in SUBSET Bits
BY DEF PixelOf, Shifted

LEMMA ReadShows ==
  ASSUME FrameShape, ShowsColours
  PROVE  ReadsTheScreen
<1> SUFFICES ASSUME NEW r \in AskedReads, ~Invalid(r.x, r.y, r.w, r.h),
                    NEW at \in (0..r.w - 1) \X (0..r.h - 1)
             PROVE  VideoToBltBuffer(r)[at] \cap (0..23) = Screen!Seen(r)[at]
  BY DEF ReadsTheScreen
<1> DEFINE p == PixelOf(frameBuffer, r.x + at[1], r.y + at[2])
<1>1. r.x \in Nat /\ r.y \in Nat /\ r.w \in Nat /\ r.h \in Nat
  BY RequestAssumption
<1>2. VideoToBltBuffer(r)[at] = IF config.format = "BGR" THEN p ELSE Loaded(p)
  BY Zenon DEF VideoToBltBuffer, FramePixel
<1>3. Screen!Seen(r)[at] = Loaded(p)
  <2>1. at \in Screen!Rect(0, 0, r.w, r.h)
    <3>1. 0 + r.w - 1 = r.w - 1 /\ 0 + r.h - 1 = r.h - 1
      BY <1>1
    <3> QED BY <3>1, Zenon DEF Screen!Rect
  <2>2. <<r.x + at[1], r.y + at[2]>> \in Frames
    <3>1. Width \in Nat /\ Height \in Nat
      BY Shape
    <3>2. r.x + r.w <= Width /\ r.y + r.h <= Height
      BY <1>1, <3>1 DEF Invalid
    <3>3. at[1] \in 0..r.w - 1 /\ at[2] \in 0..r.h - 1
      OBVIOUS
    <3>4. r.x + at[1] \in 0..Width - 1 /\ r.y + at[2] \in 0..Height - 1
      BY <1>1, <3>1, <3>2, <3>3
    <3> QED BY <3>4 DEF Frames
  <2>3. ShownOf(frameBuffer)[<<r.x + at[1], r.y + at[2]>>] = Loaded(p)
    <3> DEFINE q == <<r.x + at[1], r.y + at[2]>>
    <3>1. q[1] = r.x + at[1] /\ q[2] = r.y + at[2]
      OBVIOUS
    <3> HIDE DEF q
    <3>2. ShownOf(frameBuffer)[q] = Loaded(PixelOf(frameBuffer, q[1], q[2]))
      BY <2>2, Zenon DEF ShownOf, Frames, q
    <3> QED BY <3>1, <3>2, Zenon DEF q
  <2> QED BY <2>1, <2>3, Zenon DEF Screen!Seen
<1>4. p \in SUBSET Bits
  BY PixelIsColour
<1> HIDE DEF p
<1>5. ASSUME NEW b \in Bits, NEW k \in Channels, b + config.shift[k] \in config.masks[k] PROVE b \in 0..23
  <2>1. PICK n \in Nat : \A v \in Int : v + config.shift[k] \in config.masks[k] <=>
                            31 - 8 * k - n < v /\ v <= 31 - 8 * k
    BY Shifts
  <2>2. b \in Int /\ b >= 0 /\ k \in 1..3
    BY DEF Bits, Channels
  <2> QED BY <1>5, <2>1, <2>2
<1>6. ASSUME NEW b PROVE b \in Loaded(p) => b \in 0..23
  BY <1>4, <1>5, LoadedBit
<1>7. CASE config.format = "BGR"
  <2>1. Loaded(p) = p \cap Keeps
    BY <1>4, <1>7, ColourShown
  <2>2. ASSUME NEW b \in 0..23 PROVE b \in Keeps
    <3>1. b \in Bits
      BY DEF Bits
    <3>2. \A k \in Channels : config.shift[k] = 0
      BY <1>7 DEF ShowsColours
    <3>3. config.masks = mBgrPixelMasks
      BY <1>7 DEF ShowsColours
    <3>4. \E k \in Channels : b \in config.masks[k]
      <4>1. 1 \in Channels /\ 2 \in Channels /\ 3 \in Channels
        BY DEF Channels
      <4>2. config.masks[1] = 16..23 /\ config.masks[2] = 8..15 /\ config.masks[3] = 0..7
        BY <3>3 DEF mBgrPixelMasks
      <4>3. b \in 16..23 \/ b \in 8..15 \/ b \in 0..7
        OBVIOUS
      <4> QED BY <4>1, <4>2, <4>3
    <3>5. \A k \in Channels : b + config.shift[k] = b
      BY <3>2
    <3> QED BY <3>1, <3>4, <3>5, KeptBits
  <2>3. ASSUME NEW b PROVE b \in p \cap (0..23) <=> b \in Loaded(p) \cap (0..23)
    BY <2>1, <2>2
  <2>4. ASSUME NEW b PROVE b \in Loaded(p) \cap (0..23) <=> b \in Loaded(p)
    BY <1>6
  <2>5. p \cap (0..23) = Loaded(p)
    BY <2>3, <2>4
  <2> QED BY <1>2, <1>3, <1>7, <2>5
<1>8. CASE config.format # "BGR"
  BY <1>2, <1>3, <1>6, <1>8
<1> QED BY <1>7, <1>8

-----------------------------------------------------------------------------
(* The library alone                                                         *)

(* The screen can show the colours of every frame buffer, and what clients   *)
(* ask of it is drawn as asked.                                              *)
Served ==
  \A i \in Infos : Supported(i) =>
    Shows(Configured(i)) /\ \A r \in Asked(Configured(i)) : Does(Configured(i), r)

Client ==
  /\ asked # Nothing => IsRequest(asked) /\ Does(config, asked)
  /\ Framed(frameBuffer) /\ OnlyPixels(frameBuffer)

BltInv ==
  /\ FrameShape /\ ShowsColours
  /\ \E i \in Infos : Supported(i) /\ config = Configured(i)
  /\ user = "client" => Client
  /\ user = "driver" => \A b \in FrameBytes : b >= FrameBufferSize => seen[b] = {}

LEMMA BltInvInit ==
  ASSUME Served, DisplayInit
  PROVE  BltInv
<1>1. PICK i \in Infos : Supported(i) /\ config = Configured(i)
  BY DEF DisplayInit, BltInit
<1>2. FrameShape /\ ShowsColours
  BY <1>1, SupportedFrame DEF Served
<1>3. /\ asked = Nothing /\ seen = frameBuffer
      /\ frameBuffer = [b \in FrameBytes |->
           IF b < Stride * Height /\ b % Stride < Width * BytesPerPixel THEN Left ELSE {}]
  BY DEF DisplayInit, BltInit
<1>4. Framed(frameBuffer)
  BY <1>3 DEF Framed
<1>5. OnlyPixels(frameBuffer)
  <2> SUFFICES ASSUME NEW b \in FrameBytes, b \div Stride >= Height \/ b % Stride >= Width * BytesPerPixel
               PROVE  frameBuffer[b] = {}
    BY DEF OnlyPixels
  <2>1. Stride \in Nat \ {0} /\ b \in Nat /\ Width * BytesPerPixel \in Nat /\ Stride * Height \in Nat
    BY <1>2, Shape DEF FrameBytes
  <2>2. b % Stride \in Nat
    BY <2>1, Divides
  <2>3. ~(b < Stride * Height) \/ ~(b % Stride < Width * BytesPerPixel)
    BY <1>2, <2>1, <2>2, PlaceOfByte
  <2> QED BY <1>3, <2>3
<1>6. ASSUME user = "driver", NEW b \in FrameBytes, b >= FrameBufferSize PROVE seen[b] = {}
  <2>1. FrameOK
    BY <1>6, FlushInit, InvFacts
  <2>2. ~(b < Stride * Height)
    BY <1>6, <2>1, FrameNumbers
  <2> QED BY <1>3, <2>2
<1> QED BY <1>1, <1>2, <1>3, <1>4, <1>5, <1>6 DEF BltInv, Client

(* What a Blt promises, of the whole screen.                                 *)
LEMMA ScreenAnswers ==
  ASSUME NEW r, r.op \in {"VideoFill", "BufferToVideo", "VideoToVideo"}
  PROVE  Screen!Answer(r) = Redrawn(ShownOf(frameBuffer), r)
<1>1. CASE r.op = "VideoFill"
  BY <1>1, Zenon DEF Screen!Answer, Screen!Drawn, Screen!Rect, Area, Redrawn
<1>2. CASE r.op = "BufferToVideo"
  BY <1>2, Zenon DEF Screen!Answer, Screen!Drawn, Screen!Rect, Screen!BufferPixel, Area, Redrawn
<1>3. CASE r.op = "VideoToVideo"
  BY <1>3, Zenon DEF Screen!Answer, Screen!Drawn, Screen!Rect, Area, Redrawn
<1> QED BY <1>1, <1>2, <1>3

LEMMA ScreenGoodIs ==
  ASSUME FrameShape, NEW r, IsRequest(r)
  PROVE  Screen!Good(r) <=> ~Refused(r)
<1>1. DOMAIN ShownOf(frameBuffer) = Frames
  BY Zenon DEF ShownOf, Frames
<1>2. r.x \in Nat /\ r.y \in Nat /\ r.w \in Nat /\ r.h \in Nat
      /\ (r.op = "VideoToVideo" => r.sx \in Nat /\ r.sy \in Nat)
  BY DEF IsRequest
<1>3. Screen!OnScreen(Screen!Rect(r.x, r.y, r.w, r.h)) <=> ~Invalid(r.x, r.y, r.w, r.h)
  <2>1. Area(r.x, r.y, r.w, r.h) # {} /\ Area(r.x, r.y, r.w, r.h) \subseteq Frames
          <=> ~Invalid(r.x, r.y, r.w, r.h)
    BY <1>2, OnScreenIs
  <2> QED BY <1>1, <2>1, Zenon DEF Screen!OnScreen, Screen!Rect, Area
<1>4. r.op = "VideoToVideo" =>
        (Screen!OnScreen(Screen!Rect(r.sx, r.sy, r.w, r.h)) <=> ~Invalid(r.sx, r.sy, r.w, r.h))
  <2>1. r.op = "VideoToVideo" =>
          (Area(r.sx, r.sy, r.w, r.h) # {} /\ Area(r.sx, r.sy, r.w, r.h) \subseteq Frames
             <=> ~Invalid(r.sx, r.sy, r.w, r.h))
    BY <1>2, OnScreenIs
  <2> QED BY <1>1, <2>1, Zenon DEF Screen!OnScreen, Screen!Rect, Area
<1> QED BY <1>3, <1>4, Zenon DEF Screen!Good, Refused

(* A client asks, or its request is served.                                  *)
LEMMA ClientAsks ==
  ASSUME Served, BltInv, user = "client", NEW r \in Asked(config), Ask(r)
  PROVE  Client' /\ Screen!ScreenNext
<1>1. PICK i \in Infos : Supported(i) /\ config = Configured(i)
  BY DEF BltInv
<1>2. IsRequest(r) /\ Does(config, r) /\ r \in UNION {Asked(Configured(j)) : j \in Infos}
  BY <1>1, RequestAssumption DEF Served
<1>3. asked = Nothing /\ asked' = r /\ UNCHANGED <<config, frameBuffer, refused>>
  BY DEF Ask
<1>4. Client'
  <2>1. IsRequest(asked)' /\ Does(config, asked)'
    BY <1>2, <1>3, Zenon DEF IsRequest, Does
  <2>2. Framed(frameBuffer)' /\ OnlyPixels(frameBuffer)'
    <3>1. /\ FrameBytes' = FrameBytes /\ Stride' = Stride /\ Width' = Width /\ Height' = Height
          /\ BytesPerPixel' = BytesPerPixel
      BY <1>3, SameShape
    <3>2. Framed(frameBuffer) /\ OnlyPixels(frameBuffer)
      BY DEF BltInv, Client
    <3> QED BY <1>3, <3>1, <3>2, Zenon DEF Framed, OnlyPixels
  <2> QED BY <2>1, <2>2 DEF Client
<1>5. Screen!Ask(1, r)
  <2>1. <<asked>>[1] = Nothing /\ <<asked>>' = [<<asked>> EXCEPT ![1] = r]
    BY <1>3
  <2>2. Keeps' = Keeps
    BY <1>3, SameShape
  <2>3. ShownOf(frameBuffer)' = ShownOf(frameBuffer)
    <3>1. \A f : ShownOf(f)' = ShownOf(f)
      BY <1>3, SameFrame
    <3> QED BY <1>3, <3>1, Zenon DEF ShownOf
  <2> QED BY <1>3, <2>1, <2>2, <2>3, Zenon DEF Screen!Ask
<1>6. 1 \in {1}
  OBVIOUS
<1> QED BY <1>2, <1>4, <1>5, <1>6, Zenon DEF Screen!ScreenNext

LEMMA ClientServes ==
  ASSUME BltInv, user = "client", Serve
  PROVE  Client' /\ Screen!ScreenNext
<1> DEFINE before == [frame |-> frameBuffer, line |-> NoLine, ready |-> FALSE]
           end == FoldLeft(LAMBDA m, k : Line(m, asked, k - 1), before, [k \in 1..Lines(asked) |-> k])
<1>1. /\ asked # Nothing /\ asked' = Nothing /\ refused' = Refused(asked) /\ UNCHANGED config
      /\ frameBuffer' = IF Refused(asked) THEN frameBuffer ELSE end.frame
  BY Zenon DEF Serve
<1>2. /\ FrameShape /\ ShowsColours /\ IsRequest(asked) /\ Does(config, asked)
      /\ Framed(frameBuffer) /\ OnlyPixels(frameBuffer)
  BY <1>1 DEF BltInv, Client
<1>3. ~Refused(asked) => Accepted(asked)
  BY <1>2 DEF Accepted
<1>4. ASSUME ~Refused(asked) PROVE Painted(end.frame, frameBuffer, asked, asked.h)
  BY <1>2, <1>3, <1>4, LibraryPaints
<1> HIDE DEF end
<1>5. PICK new : new = frameBuffer' /\ (Refused(asked) => new = frameBuffer)
                 /\ (~Refused(asked) => Painted(new, frameBuffer, asked, asked.h))
  BY <1>1, <1>4
<1>6. Framed(new) /\ OnlyPixels(new)
  <2>1. CASE Refused(asked)
    BY <1>2, <1>5, <2>1
  <2>2. CASE ~Refused(asked)
    <3>1. Framed(new)
      BY <1>5, <2>2 DEF Painted
    <3> QED BY <1>2, <1>3, <1>5, <2>2, <3>1, PaintsPixels
  <2> QED BY <2>1, <2>2
<1>7. Client'
  <2>1. /\ FrameBytes' = FrameBytes /\ Stride' = Stride /\ Width' = Width /\ Height' = Height
        /\ BytesPerPixel' = BytesPerPixel
    BY <1>1, SameShape
  <2>2. Framed(frameBuffer)' /\ OnlyPixels(frameBuffer)'
    BY <1>5, <1>6, <2>1, Zenon DEF Framed, OnlyPixels
  <2> QED BY <1>1, <2>2 DEF Client
<1>8. ShownOf(frameBuffer)' = ShownOf(new)
  <2>1. \A f : ShownOf(f)' = ShownOf(f)
    BY <1>1, SameFrame
  <2> QED BY <1>5, <2>1, Zenon DEF ShownOf
<1>9. Screen!Good(asked) <=> ~Refused(asked)
  BY <1>2, ScreenGoodIs
<1>10. <<asked>>[1] = asked /\ <<asked>>' = [<<asked>> EXCEPT ![1] = Nothing]
  BY <1>1
<1>11. Keeps' = Keeps
  BY <1>1, SameShape
<1>12. CASE Refused(asked)
  <2>1. ShownOf(frameBuffer)' = ShownOf(frameBuffer)
    BY <1>5, <1>8, <1>12
  <2>2. Refused(asked) = TRUE
    BY <1>12 DEF Refused
  <2>3. Screen!Serve(1)
    BY <1>1, <1>9, <1>10, <1>11, <1>12, <2>1, <2>2, Zenon DEF Screen!Serve
  <2> QED BY <1>7, <2>3, Zenon DEF Screen!ScreenNext
<1>13. CASE ~Refused(asked)
  <2>1. ShownOf(new) = Redrawn(ShownOf(frameBuffer), asked)
    BY <1>2, <1>3, <1>5, <1>13, ShownAfter
  <2>2. Screen!Answer(asked) = Redrawn(ShownOf(frameBuffer), asked)
    BY <1>2, ScreenAnswers DEF IsRequest
  <2>3. Refused(asked) = FALSE
    BY <1>13 DEF Refused
  <2>4. ShownOf(frameBuffer)' = Screen!Answer(asked)
    BY <1>8, <2>1, <2>2, Zenon
  <2>5. Screen!Serve(1)
    BY <1>1, <1>9, <1>10, <1>11, <1>13, <2>3, <2>4, Zenon DEF Screen!Serve
  <2> QED BY <1>7, <2>5, Zenon DEF Screen!ScreenNext
<1> QED BY <1>12, <1>13

(* Whoever calls it, nothing behind the screen changes.                      *)
LEMMA BehindStays ==
  ASSUME FlushInv, BltInv, user = "driver", DriverNext
  PROVE  /\ UNCHANGED config
         /\ \A b \in FrameBytes : b >= FrameBufferSize => seen'[b] = {}
<1>1. UNCHANGED config
  BY DEF DriverNext, FailToInitialize, Initialize, Blt, RaiseTPL, DrawLine, RestoreTPL, Flush, Evict, bltVars
<1>2. \A b \in FrameBytes : b >= FrameBufferSize => seen[b] = {}
  BY DEF BltInv
<1>3. FrameBufferSize \in Nat /\ FrameBytes \subseteq Nat
  BY InvFacts, FrameNumbers
<1>4. CASE seen' = seen
  BY <1>1, <1>2, <1>4
<1>5. CASE Initialize
  BY <1>1, <1>2, <1>3, <1>5 DEF Initialize
<1>6. ASSUME NEW line \in Nat, seen' = WrittenBack(line)
      PROVE  \A b \in FrameBytes : b >= FrameBufferSize => seen'[b] = {}
  BY <1>2, <1>6, InvFacts, WrittenBackSees
<1>7. ASSUME NEW l \in Tpl, Flush(l) PROVE call[l].line \in Nat /\ seen' = WrittenBack(call[l].line)
  BY <1>7, InvFacts DEF Flush, IsCall
<1>8. ASSUME NEW line \in 0..Height - 1, Evict(line) PROVE line \in Nat /\ seen' = WrittenBack(line)
  BY <1>8, InvFacts DEF Evict, FrameOK
<1>9. \/ seen' = seen \/ Initialize
      \/ \E l \in Tpl : Flush(l)
      \/ \E line \in 0..Height - 1 : Evict(line)
  BY DEF DriverNext, FailToInitialize, Blt, RaiseTPL, DrawLine, RestoreTPL
<1> QED BY <1>1, <1>4, <1>5, <1>6, <1>7, <1>8, <1>9

ClientStep == [user = "client" => Screen!ScreenNext]_(Screen!screenVars)

LEMMA LibrarySteps ==
  ASSUME Served, FlushInv, DrawInv, BltInv, [DisplayNext]_displayVars
  PROVE  BltInv' /\ ClientStep
<1>1. UNCHANGED <<user, config>>
  <2>1. CASE UNCHANGED displayVars
    BY <2>1 DEF displayVars, bltVars
  <2>2. CASE DisplayNext
    <3>1. CASE BltNext
      BY <2>2, <3>1 DEF DisplayNext, BltNext, Serve, Ask
    <3>2. CASE user = "driver" /\ DriverNext
      BY <2>2, <3>2, BehindStays DEF DisplayNext
    <3> QED BY <2>2, <3>1, <3>2 DEF DisplayNext
  <2> QED BY <2>1, <2>2
<1>2. /\ FrameShape' /\ ShowsColours'
      /\ (\E i \in Infos : Supported(i) /\ config = Configured(i))'
      /\ FrameBytes' = FrameBytes /\ FrameBufferSize' = FrameBufferSize
  <2>1. FrameShape' /\ ShowsColours' /\ FrameBytes' = FrameBytes
    BY <1>1, SameShape DEF BltInv
  <2>2. FrameBufferSize' = FrameBufferSize
    BY <1>1, FrameStays
  <2>3. (\E i \in Infos : Supported(i) /\ config = Configured(i))'
    BY <1>1 DEF BltInv
  <2> QED BY <2>1, <2>2, <2>3
<1>3. CASE UNCHANGED displayVars
  <2>1. UNCHANGED <<asked, frameBuffer, refused, seen>>
    BY <1>3 DEF displayVars, bltVars, driverVars
  <2>2. UNCHANGED Screen!screenVars
    <3>1. \A f : ShownOf(f)' = ShownOf(f)
      BY <1>1, SameFrame
    <3>2. ShownOf(frameBuffer)' = ShownOf(frameBuffer)
      BY <2>1, <3>1, Zenon DEF ShownOf
    <3>3. Keeps' = Keeps
      BY <1>1, SameShape
    <3> QED BY <2>1, <3>2, <3>3, Zenon DEF Screen!screenVars
  <2>3. Client => Client'
    <3>1. /\ FrameBytes' = FrameBytes /\ Stride' = Stride /\ Width' = Width /\ Height' = Height
          /\ BytesPerPixel' = BytesPerPixel
      BY <1>1, SameShape
    <3>2. Framed(frameBuffer) /\ OnlyPixels(frameBuffer) => Framed(frameBuffer)' /\ OnlyPixels(frameBuffer)'
      BY <2>1, <3>1, Zenon DEF Framed, OnlyPixels
    <3>3. IsRequest(asked) /\ Does(config, asked) => IsRequest(asked)' /\ Does(config, asked)'
      BY <1>1, <2>1, Zenon DEF IsRequest, Does
    <3> QED BY <2>1, <3>2, <3>3 DEF Client
  <2>4. user = "driver" => \A b \in FrameBytes : b >= FrameBufferSize => seen'[b] = {}
    BY <2>1 DEF BltInv
  <2> QED BY <1>1, <1>2, <2>2, <2>3, <2>4 DEF BltInv, ClientStep
<1>4. CASE user = "client" /\ DisplayNext
  <2>1. BltNext
    BY <1>4 DEF DisplayNext
  <2>2. Client' /\ Screen!ScreenNext
    BY <1>4, <2>1, ClientAsks, ClientServes DEF BltNext
  <2> QED BY <1>1, <1>2, <1>4, <2>2 DEF BltInv, ClientStep
<1>5. CASE user = "driver" /\ DisplayNext
  <2>1. \A b \in FrameBytes : b >= FrameBufferSize => seen'[b] = {}
    BY <1>5, BehindStays DEF DisplayNext
  <2> QED BY <1>1, <1>2, <1>5, <2>1 DEF BltInv, ClientStep
<1> QED BY <1>3, <1>4, <1>5 DEF DrawInv

LEMMA LibraryHolds ==
  ASSUME FlushInv, DrawInv, BltInv
  PROVE  ReadsTheScreen /\ OnlyPixelsAreWritten
<1>1. ReadsTheScreen
  BY ReadShows DEF BltInv
<1>2. CASE user = "client"
  BY <1>1, <1>2 DEF BltInv, Client, OnlyPixels, OnlyPixelsAreWritten
<1>3. CASE user = "driver"
  <2> SUFFICES ASSUME NEW b \in FrameBytes, b \div Stride >= Height \/ b % Stride >= Width * BytesPerPixel
               PROVE  frameBuffer[b] = {}
    BY <1>1 DEF OnlyPixelsAreWritten
  <2>1. FrameOK /\ FrameShape
    BY <1>3, InvFacts DEF BltInv
  <2>2. Stride = Width * BytesPerPixel /\ Stride \in Nat \ {0} /\ b \in Nat
    BY <2>1, Shape DEF Stride, FrameOK, FrameBytes
  <2>3. ~(b % Stride >= Width * BytesPerPixel)
    BY <2>2, Divides
  <2>4. b >= FrameBufferSize
    BY <2>1, <2>3, PlaceOfByte, FrameNumbers
  <2> QED BY <1>3, <2>4, InvFacts DEF BltInv
<1> QED BY <1>2, <1>3 DEF DrawInv

(* For any frame buffers that can show the colours and any requests that the *)
(* library draws as asked: called without the driver it does each as a       *)
(* screen promises, what is read back is what the screen shows, and neither  *)
(* it nor the driver writes anything but pixels (FrameBufferBltLib).         *)
THEOREM LibraryBlts ==
  ASSUME Served, Driven
  PROVE  DisplaySpec => LibraryDoesTheBlt
<1>1. DisplayInit => FlushInv /\ DrawInv /\ BltInv
  BY FlushInit, DrawInit, BltInvInit
<1>2. FlushInv /\ DrawInv /\ BltInv /\ [DisplayNext]_displayVars =>
        FlushInv' /\ DrawInv' /\ BltInv' /\ ClientStep
  BY AtomicSteps, LibrarySteps
<1>3. FlushInv /\ DrawInv /\ BltInv => ReadsTheScreen /\ OnlyPixelsAreWritten
  BY LibraryHolds
<1>4. DisplayInit => Screen!ScreenInit
  <2>1. DisplayInit => asked = Nothing /\ refused = FALSE
    BY DEF DisplayInit, BltInit
  <2>2. asked = Nothing => <<asked>> = [c \in {1} |-> Nothing]
    OBVIOUS
  <2> QED BY <2>1, <2>2, Zenon DEF Screen!ScreenInit
<1> QED BY <1>1, <1>2, <1>3, <1>4, PTL DEF DisplaySpec, LibraryDoesTheBlt, ClientStep
================================================================================
