------------------------------ MODULE Pinouts ------------------------------
(***************************************************************************)
(* The packages of the 6500 family, twice: the order of the nodes on the   *)
(* pins, from the tables of src/src/mos65xx.cc, and the pin numbers that   *)
(* the public header (src/include/mos65xx.h) gives to the signals.         *)
(*                                                                         *)
(* A signal is a pair: <<"AB", 5>> is AB5, <<"RES", 0>> is RES.            *)
(***************************************************************************)
EXTENDS Integers, Sequences

Pin(name)          == <<name, 0>>
One(name)          == <<Pin(name)>>
Up(name, lo, hi)   == [k \in 1 .. hi - lo + 1 |-> <<name, lo + k - 1>>]
Down(name, hi, lo) == [k \in 1 .. hi - lo + 1 |-> <<name, hi - k + 1>>]

Models == {"6502", "6503", "6504", "6505", "6510", "6510_1", "6510_2"}
With_IO == {"6510", "6510_1", "6510_2"}

-----------------------------------------------------------------------------
(* The tables pinout_65xx; "none" stands for the id 0. *)

Pinout6502 ==
  One("Vss") \o One("RDY") \o One("CLK1OUT") \o One("IRQ") \o One("none") \o One("NMI")
  \o One("SYNC") \o One("Vcc") \o Up("AB", 0, 11) \o One("Vss") \o Up("AB", 12, 15)
  \o Down("DB", 7, 0) \o One("RW") \o One("none") \o One("none") \o One("CLK0IN")
  \o One("SO") \o One("CLK2OUT") \o One("RES")

Last28 == Down("DB", 7, 0) \o One("RW") \o One("CLK0IN") \o One("CLK2OUT")

Pinout6503 ==
  One("RES") \o One("Vss") \o One("IRQ") \o One("NMI") \o One("Vcc") \o Up("AB", 0, 11) \o Last28

Pinout6504 ==
  One("RES") \o One("Vss") \o One("IRQ") \o One("Vcc") \o Up("AB", 0, 12) \o Last28

Pinout6505 ==
  One("RES") \o One("Vss") \o One("RDY") \o One("IRQ") \o One("Vcc") \o Up("AB", 0, 11) \o Last28

Pinout6510 ==
  One("CLK1IN") \o One("RDY") \o One("IRQ") \o One("NMI") \o One("AEC") \o One("Vcc")
  \o Up("AB", 0, 13) \o One("Vss") \o Up("AB", 14, 15) \o Down("P", 5, 0)
  \o Down("DB", 7, 0) \o One("RW") \o One("CLK2OUT") \o One("RES")

(* 6510-1 and 6510-2 differ in two pins. *)
Pinout6510x(second, last) ==
  One("RES") \o One(second) \o One("IRQ") \o One("AEC") \o One("Vcc")
  \o Up("AB", 0, 13) \o One("Vss") \o Up("AB", 14, 15) \o Down("P", 7, 0)
  \o Down("DB", 7, 0) \o One("RW") \o One(last)

Pinout(model) ==
  CASE model = "6502" -> Pinout6502 [] model = "6503" -> Pinout6503
    [] model = "6504" -> Pinout6504 [] model = "6505" -> Pinout6505
    [] model = "6510" -> Pinout6510
    [] model = "6510_1" -> Pinout6510x("CLK1IN", "CLK2IN")
    [] model = "6510_2" -> Pinout6510x("CLK1OUT", "CLK2OUT")

(* address_bus_width() *)
AddressBusWidth(model) ==
  CASE model \in {"6503", "6505"} -> 11 [] model = "6504" -> 12 [] OTHER -> 16

-----------------------------------------------------------------------------
(* enum pin of each class, as pairs of a signal and its pin number.  The   *)
(* two Vss pins of the 6502 are left out.                                  *)

At(name, pin)              == {<<Pin(name), pin>>}
Rising(name, lo, hi, pin)  == {<<<<name, i>>, pin + (i - lo)>> : i \in lo .. hi}
Falling(name, hi, lo, pin) == {<<<<name, i>>, pin + (hi - i)>> : i \in lo .. hi}

Enum6502 ==
  At("RDY", 2) \cup At("CLK1OUT", 3) \cup At("IRQ", 4) \cup At("NMI", 6) \cup At("SYNC", 7)
  \cup At("Vcc", 8) \cup Rising("AB", 0, 11, 9) \cup Rising("AB", 12, 15, 22)
  \cup Falling("DB", 7, 0, 26) \cup At("RW", 34) \cup At("CLK0IN", 37) \cup At("SO", 38)
  \cup At("CLK2OUT", 39) \cup At("RES", 40)

Last28Enum == Falling("DB", 7, 0, 18) \cup At("RW", 26) \cup At("CLK0IN", 27) \cup At("CLK2OUT", 28)

Enum6503 ==
  At("RES", 1) \cup At("Vss", 2) \cup At("IRQ", 3) \cup At("NMI", 4) \cup At("Vcc", 5)
  \cup Rising("AB", 0, 11, 6) \cup Last28Enum

Enum6504 ==
  At("RES", 1) \cup At("Vss", 2) \cup At("IRQ", 3) \cup At("Vcc", 4)
  \cup Rising("AB", 0, 12, 5) \cup Last28Enum

Enum6505 ==
  At("RES", 1) \cup At("Vss", 2) \cup At("RDY", 3) \cup At("IRQ", 4) \cup At("Vcc", 5)
  \cup Rising("AB", 0, 11, 6) \cup Last28Enum

Enum6510 ==
  At("CLK1IN", 1) \cup At("RDY", 2) \cup At("IRQ", 3) \cup At("NMI", 4) \cup At("AEC", 5)
  \cup At("Vcc", 6) \cup Rising("AB", 0, 13, 7) \cup At("Vss", 21) \cup Rising("AB", 14, 15, 22)
  \cup Falling("P", 5, 0, 24) \cup Falling("DB", 7, 0, 30) \cup At("RW", 38)
  \cup At("CLK2OUT", 39) \cup At("RES", 40)

(* As the header has it: AEC on pin 5, AB13 with AB12 on 19, DB1 with DB0 on 38. *)
Enum6510x(second, last) ==
  At("RES", 1) \cup At(second, 2) \cup At("IRQ", 3) \cup At("AEC", 5) \cup At("Vcc", 6)
  \cup Rising("AB", 0, 12, 7) \cup Rising("AB", 13, 13, 19) \cup At("Vss", 20) \cup Rising("AB", 14, 15, 21)
  \cup Falling("P", 7, 1, 23) \cup Falling("P", 0, 0, 31) \cup Falling("DB", 7, 1, 32)
  \cup Falling("DB", 0, 0, 38) \cup At("RW", 39) \cup At(last, 40)

Numbering(model) ==
  CASE model = "6502" -> Enum6502 [] model = "6503" -> Enum6503
    [] model = "6504" -> Enum6504 [] model = "6505" -> Enum6505
    [] model = "6510" -> Enum6510
    [] model = "6510_1" -> Enum6510x("CLK1IN", "CLK2IN")
    [] model = "6510_2" -> Enum6510x("CLK2IN", "CLK2OUT")

(* The pin number of every signal of the enum. *)
EnumPin(model) ==
  [s \in {e[1] : e \in Numbering(model)} |->
     CHOOSE pin \in 1 .. 40 : <<s, pin>> \in Numbering(model)]
=============================================================================
