----------------------------- MODULE MCMos65xx -----------------------------
(***************************************************************************)
(* All pins, a few bytes that tell the bits apart, and addresses at the    *)
(* ends of the buses, for TLC.                                             *)
(***************************************************************************)
EXTENDS Mos65xx

SomeAddresses == {0, 1, 2 ^ 11 + 5, 2 ^ 15 + 2 ^ 12}

(* Every register differs from the others, and every bit of each is seen   *)
(* high and low.                                                           *)
SomeContents ==
  {[A |-> 131, X |-> 66, Y |-> 37, S |-> 253, P |-> 185, IR |-> 169, PC |-> 65490],
   [A |-> 124, X |-> 189, Y |-> 218, S |-> 2, P |-> 102, IR |-> 86, PC |-> 45]}

SomeBytes == {0, 1, 128 + 2, 255}

(* The signals that the header does not number as the table has them.  On  *)
(* the 6510-1 and the 6510-2 it has each of them one pin too high, but for *)
(* pin 2 of the latter, which is CLK1OUT in the table.                     *)
Differ(m) == {n \in Numbering(m) : Pinout(m)[n[2]] # n[1]}
OneTooHigh ==
  {Pin("AEC"), Pin("Vcc"), <<"P", 0>>}
    \cup {<<"AB", i>> : i \in 0 .. 12} \cup {<<"DB", i>> : i \in 1 .. 7}

ASSUME HeaderAssumption ==
  /\ \A m \in Models \ {"6510_1", "6510_2"} : Differ(m) = {}
  /\ {n[1] : n \in Differ("6510_1")} = OneTooHigh
  /\ Differ("6510_2") = Differ("6510_1") \cup At("CLK2IN", 2)
  /\ \A n \in Differ("6510_1") : Pinout("6510_1")[n[2] - 1] = n[1]
=============================================================================
