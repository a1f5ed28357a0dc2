------------------------------ MODULE MCNmos ------------------------------
(***************************************************************************)
(* Small chips for TLC.  Node 1 is power and node 2 is ground everywhere.  *)
(***************************************************************************)
EXTENDS NmosProperties

T(g, a, b) == [gate |-> g, c1 |-> a, c2 |-> b]

Desc(n, ups, ts) ==
  [count |-> n, power |-> 1, ground |-> 2, pullups |-> ups, tdefs |-> ts]

(* Circuits the 6502 is made of. *)
Inverter == Desc(4, {4}, <<T(3, 2, 4)>>)
Nand     == Desc(6, {5}, <<T(3, 5, 6), T(4, 2, 6)>>)
Latch    == Desc(6, {5, 6}, <<T(3, 5, 2), T(6, 2, 5), T(4, 6, 2), T(5, 6, 2)>>)
Dynamic  == Desc(7, {6}, <<T(3, 4, 5), T(5, 6, 2), T(5, 7, 1)>>)
FanOut   == Desc(6, {4}, <<T(3, 4, 2), T(3, 5, 2), T(3, 6, 5)>>)
Doubled  == Desc(5, {4}, <<T(3, 4, 2), T(3, 2, 4), T(4, 5, 1), T(3, 5, 5)>>)
Bus      == Desc(7, {6}, <<T(3, 5, 6), T(4, 6, 7), T(3, 7, 2)>>)

CircuitChips ==
  {Construct(d) : d \in {Inverter, Nand, Latch, Dynamic, FanOut, Doubled, Bus}}
CircuitPins == {3, 4}

(* Every chip of three signal nodes and at most two transistors none of    *)
(* whose gates can be joined to its own legs.                              *)
SmallTransistors ==
  {T(g, a, b) : g \in 3 .. 5, a \in 3 .. 5, b \in 1 .. 5}

SmallDescs ==
  {Desc(5, ups, ts) : ups \in {{}, {4}, {3, 5}},
                      ts \in {<<t>> : t \in SmallTransistors}
                        \cup {<<t, u>> : t \in SmallTransistors, u \in SmallTransistors}}

(* Chips that are not like that, and a ring of three inverters: an inverter *)
(* that feeds itself and the ring never settle, Misled is one the skip of   *)
(* line 498 misleads, and Feedback has a pass transistor between a gate and *)
(* its own leg, as at nodes 1109 and 625 of the 6502.                       *)
Self     == Desc(4, {4}, <<T(4, 4, 2)>>)
Ring     == Desc(5, {3, 4, 5}, <<T(3, 4, 2), T(4, 5, 2), T(5, 3, 2)>>)
Misled   == Desc(6, {4, 6}, <<T(6, 5, 3), T(4, 5, 6)>>)
Feedback == Desc(6, {4, 6}, <<T(4, 2, 5), T(3, 4, 5), T(5, 6, 2)>>)

(* This one has a settled state (4 and 5 high, 3 low) but queues two nodes  *)
(* again and again that the next group takes in, until the ring is full.    *)
Overfull == Desc(5, {3, 5}, <<T(4, 4, 5), T(4, 3, 2), T(3, 3, 4)>>)

SelfGatedChips == {Construct(d) : d \in {Self, Ring, Misled, Feedback, Overfull}}
MisledChips    == {Construct(Misled)}
OverfullChips  == {Construct(Overfull)}
SelfGatedPins  == {3}

SmallChips == {c \in {Construct(d) : d \in SmallDescs} : Separated(c)} \cup SelfGatedChips
SmallPins  == {3, 4}

(* All of them are descriptions like mos6502.inc. *)
ASSUME DescsAssumption ==
  \A d \in {Inverter, Nand, Latch, Dynamic, FanOut, Doubled, Bus, Self, Ring, Misled, Feedback,
              Overfull} \cup SmallDescs : WellFormed(d)
=============================================================================
