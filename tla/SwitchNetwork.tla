---------------------------- MODULE SwitchNetwork ----------------------------
(***************************************************************************)
(* What class nmos promises its host: a network of switches in which only  *)
(* a calculation changes levels, which gives all the nodes of a group that *)
(* are joined at the time one level that their sources allow, and which    *)
(* returns when no group is left that would take another, unless some      *)
(* calculation has given up.  There are no queues, marks or walks here,    *)
(* and the transistors follow their gates.                                 *)
(***************************************************************************)
EXTENDS NmosNetlist

CONSTANTS
  Chips,       \* the chips
  Pins         \* the nodes the host may drive

VARIABLES
  chip,        \* the chip that is simulated
  pullup,      \* the nodes that are pulled up
  pulldown,    \* the nodes that are pulled down
  level,       \* whether a node is high
  calculating, \* a call that calculates levels is under way
  stabilized,  \* all levels have been calculated, or are in this call
  gaveUp       \* some calculation has forgotten what was left of it

nvars == <<chip, pullup, pulldown, level, calculating, stabilized, gaveUp>>

Node     == 1 .. chip.count
Supplies == {chip.power, chip.ground}
Signals  == Node \ Supplies

Legs(t) == {chip.c1[t], chip.c2[t]}

(* The nodes joined to n by the transistors that are on in o, the least    *)
(* set that holds n and is closed under them.  A supply joins nothing.     *)
Component(o, n) ==
  LET closed(S) == \A t \in chip.trans :
                     o[t] /\ Legs(t) \subseteq Signals =>
                       (Legs(t) \cap S = {} \/ Legs(t) \subseteq S)
  IN {m \in Signals : \A S \in SUBSET Signals : n \in S /\ closed(S) => m \in S}

Touches(o, G, s) == \E t \in chip.trans : o[t] /\ s \in Legs(t) /\ Legs(t) \cap G # {}

(* The levels the nodes in G may take from the levels h.  The stronger     *)
(* source wins: ground, power, a pull-down, a pull-up, and then charge.    *)
(* Charge that the walk meets before a pull-down beats it, so there both   *)
(* levels are possible.                                                    *)
AllowedLevels(o, h, G) ==
  LET charged == \E m \in G : h[m] /\ ~pullup[m] /\ ~pulldown[m]
  IN IF Touches(o, G, chip.ground) THEN {FALSE}
     ELSE IF Touches(o, G, chip.power) THEN {TRUE}
     ELSE IF \E m \in G : pulldown[m] THEN IF charged THEN BOOLEAN ELSE {FALSE}
     ELSE {\E m \in G : pullup[m] \/ h[m]}

(* All the nodes of n's component are at one level that they may take. *)
Settled(o, h, n) ==
  LET G == Component(o, n) IN
  \E l \in AllowedLevels(o, h, G) : \A m \in G : h[m] = l

-----------------------------------------------------------------------------
On == [t \in chip.trans |-> level[chip.gate[t]]]

NInit ==
  /\ chip \in Chips
  /\ pullup   = [n \in Node |-> n \in chip.pullups]
  /\ pulldown = [n \in Node |-> FALSE]
  /\ level    = [n \in Node |-> n = chip.power]
  /\ calculating = FALSE /\ stabilized = FALSE /\ gaveUp = FALSE

Drive(id, value) ==
  /\ ~calculating
  /\ pullup'   = [pullup EXCEPT ![id] = value]
  /\ pulldown' = [pulldown EXCEPT ![id] = ~value]
  /\ UNCHANGED <<chip, level, calculating, stabilized, gaveUp>>

(* Of some levels, or of all. *)
Calculate(all) ==
  /\ ~calculating
  /\ calculating' = TRUE
  /\ stabilized' = (stabilized \/ all)
  /\ UNCHANGED <<chip, pullup, pulldown, level, gaveUp>>

Evaluate(n) ==
  /\ calculating
  /\ LET G == Component(On, n) IN
     \E l \in AllowedLevels(On, level, G) :
       level' = [m \in Node |-> IF m \in G THEN l ELSE level[m]]
  /\ UNCHANGED <<chip, pullup, pulldown, calculating, stabilized, gaveUp>>

(* A group may stay as it is then, for good. *)
GiveUp ==
  /\ calculating
  /\ gaveUp' = TRUE
  /\ UNCHANGED <<chip, pullup, pulldown, level, calculating, stabilized>>

Return ==
  /\ calculating
  /\ stabilized /\ ~gaveUp /\ Separated(chip) => \A n \in Signals : Settled(On, level, n)
  /\ calculating' = FALSE
  /\ UNCHANGED <<chip, pullup, pulldown, level, stabilized, gaveUp>>

NNext ==
  \/ \E id \in Pins \cap Node, value \in BOOLEAN : Drive(id, value)
  \/ \E all \in BOOLEAN : Calculate(all)
  \/ \E n \in Signals : Evaluate(n)
  \/ GiveUp
  \/ Return

NSpec == NInit /\ [][NNext]_nvars
=============================================================================
