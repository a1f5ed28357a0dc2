---------------------------- MODULE NmosNetlist ----------------------------
(***************************************************************************)
(* How the constructor of class nmos (src/src/nmos.cc) turns a             *)
(* chip_description into the representation the simulator runs on.         *)
(*                                                                         *)
(* A description is a record                                               *)
(*    [count, pullups, power, ground, tdefs]                               *)
(* where tdefs is a sequence of transistors [gate, c1, c2], and the        *)
(* result is the record of a chip that module Nmos takes: a transistor is  *)
(* named by its position in tdefs, the duplicates being dropped.           *)
(***************************************************************************)
EXTENDS Integers, Sequences, FiniteSets, Functions

(* transdef::operator== : the two legs may be swapped. *)
SameTransistor(t, u) ==
  /\ t.gate = u.gate
  /\ {<<t.c1, t.c2>>, <<t.c2, t.c1>>} = {<<u.c1, u.c2>>, <<u.c2, u.c1>>}

(* setup_transistors throws out_of_range on an id past the last node. *)
InRange(desc) ==
  \A i \in DOMAIN desc.tdefs :
    LET t == desc.tdefs[i] IN {t.gate, t.c1, t.c2} \subseteq 0 .. desc.count

(* The positions setup_transistors keeps: no equal transistor before them. *)
Kept(desc) ==
  {i \in DOMAIN desc.tdefs :
     \A j \in 1 .. i - 1 : ~SameTransistor(desc.tdefs[j], desc.tdefs[i])}

(* The numbers of a finite set in ascending order. *)
Sorted(S) ==
  [k \in 1 .. Cardinality(S) |-> CHOOSE x \in S : Cardinality({y \in S : y < x}) = k - 1]

(* The legs are numbered: 2 * i is leg c1 of transistor i, 2 * i + 1 is c2. *)
LegNode(desc, l) ==
  LET t == desc.tdefs[l \div 2] IN IF l % 2 = 0 THEN t.c1 ELSE t.c2

LegsOn(desc, n) ==
  {l \in UNION {{2 * i, 2 * i + 1} : i \in Kept(desc)} : LegNode(desc, l) = n}

(* The connectors of node n, in the order setup_transistors pushes them:   *)
(* a transistor and the node on its other leg, once for each leg on n.     *)
(* lookup_leg returns the leg c1 unless that is on n, so a transistor with *)
(* both legs on n yields n itself, twice.                                  *)
SiblingConnectors(desc, n) ==
  LET other(i) == LET t == desc.tdefs[i] IN IF t.c1 = n THEN t.c2 ELSE t.c1
      legs     == Sorted(LegsOn(desc, n))
  IN [k \in DOMAIN legs |-> <<legs[k] \div 2, other(legs[k] \div 2)>>]

(* Not state of the code: a label shared by the nodes that transistor legs *)
(* join without passing through a supply node.  The least node of such a   *)
(* set labels it.                                                          *)
Channel(desc, n) ==
  LET signals == 1 .. desc.count \ {desc.power, desc.ground}
      closed(S) == \A i \in Kept(desc) :
                     LET legs == {desc.tdefs[i].c1, desc.tdefs[i].c2}
                     IN legs \subseteq signals =>
                          (legs \cap S = {} \/ legs \subseteq S)
      joined == {m \in signals :
                   \A S \in SUBSET signals : n \in S /\ closed(S) => m \in S}
  IN IF n \in signals THEN CHOOSE m \in joined : \A k \in joined : m <= k
                      ELSE n

(* The chip record the constructor leaves behind. *)
Construct(desc) ==
  [count   |-> desc.count,
   power   |-> desc.power,
   ground  |-> desc.ground,
   pullups |-> desc.pullups,
   trans   |-> Kept(desc),
   gate    |-> [i \in Kept(desc) |-> desc.tdefs[i].gate],
   c1      |-> [i \in Kept(desc) |-> desc.tdefs[i].c1],
   c2      |-> [i \in Kept(desc) |-> desc.tdefs[i].c2],
   sibs    |-> [n \in 1 .. desc.count |-> SiblingConnectors(desc, n)],
   channel |-> [n \in 1 .. desc.count |-> Channel(desc, n)]]

(* What the uint16_t loop counter of stabilize_network can hold. *)
MaxId == 65535

-----------------------------------------------------------------------------
(* What the simulator relies on in a chip. *)

NodesOK(c) ==
  /\ c.count \in Nat \ {0}
  /\ c.count < MaxId      \* or the loop counter would wrap and never get past it
  /\ c.power \in 1 .. c.count
  /\ c.ground \in 1 .. c.count
  /\ c.power # c.ground
  /\ c.pullups \subseteq 1 .. c.count

(* The ids of a transistor are those of nodes, and none is gated by power. *)
TransistorsOK(c) ==
  /\ IsFiniteSet(c.trans)
  /\ c.gate \in [c.trans -> 1 .. c.count]
  /\ c.c1 \in [c.trans -> 1 .. c.count]
  /\ c.c2 \in [c.trans -> 1 .. c.count]
  /\ \A t \in c.trans : c.gate[t] # c.power

(* The connectors of a node list the other legs of its transistors. *)
ConnectorsOK(c) ==
  /\ c.sibs \in [1 .. c.count -> Seq(c.trans \X (1 .. c.count))]
  /\ \A n \in 1 .. c.count : \A con \in Range(c.sibs[n]) :
       \/ c.c1[con[1]] = n /\ c.c2[con[1]] = con[2]
       \/ c.c2[con[1]] = n /\ c.c1[con[1]] = con[2]
  /\ \A t \in c.trans : /\ <<t, c.c2[t]>> \in Range(c.sibs[c.c1[t]])
                        /\ <<t, c.c1[t]>> \in Range(c.sibs[c.c2[t]])

(* change_order can hold both legs of every transistor that one node gates *)
(* (546 entries of 1725 in the 6502).                                      *)
FanOutOK(c) ==
  \A n \in 1 .. c.count : 2 * Cardinality({t \in c.trans : c.gate[t] = n}) <= c.count

(* Channel labels agree across every transistor between two signals. *)
ChannelsOK(c) ==
  \A t \in c.trans :
    {c.c1[t], c.c2[t]} \cap {c.power, c.ground} = {} =>
      c.channel[c.c1[t]] = c.channel[c.c2[t]]

ChipOK(c) ==
  NodesOK(c) /\ TransistorsOK(c) /\ ConnectorsOK(c) /\ FanOutOK(c) /\ ChannelsOK(c)

(* No transistor's gate can be joined to a leg of its own. *)
Separated(c) ==
  \A t \in c.trans : \A leg \in {c.c1[t], c.c2[t]} \ {c.power, c.ground} :
    c.channel[leg] # c.channel[c.gate[t]]

(* What mos6502.inc is like: its ids are those of nodes, no transistor is  *)
(* gated by power, and no node gates too many of them.                     *)
WellFormed(desc) ==
  /\ desc.count \in Nat \ {0} /\ desc.count < MaxId
  /\ {desc.power, desc.ground} \cup desc.pullups \subseteq 1 .. desc.count
  /\ desc.power # desc.ground
  /\ LET ids == 1 .. desc.count
     IN desc.tdefs \in Seq([gate : ids \ {desc.power}, c1 : ids, c2 : ids])
  /\ \A n \in 1 .. desc.count :
       2 * Cardinality({i \in Kept(desc) : desc.tdefs[i].gate = n}) <= desc.count
=============================================================================
