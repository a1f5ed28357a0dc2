----------------------------- MODULE NmosLayout -----------------------------
(***************************************************************************)
(* How the constructor of class nmos lays a chip out in one vector of      *)
(* uint16_t (src/src/nmos.cc:27-52, 88-141, 293-354).                      *)
(*                                                                         *)
(* The node with the id n starts at offsets[n]: its flags, the number of   *)
(* transistors it gates, the number of its connectors, two words for each  *)
(* transistor (the ids of its legs, shifted left to leave a flag), and one *)
(* word for each connector (where in the vector the leg is that it leads   *)
(* to).                                                                    *)
(***************************************************************************)
EXTENDS NmosNetlist

CONSTANTS
  Descs,       \* the chip descriptions
  Word,        \* 2^16: a word is taken modulo this
  Asserts      \* TRUE for the build with assert(), FALSE for the one without

ASSUME LayoutAssumption ==
  /\ Word \in Nat \ {0, 1} /\ Asserts \subseteq BOOLEAN
  /\ \A d \in Descs :
       /\ d.count \in Nat
       /\ d.tdefs \in Seq([gate : Nat, c1 : Nat, c2 : Nat])

VARIABLES
  desc,        \* the description in hand
  asserts,     \* whether the build has assert()
  gates,       \* construct_node::gates of every id, as positions in tdefs
  siblings,    \* construct_node::sibling_connectors of every id
  nodes,       \* the vector of words
  offsets,     \* node_offsets, of the ids placed so far
  cursor,      \* the loop counter
  phase        \* the loop that is running, or how construction ended

lvars == <<desc, asserts, gates, siblings, nodes, offsets, cursor, phase>>

Header == 3
Ids    == 0 .. desc.count
Ended  == {"done", "out_of_range", "logic_error", "abort"}
Phases == {"setup", "place", "legs", "connect"} \cup Ended

(* create_construct_nodes: one construct_node more than the chip has nodes. *)
Init ==
  /\ desc \in Descs /\ asserts \in Asserts
  /\ gates = [n \in Ids |-> <<>>] /\ siblings = [n \in Ids |-> <<>>]
  /\ nodes = <<>> /\ offsets = [n \in {0} |-> 0]
  /\ cursor = 1
  /\ phase = "setup"

LoopEnds(loop, last, next) ==
  /\ phase = loop /\ cursor > last
  /\ phase' = next /\ cursor' = 1
  /\ UNCHANGED <<desc, asserts, gates, siblings, nodes, offsets>>

-----------------------------------------------------------------------------
(* setup_transistors *)

This == desc.tdefs[cursor]

IdOutOfRange ==
  /\ phase = "setup" /\ cursor <= Len(desc.tdefs)
  /\ ~({This.gate, This.c1, This.c2} \subseteq Ids)
  /\ phase' = "out_of_range"
  /\ UNCHANGED <<desc, asserts, gates, siblings, nodes, offsets, cursor>>

Known == \E i \in 1 .. cursor - 1 : SameTransistor(desc.tdefs[i], This)

(* A transistor equal to an earlier one is left out. *)
SetupTransistor ==
  /\ phase = "setup" /\ cursor <= Len(desc.tdefs)
  /\ {This.gate, This.c1, This.c2} \subseteq Ids
  /\ cursor' = cursor + 1
  /\ IF Known
     THEN UNCHANGED <<gates, siblings>>
     ELSE /\ gates' = [gates EXCEPT ![This.gate] = Append(@, cursor)]
          /\ siblings' = LET once == [siblings EXCEPT ![This.c1] = Append(@, cursor)]
                         IN [once EXCEPT ![This.c2] = Append(@, cursor)]
  /\ UNCHANGED <<desc, asserts, nodes, offsets, phase>>

SetupEnds == LoopEnds("setup", Len(desc.tdefs), "place")

-----------------------------------------------------------------------------
(* create_nodes *)

(* The assertion on the size so far. *)
SizeAsserted == Word - 1 > Len(nodes)

AssertFails ==
  /\ phase = "place" /\ cursor <= desc.count
  /\ asserts /\ ~SizeAsserted
  /\ phase' = "abort"
  /\ UNCHANGED <<desc, asserts, gates, siblings, nodes, offsets, cursor>>

(* The first loop appends a node, all but its header zero. *)
PlaceNode ==
  /\ phase = "place" /\ cursor <= desc.count
  /\ asserts => SizeAsserted
  /\ LET g == Len(gates[cursor])
         s == Len(siblings[cursor])
         flags == IF cursor \in desc.pullups THEN 1 ELSE 0
     IN nodes' = nodes \o <<flags, g % Word, s % Word>> \o [i \in 1 .. 2 * g + s |-> 0]
  /\ offsets' = [n \in 0 .. cursor |-> IF n = cursor THEN Len(nodes) % Word ELSE offsets[n]]
  /\ cursor' = cursor + 1
  /\ UNCHANGED <<desc, asserts, gates, siblings, phase>>

PlaceEnds == LoopEnds("place", desc.count, "legs")

(* The word at an offset, as node_addr and operator[] count. *)
At(offset) == nodes[offset + 1]

NodeGates(n)     == offsets[n] + Header
NodeConnectors(n) == NodeGates(n) + 2 * At(offsets[n] + 1)

(* The second loop fills in the legs, shifted left by one. *)
FillLegs ==
  /\ phase = "legs" /\ cursor <= desc.count
  /\ LET leg(k)  == desc.tdefs[gates[cursor][(k + 1) \div 2]]
         id(k)   == IF k % 2 = 1 THEN leg(k).c1 ELSE leg(k).c2
         first   == NodeGates(cursor) + 1
         places  == first .. first + 2 * Len(gates[cursor]) - 1
     IN nodes' = [i \in DOMAIN nodes |->
                    IF i \in places THEN (2 * id(i - first + 1)) % Word ELSE nodes[i]]
  /\ cursor' = cursor + 1
  /\ UNCHANGED <<desc, asserts, gates, siblings, offsets, phase>>

LegsEnd == LoopEnds("legs", desc.count, "connect")

(* Bug: legs in the other order are taken for the same transistor. *)
Bug_Matching(t) ==
  {k \in 0 .. At(offsets[t.gate] + 1) - 1 :
     /\ At(NodeGates(t.gate) + 2 * k) \div 2 = t.c2
     /\ At(NodeGates(t.gate) + 2 * k + 1) \div 2 = t.c1}

(* Bug: only the first leg is compared. *)
Bug_MatchingFirst(t) ==
  {k \in 0 .. At(offsets[t.gate] + 1) - 1 : At(NodeGates(t.gate) + 2 * k) \div 2 = t.c1}

(* lookup_leg: where the transistor is among those its gate controls. *)
Matching(t) ==
  {k \in 0 .. At(offsets[t.gate] + 1) - 1 :
     /\ At(NodeGates(t.gate) + 2 * k) \div 2 = t.c1
     /\ At(NodeGates(t.gate) + 2 * k + 1) \div 2 = t.c2}

(* Bug: the offset is not kept in a uint16_t. *)
Bug_LookupWide(n, t) ==
  LET k == CHOOSE k \in Matching(t) : \A j \in Matching(t) : k <= j
  IN NodeGates(t.gate) + 2 * k + (IF t.c1 = n THEN 1 ELSE 0)

(* ... and the offset of the leg that is not on node n. *)
LookupLeg(n, t) ==
  LET k == CHOOSE k \in Matching(t) : \A j \in Matching(t) : k <= j
  IN (NodeGates(t.gate) + 2 * k + (IF t.c1 = n THEN 1 ELSE 0)) % Word

Joining(n) == {desc.tdefs[siblings[n][i]] : i \in DOMAIN siblings[n]}

LegMissing ==
  /\ phase = "connect" /\ cursor <= desc.count
  /\ \E t \in Joining(cursor) : Matching(t) = {}
  /\ phase' = "logic_error"
  /\ UNCHANGED <<desc, asserts, gates, siblings, nodes, offsets, cursor>>

(* The third loop fills in the connectors. *)
FillConnectors ==
  /\ phase = "connect" /\ cursor <= desc.count
  /\ \A t \in Joining(cursor) : Matching(t) # {}
  /\ LET first  == NodeConnectors(cursor) + 1
         places == first .. first + Len(siblings[cursor]) - 1
         t(i)   == desc.tdefs[siblings[cursor][i - first + 1]]
     IN nodes' = [i \in DOMAIN nodes |->
                    IF i \in places THEN LookupLeg(cursor, t(i)) ELSE nodes[i]]
  /\ cursor' = cursor + 1
  /\ UNCHANGED <<desc, asserts, gates, siblings, offsets, phase>>

ConnectEnds == LoopEnds("connect", desc.count, "done")

-----------------------------------------------------------------------------
Next ==
  \/ IdOutOfRange \/ SetupTransistor \/ SetupEnds
  \/ AssertFails \/ PlaceNode \/ PlaceEnds
  \/ FillLegs \/ LegsEnd
  \/ LegMissing \/ FillConnectors \/ ConnectEnds

Spec == Init /\ [][Next]_lvars

-----------------------------------------------------------------------------
TypeOK ==
  /\ gates \in [Ids -> Seq(DOMAIN desc.tdefs)]
  /\ siblings \in [Ids -> Seq(DOMAIN desc.tdefs)]
  /\ nodes \in Seq(0 .. Word - 1)
  /\ DOMAIN offsets \subseteq Ids /\ \A n \in DOMAIN offsets : offsets[n] \in 0 .. Word - 1
  /\ cursor \in Nat
  /\ phase \in Phases

(* Every word, and every place in the vector, can be told by a uint16_t. *)
Fits == Len(nodes) <= Word /\ 2 * desc.count < Word

NodeIds ==
  \A i \in DOMAIN desc.tdefs :
    LET t == desc.tdefs[i] IN {t.gate, t.c1, t.c2} \subseteq 1 .. desc.count

(* The offset of the leg of transistor t whose id is written in words     *)
(* l = 0 or l = 1 of its pair.                                             *)
GatedBy(n) == Sorted({t \in Kept(desc) : desc.tdefs[t].gate = n})
LegOf(t, l) ==
  LET gated == GatedBy(desc.tdefs[t].gate)
      k     == CHOOSE k \in DOMAIN gated : gated[k] = t
  IN NodeGates(desc.tdefs[t].gate) + 2 * (k - 1) + l

(* What the simulator reads from the vector is the netlist: following any  *)
(* connector of any node leads to the word of the leg on the other side,   *)
(* and it holds the id of the node there.                                  *)
LayoutIsNetlist ==
  phase = "done" /\ Fits /\ NodeIds =>
    LET chip == Construct(desc) IN
    \A n \in 1 .. desc.count :
      LET sibs == chip.sibs[n] IN
      /\ At(offsets[n]) = 1 <=> n \in chip.pullups
      /\ At(offsets[n] + 1) = Len(GatedBy(n))
      /\ At(offsets[n] + 2) = Len(sibs)
      /\ \A k \in DOMAIN sibs :
           LET t    == sibs[k][1]
               word == At(NodeConnectors(n) + k - 1)
           IN /\ word = LegOf(t, IF chip.c1[t] = n THEN 1 ELSE 0)
              /\ At(word) = 2 * sibs[k][2]

(* Construction fails for an id that is no node's or for want of room, and *)
(* for nothing else: lookup_leg finds the transistor it looks for.         *)
FailsOnlyOnBadInput ==
  /\ phase = "out_of_range" => ~InRange(desc)
  /\ phase = "done" => InRange(desc)
  /\ phase = "logic_error" => ~NodeIds \/ ~Fits
  /\ phase = "abort" => Len(nodes) + Header > Word
=============================================================================
