---------------------------- MODULE MCNmosLayout ----------------------------
(***************************************************************************)
(* Descriptions for TLC, with three nodes and words of 32 values: five     *)
(* transistors fit, six reach past what a word can index, and with more    *)
(* of them even the last node starts there.                                *)
(***************************************************************************)
EXTENDS NmosLayout

Transistors(ids) == [gate : ids, c1 : ids, c2 : ids]

DescsOver(ids, ups) ==
  {[count |-> 3, power |-> 1, ground |-> 2, pullups |-> up, tdefs |-> ts] :
     up \in ups,
     ts \in {<<>>} \cup {<<t>> : t \in Transistors(ids)}
            \cup {<<t, u>> : t \in Transistors(ids), u \in Transistors(ids)}}

(* Ids of nodes, and one that is not. *)
Pairs == DescsOver(1 .. 4, {{3}})

(* Three transistors, on the ids of nodes. *)
Triples ==
  {[count |-> 3, power |-> 1, ground |-> 2, pullups |-> {}, tdefs |-> <<t, u, v>>] :
     t \in Transistors({1, 2}), u \in Transistors({1, 3}), v \in Transistors({2, 3})}

WithZero == DescsOver({0, 1, 3}, {{3}})

(* Six and more of the 18 transistors there are, gated by one node after    *)
(* the other, from any of them on.                                          *)
Gated(k) ==
  LET legs == << <<1, 2>>, <<3, 1>>, <<2, 3>>, <<1, 1>>, <<2, 2>>, <<3, 3>> >>
      l    == (k % 6) + 1
  IN [gate |-> ((k \div 6) % 3) + 1, c1 |-> legs[l][1], c2 |-> legs[l][2]]

Crowded ==
  {[count |-> 3, power |-> 1, ground |-> 2, pullups |-> {1},
    tdefs |-> [i \in 1 .. n |-> Gated(first + i)]] : first \in 0 .. 17, n \in 6 .. 18}

ManyDescs == Pairs \cup Triples \cup WithZero \cup Crowded
=============================================================================
