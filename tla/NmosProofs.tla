----------------------------- MODULE NmosProofs -----------------------------
(***************************************************************************)
(* Proofs about module Nmos, for every set of chips and of pins.           *)
(***************************************************************************)
EXTENDS NmosProperties, SequenceTheorems, FiniteSetTheorems, TLAPS

(* The range of a sequence after each of the operations of the code. *)
LEMMA RangeAppend ==
  ASSUME NEW S, NEW q \in Seq(S), NEW e \in S
  PROVE  /\ Append(q, e) \in Seq(S)
         /\ Range(Append(q, e)) = Range(q) \cup {e}
<1> DEFINE longer == Append(q, e)
<1>1. /\ DOMAIN q = 1 .. Len(q) /\ Len(q) \in Nat
      /\ longer \in Seq(S)
      /\ DOMAIN longer = 1 .. Len(q) + 1
      /\ \A i \in 1 .. Len(q) : longer[i] = q[i]
      /\ longer[Len(q) + 1] = e
  OBVIOUS
<1>2. \A i \in 1 .. Len(q) + 1 : i \in 1 .. Len(q) \/ i = Len(q) + 1
  BY <1>1
<1>3. 1 .. Len(q) \subseteq 1 .. Len(q) + 1 /\ Len(q) + 1 \in 1 .. Len(q) + 1
  BY <1>1
<1> HIDE DEF longer
<1>4. Range(longer) = Range(q) \cup {e}
  BY <1>1, <1>2, <1>3 DEF Range
<1> QED BY <1>1, <1>4 DEF longer

LEMMA RangeTail ==
  ASSUME NEW S, NEW q \in Seq(S), q # <<>>
  PROVE  /\ Head(q) \in S
         /\ Tail(q) \in Seq(S)
         /\ Range(q) = {Head(q)} \cup Range(Tail(q))
<1> DEFINE tail == Tail(q)
<1>1. /\ Head(q) = q[1] /\ Head(q) \in S
      /\ tail \in Seq(S)
      /\ DOMAIN q = 1 .. Len(q) /\ Len(q) \in Nat \ {0}
      /\ DOMAIN tail = 1 .. Len(q) - 1
      /\ \A i \in 1 .. Len(q) - 1 : tail[i] = q[i + 1]
  OBVIOUS
<1>2. \A i \in 1 .. Len(q) : i = 1 \/ (i - 1 \in 1 .. Len(q) - 1 /\ (i - 1) + 1 = i)
  BY <1>1
<1>3. 1 \in 1 .. Len(q) /\ \A i \in 1 .. Len(q) - 1 : i + 1 \in 1 .. Len(q)
  BY <1>1
<1> HIDE DEF tail
<1>4. \A i \in 1 .. Len(q) : i = 1 \/ \E j \in 1 .. Len(q) - 1 : q[i] = tail[j]
  BY <1>1, <1>2
<1>5. Range(q) \subseteq {q[1]} \cup Range(tail)
  <2>1. \A j \in 1 .. Len(q) - 1 : tail[j] \in Range(tail)
    BY <1>1 DEF Range
  <2>2. \A i \in 1 .. Len(q) : q[i] \in {q[1]} \cup Range(tail)
    BY <1>4, <2>1
  <2> QED BY <1>1, <2>2, Zenon DEF Range
<1>6. {q[1]} \cup Range(tail) \subseteq Range(q)
  BY <1>1, <1>3 DEF Range
<1> QED BY <1>1, <1>5, <1>6 DEF tail

LEMMA RangeFront ==
  ASSUME NEW S, NEW q \in Seq(S), q # <<>>
  PROVE  /\ q[Len(q)] \in S
         /\ SubSeq(q, 1, Len(q) - 1) \in Seq(S)
         /\ Len(SubSeq(q, 1, Len(q) - 1)) = Len(q) - 1
         /\ \A i \in 1 .. Len(q) - 1 : SubSeq(q, 1, Len(q) - 1)[i] = q[i]
         /\ Range(q) = Range(SubSeq(q, 1, Len(q) - 1)) \cup {q[Len(q)]}
<1> DEFINE front == SubSeq(q, 1, Len(q) - 1)
<1>1. DOMAIN q = 1 .. Len(q) /\ Len(q) \in Nat \ {0} /\ q[Len(q)] \in S
  OBVIOUS
<1>2. 1 .. Len(q) - 1 \subseteq 1 .. Len(q) /\ Len(q) \in 1 .. Len(q)
  BY <1>1
<1>3. /\ front \in Seq(S)
      /\ Len(front) = Len(q) - 1
      /\ \A i \in 1 .. Len(q) - 1 : front[i] = q[i]
  BY <1>1, <1>2, SubSeqProperties
<1> HIDE DEF front
<1>4. DOMAIN front = 1 .. Len(q) - 1
  BY <1>1, <1>3
<1>5. \A i \in 1 .. Len(q) : i \in 1 .. Len(q) - 1 \/ i = Len(q)
  <2>1. \A n \in Nat : \A i \in 1 .. n : i \in 1 .. n - 1 \/ i = n
    OBVIOUS
  <2> QED BY <1>1, <2>1
<1>6. Range(q) \subseteq Range(front) \cup {q[Len(q)]}
  <2>1. \A i \in 1 .. Len(q) - 1 : q[i] \in Range(front)
    <3>1. ASSUME NEW i \in 1 .. Len(q) - 1 PROVE front[i] = q[i] /\ front[i] \in Range(front)
      BY <1>3, <1>4, Zenon DEF Range
    <3> QED BY <3>1
  <2>2. \A i \in 1 .. Len(q) : q[i] \in Range(front) \cup {q[Len(q)]}
    BY <1>5, <2>1
  <2> QED BY <1>1, <2>2, Zenon DEF Range
<1>7. Range(front) \cup {q[Len(q)]} \subseteq Range(q)
  BY <1>1, <1>2, <1>3, <1>4 DEF Range
<1> QED BY <1>1, <1>3, <1>6, <1>7 DEF front

-----------------------------------------------------------------------------
(* What the assumption on Chips says of the chip under simulation. *)
LEMMA ChipFacts ==
  ASSUME chip \in Chips
  PROVE  /\ chip.count \in Nat \ {0}
         /\ chip.power \in Node /\ chip.ground \in Node /\ chip.power # chip.ground
         /\ chip.gate \in [chip.trans -> Node]
         /\ chip.c1 \in [chip.trans -> Node]
         /\ chip.c2 \in [chip.trans -> Node]
         /\ chip.sibs \in [Node -> Seq(chip.trans \X Node)]
         /\ \A t \in chip.trans : chip.gate[t] # chip.power
<1>1. NodesOK(chip) /\ TransistorsOK(chip) /\ ConnectorsOK(chip)
  BY ChipsAssumption DEF ChipOK
<1>2. /\ chip.count \in Nat \ {0}
      /\ chip.power \in Node /\ chip.ground \in Node /\ chip.power # chip.ground
  BY <1>1 DEF NodesOK, Node
<1>3. /\ chip.gate \in [chip.trans -> Node]
      /\ chip.c1 \in [chip.trans -> Node]
      /\ chip.c2 \in [chip.trans -> Node]
      /\ \A t \in chip.trans : chip.gate[t] # chip.power
  BY <1>1 DEF TransistorsOK, Node
<1>4. chip.sibs \in [Node -> Seq(chip.trans \X Node)]
  BY <1>1, Zenon DEF ConnectorsOK, Node
<1> QED BY <1>2, <1>3, <1>4

LEMMA ChipConstant == ASSUME [Next]_vars PROVE chip' = chip
  BY DEF Next, Host, Internal, SetNode, StabilizeNetwork, StabilizePush, StabilizeRecalc,
         Recalc, RecalcReturn, SkipStale, RecalcNode, SkipOpenLeg, FollowLeg, GroupComplete,
         KeepLevel, FlipLevel, CommitChange, CommitReturn, UpdateReturn, vars

(* The loop counter of stabilize_network does not wrap. *)
LEMMA CursorCounts ==
  ASSUME TypeOK, StabilizePush
  PROVE  cursor \in Node /\ cursor' = cursor + 1 /\ cursor' \in 1 .. chip.count + 1
<1>1. NodesOK(chip)
  BY ChipsAssumption DEF ChipOK, TypeOK
<1>2. chip.count \in Nat /\ chip.count < MaxId /\ MaxId \in Nat
  BY <1>1 DEF NodesOK, MaxId
<1>3. cursor \in 1 .. chip.count
  BY <1>2 DEF TypeOK, StabilizePush
<1>4. ASSUME NEW c \in Nat, NEW m \in Nat, c < m PROVE (c + 1) % (m + 1) = c + 1
  BY <1>4
<1> DEFINE m == MaxId
<1>5. cursor' = (cursor + 1) % (m + 1) /\ cursor \in Nat /\ cursor < m /\ m \in Nat
  BY <1>2, <1>3 DEF StabilizePush
<1> HIDE DEF m
<1>6. cursor' = cursor + 1
  BY <1>4, <1>5
<1> QED BY <1>2, <1>3, <1>6 DEF Node

(* The constructor leaves a state of the right type. *)
LEMMA TypeInit == Init => TypeOK
<1> SUFFICES ASSUME Init PROVE TypeOK
  OBVIOUS
<1>1. chip \in Chips
  BY DEF Init
<1>2. 1 \in 1 .. chip.count + 1
  BY <1>1, ChipFacts
<1>3. queue \in Seq(Node) /\ group \in Seq(Signals) /\ todo \in Seq(chip.trans \X Node)
  <2>1. queue = <<>> /\ group = <<>> /\ todo = <<>>
    BY DEF Init
  <2> QED BY <2>1
<1>4. /\ pullup \in [Node -> BOOLEAN]
      /\ pulldown \in [Node -> BOOLEAN]
      /\ high \in [Node -> BOOLEAN]
      /\ inChange \in [Node -> BOOLEAN]
      /\ inGroup \in [Node -> BOOLEAN]
      /\ on \in [chip.trans -> BOOLEAN]
  BY DEF Init
<1>5. /\ groupVal \in Contents /\ changes \subseteq Node \X chip.trans \X {1, 2}
      /\ cursor = 1 /\ phase \in Phases /\ stabilized \in BOOLEAN
      /\ lost \in BOOLEAN
  BY DEF Init, Contents, Phases
<1> QED BY <1>1, <1>2, <1>3, <1>4, <1>5 DEF TypeOK

LEMMA PushType ==
  ASSUME TypeOK, NEW id \in Node, ChangedPush(id), chip' = chip
  PROVE  (queue \in Seq(Node))' /\ (inChange \in [Node -> BOOLEAN])' /\ (lost \in BOOLEAN)'
<1>1. Node' = Node
  BY DEF Node
<1>2. queue \in Seq(Node) /\ inChange \in [Node -> BOOLEAN] /\ lost \in BOOLEAN
  BY DEF TypeOK
<1>3. Append(queue, id) \in Seq(Node) /\ <<>> \in Seq(Node)
  BY <1>2, RangeAppend
<1>4. (lost \in BOOLEAN)'
  BY <1>2 DEF ChangedPush, Overfills
<1> QED BY <1>1, <1>2, <1>3, <1>4 DEF ChangedPush

LEMMA GroupAddType ==
  ASSUME TypeOK, chip' = chip,
         NEW id \in Node, NEW marks \in [Node -> BOOLEAN], NEW val \in Contents,
         NEW rest \in Seq(chip.trans \X Node),
         GroupAdd(id, marks, val, rest)
  PROVE  /\ (inChange \in [Node -> BOOLEAN])'
         /\ (inGroup \in [Node -> BOOLEAN])'
         /\ (group \in Seq(Signals))'
         /\ (groupVal \in Contents)'
         /\ (todo \in Seq(chip.trans \X Node))'
<1>1. /\ inGroup \in [Node -> BOOLEAN] /\ group \in Seq(Signals)
      /\ chip.sibs \in [Node -> Seq(chip.trans \X Node)]
  BY ChipFacts DEF TypeOK
<1>2. Node' = Node /\ Signals' = Signals
  BY DEF Node, Signals, Supplies
<1>3. CASE id = chip.ground
  BY <1>1, <1>2, <1>3 DEF GroupAdd, Contents, Signals, Supplies
<1>4. CASE id = chip.power
  BY <1>1, <1>2, <1>4 DEF GroupAdd, Contents, Signals, Supplies
<1>5. CASE id \in Signals /\ inGroup[id]
  BY <1>1, <1>2, <1>5 DEF GroupAdd, Signals, Supplies
<1>6. CASE id \in Signals /\ ~inGroup[id]
  <2>1. /\ inGroup' = [inGroup EXCEPT ![id] = TRUE]
        /\ inChange' = [marks EXCEPT ![id] = FALSE]
        /\ group' = Append(group, id)
        /\ groupVal' = UpdatedValue(val, id)
        /\ todo' = chip.sibs[id] \o rest
    BY <1>6 DEF GroupAdd, Signals, Supplies
  <2>2. chip.sibs[id] \in Seq(chip.trans \X Node)
    BY <1>1
  <2>3. todo' \in Seq(chip.trans \X Node)
    BY <2>1, <2>2, ConcatProperties
  <2>4. groupVal' \in Contents
    BY <2>1 DEF UpdatedValue, Contents
  <2>5. group' \in Seq(Signals)
    BY <2>1, <1>1, <1>6, RangeAppend
  <2> QED BY <1>1, <1>2, <2>1, <2>3, <2>4, <2>5
<1> QED BY <1>3, <1>4, <1>5, <1>6 DEF Signals, Supplies

LEMMA PopType ==
  ASSUME TypeOK, group # <<>>, GroupPopped, chip' = chip
  PROVE  /\ GroupTail \in Signals
         /\ (group \in Seq(Signals))'
         /\ (inGroup \in [Node -> BOOLEAN])'
<1>1. group \in Seq(Signals) /\ inGroup \in [Node -> BOOLEAN]
  BY DEF TypeOK
<1>2. GroupTail \in Signals /\ GroupFront \in Seq(Signals)
  BY <1>1, RangeFront DEF GroupTail, GroupFront
<1>3. Node' = Node /\ Signals' = Signals
  BY DEF Node, Signals, Supplies
<1> QED BY <1>1, <1>2, <1>3 DEF GroupPopped

LEMMA LegChangesType ==
  ASSUME TypeOK, NEW id \in Node, NEW level \in BOOLEAN, NEW lv \in [Node -> BOOLEAN]
  PROVE  LegChanges(id, level, lv) \subseteq Node \X chip.trans \X {1, 2}
<1>1. /\ chip.c1 \in [chip.trans -> Node]
      /\ chip.c2 \in [chip.trans -> Node]
  BY ChipFacts DEF TypeOK
<1> QED BY <1>1 DEF LegChanges

LEMMA TypeStep == TypeOK /\ [Next]_vars => TypeOK'
<1> SUFFICES ASSUME TypeOK, [Next]_vars PROVE TypeOK'
  OBVIOUS
<1>0. chip' = chip /\ Node' = Node /\ Signals' = Signals
  BY ChipConstant DEF Node, Signals, Supplies
<1>1. ASSUME NEW id \in Pins \cap Node, NEW value \in BOOLEAN, SetNode(id, value) PROVE TypeOK'
  <2>1. (queue \in Seq(Node))' /\ (inChange \in [Node -> BOOLEAN])' /\ (lost \in BOOLEAN)'
    BY <1>0, <1>1, PushType DEF SetNode
  <2>2. pullup' \in [Node -> BOOLEAN] /\ pulldown' \in [Node -> BOOLEAN]
    BY <1>1 DEF SetNode, TypeOK
  <2> QED BY <1>0, <1>1, <2>1, <2>2 DEF SetNode, TypeOK, levels, grouping
<1>2. CASE StabilizeNetwork
  <2>1. 1 \in 1 .. chip.count + 1
    BY ChipFacts DEF TypeOK
  <2> QED BY <1>0, <1>2, <2>1 DEF StabilizeNetwork, TypeOK, Phases, wires, levels, feed, grouping
<1>3. CASE Recalc
  BY <1>0, <1>3 DEF Recalc, TypeOK, Phases, wires, levels, feed, grouping
<1>4. CASE StabilizePush
  <2>1. cursor \in Node /\ cursor' \in 1 .. chip.count + 1
    BY <1>4, CursorCounts
  <2>2. (queue \in Seq(Node))' /\ (inChange \in [Node -> BOOLEAN])' /\ (lost \in BOOLEAN)'
    BY <1>0, <1>4, <2>1, PushType DEF StabilizePush
  <2> QED BY <1>0, <1>4, <2>1, <2>2 DEF StabilizePush, TypeOK, wires, levels, grouping
<1>5. CASE StabilizeRecalc
  BY <1>0, <1>5 DEF StabilizeRecalc, TypeOK, Phases, wires, levels, feed, grouping
<1>6. CASE RecalcReturn
  BY <1>0, <1>6 DEF RecalcReturn, TypeOK, Phases, wires, levels, feed, grouping
<1>7. CASE SkipStale
  <2>1. queue' \in Seq(Node)
    BY <1>7, RangeTail DEF SkipStale, TypeOK
  <2> QED BY <1>0, <1>7, <2>1 DEF SkipStale, TypeOK, wires, levels, grouping
<1>8. CASE RecalcNode
  <2>1. Head(queue) \in Node /\ queue' \in Seq(Node)
    BY <1>8, RangeTail DEF RecalcNode, TypeOK
  <2>2. /\ [inChange EXCEPT ![Head(queue)] = FALSE] \in [Node -> BOOLEAN]
        /\ "nothing" \in Contents /\ <<>> \in Seq(chip.trans \X Node)
    <3>1. <<>> \in Seq(chip.trans \X Node)
      OBVIOUS
    <3>2. [inChange EXCEPT ![Head(queue)] = FALSE] \in [Node -> BOOLEAN]
      BY DEF TypeOK
    <3> QED BY <3>1, <3>2 DEF Contents
  <2>3. GroupAdd(Head(queue), [inChange EXCEPT ![Head(queue)] = FALSE], "nothing", <<>>)
    BY <1>8 DEF RecalcNode
  <2>4. /\ (inChange \in [Node -> BOOLEAN])' /\ (inGroup \in [Node -> BOOLEAN])'
        /\ (group \in Seq(Signals))' /\ (groupVal \in Contents)'
        /\ (todo \in Seq(chip.trans \X Node))'
    BY <1>0, <2>1, <2>2, <2>3, GroupAddType
  <2> QED BY <1>0, <1>8, <2>1, <2>4 DEF RecalcNode, TypeOK, Phases, wires, levels
<1>9. CASE SkipOpenLeg
  <2>1. todo' \in Seq(chip.trans \X Node)
    BY <1>9, RangeTail DEF SkipOpenLeg, TypeOK
  <2> QED BY <1>0, <1>9, <2>1 DEF SkipOpenLeg, TypeOK, wires, levels, feed
<1>10. CASE FollowLeg
  <2>1. Head(todo) \in chip.trans \X Node /\ Tail(todo) \in Seq(chip.trans \X Node)
    BY <1>10, RangeTail DEF FollowLeg, TypeOK
  <2>2. Head(todo)[2] \in Node /\ inChange \in [Node -> BOOLEAN] /\ groupVal \in Contents
    BY <2>1 DEF TypeOK
  <2>3. GroupAdd(Head(todo)[2], inChange, groupVal, Tail(todo))
    BY <1>10 DEF FollowLeg
  <2>4. /\ (inChange \in [Node -> BOOLEAN])' /\ (inGroup \in [Node -> BOOLEAN])'
        /\ (group \in Seq(Signals))' /\ (groupVal \in Contents)'
        /\ (todo \in Seq(chip.trans \X Node))'
    BY <1>0, <2>1, <2>2, <2>3, GroupAddType
  <2> QED BY <1>0, <1>10, <2>4 DEF FollowLeg, TypeOK, wires, levels
<1>11. CASE GroupComplete
  BY <1>0, <1>11 DEF GroupComplete, TypeOK, Phases, wires, levels, feed, grouping
<1>12. CASE KeepLevel
  <2>1. (group \in Seq(Signals))' /\ (inGroup \in [Node -> BOOLEAN])'
    BY <1>0, <1>12, PopType DEF KeepLevel
  <2> QED BY <1>0, <1>12, <2>1 DEF KeepLevel, TypeOK, wires, levels, feed
<1>13. CASE FlipLevel
  <2>1. /\ GroupTail \in Signals
        /\ (group \in Seq(Signals))' /\ (inGroup \in [Node -> BOOLEAN])'
    BY <1>0, <1>13, PopType DEF FlipLevel
  <2>2. GroupHigh \in BOOLEAN
    BY DEF GroupHigh
  <2>3. high' \in [Node -> BOOLEAN]
    BY <1>13, <2>2 DEF FlipLevel, TypeOK
  <2>4. on' \in [chip.trans -> BOOLEAN]
    BY <1>13 DEF FlipLevel, TypeOK
  <2>5. changes' \subseteq Node \X chip.trans \X {1, 2}
    <3>1. GroupTail \in Node
      BY <2>1 DEF Signals
    <3> QED BY <1>13, <2>2, <2>3, <3>1, LegChangesType DEF FlipLevel
  <2> QED BY <1>0, <1>13, <2>1, <2>3, <2>4, <2>5 DEF FlipLevel, TypeOK, Phases, wires, feed
<1>14. CASE CommitChange
  <2>1. PICK ch \in changes : /\ ChangedPush(ch[1])
                              /\ changes' = {other \in changes : other[1] # ch[1]}
    BY <1>14 DEF CommitChange
  <2>2. ch[1] \in Node
    BY <2>1 DEF TypeOK
  <2>3. (queue \in Seq(Node))' /\ (inChange \in [Node -> BOOLEAN])' /\ (lost \in BOOLEAN)'
    BY <1>0, <2>1, <2>2, PushType
  <2> QED BY <1>0, <1>14, <2>1, <2>3 DEF CommitChange, TypeOK, wires, levels, grouping
<1>15. CASE CommitReturn
  BY <1>0, <1>15 DEF CommitReturn, TypeOK, Phases, wires, levels, feed, grouping
<1>16. CASE UpdateReturn
  BY <1>0, <1>16 DEF UpdateReturn, TypeOK, Phases, wires, levels, feed, grouping
<1>17. CASE UNCHANGED vars
  BY <1>0, <1>17 DEF vars, TypeOK, wires, levels, feed, grouping
<1> QED BY <1>1, <1>2, <1>3, <1>4, <1>5, <1>6, <1>7, <1>8, <1>9, <1>10, <1>11, <1>12,
           <1>13, <1>14, <1>15, <1>16, <1>17 DEF Next, Host, Internal

(* Every node keeps flags, every list holds ids of nodes, and a supply is  *)
(* never part of a group.                                                  *)
THEOREM TypeCorrect == Spec => []TypeOK
BY TypeInit, TypeStep, PTL DEF Spec

-----------------------------------------------------------------------------
(* The flags of the legs: only a flip of the gate touches them. *)

LEMMA LegsInit == Init => LegsFollowGates
  BY ChipFacts DEF Init, LegsFollowGates

LEMMA LegsStep == TypeOK /\ LegsFollowGates /\ [Next]_vars => LegsFollowGates'
<1> SUFFICES ASSUME TypeOK, LegsFollowGates, [Next]_vars PROVE LegsFollowGates'
  OBVIOUS
<1>0. chip' = chip
  BY ChipConstant
<1>1. CASE FlipLevel
  <2>1. /\ chip.gate \in [chip.trans -> Node]
        /\ high \in [Node -> BOOLEAN] /\ on \in [chip.trans -> BOOLEAN]
    BY ChipFacts DEF TypeOK
  <2>2. GroupTail \in Node
    BY <1>0, <1>1, PopType DEF FlipLevel, Signals
  <2>3. /\ high' = [high EXCEPT ![GroupTail] = GroupHigh]
        /\ high[GroupTail] # GroupHigh
        /\ on' = [t \in chip.trans |-> IF chip.gate[t] = GroupTail THEN ~on[t] ELSE on[t]]
    BY <1>1 DEF FlipLevel
  <2>4. ASSUME NEW t \in chip.trans PROVE on'[t] <=> high'[chip.gate[t]]
    <3>1. on[t] <=> high[chip.gate[t]]
      BY DEF LegsFollowGates
    <3>2. CASE chip.gate[t] = GroupTail
      <4>1. high'[chip.gate[t]] = GroupHigh /\ on'[t] = ~on[t]
        BY <2>1, <2>2, <2>3, <3>2
      <4>2. GroupHigh \in BOOLEAN
        BY DEF GroupHigh
      <4> QED BY <2>1, <2>2, <2>3, <3>1, <3>2, <4>1, <4>2
    <3>3. CASE chip.gate[t] # GroupTail
      BY <2>1, <2>2, <2>3, <3>1, <3>3
    <3> QED BY <3>2, <3>3
  <2> QED BY <1>0, <2>4 DEF LegsFollowGates
<1>2. CASE ~FlipLevel
  <2>1. high' = high /\ on' = on
    BY <1>2 DEF Next, Host, Internal, SetNode, StabilizeNetwork, StabilizePush,
       StabilizeRecalc, Recalc, RecalcReturn, SkipStale, RecalcNode, SkipOpenLeg, FollowLeg,
       GroupComplete, KeepLevel, CommitChange, CommitReturn, UpdateReturn, vars, levels
  <2> QED BY <1>0, <2>1 DEF LegsFollowGates
<1> QED BY <1>1, <1>2

(* A transistor's legs carry the flag of its gate (nmos.cc:44-45), though  *)
(* the code only ever inverts the flags.                                   *)
THEOREM FlagsCorrect == Spec => []LegsFollowGates
BY TypeInit, TypeStep, LegsInit, LegsStep, PTL DEF Spec

-----------------------------------------------------------------------------
(* The marks: whatever takes an entry off the queue also clears its mark.  *)

LEMMA QueuedInit == Init => ChangesAreQueued
  BY DEF Init, ChangesAreQueued

LEMMA PushQueued ==
  ASSUME TypeOK, ChangesAreQueued, NEW id \in Node, ChangedPush(id), chip' = chip
  PROVE  ChangesAreQueued'
<1> SUFFICES ASSUME ~lost' PROVE \A n \in Node : inChange'[n] => n \in Range(queue')
  BY DEF ChangesAreQueued, Node
<1>1. queue \in Seq(Node) /\ inChange \in [Node -> BOOLEAN]
  BY DEF TypeOK
<1>2. Range(Append(queue, id)) = Range(queue) \cup {id}
  BY <1>1, RangeAppend
<1>3. \A n \in Node : inChange'[n] <=> inChange[n] \/ n = id
  BY <1>1 DEF ChangedPush
<1>4. ~lost /\ ~Overfills(id)
  BY DEF ChangedPush
<1>5. Range(queue') = Range(queue) \cup {id}
  BY <1>2, <1>4 DEF ChangedPush, ChangesAreQueued
<1> QED BY <1>3, <1>4, <1>5 DEF ChangesAreQueued

(* group_add clears marks and sets none. *)
LEMMA GroupAddClears ==
  ASSUME chip' = chip, NEW id \in Node, NEW marks \in [Node -> BOOLEAN], NEW val, NEW rest,
         GroupAdd(id, marks, val, rest)
  PROVE  \A n \in Node : inChange'[n] => marks[n]
  BY DEF GroupAdd

LEMMA QueuedStep == TypeOK /\ ChangesAreQueued /\ [Next]_vars => ChangesAreQueued'
<1> SUFFICES ASSUME TypeOK, ChangesAreQueued, [Next]_vars PROVE ChangesAreQueued'
  OBVIOUS
<1>0. chip' = chip /\ Node' = Node
  BY ChipConstant DEF Node
<1>1. queue \in Seq(Node) /\ inChange \in [Node -> BOOLEAN]
  BY DEF TypeOK
<1>2. ASSUME NEW id \in Pins \cap Node, NEW value \in BOOLEAN, SetNode(id, value)
      PROVE  ChangesAreQueued'
  BY <1>0, <1>2, PushQueued DEF SetNode
<1>3. CASE StabilizePush
  <2>1. cursor \in Node
    BY <1>3, ChipFacts DEF StabilizePush, TypeOK, Node
  <2> QED BY <1>0, <1>3, <2>1, PushQueued DEF StabilizePush
<1>4. CASE CommitChange
  <2>1. PICK ch \in changes : ChangedPush(ch[1])
    BY <1>4 DEF CommitChange
  <2>2. ch[1] \in Node
    BY <2>1 DEF TypeOK
  <2> QED BY <1>0, <2>1, <2>2, PushQueued
<1>5. CASE SkipStale
  <2>1. Range(queue) = {Head(queue)} \cup Range(queue')
    BY <1>1, <1>5, RangeTail DEF SkipStale
  <2> QED BY <1>0, <1>5, <2>1 DEF SkipStale, ChangesAreQueued
<1>6. CASE RecalcNode
  <2>1. Head(queue) \in Node /\ Range(queue) = {Head(queue)} \cup Range(queue')
    BY <1>1, <1>6, RangeTail DEF RecalcNode
  <2>2. [inChange EXCEPT ![Head(queue)] = FALSE] \in [Node -> BOOLEAN]
    BY <1>1
  <2>3. \A n \in Node : inChange'[n] => [inChange EXCEPT ![Head(queue)] = FALSE][n]
    BY <1>0, <1>6, <2>1, <2>2, GroupAddClears DEF RecalcNode
  <2>4. \A n \in Node : inChange'[n] => inChange[n] /\ n # Head(queue)
    BY <1>1, <2>1, <2>3
  <2>5. lost' = lost
    BY <1>6 DEF RecalcNode
  <2> QED BY <1>0, <2>1, <2>4, <2>5 DEF ChangesAreQueued
<1>7. CASE FollowLeg
  <2>1. Head(todo) \in chip.trans \X Node
    BY <1>7, RangeTail DEF FollowLeg, TypeOK
  <2>2. \A n \in Node : inChange'[n] => inChange[n]
    BY <1>0, <1>1, <1>7, <2>1, GroupAddClears DEF FollowLeg
  <2> QED BY <1>0, <1>7, <2>2 DEF FollowLeg, ChangesAreQueued
<1>8. CASE UNCHANGED feed
  BY <1>0, <1>8 DEF feed, ChangesAreQueued
<1> QED BY <1>2, <1>3, <1>4, <1>5, <1>6, <1>7, <1>8
        DEF Next, Host, Internal, StabilizeNetwork, StabilizeRecalc, Recalc, RecalcReturn,
            SkipOpenLeg, GroupComplete, KeepLevel, FlipLevel, CommitReturn, UpdateReturn, vars

(* Until the ring is overfilled, a node marked as changed has its entry on *)
(* the queue, whatever cleared and set marks in between: changed_push may  *)
(* trust the mark so far.                                                  *)
THEOREM MarksCorrect == Spec => []ChangesAreQueued
BY TypeInit, TypeStep, QueuedInit, QueuedStep, PTL DEF Spec

-----------------------------------------------------------------------------
(* The group is a list without repetition of the nodes marked as in it.    *)

LEMMA GroupInit == Init => GroupIsSet
<1> SUFFICES ASSUME Init PROVE GroupIsSet
  OBVIOUS
<1>1. group = <<>> /\ \A n \in Node : ~inGroup[n]
  BY DEF Init
<1>2. DOMAIN group = {} /\ Range(group) = {}
  BY <1>1 DEF Range
<1> QED BY <1>1, <1>2 DEF GroupIsSet

Distinct(q) == \A i, j \in DOMAIN q : q[i] = q[j] => i = j

LEMMA DistinctAppend ==
  ASSUME NEW S, NEW q \in Seq(S), NEW e \in S, Distinct(q), e \notin Range(q)
  PROVE  Distinct(Append(q, e))
<1> DEFINE longer == Append(q, e)
<1>1. /\ DOMAIN q = 1 .. Len(q) /\ Len(q) \in Nat
      /\ DOMAIN longer = 1 .. Len(q) + 1
      /\ \A i \in 1 .. Len(q) : longer[i] = q[i]
      /\ longer[Len(q) + 1] = e
  OBVIOUS
<1>2. \A i \in 1 .. Len(q) + 1 : i \in 1 .. Len(q) \/ i = Len(q) + 1
  <2>1. \A n \in Nat : \A i \in 1 .. n + 1 : i \in 1 .. n \/ i = n + 1
    OBVIOUS
  <2> QED BY <1>1, <2>1
<1>3. \A i \in 1 .. Len(q) : q[i] # e
  BY <1>1 DEF Range
<1> HIDE DEF longer
<1>4. Distinct(longer)
  <2> SUFFICES ASSUME NEW i \in 1 .. Len(q) + 1, NEW j \in 1 .. Len(q) + 1, longer[i] = longer[j]
               PROVE  i = j
    BY <1>1, Zenon DEF Distinct
  <2>1. CASE i \in 1 .. Len(q) /\ j \in 1 .. Len(q)
    BY <1>1, <2>1 DEF Distinct
  <2>2. CASE i = Len(q) + 1 \/ j = Len(q) + 1
    BY <1>1, <1>2, <1>3, <2>2
  <2> QED BY <1>2, <2>1, <2>2
<1> QED BY <1>4 DEF longer

LEMMA DistinctFront ==
  ASSUME NEW S, NEW q \in Seq(S), q # <<>>, Distinct(q)
  PROVE  LET front == SubSeq(q, 1, Len(q) - 1) IN
         Distinct(front) /\ Range(front) = Range(q) \ {q[Len(q)]}
<1> DEFINE front == SubSeq(q, 1, Len(q) - 1)
<1>1. /\ front \in Seq(S) /\ Len(front) = Len(q) - 1
      /\ \A i \in 1 .. Len(q) - 1 : front[i] = q[i]
      /\ Range(q) = Range(front) \cup {q[Len(q)]}
  BY RangeFront
<1>2. DOMAIN q = 1 .. Len(q) /\ Len(q) \in Nat \ {0}
  OBVIOUS
<1> HIDE DEF front
<1>3. DOMAIN front = 1 .. Len(q) - 1
  BY <1>1, <1>2
<1>4. \A i \in 1 .. Len(q) - 1 : i \in 1 .. Len(q) /\ i # Len(q)
  <2>1. \A n \in Nat \ {0} : \A i \in 1 .. n - 1 : i \in 1 .. n /\ i # n
    OBVIOUS
  <2> QED BY <1>2, <2>1
<1>5. Len(q) \in 1 .. Len(q)
  BY <1>2
<1>6. Distinct(front)
  BY <1>1, <1>2, <1>3, <1>4 DEF Distinct
<1>7. \A i \in 1 .. Len(q) - 1 : front[i] # q[Len(q)]
  BY <1>1, <1>2, <1>4, <1>5 DEF Distinct
<1>8. q[Len(q)] \notin Range(front)
  BY <1>3, <1>7, Zenon DEF Range
<1> QED BY <1>1, <1>6, <1>8 DEF front

LEMMA GroupAddSet ==
  ASSUME TypeOK, GroupIsSet, chip' = chip, NEW id \in Node, NEW marks, NEW val, NEW rest,
         GroupAdd(id, marks, val, rest)
  PROVE  Distinct(group') /\ \A n \in Node : inGroup'[n] <=> n \in Range(group')
<1>1. /\ Distinct(group) /\ \A n \in Node : inGroup[n] <=> n \in Range(group)
      /\ group \in Seq(Signals) /\ inGroup \in [Node -> BOOLEAN]
  BY DEF GroupIsSet, Distinct, TypeOK
<1>2. CASE UNCHANGED <<group, inGroup>>
  BY <1>1, <1>2
<1>3. CASE /\ id \in Signals /\ ~inGroup[id]
           /\ group' = Append(group, id) /\ inGroup' = [inGroup EXCEPT ![id] = TRUE]
  <2>1. id \notin Range(group)
    BY <1>1, <1>3
  <2>2. Distinct(group') /\ Range(group') = Range(group) \cup {id}
    BY <1>1, <1>3, <2>1, DistinctAppend, RangeAppend
  <2> QED BY <1>1, <1>3, <2>2
<1> QED BY <1>2, <1>3 DEF GroupAdd

LEMMA GroupPopSet ==
  ASSUME TypeOK, GroupIsSet, group # <<>>, GroupPopped
  PROVE  Distinct(group') /\ \A n \in Node : inGroup'[n] <=> n \in Range(group')
<1>1. /\ Distinct(group) /\ \A n \in Node : inGroup[n] <=> n \in Range(group)
      /\ group \in Seq(Signals) /\ inGroup \in [Node -> BOOLEAN]
  BY DEF GroupIsSet, Distinct, TypeOK
<1>2. Distinct(group') /\ Range(group') = Range(group) \ {GroupTail}
  BY <1>1, DistinctFront DEF GroupPopped, GroupFront, GroupTail
<1>3. inGroup' = [inGroup EXCEPT ![GroupTail] = FALSE]
  BY DEF GroupPopped
<1> QED BY <1>1, <1>2, <1>3

LEMMA GroupStep == TypeOK /\ GroupIsSet /\ [Next]_vars => GroupIsSet'
<1> SUFFICES ASSUME TypeOK, GroupIsSet, [Next]_vars PROVE GroupIsSet'
  OBVIOUS
<1>0. chip' = chip /\ Node' = Node
  BY ChipConstant DEF Node
<1>1. CASE RecalcNode
  <2>1. Head(queue) \in Node
    BY <1>1, RangeTail DEF RecalcNode, TypeOK
  <2> QED BY <1>0, <1>1, <2>1, GroupAddSet DEF RecalcNode, GroupIsSet, Distinct
<1>2. CASE FollowLeg
  <2>1. Head(todo) \in chip.trans \X Node
    BY <1>2, RangeTail DEF FollowLeg, TypeOK
  <2> QED BY <1>0, <1>2, <2>1, GroupAddSet DEF FollowLeg, GroupIsSet, Distinct
<1>3. CASE KeepLevel
  BY <1>0, <1>3, GroupPopSet DEF KeepLevel, GroupIsSet, Distinct
<1>4. CASE FlipLevel
  BY <1>0, <1>4, GroupPopSet DEF FlipLevel, GroupIsSet, Distinct
<1>5. CASE /\ UNCHANGED <<group, inGroup>>
           /\ phase' \in {"idle", "stabilize", "recalc"} =>
                phase \in {"idle", "stabilize", "recalc"} \/ group = <<>>
  BY <1>0, <1>5 DEF GroupIsSet
<1> QED BY <1>1, <1>2, <1>3, <1>4, <1>5
        DEF Next, Host, Internal, SetNode, StabilizeNetwork, StabilizePush, StabilizeRecalc,
            Recalc, RecalcReturn, SkipStale, SkipOpenLeg, GroupComplete, CommitChange,
            CommitReturn, UpdateReturn, vars, grouping

(* group_add puts no node on current_group twice, however the transistors  *)
(* that are on are connected, and group_pop undoes every mark: the buffer  *)
(* of nmos.cc:251 is never asked for more entries than there are nodes.    *)
THEOREM GroupCorrect == Spec => []GroupIsSet
BY TypeInit, TypeStep, GroupInit, GroupStep, PTL DEF Spec
-----------------------------------------------------------------------------
(* The reference definitions of SwitchNetwork at the levels and the flags  *)
(* of the simulator.                                                       *)

Legs(t) == {chip.c1[t], chip.c2[t]}

Component(n) ==
  LET closed(S) == \A t \in chip.trans :
                     on[t] /\ Legs(t) \subseteq Signals =>
                       (Legs(t) \cap S = {} \/ Legs(t) \subseteq S)
  IN {m \in Signals : \A S \in SUBSET Signals : n \in S /\ closed(S) => m \in S}

Touches(G, s) == \E t \in chip.trans : on[t] /\ s \in Legs(t) /\ Legs(t) \cap G # {}

AllowedLevels(G) ==
  LET charged == \E m \in G : high[m] /\ ~pullup[m] /\ ~pulldown[m]
  IN IF Touches(G, chip.ground) THEN {FALSE}
     ELSE IF Touches(G, chip.power) THEN {TRUE}
     ELSE IF \E m \in G : pulldown[m] THEN IF charged THEN BOOLEAN ELSE {FALSE}
     ELSE {\E m \in G : pullup[m] \/ high[m]}

LEMMA NetworkIs ==
  /\ Network!Node = Node /\ Network!Signals = Signals /\ Network!Supplies = Supplies
  /\ \A t : Network!Legs(t) = Legs(t)
  BY DEF Network!Node, Network!Signals, Network!Supplies, Network!Legs, Node, Signals, Supplies, Legs

LEMMA NetworkComponent == ASSUME NEW n PROVE Network!Component(on, n) = Component(n)
  BY NetworkIs, Zenon DEF Network!Component, Component, Network!Legs, Legs, Network!Signals,
     Signals, Network!Node, Node, Network!Supplies, Supplies

LEMMA NetworkLevels ==
  ASSUME NEW G
  PROVE  Network!AllowedLevels(on, high, G) = AllowedLevels(G)
<1>1. \A s : Network!Touches(on, G, s) <=> Touches(G, s)
  BY NetworkIs DEF Network!Touches, Touches
<1> QED BY <1>1 DEF Network!AllowedLevels, AllowedLevels

-----------------------------------------------------------------------------
(* The walk of group_add.  Joined(o, S): with the flags o, a transistor     *)
(* that is on has its two legs, if neither is a supply, on the same side    *)
(* of S.                                                                    *)

Joined(o, S) == \A t \in chip.trans :
  o[t] /\ Legs(t) \subseteq Signals => (Legs(t) \cap S = {} \/ Legs(t) \subseteq S)

(* m has been taken account of: it is in the group, or, being a supply,    *)
(* in the value of the group.                                              *)
Met(m) ==
  \/ m \in Range(group)
  \/ m = chip.ground /\ groupVal = "ground"
  \/ m = chip.power /\ groupVal \in {"ground", "power"}

(* A connector that leads out of the group by a transistor that is on is   *)
(* still to be looked at ...                                               *)
NoneMissed ==
  \A n \in Range(group) : \A con \in Range(chip.sibs[n]) :
    con \in Range(todo) \/ ~on[con[1]] \/ Met(con[2])

(* ... nothing else is to be looked at ...                                 *)
TodoLeadsOut == \A con \in Range(todo) : \E n \in Range(group) : con \in Range(chip.sibs[n])

(* ... and nothing joined the group that is not joined to its first node.  *)
OnlyJoined ==
  group # <<>> =>
    \A S \in SUBSET Signals : group[1] \in S /\ Joined(on, S) => Range(group) \subseteq S

(* What the value tells of the nodes met so far. *)
ValueTells ==
  LET G == Range(group) IN
  /\ groupVal = "ground" /\ group # <<>> => Touches(G, chip.ground)
  /\ groupVal = "power" /\ group # <<>> => Touches(G, chip.power)
  /\ groupVal = "pulldown" => \E m \in G : pulldown[m]
  /\ groupVal = "pullup" => /\ \E m \in G : pullup[m]
                            /\ \A m \in G : ~pulldown[m]
  /\ groupVal = "high" => \E m \in G : high[m] /\ ~pullup[m] /\ ~pulldown[m]
  /\ groupVal = "nothing" => \A m \in G : ~pulldown[m] /\ ~pullup[m] /\ ~high[m]

Walk == phase = "group" => NoneMissed /\ TodoLeadsOut /\ OnlyJoined /\ ValueTells

LEMMA RangeConcat ==
  ASSUME NEW S, NEW p \in Seq(S), NEW q \in Seq(S)
  PROVE  p \o q \in Seq(S) /\ Range(p \o q) = Range(p) \cup Range(q)
<1> DEFINE both == p \o q
<1>1. /\ DOMAIN p = 1 .. Len(p) /\ Len(p) \in Nat
      /\ DOMAIN q = 1 .. Len(q) /\ Len(q) \in Nat
  OBVIOUS
<1>2. /\ both \in Seq(S) /\ Len(both) = Len(p) + Len(q)
      /\ \A i \in 1 .. Len(p) + Len(q) : both[i] = IF i <= Len(p) THEN p[i] ELSE q[i - Len(p)]
  BY ConcatProperties
<1> HIDE DEF both
<1>3. DOMAIN both = 1 .. Len(p) + Len(q)
  BY <1>2
<1>4. \A i \in 1 .. Len(p) : i \in DOMAIN both /\ both[i] = p[i]
  BY <1>1, <1>2, <1>3
<1>5. \A i \in 1 .. Len(q) : Len(p) + i \in DOMAIN both /\ both[Len(p) + i] = q[i]
  BY <1>1, <1>2, <1>3
<1>6. \A i \in DOMAIN both : \/ i \in 1 .. Len(p) /\ both[i] = p[i]
                             \/ i - Len(p) \in 1 .. Len(q) /\ both[i] = q[i - Len(p)]
  BY <1>1, <1>2, <1>3
<1>7. Range(both) \subseteq Range(p) \cup Range(q)
  BY <1>1, <1>6, Zenon DEF Range
<1>8. Range(p) \subseteq Range(both)
  BY <1>1, <1>4, Zenon DEF Range
<1>9. Range(q) \subseteq Range(both)
  BY <1>1, <1>5, Zenon DEF Range
<1> QED BY <1>2, <1>7, <1>8, <1>9 DEF both

(* The connectors of a node and the legs of its transistors. *)
LEMMA ConnectorFacts ==
  ASSUME chip \in Chips
  PROVE  /\ \A n \in Node : \A con \in Range(chip.sibs[n]) :
              /\ con \in chip.trans \X Node
              /\ Legs(con[1]) = {n, con[2]}
         /\ \A t \in chip.trans : /\ <<t, chip.c2[t]>> \in Range(chip.sibs[chip.c1[t]])
                                  /\ <<t, chip.c1[t]>> \in Range(chip.sibs[chip.c2[t]])
<1>1. ConnectorsOK(chip)
  BY ChipsAssumption DEF ChipOK
<1>2. /\ \A n \in Node : \A con \in Range(chip.sibs[n]) :
           \/ chip.c1[con[1]] = n /\ chip.c2[con[1]] = con[2]
           \/ chip.c2[con[1]] = n /\ chip.c1[con[1]] = con[2]
      /\ \A t \in chip.trans : /\ <<t, chip.c2[t]>> \in Range(chip.sibs[chip.c1[t]])
                               /\ <<t, chip.c1[t]>> \in Range(chip.sibs[chip.c2[t]])
  BY <1>1, Zenon DEF ConnectorsOK, Node
<1>3. ASSUME NEW n \in Node, NEW con \in Range(chip.sibs[n]) PROVE con \in chip.trans \X Node
  <2>1. chip.sibs[n] \in Seq(chip.trans \X Node)
    BY ChipFacts
  <2>2. PICK i \in DOMAIN chip.sibs[n] : con = chip.sibs[n][i]
    BY Zenon DEF Range
  <2> QED BY <2>1, <2>2
<1>4. ASSUME NEW n \in Node, NEW con \in Range(chip.sibs[n]) PROVE Legs(con[1]) = {n, con[2]}
  BY <1>2 DEF Legs
<1> QED BY <1>2, <1>3, <1>4

(* What a connector of n by a transistor that is on says of n's neighbour. *)
LEMMA JoinedTo ==
  ASSUME TypeOK, NEW n \in Signals, NEW con \in Range(chip.sibs[n]), on[con[1]],
         con[2] \in Signals, NEW S \in SUBSET Signals, n \in S, Joined(on, S)
  PROVE  con[2] \in S
<1>1. con[1] \in chip.trans /\ Legs(con[1]) = {n, con[2]}
  BY ConnectorFacts DEF TypeOK, Signals
<1> QED BY <1>1 DEF Joined

LEMMA TouchesBy ==
  ASSUME TypeOK, NEW G, NEW n \in G, n \in Node, NEW con \in Range(chip.sibs[n]), on[con[1]]
  PROVE  Touches(G, con[2])
<1>1. con[1] \in chip.trans /\ Legs(con[1]) = {n, con[2]}
  BY ConnectorFacts DEF TypeOK
<1> QED BY <1>1 DEF Touches

-----------------------------------------------------------------------------
(* The first node. *)
LEMMA WalkStart ==
  ASSUME TypeOK, GroupIsSet, RecalcNode
  PROVE  Walk'
<1> DEFINE id == Head(queue)
<1>1. /\ chip' = chip /\ on' = on /\ high' = high /\ pullup' = pullup /\ pulldown' = pulldown
      /\ GroupAdd(id, [inChange EXCEPT ![id] = FALSE], "nothing", <<>>)
  BY DEF RecalcNode, wires, levels
<1>2. id \in Node /\ group = <<>>
  BY RangeTail DEF RecalcNode, TypeOK, GroupIsSet
<1>3. Node' = Node /\ Signals' = Signals
  BY <1>1 DEF Node, Signals, Supplies
<1> HIDE DEF id
<1>4. Range(<<>>) = {}
  BY DEF Range
<1>5. CASE group' = <<>> /\ todo' = <<>> /\ groupVal' \in {"ground", "power", "nothing"}
  <2>1. Range(group') = {} /\ Range(todo') = {}
    BY <1>4, <1>5
  <2>2. NoneMissed' /\ TodoLeadsOut' /\ OnlyJoined'
    BY <1>5, <2>1 DEF NoneMissed, TodoLeadsOut, OnlyJoined
  <2>3. ValueTells'
    BY <1>5, <2>1 DEF ValueTells
  <2> QED BY <2>2, <2>3 DEF Walk
<1>6. CASE /\ id \in Signals
           /\ group' = Append(group, id)
           /\ groupVal' = UpdatedValue("nothing", id)
           /\ todo' = chip.sibs[id] \o <<>>
  <2>1. group \in Seq(Signals) /\ chip.sibs[id] \in Seq(chip.trans \X Node)
    BY <1>2, ChipFacts DEF TypeOK
  <2>2. group' \in Seq(Signals) /\ Range(group') = {id}
    <3>1. Append(group, id) \in Seq(Signals) /\ Range(Append(group, id)) = Range(group) \cup {id}
      BY <1>6, <2>1, RangeAppend
    <3>2. Range(group) = {}
      BY <1>2, <1>4
    <3> QED BY <1>6, <3>1, <3>2
  <2>3. group'[1] = id
    <3>1. Len(group) = 0
      BY <1>2
    <3> QED BY <1>6, <2>1, <3>1, AppendProperties
  <2>4. Range(todo') = Range(chip.sibs[id])
    BY <1>6, <2>1, ConcatEmptySeq
  <2>5. NoneMissed' /\ TodoLeadsOut'
    BY <1>1, <2>2, <2>4 DEF NoneMissed, TodoLeadsOut
  <2>6. OnlyJoined'
    BY <2>2, <2>3 DEF OnlyJoined
  <2>7. ValueTells'
    <3>1. /\ pulldown[id] \in BOOLEAN /\ pullup[id] \in BOOLEAN /\ high[id] \in BOOLEAN
      BY <1>2 DEF TypeOK
    <3>2. groupVal' = IF pulldown[id] THEN "pulldown" ELSE IF pullup[id] THEN "pullup"
                      ELSE IF high[id] THEN "high" ELSE "nothing"
      BY <1>6 DEF UpdatedValue
    <3> QED BY <1>1, <2>2, <3>1, <3>2 DEF ValueTells
  <2> QED BY <2>5, <2>6, <2>7 DEF Walk
<1> QED BY <1>1, <1>2, <1>5, <1>6 DEF GroupAdd

(* The leg of a transistor that is off is passed over. *)
LEMMA WalkSkip ==
  ASSUME TypeOK, Walk, SkipOpenLeg
  PROVE  Walk'
<1>1. /\ chip' = chip /\ on' = on /\ high' = high /\ pullup' = pullup /\ pulldown' = pulldown
      /\ group' = group /\ groupVal' = groupVal /\ ~on[Head(todo)[1]]
      /\ phase = "group"
  BY DEF SkipOpenLeg, wires, levels
<1>2. Range(todo) = {Head(todo)} \cup Range(todo')
  BY RangeTail DEF SkipOpenLeg, TypeOK
<1>3. NoneMissed /\ TodoLeadsOut /\ OnlyJoined /\ ValueTells
  BY <1>1 DEF Walk
<1>4. NoneMissed'
  BY <1>1, <1>2, <1>3 DEF NoneMissed, Met
<1>5. TodoLeadsOut'
  BY <1>1, <1>2, <1>3 DEF TodoLeadsOut
<1>6. OnlyJoined'
  BY <1>1, <1>3 DEF OnlyJoined, Joined, Signals, Supplies, Node, Legs
<1>7. ValueTells'
  BY <1>1, <1>3 DEF ValueTells, Touches, Legs
<1> QED BY <1>4, <1>5, <1>6, <1>7 DEF Walk

(* The leg of one that is on leads to a supply, to a node of the group, or *)
(* to a node that joins it.                                                *)
LEMMA WalkFollow ==
  ASSUME TypeOK, GroupIsSet, Walk, FollowLeg
  PROVE  Walk'
<1>0. PICK con \in chip.trans \X Node : con = Head(todo)
  BY RangeTail DEF FollowLeg, TypeOK
<1> DEFINE id == con[2]
           G  == Range(group)
<1>1. /\ chip' = chip /\ on' = on /\ high' = high /\ pullup' = pullup /\ pulldown' = pulldown
      /\ on[con[1]] /\ phase = "group"
      /\ GroupAdd(id, inChange, groupVal, Tail(todo))
  BY <1>0 DEF FollowLeg, wires, levels
<1>2. /\ con \in chip.trans \X Node
      /\ Tail(todo) \in Seq(chip.trans \X Node)
      /\ Range(todo) = {con} \cup Range(Tail(todo))
  BY <1>0, RangeTail DEF FollowLeg, TypeOK
<1>3. NoneMissed /\ TodoLeadsOut /\ OnlyJoined /\ ValueTells
  BY <1>1 DEF Walk
<1>4. PICK n \in G : con \in Range(chip.sibs[n])
  BY <1>2, <1>3 DEF TodoLeadsOut
<1>5. Node' = Node /\ Signals' = Signals
  BY <1>1 DEF Node, Signals, Supplies
<1>6. id \in Node /\ n \in Signals /\ n \in Node /\ group \in Seq(Signals) /\ group # <<>>
  <2>1. group \in Seq(Signals) /\ id \in Node
    BY <1>2 DEF TypeOK
  <2>2. n \in Signals /\ group # <<>>
    BY <1>4, <2>1 DEF Range
  <2> QED BY <2>1, <2>2 DEF Signals
<1>7. Touches(G, id)
  BY <1>1, <1>4, <1>6, TouchesBy
<1> HIDE DEF id
<1>8. ASSUME group' = group, todo' = Tail(todo),
             \A m \in Node : Met(m) => Met(m)',
             Met(id)', ValueTells'
      PROVE  Walk'
  <2>1. \A k \in G : \A c \in Range(chip.sibs[k]) : c[2] \in Node
    <3>1. \A k \in G : k \in Node
      BY <1>6 DEF Range, Signals
    <3> QED BY <3>1, ConnectorFacts DEF TypeOK
  <2>2. NoneMissed'
    <3> SUFFICES ASSUME NEW k \in G, NEW c \in Range(chip.sibs[k]), on[c[1]], c \notin Range(Tail(todo))
                 PROVE  Met(c[2])'
      BY <1>1, <1>8 DEF NoneMissed
    <3>1. CASE c = con
      BY <1>8, <3>1 DEF id
    <3>2. CASE c # con
      BY <1>2, <1>3, <1>8, <2>1, <3>2 DEF NoneMissed
    <3> QED BY <3>1, <3>2
  <2>3. TodoLeadsOut'
    BY <1>1, <1>2, <1>3, <1>8 DEF TodoLeadsOut
  <2>4. OnlyJoined'
    BY <1>1, <1>3, <1>5, <1>8 DEF OnlyJoined, Joined, Legs
  <2> QED BY <1>8, <2>2, <2>3, <2>4 DEF Walk
<1>9. CASE id = chip.ground
  <2>1. group' = group /\ todo' = Tail(todo) /\ groupVal' = "ground"
    BY <1>1, <1>9, ChipFacts DEF GroupAdd, Signals, Supplies, TypeOK
  <2>2. ValueTells'
    BY <1>1, <1>7, <1>9, <2>1 DEF ValueTells, Touches, Legs
  <2>3. Met(id)' /\ \A m \in Node : Met(m) => Met(m)'
    BY <1>1, <1>9, <2>1 DEF Met
  <2> QED BY <1>8, <2>1, <2>2, <2>3
<1>10. CASE id = chip.power
  <2>1. /\ group' = group /\ todo' = Tail(todo)
        /\ groupVal' = IF groupVal = "ground" THEN groupVal ELSE "power"
    BY <1>1, <1>10, ChipFacts DEF GroupAdd, Signals, Supplies, TypeOK
  <2>2. ValueTells'
    BY <1>1, <1>3, <1>6, <1>7, <1>10, <2>1 DEF ValueTells, Touches, Legs
  <2>3. Met(id)' /\ \A m \in Node : Met(m) => Met(m)'
    BY <1>1, <1>10, <2>1 DEF Met
  <2> QED BY <1>8, <2>1, <2>2, <2>3
<1>11. CASE id \in Signals /\ inGroup[id]
  <2>1. group' = group /\ todo' = Tail(todo) /\ groupVal' = groupVal
    BY <1>1, <1>11 DEF GroupAdd, Signals, Supplies
  <2>2. ValueTells'
    BY <1>1, <1>3, <2>1 DEF ValueTells, Touches, Legs
  <2>3. id \in G
    BY <1>6, <1>11 DEF GroupIsSet
  <2>4. Met(id)' /\ \A m \in Node : Met(m) => Met(m)'
    BY <1>1, <2>1, <2>3 DEF Met
  <2> QED BY <1>8, <2>1, <2>2, <2>4
<1>12. CASE id \in Signals /\ ~inGroup[id]
  <2>1. /\ group' = Append(group, id)
        /\ groupVal' = UpdatedValue(groupVal, id)
        /\ todo' = chip.sibs[id] \o Tail(todo)
    BY <1>1, <1>12 DEF GroupAdd, Signals, Supplies
  <2>2. Range(group') = G \cup {id} /\ group'[1] = group[1]
    <3>1. Len(group) \in Nat \ {0}
      BY <1>6
    <3>2. Range(Append(group, id)) = G \cup {id}
      BY <1>6, <1>12, RangeAppend
    <3>3. Append(group, id)[1] = group[1]
      BY <1>6, <1>12, <3>1, AppendProperties
    <3> QED BY <2>1, <3>2, <3>3
  <2>3. Range(todo') = Range(chip.sibs[id]) \cup Range(Tail(todo))
    <3>1. chip.sibs[id] \in Seq(chip.trans \X Node)
      BY <1>6, ChipFacts DEF TypeOK
    <3>2. Tail(todo) \in Seq(chip.trans \X Node)
      BY <1>2
    <3>3. Range(chip.sibs[id] \o Tail(todo)) = Range(chip.sibs[id]) \cup Range(Tail(todo))
      BY <3>1, <3>2, RangeConcat
    <3> QED BY <2>1, <3>3
  <2>4. \A m \in Node : Met(m) => Met(m)'
    <3>1. groupVal = "ground" => groupVal' = "ground"
      BY <2>1 DEF UpdatedValue
    <3>2. groupVal = "power" => groupVal' = "power"
      BY <2>1 DEF UpdatedValue
    <3> QED BY <1>1, <2>2, <3>1, <3>2 DEF Met
  <2>5. NoneMissed'
    <3> SUFFICES ASSUME NEW k \in G \cup {id}, NEW c \in Range(chip.sibs[k]), on[c[1]],
                        c \notin Range(todo')
                 PROVE  Met(c[2])'
      BY <1>1, <2>2 DEF NoneMissed
    <3>1. k \in G /\ c \notin Range(Tail(todo))
      BY <2>3
    <3>2. CASE c = con
      BY <2>2, <3>2 DEF Met, id
    <3>3. CASE c # con
      <4>1. Met(c[2])
        BY <1>2, <1>3, <3>1, <3>3 DEF NoneMissed
      <4>2. k \in Node
        BY <1>6, <3>1 DEF Range, Signals
      <4>3. c[2] \in Node
        BY <4>2, ConnectorFacts DEF TypeOK
      <4> QED BY <2>4, <4>1, <4>3
    <3> QED BY <3>2, <3>3
  <2>6. TodoLeadsOut'
    BY <1>1, <1>2, <1>3, <2>2, <2>3 DEF TodoLeadsOut
  <2>7. OnlyJoined'
    <3> SUFFICES ASSUME NEW S \in SUBSET Signals, group[1] \in S, Joined(on, S)
                 PROVE  G \cup {id} \subseteq S
      BY <1>1, <1>5, <2>2 DEF OnlyJoined, Joined, Legs
    <3>1. G \subseteq S
      BY <1>3, <1>6 DEF OnlyJoined
    <3>2. id \in S
      BY <1>1, <1>4, <1>6, <1>12, <3>1, JoinedTo DEF id
    <3> QED BY <3>1, <3>2
  <2>8. ValueTells'
    <3>1. \A m \in G \cup {id} : /\ pulldown[m] \in BOOLEAN /\ pullup[m] \in BOOLEAN
                                 /\ high[m] \in BOOLEAN
      BY <1>6 DEF TypeOK, Range, Signals
    <3>2. groupVal' \in {"ground", "power"} => groupVal' = groupVal
      BY <2>1 DEF UpdatedValue
    <3>3. \A s \in Node : Touches(G, s) => Touches(G \cup {id}, s)
      BY DEF Touches
    <3>4. /\ groupVal' = "ground" => Touches(G \cup {id}, chip.ground)
          /\ groupVal' = "power" => Touches(G \cup {id}, chip.power)
      BY <1>3, <1>6, <3>2, <3>3, ChipFacts DEF ValueTells, TypeOK
    <3>5. /\ groupVal' = "pulldown" => \E m \in G \cup {id} : pulldown[m]
          /\ groupVal' = "pullup" => /\ \E m \in G \cup {id} : pullup[m]
                                     /\ \A m \in G \cup {id} : ~pulldown[m]
      BY <1>3, <2>1, <3>1 DEF ValueTells, UpdatedValue
    <3>6. groupVal' = "high" => \E m \in G \cup {id} : high[m] /\ ~pullup[m] /\ ~pulldown[m]
      BY <1>3, <2>1, <3>1 DEF ValueTells, UpdatedValue
    <3>7. groupVal' = "nothing" =>
            \A m \in G \cup {id} : ~pulldown[m] /\ ~pullup[m] /\ ~high[m]
      BY <1>3, <2>1, <3>1 DEF ValueTells, UpdatedValue
    <3> QED BY <1>1, <2>2, <3>4, <3>5, <3>6, <3>7 DEF ValueTells, Touches, Legs
  <2> QED BY <2>5, <2>6, <2>7, <2>8 DEF Walk
<1> QED BY <1>6, <1>9, <1>10, <1>11, <1>12 DEF Signals, Supplies

LEMMA WalkStep == TypeOK /\ GroupIsSet /\ Walk /\ [Next]_vars => Walk'
<1> SUFFICES ASSUME TypeOK, GroupIsSet, Walk, [Next]_vars PROVE Walk'
  OBVIOUS
<1>1. CASE RecalcNode
  BY <1>1, WalkStart
<1>2. CASE SkipOpenLeg
  BY <1>2, WalkSkip
<1>3. CASE FollowLeg
  BY <1>3, WalkFollow
<1>4. CASE phase' # "group"
  BY <1>4 DEF Walk
<1>5. CASE UNCHANGED vars
  BY <1>5 DEF vars, wires, levels, grouping, Walk, NoneMissed, Met, TodoLeadsOut, OnlyJoined,
     Joined, ValueTells, Touches, Legs, Signals, Supplies, Node
<1>6. RecalcNode \/ SkipOpenLeg \/ FollowLeg \/ phase' # "group" \/ UNCHANGED vars
  BY DEF Next, Host, Internal, SetNode, StabilizeNetwork, StabilizePush, StabilizeRecalc,
     Recalc, RecalcReturn, SkipStale, GroupComplete, KeepLevel, FlipLevel, CommitChange,
     CommitReturn, UpdateReturn
<1> QED BY <1>1, <1>2, <1>3, <1>4, <1>5, <1>6

-----------------------------------------------------------------------------
(* The walk at its end. *)

LEMMA ComponentIs ==
  ASSUME NEW n
  PROVE  Component(n) =
           {m \in Signals : \A S \in SUBSET Signals : n \in S /\ Joined(on, S) => m \in S}
  BY Zenon DEF Component, Joined

LEMMA WalkEnds ==
  ASSUME TypeOK, Walk, phase = "group", todo = <<>>, group # <<>>
  PROVE  /\ Range(group) = Component(group[1])
         /\ GroupHigh \in AllowedLevels(Range(group))
<1> DEFINE G == Range(group)
<1>1. NoneMissed /\ OnlyJoined /\ ValueTells
  BY DEF Walk
<1>2. group \in Seq(Signals) /\ G \subseteq Signals /\ group[1] \in G
  <2>1. group \in Seq(Signals) /\ Len(group) \in Nat \ {0}
    BY DEF TypeOK
  <2> QED BY <2>1 DEF Range
<1>3. \A n \in G : \A con \in Range(chip.sibs[n]) : on[con[1]] => Met(con[2])
  <2>1. Range(todo) = {}
    BY DEF Range
  <2> QED BY <1>1, <2>1 DEF NoneMissed
<1>4. ASSUME NEW t \in chip.trans, on[t], Legs(t) \cap G # {}
      PROVE  \A m \in Legs(t) : m \in G \/ Met(m)
  <2>1. /\ <<t, chip.c2[t]>> \in Range(chip.sibs[chip.c1[t]])
        /\ <<t, chip.c1[t]>> \in Range(chip.sibs[chip.c2[t]])
    BY ConnectorFacts DEF TypeOK
  <2>2. CASE chip.c1[t] \in G
    BY <1>3, <1>4, <2>1, <2>2 DEF Legs
  <2>3. CASE chip.c2[t] \in G
    BY <1>3, <1>4, <2>1, <2>3 DEF Legs
  <2> QED BY <1>4, <2>2, <2>3 DEF Legs
<1>5. Joined(on, G)
  BY <1>2, <1>4 DEF Joined, Met, Signals, Supplies
<1>6. G = Component(group[1])
  <2>1. G \subseteq Component(group[1])
    BY <1>1, <1>2, ComponentIs DEF OnlyJoined
  <2>2. Component(group[1]) \subseteq G
    BY <1>2, <1>5, ComponentIs
  <2> QED BY <2>1, <2>2
<1>7. Touches(G, chip.ground) => groupVal = "ground"
  BY <1>2, <1>4, ChipFacts DEF Touches, Met, Signals, Supplies, TypeOK
<1>8. Touches(G, chip.power) => groupVal \in {"ground", "power"}
  BY <1>2, <1>4, ChipFacts DEF Touches, Met, Signals, Supplies, TypeOK
<1>9. \A m \in G : pulldown[m] \in BOOLEAN /\ pullup[m] \in BOOLEAN /\ high[m] \in BOOLEAN
  BY <1>2 DEF TypeOK, Signals
<1>10. GroupHigh \in AllowedLevels(G)
  <2>1. groupVal \in Contents
    BY DEF TypeOK
  <2>2. CASE groupVal = "ground"
    <3>1. GroupHigh = FALSE
      BY <2>2 DEF GroupHigh
    <3>2. FALSE \in AllowedLevels(G)
      BY <1>1, <2>2 DEF ValueTells, AllowedLevels
    <3> QED BY <3>1, <3>2
  <2>3. CASE groupVal = "power"
    BY <1>1, <1>7, <2>3 DEF GroupHigh, ValueTells, AllowedLevels
  <2>4. CASE groupVal = "pulldown"
    <3>1. GroupHigh = FALSE
      BY <2>4 DEF GroupHigh
    <3>2. FALSE \in AllowedLevels(G)
      BY <1>1, <1>7, <1>8, <2>4 DEF ValueTells, AllowedLevels
    <3> QED BY <3>1, <3>2
  <2>5. CASE groupVal = "pullup"
    BY <1>1, <1>7, <1>8, <1>9, <2>5 DEF GroupHigh, ValueTells, AllowedLevels
  <2>6. CASE groupVal = "high"
    BY <1>1, <1>7, <1>8, <1>9, <2>6 DEF GroupHigh, ValueTells, AllowedLevels
  <2>7. CASE groupVal = "nothing"
    <3>1. GroupHigh = FALSE
      BY <2>7 DEF GroupHigh
    <3>2. FALSE \in AllowedLevels(G)
      BY <1>1, <1>7, <1>8, <1>9, <2>7 DEF ValueTells, AllowedLevels
    <3> QED BY <3>1, <3>2
  <2> QED BY <2>1, <2>2, <2>3, <2>4, <2>5, <2>6, <2>7 DEF Contents
<1> QED BY <1>6, <1>10

LEMMA WalkInit == Init => Walk
  BY DEF Init, Walk

(* The depth-first walk of group_add, stopped by marks and supplies, finds *)
(* exactly the nodes joined to the first one, and a level that the sources *)
(* among them and the supplies they touch allow, for every netlist.        *)
THEOREM WalkCorrect == Spec => []GroupIsComponent
<1>1. TypeOK /\ Walk => GroupIsComponent
  BY WalkEnds, NetworkComponent, NetworkLevels DEF GroupIsComponent
<1> QED BY <1>1, TypeInit, TypeStep, GroupInit, GroupStep, WalkInit, WalkStep, PTL DEF Spec

-----------------------------------------------------------------------------
(* change_order: what one flip collects, and no more than one flip's legs  *)
(* are ever in it.                                                         *)

LEMMA ImageFits ==
  ASSUME NEW S, IsFiniteSet(S), NEW T, NEW f \in [S -> T], \A y \in T : \E x \in S : f[x] = y
  PROVE  IsFiniteSet(T) /\ Cardinality(T) <= Cardinality(S)
<1>1. f \in Surjection(S, T)
  BY Zenon DEF Surjection
<1> QED BY <1>1, FS_Surjection

LEMMA LegChangesFit ==
  ASSUME TypeOK, NEW id \in Node, NEW level \in BOOLEAN, NEW lv
  PROVE  /\ IsFiniteSet(LegChanges(id, level, lv))
         /\ Cardinality(LegChanges(id, level, lv)) <= chip.count
<1> DEFINE gated    == {t \in chip.trans : chip.gate[t] = id}
           uneven   == {t \in gated : lv[chip.c1[t]] # lv[chip.c2[t]]}
           woken(t) == IF chip.c1[t] \notin Supplies THEN chip.c1[t] ELSE chip.c2[t]
           one      == {<<woken(t), t, 1>> : t \in uneven}
           first    == {<<chip.c1[t], t, 1>> : t \in gated}
           second   == {<<chip.c2[t], t, 2>> : t \in gated}
<1>1. TransistorsOK(chip) /\ FanOutOK(chip) /\ chip.count \in Nat
  BY ChipsAssumption DEF ChipOK, NodesOK, TypeOK
<1>2. IsFiniteSet(gated) /\ Cardinality(gated) \in Nat
  BY <1>1, FS_Subset, FS_CardinalityType DEF TransistorsOK
<1>3. 2 * Cardinality(gated) <= chip.count
  BY <1>1 DEF FanOutOK, Node
<1>4. CASE level
  <2>1. IsFiniteSet(uneven) /\ Cardinality(uneven) \in Nat /\ Cardinality(uneven) <= Cardinality(gated)
    BY <1>2, FS_Subset, FS_CardinalityType
  <2>2. IsFiniteSet(one) /\ Cardinality(one) <= Cardinality(uneven)
    <3> DEFINE f == [t \in uneven |-> <<woken(t), t, 1>>]
    <3>1. f \in [uneven -> one] /\ \A y \in one : \E t \in uneven : f[t] = y
      BY Zenon
    <3> HIDE DEF f, one, uneven
    <3> QED BY <2>1, <3>1, ImageFits
  <2>3. LegChanges(id, level, lv) = one
    BY <1>4, Zenon DEF LegChanges
  <2>4. Cardinality(one) \in Nat
    BY <2>2, FS_CardinalityType
  <2> HIDE DEF one, uneven, gated
  <2> QED BY <1>1, <1>2, <1>3, <2>1, <2>2, <2>3, <2>4
<1>5. CASE ~level
  <2>1. IsFiniteSet(first) /\ Cardinality(first) <= Cardinality(gated)
    <3> DEFINE f == [t \in gated |-> <<chip.c1[t], t, 1>>]
    <3>1. f \in [gated -> first] /\ \A y \in first : \E t \in gated : f[t] = y
      BY Zenon
    <3> HIDE DEF f, first, gated
    <3> QED BY <1>2, <3>1, ImageFits
  <2>2. IsFiniteSet(second) /\ Cardinality(second) <= Cardinality(gated)
    <3> DEFINE f == [t \in gated |-> <<chip.c2[t], t, 2>>]
    <3>1. f \in [gated -> second] /\ \A y \in second : \E t \in gated : f[t] = y
      BY Zenon
    <3> HIDE DEF f, second, gated
    <3> QED BY <1>2, <3>1, ImageFits
  <2>3. LegChanges(id, level, lv) = first \cup second
    BY <1>5, Zenon DEF LegChanges
  <2> HIDE DEF first, second, gated
  <2>4. /\ IsFiniteSet(first \cup second)
        /\ Cardinality(first \cup second) =
             Cardinality(first) + Cardinality(second) - Cardinality(first \cap second)
        /\ Cardinality(first) \in Nat /\ Cardinality(second) \in Nat
        /\ Cardinality(first \cap second) \in Nat
    <3>1. IsFiniteSet(first \cap second)
      BY <2>1, FS_Subset
    <3> QED BY <2>1, <2>2, <3>1, FS_Union, FS_CardinalityType
  <2> QED BY <1>1, <1>2, <1>3, <2>1, <2>2, <2>3, <2>4
<1> QED BY <1>4, <1>5

LEMMA FitsStep ==
  TypeOK /\ IsFiniteSet(changes) /\ ChangeOrderFits /\ [Next]_vars
    => (IsFiniteSet(changes) /\ ChangeOrderFits)'
<1> SUFFICES ASSUME TypeOK, IsFiniteSet(changes), ChangeOrderFits, [Next]_vars
             PROVE  IsFiniteSet(changes') /\ Cardinality(changes') <= chip.count
  BY ChipConstant DEF ChangeOrderFits
<1>1. CASE FlipLevel
  <2>1. GroupTail \in Node /\ GroupHigh \in BOOLEAN
    BY <1>1, ChipConstant, PopType DEF FlipLevel, Signals, GroupHigh
  <2> QED BY <1>1, <2>1, LegChangesFit DEF FlipLevel
<1>2. CASE changes' \subseteq changes
  <2>1. IsFiniteSet(changes') /\ Cardinality(changes') <= Cardinality(changes)
    BY <1>2, FS_Subset
  <2>2. Cardinality(changes') \in Nat /\ Cardinality(changes) \in Nat /\ chip.count \in Nat
    BY <2>1, FS_CardinalityType, ChipFacts DEF TypeOK
  <2> QED BY <2>1, <2>2 DEF ChangeOrderFits
<1>3. FlipLevel \/ changes' \subseteq changes
  BY DEF Next, Host, Internal, SetNode, StabilizeNetwork, StabilizePush, StabilizeRecalc,
     Recalc, RecalcReturn, SkipStale, RecalcNode, SkipOpenLeg, FollowLeg, GroupComplete,
     KeepLevel, CommitChange, CommitReturn, UpdateReturn, vars
<1> QED BY <1>1, <1>2, <1>3

(* The unchecked buffer change_order never overflows, as long as no node   *)
(* gates more transistors than half the number of nodes (FanOutOK).        *)
THEOREM ChangeOrderHolds == Spec => []ChangeOrderFits
<1>1. Init => IsFiniteSet(changes) /\ ChangeOrderFits
  <2>1. Init => changes = {} /\ chip.count \in Nat
    BY ChipFacts DEF Init
  <2> QED BY <2>1, FS_EmptySet DEF ChangeOrderFits
<1> QED BY <1>1, TypeInit, TypeStep, FitsStep, PTL DEF Spec

-----------------------------------------------------------------------------
(* The event-driven claim.  The operators below are those of               *)
(* NmosProperties with the flags o of the transistors and the levels h of  *)
(* the nodes as parameters (so has Joined of NmosProofs), to compare them  *)
(* across a flip.                                                          *)

Comp(o, n) == {m \in Signals : \A S \in SUBSET Signals : n \in S /\ Joined(o, S) => m \in S}

Reaches(o, G, s) == \E t \in chip.trans : o[t] /\ s \in Legs(t) /\ Legs(t) \cap G # {}

Pulled(G, dir) == \E m \in G : dir[m]

Allowed(o, h, G, l) ==
  /\ Reaches(o, G, chip.ground) => ~l
  /\ ~Reaches(o, G, chip.ground) /\ Reaches(o, G, chip.power) => l
  /\ ~Reaches(o, G, chip.ground) /\ ~Reaches(o, G, chip.power) /\ Pulled(G, pulldown) =>
       (l => \E m \in G : h[m] /\ ~pullup[m] /\ ~pulldown[m])
  /\ ~Reaches(o, G, chip.ground) /\ ~Reaches(o, G, chip.power) /\ ~Pulled(G, pulldown) =>
       (l <=> Pulled(G, pullup) \/ \E m \in G : h[m])

Settled(o, h, n) ==
  \E l \in BOOLEAN : Allowed(o, h, Comp(o, n), l) /\ \A m \in Comp(o, n) : h[m] = l

(* The nodes that are on the queue or about to be. *)
Pending == {m \in Node : inChange[m] \/ \E ch \in changes : ch[1] = m}

Accounted(n) == Comp(on, n) \cap Pending # {} \/ Settled(on, Target, n)

InHand(n) == phase = "group" /\ group # <<>> /\ n \in Comp(on, group[1])

SuppliesHold     == ~high[chip.ground] /\ high[chip.power]
CommitsAll       == phase # "commit" => changes = {}
SameChannel      == \A m, k \in Range(group) : chip.channel[m] = chip.channel[k]
StabilizeMarks   == phase = "stabilize" => \A n \in Node : n < cursor => inChange[n]
NothingForgotten ==
  stabilized /\ phase # "stabilize" /\ Separated(chip) =>
    \A n \in Signals : InHand(n) \/ Accounted(n)

Events == SuppliesHold /\ CommitsAll /\ SameChannel /\ StabilizeMarks /\ NothingForgotten
-----------------------------------------------------------------------------
(* Comp(o, n) is a component of the graph whose edges are the transistors  *)
(* that are on between two signals.                                        *)

LEMMA CompHas ==
  ASSUME NEW o, NEW n \in Signals
  PROVE  n \in Comp(o, n) /\ Comp(o, n) \subseteq Signals
  BY DEF Comp

LEMMA CompLeast ==
  ASSUME NEW o, NEW n, NEW S \in SUBSET Signals, n \in S, Joined(o, S)
  PROVE  Comp(o, n) \subseteq S
  BY DEF Comp

LEMMA CompJoined ==
  ASSUME NEW o, NEW n
  PROVE  Joined(o, Comp(o, n))
<1> SUFFICES ASSUME NEW t \in chip.trans, o[t], Legs(t) \subseteq Signals,
                    NEW a \in Legs(t), a \in Comp(o, n), NEW b \in Legs(t)
             PROVE  b \in Comp(o, n)
  BY DEF Joined
<1> SUFFICES ASSUME NEW S \in SUBSET Signals, n \in S, Joined(o, S)
             PROVE  b \in S
  BY DEF Comp
<1>1. a \in S
  BY DEF Comp
<1> QED BY <1>1 DEF Joined

(* What is left of the signals when a component is taken away is joined    *)
(* too, so belonging to a component is symmetric.                          *)
LEMMA CompSame ==
  ASSUME NEW o, NEW n \in Signals, NEW m \in Comp(o, n)
  PROVE  Comp(o, m) = Comp(o, n)
<1>1. m \in Signals /\ Comp(o, m) \subseteq Comp(o, n)
  BY CompHas, CompJoined, CompLeast
<1>2. n \in Comp(o, m)
  <2> SUFFICES ASSUME n \notin Comp(o, m) PROVE FALSE
    OBVIOUS
  <2> DEFINE rest == Signals \ Comp(o, m)
  <2>1. Joined(o, rest)
    BY CompJoined DEF Joined
  <2>2. Comp(o, n) \subseteq rest
    BY <2>1, CompLeast
  <2> QED BY <1>1, <2>2, CompHas
<1>3. Comp(o, n) \subseteq Comp(o, m)
  BY <1>1, <1>2, CompHas, CompJoined, CompLeast
<1> QED BY <1>1, <1>3

LEMMA CompApart ==
  ASSUME NEW o, NEW n \in Signals, NEW k \in Signals, n \notin Comp(o, k)
  PROVE  Comp(o, n) \cap Comp(o, k) = {}
<1> SUFFICES ASSUME NEW m \in Comp(o, n), m \in Comp(o, k) PROVE FALSE
  OBVIOUS
<1>1. Comp(o, m) = Comp(o, n) /\ Comp(o, m) = Comp(o, k)
  BY CompSame
<1> QED BY <1>1, CompHas

(* The definitions of NmosProperties, at the present flags and levels. *)
LEMMA ComponentComp == ASSUME NEW n PROVE Component(n) = Comp(on, n)
  BY ComponentIs DEF Comp

LEMMA AllowedIs ==
  ASSUME TypeOK, NEW G \in SUBSET Signals, NEW l \in BOOLEAN
  PROVE  l \in AllowedLevels(G) <=> Allowed(on, high, G, l)
<1>1. \A m \in G : pulldown[m] \in BOOLEAN /\ pullup[m] \in BOOLEAN /\ high[m] \in BOOLEAN
  BY DEF TypeOK, Signals
<1>2. \A s : Touches(G, s) <=> Reaches(on, G, s)
  BY DEF Touches, Reaches
<1>3. CASE Touches(G, chip.ground)
  BY <1>2, <1>3 DEF AllowedLevels, Allowed
<1>4. CASE ~Touches(G, chip.ground) /\ Touches(G, chip.power)
  BY <1>2, <1>4 DEF AllowedLevels, Allowed
<1>5. CASE ~Touches(G, chip.ground) /\ ~Touches(G, chip.power) /\ \E m \in G : pulldown[m]
  BY <1>1, <1>2, <1>5 DEF AllowedLevels, Allowed, Pulled
<1>6. CASE ~Touches(G, chip.ground) /\ ~Touches(G, chip.power) /\ ~\E m \in G : pulldown[m]
  <2>1. AllowedLevels(G) = {\E m \in G : pullup[m] \/ high[m]}
    BY <1>6 DEF AllowedLevels
  <2>2. Allowed(on, high, G, l) <=> (l <=> \E m \in G : pullup[m] \/ high[m])
    BY <1>2, <1>6 DEF Allowed, Pulled
  <2>3. l \in AllowedLevels(G) <=> (l <=> \E m \in G : pullup[m] \/ high[m])
    BY <2>1
  <2> QED BY <2>2, <2>3
<1> QED BY <1>3, <1>4, <1>5, <1>6

-----------------------------------------------------------------------------
(* Transistors that go off: both legs are pending, so a component without  *)
(* pending nodes has not changed.                                          *)
LEMMA GoneOff ==
  ASSUME chip \in Chips, NEW o, NEW p, NEW h, NEW T \in SUBSET chip.trans, NEW P,
         \A t \in chip.trans \ T : p[t] = o[t],
         \A t \in T : ~p[t] /\ Legs(t) \subseteq P,
         \A n \in Signals : Comp(o, n) \cap P # {} \/ Settled(o, h, n)
  PROVE  \A n \in Signals : Comp(p, n) \cap P # {} \/ Settled(p, h, n)
<1> SUFFICES ASSUME NEW n \in Signals, Comp(p, n) \cap P = {} PROVE Settled(p, h, n)
  OBVIOUS
<1> DEFINE C == Comp(p, n)
<1>1. \A t \in chip.trans : Legs(t) \cap C # {} => t \notin T
  <2>1. \A t \in chip.trans : \E a : a \in Legs(t)
    BY DEF Legs
  <2> QED BY <2>1
<1>2. C = Comp(o, n)
  <2>1. Joined(o, C)
    BY <1>1, CompJoined DEF Joined
  <2>2. Joined(p, Comp(o, n))
    <3>1. \A t \in chip.trans : p[t] => t \notin T /\ o[t]
      OBVIOUS
    <3> QED BY <3>1, CompJoined DEF Joined
  <2>3. Comp(o, n) \subseteq C
    BY <2>1, CompHas, CompLeast
  <2>4. C \subseteq Comp(o, n)
    BY <2>2, CompHas, CompLeast
  <2> QED BY <2>3, <2>4
<1>3. \A s : Reaches(p, C, s) <=> Reaches(o, C, s)
  BY <1>1 DEF Reaches
<1>4. Settled(o, h, n)
  BY <1>2
<1> QED BY <1>2, <1>3, <1>4 DEF Settled, Allowed

(* Transistors that go on: where the two legs differed, the leg that is    *)
(* not a supply is pending.  A new component without pending nodes is a    *)
(* union of settled ones, and every transistor that joins two of them has  *)
(* legs at equal levels, so that all have one level, which the sources of  *)
(* each allow.                                                             *)
LEMMA GoneOn ==
  ASSUME chip \in Chips, NEW o, NEW p, NEW h \in [Node -> BOOLEAN],
         NEW T \in SUBSET chip.trans, NEW P,
         ~h[chip.ground], h[chip.power],
         \A t \in chip.trans \ T : p[t] = o[t],
         \A t \in T : p[t] /\ ~o[t],
         \A t \in T : h[chip.c1[t]] # h[chip.c2[t]] =>
                        (IF chip.c1[t] \notin Supplies THEN chip.c1[t] ELSE chip.c2[t]) \in P,
         \A n \in Signals : Comp(o, n) \cap P # {} \/ Settled(o, h, n)
  PROVE  \A n \in Signals : Comp(p, n) \cap P # {} \/ Settled(p, h, n)
<1> SUFFICES ASSUME NEW n \in Signals, Comp(p, n) \cap P = {} PROVE Settled(p, h, n)
  OBVIOUS
<1> DEFINE C == Comp(p, n)
<1>1. C \subseteq Signals /\ n \in C /\ Joined(p, C) /\ Signals \subseteq Node
  BY CompHas, CompJoined DEF Signals
<1>2. \A t \in chip.trans : o[t] => p[t]
  OBVIOUS
<1>3. ASSUME NEW m \in C
      PROVE  /\ m \in Comp(o, m) /\ Comp(o, m) \subseteq C
             /\ \A k \in Comp(o, m) : h[k] = h[m]
             /\ Allowed(o, h, Comp(o, m), h[m])
  <2>1. Joined(o, C)
    BY <1>1, <1>2 DEF Joined
  <2>2. m \in Comp(o, m) /\ Comp(o, m) \subseteq C
    BY <1>1, <2>1, CompHas, CompLeast
  <2>3. Comp(o, m) \cap P = {} /\ m \in Signals
    BY <1>1, <2>2
  <2>4. Settled(o, h, m)
    BY <2>3
  <2>5. PICK l \in BOOLEAN : Allowed(o, h, Comp(o, m), l) /\ \A k \in Comp(o, m) : h[k] = l
    BY <2>4 DEF Settled
  <2>6. h[m] = l
    BY <2>2, <2>5
  <2> QED BY <2>2, <2>5, <2>6
<1>4. ASSUME NEW t \in T, NEW a \in Legs(t), NEW b \in Legs(t), a \in C
      PROVE  h[a] = h[b]
  <2>1. chip.c1[t] \in Node /\ chip.c2[t] \in Node
    BY ChipFacts
  <2>2. (chip.c1[t] \in C \/ chip.c2[t] \in C) /\ \A s \in Supplies : s \notin C
    BY <1>1, <1>4 DEF Legs, Signals
  <2>3. chip.c1[t] \notin Supplies => chip.c1[t] \in Signals
    BY <2>1 DEF Signals
  <2>4. chip.c2[t] \notin Supplies => chip.c2[t] \in Signals
    BY <2>1 DEF Signals
  <2>5. (IF chip.c1[t] \notin Supplies THEN chip.c1[t] ELSE chip.c2[t]) \in C
    <3>1. CASE chip.c1[t] \in Supplies
      BY <2>2, <3>1
    <3>2. CASE chip.c1[t] \notin Supplies /\ chip.c2[t] \in Supplies
      BY <2>2, <3>2
    <3>3. CASE chip.c1[t] \notin Supplies /\ chip.c2[t] \notin Supplies
      <4>1. Legs(t) \subseteq Signals /\ Legs(t) \cap C # {} /\ p[t]
        BY <1>4, <2>3, <2>4, <3>3 DEF Legs
      <4>2. Legs(t) \subseteq C
        BY <1>1, <4>1 DEF Joined
      <4> QED BY <3>3, <4>2 DEF Legs
    <3> QED BY <3>1, <3>2, <3>3
  <2>6. h[chip.c1[t]] = h[chip.c2[t]]
    BY <2>5
  <2> QED BY <1>4, <2>6 DEF Legs
<1>5. \A m \in C : h[m] = h[n]
  <2> DEFINE S == {m \in C : h[m] = h[n]}
  <2>1. Joined(p, S)
    <3> SUFFICES ASSUME NEW t \in chip.trans, p[t], Legs(t) \subseteq Signals,
                        NEW a \in Legs(t), a \in S, NEW b \in Legs(t)
                 PROVE  b \in S
      BY DEF Joined
    <3>1. a \in C /\ b \in C /\ h[a] = h[n]
      BY <1>1 DEF Joined
    <3>2. CASE t \in T
      BY <1>4, <3>1, <3>2
    <3>3. CASE t \notin T
      <4>1. o[t]
        BY <3>3
      <4>2. b \in Comp(o, a)
        BY <1>3, <3>1, <4>1, CompJoined DEF Joined
      <4> QED BY <1>3, <3>1, <4>2
    <3> QED BY <3>2, <3>3
  <2>2. n \in S /\ S \subseteq Signals
    BY <1>1
  <2>3. C \subseteq S
    BY <2>1, <2>2, CompLeast
  <2> QED BY <2>3
<1>6. ASSUME NEW m \in C, NEW s
      PROVE  Reaches(o, Comp(o, m), s) => Reaches(p, C, s)
  BY <1>2, <1>3 DEF Reaches
<1>7. ASSUME NEW s \in Supplies, Reaches(p, C, s)
      PROVE  h[n] = h[s] \/ \E m \in C : Reaches(o, Comp(o, m), s)
  <2>1. PICK t \in chip.trans : p[t] /\ s \in Legs(t) /\ Legs(t) \cap C # {}
    BY <1>7 DEF Reaches
  <2>2. PICK m \in C : m \in Legs(t)
    BY <2>1
  <2>3. CASE t \in T
    BY <1>4, <1>5, <2>1, <2>2, <2>3
  <2>4. CASE t \notin T
    <3>1. o[t] /\ m \in Comp(o, m)
      BY <1>3, <2>1, <2>4
    <3> QED BY <2>1, <2>2, <3>1 DEF Reaches
  <2> QED BY <2>3, <2>4
<1>8. Reaches(p, C, chip.ground) => ~h[n]
  <2> SUFFICES ASSUME Reaches(p, C, chip.ground), NEW m \in C,
                      Reaches(o, Comp(o, m), chip.ground)
               PROVE  ~h[n]
    BY <1>7 DEF Supplies
  <2> QED BY <1>3, <1>5 DEF Allowed
<1>9. ~Reaches(p, C, chip.ground) /\ Reaches(p, C, chip.power) => h[n]
  <2> SUFFICES ASSUME ~Reaches(p, C, chip.ground), Reaches(p, C, chip.power), NEW m \in C,
                      Reaches(o, Comp(o, m), chip.power)
               PROVE  h[n]
    BY <1>7 DEF Supplies
  <2>1. ~Reaches(o, Comp(o, m), chip.ground)
    BY <1>6
  <2> QED BY <1>3, <1>5, <2>1 DEF Allowed
<1>10. ASSUME ~Reaches(p, C, chip.ground), ~Reaches(p, C, chip.power),
              NEW m \in C, pulldown[m], h[n]
       PROVE  \E k \in C : h[k] /\ ~pullup[k] /\ ~pulldown[k]
  <2>1. /\ ~Reaches(o, Comp(o, m), chip.ground) /\ ~Reaches(o, Comp(o, m), chip.power)
        /\ Pulled(Comp(o, m), pulldown) /\ h[m]
    BY <1>3, <1>5, <1>6, <1>10 DEF Pulled
  <2>2. \E k \in Comp(o, m) : h[k] /\ ~pullup[k] /\ ~pulldown[k]
    BY <1>3, <2>1 DEF Allowed
  <2> QED BY <1>3, <2>2
<1>11. ASSUME ~Reaches(p, C, chip.ground), ~Reaches(p, C, chip.power), ~Pulled(C, pulldown)
       PROVE  h[n] <=> Pulled(C, pullup) \/ \E m \in C : h[m]
  <2>1. CASE h[n]
    BY <1>1, <2>1
  <2>2. CASE ~h[n]
    <3> SUFFICES ASSUME NEW m \in C, pullup[m] PROVE FALSE
      BY <1>5, <2>2 DEF Pulled
    <3>1. /\ ~Reaches(o, Comp(o, m), chip.ground) /\ ~Reaches(o, Comp(o, m), chip.power)
          /\ ~Pulled(Comp(o, m), pulldown) /\ Pulled(Comp(o, m), pullup)
      BY <1>3, <1>6, <1>11 DEF Pulled
    <3>2. h[m]
      BY <1>3, <3>1 DEF Allowed
    <3> QED BY <1>5, <2>2, <3>2
  <2> QED BY <2>1, <2>2
<1>12. Allowed(p, h, C, h[n]) /\ h[n] \in BOOLEAN
  BY <1>1, <1>8, <1>9, <1>10, <1>11 DEF Allowed, Pulled
<1> QED BY <1>5, <1>12 DEF Settled

-----------------------------------------------------------------------------
(* Popping a group at the level that was computed for it keeps it allowed. *)
LEMMA LevelledAllowed ==
  ASSUME TypeOK, NEW G \in SUBSET Signals, NEW l \in BOOLEAN, NEW n \in G,
         Allowed(on, high, G, l),
         NEW h, \A m \in G : h[m] = l
  PROVE  Allowed(on, h, G, l)
<1>1. \A m \in G : pulldown[m] \in BOOLEAN /\ pullup[m] \in BOOLEAN /\ high[m] \in BOOLEAN
  BY DEF TypeOK, Signals
<1>2. CASE l
  BY <1>1, <1>2 DEF Allowed, Pulled
<1>3. CASE ~l
  BY <1>1, <1>3 DEF Allowed, Pulled
<1> QED BY <1>2, <1>3

-----------------------------------------------------------------------------
(* The parts of Events that need no more than the step. *)

LEMMA SuppliesStep ==
  ASSUME TypeOK, SuppliesHold, [Next]_vars
  PROVE  SuppliesHold'
<1>1. chip' = chip
  BY ChipConstant
<1>2. CASE FlipLevel
  <2>1. GroupTail \in Signals /\ high' = [high EXCEPT ![GroupTail] = GroupHigh]
    BY <1>1, <1>2, PopType DEF FlipLevel
  <2>2. GroupTail # chip.ground /\ GroupTail # chip.power /\ high \in [Node -> BOOLEAN]
    BY <2>1 DEF Signals, Supplies, TypeOK
  <2> QED BY <1>1, <2>1, <2>2, ChipFacts DEF SuppliesHold, TypeOK
<1>3. CASE high' = high
  BY <1>1, <1>3 DEF SuppliesHold
<1>4. FlipLevel \/ high' = high
  BY DEF Next, Host, Internal, SetNode, StabilizeNetwork, StabilizePush, StabilizeRecalc,
     Recalc, RecalcReturn, SkipStale, RecalcNode, SkipOpenLeg, FollowLeg, GroupComplete,
     KeepLevel, CommitChange, CommitReturn, UpdateReturn, vars, levels
<1> QED BY <1>2, <1>3, <1>4

LEMMA CommitsStep ==
  ASSUME CommitsAll, [Next]_vars
  PROVE  CommitsAll'
  BY DEF CommitsAll, Next, Host, Internal, SetNode, StabilizeNetwork, StabilizePush,
     StabilizeRecalc, Recalc, RecalcReturn, SkipStale, RecalcNode, SkipOpenLeg, FollowLeg,
     GroupComplete, KeepLevel, FlipLevel, CommitChange, CommitReturn, UpdateReturn, vars

LEMMA StabilizeMarksStep ==
  ASSUME TypeOK, StabilizeMarks, [Next]_vars
  PROVE  StabilizeMarks'
<1>1. chip' = chip /\ Node' = Node
  BY ChipConstant DEF Node
<1>2. CASE StabilizeNetwork
  <2>1. \A n \in Node : ~(n < 1)
    BY ChipFacts DEF Node, TypeOK
  <2> QED BY <1>1, <1>2, <2>1 DEF StabilizeNetwork, StabilizeMarks
<1>3. CASE StabilizePush
  <2>1. /\ phase = "stabilize" /\ cursor \in Node /\ cursor' = cursor + 1
        /\ inChange' = [inChange EXCEPT ![cursor] = TRUE]
    BY <1>3, CursorCounts DEF StabilizePush, ChangedPush
  <2>2. \A n \in Node : n < cursor + 1 => n < cursor \/ n = cursor
    BY <2>1, ChipFacts DEF Node, TypeOK
  <2>3. inChange \in [Node -> BOOLEAN]
    BY DEF TypeOK
  <2> QED BY <1>1, <2>1, <2>2, <2>3 DEF StabilizeMarks
<1>4. CASE phase' # "stabilize"
  BY <1>4 DEF StabilizeMarks
<1>5. CASE UNCHANGED vars
  BY <1>1, <1>5 DEF StabilizeMarks, vars, feed
<1>6. StabilizeNetwork \/ StabilizePush \/ phase' # "stabilize" \/ UNCHANGED vars
  BY DEF Next, Host, Internal, SetNode, StabilizeRecalc, Recalc, RecalcReturn, SkipStale,
     RecalcNode, SkipOpenLeg, FollowLeg, GroupComplete, KeepLevel, FlipLevel, CommitChange,
     CommitReturn, UpdateReturn
<1> QED BY <1>2, <1>3, <1>4, <1>5, <1>6

(* The channel label is one over whatever transistors may join. *)
LEMMA ChannelJoined ==
  ASSUME chip \in Chips, NEW o, NEW n
  PROVE  Joined(o, {m \in Signals : chip.channel[m] = chip.channel[n]})
<1>1. ChannelsOK(chip)
  BY ChipsAssumption DEF ChipOK
<1>2. \A t \in chip.trans : Legs(t) \subseteq Signals => chip.channel[chip.c1[t]] = chip.channel[chip.c2[t]]
  BY <1>1 DEF ChannelsOK, Legs, Signals, Supplies
<1> QED BY <1>2 DEF Joined, Legs

LEMMA ChannelStep ==
  ASSUME TypeOK, SameChannel, [Next]_vars, (group \in Seq(Signals))', Walk'
  PROVE  SameChannel'
<1>1. chip' = chip /\ Signals' = Signals
  BY ChipConstant DEF Signals, Supplies, Node
<1>2. CASE RecalcNode \/ FollowLeg
  <2>1. phase' = "group" /\ on' = on
    BY <1>2 DEF RecalcNode, FollowLeg, levels
  <2>2. CASE group' = <<>>
    BY <2>2 DEF SameChannel, Range
  <2>3. CASE group' # <<>>
    <3> DEFINE S == {m \in Signals : chip.channel[m] = chip.channel[group'[1]]}
    <3>1. group'[1] \in Signals
      BY <1>1, <2>3
    <3>2. Joined(on, S)
      BY ChannelJoined DEF TypeOK
    <3>3. OnlyJoined'
      BY <2>1 DEF Walk
    <3>4. Range(group') \subseteq S
      BY <1>1, <2>1, <2>3, <3>1, <3>2, <3>3 DEF OnlyJoined, Joined, Legs
    <3> QED BY <1>1, <3>4 DEF SameChannel
  <2> QED BY <2>2, <2>3
<1>3. CASE KeepLevel \/ FlipLevel
  <2>1. Range(group) = Range(group') \cup {group[Len(group)]}
    BY <1>3, RangeFront DEF KeepLevel, FlipLevel, GroupPopped, GroupFront, TypeOK
  <2> QED BY <1>1, <2>1 DEF SameChannel
<1>4. CASE group' = group
  BY <1>1, <1>4 DEF SameChannel
<1>5. RecalcNode \/ FollowLeg \/ KeepLevel \/ FlipLevel \/ group' = group
  BY DEF Next, Host, Internal, SetNode, StabilizeNetwork, StabilizePush, StabilizeRecalc,
     Recalc, RecalcReturn, SkipStale, SkipOpenLeg, GroupComplete, CommitChange, CommitReturn,
     UpdateReturn, vars, grouping
<1> QED BY <1>2, <1>3, <1>4, <1>5

-----------------------------------------------------------------------------
(* When a node stays accounted for. *)

LEMMA SettledSame ==
  ASSUME NEW o, NEW n, NEW h, NEW k, \A m \in Comp(o, n) : h[m] = k[m], Settled(o, h, n)
  PROVE  Settled(o, k, n)
  BY DEF Settled, Allowed

LEMMA AccountedNext ==
  ASSUME chip' = chip, pullup' = pullup, pulldown' = pulldown, NEW n,
         Comp(on', n) \cap Pending' # {} \/ Settled(on', Target', n)
  PROVE  Accounted(n)'
<1>1. Comp(on, n)' = Comp(on', n)
  BY DEF Comp, Joined, Signals, Supplies, Node, Legs
<1>2. Settled(on, Target, n)' <=> Settled(on', Target', n)
  BY <1>1 DEF Settled, Allowed, Reaches, Pulled, Legs
<1> QED BY <1>1, <1>2 DEF Accounted

LEMMA StaysAccounted ==
  ASSUME chip' = chip, pullup' = pullup, pulldown' = pulldown, on' = on, NEW n, Accounted(n),
         \A m \in Comp(on, n) : Target'[m] = Target[m] /\ (m \in Pending => m \in Pending')
  PROVE  Accounted(n)'
<1>1. CASE Comp(on, n) \cap Pending # {}
  BY <1>1, AccountedNext
<1>2. CASE Settled(on, Target, n)
  <2>1. Settled(on, Target', n)
    BY <1>2, SettledSame
  <2> QED BY <2>1, AccountedNext
<1> QED BY <1>1, <1>2 DEF Accounted

LEMMA TargetIs ==
  ASSUME TypeOK
  PROVE  /\ Target \in [Node -> BOOLEAN]
         /\ \A m \in Node : Target[m] = IF phase \in {"update", "commit"} /\ m \in Range(group)
                                        THEN GroupHigh ELSE high[m]
         /\ Range(group) \subseteq Signals
<1>1. Range(group) \subseteq Signals
  BY DEF TypeOK, Range
<1>2. GroupHigh \in BOOLEAN /\ high \in [Node -> BOOLEAN]
  BY DEF GroupHigh, TypeOK
<1> QED BY <1>1, <1>2 DEF Target

LEMMA TargetNext ==
  ASSUME chip' = chip
  PROVE  \A m \in Node : Target'[m] = IF phase' \in {"update", "commit"} /\ m \in Range(group')
                                      THEN GroupHigh' ELSE high'[m]
  BY DEF Target, Node

LEMMA PendingNext ==
  ASSUME chip' = chip
  PROVE  \A m \in Node : m \in Pending' <=> inChange'[m] \/ \E ch \in changes' : ch[1] = m
  BY DEF Pending, Node

(* A step that changes neither levels nor transistors, and after which     *)
(* nodes that were marked or collected still are, forgets nothing.         *)
LEMMA QuietStep ==
  ASSUME TypeOK, chip' = chip, pullup' = pullup, pulldown' = pulldown, on' = on,
         \A m \in Node : Target'[m] = Target[m],
         \A m \in Node : m \in Pending => m \in Pending',
         NEW n \in Signals, Accounted(n)
  PROVE  Accounted(n)'
<1>1. Comp(on, n) \subseteq Node
  BY CompHas DEF Signals
<1> QED BY <1>1, StaysAccounted

(* The host moves a pin: its component has a marked node, no other has     *)
(* changed.                                                                *)
LEMMA SetNodeForgets ==
  ASSUME TypeOK, NEW id \in Pins \cap Node, NEW value \in BOOLEAN, SetNode(id, value),
         NEW n \in Signals, Accounted(n)
  PROVE  Accounted(n)'
<1>1. /\ chip' = chip /\ on' = on /\ high' = high /\ changes' = changes
      /\ phase = "idle" /\ phase' = "idle"
      /\ pullup' = [pullup EXCEPT ![id] = value] /\ pulldown' = [pulldown EXCEPT ![id] = ~value]
      /\ inChange' = [inChange EXCEPT ![id] = TRUE]
  BY DEF SetNode, ChangedPush, levels
<1>2. /\ inChange \in [Node -> BOOLEAN] /\ pullup \in [Node -> BOOLEAN]
      /\ pulldown \in [Node -> BOOLEAN] /\ Comp(on, n) \subseteq Node
  BY CompHas DEF TypeOK, Signals
<1>3. \A m \in Node : m \in Pending => m \in Pending'
  BY <1>1, <1>2, PendingNext DEF Pending
<1>4. Comp(on, n)' = Comp(on, n)
  BY <1>1 DEF Comp, Joined, Signals, Supplies, Node, Legs
<1>5. CASE Comp(on, n) \cap Pending # {}
  BY <1>2, <1>3, <1>4, <1>5 DEF Accounted
<1>6. CASE id \in Comp(on, n)
  <2>1. id \in Pending'
    BY <1>1, <1>2, PendingNext
  <2> QED BY <1>4, <1>6, <2>1 DEF Accounted
<1>7. CASE Settled(on, Target, n) /\ id \notin Comp(on, n)
  <2>1. \A m \in Comp(on, n) : /\ pullup'[m] = pullup[m] /\ pulldown'[m] = pulldown[m]
                               /\ Target'[m] = Target[m]
    BY <1>1, <1>2, <1>7, TargetIs, TargetNext
  <2>2. Settled(on, Target, n)'
    BY <1>1, <1>4, <1>7, <2>1 DEF Settled, Allowed, Reaches, Pulled, Legs
  <2> QED BY <2>2 DEF Accounted
<1> QED BY <1>5, <1>6, <1>7 DEF Accounted

(* The first node of a group loses its mark, but then the whole of its     *)
(* component is in hand.                                                   *)
LEMMA RecalcNodeForgets ==
  ASSUME TypeOK, GroupIsSet, CommitsAll, RecalcNode, NEW n \in Signals, Accounted(n)
  PROVE  InHand(n)' \/ Accounted(n)'
<1> DEFINE id == Head(queue)
<1>1. /\ chip' = chip /\ on' = on /\ high' = high /\ pullup' = pullup /\ pulldown' = pulldown
      /\ changes' = changes /\ phase = "recalc" /\ phase' = "group"
      /\ GroupAdd(id, [inChange EXCEPT ![id] = FALSE], "nothing", <<>>)
  BY DEF RecalcNode, wires, levels
<1>2. id \in Node /\ group = <<>> /\ Range(group) = {} /\ inChange \in [Node -> BOOLEAN]
  BY RangeTail DEF RecalcNode, TypeOK, GroupIsSet, Range
<1> HIDE DEF id
<1>3. \A m \in Node : m # id /\ inChange[m] => inChange'[m]
  BY <1>1, <1>2 DEF GroupAdd
<1>4. id \in Signals => group' = <<id>>
  <2>1. id \in Signals => ~inGroup[id]
    BY <1>2 DEF GroupIsSet
  <2> QED BY <1>1, <1>2, <2>1 DEF GroupAdd, Signals, Supplies
<1>5. CASE id \in Comp(on, n)
  <2>1. id \in Signals /\ Comp(on, id) = Comp(on, n) /\ n \in Comp(on, n)
    BY <1>5, CompHas, CompSame
  <2>2. Comp(on', group'[1]) = Comp(on, n) /\ group' # <<>>
    BY <1>1, <1>4, <2>1
  <2>3. n \in Comp(on', group'[1])
    BY <2>1, <2>2
  <2>4. Comp(on, group[1])' = Comp(on', group'[1])
    BY <1>1 DEF Comp, Joined, Signals, Supplies, Node, Legs
  <2> QED BY <1>1, <2>2, <2>3, <2>4 DEF InHand
<1>6. CASE id \notin Comp(on, n)
  <2>1. Comp(on, n) \subseteq Node
    BY CompHas DEF Signals
  <2>2. \A m \in Node : Target'[m] = Target[m]
    BY <1>1, TargetIs, TargetNext
  <2>3. \A m \in Comp(on, n) : m \in Pending => m \in Pending'
    BY <1>1, <1>3, <1>6, <2>1, PendingNext DEF Pending, CommitsAll
  <2> QED BY <1>1, <2>1, <2>2, <2>3, StaysAccounted
<1> QED BY <1>5, <1>6

(* So is that of a node that joins it.                                     *)
LEMMA FollowLegForgets ==
  ASSUME TypeOK, Walk, CommitsAll, FollowLeg, Walk', (group \in Seq(Signals))',
         NEW n \in Signals, InHand(n) \/ Accounted(n)
  PROVE  InHand(n)' \/ Accounted(n)'
<1> DEFINE id == Head(todo)[2]
<1>1. /\ chip' = chip /\ on' = on /\ high' = high /\ pullup' = pullup /\ pulldown' = pulldown
      /\ changes' = changes /\ phase = "group" /\ phase' = "group" /\ todo # <<>>
      /\ GroupAdd(id, inChange, groupVal, Tail(todo))
  BY DEF FollowLeg, wires, levels
<1>2. /\ id \in Node /\ group \in Seq(Signals) /\ inChange \in [Node -> BOOLEAN]
      /\ Head(todo) \in Range(todo)
  BY <1>1, RangeTail DEF TypeOK
<1>3. group # <<>>
  <2>1. Range(group) # {}
    BY <1>1, <1>2 DEF Walk, TodoLeadsOut
  <2> QED BY <2>1 DEF Range
<1> HIDE DEF id
<1>4. \/ group' = group /\ inChange' = inChange
      \/ /\ group' = Append(group, id) /\ inChange' = [inChange EXCEPT ![id] = FALSE]
         /\ id \in Signals
  BY <1>1 DEF GroupAdd
<1>5. group'[1] = group[1] /\ group' # <<>> /\ group[1] \in Signals
  <2>1. Len(group) \in Nat \ {0}
    BY <1>2, <1>3
  <2>2. Append(group, id)[1] = group[1] \/ id \notin Signals
    BY <1>2, <2>1, AppendProperties
  <2>3. Append(group, id) # <<>> \/ id \notin Signals
    BY <1>2, AppendProperties
  <2>4. group[1] \in Signals
    BY <1>2, <2>1
  <2> QED BY <1>3, <1>4, <2>2, <2>3, <2>4
<1>6. Comp(on, group[1])' = Comp(on, group[1])
  BY <1>1, <1>5 DEF Comp, Joined, Signals, Supplies, Node, Legs
<1>7. CASE n \in Comp(on, group[1])
  BY <1>1, <1>5, <1>6, <1>7 DEF InHand
<1>8. CASE n \notin Comp(on, group[1])
  <2>1. Accounted(n)
    BY <1>8 DEF InHand
  <2>2. Comp(on, n) \subseteq Node /\ Comp(on, n) \cap Comp(on, group[1]) = {}
    BY <1>5, <1>8, CompHas, CompApart DEF Signals
  <2>3. group' = Append(group, id) /\ id \in Signals => id \in Comp(on, group[1])
    <3> SUFFICES ASSUME group' = Append(group, id), id \in Signals
                 PROVE  id \in Comp(on, group[1])
      OBVIOUS
    <3>1. id \in Range(group')
      BY <1>2, RangeAppend
    <3>2. /\ group[1] \in Comp(on, group[1]) /\ Comp(on, group[1]) \subseteq Signals
          /\ Joined(on, Comp(on, group[1]))
      BY <1>5, CompHas, CompJoined
    <3>3. OnlyJoined'
      BY <1>1 DEF Walk
    <3>4. \A S \in SUBSET Signals : group[1] \in S /\ Joined(on, S) => Range(group') \subseteq S
      BY <1>1, <1>5, <3>3 DEF OnlyJoined, Joined, Signals, Supplies, Node, Legs
    <3> QED BY <3>1, <3>2, <3>4
  <2>4. \A m \in Comp(on, n) : inChange[m] => inChange'[m]
    BY <1>2, <1>4, <2>2, <2>3
  <2>5. \A m \in Node : Target'[m] = Target[m]
    BY <1>1, TargetIs, TargetNext
  <2>6. \A m \in Comp(on, n) : m \in Pending => m \in Pending'
    BY <1>1, <2>2, <2>4, PendingNext DEF Pending, CommitsAll
  <2> QED BY <1>1, <2>1, <2>2, <2>5, <2>6, StaysAccounted
<1> QED BY <1>7, <1>8

(* The group is complete: its level is one that its sources allow.         *)
LEMMA GroupCompleteForgets ==
  ASSUME TypeOK, Walk, GroupComplete, NEW n \in Signals, InHand(n) \/ Accounted(n)
  PROVE  Accounted(n)'
<1>1. /\ chip' = chip /\ on' = on /\ high' = high /\ pullup' = pullup /\ pulldown' = pulldown
      /\ changes' = changes /\ inChange' = inChange /\ group' = group /\ groupVal' = groupVal
      /\ phase = "group" /\ phase' = "update" /\ todo = <<>>
  BY DEF GroupComplete, wires, levels, feed, grouping
<1>2. /\ \A m \in Node : Target'[m] = IF m \in Range(group) THEN GroupHigh ELSE high[m]
      /\ \A m \in Node : Target[m] = high[m]
      /\ Range(group) \subseteq Signals
      /\ \A m \in Node : m \in Pending => m \in Pending'
  BY <1>1, TargetIs, TargetNext, PendingNext DEF GroupHigh, Pending
<1>3. Comp(on, n) \subseteq Node /\ n \in Comp(on, n) /\ Comp(on, n) \subseteq Signals
  BY CompHas DEF Signals
<1>4. CASE group = <<>>
  <2>1. Range(group) = {} /\ Accounted(n)
    BY <1>4 DEF Range, InHand
  <2> QED BY <1>1, <1>2, <2>1, QuietStep
<1>5. CASE group # <<>>
  <2>1. Range(group) = Comp(on, group[1]) /\ GroupHigh \in AllowedLevels(Range(group))
    BY <1>1, <1>5, WalkEnds, ComponentComp
  <2>2. group[1] \in Signals
    <3>1. group \in Seq(Signals) /\ Len(group) \in Nat \ {0}
      BY <1>5 DEF TypeOK
    <3> QED BY <3>1
  <2>3. CASE n \in Comp(on, group[1])
    <3>1. Comp(on, n) = Range(group)
      BY <2>1, <2>2, <2>3, CompSame
    <3>2. Allowed(on, high, Range(group), GroupHigh) /\ GroupHigh \in BOOLEAN
      <4>1. GroupHigh \in BOOLEAN
        BY DEF GroupHigh
      <4> QED BY <1>2, <2>1, <4>1, AllowedIs
    <3>3. \A m \in Range(group) : Target'[m] = GroupHigh
      BY <1>2, <1>3, <3>1
    <3>4. Allowed(on, Target', Range(group), GroupHigh)
      BY <1>2, <1>3, <3>1, <3>2, <3>3, LevelledAllowed
    <3>5. Settled(on, Target', n)
      BY <3>1, <3>2, <3>3, <3>4 DEF Settled
    <3> QED BY <1>1, <3>5, AccountedNext
  <2>4. CASE n \notin Comp(on, group[1])
    <3>1. Accounted(n)
      BY <2>4 DEF InHand
    <3>2. Comp(on, n) \cap Range(group) = {}
      BY <2>1, <2>2, <2>4, CompApart
    <3>3. \A m \in Comp(on, n) : Target'[m] = Target[m] /\ (m \in Pending => m \in Pending')
      BY <1>2, <1>3, <3>2
    <3> QED BY <1>1, <3>1, <3>3, StaysAccounted
  <2> QED BY <2>3, <2>4
<1> QED BY <1>4, <1>5

(* A node is popped that has the level of the group. *)
LEMMA KeepLevelForgets ==
  ASSUME TypeOK, GroupIsSet, KeepLevel, NEW n \in Signals, Accounted(n)
  PROVE  Accounted(n)'
<1>1. /\ chip' = chip /\ on' = on /\ high' = high /\ pullup' = pullup /\ pulldown' = pulldown
      /\ changes' = changes /\ inChange' = inChange /\ groupVal' = groupVal
      /\ phase = "update" /\ phase' = "update" /\ group # <<>> /\ GroupPopped
      /\ high[GroupTail] = GroupHigh
  BY DEF KeepLevel, wires, levels, feed
<1>2. Range(group) = Range(group') \cup {GroupTail}
  BY <1>1, RangeFront DEF GroupPopped, GroupFront, GroupTail, TypeOK
<1>3. \A m \in Node : Target'[m] = Target[m]
  BY <1>1, <1>2, TargetIs, TargetNext DEF GroupHigh
<1>4. \A m \in Node : m \in Pending => m \in Pending'
  BY <1>1, PendingNext DEF Pending
<1> QED BY <1>1, <1>3, <1>4, QuietStep

(* A node is popped and flips: the transistors that it gates switch, and   *)
(* what add_ordered_change collects is enough.                             *)
LEMMA FlipLevelForgets ==
  ASSUME TypeOK, GroupIsSet, LegsFollowGates, SuppliesHold, CommitsAll, SameChannel,
         Separated(chip), FlipLevel, \A n \in Signals : Accounted(n)
  PROVE  \A n \in Signals : Accounted(n)'
<1> DEFINE T == {t \in chip.trans : chip.gate[t] = GroupTail}
           P == Pending'
<1>1. /\ chip' = chip /\ pullup' = pullup /\ pulldown' = pulldown
      /\ inChange' = inChange /\ groupVal' = groupVal
      /\ phase = "update" /\ phase' = "commit" /\ group # <<>> /\ GroupPopped
      /\ high[GroupTail] # GroupHigh
      /\ high' = [high EXCEPT ![GroupTail] = GroupHigh]
      /\ on' = [t \in chip.trans |-> IF chip.gate[t] = GroupTail THEN ~on[t] ELSE on[t]]
      /\ changes' = LegChanges(GroupTail, GroupHigh, high')
  BY DEF FlipLevel, wires, feed
<1>2. /\ Range(group) = Range(group') \cup {GroupTail}
      /\ Range(group') = Range(group) \ {GroupTail}
      /\ GroupTail \in Signals /\ GroupTail \in Node /\ GroupTail \in Range(group)
  <2>1. group \in Seq(Signals) /\ Distinct(group)
    BY DEF TypeOK, GroupIsSet, Distinct
  <2>2. /\ Range(group) = Range(GroupFront) \cup {GroupTail} /\ GroupTail \in Signals
        /\ Range(GroupFront) = Range(group) \ {GroupTail}
    BY <1>1, <2>1, RangeFront, DistinctFront DEF GroupFront, GroupTail
  <2> QED BY <1>1, <2>2 DEF GroupPopped, Signals
<1>3. /\ high \in [Node -> BOOLEAN] /\ on \in [chip.trans -> BOOLEAN] /\ GroupHigh \in BOOLEAN
      /\ chip.gate \in [chip.trans -> Node]
      /\ chip.c1 \in [chip.trans -> Node] /\ chip.c2 \in [chip.trans -> Node]
      /\ chip.ground \in Node /\ chip.power \in Node
  BY ChipFacts DEF TypeOK, GroupHigh
<1>4. \A m \in Node : Target'[m] = Target[m]
  <2>1. \A m \in Node : m # GroupTail => high'[m] = high[m]
    BY <1>1, <1>3
  <2>2. high'[GroupTail] = GroupHigh /\ GroupHigh' = GroupHigh
    BY <1>1, <1>2, <1>3 DEF GroupHigh
  <2> QED BY <1>1, <1>2, <2>1, <2>2, TargetIs, TargetNext
<1>5. \A m \in Node : m \in Pending => m \in P
  BY <1>1, PendingNext DEF Pending, CommitsAll
<1>6. \A n \in Signals : Comp(on, n) \cap P # {} \/ Settled(on, Target, n)
  BY <1>5, CompHas DEF Accounted, Pending
<1>7. /\ \A t \in chip.trans \ T : on'[t] = on[t]
      /\ \A t \in T : on'[t] = ~on[t] /\ (on[t] <=> high[GroupTail])
  BY <1>1 DEF LegsFollowGates
<1>8. ASSUME NEW t \in T, NEW leg \in Legs(t)
      PROVE  leg \in Node /\ high'[leg] = Target[leg]
  <2>1. leg \in Node
    BY <1>3 DEF Legs
  <2>2. leg \notin Range(group)
    <3>1. CASE leg \in Supplies
      BY <3>1, TargetIs DEF Signals
    <3>2. CASE leg \notin Supplies
      <4>1. chip.channel[leg] # chip.channel[GroupTail]
        BY <3>2 DEF Separated, Legs, Supplies
      <4> QED BY <1>2, <4>1 DEF SameChannel
    <3> QED BY <3>1, <3>2
  <2>3. leg # GroupTail
    BY <1>2, <2>2
  <2> QED BY <1>1, <1>3, <2>1, <2>2, <2>3, TargetIs
<1>9. \A ch \in changes' : ch[1] \in Node => ch[1] \in P
  BY <1>1, PendingNext
<1>10. CASE GroupHigh
  <2>1. \A t \in T : on'[t] /\ ~on[t]
    <3>1. ~high[GroupTail]
      BY <1>1, <1>10
    <3> QED BY <1>7, <3>1
  <2>2. ~Target[chip.ground] /\ Target[chip.power]
    BY <1>3, TargetIs DEF SuppliesHold, Signals, Supplies
  <2>3. ASSUME NEW t \in T, Target[chip.c1[t]] # Target[chip.c2[t]]
        PROVE  (IF chip.c1[t] \notin Supplies THEN chip.c1[t] ELSE chip.c2[t]) \in P
    <3> DEFINE woken == IF chip.c1[t] \notin Supplies THEN chip.c1[t] ELSE chip.c2[t]
    <3>1. high'[chip.c1[t]] # high'[chip.c2[t]] /\ woken \in Node
      BY <1>3, <1>8, <2>3 DEF Legs
    <3>2. <<woken, t, 1>> \in changes'
      BY <1>1, <1>10, <3>1 DEF LegChanges
    <3> QED BY <1>9, <3>1, <3>2
  <2> HIDE DEF T, P
  <2>4. \A n \in Signals : Comp(on', n) \cap P # {} \/ Settled(on', Target, n)
    <3>1. T \in SUBSET chip.trans /\ Target \in [Node -> BOOLEAN] /\ chip \in Chips
      BY TargetIs DEF T, TypeOK
    <3> QED BY <1>6, <1>7, <2>1, <2>2, <2>3, <3>1, GoneOn
  <2>5. \A n \in Signals : Comp(on', n) \cap P # {} \/ Settled(on', Target', n)
    <3>1. \A n \in Signals : Comp(on', n) \subseteq Node
      BY CompHas DEF Signals
    <3> QED BY <1>4, <2>4, <3>1, SettledSame
  <2> QED BY <1>1, <2>5, AccountedNext DEF P
<1>11. CASE ~GroupHigh
  <2>1. \A t \in T : ~on'[t]
    <3>1. high[GroupTail]
      BY <1>1, <1>2, <1>3, <1>11
    <3> QED BY <1>7, <3>1
  <2>2. ASSUME NEW t \in T PROVE Legs(t) \subseteq P
    <3>1. <<chip.c1[t], t, 1>> \in changes' /\ <<chip.c2[t], t, 2>> \in changes'
      BY <1>1, <1>11 DEF LegChanges
    <3> QED BY <1>3, <1>9, <3>1 DEF Legs
  <2> HIDE DEF T, P
  <2>3. \A n \in Signals : Comp(on', n) \cap P # {} \/ Settled(on', Target, n)
    <3>1. T \in SUBSET chip.trans /\ chip \in Chips
      BY DEF T, TypeOK
    <3> QED BY <1>6, <1>7, <2>1, <2>2, <3>1, GoneOff
  <2>4. \A n \in Signals : Comp(on', n) \cap P # {} \/ Settled(on', Target', n)
    <3>1. \A n \in Signals : Comp(on', n) \subseteq Node
      BY CompHas DEF Signals
    <3> QED BY <1>4, <2>3, <3>1, SettledSame
  <2> QED BY <1>1, <2>4, AccountedNext DEF P
<1> QED BY <1>10, <1>11

(* A collected node is pushed: it is marked, if it was not already. *)
LEMMA CommitChangeForgets ==
  ASSUME TypeOK, CommitChange, NEW n \in Signals, Accounted(n)
  PROVE  Accounted(n)'
<1>1. /\ chip' = chip /\ on' = on /\ high' = high /\ pullup' = pullup /\ pulldown' = pulldown
      /\ group' = group /\ groupVal' = groupVal /\ phase = "commit" /\ phase' = "commit"
  BY DEF CommitChange, wires, levels, grouping
<1>2. PICK ch \in changes : /\ ChangedPush(ch[1])
                            /\ changes' = {other \in changes : other[1] # ch[1]}
  BY DEF CommitChange
<1>3. inChange' = [inChange EXCEPT ![ch[1]] = TRUE] /\ inChange \in [Node -> BOOLEAN]
  BY <1>2 DEF ChangedPush, TypeOK
<1>4. \A m \in Node : Target'[m] = Target[m]
  BY <1>1, TargetIs, TargetNext DEF GroupHigh
<1>5. \A m \in Node : m \in Pending => m \in Pending'
  BY <1>1, <1>2, <1>3, PendingNext DEF Pending
<1> QED BY <1>1, <1>4, <1>5, QuietStep

-----------------------------------------------------------------------------
LEMMA NothingForgottenStep ==
  ASSUME TypeOK, GroupIsSet, LegsFollowGates, Walk, Events, [Next]_vars,
         Walk', (group \in Seq(Signals))'
  PROVE  NothingForgotten'
<1> SUFFICES ASSUME stabilized', phase' # "stabilize", Separated(chip), NEW n \in Signals
             PROVE  InHand(n)' \/ Accounted(n)'
  BY ChipConstant DEF NothingForgotten, Signals, Supplies, Node
<1>0. chip' = chip /\ SuppliesHold /\ CommitsAll /\ SameChannel
  BY ChipConstant DEF Events
<1>1. CASE StabilizeRecalc
  <2>1. /\ on' = on /\ inChange' = inChange /\ phase = "stabilize" /\ cursor > chip.count
        /\ pullup' = pullup /\ pulldown' = pulldown
    BY <1>1 DEF StabilizeRecalc, levels, feed, wires
  <2>2. n \in Node /\ n \in Comp(on, n)
    BY CompHas DEF Signals
  <2>3. n < cursor
    BY <2>1, <2>2, ChipFacts DEF TypeOK, Node
  <2>4. n \in Pending'
    BY <1>0, <2>1, <2>2, <2>3, PendingNext DEF Events, StabilizeMarks
  <2> QED BY <1>0, <2>1, <2>2, <2>4, AccountedNext
<1>2. CASE StabilizeNetwork \/ StabilizePush
  BY <1>2 DEF StabilizeNetwork, StabilizePush
<1> SUFFICES ASSUME ~StabilizeRecalc, ~StabilizeNetwork, ~StabilizePush
             PROVE  InHand(n)' \/ Accounted(n)'
  BY <1>1, <1>2
<1>3. stabilized /\ phase # "stabilize"
  BY DEF Next, Host, Internal, SetNode, Recalc, RecalcReturn, SkipStale, RecalcNode,
     SkipOpenLeg, FollowLeg, GroupComplete, KeepLevel, FlipLevel, CommitChange, CommitReturn,
     UpdateReturn, vars
<1>4. \A k \in Signals : InHand(k) \/ Accounted(k)
  BY <1>3 DEF Events, NothingForgotten
<1>5. phase # "group" => \A k \in Signals : Accounted(k)
  BY <1>4 DEF InHand
<1>6. ASSUME NEW id \in Pins \cap Node, NEW value \in BOOLEAN, SetNode(id, value)
      PROVE  Accounted(n)'
  BY <1>5, <1>6, SetNodeForgets DEF SetNode
<1>7. CASE RecalcNode
  BY <1>0, <1>5, <1>7, RecalcNodeForgets DEF RecalcNode
<1>8. CASE FollowLeg
  BY <1>0, <1>4, <1>8, FollowLegForgets
<1>9. CASE GroupComplete
  BY <1>4, <1>9, GroupCompleteForgets
<1>10. CASE KeepLevel
  BY <1>5, <1>10, KeepLevelForgets DEF KeepLevel
<1>11. CASE FlipLevel
  BY <1>0, <1>5, <1>11, FlipLevelForgets DEF FlipLevel
<1>12. CASE CommitChange
  BY <1>5, <1>12, CommitChangeForgets DEF CommitChange
<1>13. CASE Recalc \/ RecalcReturn \/ SkipStale \/ CommitReturn \/ UpdateReturn
  <2>1. /\ pullup' = pullup /\ pulldown' = pulldown /\ on' = on /\ high' = high
        /\ inChange' = inChange /\ changes' = changes /\ group' = group
        /\ groupVal' = groupVal /\ phase # "group"
        /\ (phase' \in {"update", "commit"} <=> phase \in {"update", "commit"}) \/ group = <<>>
    BY <1>13 DEF Recalc, RecalcReturn, SkipStale, CommitReturn, UpdateReturn, wires, levels,
                 feed, grouping
  <2>2. group = <<>> => Range(group) = {}
    BY DEF Range
  <2>3. \A m \in Node : Target'[m] = Target[m]
    BY <1>0, <2>1, <2>2, TargetIs, TargetNext DEF GroupHigh
  <2>4. \A m \in Node : m \in Pending => m \in Pending'
    BY <1>0, <2>1, PendingNext DEF Pending
  <2> QED BY <1>0, <1>5, <2>1, <2>3, <2>4, QuietStep
<1>14. CASE SkipOpenLeg \/ UNCHANGED vars
  <2>1. /\ pullup' = pullup /\ pulldown' = pulldown /\ on' = on /\ high' = high
        /\ inChange' = inChange /\ changes' = changes /\ group' = group
        /\ groupVal' = groupVal /\ phase' = phase
    BY <1>14 DEF SkipOpenLeg, vars, wires, levels, feed, grouping
  <2>2. \A m \in Node : Target'[m] = Target[m]
    BY <1>0, <2>1, TargetIs, TargetNext DEF GroupHigh
  <2>3. \A m \in Node : m \in Pending => m \in Pending'
    BY <1>0, <2>1, PendingNext DEF Pending
  <2>4. CASE InHand(n)
    BY <1>0, <2>1, <2>4 DEF InHand, Comp, Joined, Signals, Supplies, Node, Legs
  <2>5. CASE Accounted(n)
    BY <1>0, <2>1, <2>2, <2>3, <2>5, QuietStep
  <2> QED BY <1>4, <2>4, <2>5
<1> QED BY <1>6, <1>7, <1>8, <1>9, <1>10, <1>11, <1>12, <1>13, <1>14 DEF Next, Host, Internal

LEMMA EventsInit == Init => Events
<1> SUFFICES ASSUME Init PROVE Events
  OBVIOUS
<1>1. SuppliesHold
  BY ChipFacts DEF Init, SuppliesHold
<1>2. CommitsAll /\ StabilizeMarks /\ NothingForgotten
  BY DEF Init, CommitsAll, StabilizeMarks, NothingForgotten
<1>3. SameChannel
  BY DEF Init, SameChannel, Range
<1> QED BY <1>1, <1>2, <1>3 DEF Events

LEMMA EventsStep ==
  TypeOK /\ GroupIsSet /\ LegsFollowGates /\ Walk /\ Events /\ [Next]_vars => Events'
<1> SUFFICES ASSUME TypeOK, GroupIsSet, LegsFollowGates, Walk, Events, [Next]_vars
             PROVE  Events'
  OBVIOUS
<1>1. Walk' /\ (group \in Seq(Signals))'
  <2>1. TypeOK' /\ Walk'
    BY TypeStep, WalkStep
  <2> QED BY <2>1 DEF TypeOK
<1>2. SuppliesHold' /\ CommitsAll' /\ StabilizeMarks'
  BY SuppliesStep, CommitsStep, StabilizeMarksStep DEF Events
<1>3. SameChannel'
  BY <1>1, ChannelStep DEF Events
<1>4. NothingForgotten'
  BY <1>1, NothingForgottenStep
<1> QED BY <1>2, <1>3, <1>4 DEF Events

LEMMA SettledIs ==
  ASSUME TypeOK, NEW n \in Signals
  PROVE  Network!Settled(on, high, n) <=> Settled(on, high, n)
<1> DEFINE C == Comp(on, n)
<1>1. Network!Component(on, n) = C /\ C \subseteq Signals
  BY NetworkComponent, ComponentComp, CompHas
<1>2. Network!AllowedLevels(on, high, C) = AllowedLevels(C)
  BY NetworkLevels
<1>3. \A l \in BOOLEAN : l \in AllowedLevels(C) <=> Allowed(on, high, C, l)
  BY <1>1, AllowedIs
<1>4. AllowedLevels(C) \subseteq BOOLEAN
  BY DEF AllowedLevels
<1>5. Network!Settled(on, high, n) <=> \E l \in AllowedLevels(C) : \A m \in C : high[m] = l
  BY <1>1, <1>2, Zenon DEF Network!Settled
<1> QED BY <1>3, <1>4, <1>5 DEF Settled

LEMMA EventsAccount ==
  TypeOK /\ GroupIsSet /\ Events => ComponentAccounted
<1> SUFFICES ASSUME TypeOK, GroupIsSet, Events, stabilized, phase \in {"idle", "recalc"},
                    Separated(chip), NEW n \in Signals
             PROVE  \/ \E m \in Network!Component(on, n) : inChange[m]
                    \/ Network!Settled(on, high, n)
  BY DEF ComponentAccounted
<1> DEFINE C == Comp(on, n)
<1>1. Network!Component(on, n) = C /\ C \subseteq Signals /\ C \subseteq Node
  BY NetworkComponent, ComponentComp, CompHas DEF Signals
<1>2. Accounted(n)
  BY DEF Events, NothingForgotten, InHand
<1>3. CASE C \cap Pending # {}
  BY <1>1, <1>3 DEF Pending, Events, CommitsAll
<1>4. CASE Settled(on, Target, n)
  <2>1. \A m \in C : Target[m] = high[m]
    BY <1>1, TargetIs
  <2> QED BY <1>4, <2>1, SettledSame, SettledIs
<1> QED BY <1>2, <1>3, <1>4 DEF Accounted

(* Once every node has been queued, no component of the network has levels *)
(* that its sources do not allow without a node of it being marked,        *)
(* however calls of set_node and recalc follow each other: neither the     *)
(* skip at nmos.cc:498 nor the single leg of nmos.cc:503-506 loses a       *)
(* change in a chip none of whose transistors has a gate and a leg in one  *)
(* channel.  The mark stands for an entry on the queue as long as the ring *)
(* has not been overfilled (MarksCorrect).                                 *)
THEOREM NothingIsForgotten == Spec => []ComponentAccounted
BY TypeInit, TypeStep, GroupInit, GroupStep, LegsInit, LegsStep, WalkInit, WalkStep,
   EventsInit, EventsStep, EventsAccount, PTL DEF Spec

-----------------------------------------------------------------------------
(* A list of nodes, each once, is no longer than the chip has nodes. *)
LEMMA OnceIsFew ==
  ASSUME NEW n \in Nat, NEW q \in Seq(1 .. n), Distinct(q)
  PROVE  Len(q) <= n
<1>1. q \in [1 .. Len(q) -> 1 .. n] /\ Len(q) \in Nat
  OBVIOUS
<1>2. ASSUME NEW k \in Nat PROVE IsFiniteSet(1 .. k) /\ Cardinality(1 .. k) = k
  <2>1. Cardinality(1 .. k) = IF 1 > k THEN 0 ELSE k - 1 + 1
    BY FS_Interval
  <2> QED BY <2>1, FS_Interval
<1> SUFFICES ASSUME n < Len(q) PROVE FALSE
  BY <1>1
<1>3. \E i, j \in 1 .. Len(q) : i # j /\ q[i] = q[j]
  BY <1>1, <1>2, FS_PigeonHole
<1> QED BY <1>1, <1>3 DEF Distinct

(* The queue when no recalculation is under way: the marked nodes, each    *)
(* once, unless the ring has been overfilled.                              *)
MarkedOnce ==
  phase \in {"idle", "stabilize"} =>
    /\ Distinct(queue)
    /\ \A n \in Node : n \in Range(queue) => inChange[n]
    /\ ~lost => \A n \in Node : inChange[n] => n \in Range(queue)

(* So there is room for one more. *)
LEMMA RoomForOne ==
  ASSUME TypeOK, MarkedOnce, phase \in {"idle", "stabilize"}
  PROVE  Len(queue) <= chip.count /\ \A id : ~Overfills(id)
<1>1. chip.count \in Nat \ {0} /\ queue \in Seq(1 .. chip.count) /\ Distinct(queue)
  BY ChipFacts DEF TypeOK, Node, MarkedOnce
<1>2. Len(queue) <= chip.count
  BY <1>1, OnceIsFew
<1>3. Len(queue) # QueueFactor * chip.count - 1
  BY <1>1, <1>2 DEF QueueFactor
<1> QED BY <1>2, <1>3 DEF Overfills

LEMMA PushMarkedOnce ==
  ASSUME TypeOK, MarkedOnce, phase \in {"idle", "stabilize"}, NEW id \in Node, ChangedPush(id),
         chip' = chip
  PROVE  MarkedOnce' /\ lost' = lost
<1>1. queue \in Seq(Node) /\ inChange \in [Node -> BOOLEAN] /\ lost \in BOOLEAN
  BY DEF TypeOK
<1>2. /\ Distinct(queue)
      /\ \A n \in Node : n \in Range(queue) => inChange[n]
      /\ ~lost => \A n \in Node : inChange[n] => n \in Range(queue)
  BY DEF MarkedOnce
<1>3. \A n \in Node : inChange'[n] <=> inChange[n] \/ n = id
  BY <1>1 DEF ChangedPush
<1>4. ~Overfills(id)
  BY RoomForOne
<1>5. lost' = lost
  BY <1>1, <1>4 DEF ChangedPush
<1>6. CASE inChange[id]
  <2>1. queue' = queue
    BY <1>6 DEF ChangedPush
  <2> QED BY <1>2, <1>3, <1>6, <1>5, <2>1 DEF MarkedOnce, Node
<1>7. CASE ~inChange[id]
  <2>1. queue' = Append(queue, id) /\ id \notin Range(queue)
    BY <1>2, <1>7, <1>4 DEF ChangedPush
  <2>2. Distinct(queue') /\ Range(queue') = Range(queue) \cup {id}
    BY <1>1, <1>2, <2>1, DistinctAppend, RangeAppend
  <2> QED BY <1>2, <1>3, <1>5, <2>2 DEF MarkedOnce, Node
<1> QED BY <1>6, <1>7, <1>5

LEMMA MarkedOnceInit == Init => MarkedOnce
<1> SUFFICES ASSUME Init PROVE MarkedOnce
  OBVIOUS
<1>1. queue = <<>> /\ \A n \in Node : ~inChange[n]
  BY DEF Init
<1>2. Range(queue) = {} /\ Distinct(queue)
  BY <1>1 DEF Range, Distinct
<1> QED BY <1>1, <1>2 DEF MarkedOnce

LEMMA MarkedOnceStep == TypeOK /\ ChangesAreQueued /\ MarkedOnce /\ [Next]_vars => MarkedOnce'
<1> SUFFICES ASSUME TypeOK, ChangesAreQueued, MarkedOnce, [Next]_vars PROVE MarkedOnce'
  OBVIOUS
<1>0. chip' = chip /\ Node' = Node
  BY ChipConstant DEF Node
<1>1. ASSUME NEW id \in Pins \cap Node, NEW value \in BOOLEAN, SetNode(id, value)
      PROVE  MarkedOnce'
  BY <1>0, <1>1, PushMarkedOnce DEF SetNode
<1>2. CASE StabilizePush
  <2>1. cursor \in Node
    BY <1>2, CursorCounts
  <2> QED BY <1>0, <1>2, <2>1, PushMarkedOnce DEF StabilizePush
<1>3. CASE StabilizeNetwork
  BY <1>0, <1>3 DEF StabilizeNetwork, MarkedOnce, feed
<1>4. CASE RecalcReturn
  <2>1. Range(queue) = {} /\ Distinct(queue)
    BY <1>4 DEF RecalcReturn, Range, Distinct
  <2>2. ~lost => \A n \in Node : ~inChange[n]
    BY <2>1 DEF ChangesAreQueued
  <2> QED BY <1>0, <1>4, <2>1, <2>2 DEF RecalcReturn, MarkedOnce, feed
<1>5. CASE UNCHANGED vars
  BY <1>0, <1>5 DEF vars, feed, MarkedOnce
<1>6. CASE phase' \notin {"idle", "stabilize"}
  BY <1>6 DEF MarkedOnce
<1>7. \/ \E id \in Pins \cap Node, value \in BOOLEAN : SetNode(id, value)
      \/ StabilizePush \/ StabilizeNetwork \/ RecalcReturn \/ UNCHANGED vars
      \/ phase' \notin {"idle", "stabilize"}
  BY DEF Next, Host, Internal, StabilizeRecalc, Recalc, SkipStale, RecalcNode, SkipOpenLeg,
     FollowLeg, GroupComplete, KeepLevel, FlipLevel, CommitChange, CommitReturn, UpdateReturn
<1> QED BY <1>1, <1>2, <1>3, <1>4, <1>5, <1>6, <1>7

(* Between the calls of the host, and while stabilize_network queues every *)
(* node, the queue holds no stale entry and at most one for each node, so  *)
(* of the ring's 32 entries a node the host can never take more than one.  *)
THEOREM HostIsNoBurden == Spec => []HostLeavesRoom
<1>1. TypeOK /\ MarkedOnce => HostLeavesRoom
  BY RoomForOne DEF HostLeavesRoom, MarkedOnce
<1> QED BY <1>1, TypeInit, TypeStep, QueuedInit, QueuedStep, MarkedOnceInit, MarkedOnceStep,
           PTL DEF Spec

-----------------------------------------------------------------------------
(* The queue as ChangeRing and ChangeFifo have it. *)

Marked == {n \in Node : inChange[n]}

LEMMA PushIsFifo ==
  ASSUME TypeOK, NEW id \in Node, ChangedPush(id), chip' = chip,
         <<queue, inChange>>' # <<queue, inChange>>
  PROVE  \E c \in {chip} : Fifo(c)!Push(id)
<1>1. inChange \in [Node -> BOOLEAN]
  BY DEF TypeOK
<1>2. ~inChange[id]
  BY <1>1 DEF ChangedPush
<1>3. queue' = IF Len(queue) = QueueFactor * chip.count - 1 THEN <<>> ELSE Append(queue, id)
  BY <1>2 DEF ChangedPush, Overfills
<1>4. Marked' = Marked \cup {id} /\ id \notin Marked
  BY <1>1, <1>2 DEF ChangedPush, Marked, Node
<1> QED BY <1>3, <1>4 DEF Fifo!Push, Marked

LEMMA FifoStep ==
  TypeOK /\ [Next]_vars => [\E c \in {chip} : Fifo(c)!FNext]_<<queue, inChange>>
<1> SUFFICES ASSUME TypeOK, [Next]_vars, <<queue, inChange>>' # <<queue, inChange>>
             PROVE  \E c \in {chip} : Fifo(c)!FNext
  OBVIOUS
<1>0. chip' = chip /\ Node' = Node /\ Node = 1 .. chip.count
  BY ChipConstant DEF Node
<1>1. queue \in Seq(Node) /\ inChange \in [Node -> BOOLEAN]
  BY DEF TypeOK
<1>2. ASSUME NEW id \in Node, ChangedPush(id)
      PROVE  \E c \in {chip} : Fifo(c)!FNext
  BY <1>0, <1>2, PushIsFifo DEF Fifo!FNext
<1>3. CASE \E id \in Pins \cap Node, value \in BOOLEAN : SetNode(id, value)
  BY <1>2, <1>3 DEF SetNode
<1>4. CASE StabilizePush
  BY <1>2, <1>4, CursorCounts DEF StabilizePush
<1>5. CASE CommitChange
  BY <1>2, <1>5 DEF CommitChange, TypeOK
<1>6. CASE SkipStale
  <2>1. queue # <<>> /\ queue' = Tail(queue) /\ inChange' = inChange /\ ~inChange[Head(queue)]
    BY <1>6 DEF SkipStale
  <2>2. Marked' = Marked \ {Head(queue)}
    BY <1>0, <2>1 DEF Marked
  <2> QED BY <2>1, <2>2 DEF Fifo!FNext, Fifo!Pop, Marked
<1>7. CASE RecalcNode
  <2>1. queue # <<>> /\ queue' = Tail(queue) /\ Head(queue) \in Node
    BY <1>1, <1>7, RangeTail DEF RecalcNode
  <2>2. inChange' = [inChange EXCEPT ![Head(queue)] = FALSE]
    BY <1>1, <1>7 DEF RecalcNode, GroupAdd
  <2>3. Marked' = Marked \ {Head(queue)}
    BY <1>0, <1>1, <2>1, <2>2 DEF Marked
  <2> QED BY <2>1, <2>3 DEF Fifo!FNext, Fifo!Pop, Marked
<1>8. CASE FollowLeg
  <2> DEFINE id == Head(todo)[2]
  <2>1. queue' = queue /\ inChange' = [inChange EXCEPT ![id] = FALSE]
    BY <1>8 DEF FollowLeg, GroupAdd, feed
  <2>2. id \in Node
    BY <1>8, RangeTail DEF FollowLeg, TypeOK
  <2>3. Marked' = Marked \ {id}
    BY <1>0, <1>1, <2>1, <2>2 DEF Marked
  <2> HIDE DEF id
  <2> QED BY <1>0, <2>1, <2>2, <2>3 DEF Fifo!FNext, Fifo!Unmark, Marked
<1>9. \/ \E id \in Pins \cap Node, value \in BOOLEAN : SetNode(id, value)
      \/ StabilizePush \/ CommitChange \/ SkipStale \/ RecalcNode \/ FollowLeg
  BY DEF Next, Host, Internal, StabilizeNetwork, StabilizeRecalc, Recalc, RecalcReturn, SkipOpenLeg,
     GroupComplete, KeepLevel, FlipLevel, CommitReturn, UpdateReturn, vars, feed
<1> QED BY <1>3, <1>4, <1>5, <1>6, <1>7, <1>8, <1>9

(* The simulator uses its queue as ChangeRing assumes, the push of an      *)
(* entry too many included, so what RingImplementsFifo shows of the ring   *)
(* is true of the ring in the simulator.                                   *)
THEOREM UsesQueueAsFifo == Spec => QueueIsFifo
<1>1. Init => \A c \in {chip} : Fifo(c)!FInit
  BY DEF Init, Fifo!FInit, Marked
<1> QED BY <1>1, TypeInit, TypeStep, FifoStep, PTL DEF Spec, QueueIsFifo

-----------------------------------------------------------------------------
(* The simulator as SwitchNetwork.  Target, the levels the host would find *)
(* were the group in hand popped, moves only when a walk ends.             *)

LEMMA TargetStays ==
  ASSUME chip' = chip, \A m \in Node : Target'[m] = Target[m]
  PROVE  Target' = Target
<1>1. \A m \in Node : (IF phase' \in {"update", "commit"} /\ m \in Range(group')
                       THEN GroupHigh' ELSE high'[m]) = Target[m]
  BY TargetNext
<1> QED BY <1>1 DEF Target, Node

(* Outside of an update the levels are those of the nodes, and the         *)
(* transistors are where their gates have them.                            *)
LEMMA AtRest ==
  ASSUME TypeOK, LegsFollowGates, phase \notin {"update", "commit"} \/ group = <<>>
  PROVE  Target = high /\ Network!On = on
<1>1. Range(group) = {} \/ phase \notin {"update", "commit"}
  BY DEF Range
<1>2. Target = high
  BY <1>1 DEF Target, TypeOK
<1>3. \A t \in chip.trans : on[t] = high[chip.gate[t]]
  BY ChipFacts DEF LegsFollowGates, TypeOK
<1>4. on = [t \in chip.trans |-> high[chip.gate[t]]]
  BY <1>3 DEF TypeOK
<1> QED BY <1>2, <1>4 DEF Network!On

(* Popping a node gives it the level it already has in Target. *)
LEMMA TargetOnPop ==
  ASSUME TypeOK, GroupIsSet, chip' = chip, phase = "update", phase' \in {"update", "commit"},
         groupVal' = groupVal, group # <<>>, GroupPopped,
         high' = [high EXCEPT ![GroupTail] = GroupHigh]
  PROVE  Target' = Target
<1>1. group \in Seq(Signals) /\ Distinct(group)
  BY DEF TypeOK, GroupIsSet, Distinct
<1>2. /\ Range(group) = Range(group') \cup {GroupTail} /\ GroupTail \in Node
      /\ Range(group') = Range(group) \ {GroupTail}
  BY <1>1, RangeFront, DistinctFront DEF GroupPopped, GroupFront, GroupTail, Signals
<1>3. high \in [Node -> BOOLEAN] /\ GroupHigh' = GroupHigh
  BY DEF TypeOK, GroupHigh
<1>4. high'[GroupTail] = GroupHigh /\ \A m \in Node : m # GroupTail => high'[m] = high[m]
  BY <1>2, <1>3
<1>5. \A m \in Node : Target'[m] = Target[m]
  BY <1>2, <1>3, <1>4, TargetIs, TargetNext
<1> QED BY <1>5, TargetStays

(* The walk has come to its end: the group takes its level. *)
LEMMA EvaluateStep ==
  ASSUME TypeOK, LegsFollowGates, Walk, GroupComplete, group # <<>>
  PROVE  \E n \in Signals : Network!Evaluate(n)
<1>1. /\ phase = "group" /\ todo = <<>> /\ phase' = "update"
      /\ chip' = chip /\ pullup' = pullup /\ pulldown' = pulldown /\ stabilized' = stabilized
      /\ high' = high /\ group' = group /\ groupVal' = groupVal /\ lost' = lost
  BY DEF GroupComplete, wires, levels, feed, grouping
<1>2. group[1] \in Signals
  BY DEF TypeOK
<1>3. Target = high /\ Network!On = on
  BY <1>1, AtRest
<1>4. /\ Network!Component(on, group[1]) = Range(group)
      /\ GroupHigh \in Network!AllowedLevels(on, high, Range(group))
  BY <1>1, WalkEnds, NetworkComponent, NetworkLevels
<1>5. Target' = [m \in Node |-> IF m \in Range(group) THEN GroupHigh ELSE high[m]]
  BY <1>1 DEF Target, GroupHigh, Node
<1>6. (phase # "idle") /\ (phase' # "idle")
  BY <1>1
<1> QED BY <1>1, <1>2, <1>3, <1>4, <1>5, <1>6, NetworkIs DEF Network!Evaluate

LEMMA ReturnStep ==
  ASSUME TypeOK, LegsFollowGates, ChangesAreQueued, ComponentAccounted, RecalcReturn
  PROVE  Network!Return
<1>1. /\ phase = "recalc" /\ phase' = "idle" /\ queue = <<>>
      /\ chip' = chip /\ pullup' = pullup /\ pulldown' = pulldown /\ stabilized' = stabilized
      /\ high' = high /\ group' = group /\ groupVal' = groupVal /\ lost' = lost
  BY DEF RecalcReturn, wires, levels, feed, grouping
<1>2. Target = high /\ Network!On = on
  BY <1>1, AtRest
<1>3. ~lost => \A n \in Node : ~inChange[n]
  BY <1>1 DEF ChangesAreQueued, Range
<1>4. ASSUME stabilized, ~lost, Separated(chip), NEW n \in Signals
      PROVE  Network!Settled(on, high, n)
  <2>1. Network!Component(on, n) \subseteq Node
    BY NetworkComponent, ComponentComp, CompHas DEF Signals
  <2> QED BY <1>1, <1>3, <1>4, <2>1 DEF ComponentAccounted
<1>5. Target' = Target
  BY <1>1, <1>2 DEF Target, Node, TypeOK
<1> QED BY <1>1, <1>2, <1>4, <1>5, NetworkIs DEF Network!Return, Network!Separated, Separated

(* A step that is none of the network. *)
LEMMA NetworkStutters ==
  ASSUME chip' = chip, pullup' = pullup, pulldown' = pulldown, stabilized' = stabilized, lost' = lost,
         phase # "idle", phase' # "idle", Target' = Target
  PROVE  UNCHANGED Network!nvars
  BY DEF Network!nvars

LEMMA NetworkStep ==
  TypeOK /\ LegsFollowGates /\ GroupIsSet /\ Walk /\ ChangesAreQueued /\ ComponentAccounted
    /\ MarkedOnce /\ [Next]_vars => [Network!NNext]_Network!nvars
<1> SUFFICES ASSUME TypeOK, LegsFollowGates, GroupIsSet, Walk, ChangesAreQueued,
                    ComponentAccounted, MarkedOnce, [Next]_vars
             PROVE  Network!NNext \/ UNCHANGED Network!nvars
  OBVIOUS
<1>0. chip' = chip /\ Node' = Node /\ high \in [Node -> BOOLEAN]
  BY ChipConstant DEF Node, TypeOK
<1>1. ASSUME NEW id \in Pins \cap Node, NEW value \in BOOLEAN, SetNode(id, value)
      PROVE  Network!Drive(id, value)
  <2>1. Target' = Target
    BY <1>0, <1>1 DEF SetNode, Target, levels, grouping
  <2>2. lost' = lost
    BY <1>0, <1>1, PushMarkedOnce DEF SetNode
  <2> QED BY <1>1, <2>1, <2>2 DEF SetNode, Network!Drive
<1>2. ASSUME NEW all \in BOOLEAN, IF all THEN StabilizeNetwork ELSE Recalc
      PROVE  Network!Calculate(all)
  <2>1. Target' = Target
    BY <1>0, <1>2 DEF StabilizeNetwork, Recalc, Target, levels, grouping
  <2> QED BY <1>2, <2>1 DEF StabilizeNetwork, Recalc, Network!Calculate, wires, feed, TypeOK
<1>3. CASE StabilizePush \/ StabilizeRecalc \/ SkipStale \/ RecalcNode \/ SkipOpenLeg \/ FollowLeg
  <2>1. /\ pullup' = pullup /\ pulldown' = pulldown /\ stabilized' = stabilized /\ high' = high
        /\ phase \notin {"idle", "update", "commit"} /\ phase' \notin {"idle", "update", "commit"}
    BY <1>3 DEF StabilizePush, StabilizeRecalc, SkipStale, RecalcNode, SkipOpenLeg, FollowLeg,
       wires, levels
  <2>2. Target' = Target
    BY <1>0, <2>1 DEF Target
  <2>3. lost' = lost
    <3>1. CASE StabilizePush
      BY <1>0, <3>1, CursorCounts, PushMarkedOnce DEF StabilizePush
    <3>2. CASE ~StabilizePush
      BY <1>3, <3>2 DEF StabilizeRecalc, SkipStale, RecalcNode, SkipOpenLeg, FollowLeg, feed
    <3> QED BY <3>1, <3>2
  <2> QED BY <1>0, <2>1, <2>2, <2>3, NetworkStutters
<1>4. CASE GroupComplete /\ group = <<>>
  <2>1. /\ pullup' = pullup /\ pulldown' = pulldown /\ stabilized' = stabilized /\ high' = high
        /\ phase = "group" /\ phase' = "update" /\ group' = <<>>
        /\ lost' = lost
    BY <1>4 DEF GroupComplete, wires, levels, feed, grouping
  <2>2. Range(group') = {}
    BY <2>1 DEF Range
  <2>3. Target' = Target
    BY <1>0, <2>1, <2>2 DEF Target
  <2> QED BY <1>0, <2>1, <2>3, NetworkStutters
<1>5. CASE KeepLevel \/ FlipLevel
  <2>1. /\ pullup' = pullup /\ pulldown' = pulldown /\ stabilized' = stabilized
        /\ phase = "update" /\ phase' \in {"update", "commit"} /\ groupVal' = groupVal
        /\ group # <<>> /\ GroupPopped /\ lost' = lost
    BY <1>5 DEF KeepLevel, FlipLevel, wires, feed
  <2>2. high' = [high EXCEPT ![GroupTail] = GroupHigh]
    BY <1>0, <1>5 DEF KeepLevel, FlipLevel, levels
  <2>3. Target' = Target
    BY <1>0, <2>1, <2>2, TargetOnPop
  <2> QED BY <1>0, <2>1, <2>3, NetworkStutters
<1>6. CASE CommitChange \/ CommitReturn
  <2>1. /\ pullup' = pullup /\ pulldown' = pulldown /\ stabilized' = stabilized /\ high' = high
        /\ phase = "commit" /\ phase' \in {"update", "commit"}
        /\ group' = group /\ groupVal' = groupVal
    BY <1>6 DEF CommitChange, CommitReturn, wires, levels, grouping
  <2>2. Target' = Target
    BY <1>0, <2>1 DEF Target, GroupHigh
  <2>3. lost' = lost \/ lost' = TRUE
    BY <1>6 DEF CommitChange, CommitReturn, ChangedPush, TypeOK, feed
  <2>4. CASE lost' = lost
    BY <1>0, <2>1, <2>2, <2>4, NetworkStutters
  <2>5. CASE lost' = TRUE
    BY <1>0, <2>1, <2>2, <2>5 DEF Network!NNext, Network!GiveUp
  <2> QED BY <2>3, <2>4, <2>5
<1>7. CASE UpdateReturn
  <2>1. /\ pullup' = pullup /\ pulldown' = pulldown /\ stabilized' = stabilized /\ high' = high
        /\ phase = "update" /\ phase' = "recalc" /\ group = <<>>
        /\ lost' = lost
    BY <1>7 DEF UpdateReturn, wires, levels, feed
  <2>2. Target' = high
    BY <1>0, <2>1 DEF Target
  <2>3. Target' = Target
    BY <2>1, <2>2, AtRest
  <2> QED BY <1>0, <2>1, <2>3, NetworkStutters
<1>8. CASE UNCHANGED vars
  BY <1>0, <1>8 DEF vars, wires, levels, feed, grouping, Network!nvars, Target, GroupHigh
<1> QED BY <1>1, <1>2, <1>3, <1>4, <1>5, <1>6, <1>7, <1>8, EvaluateStep, ReturnStep, NetworkIs
        DEF Next, Host, Internal, Network!NNext

(* The simulator implements SwitchNetwork for every netlist, separated or  *)
(* not: its walks, its marks and its collected changes, and that a group   *)
(* is flipped node by node, cannot be told by the host from a network in   *)
(* which whole groups of joined nodes take a level that their sources      *)
(* allow.  That a call returns with everything settled is promised for     *)
(* the separated, and until a calculation has overfilled the ring.         *)
THEOREM NetworkImplemented == Spec => ImplementsNetwork
<1>1. Init => Network!NInit
  <2> SUFFICES ASSUME Init PROVE Network!NInit
    OBVIOUS
  <2>1. chip \in Chips /\ phase = "idle" /\ stabilized = FALSE /\ lost = FALSE
    BY DEF Init
  <2>2. Target = [n \in Node |-> n = chip.power]
    BY DEF Init, Target
  <2> QED BY <2>1, <2>2, NetworkIs DEF Init, Network!NInit
<1> QED BY <1>1, TypeInit, TypeStep, GroupInit, GroupStep, LegsInit, LegsStep, WalkInit, WalkStep,
           QueuedInit, QueuedStep, EventsInit, EventsStep, EventsAccount, MarkedOnceInit,
           MarkedOnceStep, NetworkStep, PTL
        DEF Spec, ImplementsNetwork, Network!NSpec
=============================================================================
