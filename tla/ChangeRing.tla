----------------------------- MODULE ChangeRing -----------------------------
(***************************************************************************)
(* The queue of changed nodes as class nmos keeps it: a ring with a place  *)
(* to take entries from and a place to put them (src/src/nmos.cc:144-190). *)
(* The two are equal when the ring is empty, and nothing checks that they  *)
(* do not meet when it is full.                                            *)
(***************************************************************************)
EXTENDS Integers, Sequences

CONSTANTS
  Ids,      \* the ids of the nodes
  Size      \* node_count() * 32

ASSUME RingAssumption == Size \in Nat \ {0} /\ Ids # {}

VARIABLES
  slots,    \* changed_queue
  eating,   \* changed_eating, as an offset
  feeding,  \* changed_feeding, as an offset
  marked    \* the ids that carry node_in_changelist

rvars == <<slots, eating, feeding, marked>>

Slots == 0 .. Size - 1

(* changed_queue_init: resize() fills the slots with zeroes. *)
Init ==
  /\ slots = [i \in Slots |-> 0]
  /\ eating = 0 /\ feeding = 0
  /\ marked = {}

(* Bug: the iterator is not set back at end(). *)
Bug_NoEnd(i) == i + 1

(* An iterator that reaches end() goes back to begin(). *)
Following(i) == IF i + 1 = Size THEN 0 ELSE i + 1

IsEmpty == eating = feeding

(* Bug: the place is moved on before it is written to. *)
Bug_Push(id) ==
  /\ id \notin marked
  /\ slots' = [slots EXCEPT ![Following(feeding)] = id]
  /\ feeding' = Following(feeding)
  /\ marked' = marked \cup {id}
  /\ UNCHANGED eating

(* changed_push *)
Push(id) ==
  /\ id \notin marked
  /\ slots' = [slots EXCEPT ![feeding] = id]
  /\ feeding' = Following(feeding)
  /\ marked' = marked \cup {id}
  /\ UNCHANGED eating

(* changed_pop, and recalc_node clears the mark. *)
Pop ==
  /\ ~IsEmpty
  /\ eating' = Following(eating)
  /\ marked' = marked \ {slots[eating]}
  /\ UNCHANGED <<slots, feeding>>

(* group_add clears the mark of a node that joins a group. *)
Unmark(id) ==
  /\ marked' = marked \ {id}
  /\ UNCHANGED <<slots, eating, feeding>>

Next == (\E id \in Ids : Push(id) \/ Unmark(id)) \/ Pop

Spec == Init /\ [][Next]_rvars

-----------------------------------------------------------------------------
SlotsOK ==
  /\ slots \in [Slots -> Ids \cup {0}]
  /\ eating \in Slots /\ feeding \in Slots
  /\ marked \subseteq Ids

(* The entries between the two places, across the end of the vector. *)
Held == IF eating <= feeding THEN feeding - eating ELSE Size - eating + feeding
Place(k) == IF eating + k < Size THEN eating + k ELSE eating + k - Size
Entries == [k \in 1 .. Held |-> slots[Place(k - 1)]]

(* No entry between the two places is one of the zeroes resize() left.     *)
HoldsIds == \A k \in DOMAIN Entries : Entries[k] \in Ids

TypeOK == SlotsOK /\ HoldsIds

Fifo == INSTANCE ChangeFifo WITH entries <- Entries

(* The ring hands entries out in the order they came in, wherever in the   *)
(* vector they are, as long as there are fewer than Size of them; one more *)
(* loses them all while their marks stay.                                  *)
RingImplementsFifo == Fifo!FSpec
=============================================================================
