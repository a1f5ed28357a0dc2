--------------------------- MODULE NmosProperties ---------------------------
(***************************************************************************)
(* What class nmos must get right, stated over the steps of module Nmos.   *)
(*                                                                         *)
(* The simulator is event driven: it never looks at the whole network, so  *)
(* a node that is not on the queue is taken to be right.  Most of the      *)
(* properties below are about that claim.                                  *)
(***************************************************************************)
EXTENDS Nmos

TypeOK ==
  /\ chip \in Chips
  /\ pullup \in [Node -> BOOLEAN]
  /\ pulldown \in [Node -> BOOLEAN]
  /\ high \in [Node -> BOOLEAN]
  /\ inChange \in [Node -> BOOLEAN]
  /\ inGroup \in [Node -> BOOLEAN]
  /\ on \in [chip.trans -> BOOLEAN]
  /\ queue \in Seq(Node)
  /\ group \in Seq(Signals)
  /\ groupVal \in Contents
  /\ todo \in Seq(chip.trans \X Node)
  /\ changes \subseteq Node \X chip.trans \X {1, 2}
  /\ cursor \in 1 .. chip.count + 1
  /\ phase \in Phases
  /\ stabilized \in BOOLEAN
  /\ lost \in BOOLEAN

-----------------------------------------------------------------------------
(* The queue and its marks. *)

(* Until the ring is overfilled, a node marked as changed is on the queue: *)
(* changed_push trusts the mark and does not queue the node again, so a    *)
(* mark without an entry keeps the node from ever being looked at.         *)
ChangesAreQueued ==
  ~lost => \A n \in Node : inChange[n] => n \in Range(queue)

(* Only recalc can overfill the ring, which changed_push never checks: when *)
(* a call has returned no stale entry is left, so what the host queues      *)
(* then, and stabilize_network on top of it, is at most one entry a node.   *)
HostLeavesRoom ==
  phase \in {"idle", "stabilize"} =>
    /\ Len(queue) <= chip.count
    /\ \A n \in Node : n \in Range(queue) => inChange[n]
    /\ lost \/ \A n \in Node : inChange[n] => n \in Range(queue)

(* The queue is used as ChangeRing is: what is taken off is the oldest     *)
(* entry and loses its mark, what is put on is not marked and gets one,    *)
(* one entry too many leaves none, and marks are cleared one at a time.    *)
Fifo(c) == INSTANCE ChangeFifo WITH
  Ids <- 1 .. c.count, Size <- QueueFactor * c.count,
  entries <- queue, marked <- {n \in Node : inChange[n]}

QueueIsFifo ==
  /\ \A c \in {chip} : Fifo(c)!FInit
  /\ [][\E c \in {chip} : Fifo(c)!FNext]_<<queue, inChange>>

(* change_order holds node_count entries, which add_ordered_change never   *)
(* checks; a node that goes low fills in two for every transistor it gates.*)
ChangeOrderFits == Cardinality(changes) <= chip.count

-----------------------------------------------------------------------------
(* Transistors and groups. *)

(* The flags of a transistor's legs are flipped whenever its gate flips;   *)
(* nothing ever computes them anew.  They say whether the gate is high     *)
(* (nmos.cc:44-45).                                                        *)
LegsFollowGates == \A t \in chip.trans : on[t] <=> high[chip.gate[t]]

(* The group in hand lists each of its nodes once, exactly those marked    *)
(* node_in_group, never a supply; between two recalc_node calls no mark is *)
(* left.  So it never outgrows the chip, which answers the question at     *)
(* nmos.cc:251, and the walk of group_add ends.                            *)
GroupIsSet ==
  /\ \A i, j \in DOMAIN group : group[i] = group[j] => i = j
  /\ \A n \in Node : inGroup[n] <=> n \in Range(group)
  /\ phase \in {"idle", "stabilize", "recalc"} => group = <<>>

(* The levels once the group in hand has been popped: the group has its    *)
(* level as soon as its walk has come to its end.                          *)
Target == [m \in Node |-> IF phase \in {"update", "commit"} /\ m \in Range(group)
                          THEN GroupHigh ELSE high[m]]

Network == INSTANCE SwitchNetwork WITH level <- Target, calculating <- phase # "idle",
                                   gaveUp <- lost

(* The depth-first walk of group_add, with the value it accumulates on the *)
(* way, finds exactly the nodes joined to its first one, and a level their *)
(* sources allow.                                                          *)
GroupIsComponent ==
  phase = "group" /\ todo = <<>> /\ group # <<>> =>
    /\ Range(group) = Network!Component(on, group[1])
    /\ GroupHigh \in Network!AllowedLevels(on, high, Range(group))

-----------------------------------------------------------------------------
(* The event-driven claim itself. *)

(* Once stabilize_network has queued every node, whatever is joined has    *)
(* either one of its nodes marked, or a level its sources allow on all of  *)
(* them: the skip at nmos.cc:498 and the single leg pushed at              *)
(* nmos.cc:503-506 must not lose a change.  With ChangesAreQueued, a call  *)
(* that returns leaves a network that a full evaluation would not change.  *)
ComponentAccounted ==
  stabilized /\ phase \in {"idle", "recalc"} /\ Separated(chip) =>
    \A n \in Signals :
      (\E m \in Network!Component(on, n) : inChange[m]) \/ Network!Settled(on, high, n)

(* What machine_6502.cc:57-58 expects of stabilize_network ("compute       *)
(* initial states of all nodes"), for every chip: when the queue has been  *)
(* worked off, every group has a level that its sources allow.             *)
StabilizeSettles ==
  stabilized /\ phase = "idle" /\ queue = <<>> =>
    \A n \in Signals : Network!Settled(on, high, n)

(* All in all: to its host the simulator is SwitchNetwork.  The flips of a *)
(* group, with the transistors that switch between two of them, amount to  *)
(* one step in which the group takes its level, nothing else ever changes  *)
(* a level, and a call returns with a network that is settled, unless a    *)
(* calculation has overfilled the ring.                                    *)
ImplementsNetwork == Network!NSpec

(* A call of recalc or stabilize_network returns (of a network that does   *)
(* not oscillate: a ring of inverters keeps the code busy for ever).       *)
RecalcReturns == phase # "idle" ~> phase = "idle"
=============================================================================
