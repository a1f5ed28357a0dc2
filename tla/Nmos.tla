------------------------------- MODULE Nmos -------------------------------
(***************************************************************************)
(* The switch-level simulator of src/src/nmos.cc (class nmos).             *)
(*                                                                         *)
(* Nodes are joined by transistors.  A transistor is on while its gate     *)
(* node is high, and then joins its two legs.  The simulator is driven by  *)
(* events: a node whose surroundings changed is put on the changed queue;  *)
(* recalc_nodes() takes nodes off the queue, collects the group of nodes   *)
(* joined to each by transistors that are on, computes one level for the   *)
(* whole group, and puts on the queue the legs of every transistor that    *)
(* switched.                                                               *)
(*                                                                         *)
(* The code is single threaded.  One action below is one iteration of one  *)
(* of its loops, so that the intermediate states of a call are visible;    *)
(* phase says which loop is running.                                       *)
(***************************************************************************)
EXTENDS NmosNetlist

CONSTANTS
  Chips,    \* the chips, as records built by Construct of NmosNetlist
  Pins      \* the nodes the host may drive with set_node

QueueFactor == 32      \* changed_queue and current_group hold node_count() * 32

(* The theorem ConstructsChips of NmosLayoutProofs shows it of every chip   *)
(* that the constructor makes of a description like mos6502.inc.           *)
ASSUME ChipsAssumption == \A c \in Chips : ChipOK(c)

VARIABLES
  chip,        \* the chip under simulation; chosen in Init, then constant
  pullup,      \* node_is_pullup   of every node
  pulldown,    \* node_is_pulldown of every node
  high,        \* node_is_high     of every node
  inChange,    \* node_in_changelist of every node
  inGroup,     \* node_in_group    of every node
  on,          \* the flag in the legs of every transistor
  queue,       \* changed_queue, from changed_eating to changed_feeding
  group,       \* current_group, up to group_tail
  groupVal,    \* group_current_value
  todo,        \* connectors the nested calls of group_add have yet to look at
  changes,     \* change_order, up to change_count: <<id, transistor, leg>>
  cursor,      \* the loop counter of stabilize_network
  phase,       \* the loop that is running
  stabilized,  \* history: stabilize_network has been called
  lost         \* history: a push has overfilled the ring

wires    == <<pullup, pulldown>>
grouping == <<group, groupVal, inGroup, todo>>
levels   == <<high, on>>
feed     == <<queue, inChange, lost>>
vars     == <<chip, wires, levels, feed, grouping, changes, cursor, phase, stabilized>>

Node     == 1 .. chip.count
Supplies == {chip.power, chip.ground}
Signals  == Node \ Supplies
Contents == {"nothing", "high", "pullup", "pulldown", "power", "ground"}
Phases   == {"idle", "stabilize", "recalc", "group", "update", "commit"}

-----------------------------------------------------------------------------
(* The constructor: no node is high but the power node. *)
Init ==
  /\ chip \in Chips
  /\ pullup   = [n \in Node |-> n \in chip.pullups]
  /\ pulldown = [n \in Node |-> FALSE]
  /\ high     = [n \in Node |-> n = chip.power]
  /\ inChange = [n \in Node |-> FALSE]
  /\ inGroup  = [n \in Node |-> FALSE]
  /\ on       = [t \in chip.trans |-> FALSE]
  /\ queue = <<>> /\ group = <<>> /\ todo = <<>>
  /\ groupVal = "nothing"
  /\ changes = {}
  /\ cursor = 1
  /\ phase = "idle"
  /\ stabilized = FALSE
  /\ lost = FALSE

(* One entry more than the ring takes, and it looks empty. *)
Overfills(id) == ~inChange[id] /\ Len(queue) = QueueFactor * chip.count - 1

(* Bug: the mark is set but not looked at. *)
Bug_ChangedPush(id) ==
  /\ queue' = IF Overfills(id) THEN <<>> ELSE Append(queue, id)
  /\ inChange' = [inChange EXCEPT ![id] = TRUE]
  /\ lost' = (lost \/ Overfills(id))

(* changed_push: a node already marked is not queued again.  Nothing keeps  *)
(* changed_feeding from reaching changed_eating: all entries are then lost, *)
(* and their marks stay.                                                    *)
ChangedPush(id) ==
  /\ queue' = IF inChange[id] THEN queue
               ELSE IF Overfills(id) THEN <<>> ELSE Append(queue, id)
  /\ inChange' = [inChange EXCEPT ![id] = TRUE]
  /\ lost' = (lost \/ Overfills(id))

-----------------------------------------------------------------------------
(* The calls of the host. *)

(* set_node: nothing happens unless the pull-up changes. *)
SetNode(id, value) ==
  /\ phase = "idle"
  /\ pullup[id] # value
  /\ pullup'   = [pullup EXCEPT ![id] = value]
  /\ pulldown' = [pulldown EXCEPT ![id] = ~value]
  /\ ChangedPush(id)
  /\ UNCHANGED <<chip, levels, grouping, changes, cursor, phase, stabilized>>

StabilizeNetwork ==
  /\ phase = "idle"
  /\ phase' = "stabilize"
  /\ cursor' = 1
  /\ stabilized' = TRUE
  /\ UNCHANGED <<chip, wires, levels, feed, grouping, changes>>

StabilizePush ==
  /\ phase = "stabilize"
  /\ cursor <= chip.count
  /\ ChangedPush(cursor)
  /\ cursor' = (cursor + 1) % (MaxId + 1)
  /\ UNCHANGED <<chip, wires, levels, grouping, changes, phase, stabilized>>

StabilizeRecalc ==
  /\ phase = "stabilize"
  /\ cursor > chip.count
  /\ phase' = "recalc"
  /\ UNCHANGED <<chip, wires, levels, feed, grouping, changes, cursor, stabilized>>

Recalc ==
  /\ phase = "idle"
  /\ phase' = "recalc"
  /\ UNCHANGED <<chip, wires, levels, feed, grouping, changes, cursor, stabilized>>

-----------------------------------------------------------------------------
(* The group of nodes joined to the one taken off the queue. *)

(* Bug: a pull-up in the group keeps a pull-down from being seen. *)
Bug_UpdatedValue(val, id) ==
  IF val = "nothing" /\ pulldown[id] THEN "pulldown"
  ELSE IF val = "nothing" /\ pullup[id] THEN "pullup"
  ELSE IF val = "nothing" /\ high[id] THEN "high"
  ELSE val

(* group_update_value: a switch whose cases fall through. *)
UpdatedValue(val, id) ==
  IF val \in {"nothing", "pullup", "pulldown"} /\ pulldown[id] THEN "pulldown"
  ELSE IF val \in {"nothing", "pullup"} /\ pullup[id] THEN "pullup"
  ELSE IF val = "nothing" /\ high[id] THEN "high"
  ELSE val

(* Bug: the ground node is not told apart from a signal. *)
Bug_GroupAdd(id, marks, val, rest) ==
  \/ /\ inGroup[id] \/ id = chip.power
     /\ todo' = rest
     /\ groupVal' = val
     /\ inChange' = marks
     /\ UNCHANGED <<group, inGroup>>
  \/ /\ ~inGroup[id] /\ id # chip.power
     /\ inGroup' = [inGroup EXCEPT ![id] = TRUE]
     /\ inChange' = [marks EXCEPT ![id] = FALSE]
     /\ group' = Append(group, id)
     /\ groupVal' = UpdatedValue(val, id)
     /\ todo' = chip.sibs[id] \o rest

(* group_add(id), where marks is node_in_changelist before the call, val   *)
(* the value of the group so far and rest what the callers have left to    *)
(* do.  The connectors of a node that joins the group come before rest, as *)
(* in the recursion of the code.                                           *)
GroupAdd(id, marks, val, rest) ==
  \/ /\ id = chip.ground
     /\ groupVal' = "ground"
     /\ todo' = rest
     /\ inChange' = marks
     /\ UNCHANGED <<group, inGroup>>
  \/ /\ id = chip.power
     /\ groupVal' = IF val = "ground" THEN val ELSE "power"
     /\ todo' = rest
     /\ inChange' = marks
     /\ UNCHANGED <<group, inGroup>>
  \/ /\ id \in Signals /\ inGroup[id]
     /\ todo' = rest
     /\ groupVal' = val
     /\ inChange' = marks
     /\ UNCHANGED <<group, inGroup>>
  \/ /\ id \in Signals /\ ~inGroup[id]
     /\ inGroup' = [inGroup EXCEPT ![id] = TRUE]
     /\ inChange' = [marks EXCEPT ![id] = FALSE]
     /\ group' = Append(group, id)
     /\ groupVal' = UpdatedValue(val, id)
     /\ todo' = chip.sibs[id] \o rest

(* Bug: the call returns when no node is marked, whatever is on the queue. *)
Bug_RecalcReturn ==
  /\ phase = "recalc"
  /\ \A n \in Node : ~inChange[n]
  /\ phase' = "idle"
  /\ UNCHANGED <<chip, wires, levels, feed, grouping, changes, cursor, stabilized>>

(* recalc_nodes: the queue is empty, the call returns. *)
RecalcReturn ==
  /\ phase = "recalc"
  /\ queue = <<>>
  /\ phase' = "idle"
  /\ UNCHANGED <<chip, wires, levels, feed, grouping, changes, cursor, stabilized>>

(* Bug: the stale entry is looked at but not taken off the queue. *)
Bug_SkipStale ==
  /\ phase = "recalc"
  /\ queue # <<>>
  /\ ~inChange[Head(queue)]
  /\ UNCHANGED vars

(* recalc_node on an entry whose mark some group has cleared meanwhile. *)
SkipStale ==
  /\ phase = "recalc"
  /\ queue # <<>>
  /\ ~inChange[Head(queue)]
  /\ queue' = Tail(queue)
  /\ UNCHANGED <<chip, wires, levels, inChange, lost, grouping, changes, cursor, phase, stabilized>>

(* Bug: line 476 is missing; group_add clears only the marks of signals. *)
Bug_RecalcNode ==
  /\ phase = "recalc"
  /\ queue # <<>>
  /\ inChange[Head(queue)]
  /\ queue' = Tail(queue)
  /\ GroupAdd(Head(queue), inChange, "nothing", <<>>)
  /\ phase' = "group"
  /\ UNCHANGED <<chip, wires, levels, lost, changes, cursor, stabilized>>

(* recalc_node: take the node off the queue and group_setup. *)
RecalcNode ==
  /\ phase = "recalc"
  /\ queue # <<>>
  /\ inChange[Head(queue)]
  /\ queue' = Tail(queue)
  /\ GroupAdd(Head(queue), [inChange EXCEPT ![Head(queue)] = FALSE], "nothing", <<>>)
  /\ phase' = "group"
  /\ UNCHANGED <<chip, wires, levels, lost, changes, cursor, stabilized>>

(* The loop of group_add over the connectors: the transistor is off ... *)
SkipOpenLeg ==
  /\ phase = "group"
  /\ todo # <<>>
  /\ ~on[Head(todo)[1]]
  /\ todo' = Tail(todo)
  /\ UNCHANGED <<chip, wires, levels, feed, group, groupVal, inGroup, changes,
                 cursor, phase, stabilized>>

(* ... or on, and the node on its other leg is added. *)
FollowLeg ==
  /\ phase = "group"
  /\ todo # <<>>
  /\ on[Head(todo)[1]]
  /\ GroupAdd(Head(todo)[2], inChange, groupVal, Tail(todo))
  /\ UNCHANGED <<chip, wires, levels, queue, lost, changes, cursor, phase, stabilized>>

GroupComplete ==
  /\ phase = "group"
  /\ todo = <<>>
  /\ phase' = "update"
  /\ UNCHANGED <<chip, wires, levels, feed, grouping, changes, cursor, stabilized>>

(* group_get_value *)
GroupHigh == groupVal \in {"power", "pullup", "high"}

-----------------------------------------------------------------------------
(* The second half of recalc_node: group_pop until the group is empty. *)

GroupTail  == group[Len(group)]
GroupFront == SubSeq(group, 1, Len(group) - 1)

GroupPopped ==
  /\ group' = GroupFront
  /\ inGroup' = [inGroup EXCEPT ![GroupTail] = FALSE]

(* Bug: group_pop leaves node_in_group set. *)
Bug_KeepLevel ==
  /\ phase = "update"
  /\ group # <<>>
  /\ high[GroupTail] = GroupHigh
  /\ group' = GroupFront
  /\ UNCHANGED <<chip, wires, levels, feed, inGroup, groupVal, todo, changes, cursor,
                 phase, stabilized>>

(* A node popped at the level of the group stays as it is. *)
KeepLevel ==
  /\ phase = "update"
  /\ group # <<>>
  /\ high[GroupTail] = GroupHigh
  /\ GroupPopped
  /\ UNCHANGED <<chip, wires, levels, feed, groupVal, todo, changes, cursor, phase, stabilized>>

(* Bug: only one leg of a transistor that goes off is collected. *)
Bug_OneLegChanges(id, level, lv) ==
  LET gated == {t \in chip.trans : chip.gate[t] = id}
      woken(t) == IF chip.c1[t] \notin Supplies THEN chip.c1[t] ELSE chip.c2[t]
  IN IF level
     THEN {<<woken(t), t, 1>> : t \in {u \in gated : lv[chip.c1[u]] # lv[chip.c2[u]]}}
     ELSE {<<woken(t), t, 1>> : t \in gated}

(* Bug: a transistor that goes off has its gate collected as well. *)
Bug_GateLegChanges(id, level, lv) ==
  LET gated == {t \in chip.trans : chip.gate[t] = id}
      woken(t) == IF chip.c1[t] \notin Supplies THEN chip.c1[t] ELSE chip.c2[t]
  IN IF level
     THEN {<<woken(t), t, 1>> : t \in {u \in gated : lv[chip.c1[u]] # lv[chip.c2[u]]}}
     ELSE UNION {{<<chip.c1[t], t, 1>>, <<chip.c2[t], t, 2>>, <<id, t, 1>>} : t \in gated}

(* The entries add_ordered_change makes for the transistors gated by id    *)
(* when it moves to level: both legs of a transistor that goes off; of one *)
(* that goes on, the leg that is not a supply, and nothing at all when the *)
(* flags lv of the two legs are already equal.                             *)
LegChanges(id, level, lv) ==
  LET gated == {t \in chip.trans : chip.gate[t] = id}
      woken(t) == IF chip.c1[t] \notin Supplies THEN chip.c1[t] ELSE chip.c2[t]
  IN IF level
     THEN {<<woken(t), t, 1>> : t \in {u \in gated : lv[chip.c1[u]] # lv[chip.c2[u]]}}
     ELSE {<<chip.c1[t], t, 1>> : t \in gated} \cup {<<chip.c2[t], t, 2>> : t \in gated}

(* Bug: the flags of the legs flip only after the test of line 498. *)
Bug_FlipLevel ==
  /\ phase = "update"
  /\ group # <<>>
  /\ high[GroupTail] # GroupHigh
  /\ GroupPopped
  /\ high' = [high EXCEPT ![GroupTail] = GroupHigh]
  /\ on' = [t \in chip.trans |->
              IF chip.gate[t] = GroupTail /\ high'[chip.c1[t]] # high'[chip.c2[t]]
              THEN ~on[t] ELSE on[t]]
  /\ changes' = LegChanges(GroupTail, GroupHigh, high')
  /\ phase' = "commit"
  /\ UNCHANGED <<chip, wires, feed, groupVal, todo, cursor, stabilized>>

(* A node popped at the other level is flipped, its transistors switch, and *)
(* their legs are collected in change_order.                                *)
FlipLevel ==
  /\ phase = "update"
  /\ group # <<>>
  /\ high[GroupTail] # GroupHigh
  /\ GroupPopped
  /\ high' = [high EXCEPT ![GroupTail] = GroupHigh]
  /\ on' = [t \in chip.trans |-> IF chip.gate[t] = GroupTail THEN ~on[t] ELSE on[t]]
  /\ changes' = LegChanges(GroupTail, GroupHigh, high')
  /\ phase' = "commit"
  /\ UNCHANGED <<chip, wires, feed, groupVal, todo, cursor, stabilized>>

(* commit_ordered_changes: the heap gives the least id first; the pushes of *)
(* an id that the heap holds several times come one after the other.        *)
CommitChange ==
  /\ phase = "commit"
  /\ \E ch \in changes :
       /\ \A other \in changes : ch[1] <= other[1]
       /\ ChangedPush(ch[1])
       /\ changes' = {other \in changes : other[1] # ch[1]}
  /\ UNCHANGED <<chip, wires, levels, grouping, cursor, phase, stabilized>>

(* Bug: recalc_node is left after the first node that flips. *)
Bug_CommitReturn ==
  /\ phase = "commit"
  /\ changes = {}
  /\ phase' = "recalc"
  /\ UNCHANGED <<chip, wires, levels, feed, grouping, changes, cursor, stabilized>>

CommitReturn ==
  /\ phase = "commit"
  /\ changes = {}
  /\ phase' = "update"
  /\ UNCHANGED <<chip, wires, levels, feed, grouping, changes, cursor, stabilized>>

UpdateReturn ==
  /\ phase = "update"
  /\ group = <<>>
  /\ phase' = "recalc"
  /\ UNCHANGED <<chip, wires, levels, feed, grouping, changes, cursor, stabilized>>

-----------------------------------------------------------------------------
Host ==
  \/ \E id \in Pins \cap Node, value \in BOOLEAN : SetNode(id, value)
  \/ StabilizeNetwork
  \/ Recalc

(* The steps inside a call. *)
Internal ==
  \/ StabilizePush \/ StabilizeRecalc
  \/ RecalcReturn \/ SkipStale \/ RecalcNode
  \/ SkipOpenLeg \/ FollowLeg \/ GroupComplete
  \/ KeepLevel \/ FlipLevel
  \/ CommitChange \/ CommitReturn \/ UpdateReturn

Next == Host \/ Internal

Spec == Init /\ [][Next]_vars

(* A call that has begun keeps running: the code has no other thread. *)
FairSpec == Spec /\ WF_vars(Internal)
=============================================================================
