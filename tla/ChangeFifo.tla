----------------------------- MODULE ChangeFifo -----------------------------
(***************************************************************************)
(* What the queue of changed nodes of class nmos amounts to: a FIFO with a *)
(* mark on every id, that takes no id which is marked, and that forgets    *)
(* all it holds when an entry too many is pushed.                          *)
(***************************************************************************)
EXTENDS Integers, Sequences

CONSTANTS
  Ids,      \* the ids of the nodes
  Size      \* the entries that changed_queue has

VARIABLES
  entries,  \* the ids that are queued, the oldest first
  marked    \* the ids that carry node_in_changelist

fvars == <<entries, marked>>

FInit == entries = <<>> /\ marked = {}

Push(id) ==
  /\ id \notin marked
  /\ entries' = IF Len(entries) = Size - 1 THEN <<>> ELSE Append(entries, id)
  /\ marked' = marked \cup {id}

(* Entries of ids that are not marked are taken off like any other. *)
Pop ==
  /\ entries # <<>>
  /\ entries' = Tail(entries)
  /\ marked' = marked \ {Head(entries)}

(* A group takes in an id; its entry stays. *)
Unmark(id) ==
  /\ marked' = marked \ {id}
  /\ UNCHANGED entries

FNext == (\E id \in Ids : Push(id) \/ Unmark(id)) \/ Pop

FSpec == FInit /\ [][FNext]_fvars
=============================================================================
