----------------------------- MODULE FlatMemory -----------------------------
(***************************************************************************)
(* What the memory of a machine looks like from the bus of its CPU: one    *)
(* cell for every address, some of which a write does not change, and a    *)
(* window of registers through which a device talks to the CPU.            *)
(***************************************************************************)
EXTENDS Integers

CONSTANTS
  Bytes,       \* the bytes that are written
  Registers    \* the addresses of the device's registers

VARIABLES
  cells,       \* what a read of each address gives
  readOnly,    \* the addresses where a write has no effect
  access       \* the access of this cycle and its byte, once it is done

mvars == <<cells, readOnly, access>>

None == <<"none">>

FlatInit ==
  /\ readOnly \subseteq DOMAIN cells /\ readOnly \cap Registers = {}
  /\ access = None

Read(a) ==
  /\ access = None
  /\ access' = <<"read", a, cells[a]>>
  /\ UNCHANGED <<cells, readOnly>>

Write(a, b) ==
  /\ access = None
  /\ access' = <<"write", a, b>>
  /\ cells' = IF a \in readOnly THEN cells ELSE [cells EXCEPT ![a] = b]
  /\ UNCHANGED readOnly

NextCycle ==
  /\ access # None
  /\ access' = None
  /\ UNCHANGED <<cells, readOnly>>

(* The device changes its registers, and nothing else. *)
Device ==
  /\ DOMAIN cells' = DOMAIN cells
  /\ \A a \in DOMAIN cells \ Registers : cells'[a] = cells[a]
  /\ UNCHANGED <<readOnly, access>>

FlatNext ==
  \/ \E a \in DOMAIN cells : Read(a) \/ \E b \in Bytes : Write(a, b)
  \/ NextCycle \/ Device

FlatSpec == FlatInit /\ [][FlatNext]_mvars
=============================================================================
