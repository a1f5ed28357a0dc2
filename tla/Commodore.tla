----------------------------- MODULE Commodore -----------------------------
(***************************************************************************)
(* commodore::on_CPU_cycle (src/testbench/commodore.cc): what the host     *)
(* does after a cycle of the CPU, told from the bytes r of the registers.  *)
(***************************************************************************)
EXTENDS AddressSpace

SelectChrin   == 1
SelectChrout  == 2
SelectNotImpl == 3

(* handle_chrin reads a character, if there is one. *)
Fetches(r) == r[Select] = SelectChrin /\ r[IO] = 0

(* handle_chrout writes the character in IO. *)
Prints(r) == r[Select] = SelectChrout /\ r[IO] # 0

(* handle_chrin, handle_chrout or on_CPU_cycle asks for clear_all. *)
ClearsAll(r) ==
  \/ r[Select] = SelectChrin /\ r[IO] # 0 /\ r[Ack] # 0
  \/ Prints(r)
  \/ r[Select] = SelectNotImpl

ClearAll(r) == [o \in DOMAIN r |-> IF o \in {Select, IO, Ack} THEN 0 ELSE r[o]]
=============================================================================
