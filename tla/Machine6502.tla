---------------------------- MODULE Machine6502 ----------------------------
(***************************************************************************)
(* machine_6502::run (src/testbench/machine_6502.cc): callers that run the *)
(* same machine, one at a time.  A run resets the CPU through its pins and *)
(* then, for every cycle, gives the clock two edges, serves the memory     *)
(* access that the CPU puts out, and lets the host look at the registers.  *)
(*                                                                         *)
(* The body of run is a script of calls to the chip; at says where in it   *)
(* each caller is.  What the CPU puts out is external: any access to the   *)
(* addresses looked at.                                                    *)
(***************************************************************************)
EXTENDS Commodore

CONSTANTS
  Callers,     \* the threads that may call run
  Addresses,   \* for each machine, the addresses the CPU may read
  Stores,      \* for each machine, the pairs of address and byte it may write
  HostChars    \* the characters the host may get from its input

ASSUME MachineAssumption ==
  /\ \A m \in Machines :
       /\ Addresses[m] \subseteq Nat /\ Addresses[m] # {}
       /\ Stores[m] \subseteq Addresses[m] \X (0 .. 3)
  /\ HostChars \subseteq 0 .. 3

VARIABLES
  machine,     \* which machine it is
  data,        \* the data of its ranges, by offset
  lock,        \* the caller that holds the mutex, as a set
  at,          \* where in the script each caller is, 0 if it is not in run
  eof,         \* feof(input) of each caller
  driven,      \* the levels the pins are driven to
  settled,     \* the levels the pins had when the network was last evaluated
  cpu,         \* the access the CPU puts out
  bus,         \* the byte the host drives on the data bus
  served,      \* history: the access was served
  held,        \* history: cycles for which RES was held, as far as HoldCycles
  traced       \* history: what the trace says of the access, once it does

chip == <<driven, settled, cpu, bus, served, held, traced>>
vars == <<machine, data, lock, at, eof, chip>>

ranges == RangesOf[machine]

-----------------------------------------------------------------------------
(* The script. *)

Pins == {"RES", "CLK0IN", "RDY", "SO", "IRQ", "NMI"}

PinWriteOp(pin, value) == [op |-> "pin", pin |-> pin, value |-> value]
RecalcOp     == [op |-> "recalc"]
StabilizeOp  == [op |-> "stabilize"]
MemoryOp     == [op |-> "memory"]
TraceOp      == [op |-> "trace"]
HostOp       == [op |-> "host"]

CycleOps == <<PinWriteOp("CLK0IN", FALSE), RecalcOp, PinWriteOp("CLK0IN", TRUE), RecalcOp>>

HoldCycles == 8

(* Bug: RES is let go one cycle early. *)
Bug_HoldOps == [k \in 1 .. 4 * (HoldCycles - 1) |-> CycleOps[((k - 1) % 4) + 1]]

HoldOps == [k \in 1 .. 4 * HoldCycles |-> CycleOps[((k - 1) % 4) + 1]]

InitializeOps ==
  <<PinWriteOp("RES", FALSE), RecalcOp, PinWriteOp("CLK0IN", TRUE), RecalcOp,
    PinWriteOp("RDY", TRUE), RecalcOp, PinWriteOp("SO", FALSE), RecalcOp,
    PinWriteOp("IRQ", TRUE), RecalcOp, PinWriteOp("NMI", TRUE), StabilizeOp>>
  \o HoldOps
  \o <<PinWriteOp("RES", TRUE), RecalcOp>>

(* Bug: the trace comes after the host has looked at the registers. *)
Bug_LoopOps == CycleOps \o <<MemoryOp, HostOp, TraceOp>>

LoopOps == CycleOps \o <<MemoryOp, TraceOp, HostOp>>

Script    == InitializeOps \o LoopOps
LoopStart == Len(InitializeOps) + 1

(* Caller c does a call of this kind next; the loop asks for feof first. *)
Doing(c, op) ==
  /\ at[c] # 0 /\ Script[at[c]].op = op
  /\ at[c] = LoopStart => ~eof[c]

(* Bug: the loop does not go back. *)
Bug_Advance(c) == at' = [at EXCEPT ![c] = @ + 1]

Advance(c) == at' = [at EXCEPT ![c] = IF @ = Len(Script) THEN LoopStart ELSE @ + 1]

-----------------------------------------------------------------------------
(* In reset; what is on the address bus then is not looked at. *)
NoAccess ==
  [reading |-> TRUE, address |-> CHOOSE a \in Addresses[machine] : TRUE, byte |-> 0, reset |-> TRUE]

(* What the CPU may put out on a rising edge. *)
Accesses ==
  {[reading |-> TRUE, address |-> a, byte |-> 0, reset |-> FALSE] : a \in Addresses[machine]}
  \cup
  {[reading |-> FALSE, address |-> s[1], byte |-> s[2], reset |-> FALSE] : s \in Stores[machine]}

(* The offsets at which a range is looked at. *)
Offsets(range) ==
  {a - range.start : a \in {a \in Addresses[machine] : Contains(range, a)}}
  \cup (IF range.kind = "registers" THEN 0 .. 10 ELSE {})

Init ==
  /\ machine \in Machines
  /\ data = [i \in DOMAIN ranges |->
               [o \in Offsets(ranges[i]) |->
                  IF ranges[i].kind = "registers" /\ o \in 1 .. 10
                  THEN InitialRegisters(machine)[o] ELSE ranges[i].byte]]
  /\ lock = {}
  /\ at = [c \in Callers |-> 0]
  /\ eof = [c \in Callers |-> FALSE]
  /\ driven = [p \in Pins |-> p \in {"RDY", "SO"}]
  /\ settled = [p \in Pins |-> FALSE]
  /\ cpu = NoAccess /\ bus = 0
  /\ served = FALSE /\ held = 0 /\ traced = <<>>

(* Bug: the mutex is not locked. *)
Bug_Call(c) ==
  /\ at[c] = 0
  /\ lock' = {c}
  /\ at' = [at EXCEPT ![c] = 1]
  /\ \E end \in BOOLEAN : eof' = [eof EXCEPT ![c] = end]
  /\ UNCHANGED <<machine, data, chip>>

(* run() is called, with an input that may have come to its end before. *)
Call(c) ==
  /\ at[c] = 0 /\ lock = {}
  /\ lock' = {c}
  /\ at' = [at EXCEPT ![c] = 1]
  /\ \E end \in BOOLEAN : eof' = [eof EXCEPT ![c] = end]
  /\ UNCHANGED <<machine, data, chip>>

Return(c) ==
  /\ at[c] = LoopStart /\ eof[c]
  /\ at' = [at EXCEPT ![c] = 0]
  /\ lock' = {}
  /\ eof' = [eof EXCEPT ![c] = FALSE]
  /\ UNCHANGED <<machine, data, chip>>

(* pin_write queues the pin for the next evaluation. *)
WritePin(c) ==
  /\ Doing(c, "pin")
  /\ LET op == Script[at[c]]
     IN /\ driven' = [driven EXCEPT ![op.pin] = op.value]
        /\ held' = IF op.pin = "RES" /\ ~op.value THEN 0 ELSE held
  /\ Advance(c)
  /\ UNCHANGED <<machine, data, lock, eof, settled, cpu, bus, served, traced>>

(* recalc: on the rising edge of the clock the CPU puts out its next       *)
(* access, unless it is held in reset; on the falling edge it takes the    *)
(* byte from the data bus.                                                 *)
Recalc(c) ==
  /\ Doing(c, "recalc")
  /\ settled' = driven
  /\ LET rising == ~settled["CLK0IN"] /\ driven["CLK0IN"]
     IN /\ cpu' \in CASE ~driven["RES"] -> {NoAccess}
                      [] driven["RES"] /\ rising -> Accesses
                      [] OTHER -> {cpu}
        /\ served' = (served /\ ~rising /\ driven["RES"])
        /\ traced' = IF rising \/ ~driven["RES"] THEN <<>> ELSE traced
        /\ held' = IF ~driven["RES"] /\ rising /\ held < HoldCycles THEN held + 1 ELSE held
  /\ Advance(c)
  /\ UNCHANGED <<machine, data, lock, eof, driven, bus>>

(* stabilize_network: the levels before it were not computed. *)
Stabilize(c) ==
  /\ Doing(c, "stabilize")
  /\ settled' = driven
  /\ held' = 0
  /\ Advance(c)
  /\ UNCHANGED <<machine, data, lock, eof, driven, cpu, bus, served, traced>>

(* handle_memory *)
HandleMemory(c) ==
  /\ Doing(c, "memory")
  /\ IF cpu.reading
     THEN bus' = Load(ranges, data, cpu.address) /\ UNCHANGED data
     ELSE data' = Store(ranges, data, cpu.address, cpu.byte) /\ UNCHANGED bus
  /\ served' = TRUE
  /\ Advance(c)
  /\ UNCHANGED <<machine, lock, eof, driven, settled, cpu, held, traced>>

(* trace_CPU: on a read it asks the memory again, on a write it reads the  *)
(* data bus.  Of the traces made in reset nothing is kept.                 *)
TraceCPU(c) ==
  /\ Doing(c, "trace")
  /\ traced' = IF cpu.reading THEN <<"read", cpu.address, Load(ranges, data, cpu.address)>>
               ELSE <<"write", cpu.address, cpu.byte>>
  /\ Advance(c)
  /\ UNCHANGED <<machine, data, lock, eof, driven, settled, cpu, bus, served, held>>

-----------------------------------------------------------------------------
(* on_CPU_cycle, through pointers into the data of the registers. *)

Registers == data[KernelRegisters(ranges)]

Host(c) ==
  /\ Doing(c, "host")
  /\ Advance(c)
  /\ UNCHANGED <<machine, lock, chip>>

HostFetch(c) ==
  /\ Host(c) /\ Fetches(Registers)
  /\ \E char \in HostChars : data' = [data EXCEPT ![KernelRegisters(ranges)][IO] = char]
  /\ UNCHANGED eof

HostEndOfFile(c) ==
  /\ Host(c) /\ Fetches(Registers)
  /\ eof' = [eof EXCEPT ![c] = TRUE]
  /\ UNCHANGED data

HostClear(c) ==
  /\ Host(c) /\ ClearsAll(Registers)
  /\ data' = [data EXCEPT ![KernelRegisters(ranges)] = ClearAll(@)]
  /\ UNCHANGED eof

HostIdle(c) ==
  /\ Host(c) /\ ~ClearsAll(Registers) /\ ~Fetches(Registers)
  /\ UNCHANGED <<data, eof>>

Next ==
  \E c \in Callers :
    \/ Call(c) \/ Return(c)
    \/ WritePin(c) \/ Recalc(c) \/ Stabilize(c) \/ HandleMemory(c) \/ TraceCPU(c)
    \/ HostFetch(c) \/ HostEndOfFile(c) \/ HostClear(c) \/ HostIdle(c)

Spec == Init /\ [][Next]_vars

-----------------------------------------------------------------------------
TypeOK ==
  /\ machine \in Machines
  /\ data = [i \in DOMAIN ranges |-> data[i]]
  /\ \A i \in DOMAIN ranges : data[i] \in [Offsets(ranges[i]) -> 0 .. 255]
  /\ lock \subseteq Callers
  /\ at \in [Callers -> 0 .. Len(Script)] /\ eof \in [Callers -> BOOLEAN]
  /\ driven \in [Pins -> BOOLEAN] /\ settled \in [Pins -> BOOLEAN]
  /\ cpu \in Accesses \cup {NoAccess} /\ bus \in 0 .. 255
  /\ served \in BOOLEAN /\ held \in 0 .. HoldCycles
  /\ traced = <<>> \/ traced \in {"read", "write"} \X Addresses[machine] \X (0 .. 255)

(* When the clock is about to fall, so that the CPU takes the byte on the  *)
(* data bus or goes on after a write, the access it put out since it left  *)
(* reset has been served: no run skips or repeats a half cycle of another. *)
CyclesServed ==
  settled["CLK0IN"] /\ ~driven["CLK0IN"] /\ ~cpu.reset => served

(* "hold reset for 8 cycles, than let it go" (machine_6502.cc:62-67): when *)
(* the CPU sees RES go high it has seen it low for so many clock cycles    *)
(* since the network was stabilized, on a second run as on the first.      *)
ResetHeld == driven["RES"] /\ ~settled["RES"] => held = HoldCycles

(* The host reads the registers through pointers, the CPU through the list *)
(* of ranges: both see the same bytes, as no other range serves them.      *)
HostSeesRegisters ==
  \A offset \in {Select, IO, Ack} :
    Registers[offset] = Load(ranges, data, RegistersStart + offset)

(* The work area that the constructor hands to BASIC is RAM that nothing   *)
(* hides, and BASIC is entered in ROM.                                     *)
HandsOverToBasic ==
  /\ \A a \in Addresses[machine] \cup {RamBottom(machine), RamTop(machine) - 1} :
       RamBottom(machine) <= a /\ a < RamTop(machine) =>
         Hits(ranges, a) # {} /\ ranges[Serving(ranges, a)].kind = "RAM"
  /\ Hits(ranges, BasicEntry(machine)) # {}
  /\ ranges[Serving(ranges, BasicEntry(machine))].kind = "ROM"

(* What is on the data bus when the trace is made was not evaluated yet:   *)
(* so the trace asks the memory again (machine_6502.cc:30-39), and says    *)
(* what the CPU gets or has written, for the host comes after it.          *)
TraceTellsAccess ==
  traced # <<>> =>
    traced = IF cpu.reading THEN <<"read", cpu.address, bus>>
             ELSE <<"write", cpu.address, cpu.byte>>

Flat == INSTANCE FlatMemory WITH
  Bytes <- 0 .. 3,
  Registers <- RegistersStart .. RegistersStart + RegistersSize - 1,
  cells <- [a \in Addresses[machine] |-> Load(ranges, data, a)],
  readOnly <- ReadOnly(ranges, Addresses[machine]),
  access <- IF ~served THEN <<"none">>
            ELSE IF cpu.reading THEN <<"read", cpu.address, bus>>
            ELSE <<"write", cpu.address, cpu.byte>>

(* However the ranges overlap, and whoever runs the machine, the CPU has a *)
(* flat memory before it: a read gives what was last written there, no     *)
(* write shows at another address, and the host changes registers only.    *)
ImplementsFlatMemory == Flat!FlatSpec
=============================================================================
