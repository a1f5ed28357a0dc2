---------------------------- MODULE AddressSpace ----------------------------
(***************************************************************************)
(* class memory (src/testbench/memory.cc): a list of ranges of addresses,  *)
(* of which the first that contains an address serves it; and the lists    *)
(* that the Commodore 64 and the VIC-20 of the testbench are built with.   *)
(*                                                                         *)
(* The bytes of a ROM image are abstracted to one: what matters here is    *)
(* which range a byte comes from.                                          *)
(***************************************************************************)
EXTENDS Integers, Sequences, FiniteSetsExt

(* A range holds its data by offset; every byte is the same at first. *)
AddressRange(kind, start, size, byte) ==
  [kind |-> kind, start |-> start, size |-> size, byte |-> byte]

ROM(start, size, byte) == AddressRange("ROM", start, size, byte)
RAM(start, size)       == AddressRange("RAM", start, size, 0)

IsWritable(range) == range.kind # "ROM"

Contains(range, a) == a >= range.start /\ a < range.start + range.size

-----------------------------------------------------------------------------
(* The machines. *)

Machines == {"C64", "VIC20"}

RegistersStart == 64768
RegistersSize  == 256
KernalByte     == 4
BasicByte      == 5

(* commodore(): the kernal's ROM up to the last address, and the registers. *)
Commodore ==
  <<ROM(65536 - 512, 512, KernalByte),
    AddressRange("registers", RegistersStart, RegistersSize, 0)>>

(* C64(), CVIC20(): the BASIC ROM and the RAM. *)
OwnRanges(machine) ==
  IF machine = "C64"
  THEN <<ROM(40960, 8192, BasicByte), ROM(57344, 9399 - 8192, BasicByte), RAM(0, 65536)>>
  ELSE <<ROM(49152, 9472, BasicByte), RAM(0, 5120)>>

(* Bug: the base class adds its ranges last. *)
Bug_RangesOf == [m \in Machines |-> OwnRanges(m) \o Commodore]

RangesOf == [m \in Machines |-> Commodore \o OwnRanges(m)]

(* The index of the registers in the list: kernel_registers points to them. *)
KernelRegisters(ranges) == CHOOSE i \in DOMAIN ranges : ranges[i].kind = "registers"

(* OFF_SELECT, OFF_IO, ... *)
Select == 0
IO     == 1
Ack    == 2

(* Bug: the high bytes are stored first. *)
Bug_InitialRegisters(machine) ==
  IF machine = "C64"
  THEN <<0, 0, 227, 148, 40, 25, 160, 0, 8, 0>>
  ELSE <<0, 0, 227, 120, 22, 23, 20, 0, 6, 0>>

(* What the constructors store, from OFF_BASIC_ENTRY to OFF_RAM_BOTTOM + 1. *)
InitialRegisters(machine) ==
  IF machine = "C64"
  THEN <<0, 0, 148, 227, 40, 25, 0, 160, 0, 8>>
  ELSE <<0, 0, 120, 227, 22, 23, 0, 20, 0, 6>>

(* The word at an offset. *)
InitialWord(machine, offset) ==
  InitialRegisters(machine)[offset] + 256 * InitialRegisters(machine)[offset + 1]
BasicEntry(machine) == InitialWord(machine, 3)
RamTop(machine)     == InitialWord(machine, 7)
RamBottom(machine)  == InitialWord(machine, 9)

-----------------------------------------------------------------------------
(* memory::read and memory::write. *)

Hits(ranges, a) == {i \in DOMAIN ranges : Contains(ranges[i], a)}

(* The range that serves an address some range contains. *)
Serving(ranges, a) == Min(Hits(ranges, a))

Load(ranges, data, a) ==
  IF Hits(ranges, a) = {} THEN 0
  ELSE LET i == Serving(ranges, a) IN data[i][a - ranges[i].start]

(* Bug: the search goes on to the last range that can be written. *)
Bug_Store(ranges, data, a, b) ==
  LET writable == {i \in Hits(ranges, a) : IsWritable(ranges[i])}
  IN IF writable = {} THEN data
     ELSE LET i == Max(writable) IN [data EXCEPT ![i][a - ranges[i].start] = b]

Store(ranges, data, a, b) ==
  IF Hits(ranges, a) = {} THEN data
  ELSE LET i == Serving(ranges, a)
       IN IF IsWritable(ranges[i]) THEN [data EXCEPT ![i][a - ranges[i].start] = b]
          ELSE data

(* The addresses where a write is lost. *)
ReadOnly(ranges, addresses) ==
  {a \in addresses : Hits(ranges, a) = {} \/ ~IsWritable(ranges[Serving(ranges, a)])}
=============================================================================
