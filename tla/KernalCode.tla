----------------------------- MODULE KernalCode -----------------------------
(***************************************************************************)
(* The code of src/testbench/cbm_tiny_kernel.s, instruction by             *)
(* instruction, in the memory of a machine and next to its host.           *)
(*                                                                         *)
(* KernalIO has the cycles inside an instruction.  Here the host looks     *)
(* once after each: a second look finds nothing to do, or the same end of  *)
(* the input.                                                              *)
(***************************************************************************)
EXTENDS Commodore

CONSTANTS
  StackPointers,  \* S after the reset of the CPU: what it was, less 3
  Arguments,      \* the registers BASIC may call the kernal with
  InputBytes,     \* the bytes the input may hold
  MaxCalls        \* most calls BASIC makes

Flags == {"C", "Z", "D"}      \* those of the processor status that the code sets or tests

(* The two pushes of the reset are to keep S from being zero when BASIC    *)
(* starts: of all stack pointers they do so but for 2.                     *)
ASSUME KernalCodeAssumption ==
  /\ StackPointers \subseteq 0 .. 255 \ {2}
  /\ Arguments \subseteq [a : 0 .. 255, x : 0 .. 255, y : 0 .. 255, s : 0 .. 255, p : SUBSET Flags]
  /\ InputBytes \subseteq 0 .. 255
  /\ MaxCalls \in Nat

VARIABLES
  machine,     \* which machine it is, "none" before its constructor
  data,        \* the data of its ranges, by offset
  reg,         \* A, X, Y, S and the flags that are set
  pc,          \* <<routine, index>>, or where BASIC is
  turn,        \* who runs next
  eof,         \* feof(input)
  calls,       \* calls BASIC has made
  entry,       \* history: routine, registers and data at the last call
  fetched,     \* history: what the host has fetched since, or 0
  printed      \* history: what the host has printed since

kvars == <<machine, data, reg, pc, turn, eof, calls, entry, fetched, printed>>

ranges == RangesOf[machine]

-----------------------------------------------------------------------------
(* The program. *)

Address(offset)  == RegistersStart + offset
RAM_TOP_CURRENT   == RegistersStart + RegistersSize - 2
RAM_BOT_CURRENT   == RegistersStart + RegistersSize - 4
VAR0              == RegistersStart + RegistersSize - 5
LAST_CHAR         == RegistersStart + RegistersSize - 6

CR == 13
control_chars == <<10, CR, 12, 147>>      \* ASCII, CBM, ...

Ld(r, mode, arg) == <<"ld", r, mode, arg>>        \* lda, ldx, ldy
St(r, address)   == <<"st", r, "abs", address>>   \* sta, stx, sty
Cp(r, mode, arg) == <<"cp", r, mode, arg>>        \* cmp, cpx
If(f, set, to)   == <<"br", f, set, to>>          \* beq, bne, bcc
Op(name)         == <<name>>

(* chrin and chrout differ in which column of the table they search. *)
Lookup(column, found) ==
  <<Cp("a", "table", column), If("Z", TRUE, found), Op("inx"), Op("inx"),
    Cp("x", "imm", Len(control_chars))>>

(* Bug: X is not restored. *)
Bug_ChrinReturn == <<St("a", LAST_CHAR), Op("clc"), Op("rts")>>

ChrinReturn == <<St("a", LAST_CHAR), Ld("x", "abs", VAR0), Op("clc"), Op("rts")>>

(* Bug: one push is not pulled. *)
Bug_NotImplemented ==
  <<Op("php"), Op("pha"), Ld("a", "imm", SelectNotImpl), St("a", Address(Select)),
    Op("pla"), Op("rts")>>

NotImplemented ==
  <<Op("php"), Op("pha"), Ld("a", "imm", SelectNotImpl), St("a", Address(Select)),
    Op("pla"), Op("plp"), Op("rts")>>

(* memtop and membot *)
Save(current)    == <<St("x", current), St("y", current + 1), Op("rts")>>
Restore(current) == <<Ld("x", "abs", current), Ld("y", "abs", current + 1), Op("rts")>>

(* Bug: the machine's own value is overwritten as well. *)
Bug_SetTop == <<St("x", Address(7))>> \o Save(RAM_TOP_CURRENT)

SetTop == Save(RAM_TOP_CURRENT)

Copy(offset, current) ==
  <<Ld("a", "abs", Address(offset)), St("a", current),
    Ld("a", "abs", Address(offset + 1)), St("a", current + 1)>>

IRQServiceRoutine == <<Op("rti")>>

(* The instructions from one label to the next. *)
Code == [
  not_implemented |-> NotImplemented,
  reset |-> <<Op("cld")>> \o Copy(9, RAM_BOT_CURRENT) \o Copy(7, RAM_TOP_CURRENT)
            \o <<Op("pha"), Op("pha"), Op("jmp_BASICE")>>,
  chrin |-> <<St("x", VAR0), Ld("a", "imm", SelectChrin), St("a", Address(Select))>>,
  chrin_io_loop |-> <<Ld("a", "abs", Address(IO)), If("Z", TRUE, "chrin_io_loop"),
                      Op("inc_ACK"), Ld("x", "imm", 0)>>,
  chrin_lookup |-> Lookup(1, "chrin_translate")
                   \o <<If("Z", FALSE, "chrin_lookup"), <<"jmp", "chrin_return">> >>,
  chrin_translate |-> <<Ld("a", "table", 2)>>,
  chrin_return |-> ChrinReturn,
  chrout |-> <<Op("pha"), Cp("a", "imm", CR), If("Z", FALSE, "chrout_start"),
               Cp("a", "abs", LAST_CHAR), If("Z", FALSE, "chrout_start"),
               Ld("a", "imm", 0), St("a", LAST_CHAR), <<"jmp", "chrout_return">> >>,
  chrout_start |-> <<St("x", VAR0), Ld("x", "imm", SelectChrout), St("x", Address(Select)),
                     Ld("x", "imm", 0)>>,
  chrout_lookup |-> Lookup(2, "chrout_translate")
                    \o <<If("Z", FALSE, "chrout_lookup"), <<"jmp", "chrout_write">> >>,
  chrout_translate |-> <<Ld("a", "table", 1)>>,
  chrout_write |-> <<St("a", Address(IO)), Ld("x", "abs", VAR0)>>,
  chrout_return |-> <<Op("pla"), Op("clc"), Op("rts")>>,
  screenxy |-> <<Ld("x", "abs", Address(5)), Ld("y", "abs", Address(6)), Op("rts")>>,
  memtop |-> <<If("C", FALSE, "settop")>> \o Restore(RAM_TOP_CURRENT),
  settop |-> SetTop,
  membot |-> <<If("C", FALSE, "setbot")>> \o Restore(RAM_BOT_CURRENT),
  setbot |-> Save(RAM_BOT_CURRENT),
  IRQ_service_routine |-> IRQServiceRoutine]

(* Where the code runs on after the last instruction before a label. *)
Falls == [chrin |-> "chrin_io_loop", chrin_io_loop |-> "chrin_lookup",
          chrin_translate |-> "chrin_return", chrout_start |-> "chrout_lookup",
          chrout_translate |-> "chrout_write", chrout_write |-> "chrout_return"]

(* The jump table, and one of its entries for each routine. *)
JumpAddresses == {65433, 65436, 65487, 65490, 65517, 65409}
JumpTable(address) ==
  CASE address = 65433 -> "memtop"
    [] address = 65436 -> "membot"
    [] address = 65487 -> "chrin"
    [] address = 65490 -> "chrout"
    [] address = 65517 -> "screenxy"
    [] OTHER           -> "not_implemented"

-----------------------------------------------------------------------------
(* Memory, and the stack in its page 1. *)

Registers == data[KernelRegisters(ranges)]

Below(s, n) == (s + 256 - n) % 256
Above(s, n) == (s + n) % 256
Push(ds, s, byte) == Store(ranges, ds, 256 + s, byte)
Pulled(n) == Load(ranges, data, 256 + Above(reg.s, n))

(* jsr pushes two bytes, and so does brk before the processor status. *)
PushAddress(ds, s, address) == Push(Push(ds, s, address \div 256), Below(s, 1), address % 256)
PulledAddress(n) == Pulled(n) + 256 * Pulled(n + 1)
Next16(address) == (address + 1) % 65536

(* The processor status as a byte; the other flags are left out. *)
FlagBit == [C |-> 1, Z |-> 2, D |-> 8]
BitOf(p, f) == IF f \in p THEN FlagBit[f] ELSE 0
Byte(p) == BitOf(p, "C") + BitOf(p, "Z") + BitOf(p, "D")
FlagsOf(byte) == {f \in Flags : (byte \div FlagBit[f]) % 2 = 1}

WithFlag(p, f, set) == IF set THEN p \cup {f} ELSE p \ {f}

(* The offsets at which a range is looked at. *)
Offsets(range) ==
  CASE range.kind = "registers" -> 0 .. 10 \cup 250 .. 255
    [] range.kind = "RAM" -> {256 + Below(s, n) : s \in StackPointers \cup {r.s : r \in Arguments}, n \in 0 .. 3}
    [] OTHER -> {}

-----------------------------------------------------------------------------
NoCall == [routine |-> "off", reg |-> [p |-> {}], data |-> <<>>]

KInit ==
  /\ machine = "none" /\ data = <<>> /\ reg = NoCall.reg /\ pc = <<"off", 0>>
  /\ turn = "cpu" /\ eof = FALSE /\ calls = 0
  /\ entry = NoCall /\ fetched = 0 /\ printed = <<>>

(* The constructors of the machine, and the reset of its CPU, which leaves *)
(* the stack pointer and decimal mode as they happen to be.                *)
PowerOn(m) ==
  /\ pc[1] = "off"
  /\ machine' = m
  /\ data' = [i \in DOMAIN RangesOf[m] |->
                [o \in Offsets(RangesOf[m][i]) |->
                   IF RangesOf[m][i].kind = "registers" /\ o \in DOMAIN InitialRegisters(m)
                   THEN InitialRegisters(m)[o] ELSE RangesOf[m][i].byte]]
  /\ \E s \in StackPointers, p \in {{}, {"D"}} :
       reg' = [a |-> 0, x |-> 0, y |-> 0, s |-> s, p |-> p]
  /\ pc' = <<"reset", 1>>
  /\ entry' = [NoCall EXCEPT !.routine = "reset", !.reg = reg']
  /\ UNCHANGED <<turn, eof, calls, fetched, printed>>

-----------------------------------------------------------------------------
(* BASIC. *)

Enters(routine, args, pushed) ==
  /\ turn = "cpu" /\ ~eof /\ pc[1] = "app" /\ calls < MaxCalls
  /\ calls' = calls + 1
  /\ entry' = [routine |-> routine, reg |-> args, data |-> data]
  /\ fetched' = 0 /\ printed' = <<>>
  /\ reg' = [args EXCEPT !.s = Below(@, pushed)]
  /\ pc' = <<routine, 1>> /\ turn' = "host"
  /\ UNCHANGED <<machine, eof>>

(* jsr to the jump table; rts returns to the address after the one pushed. *)
Call(address, args) ==
  /\ Enters(JumpTable(address), args, 2)
  /\ data' = PushAddress(data, args.s, pc[2])

(* brk *)
Break(args) ==
  /\ Enters("IRQ_service_routine", args, 3)
  /\ data' = Push(PushAddress(data, args.s, Next16(pc[2])), Below(args.s, 2), Byte(args.p))

-----------------------------------------------------------------------------
(* The instructions. *)

Instruction == Code[pc[1]][pc[2]]

Executes(op) ==
  /\ turn = "cpu" /\ ~eof /\ pc[1] \in DOMAIN Code
  /\ Instruction[1] = op
  /\ turn' = "host"
  /\ UNCHANGED <<machine, eof, calls, entry, fetched, printed>>

Goto(label) == pc' = <<label, 1>>
Advance ==
  IF pc[2] < Len(Code[pc[1]]) THEN pc' = <<pc[1], pc[2] + 1>> ELSE Goto(Falls[pc[1]])

Operand ==
  LET mode == Instruction[3] arg == Instruction[4]
  IN CASE mode = "imm"   -> arg
       [] mode = "abs"   -> Load(ranges, data, arg)
       [] mode = "table" -> control_chars[arg + reg.x]

Loads ==
  /\ Executes("ld") /\ Advance
  /\ reg' = [reg EXCEPT ![Instruction[2]] = Operand, !.p = WithFlag(@, "Z", Operand = 0)]
  /\ UNCHANGED data

Stores ==
  /\ Executes("st") /\ Advance
  /\ data' = Store(ranges, data, Instruction[4], reg[Instruction[2]])
  /\ UNCHANGED reg

Compares ==
  /\ Executes("cp") /\ Advance
  /\ LET value == reg[Instruction[2]]
     IN reg' = [reg EXCEPT !.p = WithFlag(WithFlag(@, "Z", value = Operand), "C", value >= Operand)]
  /\ UNCHANGED data

IncrementsAck ==
  /\ Executes("inc_ACK") /\ Advance
  /\ LET value == (Load(ranges, data, Address(Ack)) + 1) % 256
     IN /\ data' = Store(ranges, data, Address(Ack), value)
        /\ reg' = [reg EXCEPT !.p = WithFlag(@, "Z", value = 0)]

IncrementsX ==
  /\ Executes("inx") /\ Advance
  /\ reg' = [reg EXCEPT !.x = (@ + 1) % 256, !.p = WithFlag(@, "Z", reg.x = 255)]
  /\ UNCHANGED data

Branches ==
  /\ Executes("br")
  /\ IF (Instruction[2] \in reg.p) = Instruction[3] THEN Goto(Instruction[4]) ELSE Advance
  /\ UNCHANGED <<reg, data>>

Jumps ==
  /\ Executes("jmp") /\ Goto(Instruction[2])
  /\ UNCHANGED <<reg, data>>

JumpsToBasic ==
  /\ Executes("jmp_BASICE")
  /\ pc' = <<"app", Load(ranges, data, Address(3)) + 256 * Load(ranges, data, Address(4))>>
  /\ UNCHANGED <<reg, data>>

Pushes ==
  /\ Executes("pha") \/ Executes("php")
  /\ Advance
  /\ data' = Push(data, reg.s, IF Instruction[1] = "pha" THEN reg.a ELSE Byte(reg.p))
  /\ reg' = [reg EXCEPT !.s = Below(@, 1)]

PullsA ==
  /\ Executes("pla") /\ Advance
  /\ reg' = [reg EXCEPT !.a = Pulled(1), !.s = Above(@, 1), !.p = WithFlag(@, "Z", Pulled(1) = 0)]
  /\ UNCHANGED data

PullsP ==
  /\ Executes("plp") /\ Advance
  /\ reg' = [reg EXCEPT !.p = FlagsOf(Pulled(1)), !.s = Above(@, 1)]
  /\ UNCHANGED data

ClearsFlag ==
  /\ \/ Executes("clc") /\ reg' = [reg EXCEPT !.p = @ \ {"C"}]
     \/ Executes("cld") /\ reg' = [reg EXCEPT !.p = @ \ {"D"}]
  /\ Advance
  /\ UNCHANGED data

Returns ==
  /\ Executes("rts")
  /\ pc' = <<"app", Next16(PulledAddress(1))>>
  /\ reg' = [reg EXCEPT !.s = Above(@, 2)]
  /\ UNCHANGED data

ReturnsFromInterrupt ==
  /\ Executes("rti")
  /\ pc' = <<"app", PulledAddress(2)>>
  /\ reg' = [reg EXCEPT !.p = FlagsOf(Pulled(1)), !.s = Above(@, 3)]
  /\ UNCHANGED data

-----------------------------------------------------------------------------
(* The host. *)

Host ==
  /\ turn = "host" /\ turn' = "cpu"
  /\ UNCHANGED <<machine, reg, pc, calls, entry>>

HostFetch ==
  /\ Host /\ Fetches(Registers)
  /\ fetched' \in InputBytes
  /\ data' = [data EXCEPT ![KernelRegisters(ranges)][IO] = fetched']
  /\ UNCHANGED <<eof, printed>>

HostEndOfFile ==
  /\ Host /\ Fetches(Registers)
  /\ eof' = TRUE
  /\ UNCHANGED <<data, fetched, printed>>

(* Bug: what chrout has stored is printed, but not cleared. *)
Bug_HostClear ==
  /\ Host /\ ClearsAll(Registers)
  /\ printed' = IF Prints(Registers) THEN Append(printed, Registers[IO]) ELSE printed
  /\ UNCHANGED <<data, eof, fetched>>

HostClear ==
  /\ Host /\ ClearsAll(Registers)
  /\ data' = [data EXCEPT ![KernelRegisters(ranges)] = ClearAll(@)]
  /\ printed' = IF Prints(Registers) THEN Append(printed, Registers[IO]) ELSE printed
  /\ UNCHANGED <<eof, fetched>>

HostIdle ==
  /\ Host /\ ~Fetches(Registers) /\ ~ClearsAll(Registers)
  /\ UNCHANGED <<data, eof, fetched, printed>>

-----------------------------------------------------------------------------
Basic ==
  \E args \in Arguments :
    \/ Break(args)
    \/ \E address \in JumpAddresses : Call(address, args)

Kernal ==
  \/ Loads \/ Stores \/ Compares \/ IncrementsAck \/ IncrementsX
  \/ Branches \/ Jumps \/ JumpsToBasic
  \/ Pushes \/ PullsA \/ PullsP \/ ClearsFlag \/ Returns \/ ReturnsFromInterrupt

OnCPUCycle == HostFetch \/ HostEndOfFile \/ HostClear \/ HostIdle

(* The machine runs. *)
Runs == Basic \/ Kernal \/ OnCPUCycle

KNext == Runs \/ \E m \in Machines : PowerOn(m)

KSpec == KInit /\ [][KNext]_kvars

-----------------------------------------------------------------------------
KTypeOK ==
  pc[1] # "off" =>
    /\ machine \in Machines
    /\ \A i \in DOMAIN ranges : data[i] \in [Offsets(ranges[i]) -> 0 .. 255]
    /\ reg \in [a : 0 .. 255, x : 0 .. 255, y : 0 .. 255, s : 0 .. 255, p : SUBSET Flags]
    /\ pc[1] \in DOMAIN Code => pc[2] \in DOMAIN Code[pc[1]]
    /\ turn \in {"cpu", "host"} /\ eof \in BOOLEAN /\ calls \in 0 .. MaxCalls
    /\ fetched \in InputBytes \cup {0} /\ Len(printed) <= 1

(* Whatever a call pushes it pulls again, on a stack that may wrap: BASIC  *)
(* is entered where the machine says, and goes on after each call.         *)
ReturnsToCaller == pc[1] = "app" => pc[2] = (BasicEntry(machine) + calls) % 65536

(* The cells a call may leave changed: the registers of the host, the      *)
(* variables of the kernal, and the stack below the caller's.              *)
Scratch(range) ==
  CASE range.kind = "registers" -> {Select, IO, Ack} \cup 250 .. 255
    [] range.kind = "RAM" -> {256 + Below(entry.reg.s, n) : n \in 0 .. 3}
    [] OTHER -> {}

(* All else is as the caller left it: its part of the stack, and what the  *)
(* constructor of the machine has stored, from which a later reset of the  *)
(* CPU starts.                                                             *)
LeavesTheRest ==
  pc[1] = "app" /\ calls > 0 =>
    \A i \in DOMAIN ranges : \A o \in Offsets(ranges[i]) \ Scratch(ranges[i]) :
      data[i][o] = entry.data[i][o]

(* A call is at rest before and after it, and else as it was entered. *)
Resting == pc[1] \in {"off", "app"}
SeenData == IF Resting THEN data ELSE entry.data

Word(bytes, offset) == <<bytes[offset], bytes[offset + 1]>>

Given == [m \in Machines |->
  LET made == InitialRegisters(m)
  IN [top |-> Word(made, 7), bottom |-> Word(made, 9), screen |-> Word(made, 5)]]

FromASCII(byte) == CASE byte = 10 -> 13 [] byte = 12 -> 147 [] OTHER -> byte
ToASCII(byte)   == CASE byte = 13 -> 10 [] byte = 147 -> 12 [] OTHER -> byte

Calls == INSTANCE KernalCalls WITH
  Bytes <- InputBytes,
  given <- IF machine = "none" THEN <<>> ELSE Given[machine],
  cpu   <- IF Resting THEN reg ELSE entry.reg,
  area  <- IF SeenData = <<>> THEN <<>>
           ELSE LET bytes == SeenData[KernelRegisters(ranges)]
                IN [top |-> Word(bytes, 254), bottom |-> Word(bytes, 252)],
  last  <- IF SeenData = <<>> THEN 0 ELSE SeenData[KernelRegisters(ranges)][250],
  call  <- CASE pc[1] = "off" -> "off" [] pc[1] = "app" -> "none" [] OTHER -> entry.routine,
  taken <- fetched

(* However the code goes about it, with two bytes stored one after the     *)
(* other, X and the accumulator in use for something else and the stack    *)
(* anywhere in its page, a call has the one effect it promises.            *)
ImplementsCalls == Calls!CSpec
=============================================================================
