-------------------------- MODULE KernalCodeProofs --------------------------
(***************************************************************************)
(* The kernal's code and the host keep what each call promises: proved for *)
(* any arguments, any place on the stack, any input and any number of      *)
(* calls.                                                                  *)
(***************************************************************************)
EXTENDS KernalCode, SequenceTheorems, TLAPS

Bytes == 0 .. 255
Addresses == 0 .. 65535
StackPage == 256 .. 511
RegisterSets == [a : Bytes, x : Bytes, y : Bytes, s : Bytes, p : SUBSET Flags]

(* The two ranges that are looked at, by their place in the list. *)
RAMIndex == IF machine = "C64" THEN 5 ELSE 4
Regs  == data[2]
Stack == data[RAMIndex]

RegOffsets   == 0 .. 10 \cup 250 .. 255
StackOffsets == {256 + Below(s, n) : s \in StackPointers \cup {r.s : r \in Arguments}, n \in 0 .. 3}

(* The registers and the host's range as the caller left them, and the     *)
(* n-th place of the stack below it.                                       *)
Was == entry.reg
Had == entry.data[2]
Base == Was.s
Place(n) == 256 + Below(Base, n)

-----------------------------------------------------------------------------
(* The inductive invariant, of named parts. *)

ChrinLabels  == {"chrin", "chrin_io_loop", "chrin_lookup", "chrin_translate", "chrin_return"}
ChroutLabels == {"chrout", "chrout_start", "chrout_lookup", "chrout_translate", "chrout_write",
                 "chrout_return"}

RoutineOf(l) ==
  CASE l \in ChrinLabels -> "chrin"
    [] l \in ChroutLabels -> "chrout"
    [] l = "settop" -> "memtop"
    [] l = "setbot" -> "membot"
    [] OTHER -> l

(* How many bytes the call has on the stack before an instruction. *)
Depth(l, i) ==
  CASE l = "reset" -> (CASE i = 12 -> 2 [] i = 11 -> 1 [] OTHER -> 0)
    [] l = "not_implemented" -> (CASE i \in {1, 7} -> 2 [] i \in {2, 6} -> 3 [] OTHER -> 4)
    [] l = "chrout" -> (IF i = 1 THEN 2 ELSE 3)
    [] l = "chrout_return" -> (IF i = 1 THEN 3 ELSE 2)
    [] l \in {"chrout_start", "chrout_lookup", "chrout_translate", "chrout_write",
              "IRQ_service_routine"} -> 3
    [] OTHER -> 2

Memory(ds) ==
  /\ ds = [i \in 1 .. RAMIndex |-> ds[i]]
  /\ ds[2] \in [RegOffsets -> Bytes]
  /\ ds[RAMIndex] \in [StackOffsets -> Bytes]
  /\ \A i \in 1 .. RAMIndex \ {2, RAMIndex} : ds[i] \in [{} -> Bytes]

Off ==
  /\ pc = <<"off", 0>> /\ machine = "none" /\ data = <<>> /\ entry = NoCall
  /\ turn = "cpu" /\ eof = FALSE /\ calls = 0 /\ fetched = 0 /\ printed = <<>>

Types ==
  /\ machine \in Machines /\ Memory(data) /\ reg \in RegisterSets
  /\ turn \in {"cpu", "host"} /\ eof \in BOOLEAN /\ calls \in 0 .. MaxCalls
  /\ fetched \in InputBytes \cup {0}
  /\ \A o \in 3 .. 10 : Regs[o] = InitialRegisters(machine)[o]

(* The registers of the host, and what it has done in this call. *)
Ports(sel, io, ack) == Regs[Select] = sel /\ Regs[IO] = io /\ Regs[Ack] = ack

PortsIdle == Regs[Select] \in {0, 2} /\ Regs[IO] = 0 /\ Regs[Ack] = 0

Output == IF Was.a = 0 THEN <<>> ELSE <<ToASCII(Was.a)>>

PortsAt(l, i) ==
  CASE l = "chrin_io_loop" /\ i <= 3 -> Ports(1, fetched, 0)
    [] l = "chrin_io_loop" /\ i > 3 /\ turn = "host" -> Ports(1, fetched, 1)
    [] l = "not_implemented" /\ i = 5 /\ turn = "host" -> Ports(3, 0, 0)
    [] l = "chrout_write" /\ i = 2 /\ turn = "host" -> Ports(2, ToASCII(Was.a), 0)
    [] l \in {"chrout_lookup", "chrout_translate"} \/ (l = "chrout_start" /\ i = 4)
         \/ (l = "chrout_write" /\ i = 1) -> Ports(2, 0, 0)
    [] OTHER -> PortsIdle

FetchedAt(l, i) ==
  CASE l = "chrin" -> fetched = 0
    [] l = "chrin_io_loop" /\ i = 1 -> TRUE
    [] l = "chrin_io_loop" /\ i = 2 -> "Z" \notin reg.p => fetched # 0
    [] l \in ChrinLabels \ {"chrin", "chrin_io_loop"} \/ (l = "chrin_io_loop" /\ i > 2) ->
         fetched # 0
    [] OTHER -> TRUE

Dropping == Was.a = CR /\ Had[250] = CR

PrintedAt(l, i) ==
  CASE l \in ChroutLabels \ {"chrout_write", "chrout_return"} -> printed = <<>>
    [] l = "chrout_write" -> printed = IF i = 2 /\ turn = "cpu" THEN Output ELSE <<>>
    [] l = "chrout_return" -> printed = IF Dropping THEN <<>> ELSE Output
    [] OTHER -> Len(printed) <= 1

(* What the caller has pushed, and its part of the stack. *)
ReturnAddress == (BasicEntry(machine) + calls - 1) % 65536

Pushed ==
  /\ Was \in Arguments /\ Memory(entry.data)
  /\ calls > 0
  /\ Stack[Place(1)] + 256 * Stack[Place(0)] =
       IF entry.routine = "IRQ_service_routine" THEN Next16(ReturnAddress) ELSE ReturnAddress
  /\ entry.routine = "IRQ_service_routine" => Stack[Place(2)] = Byte(Was.p)

Untouched ==
  /\ \A o \in StackOffsets : o \notin {Place(n) : n \in 0 .. 3} => Stack[o] = entry.data[RAMIndex][o]
  /\ \A o \in 3 .. 10 : Regs[o] = Had[o]

InCall(l, i) ==
  /\ entry.routine = RoutineOf(l)
  /\ reg.s = Below(Base, Depth(l, i))
  /\ Pushed /\ Untouched
  /\ FetchedAt(l, i) /\ PrintedAt(l, i)

(* The registers and the variables of the kernal at each instruction. *)
SameFlags(fs) == \A f \in fs : f \in reg.p <=> f \in Was.p
SameVars(os)  == \A o \in os : Regs[o] = Had[o]
Variables == 250 .. 255

NotImplementedAt(i) ==
  /\ reg.x = Was.x /\ reg.y = Was.y /\ SameVars(Variables)
  /\ i \notin {4, 5} => reg.a = Was.a
  /\ i = 4 => reg.a = SelectNotImpl
  /\ i \notin {4, 5, 6} => reg.p = Was.p
  /\ i \in 2 .. 6 => Stack[Place(2)] = Byte(Was.p)
  /\ i \in 3 .. 5 => Stack[Place(3)] = Was.a

ResetAt(i) ==
  LET made == InitialRegisters(machine) IN
  /\ entry.routine = "reset" /\ calls = 0 /\ entry.data = <<>>
  /\ Was.s \in StackPointers /\ reg.s = Below(Was.s, Depth("reset", i))
  /\ Regs[250] = 0 /\ fetched = 0 /\ printed = <<>>
  /\ i > 1 => "D" \notin reg.p
  /\ i = 3 => reg.a = made[9]
  /\ i > 3 => Regs[252] = made[9]
  /\ i = 5 => reg.a = made[10]
  /\ i > 5 => Regs[253] = made[10]
  /\ i = 7 => reg.a = made[7]
  /\ i > 7 => Regs[254] = made[7]
  /\ i = 9 => reg.a = made[8]
  /\ i > 9 => Regs[255] = made[8]

(* The table as chrin and chrout search it, up to place n. *)
Searched(column, n) == \A m \in {0, 2} : m < n => reg.a # control_chars[column + m]

ChrinAt(l, i) ==
  /\ reg.y = Was.y /\ SameFlags({"D"}) /\ SameVars(252 .. 255)
  /\ l # "chrin_return" => Regs[250] = Had[250]
  /\ l = "chrin" => reg.x = Was.x
  /\ l = "chrin" /\ i = 1 => Regs[251] = Had[251]
  /\ ~(l = "chrin" /\ i = 1) => Regs[251] = Was.x
  /\ l = "chrin" /\ i = 3 => reg.a = SelectChrin
  /\ l = "chrin_io_loop" /\ i = 2 => IF "Z" \in reg.p THEN reg.a = 0 ELSE reg.a = fetched
  /\ l = "chrin_io_loop" /\ i > 2 => reg.a = fetched
  /\ l \in {"chrin_lookup", "chrin_translate"} => reg.a = fetched
  /\ l = "chrin_lookup" /\ i <= 3 => reg.x \in {0, 2} /\ Searched(1, reg.x)
  /\ l = "chrin_lookup" /\ i = 2 => ("Z" \in reg.p <=> reg.a = control_chars[1 + reg.x])
  /\ l = "chrin_lookup" /\ i = 3 => Searched(1, reg.x + 1)
  /\ l = "chrin_lookup" /\ i = 4 => reg.x \in {1, 3} /\ Searched(1, reg.x)
  /\ l = "chrin_lookup" /\ i > 4 => reg.x \in {2, 4} /\ Searched(1, reg.x)
  /\ l = "chrin_lookup" /\ i = 6 => ("Z" \in reg.p <=> reg.x = 4)
  /\ l = "chrin_lookup" /\ i = 7 => reg.x = 4
  /\ l = "chrin_translate" => reg.x \in {0, 2} /\ reg.a = control_chars[1 + reg.x]
  /\ l = "chrin_return" => reg.a = FromASCII(fetched)
  /\ l = "chrin_return" => Regs[250] = IF i = 1 THEN Had[250] ELSE reg.a
  /\ l = "chrin_return" /\ i > 2 => reg.x = Was.x
  /\ l = "chrin_return" /\ i = 4 => "C" \notin reg.p

ChroutAt(l, i) ==
  /\ reg.y = Was.y /\ SameFlags({"D"}) /\ SameVars(252 .. 255)
  /\ l # "chrout" => Regs[250] = IF Dropping THEN 0 ELSE Had[250]
  /\ l \notin {"chrout", "chrout_return"} => ~Dropping
  /\ l = "chrout" => reg.x = Was.x
  /\ l = "chrout" /\ i < 8 => Regs[250] = Had[250]
  /\ l = "chrout" /\ i < 7 => reg.a = Was.a
  /\ l = "chrout" /\ i = 3 => ("Z" \in reg.p <=> reg.a = CR)
  /\ l = "chrout" /\ i \in {4, 5} => reg.a = CR
  /\ l = "chrout" /\ i = 5 => ("Z" \in reg.p <=> reg.a = Had[250])
  /\ l = "chrout" /\ i > 5 => Dropping
  /\ l = "chrout" /\ i = 7 => reg.a = 0
  /\ l = "chrout" /\ i = 8 => Regs[250] = 0
  /\ (l = "chrout" /\ i > 1) \/ l \notin {"chrout", "chrout_return"}
       \/ (l = "chrout_return" /\ i = 1) => Stack[Place(2)] = Was.a
  /\ l \in {"chrout_start", "chrout_lookup", "chrout_translate"} => reg.a = Was.a
  /\ l = "chrout_start" /\ i = 1 => reg.x = Was.x
  /\ l \in {"chrout_lookup", "chrout_translate", "chrout_write"} \/ (l = "chrout_start" /\ i > 1) =>
       Regs[251] = Was.x
  /\ l = "chrout_start" /\ i = 3 => reg.x = SelectChrout
  /\ l = "chrout_lookup" /\ i <= 3 => reg.x \in {0, 2} /\ Searched(2, reg.x)
  /\ l = "chrout_lookup" /\ i = 2 => ("Z" \in reg.p <=> reg.a = control_chars[2 + reg.x])
  /\ l = "chrout_lookup" /\ i = 3 => Searched(2, reg.x + 1)
  /\ l = "chrout_lookup" /\ i = 4 => reg.x \in {1, 3} /\ Searched(2, reg.x)
  /\ l = "chrout_lookup" /\ i > 4 => reg.x \in {2, 4} /\ Searched(2, reg.x)
  /\ l = "chrout_lookup" /\ i = 6 => ("Z" \in reg.p <=> reg.x = 4)
  /\ l = "chrout_lookup" /\ i = 7 => reg.x = 4
  /\ l = "chrout_translate" => reg.x \in {0, 2} /\ reg.a = control_chars[2 + reg.x]
  /\ l = "chrout_write" => reg.a = ToASCII(Was.a)
  /\ l = "chrout_return" => reg.x = Was.x
  /\ l = "chrout_return" /\ i > 1 => reg.a = Was.a
  /\ l = "chrout_return" /\ i = 3 => "C" \notin reg.p

ScreenAt(i) ==
  /\ reg.a = Was.a /\ SameFlags({"C", "D"}) /\ SameVars(Variables)
  /\ reg.x = IF i = 1 THEN Was.x ELSE Regs[5]
  /\ reg.y = IF i < 3 THEN Was.y ELSE Regs[6]

(* memtop and membot, where they tell and where they set the end at o. *)
TellAt(i, o) ==
  /\ reg.a = Was.a /\ SameFlags({"C", "D"}) /\ SameVars(Variables)
  /\ i > 1 => "C" \in Was.p
  /\ reg.x = IF i < 3 THEN Was.x ELSE Regs[o]
  /\ reg.y = IF i < 4 THEN Was.y ELSE Regs[o + 1]

SetAt(i, o) ==
  /\ reg.a = Was.a /\ reg.x = Was.x /\ reg.y = Was.y /\ SameFlags({"C", "D"})
  /\ "C" \notin Was.p
  /\ SameVars(Variables \ {o, o + 1})
  /\ Regs[o] = IF i = 1 THEN Had[o] ELSE Was.x
  /\ Regs[o + 1] = IF i < 3 THEN Had[o + 1] ELSE Was.y

InterruptAt ==
  /\ reg.a = Was.a /\ reg.x = Was.x /\ reg.y = Was.y /\ SameVars(Variables)

ValuesAt(l, i) ==
  CASE l = "not_implemented" -> NotImplementedAt(i)
    [] l \in ChrinLabels -> ChrinAt(l, i)
    [] l \in ChroutLabels -> ChroutAt(l, i)
    [] l = "screenxy" -> ScreenAt(i)
    [] l = "memtop" -> TellAt(i, 254)
    [] l = "settop" -> SetAt(i, 254)
    [] l = "membot" -> TellAt(i, 252)
    [] l = "setbot" -> SetAt(i, 252)
    [] l = "IRQ_service_routine" -> InterruptAt

AtRest ==
  /\ pc[2] = (BasicEntry(machine) + calls) % 65536
  /\ calls > 0 =>
       /\ entry.routine # "reset" /\ Was \in Arguments /\ Memory(entry.data)
       /\ Untouched
  /\ Len(printed) <= 1

(* A state between two instructions: of a call, of the reset, or of BASIC. *)
In(l, i) == pc = <<l, i>> /\ Types /\ PortsAt(l, i) /\ InCall(l, i) /\ ValuesAt(l, i)

InReset(i) == pc = <<"reset", i>> /\ Types /\ PortsAt("reset", i) /\ ResetAt(i)

InBasic == pc = <<"app", pc[2]>> /\ Types /\ PortsAt("app", pc[2]) /\ AtRest

KInv ==
  \/ Off \/ InBasic
  \/ \E i \in 1 .. 12 : InReset(i)
  \/ \E l \in DOMAIN Code \ {"reset"} : \E i \in 1 .. Len(Code[l]) : In(l, i)

-----------------------------------------------------------------------------
(* Memory. *)

LEMMA LeastIs ==
  ASSUME NEW S \in SUBSET Nat, NEW m \in S, \A x \in S : m <= x
  PROVE  Min(S) = m
<1>1. Min(S) \in S /\ \A y \in S : Min(S) <= y
  BY DEF Min
<1>2. Min(S) \in Nat /\ m \in Nat
  BY <1>1
<1>3. Min(S) <= m /\ m <= Min(S)
  BY <1>1
<1> QED
  BY <1>2, <1>3

LEMMA ConcatTwoThree ==
  ASSUME NEW a, NEW b, NEW c, NEW d, NEW e
  PROVE  <<a, b>> \o <<c, d, e>> = <<a, b, c, d, e>>
<1>1. Len(<<a, b>> \o <<c, d, e>>) = 5
  OBVIOUS
<1>2. <<a, b>> \o <<c, d, e>> \in Seq({a, b, c, d, e})
  OBVIOUS
<1>3. <<a, b, c, d, e>> \in Seq({a, b, c, d, e})
  OBVIOUS
<1>4. \A i \in 1 .. 5 : (<<a, b>> \o <<c, d, e>>)[i] = <<a, b, c, d, e>>[i]
  OBVIOUS
<1> QED
  BY <1>1, <1>2, <1>3, <1>4, SeqEqual

LEMMA ConcatTwoTwo ==
  ASSUME NEW a, NEW b, NEW c, NEW d
  PROVE  <<a, b>> \o <<c, d>> = <<a, b, c, d>>
<1>1. Len(<<a, b>> \o <<c, d>>) = 4
  OBVIOUS
<1>2. <<a, b>> \o <<c, d>> \in Seq({a, b, c, d})
  OBVIOUS
<1>3. <<a, b, c, d>> \in Seq({a, b, c, d})
  OBVIOUS
<1>4. \A i \in 1 .. 4 : (<<a, b>> \o <<c, d>>)[i] = <<a, b, c, d>>[i]
  OBVIOUS
<1> QED
  BY <1>1, <1>2, <1>3, <1>4, SeqEqual

(* The ranges of the two machines.                                         *)
LEMMA RangesOfC64 ==
  RangesOf["C64"] =
    <<AddressRange("ROM", 65024, 512, KernalByte),
      AddressRange("registers", 64768, 256, 0),
      AddressRange("ROM", 40960, 8192, BasicByte),
      AddressRange("ROM", 57344, 1207, BasicByte),
      AddressRange("RAM", 0, 65536, 0)>>
<1> DEFINE kernal == AddressRange("ROM", 65024, 512, KernalByte)
           registers == AddressRange("registers", 64768, 256, 0)
           basic1 == AddressRange("ROM", 40960, 8192, BasicByte)
           basic2 == AddressRange("ROM", 57344, 1207, BasicByte)
           ram == AddressRange("RAM", 0, 65536, 0)
<1>1. Commodore = <<kernal, registers>>
  BY DEF Commodore, ROM, RegistersStart, RegistersSize
<1>2. OwnRanges("C64") = <<basic1, basic2, ram>>
  BY DEF OwnRanges, ROM, RAM
<1>3. RangesOf["C64"] = Commodore \o OwnRanges("C64")
  BY DEF RangesOf, Machines
<1>4. RangesOf["C64"] = <<kernal, registers, basic1, basic2, ram>>
  <2> HIDE DEF kernal, registers, basic1, basic2, ram
  <2> QED
    BY <1>1, <1>2, <1>3, ConcatTwoThree
<1> QED
  BY <1>4

LEMMA RangesOfVIC20 ==
  RangesOf["VIC20"] =
    <<AddressRange("ROM", 65024, 512, KernalByte),
      AddressRange("registers", 64768, 256, 0),
      AddressRange("ROM", 49152, 9472, BasicByte),
      AddressRange("RAM", 0, 5120, 0)>>
<1> DEFINE kernal == AddressRange("ROM", 65024, 512, KernalByte)
           registers == AddressRange("registers", 64768, 256, 0)
           basic == AddressRange("ROM", 49152, 9472, BasicByte)
           ram == AddressRange("RAM", 0, 5120, 0)
<1>1. Commodore = <<kernal, registers>>
  BY DEF Commodore, ROM, RegistersStart, RegistersSize
<1>2. OwnRanges("VIC20") = <<basic, ram>>
  BY DEF OwnRanges, ROM, RAM
<1>3. RangesOf["VIC20"] = Commodore \o OwnRanges("VIC20")
  BY DEF RangesOf, Machines
<1>4. RangesOf["VIC20"] = <<kernal, registers, basic, ram>>
  <2> HIDE DEF kernal, registers, basic, ram
  <2> QED
    BY <1>1, <1>2, <1>3, ConcatTwoTwo
<1> QED
  BY <1>4

(* Both have the registers second and the RAM last, and nothing else where *)
(* the registers or the stack are.                                         *)
LEMMA RangesOfMachine ==
  ASSUME NEW m \in Machines, NEW n, n = IF m = "C64" THEN 5 ELSE 4
  PROVE  /\ DOMAIN RangesOf[m] = 1 .. n
         /\ n \in {4, 5}
         /\ RangesOf[m][2].kind = "registers" /\ RangesOf[m][2].start = 64768
         /\ RangesOf[m][2].size = 256 /\ RangesOf[m][2].byte = 0
         /\ RangesOf[m][n].kind = "RAM" /\ RangesOf[m][n].start = 0 /\ RangesOf[m][n].byte = 0
         /\ RangesOf[m][n].size \in Nat /\ RangesOf[m][n].size > 511
         /\ \A i \in 1 .. n \ {2, n} :
              /\ RangesOf[m][i].kind = "ROM"
              /\ RangesOf[m][i].start \in Nat /\ RangesOf[m][i].size \in Nat
              /\ RangesOf[m][i].start >= 40960
              /\ i = 1 => RangesOf[m][i].start > 65023
<1>1. CASE m = "C64"
  <2>1. RangesOf[m] = RangesOf["C64"] /\ n = 5
    BY <1>1
  <2>2. 1 .. 5 \ {2, 5} = {1, 3, 4}
    OBVIOUS
  <2> QED
    BY <2>1, <2>2, RangesOfC64 DEF AddressRange
<1>2. CASE m = "VIC20"
  <2>1. RangesOf[m] = RangesOf["VIC20"] /\ n = 4
    BY <1>2
  <2>2. 1 .. 4 \ {2, 4} = {1, 3}
    OBVIOUS
  <2> QED
    BY <2>1, <2>2, RangesOfVIC20 DEF AddressRange
<1> QED
  BY <1>1, <1>2 DEF Machines

LEMMA RangesAre ==
  ASSUME machine \in Machines
  PROVE  /\ DOMAIN ranges = 1 .. RAMIndex
         /\ RAMIndex \in {4, 5}
         /\ ranges[2].kind = "registers" /\ ranges[2].start = 64768 /\ ranges[2].size = 256
         /\ ranges[2].byte = 0
         /\ ranges[RAMIndex].kind = "RAM" /\ ranges[RAMIndex].start = 0 /\ ranges[RAMIndex].byte = 0
         /\ ranges[RAMIndex].size \in Nat /\ ranges[RAMIndex].size > 511
         /\ \A i \in 1 .. RAMIndex \ {2, RAMIndex} :
              /\ ranges[i].kind = "ROM" /\ ranges[i].start \in Nat /\ ranges[i].size \in Nat
              /\ ranges[i].start >= 40960
              /\ i = 1 => ranges[i].start > 65023
BY RangesOfMachine DEF ranges, RAMIndex

LEMMA RegistersAre ==
  ASSUME machine \in Machines
  PROVE  KernelRegisters(ranges) = 2
<1>1. 2 \in DOMAIN ranges /\ ranges[2].kind = "registers"
  BY RangesAre
<1>2. \A i \in DOMAIN ranges : ranges[i].kind = "registers" => i = 2
  BY RangesAre
<1> QED
  BY <1>1, <1>2 DEF KernelRegisters

LEMMA OffsetsAre ==
  ASSUME machine \in Machines
  PROVE  /\ Offsets(ranges[2]) = RegOffsets
         /\ Offsets(ranges[RAMIndex]) = StackOffsets
         /\ \A i \in 1 .. RAMIndex \ {2, RAMIndex} : Offsets(ranges[i]) = {}
BY RangesAre DEF Offsets, RegOffsets, StackOffsets

(* Who serves an address of the registers, and one of the stack.           *)
LEMMA RegistersServe ==
  ASSUME machine \in Machines, NEW o \in Bytes, NEW ds, NEW b
  PROVE  /\ Load(ranges, ds, RegistersStart + o) = ds[2][o]
         /\ Store(ranges, ds, RegistersStart + o, b) = [ds EXCEPT ![2][o] = b]
<1> DEFINE a == RegistersStart + o
           H == Hits(ranges, a)
<1>1. 2 \in H /\ 1 \notin H
  BY RangesAre DEF Hits, Contains, RegistersStart, Bytes
<1>2. H \in SUBSET Nat /\ \A i \in H : 2 <= i
  <2>1. H \subseteq 1 .. RAMIndex /\ RAMIndex \in Nat
    BY RangesAre DEF Hits
  <2> HIDE DEF H
  <2> QED
    BY <1>1, <2>1
<1>3. Min(H) = 2
  <2> HIDE DEF H
  <2> QED
    BY <1>1, <1>2, LeastIs
<1>4. H # {}
  BY <1>1
<1>5. IsWritable(ranges[2]) /\ a - ranges[2].start = o
  <2>1. ranges[2].kind = "registers" /\ ranges[2].start = 64768
    BY RangesAre
  <2> QED
    BY <2>1 DEF IsWritable, RegistersStart, Bytes
<1>6. Serving(ranges, a) = 2
  BY <1>3 DEF Serving
<1>7. Load(ranges, ds, a) = ds[2][a - ranges[2].start]
  <2> HIDE DEF a
  <2> QED
    BY <1>4, <1>6, Zenon DEF Load
<1>8. Store(ranges, ds, a, b) = [ds EXCEPT ![2][a - ranges[2].start] = b]
  <2> HIDE DEF a
  <2> QED
    BY <1>4, <1>5, <1>6, Zenon DEF Store
<1> QED
  BY <1>5, <1>7, <1>8, Zenon

LEMMA StackServes ==
  ASSUME machine \in Machines, NEW o \in StackPage, NEW ds, NEW b
  PROVE  /\ Load(ranges, ds, o) = ds[RAMIndex][o]
         /\ Store(ranges, ds, o, b) = [ds EXCEPT ![RAMIndex][o] = b]
<1>1. RAMIndex \in DOMAIN ranges
  BY RangesAre
<1>2. Contains(ranges[RAMIndex], o)
  <2>1. ranges[RAMIndex].start = 0 /\ ranges[RAMIndex].size \in Nat /\ ranges[RAMIndex].size > 511
    BY RangesAre
  <2> QED
    BY <2>1 DEF Contains, StackPage
<1>3. \A i \in DOMAIN ranges : i # RAMIndex => ~Contains(ranges[i], o)
  <2> SUFFICES ASSUME NEW i \in DOMAIN ranges, i # RAMIndex PROVE ~Contains(ranges[i], o)
    OBVIOUS
  <2>1. ranges[i].start \in Nat /\ ranges[i].start > 511
    BY RangesAre
  <2> QED
    BY <2>1 DEF Contains, StackPage
<1>4. Hits(ranges, o) = {RAMIndex}
  BY <1>1, <1>2, <1>3 DEF Hits
<1>5. Min({RAMIndex}) = RAMIndex
  <2>1. RAMIndex \in Nat
    BY RangesAre
  <2> QED
    BY <2>1, LeastIs
<1>6. Serving(ranges, o) = RAMIndex /\ Hits(ranges, o) # {}
  BY <1>4, <1>5 DEF Serving
<1>7. IsWritable(ranges[RAMIndex]) /\ o - ranges[RAMIndex].start = o
  BY RangesAre DEF IsWritable, StackPage
<1>8. Load(ranges, ds, o) = ds[RAMIndex][o - ranges[RAMIndex].start]
  BY <1>6, Zenon DEF Load
<1>9. Store(ranges, ds, o, b) = [ds EXCEPT ![RAMIndex][o - ranges[RAMIndex].start] = b]
  BY <1>6, <1>7, Zenon DEF Store
<1> QED
  BY <1>7, <1>8, <1>9, Zenon

-----------------------------------------------------------------------------
(* The stack. *)

LEMMA BelowAre ==
  ASSUME NEW s \in Bytes
  PROVE  /\ Below(s, 0) = s
         /\ \A n \in 0 .. 4 : Below(s, n) \in Bytes /\ Below(s, n) = IF s >= n THEN s - n ELSE s + 256 - n
<1>1. ASSUME NEW n \in 0 .. 4
      PROVE  Below(s, n) = IF s >= n THEN s - n ELSE s + 256 - n
  <2>1. s \in Int /\ n \in Int /\ 0 <= s /\ s < 256 /\ 0 <= n /\ n < 5
    BY DEF Bytes
  <2>2. (s + 256 - n) % 256 = IF s >= n THEN s - n ELSE s + 256 - n
    BY <2>1
  <2> QED
    BY <2>2 DEF Below
<1>2. Below(s, 0) = s
  BY <1>1 DEF Bytes
<1> QED
  BY <1>1, <1>2 DEF Bytes

Down(s, n) == IF s >= n THEN s - n ELSE s + 256 - n

LEMMA BelowIs ==
  ASSUME NEW s \in Bytes, NEW n \in 0 .. 4
  PROVE  Below(s, n) = Down(s, n)
BY BelowAre, Zenon DEF Down

LEMMA AboveIs ==
  ASSUME NEW s \in Bytes, NEW n \in 0 .. 4
  PROVE  Above(s, n) = IF s + n < 256 THEN s + n ELSE s + n - 256
BY DEF Above, Bytes

(* Where S is when a byte more is pushed, and when bytes are pulled.       *)
LEMMA BelowBelow ==
  ASSUME NEW s \in Bytes, NEW m \in 0 .. 4, NEW n \in 0 .. 4, m + n <= 4
  PROVE  Below(Below(s, m), n) = Below(s, m + n)
<1>1. Below(s, m) \in Bytes /\ m + n \in 0 .. 4
  BY BelowAre
<1>2. Below(Below(s, m), n) = Down(Below(s, m), n)
  BY <1>1, BelowIs, Zenon
<1>3. Below(s, m) = Down(s, m) /\ Below(s, m + n) = Down(s, m + n)
  BY <1>1, BelowIs, Zenon
<1> QED
  BY <1>2, <1>3 DEF Bytes, Down

LEMMA AboveBelow ==
  ASSUME NEW s \in Bytes, NEW m \in 0 .. 4, NEW n \in 0 .. 4, n <= m
  PROVE  Above(Below(s, m), n) = Below(s, m - n)
<1>1. Below(s, m) \in Bytes /\ m - n \in 0 .. 4
  BY BelowAre
<1>2. Above(Below(s, m), n) = IF Below(s, m) + n < 256 THEN Below(s, m) + n ELSE Below(s, m) + n - 256
  BY <1>1, AboveIs
<1>3. Below(s, m) = Down(s, m) /\ Below(s, m - n) = Down(s, m - n)
  BY <1>1, BelowIs, Zenon
<1> QED
  BY <1>2, <1>3 DEF Bytes, Down

LEMMA BelowDiffers ==
  ASSUME NEW s \in Bytes, NEW m \in 0 .. 4, NEW n \in 0 .. 4, m # n
  PROVE  Below(s, m) # Below(s, n)
<1>1. Below(s, m) = Down(s, m) /\ Below(s, n) = Down(s, n)
  BY BelowIs, Zenon
<1> QED
  BY <1>1 DEF Bytes, Down

LEMMA StackOffsetsAre ==
  /\ StackOffsets \subseteq StackPage
  /\ \A s \in StackPointers : \A n \in 0 .. 3 : 256 + Below(s, n) \in StackOffsets
  /\ \A args \in Arguments : \A n \in 0 .. 3 : 256 + Below(args.s, n) \in StackOffsets
<1>1. \A args \in Arguments : args.s \in Bytes
  BY KernalCodeAssumption DEF Bytes
<1>2. \A s \in StackPointers : s \in Bytes
  BY KernalCodeAssumption DEF Bytes
<1> DEFINE tops == StackPointers \cup {r.s : r \in Arguments}
<1>3. \A s \in tops : s \in Bytes
  BY <1>1, <1>2
<1>4. StackOffsets = {256 + Below(s, n) : s \in tops, n \in 0 .. 3}
  BY DEF StackOffsets
<1>5. StackPointers \subseteq tops /\ \A args \in Arguments : args.s \in tops
  OBVIOUS
<1> HIDE DEF tops
<1>6. \A s \in tops : \A n \in 0 .. 3 : 256 + Below(s, n) \in StackPage
  <2> SUFFICES ASSUME NEW s \in tops, NEW n \in 0 .. 3 PROVE 256 + Below(s, n) \in StackPage
    OBVIOUS
  <2>1. Below(s, n) \in Bytes
    BY <1>3, BelowAre
  <2> QED
    BY <2>1 DEF Bytes, StackPage
<1>7. StackOffsets \subseteq StackPage
  BY <1>4, <1>6
<1>8. \A s \in tops : \A n \in 0 .. 3 : 256 + Below(s, n) \in StackOffsets
  BY <1>4
<1> QED
  BY <1>5, <1>7, <1>8

(* What is stored where. *)
LEMMA MemoryExcept ==
  ASSUME machine \in Machines, NEW ds, Memory(ds), NEW r \in {2, RAMIndex}, NEW f,
         r = 2 => f \in [RegOffsets -> Bytes],
         r = RAMIndex => f \in [StackOffsets -> Bytes]
  PROVE  /\ Memory([ds EXCEPT ![r] = f])
         /\ [ds EXCEPT ![r] = f][2] = IF r = 2 THEN f ELSE ds[2]
         /\ [ds EXCEPT ![r] = f][RAMIndex] = IF r = 2 THEN ds[RAMIndex] ELSE f
<1>1. RAMIndex \in {4, 5}
  BY RangesAre
<1>2. ds = [i \in 1 .. RAMIndex |-> ds[i]]
  BY DEF Memory
<1>3. [ds EXCEPT ![r] = f] = [i \in 1 .. RAMIndex |-> IF i = r THEN f ELSE ds[i]]
  BY <1>1, <1>2
<1>4. \A i \in 1 .. RAMIndex : [ds EXCEPT ![r] = f][i] = IF i = r THEN f ELSE ds[i]
  BY <1>3
<1>5. [ds EXCEPT ![r] = f] = [i \in 1 .. RAMIndex |-> [ds EXCEPT ![r] = f][i]]
  BY <1>3
<1> HIDE <1>3
<1> QED
  BY <1>1, <1>4, <1>5 DEF Memory

LEMMA StoreRegister ==
  ASSUME machine \in Machines, NEW o \in RegOffsets, NEW b \in Bytes, NEW ds, Memory(ds)
  PROVE  /\ Memory(Store(ranges, ds, RegistersStart + o, b))
         /\ Store(ranges, ds, RegistersStart + o, b)[2] = [ds[2] EXCEPT ![o] = b]
         /\ Store(ranges, ds, RegistersStart + o, b)[RAMIndex] = ds[RAMIndex]
<1>1. o \in Bytes
  BY DEF RegOffsets, Bytes
<1>2. Store(ranges, ds, RegistersStart + o, b) = [ds EXCEPT ![2][o] = b]
  BY <1>1, RegistersServe
<1> DEFINE f == [ds[2] EXCEPT ![o] = b]
<1>3. f \in [RegOffsets -> Bytes]
  BY DEF Memory
<1>4. Store(ranges, ds, RegistersStart + o, b) = [ds EXCEPT ![2] = f]
  BY <1>2
<1>5. RAMIndex # 2
  BY RangesAre
<1> HIDE DEF f
<1>6. /\ Memory([ds EXCEPT ![2] = f]) /\ [ds EXCEPT ![2] = f][2] = f
      /\ [ds EXCEPT ![2] = f][RAMIndex] = ds[RAMIndex]
  BY <1>3, <1>5, MemoryExcept
<1> QED
  BY <1>4, <1>6 DEF f

LEMMA StoreStack ==
  ASSUME machine \in Machines, NEW o \in StackOffsets, NEW b \in Bytes, NEW ds, Memory(ds)
  PROVE  /\ Memory(Store(ranges, ds, o, b))
         /\ Store(ranges, ds, o, b)[2] = ds[2]
         /\ Store(ranges, ds, o, b)[RAMIndex] = [ds[RAMIndex] EXCEPT ![o] = b]
<1>1. o \in StackPage
  BY StackOffsetsAre
<1>2. Store(ranges, ds, o, b) = [ds EXCEPT ![RAMIndex][o] = b]
  BY <1>1, StackServes
<1> DEFINE f == [ds[RAMIndex] EXCEPT ![o] = b]
<1>3. f \in [StackOffsets -> Bytes]
  BY DEF Memory
<1>4. Store(ranges, ds, o, b) = [ds EXCEPT ![RAMIndex] = f]
  BY <1>2
<1>5. RAMIndex # 2
  BY RangesAre
<1> HIDE DEF f
<1>6. /\ Memory([ds EXCEPT ![RAMIndex] = f]) /\ [ds EXCEPT ![RAMIndex] = f][2] = ds[2]
      /\ [ds EXCEPT ![RAMIndex] = f][RAMIndex] = f
  BY <1>3, <1>5, MemoryExcept
<1> QED
  BY <1>4, <1>6 DEF f

(* The processor status survives being pushed and pulled. *)
LEMMA FlagsOfByte ==
  ASSUME NEW p \in SUBSET Flags
  PROVE  Byte(p) \in Bytes /\ FlagsOf(Byte(p)) = p
<1>1. FlagBit["C"] = 1 /\ FlagBit["Z"] = 2 /\ FlagBit["D"] = 8
  BY DEF FlagBit
<1>2. /\ BitOf(p, "C") = IF "C" \in p THEN 1 ELSE 0
      /\ BitOf(p, "Z") = IF "Z" \in p THEN 2 ELSE 0
      /\ BitOf(p, "D") = IF "D" \in p THEN 8 ELSE 0
  BY <1>1 DEF BitOf
<1>3. /\ Byte(p) \in Bytes
      /\ "C" \in p <=> (Byte(p) \div 1) % 2 = 1
      /\ "Z" \in p <=> (Byte(p) \div 2) % 2 = 1
      /\ "D" \in p <=> (Byte(p) \div 8) % 2 = 1
  <2> DEFINE c == BitOf(p, "C")
             z == BitOf(p, "Z")
             d == BitOf(p, "D")
  <2>1. Byte(p) = c + z + d
    BY DEF Byte
  <2>2. c \in {0, 1} /\ z \in {0, 2} /\ d \in {0, 8}
    BY <1>2
  <2>3. ("C" \in p <=> c = 1) /\ ("Z" \in p <=> z = 2) /\ ("D" \in p <=> d = 8)
    BY <1>2
  <2> HIDE DEF c, z, d
  <2> QED
    BY <2>1, <2>2, <2>3 DEF Bytes
<1>4. \A f \in Flags : f \in p <=> (Byte(p) \div FlagBit[f]) % 2 = 1
  BY <1>1, <1>3 DEF Flags
<1> QED
  BY <1>3, <1>4 DEF FlagsOf

-----------------------------------------------------------------------------
(* What an instruction does. *)

Step ==
  /\ turn = "cpu" /\ ~eof /\ turn' = "host"
  /\ UNCHANGED <<machine, eof, calls, entry, fetched, printed>>

SameMemory == Regs' = Regs /\ Stack' = Stack
SameFlagsBut(fs) == \A f \in Flags \ fs : f \in reg'.p <=> f \in reg.p

Loaded(r, v) ==
  /\ reg'.a = IF r = "a" THEN v ELSE reg.a
  /\ reg'.x = IF r = "x" THEN v ELSE reg.x
  /\ reg'.y = IF r = "y" THEN v ELSE reg.y
  /\ reg'.s = reg.s /\ SameFlagsBut({"Z"}) /\ ("Z" \in reg'.p <=> v = 0)
  /\ SameMemory

StoredAt(o, v) ==
  /\ Regs'[o] = v /\ \A p \in RegOffsets : p # o => Regs'[p] = Regs[p]
  /\ Stack' = Stack

Stored(o, v) == reg' = reg /\ StoredAt(o, v)

Compared(v, w) ==
  /\ reg'.a = reg.a /\ reg'.x = reg.x /\ reg'.y = reg.y /\ reg'.s = reg.s
  /\ SameFlagsBut({"Z", "C"}) /\ ("Z" \in reg'.p <=> v = w)
  /\ SameMemory

LEMMA WhichAction ==
  ASSUME Kernal
  PROVE  /\ Step /\ pc[1] \in DOMAIN Code
         /\ Instruction[1] = "ld" => Loads
         /\ Instruction[1] = "st" => Stores
         /\ Instruction[1] = "cp" => Compares
         /\ Instruction[1] = "inc_ACK" => IncrementsAck
         /\ Instruction[1] = "inx" => IncrementsX
         /\ Instruction[1] = "br" => Branches
         /\ Instruction[1] = "jmp" => Jumps
         /\ Instruction[1] = "jmp_BASICE" => JumpsToBasic
         /\ Instruction[1] \in {"pha", "php"} => Pushes
         /\ Instruction[1] = "pla" => PullsA
         /\ Instruction[1] = "plp" => PullsP
         /\ Instruction[1] \in {"clc", "cld"} => ClearsFlag
         /\ Instruction[1] = "rts" => Returns
         /\ Instruction[1] = "rti" => ReturnsFromInterrupt
<1> HIDE DEF Instruction
<1>1. PICK op \in {"ld", "st", "cp", "inc_ACK", "inx", "br", "jmp", "jmp_BASICE", "pha", "php",
                   "pla", "plp", "clc", "cld", "rts", "rti"} : Executes(op)
  BY Zenon DEF Kernal, Loads, Stores, Compares, IncrementsAck, IncrementsX, Branches, Jumps, JumpsToBasic,
     Pushes, PullsA, PullsP, ClearsFlag, Returns, ReturnsFromInterrupt
<1>2. Step /\ pc[1] \in DOMAIN Code /\ Instruction[1] = op
  BY <1>1 DEF Executes, Step
<1>3. /\ Loads => op = "ld"
      /\ Stores => op = "st"
      /\ Compares => op = "cp"
      /\ IncrementsAck => op = "inc_ACK"
      /\ IncrementsX => op = "inx"
      /\ Branches => op = "br"
      /\ Jumps => op = "jmp"
      /\ JumpsToBasic => op = "jmp_BASICE"
      /\ Pushes => op \in {"pha", "php"}
      /\ PullsA => op = "pla"
      /\ PullsP => op = "plp"
      /\ ClearsFlag => op \in {"clc", "cld"}
      /\ Returns => op = "rts"
      /\ ReturnsFromInterrupt => op = "rti"
  <2>1. \A o : Executes(o) => o = op
    BY <1>2 DEF Executes
  <2> QED
    BY <2>1, Zenon DEF Loads, Stores, Compares, IncrementsAck, IncrementsX, Branches, Jumps, JumpsToBasic,
       Pushes, PullsA, PullsP, ClearsFlag, Returns, ReturnsFromInterrupt
<1> QED
  BY <1>2, <1>3 DEF Kernal

(* Types are kept if the memory and the registers are, and what the        *)
(* constructor stored is not overwritten.                                  *)
LEMMA TypesKept ==
  ASSUME Types, Step, Memory(data)', reg' \in RegisterSets,
         \A o \in 3 .. 10 : Regs'[o] = Regs[o]
  PROVE  Types'
BY DEF Types, Step, Machines

LEMMA SameRAM ==
  ASSUME Step
  PROVE  RAMIndex' = RAMIndex /\ \A ds : Memory(ds)' <=> Memory(ds')
BY DEF Step, RAMIndex, Memory

-----------------------------------------------------------------------------
(* Each instruction at l, i of the code. *)

At(l, i) == pc = <<l, i>> /\ l \in DOMAIN Code /\ Types /\ Kernal

Onward(l, i) ==
  /\ i < Len(Code[l]) => pc' = <<l, i + 1>>
  /\ ~(i < Len(Code[l])) => \A m : m = Falls[l] => pc' = <<m, 1>>

LEMMA AtIs ==
  ASSUME NEW l, NEW i, At(l, i)
  PROVE  /\ Instruction = Code[l][i] /\ pc[1] = l /\ Step /\ machine \in Machines
         /\ Advance => Onward(l, i)
<1>1. Step
  BY WhichAction DEF At
<1>2. pc[1] = l /\ pc[2] = i /\ machine \in Machines
  BY DEF At, Types
<1> QED
  BY <1>1, <1>2, Zenon DEF Instruction, Advance, Onward, Goto

LEMMA RegOffsetsAre ==
  /\ RegOffsets \subseteq Bytes /\ \A o \in 0 .. 10 : o \in RegOffsets
  /\ 250 \in RegOffsets /\ 251 \in RegOffsets /\ 252 \in RegOffsets
  /\ 253 \in RegOffsets /\ 254 \in RegOffsets /\ 255 \in RegOffsets
BY DEF RegOffsets, Bytes

LEMMA MemoryTyped ==
  ASSUME Types
  PROVE  /\ Memory(data) /\ machine \in Machines /\ data[2] = Regs /\ data[RAMIndex] = Stack
         /\ DOMAIN Regs = RegOffsets /\ \A o \in RegOffsets : Regs[o] \in Bytes
         /\ DOMAIN Stack = StackOffsets /\ \A o \in StackOffsets : Stack[o] \in Bytes
BY DEF Types, Memory, Regs, Stack

LEMMA OperandIs ==
  ASSUME NEW l, NEW i, At(l, i), NEW op, NEW r, NEW mode, NEW arg,
         Code[l][i] = <<op, r, mode, arg>>
  PROVE  /\ mode = "imm" => Operand = arg
         /\ \A o \in RegOffsets :
              mode = "abs" /\ arg = RegistersStart + o => Operand = Regs[o] /\ Regs[o] \in Bytes
         /\ mode = "table" => Operand = control_chars[arg + reg.x]
<1>1. Instruction = <<op, r, mode, arg>> /\ machine \in Machines
  BY AtIs
<1>2. Operand = CASE mode = "imm"   -> arg
                  [] mode = "abs"   -> Load(ranges, data, arg)
                  [] mode = "table" -> control_chars[arg + reg.x]
  <2>1. Instruction[3] = mode /\ Instruction[4] = arg
    BY <1>1
  <2> QED
    BY <2>1, Zenon DEF Operand
<1>3. ASSUME NEW o \in RegOffsets
      PROVE  Load(ranges, data, RegistersStart + o) = Regs[o] /\ Regs[o] \in Bytes
  <2>1. o \in Bytes /\ Regs[o] \in Bytes /\ data[2] = Regs
    BY RegOffsetsAre, MemoryTyped DEF At
  <2> QED
    BY <1>1, <2>1, RegistersServe
<1> QED
  BY <1>2, <1>3

LEMMA AtLoad ==
  ASSUME NEW l, NEW i, At(l, i), NEW r \in {"a", "x", "y"}, NEW mode, NEW arg,
         Code[l][i] = Ld(r, mode, arg), NEW v \in Bytes, Operand = v
  PROVE  Step /\ Types' /\ Onward(l, i) /\ Loaded(r, v)
<1>1. Instruction = <<"ld", r, mode, arg>> /\ Step
  BY AtIs DEF Ld
<1>2. Loads
  <2>1. Instruction[1] = "ld"
    BY <1>1
  <2> QED
    BY <2>1, WhichAction DEF At
<1>3. /\ reg' = [reg EXCEPT ![r] = v, !.p = WithFlag(@, "Z", v = 0)]
      /\ data' = data /\ Advance
  <2>1. Instruction[2] = r
    BY <1>1
  <2> QED
    BY <1>2, <2>1, Zenon DEF Loads
<1>4. reg' \in RegisterSets /\ Loaded(r, v)
  <2>1. reg \in RegisterSets
    BY DEF At, Types
  <2>2. reg' \in RegisterSets
    BY <1>3, <2>1 DEF RegisterSets, WithFlag, Flags
  <2>3. /\ reg'.a = IF r = "a" THEN v ELSE reg.a
        /\ reg'.x = IF r = "x" THEN v ELSE reg.x
        /\ reg'.y = IF r = "y" THEN v ELSE reg.y
        /\ reg'.s = reg.s /\ reg'.p = WithFlag(reg.p, "Z", v = 0)
    BY <1>3, <2>1 DEF RegisterSets
  <2>4. SameFlagsBut({"Z"}) /\ ("Z" \in reg'.p <=> v = 0)
    BY <2>3 DEF SameFlagsBut, WithFlag
  <2>5. SameMemory
    BY <1>1, <1>3 DEF SameMemory, Regs, Stack, Step, RAMIndex
  <2> QED
    BY <2>2, <2>3, <2>4, <2>5 DEF Loaded
<1>5. Types'
  <2>1. Memory(data)' /\ Regs' = Regs
    BY <1>1, <1>3, MemoryTyped, SameRAM DEF At, Regs
  <2> QED
    BY <1>1, <1>4, <2>1, TypesKept DEF At
<1> QED
  BY <1>1, <1>3, <1>4, <1>5, AtIs

LEMMA StoreKeepsTypes ==
  ASSUME Types, Step, reg' \in RegisterSets, NEW o \in RegOffsets, o \notin 3 .. 10, NEW v \in Bytes,
         data' = Store(ranges, data, RegistersStart + o, v)
  PROVE  Types' /\ StoredAt(o, v)
<1>1. /\ Memory(data') /\ data'[2] = [Regs EXCEPT ![o] = v] /\ data'[RAMIndex] = Stack
  <2> DEFINE stored == Store(ranges, data, RegistersStart + o, v)
  <2>1. Memory(stored) /\ stored[2] = [data[2] EXCEPT ![o] = v] /\ stored[RAMIndex] = data[RAMIndex]
    BY MemoryTyped, StoreRegister
  <2> HIDE DEF stored
  <2>2. data' = stored
    BY DEF stored
  <2> QED
    BY <2>1, <2>2, MemoryTyped
<1>2. Memory(data)' /\ Regs' = [Regs EXCEPT ![o] = v] /\ Stack' = Stack
  <2>1. RAMIndex' = RAMIndex /\ Memory(data)'
    BY <1>1, SameRAM
  <2> QED
    BY <1>1, <2>1, Zenon DEF Regs, Stack
<1>3. StoredAt(o, v)
  BY <1>2, MemoryTyped DEF StoredAt
<1>4. \A p \in 3 .. 10 : Regs'[p] = Regs[p]
  <2>1. \A p \in 3 .. 10 : p \in RegOffsets
    BY DEF RegOffsets
  <2> QED
    BY <1>3, <2>1 DEF StoredAt
<1> QED
  BY <1>2, <1>3, <1>4, TypesKept

LEMMA AtStore ==
  ASSUME NEW l, NEW i, At(l, i), NEW r \in {"a", "x", "y"}, NEW o \in RegOffsets, o \notin 3 .. 10,
         Code[l][i] = St(r, RegistersStart + o)
  PROVE  Step /\ Types' /\ Onward(l, i) /\ Stored(o, reg[r])
<1>1. Instruction = <<"st", r, "abs", RegistersStart + o>> /\ Step
  BY AtIs DEF St
<1>2. Stores
  <2>1. Instruction[1] = "st"
    BY <1>1
  <2> QED
    BY <2>1, WhichAction DEF At
<1>3. /\ reg' = reg /\ Advance
      /\ data' = Store(ranges, data, RegistersStart + o, reg[r])
  <2>1. Instruction[2] = r /\ Instruction[4] = RegistersStart + o
    BY <1>1
  <2> QED
    BY <1>2, <2>1, Zenon DEF Stores
<1>4. reg[r] \in Bytes /\ reg' \in RegisterSets
  <2>1. reg \in RegisterSets
    BY DEF At, Types
  <2> QED
    BY <1>3, <2>1 DEF RegisterSets
<1>5. Types' /\ StoredAt(o, reg[r])
  BY <1>1, <1>3, <1>4, StoreKeepsTypes DEF At
<1> QED
  BY <1>1, <1>3, <1>5, AtIs DEF Stored

LEMMA AtStoreSelect ==
  ASSUME NEW l, NEW i, At(l, i), NEW r \in {"a", "x", "y"},
         Code[l][i] = St(r, RegistersStart + 0)
  PROVE  Step /\ Types' /\ Onward(l, i) /\ Stored(0, reg[r])
<1>1. 0 \in RegOffsets /\ 0 \notin 3 .. 10
  BY RegOffsetsAre
<1> QED
  BY <1>1, AtStore, Zenon

(* An instruction that leaves memory alone. *)
LEMMA DataKept ==
  ASSUME Types, Step, data' = data, reg' \in RegisterSets
  PROVE  Types' /\ SameMemory
<1>1. SameMemory
  BY DEF SameMemory, Regs, Stack, Step, RAMIndex
<1>2. Memory(data)' /\ Regs' = Regs
  BY <1>1, MemoryTyped, SameRAM DEF SameMemory
<1> QED
  BY <1>1, <1>2, TypesKept

LEMMA AtCompare ==
  ASSUME NEW l, NEW i, At(l, i), NEW r \in {"a", "x", "y"}, NEW mode, NEW arg,
         Code[l][i] = Cp(r, mode, arg), NEW v, Operand = v
  PROVE  Step /\ Types' /\ Onward(l, i) /\ Compared(reg[r], v)
<1>1. Instruction = <<"cp", r, mode, arg>> /\ Step
  BY AtIs DEF Cp
<1>2. Compares
  <2>1. Instruction[1] = "cp"
    BY <1>1
  <2> QED
    BY <2>1, WhichAction DEF At
<1> DEFINE atLeast == reg[r] >= v
<1>3. /\ reg' = [reg EXCEPT !.p = WithFlag(WithFlag(@, "Z", reg[r] = v), "C", atLeast)]
      /\ data' = data /\ Advance
  <2>1. Instruction[2] = r
    BY <1>1
  <2> QED
    BY <1>2, <2>1 DEF Compares
<1>4. reg' \in RegisterSets /\ Compared(reg[r], v)
  <2> HIDE DEF atLeast
  <2>1. reg \in RegisterSets
    BY DEF At, Types
  <2>2. reg' \in RegisterSets
    BY <1>3, <2>1 DEF RegisterSets, WithFlag, Flags
  <2>3. /\ reg'.a = reg.a /\ reg'.x = reg.x /\ reg'.y = reg.y /\ reg'.s = reg.s
        /\ reg'.p = WithFlag(WithFlag(reg.p, "Z", reg[r] = v), "C", atLeast)
    BY <1>3, <2>1 DEF RegisterSets
  <2>4. SameFlagsBut({"Z", "C"}) /\ ("Z" \in reg'.p <=> reg[r] = v)
    BY <2>3 DEF SameFlagsBut, WithFlag
  <2>5. SameMemory
    BY <1>1, <1>3, <2>2, DataKept DEF At
  <2> QED
    BY <2>2, <2>3, <2>4, <2>5 DEF Compared
<1>5. Types'
  BY <1>1, <1>3, <1>4, DataKept DEF At
<1> QED
  BY <1>1, <1>3, <1>4, <1>5, AtIs

LEMMA AtIncrementsAck ==
  ASSUME NEW l, NEW i, At(l, i), Code[l][i] = Op("inc_ACK"), Regs[2] = 0
  PROVE  /\ Step /\ Types' /\ Onward(l, i) /\ StoredAt(2, 1)
         /\ reg'.a = reg.a /\ reg'.x = reg.x /\ reg'.y = reg.y /\ reg'.s = reg.s
         /\ SameFlagsBut({"Z"})
<1>1. Instruction = <<"inc_ACK">> /\ Step /\ machine \in Machines
  BY AtIs DEF Op
<1>2. IncrementsAck
  <2>1. Instruction[1] = "inc_ACK"
    BY <1>1
  <2> QED
    BY <2>1, WhichAction DEF At
<1>3. Address(Ack) = RegistersStart + 2 /\ 2 \in RegOffsets /\ 2 \in Bytes /\ 2 \notin 3 .. 10 /\ 1 \in Bytes
  BY DEF Address, Ack, RegOffsets, Bytes
<1>4. Load(ranges, data, RegistersStart + 2) = Regs[2]
  BY <1>1, <1>3, RegistersServe, MemoryTyped DEF At
<1>5. (Load(ranges, data, Address(Ack)) + 1) % 256 = 1
  BY <1>3, <1>4
<1>6. /\ Advance /\ data' = Store(ranges, data, RegistersStart + 2, 1)
      /\ reg' = [reg EXCEPT !.p = WithFlag(@, "Z", FALSE)]
  <2> DEFINE value == (Load(ranges, data, Address(Ack)) + 1) % 256
  <2>1. /\ Advance /\ data' = Store(ranges, data, Address(Ack), value)
        /\ reg' = [reg EXCEPT !.p = WithFlag(@, "Z", value = 0)]
    BY <1>2, Zenon DEF IncrementsAck
  <2>2. value = 1
    BY <1>5
  <2> HIDE DEF value
  <2>3. value # 0
    BY <2>2
  <2>4. WithFlag(reg.p, "Z", value = 0) = WithFlag(reg.p, "Z", FALSE)
    BY <2>3, Zenon DEF WithFlag
  <2> QED
    BY <1>3, <2>1, <2>2, <2>4, Zenon
<1>7. /\ reg' \in RegisterSets
      /\ reg'.a = reg.a /\ reg'.x = reg.x /\ reg'.y = reg.y /\ reg'.s = reg.s
      /\ SameFlagsBut({"Z"})
  <2>1. reg \in RegisterSets
    BY DEF At, Types
  <2>2. reg'.p = reg.p \ {"Z"} /\ reg' \in RegisterSets
    BY <1>6, <2>1 DEF RegisterSets, WithFlag, Flags
  <2> QED
    BY <1>6, <2>1, <2>2 DEF RegisterSets, SameFlagsBut
<1>8. Types' /\ StoredAt(2, 1)
  BY <1>1, <1>3, <1>6, <1>7, StoreKeepsTypes DEF At
<1> QED
  BY <1>1, <1>6, <1>7, <1>8, AtIs

LEMMA AtIncrementsX ==
  ASSUME NEW l, NEW i, At(l, i), Code[l][i] = Op("inx"), reg.x < 255
  PROVE  /\ Step /\ Types' /\ Onward(l, i) /\ SameMemory
         /\ reg'.a = reg.a /\ reg'.x = reg.x + 1 /\ reg'.y = reg.y /\ reg'.s = reg.s
         /\ SameFlagsBut({"Z"})
<1>1. Instruction = <<"inx">> /\ Step
  BY AtIs DEF Op
<1>2. IncrementsX
  <2>1. Instruction[1] = "inx"
    BY <1>1
  <2> QED
    BY <2>1, WhichAction DEF At
<1>3. reg \in RegisterSets
  BY DEF At, Types
<1>4. /\ Advance /\ data' = data
      /\ reg' = [reg EXCEPT !.x = reg.x + 1, !.p = reg.p \ {"Z"}]
  <2>1. (reg.x + 1) % 256 = reg.x + 1 /\ reg.x # 255
    BY <1>3 DEF RegisterSets, Bytes
  <2> QED
    BY <1>2, <1>3, <2>1 DEF IncrementsX, WithFlag, RegisterSets
<1>5. /\ reg' \in RegisterSets
      /\ reg'.a = reg.a /\ reg'.x = reg.x + 1 /\ reg'.y = reg.y /\ reg'.s = reg.s
      /\ SameFlagsBut({"Z"})
  <2>1. reg.x + 1 \in Bytes
    BY <1>3 DEF RegisterSets, Bytes
  <2>2. reg' \in RegisterSets
    BY <1>3, <1>4, <2>1 DEF RegisterSets
  <2> QED
    BY <1>3, <1>4, <2>2 DEF RegisterSets, SameFlagsBut
<1> QED
  BY <1>1, <1>4, <1>5, DataKept, AtIs DEF At

LEMMA AtBranch ==
  ASSUME NEW l, NEW i, At(l, i), NEW f, NEW set, NEW to, Code[l][i] = If(f, set, to)
  PROVE  /\ Step /\ Types' /\ SameMemory /\ reg' = reg
         /\ IF (f \in reg.p) = set THEN pc' = <<to, 1>> ELSE Onward(l, i)
<1>1. Instruction = <<"br", f, set, to>> /\ Step
  BY AtIs DEF If
<1>2. Branches
  <2>1. Instruction[1] = "br"
    BY <1>1
  <2> QED
    BY <2>1, WhichAction DEF At
<1>3. reg' = reg /\ data' = data
  BY <1>2 DEF Branches
<1>4. IF (f \in reg.p) = set THEN pc' = <<to, 1>> ELSE Onward(l, i)
  <2>1. Instruction[2] = f /\ Instruction[3] = set /\ Instruction[4] = to
    BY <1>1
  <2> QED
    BY <1>2, <2>1, AtIs, Zenon DEF Branches, Goto
<1> QED
  BY <1>1, <1>3, <1>4, DataKept DEF At, Types

LEMMA AtBranchIf ==
  ASSUME NEW l, NEW i, At(l, i), NEW f, NEW to, Code[l][i] = If(f, TRUE, to)
  PROVE  /\ Step /\ Types' /\ SameMemory /\ reg' = reg
         /\ f \in reg.p => pc' = <<to, 1>>
         /\ f \notin reg.p => Onward(l, i)
<1>1. /\ Step /\ Types' /\ SameMemory /\ reg' = reg
      /\ IF (f \in reg.p) = TRUE THEN pc' = <<to, 1>> ELSE Onward(l, i)
  BY AtBranch, Zenon
<1> QED
  BY <1>1, Zenon

LEMMA AtBranchUnless ==
  ASSUME NEW l, NEW i, At(l, i), NEW f, NEW to, Code[l][i] = If(f, FALSE, to)
  PROVE  /\ Step /\ Types' /\ SameMemory /\ reg' = reg
         /\ f \notin reg.p => pc' = <<to, 1>>
         /\ f \in reg.p => Onward(l, i)
<1>1. /\ Step /\ Types' /\ SameMemory /\ reg' = reg
      /\ IF (f \in reg.p) = FALSE THEN pc' = <<to, 1>> ELSE Onward(l, i)
  BY AtBranch, Zenon
<1>2. CASE f \in reg.p
  <2>1. ~((f \in reg.p) = FALSE)
    BY <1>2
  <2> QED
    BY <1>1, <1>2, <2>1, Zenon
<1>3. CASE f \notin reg.p
  <2>1. (f \in reg.p) = FALSE
    BY <1>3
  <2> QED
    BY <1>1, <1>3, <2>1, Zenon
<1> QED
  BY <1>2, <1>3

LEMMA AtJump ==
  ASSUME NEW l, NEW i, At(l, i), NEW to, Code[l][i] = <<"jmp", to>>
  PROVE  Step /\ Types' /\ SameMemory /\ reg' = reg /\ pc' = <<to, 1>>
<1>1. Instruction = <<"jmp", to>> /\ Step
  BY AtIs
<1>2. Jumps
  <2>1. Instruction[1] = "jmp"
    BY <1>1
  <2> QED
    BY <2>1, WhichAction DEF At
<1>3. reg' = reg /\ data' = data /\ pc' = <<to, 1>>
  <2>1. Instruction[2] = to
    BY <1>1
  <2> QED
    BY <1>2, <2>1, Zenon DEF Jumps, Goto
<1> QED
  BY <1>1, <1>3, DataKept DEF At, Types

(* Pushing, and what a pull finds, on the stack of a call.                 *)
OnStack(n) == reg.s = Below(Base, n)

LEMMA PlacesAre ==
  ASSUME Types, Was \in Arguments \/ Was.s \in StackPointers
  PROVE  /\ Base \in Bytes
         /\ \A n \in 0 .. 3 : Place(n) \in StackOffsets
         /\ \A m, n \in 0 .. 3 : m # n => Place(m) # Place(n)
<1>1. Base \in Bytes
  BY KernalCodeAssumption DEF Base, Bytes
<1>2. \A n \in 0 .. 3 : Place(n) \in StackOffsets
  BY StackOffsetsAre DEF Place, Base
<1>3. ASSUME NEW m \in 0 .. 3, NEW n \in 0 .. 3, m # n
      PROVE  Place(m) # Place(n)
  <2>1. Below(Base, m) \in Nat /\ Below(Base, n) \in Nat
    <3>1. Below(Base, m) \in Bytes /\ Below(Base, n) \in Bytes
      BY <1>1, BelowAre
    <3> QED
      BY <3>1 DEF Bytes
  <2>2. Below(Base, m) # Below(Base, n)
    BY <1>1, <1>3, BelowDiffers
  <2> QED
    BY <2>1, <2>2 DEF Place
<1> QED
  BY <1>1, <1>2, <1>3

Placed(n, v) ==
  /\ Stack'[Place(n)] = v
  /\ \A o \in StackOffsets : o # Place(n) => Stack'[o] = Stack[o]
  /\ Regs' = Regs

LEMMA AtPush ==
  ASSUME NEW l, NEW i, At(l, i), NEW op \in {"pha", "php"}, Code[l][i] = Op(op),
         Was \in Arguments \/ Was.s \in StackPointers,
         NEW n \in 0 .. 3, OnStack(n)
  PROVE  /\ Step /\ Types' /\ Onward(l, i)
         /\ Placed(n, IF op = "pha" THEN reg.a ELSE Byte(reg.p))
         /\ reg'.a = reg.a /\ reg'.x = reg.x /\ reg'.y = reg.y /\ reg'.p = reg.p
         /\ reg'.s = Below(Base, n + 1)
<1> DEFINE v == IF op = "pha" THEN reg.a ELSE Byte(reg.p)
           stored == Store(ranges, data, Place(n), v)
<1>1. Instruction = <<op>> /\ Step /\ machine \in Machines
  BY AtIs DEF Op
<1>2. Pushes
  <2>1. Instruction[1] \in {"pha", "php"}
    BY <1>1
  <2> QED
    BY <2>1, WhichAction DEF At
<1>3. Types /\ reg \in RegisterSets
  BY DEF At, Types
<1>4. Advance /\ data' = stored /\ reg' = [reg EXCEPT !.s = Below(reg.s, 1)]
  <2>1. Instruction[1] = op
    BY <1>1
  <2> QED
    BY <1>2, <2>1, Zenon DEF Pushes, Push, Place, OnStack
<1>5. v \in Bytes
  BY <1>3, FlagsOfByte DEF RegisterSets
<1>6. Base \in Bytes /\ Place(n) \in StackOffsets
  BY <1>3, PlacesAre
<1>7. Below(reg.s, 1) = Below(Base, n + 1) /\ Below(reg.s, 1) \in Bytes
  <2>1. Below(reg.s, 1) = Below(Base, n + 1)
    BY <1>6, BelowBelow DEF OnStack
  <2> QED
    BY <1>3, <2>1, BelowAre DEF RegisterSets
<1>8. Memory(stored) /\ stored[2] = Regs /\ stored[RAMIndex] = [Stack EXCEPT ![Place(n)] = v]
  <2> HIDE DEF v
  <2>1. /\ Memory(data) /\ machine \in Machines /\ data[2] = Regs /\ data[RAMIndex] = Stack
    BY <1>3, MemoryTyped
  <2>2. /\ Memory(stored) /\ stored[2] = data[2]
        /\ stored[RAMIndex] = [data[RAMIndex] EXCEPT ![Place(n)] = v]
    BY <1>5, <1>6, <2>1, StoreStack
  <2> HIDE DEF stored
  <2> QED
    BY <2>1, <2>2
<1> HIDE DEF stored, v
<1>9. Memory(data') /\ Regs' = Regs /\ Stack' = [Stack EXCEPT ![Place(n)] = v] /\ Memory(data)'
  <2>1. RAMIndex' = RAMIndex
    BY <1>1, SameRAM
  <2>2. data'[2] = Regs /\ data'[RAMIndex'] = [Stack EXCEPT ![Place(n)] = v] /\ Memory(data')
    BY <1>4, <1>8, <2>1
  <2> QED
    BY <1>1, <2>2, SameRAM DEF Regs, Stack
<1>10. /\ reg' \in RegisterSets
       /\ reg'.a = reg.a /\ reg'.x = reg.x /\ reg'.y = reg.y /\ reg'.p = reg.p
       /\ reg'.s = Below(Base, n + 1)
  BY <1>3, <1>4, <1>7 DEF RegisterSets
<1>11. Types'
  BY <1>1, <1>3, <1>9, <1>10, TypesKept
<1>12. Placed(n, v)
  BY <1>3, <1>6, <1>9, MemoryTyped DEF Placed
<1> QED
  BY <1>1, <1>4, <1>10, <1>11, <1>12, AtIs DEF v

LEMMA PulledIs ==
  ASSUME Types, Was \in Arguments \/ Was.s \in StackPointers,
         NEW m \in 0 .. 4, NEW n \in 0 .. 3, n > 0, n <= m, OnStack(m)
  PROVE  Pulled(n) = Stack[Place(m - n)] /\ Pulled(n) \in Bytes
<1>1. Base \in Bytes /\ m - n \in 0 .. 3 /\ Place(m - n) \in StackOffsets
  BY PlacesAre
<1>2. Above(reg.s, n) = Below(Base, m - n)
  BY <1>1, AboveBelow DEF OnStack
<1>3. Pulled(n) = Load(ranges, data, Place(m - n))
  BY <1>2 DEF Pulled, Place
<1>4. Load(ranges, data, Place(m - n)) = data[RAMIndex][Place(m - n)]
  <2>1. Place(m - n) \in StackPage /\ machine \in Machines
    BY <1>1, StackOffsetsAre, MemoryTyped
  <2> QED
    BY <2>1, StackServes
<1> QED
  BY <1>1, <1>3, <1>4, MemoryTyped

LEMMA AboveIt ==
  ASSUME Types, Was \in Arguments \/ Was.s \in StackPointers,
         NEW m \in 0 .. 4, NEW n \in 0 .. 4, n <= m, OnStack(m)
  PROVE  Above(reg.s, n) = Below(Base, m - n) /\ Above(reg.s, n) \in Bytes
<1>1. Base \in Bytes /\ m - n \in 0 .. 4
  BY PlacesAre
<1>2. Above(reg.s, n) = Below(Base, m - n)
  BY <1>1, AboveBelow DEF OnStack
<1> QED
  BY <1>1, <1>2, BelowAre

LEMMA AtPullA ==
  ASSUME NEW l, NEW i, At(l, i), Code[l][i] = Op("pla"),
         Was \in Arguments \/ Was.s \in StackPointers,
         NEW m \in 1 .. 4, OnStack(m)
  PROVE  /\ Step /\ Types' /\ Onward(l, i) /\ SameMemory
         /\ reg'.a = Stack[Place(m - 1)] /\ reg'.x = reg.x /\ reg'.y = reg.y
         /\ SameFlagsBut({"Z"})
         /\ reg'.s = Below(Base, m - 1)
<1>1. Instruction = <<"pla">> /\ Step
  BY AtIs DEF Op
<1>2. PullsA
  <2>1. Instruction[1] = "pla"
    BY <1>1
  <2> QED
    BY <2>1, WhichAction DEF At
<1>3. Types /\ reg \in RegisterSets
  BY DEF At, Types
<1>4. /\ Pulled(1) = Stack[Place(m - 1)] /\ Pulled(1) \in Bytes
      /\ Above(reg.s, 1) = Below(Base, m - 1) /\ Above(reg.s, 1) \in Bytes
  BY <1>3, PulledIs, AboveIt
<1> DEFINE v == Stack[Place(m - 1)]
           s == Below(Base, m - 1)
<1>5. /\ Advance /\ data' = data
      /\ reg' = [reg EXCEPT !.a = v, !.s = s, !.p = WithFlag(@, "Z", v = 0)]
  BY <1>2, <1>4, Zenon DEF PullsA
<1>6. v \in Bytes /\ s \in Bytes
  BY <1>4
<1> HIDE DEF v, s
<1>7. /\ reg'.a = v /\ reg'.x = reg.x /\ reg'.y = reg.y /\ reg'.s = s
      /\ reg'.p = WithFlag(reg.p, "Z", v = 0)
  BY <1>3, <1>5, <1>6 DEF RegisterSets
<1>8. reg' \in RegisterSets
  BY <1>3, <1>5, <1>6 DEF RegisterSets, WithFlag, Flags
<1>9. SameFlagsBut({"Z"})
  BY <1>7 DEF SameFlagsBut, WithFlag
<1> QED
  BY <1>1, <1>3, <1>5, <1>7, <1>8, <1>9, DataKept, AtIs DEF v, s

LEMMA AtPullP ==
  ASSUME NEW l, NEW i, At(l, i), Code[l][i] = Op("plp"),
         Was \in Arguments \/ Was.s \in StackPointers,
         NEW m \in 1 .. 4, OnStack(m), NEW p \in SUBSET Flags, Stack[Place(m - 1)] = Byte(p)
  PROVE  /\ Step /\ Types' /\ Onward(l, i) /\ SameMemory
         /\ reg'.a = reg.a /\ reg'.x = reg.x /\ reg'.y = reg.y /\ reg'.p = p
         /\ reg'.s = Below(Base, m - 1)
<1>1. Instruction = <<"plp">> /\ Step
  BY AtIs DEF Op
<1>2. PullsP
  <2>1. Instruction[1] = "plp"
    BY <1>1
  <2> QED
    BY <2>1, WhichAction DEF At
<1>3. Types /\ reg \in RegisterSets
  BY DEF At, Types
<1>4. /\ FlagsOf(Pulled(1)) = p
      /\ Above(reg.s, 1) = Below(Base, m - 1) /\ Above(reg.s, 1) \in Bytes
  BY <1>3, PulledIs, AboveIt, FlagsOfByte
<1> DEFINE s == Below(Base, m - 1)
<1>5. /\ Advance /\ data' = data
      /\ reg' = [reg EXCEPT !.p = p, !.s = s]
  BY <1>2, <1>4, Zenon DEF PullsP
<1>6. s \in Bytes
  BY <1>4
<1> HIDE DEF s
<1>7. /\ reg'.a = reg.a /\ reg'.x = reg.x /\ reg'.y = reg.y /\ reg'.s = s /\ reg'.p = p
      /\ reg' \in RegisterSets
  BY <1>3, <1>5, <1>6 DEF RegisterSets
<1> QED
  BY <1>1, <1>3, <1>5, <1>7, DataKept, AtIs DEF s

LEMMA AtClear ==
  ASSUME NEW l, NEW i, At(l, i), NEW f, NEW op, (op = "clc" /\ f = "C") \/ (op = "cld" /\ f = "D"),
         Code[l][i] = Op(op)
  PROVE  /\ Step /\ Types' /\ Onward(l, i) /\ SameMemory
         /\ reg'.a = reg.a /\ reg'.x = reg.x /\ reg'.y = reg.y /\ reg'.s = reg.s
         /\ SameFlagsBut({f}) /\ f \notin reg'.p
<1>1. Instruction = <<op>> /\ Step
  BY AtIs DEF Op
<1>2. Instruction[1] = op /\ ((op = "clc" /\ f = "C") \/ (op = "cld" /\ f = "D"))
  BY <1>1
<1>3. ClearsFlag
  BY <1>2, WhichAction DEF At
<1>4. Types /\ reg \in RegisterSets
  BY DEF At, Types
<1>5. Advance /\ data' = data /\ reg' = [reg EXCEPT !.p = @ \ {f}]
  BY <1>2, <1>3 DEF ClearsFlag, Executes
<1>6. /\ reg'.a = reg.a /\ reg'.x = reg.x /\ reg'.y = reg.y /\ reg'.s = reg.s
      /\ reg'.p = reg.p \ {f} /\ reg' \in RegisterSets
  BY <1>4, <1>5 DEF RegisterSets
<1>7. SameFlagsBut({f}) /\ f \notin reg'.p
  BY <1>6 DEF SameFlagsBut
<1> QED
  BY <1>1, <1>4, <1>5, <1>6, <1>7, DataKept, AtIs

LEMMA AtClearCarry ==
  ASSUME NEW l, NEW i, At(l, i), Code[l][i] = Op("clc")
  PROVE  /\ Step /\ Types' /\ Onward(l, i) /\ SameMemory
         /\ reg'.a = reg.a /\ reg'.x = reg.x /\ reg'.y = reg.y /\ reg'.s = reg.s
         /\ SameFlagsBut({"C"}) /\ "C" \notin reg'.p
BY AtClear

LEMMA AtClearDecimal ==
  ASSUME NEW l, NEW i, At(l, i), Code[l][i] = Op("cld")
  PROVE  /\ Step /\ Types' /\ Onward(l, i) /\ SameMemory
         /\ reg'.a = reg.a /\ reg'.x = reg.x /\ reg'.y = reg.y /\ reg'.s = reg.s
         /\ SameFlagsBut({"D"}) /\ "D" \notin reg'.p
BY AtClear

LEMMA AtReturn ==
  ASSUME NEW l, NEW i, At(l, i), Code[l][i] = Op("rts"), Was \in Arguments,
         entry.routine # "reset", OnStack(2)
  PROVE  /\ Step /\ Types' /\ SameMemory
         /\ reg'.a = reg.a /\ reg'.x = reg.x /\ reg'.y = reg.y /\ reg'.p = reg.p
         /\ reg'.s = Was.s
         /\ pc' = <<"app", Next16(Stack[Place(1)] + 256 * Stack[Place(0)])>>
<1>1. Instruction = <<"rts">> /\ Step
  BY AtIs DEF Op
<1>2. Returns
  <2>1. Instruction[1] = "rts"
    BY <1>1
  <2> QED
    BY <2>1, WhichAction DEF At
<1>3. Types /\ reg \in RegisterSets
  BY DEF At, Types
<1>4. Pulled(1) = Stack[Place(1)] /\ Pulled(2) = Stack[Place(0)] /\ Above(reg.s, 2) = Was.s
  <2>1. Pulled(1) = Stack[Place(2 - 1)] /\ Pulled(2) = Stack[Place(2 - 2)]
        /\ Above(reg.s, 2) = Below(Base, 2 - 2)
    BY <1>3, PulledIs, AboveIt
  <2>2. Base = Was.s /\ Base \in Bytes
    BY <1>3, PlacesAre DEF Base
  <2>3. 2 - 1 = 1 /\ 2 - 2 = 0
    OBVIOUS
  <2> QED
    BY <2>1, <2>2, <2>3, BelowAre
<1>5. Was.s \in Bytes
  BY KernalCodeAssumption DEF Bytes
<1>6. /\ pc' = <<"app", Next16(Stack[Place(1)] + 256 * Stack[Place(0)])>>
      /\ data' = data /\ reg' = [reg EXCEPT !.s = Was.s]
  <2>1. 1 + 1 = 2
    OBVIOUS
  <2> QED
    BY <1>2, <1>4, <2>1, Zenon DEF Returns, PulledAddress
<1>7. /\ reg'.a = reg.a /\ reg'.x = reg.x /\ reg'.y = reg.y /\ reg'.s = Was.s /\ reg'.p = reg.p
      /\ reg' \in RegisterSets
  BY <1>3, <1>5, <1>6 DEF RegisterSets
<1> QED
  BY <1>1, <1>3, <1>6, <1>7, DataKept

LEMMA AtReturnFromInterrupt ==
  ASSUME NEW l, NEW i, At(l, i), Code[l][i] = Op("rti"), Was \in Arguments,
         entry.routine # "reset", OnStack(3), NEW p \in SUBSET Flags, Stack[Place(2)] = Byte(p)
  PROVE  /\ Step /\ Types' /\ SameMemory
         /\ reg'.a = reg.a /\ reg'.x = reg.x /\ reg'.y = reg.y /\ reg'.p = p
         /\ reg'.s = Was.s
         /\ pc' = <<"app", Stack[Place(1)] + 256 * Stack[Place(0)]>>
<1>1. Instruction = <<"rti">> /\ Step
  BY AtIs DEF Op
<1>2. ReturnsFromInterrupt
  <2>1. Instruction[1] = "rti"
    BY <1>1
  <2> QED
    BY <2>1, WhichAction DEF At
<1>3. Types /\ reg \in RegisterSets
  BY DEF At, Types
<1>4. /\ Pulled(1) = Stack[Place(2)] /\ Pulled(2) = Stack[Place(1)] /\ Pulled(3) = Stack[Place(0)]
      /\ Above(reg.s, 3) = Was.s
  <2>1. /\ Pulled(1) = Stack[Place(3 - 1)] /\ Pulled(2) = Stack[Place(3 - 2)]
        /\ Pulled(3) = Stack[Place(3 - 3)] /\ Above(reg.s, 3) = Below(Base, 3 - 3)
    BY <1>3, PulledIs, AboveIt
  <2>2. Base = Was.s /\ Base \in Bytes
    BY <1>3, PlacesAre DEF Base
  <2>3. 3 - 1 = 2 /\ 3 - 2 = 1 /\ 3 - 3 = 0
    OBVIOUS
  <2> QED
    BY <2>1, <2>2, <2>3, BelowAre
<1>5. Was.s \in Bytes /\ FlagsOf(Pulled(1)) = p
  BY <1>4, KernalCodeAssumption, FlagsOfByte DEF Bytes
<1>6. /\ pc' = <<"app", Stack[Place(1)] + 256 * Stack[Place(0)]>>
      /\ data' = data /\ reg' = [reg EXCEPT !.p = p, !.s = Was.s]
  <2>1. 2 + 1 = 3
    OBVIOUS
  <2> QED
    BY <1>2, <1>4, <1>5, <2>1, Zenon DEF ReturnsFromInterrupt, PulledAddress
<1>7. /\ reg'.a = reg.a /\ reg'.x = reg.x /\ reg'.y = reg.y /\ reg'.s = Was.s /\ reg'.p = p
      /\ reg' \in RegisterSets
  BY <1>3, <1>5, <1>6 DEF RegisterSets
<1> QED
  BY <1>1, <1>3, <1>6, <1>7, DataKept

(* Loads and comparisons by where the operand is.                          *)
LEMMA AtLoadImmediate ==
  ASSUME NEW l, NEW i, At(l, i), NEW r \in {"a", "x", "y"}, NEW n \in Bytes,
         Code[l][i] = Ld(r, "imm", n)
  PROVE  Step /\ Types' /\ Onward(l, i) /\ Loaded(r, n)
<1>1. Operand = n
  BY OperandIs DEF Ld
<1> QED
  BY <1>1, AtLoad

LEMMA AtLoadRegister ==
  ASSUME NEW l, NEW i, At(l, i), NEW r \in {"a", "x", "y"}, NEW o \in RegOffsets,
         Code[l][i] = Ld(r, "abs", RegistersStart + o)
  PROVE  Step /\ Types' /\ Onward(l, i) /\ Loaded(r, Regs[o])
<1>1. Operand = Regs[o] /\ Regs[o] \in Bytes
  BY OperandIs DEF Ld
<1> QED
  BY <1>1, AtLoad

LEMMA TableIs ==
  /\ control_chars = <<10, 13, 12, 147>>
  /\ Len(control_chars) = 4
  /\ \A n \in 1 .. 4 : control_chars[n] \in Bytes
BY DEF control_chars, CR, Bytes

LEMMA AtLoadTable ==
  ASSUME NEW l, NEW i, At(l, i), NEW column \in {1, 2}, column + reg.x \in 1 .. 4,
         Code[l][i] = Ld("a", "table", column)
  PROVE  Step /\ Types' /\ Onward(l, i) /\ Loaded("a", control_chars[column + reg.x])
<1>1. Operand = control_chars[column + reg.x] /\ control_chars[column + reg.x] \in Bytes
  BY OperandIs, TableIs DEF Ld
<1> QED
  BY <1>1, AtLoad

LEMMA AtCompareImmediate ==
  ASSUME NEW l, NEW i, At(l, i), NEW r \in {"a", "x", "y"}, NEW n, Code[l][i] = Cp(r, "imm", n)
  PROVE  Step /\ Types' /\ Onward(l, i) /\ Compared(reg[r], n)
<1>1. Operand = n
  BY OperandIs DEF Cp
<1> QED
  BY <1>1, AtCompare

LEMMA AtCompareRegister ==
  ASSUME NEW l, NEW i, At(l, i), NEW r \in {"a", "x", "y"}, NEW o \in RegOffsets,
         Code[l][i] = Cp(r, "abs", RegistersStart + o)
  PROVE  Step /\ Types' /\ Onward(l, i) /\ Compared(reg[r], Regs[o])
<1>1. Operand = Regs[o]
  BY OperandIs DEF Cp
<1> QED
  BY <1>1, AtCompare

LEMMA AtCompareTable ==
  ASSUME NEW l, NEW i, At(l, i), NEW r \in {"a", "x", "y"}, NEW column,
         Code[l][i] = Cp(r, "table", column)
  PROVE  Step /\ Types' /\ Onward(l, i) /\ Compared(reg[r], control_chars[column + reg.x])
<1>1. Operand = control_chars[column + reg.x]
  BY OperandIs DEF Cp
<1> QED
  BY <1>1, AtCompare

LEMMA NumbersAre ==
  0 \in Bytes /\ 1 \in Bytes /\ 2 \in Bytes /\ 3 \in Bytes
BY DEF Bytes

LEMMA AtJumpToBasic ==
  ASSUME NEW l, NEW i, At(l, i), Code[l][i] = Op("jmp_BASICE")
  PROVE  /\ Step /\ Types' /\ SameMemory /\ reg' = reg
         /\ pc' = <<"app", Regs[3] + 256 * Regs[4]>>
<1>1. Instruction = <<"jmp_BASICE">> /\ Step
  BY AtIs DEF Op
<1>2. JumpsToBasic
  <2>1. Instruction[1] = "jmp_BASICE"
    BY <1>1
  <2> QED
    BY <2>1, WhichAction DEF At
<1>3. Load(ranges, data, Address(3)) = Regs[3] /\ Load(ranges, data, Address(4)) = Regs[4]
  <2>1. machine \in Machines /\ data[2] = Regs /\ 3 \in Bytes /\ 4 \in Bytes
    BY MemoryTyped DEF At, Bytes
  <2> QED
    BY <2>1, RegistersServe DEF Address
<1>4. reg' = reg /\ data' = data /\ pc' = <<"app", Regs[3] + 256 * Regs[4]>>
  BY <1>2, <1>3, Zenon DEF JumpsToBasic
<1> QED
  BY <1>1, <1>4, DataKept DEF At, Types

-----------------------------------------------------------------------------
(* What a call keeps from one instruction to the next.                     *)

LEMMA EntryKept ==
  ASSUME Step
  PROVE  /\ Was' = Was /\ Had' = Had /\ Base' = Base /\ Output' = Output
         /\ Dropping' <=> Dropping
         /\ \A n : Place(n)' = Place(n)
<1>1. Was' = Was /\ Had' = Had /\ Base' = Base
  BY DEF Step, Was, Had, Base
<1> QED
  BY <1>1 DEF Output, Dropping, Place

LEMMA CallKept ==
  ASSUME Types, Pushed, Untouched, Step, Types',
         \A o \in StackOffsets : o \notin {Place(2), Place(3)} => Stack'[o] = Stack[o],
         entry.routine = "IRQ_service_routine" => Stack'[Place(2)] = Stack[Place(2)]
  PROVE  Pushed' /\ Untouched'
<1>1. /\ entry' = entry /\ calls' = calls /\ machine' = machine /\ RAMIndex' = RAMIndex
      /\ ReturnAddress' = ReturnAddress
  BY DEF Step, ReturnAddress, RAMIndex
<1>2. Base' = Base /\ Was' = Was /\ Had' = Had /\ \A n : Place(n)' = Place(n)
  BY <1>1 DEF Base, Place, Was, Had
<1>3. /\ \A n \in 0 .. 3 : Place(n) \in StackOffsets
      /\ Place(0) # Place(2) /\ Place(0) # Place(3) /\ Place(1) # Place(2) /\ Place(1) # Place(3)
  BY PlacesAre DEF Pushed
<1>4. Stack'[Place(0)] = Stack[Place(0)] /\ Stack'[Place(1)] = Stack[Place(1)]
  BY <1>3
<1>5. Memory(entry.data)'
  BY <1>1, SameRAM DEF Pushed
<1>6. Pushed'
  BY <1>1, <1>2, <1>4, <1>5 DEF Pushed
<1>7. \A o \in 3 .. 10 : Regs'[o] = Regs[o]
  BY <1>1 DEF Types
<1>8. ASSUME NEW o \in StackOffsets, o \notin {Place(n) : n \in 0 .. 3}
      PROVE  Stack'[o] = entry.data[RAMIndex][o]
  <2>1. o \notin {Place(2), Place(3)}
    BY <1>8
  <2> QED
    BY <1>8, <2>1 DEF Untouched
<1>9. Untouched'
  BY <1>1, <1>2, <1>7, <1>8 DEF Untouched
<1> QED
  BY <1>6, <1>9

(* The rest of a call's state, looked at where it goes on.                 *)
Details(l, i) == PortsAt(l, i) /\ FetchedAt(l, i) /\ PrintedAt(l, i) /\ ValuesAt(l, i)

SamePlace(l, i, m, j) == RoutineOf(m) = RoutineOf(l) /\ Depth(m, j) = Depth(l, i)

LEMMA InIs ==
  ASSUME NEW l, NEW i, In(l, i)
  PROVE  /\ pc = <<l, i>> /\ Types /\ Details(l, i)
         /\ entry.routine = RoutineOf(l) /\ Was \in Arguments
         /\ reg.s = Below(Base, Depth(l, i)) /\ OnStack(Depth(l, i))
BY DEF In, InCall, Pushed, Details, OnStack

LEMMA Arrives ==
  ASSUME NEW l, NEW i, In(l, i), Step, Types', NEW m, NEW j, pc' = <<m, j>>,
         RoutineOf(m) = RoutineOf(l), reg'.s = Below(Base, Depth(m, j)),
         \A o \in StackOffsets : o \notin {Place(2), Place(3)} => Stack'[o] = Stack[o],
         RoutineOf(l) # "IRQ_service_routine",
         Details(m, j)'
  PROVE  In(m, j)'
<1>1. entry.routine # "IRQ_service_routine"
  BY InIs
<1>2. Pushed' /\ Untouched'
  BY <1>1, CallKept DEF In, InCall
<1>3. entry' = entry /\ Base' = Base
  BY DEF Step, Base, Was
<1>4. InCall(m, j)'
  BY <1>2, <1>3 DEF In, InCall, Details
<1> QED
  BY <1>4 DEF In, Details

LEMMA ArrivesSame ==
  ASSUME NEW l, NEW i, In(l, i), Step, Types', NEW m, NEW j, pc' = <<m, j>>,
         SamePlace(l, i, m, j), reg'.s = reg.s, Stack' = Stack,
         RoutineOf(l) # "IRQ_service_routine", Details(m, j)'
  PROVE  In(m, j)'
BY Arrives DEF SamePlace, In, InCall

-----------------------------------------------------------------------------
(* The code as it is laid out. *)

LEMMA ConcatFiveTwo ==
  ASSUME NEW a, NEW b, NEW c, NEW d, NEW e, NEW f, NEW g
  PROVE  <<a, b, c, d, e>> \o <<f, g>> = <<a, b, c, d, e, f, g>>
<1>1. Len(<<a, b, c, d, e>> \o <<f, g>>) = 7
  OBVIOUS
<1>2. <<a, b, c, d, e>> \o <<f, g>> \in Seq({a, b, c, d, e, f, g})
  OBVIOUS
<1>3. <<a, b, c, d, e, f, g>> \in Seq({a, b, c, d, e, f, g})
  OBVIOUS
<1>4. \A i \in 1 .. 7 : (<<a, b, c, d, e>> \o <<f, g>>)[i] = <<a, b, c, d, e, f, g>>[i]
  OBVIOUS
<1> QED
  BY <1>1, <1>2, <1>3, <1>4, SeqEqual

LEMMA NotImplementedCode ==
  /\ "not_implemented" \in DOMAIN Code
  /\ Len(Code["not_implemented"]) = 7
  /\ Code["not_implemented"][1] = Op("php")
  /\ Code["not_implemented"][2] = Op("pha")
  /\ Code["not_implemented"][3] = Ld("a", "imm", 3)
  /\ Code["not_implemented"][4] = St("a", RegistersStart + 0)
  /\ Code["not_implemented"][5] = Op("pla")
  /\ Code["not_implemented"][6] = Op("plp")
  /\ Code["not_implemented"][7] = Op("rts")
BY DEF Code, NotImplemented, SelectNotImpl, Select, Address, RegistersStart, RegistersSize

LEMMA ResetCode ==
  /\ "reset" \in DOMAIN Code
  /\ Len(Code["reset"]) = 12
  /\ Code["reset"][1] = Op("cld")
  /\ Code["reset"][2] = Ld("a", "abs", RegistersStart + 9)
  /\ Code["reset"][3] = St("a", RegistersStart + 252)
  /\ Code["reset"][4] = Ld("a", "abs", RegistersStart + 10)
  /\ Code["reset"][5] = St("a", RegistersStart + 253)
  /\ Code["reset"][6] = Ld("a", "abs", RegistersStart + 7)
  /\ Code["reset"][7] = St("a", RegistersStart + 254)
  /\ Code["reset"][8] = Ld("a", "abs", RegistersStart + 8)
  /\ Code["reset"][9] = St("a", RegistersStart + 255)
  /\ Code["reset"][10] = Op("pha")
  /\ Code["reset"][11] = Op("pha")
  /\ Code["reset"][12] = Op("jmp_BASICE")
BY DEF Code, Copy, RAM_BOT_CURRENT, RAM_TOP_CURRENT, Address, RegistersStart, RegistersSize

LEMMA ChrinCode ==
  /\ "chrin" \in DOMAIN Code /\ Falls["chrin"] = "chrin_io_loop"
  /\ Len(Code["chrin"]) = 3
  /\ Code["chrin"][1] = St("x", RegistersStart + 251)
  /\ Code["chrin"][2] = Ld("a", "imm", 1)
  /\ Code["chrin"][3] = St("a", RegistersStart + 0)
BY DEF Code, Falls, VAR0, Select, SelectChrin, Address, RegistersStart, RegistersSize

LEMMA ChrinIoLoopCode ==
  /\ "chrin_io_loop" \in DOMAIN Code /\ Falls["chrin_io_loop"] = "chrin_lookup"
  /\ Len(Code["chrin_io_loop"]) = 4
  /\ Code["chrin_io_loop"][1] = Ld("a", "abs", RegistersStart + 1)
  /\ Code["chrin_io_loop"][2] = If("Z", TRUE, "chrin_io_loop")
  /\ Code["chrin_io_loop"][3] = Op("inc_ACK")
  /\ Code["chrin_io_loop"][4] = Ld("x", "imm", 0)
BY DEF Code, Falls, IO, Address, RegistersStart, RegistersSize

LEMMA ChrinLookupCode ==
  /\ "chrin_lookup" \in DOMAIN Code
  /\ Len(Code["chrin_lookup"]) = 7
  /\ Code["chrin_lookup"][1] = Cp("a", "table", 1)
  /\ Code["chrin_lookup"][2] = If("Z", TRUE, "chrin_translate")
  /\ Code["chrin_lookup"][3] = Op("inx")
  /\ Code["chrin_lookup"][4] = Op("inx")
  /\ Code["chrin_lookup"][5] = Cp("x", "imm", 4)
  /\ Code["chrin_lookup"][6] = If("Z", FALSE, "chrin_lookup")
  /\ Code["chrin_lookup"][7] = <<"jmp", "chrin_return">>
<1> DEFINE a == Cp("a", "table", 1)
           b == If("Z", TRUE, "chrin_translate")
           c == Op("inx")
           d == Cp("x", "imm", 4)
           e == If("Z", FALSE, "chrin_lookup")
           f == <<"jmp", "chrin_return">>
<1>1. "chrin_lookup" \in DOMAIN Code
  BY DEF Code
<1>2. Len(control_chars) = 4
  BY TableIs
<1>3. Code["chrin_lookup"] = <<a, b, c, c, d>> \o <<e, f>>
  BY <1>2 DEF Code, Lookup
<1> HIDE DEF a, b, c, d, e, f
<1>4. Code["chrin_lookup"] = <<a, b, c, c, d, e, f>>
  BY <1>3, ConcatFiveTwo
<1>5. /\ Len(Code["chrin_lookup"]) = 7
      /\ Code["chrin_lookup"][1] = a /\ Code["chrin_lookup"][2] = b
      /\ Code["chrin_lookup"][3] = c /\ Code["chrin_lookup"][4] = c
      /\ Code["chrin_lookup"][5] = d /\ Code["chrin_lookup"][6] = e /\ Code["chrin_lookup"][7] = f
  BY <1>4
<1> QED
  BY <1>1, <1>5 DEF a, b, c, d, e, f

LEMMA ChrinTranslateCode ==
  /\ "chrin_translate" \in DOMAIN Code /\ Falls["chrin_translate"] = "chrin_return"
  /\ Len(Code["chrin_translate"]) = 1
  /\ Code["chrin_translate"][1] = Ld("a", "table", 2)
BY DEF Code, Falls

LEMMA ChrinReturnCode ==
  /\ "chrin_return" \in DOMAIN Code
  /\ Len(Code["chrin_return"]) = 4
  /\ Code["chrin_return"][1] = St("a", RegistersStart + 250)
  /\ Code["chrin_return"][2] = Ld("x", "abs", RegistersStart + 251)
  /\ Code["chrin_return"][3] = Op("clc")
  /\ Code["chrin_return"][4] = Op("rts")
BY DEF Code, ChrinReturn, LAST_CHAR, VAR0, Address, RegistersStart, RegistersSize

LEMMA ChroutCode ==
  /\ "chrout" \in DOMAIN Code
  /\ Len(Code["chrout"]) = 8
  /\ Code["chrout"][1] = Op("pha")
  /\ Code["chrout"][2] = Cp("a", "imm", 13)
  /\ Code["chrout"][3] = If("Z", FALSE, "chrout_start")
  /\ Code["chrout"][4] = Cp("a", "abs", RegistersStart + 250)
  /\ Code["chrout"][5] = If("Z", FALSE, "chrout_start")
  /\ Code["chrout"][6] = Ld("a", "imm", 0)
  /\ Code["chrout"][7] = St("a", RegistersStart + 250)
  /\ Code["chrout"][8] = <<"jmp", "chrout_return">>
BY DEF Code, CR, LAST_CHAR, Address, RegistersStart, RegistersSize

LEMMA ChroutStartCode ==
  /\ "chrout_start" \in DOMAIN Code /\ Falls["chrout_start"] = "chrout_lookup"
  /\ Len(Code["chrout_start"]) = 4
  /\ Code["chrout_start"][1] = St("x", RegistersStart + 251)
  /\ Code["chrout_start"][2] = Ld("x", "imm", 2)
  /\ Code["chrout_start"][3] = St("x", RegistersStart + 0)
  /\ Code["chrout_start"][4] = Ld("x", "imm", 0)
BY DEF Code, Falls, VAR0, Select, SelectChrout, Address, RegistersStart, RegistersSize

LEMMA ChroutLookupCode ==
  /\ "chrout_lookup" \in DOMAIN Code
  /\ Len(Code["chrout_lookup"]) = 7
  /\ Code["chrout_lookup"][1] = Cp("a", "table", 2)
  /\ Code["chrout_lookup"][2] = If("Z", TRUE, "chrout_translate")
  /\ Code["chrout_lookup"][3] = Op("inx")
  /\ Code["chrout_lookup"][4] = Op("inx")
  /\ Code["chrout_lookup"][5] = Cp("x", "imm", 4)
  /\ Code["chrout_lookup"][6] = If("Z", FALSE, "chrout_lookup")
  /\ Code["chrout_lookup"][7] = <<"jmp", "chrout_write">>
<1> DEFINE a == Cp("a", "table", 2)
           b == If("Z", TRUE, "chrout_translate")
           c == Op("inx")
           d == Cp("x", "imm", 4)
           e == If("Z", FALSE, "chrout_lookup")
           f == <<"jmp", "chrout_write">>
<1>1. "chrout_lookup" \in DOMAIN Code
  BY DEF Code
<1>2. Len(control_chars) = 4
  BY TableIs
<1>3. Code["chrout_lookup"] = <<a, b, c, c, d>> \o <<e, f>>
  BY <1>2 DEF Code, Lookup
<1> HIDE DEF a, b, c, d, e, f
<1>4. Code["chrout_lookup"] = <<a, b, c, c, d, e, f>>
  BY <1>3, ConcatFiveTwo
<1>5. /\ Len(Code["chrout_lookup"]) = 7
      /\ Code["chrout_lookup"][1] = a /\ Code["chrout_lookup"][2] = b
      /\ Code["chrout_lookup"][3] = c /\ Code["chrout_lookup"][4] = c
      /\ Code["chrout_lookup"][5] = d /\ Code["chrout_lookup"][6] = e /\ Code["chrout_lookup"][7] = f
  BY <1>4
<1> QED
  BY <1>1, <1>5 DEF a, b, c, d, e, f

LEMMA ChroutTranslateCode ==
  /\ "chrout_translate" \in DOMAIN Code /\ Falls["chrout_translate"] = "chrout_write"
  /\ Len(Code["chrout_translate"]) = 1
  /\ Code["chrout_translate"][1] = Ld("a", "table", 1)
BY DEF Code, Falls

LEMMA ChroutWriteCode ==
  /\ "chrout_write" \in DOMAIN Code /\ Falls["chrout_write"] = "chrout_return"
  /\ Len(Code["chrout_write"]) = 2
  /\ Code["chrout_write"][1] = St("a", RegistersStart + 1)
  /\ Code["chrout_write"][2] = Ld("x", "abs", RegistersStart + 251)
BY DEF Code, Falls, IO, VAR0, Address, RegistersStart, RegistersSize

LEMMA ChroutReturnCode ==
  /\ "chrout_return" \in DOMAIN Code
  /\ Len(Code["chrout_return"]) = 3
  /\ Code["chrout_return"][1] = Op("pla")
  /\ Code["chrout_return"][2] = Op("clc")
  /\ Code["chrout_return"][3] = Op("rts")
BY DEF Code

LEMMA ScreenxyCode ==
  /\ "screenxy" \in DOMAIN Code
  /\ Len(Code["screenxy"]) = 3
  /\ Code["screenxy"][1] = Ld("x", "abs", RegistersStart + 5)
  /\ Code["screenxy"][2] = Ld("y", "abs", RegistersStart + 6)
  /\ Code["screenxy"][3] = Op("rts")
BY DEF Code, Address, RegistersStart, RegistersSize

LEMMA MemtopCode ==
  /\ "memtop" \in DOMAIN Code
  /\ Len(Code["memtop"]) = 4
  /\ Code["memtop"][1] = If("C", FALSE, "settop")
  /\ Code["memtop"][2] = Ld("x", "abs", RegistersStart + 254)
  /\ Code["memtop"][3] = Ld("y", "abs", RegistersStart + 255)
  /\ Code["memtop"][4] = Op("rts")
BY DEF Code, Restore, RAM_TOP_CURRENT, Address, RegistersStart, RegistersSize

LEMMA SettopCode ==
  /\ "settop" \in DOMAIN Code
  /\ Len(Code["settop"]) = 3
  /\ Code["settop"][1] = St("x", RegistersStart + 254)
  /\ Code["settop"][2] = St("y", RegistersStart + 255)
  /\ Code["settop"][3] = Op("rts")
BY DEF Code, SetTop, Save, RAM_TOP_CURRENT, Address, RegistersStart, RegistersSize

LEMMA MembotCode ==
  /\ "membot" \in DOMAIN Code
  /\ Len(Code["membot"]) = 4
  /\ Code["membot"][1] = If("C", FALSE, "setbot")
  /\ Code["membot"][2] = Ld("x", "abs", RegistersStart + 252)
  /\ Code["membot"][3] = Ld("y", "abs", RegistersStart + 253)
  /\ Code["membot"][4] = Op("rts")
BY DEF Code, Restore, RAM_BOT_CURRENT, Address, RegistersStart, RegistersSize

LEMMA SetbotCode ==
  /\ "setbot" \in DOMAIN Code
  /\ Len(Code["setbot"]) = 3
  /\ Code["setbot"][1] = St("x", RegistersStart + 252)
  /\ Code["setbot"][2] = St("y", RegistersStart + 253)
  /\ Code["setbot"][3] = Op("rts")
BY DEF Code, Save, RAM_BOT_CURRENT, Address, RegistersStart, RegistersSize

LEMMA InterruptCode ==
  /\ "IRQ_service_routine" \in DOMAIN Code
  /\ Len(Code["IRQ_service_routine"]) = 1
  /\ Code["IRQ_service_routine"][1] = Op("rti")
BY DEF Code, IRQServiceRoutine

-----------------------------------------------------------------------------
(* From each instruction of a call to the next. *)

Within == \E l \in DOMAIN Code \ {"reset"} : \E i \in 1 .. Len(Code[l]) : In(l, i)

LEMMA WithinIs ==
  ASSUME NEW l \in DOMAIN Code, l # "reset", NEW i \in 1 .. Len(Code[l]), In(l, i)'
  PROVE  Within'
BY DEF Within

LEMMA AtChrin ==
  ASSUME NEW i \in 1 .. 3, In("chrin", i), Kernal
  PROVE  Within'
<1>1. At("chrin", i)
  BY ChrinCode DEF At, In
<1>2. CASE i = 1
  <2>1. /\ Step /\ Types' /\ Onward("chrin", 1)
        /\ Stored(251, reg["x"])
    BY <1>1, <1>2, ChrinCode, RegOffsetsAre, AtStore
  <2>2. pc' = <<"chrin", 2>>
    BY <2>1, ChrinCode DEF Onward
  <2>3. Details("chrin", 2)'
    BY <1>1, <1>2, <2>1, <2>2, EntryKept
       DEF In, InCall, Details, PortsAt, FetchedAt, PrintedAt, ValuesAt, Ports, PortsIdle,
           ChrinLabels, ChroutLabels, Step, SameVars, SameFlags, SameFlagsBut, Flags, RegOffsets,
           Select, IO, Ack, Stored, StoredAt, ChrinAt, Searched, SelectChrin
  <2>4. In("chrin", 2)'
    BY <1>2, <2>1, <2>2, <2>3, ArrivesSame
       DEF SamePlace, RoutineOf, Depth, ChrinLabels, ChroutLabels, Stored, StoredAt
  <2> QED
    BY <2>4, ChrinCode, WithinIs
<1>3. CASE i = 2
  <2>1. /\ Step /\ Types' /\ Onward("chrin", 2)
        /\ Loaded("a", 1)
    BY <1>1, <1>3, ChrinCode, NumbersAre, AtLoadImmediate
  <2>2. pc' = <<"chrin", 3>>
    BY <2>1, ChrinCode DEF Onward
  <2>3. Details("chrin", 3)'
    BY <1>1, <1>3, <2>1, <2>2, EntryKept
       DEF In, InCall, Details, PortsAt, FetchedAt, PrintedAt, ValuesAt, Ports, PortsIdle,
           ChrinLabels, ChroutLabels, Step, SameVars, SameFlags, SameFlagsBut, Flags, RegOffsets,
           Select, IO, Ack, Loaded, SameMemory, ChrinAt, Searched, SelectChrin
  <2>4. In("chrin", 3)'
    BY <1>3, <2>1, <2>2, <2>3, ArrivesSame
       DEF SamePlace, RoutineOf, Depth, ChrinLabels, ChroutLabels, Loaded, SameMemory
  <2> QED
    BY <2>4, ChrinCode, WithinIs
<1>4. CASE i = 3
  <2>1. reg.a = 1
    BY <1>4 DEF In, ValuesAt, ChrinAt, ChrinLabels, ChroutLabels, SelectChrin
  <2>2. fetched = 0
    BY <1>4 DEF In, InCall, FetchedAt
  <2>3. Regs[1] = 0 /\ Regs[2] = 0
    BY <1>4 DEF In, PortsAt, PortsIdle, IO, Ack
  <2>4. /\ Step /\ Types' /\ Onward("chrin", 3)
        /\ Stored(0, reg["a"])
    BY <1>1, <1>4, <2>1, <2>2, <2>3, ChrinCode, RegOffsetsAre, AtStoreSelect
  <2>5. pc' = <<"chrin_io_loop", 1>>
    BY <2>4, ChrinCode DEF Onward
  <2>6. Details("chrin_io_loop", 1)'
    <3>1. PortsAt("chrin_io_loop", 1)'
      BY <1>1, <1>4, <2>1, <2>2, <2>3, <2>4, <2>5, EntryKept
         DEF Details, PortsAt, Ports, PortsIdle, ChrinLabels, ChroutLabels, Step, SameVars, SameFlags,
             SameFlagsBut, Flags, RegOffsets, Select, IO, Ack, Stored, StoredAt, Searched, SelectChrin
    <3>2. FetchedAt("chrin_io_loop", 1)'
      BY <1>1, <1>4, <2>1, <2>2, <2>3, <2>4, <2>5, EntryKept
         DEF In, InCall, Details, PortsAt, FetchedAt, PrintedAt, ValuesAt, Ports, PortsIdle,
             ChrinLabels, ChroutLabels, Step, SameVars, SameFlags, SameFlagsBut, Flags, RegOffsets,
             Select, IO, Ack, Stored, StoredAt, ChrinAt, Searched, SelectChrin
    <3>3. PrintedAt("chrin_io_loop", 1)'
      BY <1>1, <1>4, <2>1, <2>2, <2>3, <2>4, <2>5, EntryKept
         DEF In, InCall, Details, PortsAt, FetchedAt, PrintedAt, ValuesAt, Ports, PortsIdle,
             ChrinLabels, ChroutLabels, Step, SameVars, SameFlags, SameFlagsBut, Flags, RegOffsets,
             Select, IO, Ack, Stored, StoredAt, ChrinAt, Searched, SelectChrin
    <3>4. ValuesAt("chrin_io_loop", 1)'
      BY <1>1, <1>4, <2>1, <2>2, <2>3, <2>4, <2>5, EntryKept
         DEF In, InCall, Details, PortsAt, FetchedAt, PrintedAt, ValuesAt, Ports, PortsIdle,
             ChrinLabels, ChroutLabels, Step, SameVars, SameFlags, SameFlagsBut, Flags, RegOffsets,
             Select, IO, Ack, Stored, StoredAt, ChrinAt, Searched, SelectChrin
    <3> QED
      BY <3>1, <3>2, <3>3, <3>4 DEF Details
  <2>7. In("chrin_io_loop", 1)'
    BY <1>4, <2>4, <2>5, <2>6, ArrivesSame
       DEF SamePlace, RoutineOf, Depth, ChrinLabels, ChroutLabels, Stored, StoredAt
  <2> QED
    BY <2>7, ChrinIoLoopCode, WithinIs
<1> QED
  BY <1>2, <1>3, <1>4

LEMMA AtChrinIoLoop ==
  ASSUME NEW i \in 1 .. 4, In("chrin_io_loop", i), Kernal
  PROVE  Within'
<1>1. At("chrin_io_loop", i)
  BY ChrinIoLoopCode DEF At, In
<1>2. CASE i = 1
  <2>1. /\ Step /\ Types' /\ Onward("chrin_io_loop", 1)
        /\ Loaded("a", Regs[1])
    BY <1>1, <1>2, ChrinIoLoopCode, RegOffsetsAre, AtLoadRegister
  <2>2. pc' = <<"chrin_io_loop", 2>>
    BY <2>1, ChrinIoLoopCode DEF Onward
  <2>3. Details("chrin_io_loop", 2)'
    BY <1>1, <1>2, <2>1, <2>2, EntryKept
       DEF In, InCall, Details, PortsAt, FetchedAt, PrintedAt, ValuesAt, Ports, PortsIdle,
           ChrinLabels, ChroutLabels, Step, SameVars, SameFlags, SameFlagsBut, Flags, RegOffsets,
           Select, IO, Ack, Loaded, SameMemory, ChrinAt, Searched, SelectChrin
  <2>4. In("chrin_io_loop", 2)'
    BY <1>2, <2>1, <2>2, <2>3, ArrivesSame
       DEF SamePlace, RoutineOf, Depth, ChrinLabels, ChroutLabels, Loaded, SameMemory
  <2> QED
    BY <2>4, ChrinIoLoopCode, WithinIs
<1>3. CASE i = 2
  <2>1. Code["chrin_io_loop"][i] = If("Z", TRUE, "chrin_io_loop")
    BY <1>3, ChrinIoLoopCode
  <2>2. /\ Step /\ Types' /\ SameMemory /\ reg' = reg
        /\ "Z" \in reg.p => pc' = <<"chrin_io_loop", 1>>
        /\ "Z" \notin reg.p => Onward("chrin_io_loop", i)
    BY <1>1, <2>1, AtBranchIf, Zenon
  <2>3. "Z" \notin reg.p => pc' = <<"chrin_io_loop", 3>>
    BY <1>3, <2>2, ChrinIoLoopCode DEF Onward
  <2>4. CASE "Z" \in reg.p
    <3>1. Details("chrin_io_loop", 1)'
      BY <1>1, <1>3, <2>2, <2>3, EntryKept, <2>4
         DEF In, InCall, Details, PortsAt, FetchedAt, PrintedAt, ValuesAt, Ports, PortsIdle,
             ChrinLabels, ChroutLabels, Step, SameVars, SameFlags, SameFlagsBut, Flags, RegOffsets,
             Select, IO, Ack, SameMemory, ChrinAt, Searched, SelectChrin
    <3>2. In("chrin_io_loop", 1)'
      BY <1>3, <2>2, <2>3, <2>4, <3>1, ArrivesSame
         DEF SamePlace, RoutineOf, Depth, ChrinLabels, ChroutLabels, SameMemory
    <3> QED
      BY <3>2, ChrinIoLoopCode, WithinIs
  <2>5. CASE "Z" \notin reg.p
    <3>1. Details("chrin_io_loop", 3)'
      BY <1>1, <1>3, <2>2, <2>3, EntryKept, <2>5
         DEF In, InCall, Details, PortsAt, FetchedAt, PrintedAt, ValuesAt, Ports, PortsIdle,
             ChrinLabels, ChroutLabels, Step, SameVars, SameFlags, SameFlagsBut, Flags, RegOffsets,
             Select, IO, Ack, SameMemory, ChrinAt, Searched, SelectChrin
    <3>2. In("chrin_io_loop", 3)'
      BY <1>3, <2>2, <2>3, <2>5, <3>1, ArrivesSame
         DEF SamePlace, RoutineOf, Depth, ChrinLabels, ChroutLabels, SameMemory
    <3> QED
      BY <3>2, ChrinIoLoopCode, WithinIs
  <2> QED
    BY <2>4, <2>5
<1>4. CASE i = 3
  <2>1. Regs[2] = 0
    BY <1>4 DEF In, PortsAt, Ports, Ack
  <2>2. /\ Step /\ Types' /\ Onward("chrin_io_loop", 3)
        /\ StoredAt(2, 1) /\ SameFlagsBut({"Z"}) /\ reg'.s = reg.s
        /\ reg'.a = reg.a /\ reg'.x = reg.x /\ reg'.y = reg.y
    BY <1>1, <1>4, <2>1, ChrinIoLoopCode, AtIncrementsAck
  <2>3. pc' = <<"chrin_io_loop", 4>>
    BY <2>2, ChrinIoLoopCode DEF Onward
  <2>4. Details("chrin_io_loop", 4)'
    BY <1>1, <1>4, <2>1, <2>2, <2>3, EntryKept
       DEF In, InCall, Details, PortsAt, FetchedAt, PrintedAt, ValuesAt, Ports, PortsIdle,
           ChrinLabels, ChroutLabels, Step, SameVars, SameFlags, SameFlagsBut, Flags, RegOffsets,
           Select, IO, Ack, StoredAt, ChrinAt, Searched, SelectChrin
  <2>5. In("chrin_io_loop", 4)'
    BY <1>4, <2>2, <2>3, <2>4, ArrivesSame
       DEF SamePlace, RoutineOf, Depth, ChrinLabels, ChroutLabels, StoredAt
  <2> QED
    BY <2>5, ChrinIoLoopCode, WithinIs
<1>5. CASE i = 4
  <2>1. /\ Step /\ Types' /\ Onward("chrin_io_loop", 4)
        /\ Loaded("x", 0)
    BY <1>1, <1>5, ChrinIoLoopCode, NumbersAre, AtLoadImmediate
  <2>2. pc' = <<"chrin_lookup", 1>>
    BY <2>1, ChrinIoLoopCode DEF Onward
  <2>3. Details("chrin_lookup", 1)'
    BY <1>1, <1>5, <2>1, <2>2, EntryKept
       DEF In, InCall, Details, PortsAt, FetchedAt, PrintedAt, ValuesAt, Ports, PortsIdle,
           ChrinLabels, ChroutLabels, Step, SameVars, SameFlags, SameFlagsBut, Flags, RegOffsets,
           Select, IO, Ack, Loaded, SameMemory, ChrinAt, Searched, SelectChrin
  <2>4. In("chrin_lookup", 1)'
    BY <1>5, <2>1, <2>2, <2>3, ArrivesSame
       DEF SamePlace, RoutineOf, Depth, ChrinLabels, ChroutLabels, Loaded, SameMemory
  <2> QED
    BY <2>4, ChrinLookupCode, WithinIs
<1> QED
  BY <1>2, <1>3, <1>4, <1>5

LEMMA AtChrinLookup ==
  ASSUME NEW i \in 1 .. 7, In("chrin_lookup", i), Kernal
  PROVE  Within'
<1>1. At("chrin_lookup", i)
  BY ChrinLookupCode DEF At, In
<1>2. CASE i = 1
  <2>1. /\ Step /\ Types' /\ Onward("chrin_lookup", 1)
        /\ Compared(reg["a"], control_chars[1 + reg.x])
    BY <1>1, <1>2, ChrinLookupCode, RegOffsetsAre, AtCompareTable
  <2>2. pc' = <<"chrin_lookup", 2>>
    BY <2>1, ChrinLookupCode DEF Onward
  <2>3. Details("chrin_lookup", 2)'
    BY <1>1, <1>2, <2>1, <2>2, EntryKept, TableIs
       DEF In, InCall, Details, PortsAt, FetchedAt, PrintedAt, ValuesAt, Ports, PortsIdle,
           ChrinLabels, ChroutLabels, Step, SameVars, SameFlags, SameFlagsBut, Flags, RegOffsets,
           Select, IO, Ack, Compared, SameMemory, ChrinAt, Searched, SelectChrin
  <2>4. In("chrin_lookup", 2)'
    BY <1>2, <2>1, <2>2, <2>3, ArrivesSame
       DEF SamePlace, RoutineOf, Depth, ChrinLabels, ChroutLabels, Compared, SameMemory
  <2> QED
    BY <2>4, ChrinLookupCode, WithinIs
<1>3. CASE i = 2
  <2>1. Code["chrin_lookup"][i] = If("Z", TRUE, "chrin_translate")
    BY <1>3, ChrinLookupCode
  <2>2. /\ Step /\ Types' /\ SameMemory /\ reg' = reg
        /\ "Z" \in reg.p => pc' = <<"chrin_translate", 1>>
        /\ "Z" \notin reg.p => Onward("chrin_lookup", i)
    BY <1>1, <2>1, AtBranchIf, Zenon
  <2>3. "Z" \notin reg.p => pc' = <<"chrin_lookup", 3>>
    BY <1>3, <2>2, ChrinLookupCode DEF Onward
  <2>4. CASE "Z" \in reg.p
    <3>1. Details("chrin_translate", 1)'
      BY <1>1, <1>3, <2>2, <2>3, EntryKept, <2>4
         DEF In, InCall, Details, PortsAt, FetchedAt, PrintedAt, ValuesAt, Ports, PortsIdle,
             ChrinLabels, ChroutLabels, Step, SameVars, SameFlags, SameFlagsBut, Flags, RegOffsets,
             Select, IO, Ack, SameMemory, ChrinAt, Searched, SelectChrin
    <3>2. In("chrin_translate", 1)'
      BY <1>3, <2>2, <2>3, <2>4, <3>1, ArrivesSame
         DEF SamePlace, RoutineOf, Depth, ChrinLabels, ChroutLabels, SameMemory
    <3> QED
      BY <3>2, ChrinTranslateCode, WithinIs
  <2>5. CASE "Z" \notin reg.p
    <3>1. Details("chrin_lookup", 3)'
      BY <1>1, <1>3, <2>2, <2>3, EntryKept, <2>5
         DEF In, InCall, Details, PortsAt, FetchedAt, PrintedAt, ValuesAt, Ports, PortsIdle,
             ChrinLabels, ChroutLabels, Step, SameVars, SameFlags, SameFlagsBut, Flags, RegOffsets,
             Select, IO, Ack, SameMemory, ChrinAt, Searched, SelectChrin
    <3>2. In("chrin_lookup", 3)'
      BY <1>3, <2>2, <2>3, <2>5, <3>1, ArrivesSame
         DEF SamePlace, RoutineOf, Depth, ChrinLabels, ChroutLabels, SameMemory
    <3> QED
      BY <3>2, ChrinLookupCode, WithinIs
  <2> QED
    BY <2>4, <2>5
<1>4. CASE i = 3
  <2>1. reg.x < 255
    BY <1>4 DEF In, ValuesAt, ChrinAt, ChrinLabels, ChroutLabels
  <2>2. /\ Step /\ Types' /\ Onward("chrin_lookup", 3)
        /\ SameMemory /\ SameFlagsBut({"Z"}) /\ reg'.s = reg.s
        /\ reg'.a = reg.a /\ reg'.x = reg.x + 1 /\ reg'.y = reg.y
    BY <1>1, <1>4, <2>1, ChrinLookupCode, AtIncrementsX
  <2>3. pc' = <<"chrin_lookup", 4>>
    BY <2>2, ChrinLookupCode DEF Onward
  <2>4. Details("chrin_lookup", 4)'
    BY <1>1, <1>4, <2>1, <2>2, <2>3, EntryKept
       DEF In, InCall, Details, PortsAt, FetchedAt, PrintedAt, ValuesAt, Ports, PortsIdle,
           ChrinLabels, ChroutLabels, Step, SameVars, SameFlags, SameFlagsBut, Flags, RegOffsets,
           Select, IO, Ack, SameMemory, ChrinAt, Searched, SelectChrin
  <2>5. In("chrin_lookup", 4)'
    BY <1>4, <2>2, <2>3, <2>4, ArrivesSame
       DEF SamePlace, RoutineOf, Depth, ChrinLabels, ChroutLabels, SameMemory
  <2> QED
    BY <2>5, ChrinLookupCode, WithinIs
<1>5. CASE i = 4
  <2>1. reg.x < 255
    BY <1>5 DEF In, ValuesAt, ChrinAt, ChrinLabels, ChroutLabels
  <2>2. /\ Step /\ Types' /\ Onward("chrin_lookup", 4)
        /\ SameMemory /\ SameFlagsBut({"Z"}) /\ reg'.s = reg.s
        /\ reg'.a = reg.a /\ reg'.x = reg.x + 1 /\ reg'.y = reg.y
    BY <1>1, <1>5, <2>1, ChrinLookupCode, AtIncrementsX
  <2>3. pc' = <<"chrin_lookup", 5>>
    BY <2>2, ChrinLookupCode DEF Onward
  <2>4. Details("chrin_lookup", 5)'
    BY <1>1, <1>5, <2>1, <2>2, <2>3, EntryKept
       DEF In, InCall, Details, PortsAt, FetchedAt, PrintedAt, ValuesAt, Ports, PortsIdle,
           ChrinLabels, ChroutLabels, Step, SameVars, SameFlags, SameFlagsBut, Flags, RegOffsets,
           Select, IO, Ack, SameMemory, ChrinAt, Searched, SelectChrin
  <2>5. In("chrin_lookup", 5)'
    BY <1>5, <2>2, <2>3, <2>4, ArrivesSame
       DEF SamePlace, RoutineOf, Depth, ChrinLabels, ChroutLabels, SameMemory
  <2> QED
    BY <2>5, ChrinLookupCode, WithinIs
<1>6. CASE i = 5
  <2>1. /\ Step /\ Types' /\ Onward("chrin_lookup", 5)
        /\ Compared(reg["x"], 4)
    BY <1>1, <1>6, ChrinLookupCode, RegOffsetsAre, AtCompareImmediate
  <2>2. pc' = <<"chrin_lookup", 6>>
    BY <2>1, ChrinLookupCode DEF Onward
  <2>3. Details("chrin_lookup", 6)'
    BY <1>1, <1>6, <2>1, <2>2, EntryKept
       DEF In, InCall, Details, PortsAt, FetchedAt, PrintedAt, ValuesAt, Ports, PortsIdle,
           ChrinLabels, ChroutLabels, Step, SameVars, SameFlags, SameFlagsBut, Flags, RegOffsets,
           Select, IO, Ack, Compared, SameMemory, ChrinAt, Searched, SelectChrin
  <2>4. In("chrin_lookup", 6)'
    BY <1>6, <2>1, <2>2, <2>3, ArrivesSame
       DEF SamePlace, RoutineOf, Depth, ChrinLabels, ChroutLabels, Compared, SameMemory
  <2> QED
    BY <2>4, ChrinLookupCode, WithinIs
<1>7. CASE i = 6
  <2>1. Code["chrin_lookup"][i] = If("Z", FALSE, "chrin_lookup")
    BY <1>7, ChrinLookupCode
  <2>2. /\ Step /\ Types' /\ SameMemory /\ reg' = reg
        /\ "Z" \notin reg.p => pc' = <<"chrin_lookup", 1>>
        /\ "Z" \in reg.p => Onward("chrin_lookup", i)
    BY <1>1, <2>1, AtBranchUnless, Zenon
  <2>3. "Z" \in reg.p => pc' = <<"chrin_lookup", 7>>
    BY <1>7, <2>2, ChrinLookupCode DEF Onward
  <2>4. CASE "Z" \notin reg.p
    <3>1. Details("chrin_lookup", 1)'
      BY <1>1, <1>7, <2>2, <2>3, EntryKept, <2>4
         DEF In, InCall, Details, PortsAt, FetchedAt, PrintedAt, ValuesAt, Ports, PortsIdle,
             ChrinLabels, ChroutLabels, Step, SameVars, SameFlags, SameFlagsBut, Flags, RegOffsets,
             Select, IO, Ack, SameMemory, ChrinAt, Searched, SelectChrin
    <3>2. In("chrin_lookup", 1)'
      BY <1>7, <2>2, <2>3, <2>4, <3>1, ArrivesSame
         DEF SamePlace, RoutineOf, Depth, ChrinLabels, ChroutLabels, SameMemory
    <3> QED
      BY <3>2, ChrinLookupCode, WithinIs
  <2>5. CASE "Z" \in reg.p
    <3>1. Details("chrin_lookup", 7)'
      BY <1>1, <1>7, <2>2, <2>3, EntryKept, <2>5
         DEF In, InCall, Details, PortsAt, FetchedAt, PrintedAt, ValuesAt, Ports, PortsIdle,
             ChrinLabels, ChroutLabels, Step, SameVars, SameFlags, SameFlagsBut, Flags, RegOffsets,
             Select, IO, Ack, SameMemory, ChrinAt, Searched, SelectChrin
    <3>2. In("chrin_lookup", 7)'
      BY <1>7, <2>2, <2>3, <2>5, <3>1, ArrivesSame
         DEF SamePlace, RoutineOf, Depth, ChrinLabels, ChroutLabels, SameMemory
    <3> QED
      BY <3>2, ChrinLookupCode, WithinIs
  <2> QED
    BY <2>4, <2>5
<1>8. CASE i = 7
  <2>1. Code["chrin_lookup"][i] = <<"jmp", "chrin_return">>
    BY <1>8, ChrinLookupCode
  <2>2. Step /\ Types' /\ SameMemory /\ reg' = reg /\ pc' = <<"chrin_return", 1>>
    BY <1>1, <2>1, AtJump, Zenon
  <2>3. Details("chrin_return", 1)'
    BY <1>1, <1>8, <2>2, EntryKept, TableIs
       DEF In, InCall, Details, PortsAt, FetchedAt, PrintedAt, ValuesAt, Ports, PortsIdle,
           ChrinLabels, ChroutLabels, Step, SameVars, SameFlags, SameFlagsBut, Flags, RegOffsets,
           Select, IO, Ack, SameMemory, ChrinAt, Searched, SelectChrin, FromASCII
  <2>4. In("chrin_return", 1)'
    BY <1>8, <2>2, <2>3, ArrivesSame
       DEF SamePlace, RoutineOf, Depth, ChrinLabels, ChroutLabels, SameMemory
  <2> QED
    BY <2>4, ChrinReturnCode, WithinIs
<1> QED
  BY <1>2, <1>3, <1>4, <1>5, <1>6, <1>7, <1>8

LEMMA AtChrinTranslate ==
  ASSUME NEW i \in 1 .. 1, In("chrin_translate", i), Kernal
  PROVE  Within'
<1>1. At("chrin_translate", i)
  BY ChrinTranslateCode DEF At, In
<1>2. CASE i = 1
  <2>1. 2 + reg.x \in 1 .. 4
    BY <1>2 DEF In, ValuesAt, ChrinAt, ChrinLabels, ChroutLabels
  <2>2. /\ Step /\ Types' /\ Onward("chrin_translate", 1)
        /\ Loaded("a", control_chars[2 + reg.x])
    BY <1>1, <1>2, <2>1, ChrinTranslateCode, AtLoadTable
  <2>3. pc' = <<"chrin_return", 1>>
    BY <2>2, ChrinTranslateCode DEF Onward
  <2>4. Details("chrin_return", 1)'
    BY <1>1, <1>2, <2>1, <2>2, <2>3, EntryKept, TableIs
       DEF In, InCall, Details, PortsAt, FetchedAt, PrintedAt, ValuesAt, Ports, PortsIdle,
           ChrinLabels, ChroutLabels, Step, SameVars, SameFlags, SameFlagsBut, Flags, RegOffsets,
           Select, IO, Ack, Loaded, SameMemory, ChrinAt, Searched, SelectChrin, FromASCII
  <2>5. In("chrin_return", 1)'
    BY <1>2, <2>2, <2>3, <2>4, ArrivesSame
       DEF SamePlace, RoutineOf, Depth, ChrinLabels, ChroutLabels, Loaded, SameMemory
  <2> QED
    BY <2>5, ChrinReturnCode, WithinIs
<1> QED
  BY <1>2

LEMMA AtChrinReturn ==
  ASSUME NEW i \in 1 .. 3, In("chrin_return", i), Kernal
  PROVE  Within'
<1>1. At("chrin_return", i)
  BY ChrinReturnCode DEF At, In
<1>2. CASE i = 1
  <2>1. /\ Step /\ Types' /\ Onward("chrin_return", 1)
        /\ Stored(250, reg["a"])
    BY <1>1, <1>2, ChrinReturnCode, RegOffsetsAre, AtStore
  <2>2. pc' = <<"chrin_return", 2>>
    BY <2>1, ChrinReturnCode DEF Onward
  <2>3. Details("chrin_return", 2)'
    BY <1>1, <1>2, <2>1, <2>2, EntryKept
       DEF In, InCall, Details, PortsAt, FetchedAt, PrintedAt, ValuesAt, Ports, PortsIdle,
           ChrinLabels, ChroutLabels, Step, SameVars, SameFlags, SameFlagsBut, Flags, RegOffsets,
           Select, IO, Ack, Stored, StoredAt, ChrinAt, Searched, SelectChrin
  <2>4. In("chrin_return", 2)'
    BY <1>2, <2>1, <2>2, <2>3, ArrivesSame
       DEF SamePlace, RoutineOf, Depth, ChrinLabels, ChroutLabels, Stored, StoredAt
  <2> QED
    BY <2>4, ChrinReturnCode, WithinIs
<1>3. CASE i = 2
  <2>1. /\ Step /\ Types' /\ Onward("chrin_return", 2)
        /\ Loaded("x", Regs[251])
    BY <1>1, <1>3, ChrinReturnCode, RegOffsetsAre, AtLoadRegister
  <2>2. pc' = <<"chrin_return", 3>>
    BY <2>1, ChrinReturnCode DEF Onward
  <2>3. Details("chrin_return", 3)'
    BY <1>1, <1>3, <2>1, <2>2, EntryKept
       DEF In, InCall, Details, PortsAt, FetchedAt, PrintedAt, ValuesAt, Ports, PortsIdle,
           ChrinLabels, ChroutLabels, Step, SameVars, SameFlags, SameFlagsBut, Flags, RegOffsets,
           Select, IO, Ack, Loaded, SameMemory, ChrinAt, Searched, SelectChrin
  <2>4. In("chrin_return", 3)'
    BY <1>3, <2>1, <2>2, <2>3, ArrivesSame
       DEF SamePlace, RoutineOf, Depth, ChrinLabels, ChroutLabels, Loaded, SameMemory
  <2> QED
    BY <2>4, ChrinReturnCode, WithinIs
<1>4. CASE i = 3
  <2>1. /\ Step /\ Types' /\ Onward("chrin_return", 3)
        /\ SameMemory /\ SameFlagsBut({"C"}) /\ "C" \notin reg'.p
        /\ reg'.s = reg.s /\ reg'.a = reg.a /\ reg'.x = reg.x /\ reg'.y = reg.y
    BY <1>1, <1>4, ChrinReturnCode, AtClearCarry
  <2>2. pc' = <<"chrin_return", 4>>
    BY <2>1, ChrinReturnCode DEF Onward
  <2>3. Details("chrin_return", 4)'
    BY <1>1, <1>4, <2>1, <2>2, EntryKept
       DEF In, InCall, Details, PortsAt, FetchedAt, PrintedAt, ValuesAt, Ports, PortsIdle,
           ChrinLabels, ChroutLabels, Step, SameVars, SameFlags, SameFlagsBut, Flags, RegOffsets,
           Select, IO, Ack, SameMemory, ChrinAt, Searched, SelectChrin
  <2>4. In("chrin_return", 4)'
    BY <1>4, <2>1, <2>2, <2>3, ArrivesSame
       DEF SamePlace, RoutineOf, Depth, ChrinLabels, ChroutLabels, SameMemory
  <2> QED
    BY <2>4, ChrinReturnCode, WithinIs
<1> QED
  BY <1>2, <1>3, <1>4

LEMMA AtChrout ==
  ASSUME NEW i \in 1 .. 8, In("chrout", i), Kernal
  PROVE  Within'
<1>1. At("chrout", i)
  BY ChroutCode DEF At, In
<1>2. CASE i = 1
  <2>1. /\ Step /\ Types' /\ Onward("chrout", 1)
        /\ Placed(2, reg.a) /\ reg'.p = reg.p /\ reg'.s = Below(Base, 3)
        /\ reg'.a = reg.a /\ reg'.x = reg.x /\ reg'.y = reg.y
    BY <1>1, <1>2, ChroutCode, AtPush, InIs DEF Depth, RoutineOf, ChrinLabels, ChroutLabels
  <2>2. pc' = <<"chrout", 2>>
    BY <2>1, ChroutCode DEF Onward
  <2>3. Details("chrout", 2)'
    BY <1>1, <1>2, <2>1, <2>2, EntryKept
       DEF In, InCall, Details, PortsAt, FetchedAt, PrintedAt, ValuesAt, Ports, PortsIdle,
           ChrinLabels, ChroutLabels, Step, SameVars, SameFlags, SameFlagsBut, Flags, RegOffsets,
           Select, IO, Ack, Placed, ChroutAt, Searched, CR, SelectChrout
  <2>4. In("chrout", 2)'
    BY <1>2, <2>1, <2>2, InIs, <2>3, Arrives
       DEF RoutineOf, Depth, ChrinLabels, ChroutLabels, Placed
  <2> QED
    BY <2>4, ChroutCode, WithinIs
<1>3. CASE i = 2
  <2>1. /\ Step /\ Types' /\ Onward("chrout", 2)
        /\ Compared(reg["a"], 13)
    BY <1>1, <1>3, ChroutCode, RegOffsetsAre, AtCompareImmediate
  <2>2. pc' = <<"chrout", 3>>
    BY <2>1, ChroutCode DEF Onward
  <2>3. Details("chrout", 3)'
    BY <1>1, <1>3, <2>1, <2>2, EntryKept
       DEF In, InCall, Details, PortsAt, FetchedAt, PrintedAt, ValuesAt, Ports, PortsIdle,
           ChrinLabels, ChroutLabels, Step, SameVars, SameFlags, SameFlagsBut, Flags, RegOffsets,
           Select, IO, Ack, Compared, SameMemory, ChroutAt, Searched, CR, SelectChrout
  <2>4. In("chrout", 3)'
    BY <1>3, <2>1, <2>2, <2>3, ArrivesSame
       DEF SamePlace, RoutineOf, Depth, ChrinLabels, ChroutLabels, Compared, SameMemory
  <2> QED
    BY <2>4, ChroutCode, WithinIs
<1>4. CASE i = 3
  <2>1. Code["chrout"][i] = If("Z", FALSE, "chrout_start")
    BY <1>4, ChroutCode
  <2>2. /\ Step /\ Types' /\ SameMemory /\ reg' = reg
        /\ "Z" \notin reg.p => pc' = <<"chrout_start", 1>>
        /\ "Z" \in reg.p => Onward("chrout", i)
    BY <1>1, <2>1, AtBranchUnless, Zenon
  <2>3. "Z" \in reg.p => pc' = <<"chrout", 4>>
    BY <1>4, <2>2, ChroutCode DEF Onward
  <2>4. CASE "Z" \notin reg.p
    <3>1. Details("chrout_start", 1)'
      BY <1>1, <1>4, <2>2, <2>3, EntryKept, <2>4
         DEF In, InCall, Details, PortsAt, FetchedAt, PrintedAt, ValuesAt, Ports, PortsIdle,
             ChrinLabels, ChroutLabels, Step, SameVars, SameFlags, SameFlagsBut, Flags, RegOffsets,
             Select, IO, Ack, SameMemory, ChroutAt, Searched, CR, SelectChrout, Dropping
    <3>2. In("chrout_start", 1)'
      BY <1>4, <2>2, <2>3, <2>4, <3>1, ArrivesSame
         DEF SamePlace, RoutineOf, Depth, ChrinLabels, ChroutLabels, SameMemory
    <3> QED
      BY <3>2, ChroutStartCode, WithinIs
  <2>5. CASE "Z" \in reg.p
    <3>1. Details("chrout", 4)'
      BY <1>1, <1>4, <2>2, <2>3, EntryKept, <2>5
         DEF In, InCall, Details, PortsAt, FetchedAt, PrintedAt, ValuesAt, Ports, PortsIdle,
             ChrinLabels, ChroutLabels, Step, SameVars, SameFlags, SameFlagsBut, Flags, RegOffsets,
             Select, IO, Ack, SameMemory, ChroutAt, Searched, CR, SelectChrout, Dropping
    <3>2. In("chrout", 4)'
      BY <1>4, <2>2, <2>3, <2>5, <3>1, ArrivesSame
         DEF SamePlace, RoutineOf, Depth, ChrinLabels, ChroutLabels, SameMemory
    <3> QED
      BY <3>2, ChroutCode, WithinIs
  <2> QED
    BY <2>4, <2>5
<1>5. CASE i = 4
  <2>1. /\ Step /\ Types' /\ Onward("chrout", 4)
        /\ Compared(reg["a"], Regs[250])
    BY <1>1, <1>5, ChroutCode, RegOffsetsAre, AtCompareRegister
  <2>2. pc' = <<"chrout", 5>>
    BY <2>1, ChroutCode DEF Onward
  <2>3. Details("chrout", 5)'
    BY <1>1, <1>5, <2>1, <2>2, EntryKept
       DEF In, InCall, Details, PortsAt, FetchedAt, PrintedAt, ValuesAt, Ports, PortsIdle,
           ChrinLabels, ChroutLabels, Step, SameVars, SameFlags, SameFlagsBut, Flags, RegOffsets,
           Select, IO, Ack, Compared, SameMemory, ChroutAt, Searched, CR, SelectChrout
  <2>4. In("chrout", 5)'
    BY <1>5, <2>1, <2>2, <2>3, ArrivesSame
       DEF SamePlace, RoutineOf, Depth, ChrinLabels, ChroutLabels, Compared, SameMemory
  <2> QED
    BY <2>4, ChroutCode, WithinIs
<1>6. CASE i = 5
  <2>1. Code["chrout"][i] = If("Z", FALSE, "chrout_start")
    BY <1>6, ChroutCode
  <2>2. /\ Step /\ Types' /\ SameMemory /\ reg' = reg
        /\ "Z" \notin reg.p => pc' = <<"chrout_start", 1>>
        /\ "Z" \in reg.p => Onward("chrout", i)
    BY <1>1, <2>1, AtBranchUnless, Zenon
  <2>3. "Z" \in reg.p => pc' = <<"chrout", 6>>
    BY <1>6, <2>2, ChroutCode DEF Onward
  <2>4. CASE "Z" \notin reg.p
    <3>1. Details("chrout_start", 1)'
      BY <1>1, <1>6, <2>2, <2>3, EntryKept, <2>4
         DEF In, InCall, Details, PortsAt, FetchedAt, PrintedAt, ValuesAt, Ports, PortsIdle,
             ChrinLabels, ChroutLabels, Step, SameVars, SameFlags, SameFlagsBut, Flags, RegOffsets,
             Select, IO, Ack, SameMemory, ChroutAt, Searched, CR, SelectChrout, Dropping
    <3>2. In("chrout_start", 1)'
      BY <1>6, <2>2, <2>3, <2>4, <3>1, ArrivesSame
         DEF SamePlace, RoutineOf, Depth, ChrinLabels, ChroutLabels, SameMemory
    <3> QED
      BY <3>2, ChroutStartCode, WithinIs
  <2>5. CASE "Z" \in reg.p
    <3>1. Details("chrout", 6)'
      BY <1>1, <1>6, <2>2, <2>3, EntryKept, <2>5
         DEF In, InCall, Details, PortsAt, FetchedAt, PrintedAt, ValuesAt, Ports, PortsIdle,
             ChrinLabels, ChroutLabels, Step, SameVars, SameFlags, SameFlagsBut, Flags, RegOffsets,
             Select, IO, Ack, SameMemory, ChroutAt, Searched, CR, SelectChrout, Dropping
    <3>2. In("chrout", 6)'
      BY <1>6, <2>2, <2>3, <2>5, <3>1, ArrivesSame
         DEF SamePlace, RoutineOf, Depth, ChrinLabels, ChroutLabels, SameMemory
    <3> QED
      BY <3>2, ChroutCode, WithinIs
  <2> QED
    BY <2>4, <2>5
<1>7. CASE i = 6
  <2>1. /\ Step /\ Types' /\ Onward("chrout", 6)
        /\ Loaded("a", 0)
    BY <1>1, <1>7, ChroutCode, NumbersAre, AtLoadImmediate
  <2>2. pc' = <<"chrout", 7>>
    BY <2>1, ChroutCode DEF Onward
  <2>3. Details("chrout", 7)'
    BY <1>1, <1>7, <2>1, <2>2, EntryKept
       DEF In, InCall, Details, PortsAt, FetchedAt, PrintedAt, ValuesAt, Ports, PortsIdle,
           ChrinLabels, ChroutLabels, Step, SameVars, SameFlags, SameFlagsBut, Flags, RegOffsets,
           Select, IO, Ack, Loaded, SameMemory, ChroutAt, Searched, CR, SelectChrout
  <2>4. In("chrout", 7)'
    BY <1>7, <2>1, <2>2, <2>3, ArrivesSame
       DEF SamePlace, RoutineOf, Depth, ChrinLabels, ChroutLabels, Loaded, SameMemory
  <2> QED
    BY <2>4, ChroutCode, WithinIs
<1>8. CASE i = 7
  <2>1. /\ Step /\ Types' /\ Onward("chrout", 7)
        /\ Stored(250, reg["a"])
    BY <1>1, <1>8, ChroutCode, RegOffsetsAre, AtStore
  <2>2. pc' = <<"chrout", 8>>
    BY <2>1, ChroutCode DEF Onward
  <2>3. Details("chrout", 8)'
    BY <1>1, <1>8, <2>1, <2>2, EntryKept
       DEF In, InCall, Details, PortsAt, FetchedAt, PrintedAt, ValuesAt, Ports, PortsIdle,
           ChrinLabels, ChroutLabels, Step, SameVars, SameFlags, SameFlagsBut, Flags, RegOffsets,
           Select, IO, Ack, Stored, StoredAt, ChroutAt, Searched, CR, SelectChrout
  <2>4. In("chrout", 8)'
    BY <1>8, <2>1, <2>2, <2>3, ArrivesSame
       DEF SamePlace, RoutineOf, Depth, ChrinLabels, ChroutLabels, Stored, StoredAt
  <2> QED
    BY <2>4, ChroutCode, WithinIs
<1>9. CASE i = 8
  <2>1. Code["chrout"][i] = <<"jmp", "chrout_return">>
    BY <1>9, ChroutCode
  <2>2. Step /\ Types' /\ SameMemory /\ reg' = reg /\ pc' = <<"chrout_return", 1>>
    BY <1>1, <2>1, AtJump, Zenon
  <2>3. Details("chrout_return", 1)'
    BY <1>1, <1>9, <2>2, EntryKept
       DEF In, InCall, Details, PortsAt, FetchedAt, PrintedAt, ValuesAt, Ports, PortsIdle,
           ChrinLabels, ChroutLabels, Step, SameVars, SameFlags, SameFlagsBut, Flags, RegOffsets,
           Select, IO, Ack, SameMemory, ChroutAt, Searched, CR, SelectChrout
  <2>4. In("chrout_return", 1)'
    BY <1>9, <2>2, <2>3, ArrivesSame
       DEF SamePlace, RoutineOf, Depth, ChrinLabels, ChroutLabels, SameMemory
  <2> QED
    BY <2>4, ChroutReturnCode, WithinIs
<1> QED
  BY <1>2, <1>3, <1>4, <1>5, <1>6, <1>7, <1>8, <1>9

LEMMA AtChroutStart ==
  ASSUME NEW i \in 1 .. 4, In("chrout_start", i), Kernal
  PROVE  Within'
<1>1. At("chrout_start", i)
  BY ChroutStartCode DEF At, In
<1>2. CASE i = 1
  <2>1. /\ Step /\ Types' /\ Onward("chrout_start", 1)
        /\ Stored(251, reg["x"])
    BY <1>1, <1>2, ChroutStartCode, RegOffsetsAre, AtStore
  <2>2. pc' = <<"chrout_start", 2>>
    BY <2>1, ChroutStartCode DEF Onward
  <2>3. Details("chrout_start", 2)'
    BY <1>1, <1>2, <2>1, <2>2, EntryKept
       DEF In, InCall, Details, PortsAt, FetchedAt, PrintedAt, ValuesAt, Ports, PortsIdle,
           ChrinLabels, ChroutLabels, Step, SameVars, SameFlags, SameFlagsBut, Flags, RegOffsets,
           Select, IO, Ack, Stored, StoredAt, ChroutAt, Searched, CR, SelectChrout
  <2>4. In("chrout_start", 2)'
    BY <1>2, <2>1, <2>2, <2>3, ArrivesSame
       DEF SamePlace, RoutineOf, Depth, ChrinLabels, ChroutLabels, Stored, StoredAt
  <2> QED
    BY <2>4, ChroutStartCode, WithinIs
<1>3. CASE i = 2
  <2>1. /\ Step /\ Types' /\ Onward("chrout_start", 2)
        /\ Loaded("x", 2)
    BY <1>1, <1>3, ChroutStartCode, NumbersAre, AtLoadImmediate
  <2>2. pc' = <<"chrout_start", 3>>
    BY <2>1, ChroutStartCode DEF Onward
  <2>3. Details("chrout_start", 3)'
    BY <1>1, <1>3, <2>1, <2>2, EntryKept
       DEF In, InCall, Details, PortsAt, FetchedAt, PrintedAt, ValuesAt, Ports, PortsIdle,
           ChrinLabels, ChroutLabels, Step, SameVars, SameFlags, SameFlagsBut, Flags, RegOffsets,
           Select, IO, Ack, Loaded, SameMemory, ChroutAt, Searched, CR, SelectChrout
  <2>4. In("chrout_start", 3)'
    BY <1>3, <2>1, <2>2, <2>3, ArrivesSame
       DEF SamePlace, RoutineOf, Depth, ChrinLabels, ChroutLabels, Loaded, SameMemory
  <2> QED
    BY <2>4, ChroutStartCode, WithinIs
<1>4. CASE i = 3
  <2>1. /\ Step /\ Types' /\ Onward("chrout_start", 3)
        /\ Stored(0, reg["x"])
    BY <1>1, <1>4, ChroutStartCode, RegOffsetsAre, AtStoreSelect
  <2>2. pc' = <<"chrout_start", 4>>
    BY <2>1, ChroutStartCode DEF Onward
  <2>3. Details("chrout_start", 4)'
    BY <1>1, <1>4, <2>1, <2>2, EntryKept
       DEF In, InCall, Details, PortsAt, FetchedAt, PrintedAt, ValuesAt, Ports, PortsIdle,
           ChrinLabels, ChroutLabels, Step, SameVars, SameFlags, SameFlagsBut, Flags, RegOffsets,
           Select, IO, Ack, Stored, StoredAt, ChroutAt, Searched, CR, SelectChrout
  <2>4. In("chrout_start", 4)'
    BY <1>4, <2>1, <2>2, <2>3, ArrivesSame
       DEF SamePlace, RoutineOf, Depth, ChrinLabels, ChroutLabels, Stored, StoredAt
  <2> QED
    BY <2>4, ChroutStartCode, WithinIs
<1>5. CASE i = 4
  <2>1. /\ Step /\ Types' /\ Onward("chrout_start", 4)
        /\ Loaded("x", 0)
    BY <1>1, <1>5, ChroutStartCode, NumbersAre, AtLoadImmediate
  <2>2. pc' = <<"chrout_lookup", 1>>
    BY <2>1, ChroutStartCode DEF Onward
  <2>3. Details("chrout_lookup", 1)'
    BY <1>1, <1>5, <2>1, <2>2, EntryKept
       DEF In, InCall, Details, PortsAt, FetchedAt, PrintedAt, ValuesAt, Ports, PortsIdle,
           ChrinLabels, ChroutLabels, Step, SameVars, SameFlags, SameFlagsBut, Flags, RegOffsets,
           Select, IO, Ack, Loaded, SameMemory, ChroutAt, Searched, CR, SelectChrout
  <2>4. In("chrout_lookup", 1)'
    BY <1>5, <2>1, <2>2, <2>3, ArrivesSame
       DEF SamePlace, RoutineOf, Depth, ChrinLabels, ChroutLabels, Loaded, SameMemory
  <2> QED
    BY <2>4, ChroutLookupCode, WithinIs
<1> QED
  BY <1>2, <1>3, <1>4, <1>5

LEMMA AtChroutLookup ==
  ASSUME NEW i \in 1 .. 7, In("chrout_lookup", i), Kernal
  PROVE  Within'
<1>1. At("chrout_lookup", i)
  BY ChroutLookupCode DEF At, In
<1>2. CASE i = 1
  <2>1. /\ Step /\ Types' /\ Onward("chrout_lookup", 1)
        /\ Compared(reg["a"], control_chars[2 + reg.x])
    BY <1>1, <1>2, ChroutLookupCode, RegOffsetsAre, AtCompareTable
  <2>2. pc' = <<"chrout_lookup", 2>>
    BY <2>1, ChroutLookupCode DEF Onward
  <2>3. Details("chrout_lookup", 2)'
    BY <1>1, <1>2, <2>1, <2>2, EntryKept, TableIs
       DEF In, InCall, Details, PortsAt, FetchedAt, PrintedAt, ValuesAt, Ports, PortsIdle,
           ChrinLabels, ChroutLabels, Step, SameVars, SameFlags, SameFlagsBut, Flags, RegOffsets,
           Select, IO, Ack, Compared, SameMemory, ChroutAt, Searched, CR, SelectChrout
  <2>4. In("chrout_lookup", 2)'
    BY <1>2, <2>1, <2>2, <2>3, ArrivesSame
       DEF SamePlace, RoutineOf, Depth, ChrinLabels, ChroutLabels, Compared, SameMemory
  <2> QED
    BY <2>4, ChroutLookupCode, WithinIs
<1>3. CASE i = 2
  <2>1. Code["chrout_lookup"][i] = If("Z", TRUE, "chrout_translate")
    BY <1>3, ChroutLookupCode
  <2>2. /\ Step /\ Types' /\ SameMemory /\ reg' = reg
        /\ "Z" \in reg.p => pc' = <<"chrout_translate", 1>>
        /\ "Z" \notin reg.p => Onward("chrout_lookup", i)
    BY <1>1, <2>1, AtBranchIf, Zenon
  <2>3. "Z" \notin reg.p => pc' = <<"chrout_lookup", 3>>
    BY <1>3, <2>2, ChroutLookupCode DEF Onward
  <2>4. CASE "Z" \in reg.p
    <3>1. Details("chrout_translate", 1)'
      BY <1>1, <1>3, <2>2, <2>3, EntryKept, <2>4
         DEF In, InCall, Details, PortsAt, FetchedAt, PrintedAt, ValuesAt, Ports, PortsIdle,
             ChrinLabels, ChroutLabels, Step, SameVars, SameFlags, SameFlagsBut, Flags, RegOffsets,
             Select, IO, Ack, SameMemory, ChroutAt, Searched, CR, SelectChrout
    <3>2. In("chrout_translate", 1)'
      BY <1>3, <2>2, <2>3, <2>4, <3>1, ArrivesSame
         DEF SamePlace, RoutineOf, Depth, ChrinLabels, ChroutLabels, SameMemory
    <3> QED
      BY <3>2, ChroutTranslateCode, WithinIs
  <2>5. CASE "Z" \notin reg.p
    <3>1. Details("chrout_lookup", 3)'
      BY <1>1, <1>3, <2>2, <2>3, EntryKept, <2>5
         DEF In, InCall, Details, PortsAt, FetchedAt, PrintedAt, ValuesAt, Ports, PortsIdle,
             ChrinLabels, ChroutLabels, Step, SameVars, SameFlags, SameFlagsBut, Flags, RegOffsets,
             Select, IO, Ack, SameMemory, ChroutAt, Searched, CR, SelectChrout
    <3>2. In("chrout_lookup", 3)'
      BY <1>3, <2>2, <2>3, <2>5, <3>1, ArrivesSame
         DEF SamePlace, RoutineOf, Depth, ChrinLabels, ChroutLabels, SameMemory
    <3> QED
      BY <3>2, ChroutLookupCode, WithinIs
  <2> QED
    BY <2>4, <2>5
<1>4. CASE i = 3
  <2>1. reg.x < 255
    BY <1>4 DEF In, ValuesAt, ChroutAt, ChrinLabels, ChroutLabels
  <2>2. /\ Step /\ Types' /\ Onward("chrout_lookup", 3)
        /\ SameMemory /\ SameFlagsBut({"Z"}) /\ reg'.s = reg.s
        /\ reg'.a = reg.a /\ reg'.x = reg.x + 1 /\ reg'.y = reg.y
    BY <1>1, <1>4, <2>1, ChroutLookupCode, AtIncrementsX
  <2>3. pc' = <<"chrout_lookup", 4>>
    BY <2>2, ChroutLookupCode DEF Onward
  <2>4. Details("chrout_lookup", 4)'
    BY <1>1, <1>4, <2>1, <2>2, <2>3, EntryKept
       DEF In, InCall, Details, PortsAt, FetchedAt, PrintedAt, ValuesAt, Ports, PortsIdle,
           ChrinLabels, ChroutLabels, Step, SameVars, SameFlags, SameFlagsBut, Flags, RegOffsets,
           Select, IO, Ack, SameMemory, ChroutAt, Searched, CR, SelectChrout
  <2>5. In("chrout_lookup", 4)'
    BY <1>4, <2>2, <2>3, <2>4, ArrivesSame
       DEF SamePlace, RoutineOf, Depth, ChrinLabels, ChroutLabels, SameMemory
  <2> QED
    BY <2>5, ChroutLookupCode, WithinIs
<1>5. CASE i = 4
  <2>1. reg.x < 255
    BY <1>5 DEF In, ValuesAt, ChroutAt, ChrinLabels, ChroutLabels
  <2>2. /\ Step /\ Types' /\ Onward("chrout_lookup", 4)
        /\ SameMemory /\ SameFlagsBut({"Z"}) /\ reg'.s = reg.s
        /\ reg'.a = reg.a /\ reg'.x = reg.x + 1 /\ reg'.y = reg.y
    BY <1>1, <1>5, <2>1, ChroutLookupCode, AtIncrementsX
  <2>3. pc' = <<"chrout_lookup", 5>>
    BY <2>2, ChroutLookupCode DEF Onward
  <2>4. Details("chrout_lookup", 5)'
    BY <1>1, <1>5, <2>1, <2>2, <2>3, EntryKept
       DEF In, InCall, Details, PortsAt, FetchedAt, PrintedAt, ValuesAt, Ports, PortsIdle,
           ChrinLabels, ChroutLabels, Step, SameVars, SameFlags, SameFlagsBut, Flags, RegOffsets,
           Select, IO, Ack, SameMemory, ChroutAt, Searched, CR, SelectChrout
  <2>5. In("chrout_lookup", 5)'
    BY <1>5, <2>2, <2>3, <2>4, ArrivesSame
       DEF SamePlace, RoutineOf, Depth, ChrinLabels, ChroutLabels, SameMemory
  <2> QED
    BY <2>5, ChroutLookupCode, WithinIs
<1>6. CASE i = 5
  <2>1. /\ Step /\ Types' /\ Onward("chrout_lookup", 5)
        /\ Compared(reg["x"], 4)
    BY <1>1, <1>6, ChroutLookupCode, RegOffsetsAre, AtCompareImmediate
  <2>2. pc' = <<"chrout_lookup", 6>>
    BY <2>1, ChroutLookupCode DEF Onward
  <2>3. Details("chrout_lookup", 6)'
    BY <1>1, <1>6, <2>1, <2>2, EntryKept
       DEF In, InCall, Details, PortsAt, FetchedAt, PrintedAt, ValuesAt, Ports, PortsIdle,
           ChrinLabels, ChroutLabels, Step, SameVars, SameFlags, SameFlagsBut, Flags, RegOffsets,
           Select, IO, Ack, Compared, SameMemory, ChroutAt, Searched, CR, SelectChrout
  <2>4. In("chrout_lookup", 6)'
    BY <1>6, <2>1, <2>2, <2>3, ArrivesSame
       DEF SamePlace, RoutineOf, Depth, ChrinLabels, ChroutLabels, Compared, SameMemory
  <2> QED
    BY <2>4, ChroutLookupCode, WithinIs
<1>7. CASE i = 6
  <2>1. Code["chrout_lookup"][i] = If("Z", FALSE, "chrout_lookup")
    BY <1>7, ChroutLookupCode
  <2>2. /\ Step /\ Types' /\ SameMemory /\ reg' = reg
        /\ "Z" \notin reg.p => pc' = <<"chrout_lookup", 1>>
        /\ "Z" \in reg.p => Onward("chrout_lookup", i)
    BY <1>1, <2>1, AtBranchUnless, Zenon
  <2>3. "Z" \in reg.p => pc' = <<"chrout_lookup", 7>>
    BY <1>7, <2>2, ChroutLookupCode DEF Onward
  <2>4. CASE "Z" \notin reg.p
    <3>1. Details("chrout_lookup", 1)'
      BY <1>1, <1>7, <2>2, <2>3, EntryKept, <2>4
         DEF In, InCall, Details, PortsAt, FetchedAt, PrintedAt, ValuesAt, Ports, PortsIdle,
             ChrinLabels, ChroutLabels, Step, SameVars, SameFlags, SameFlagsBut, Flags, RegOffsets,
             Select, IO, Ack, SameMemory, ChroutAt, Searched, CR, SelectChrout
    <3>2. In("chrout_lookup", 1)'
      BY <1>7, <2>2, <2>3, <2>4, <3>1, ArrivesSame
         DEF SamePlace, RoutineOf, Depth, ChrinLabels, ChroutLabels, SameMemory
    <3> QED
      BY <3>2, ChroutLookupCode, WithinIs
  <2>5. CASE "Z" \in reg.p
    <3>1. Details("chrout_lookup", 7)'
      BY <1>1, <1>7, <2>2, <2>3, EntryKept, <2>5
         DEF In, InCall, Details, PortsAt, FetchedAt, PrintedAt, ValuesAt, Ports, PortsIdle,
             ChrinLabels, ChroutLabels, Step, SameVars, SameFlags, SameFlagsBut, Flags, RegOffsets,
             Select, IO, Ack, SameMemory, ChroutAt, Searched, CR, SelectChrout
    <3>2. In("chrout_lookup", 7)'
      BY <1>7, <2>2, <2>3, <2>5, <3>1, ArrivesSame
         DEF SamePlace, RoutineOf, Depth, ChrinLabels, ChroutLabels, SameMemory
    <3> QED
      BY <3>2, ChroutLookupCode, WithinIs
  <2> QED
    BY <2>4, <2>5
<1>8. CASE i = 7
  <2>1. Code["chrout_lookup"][i] = <<"jmp", "chrout_write">>
    BY <1>8, ChroutLookupCode
  <2>2. Step /\ Types' /\ SameMemory /\ reg' = reg /\ pc' = <<"chrout_write", 1>>
    BY <1>1, <2>1, AtJump, Zenon
  <2>3. Details("chrout_write", 1)'
    BY <1>1, <1>8, <2>2, EntryKept, TableIs
       DEF In, InCall, Details, PortsAt, FetchedAt, PrintedAt, ValuesAt, Ports, PortsIdle,
           ChrinLabels, ChroutLabels, Step, SameVars, SameFlags, SameFlagsBut, Flags, RegOffsets,
           Select, IO, Ack, SameMemory, ChroutAt, Searched, CR, SelectChrout, ToASCII
  <2>4. In("chrout_write", 1)'
    BY <1>8, <2>2, <2>3, ArrivesSame
       DEF SamePlace, RoutineOf, Depth, ChrinLabels, ChroutLabels, SameMemory
  <2> QED
    BY <2>4, ChroutWriteCode, WithinIs
<1> QED
  BY <1>2, <1>3, <1>4, <1>5, <1>6, <1>7, <1>8

LEMMA AtChroutTranslate ==
  ASSUME NEW i \in 1 .. 1, In("chrout_translate", i), Kernal
  PROVE  Within'
<1>1. At("chrout_translate", i)
  BY ChroutTranslateCode DEF At, In
<1>2. CASE i = 1
  <2>1. 1 + reg.x \in 1 .. 4
    BY <1>2 DEF In, ValuesAt, ChroutAt, ChrinLabels, ChroutLabels
  <2>2. /\ Step /\ Types' /\ Onward("chrout_translate", 1)
        /\ Loaded("a", control_chars[1 + reg.x])
    BY <1>1, <1>2, <2>1, ChroutTranslateCode, AtLoadTable
  <2>3. pc' = <<"chrout_write", 1>>
    BY <2>2, ChroutTranslateCode DEF Onward
  <2>4. Details("chrout_write", 1)'
    BY <1>1, <1>2, <2>1, <2>2, <2>3, EntryKept, TableIs
       DEF In, InCall, Details, PortsAt, FetchedAt, PrintedAt, ValuesAt, Ports, PortsIdle,
           ChrinLabels, ChroutLabels, Step, SameVars, SameFlags, SameFlagsBut, Flags, RegOffsets,
           Select, IO, Ack, Loaded, SameMemory, ChroutAt, Searched, CR, SelectChrout, ToASCII
  <2>5. In("chrout_write", 1)'
    BY <1>2, <2>2, <2>3, <2>4, ArrivesSame
       DEF SamePlace, RoutineOf, Depth, ChrinLabels, ChroutLabels, Loaded, SameMemory
  <2> QED
    BY <2>5, ChroutWriteCode, WithinIs
<1> QED
  BY <1>2

LEMMA AtChroutWrite ==
  ASSUME NEW i \in 1 .. 2, In("chrout_write", i), Kernal
  PROVE  Within'
<1>1. At("chrout_write", i)
  BY ChroutWriteCode DEF At, In
<1>2. CASE i = 1
  <2>1. /\ Step /\ Types' /\ Onward("chrout_write", 1)
        /\ Stored(1, reg["a"])
    BY <1>1, <1>2, ChroutWriteCode, RegOffsetsAre, AtStore
  <2>2. pc' = <<"chrout_write", 2>>
    BY <2>1, ChroutWriteCode DEF Onward
  <2>3. Details("chrout_write", 2)'
    BY <1>1, <1>2, <2>1, <2>2, EntryKept
       DEF In, InCall, Details, PortsAt, FetchedAt, PrintedAt, ValuesAt, Ports, PortsIdle,
           ChrinLabels, ChroutLabels, Step, SameVars, SameFlags, SameFlagsBut, Flags, RegOffsets,
           Select, IO, Ack, Stored, StoredAt, ChroutAt, Searched, CR, SelectChrout
  <2>4. In("chrout_write", 2)'
    BY <1>2, <2>1, <2>2, <2>3, ArrivesSame
       DEF SamePlace, RoutineOf, Depth, ChrinLabels, ChroutLabels, Stored, StoredAt
  <2> QED
    BY <2>4, ChroutWriteCode, WithinIs
<1>3. CASE i = 2
  <2>1. /\ Step /\ Types' /\ Onward("chrout_write", 2)
        /\ Loaded("x", Regs[251])
    BY <1>1, <1>3, ChroutWriteCode, RegOffsetsAre, AtLoadRegister
  <2>2. pc' = <<"chrout_return", 1>>
    BY <2>1, ChroutWriteCode DEF Onward
  <2>3. Details("chrout_return", 1)'
    BY <1>1, <1>3, <2>1, <2>2, EntryKept
       DEF In, InCall, Details, PortsAt, FetchedAt, PrintedAt, ValuesAt, Ports, PortsIdle,
           ChrinLabels, ChroutLabels, Step, SameVars, SameFlags, SameFlagsBut, Flags, RegOffsets,
           Select, IO, Ack, Loaded, SameMemory, ChroutAt, Searched, CR, SelectChrout
  <2>4. In("chrout_return", 1)'
    BY <1>3, <2>1, <2>2, <2>3, ArrivesSame
       DEF SamePlace, RoutineOf, Depth, ChrinLabels, ChroutLabels, Loaded, SameMemory
  <2> QED
    BY <2>4, ChroutReturnCode, WithinIs
<1> QED
  BY <1>2, <1>3

LEMMA AtChroutReturn ==
  ASSUME NEW i \in 1 .. 2, In("chrout_return", i), Kernal
  PROVE  Within'
<1>1. At("chrout_return", i)
  BY ChroutReturnCode DEF At, In
<1>2. CASE i = 1
  <2>1. /\ Step /\ Types' /\ Onward("chrout_return", 1)
        /\ SameMemory /\ SameFlagsBut({"Z"}) /\ reg'.s = Below(Base, 2)
        /\ reg'.a = Stack[Place(2)] /\ reg'.x = reg.x /\ reg'.y = reg.y
    BY <1>1, <1>2, ChroutReturnCode, AtPullA, InIs DEF Depth, RoutineOf, ChrinLabels, ChroutLabels
  <2>2. pc' = <<"chrout_return", 2>>
    BY <2>1, ChroutReturnCode DEF Onward
  <2>3. Details("chrout_return", 2)'
    BY <1>1, <1>2, <2>1, <2>2, EntryKept
       DEF In, InCall, Details, PortsAt, FetchedAt, PrintedAt, ValuesAt, Ports, PortsIdle,
           ChrinLabels, ChroutLabels, Step, SameVars, SameFlags, SameFlagsBut, Flags, RegOffsets,
           Select, IO, Ack, SameMemory, ChroutAt, Searched, CR, SelectChrout
  <2>4. In("chrout_return", 2)'
    BY <1>2, <2>1, <2>2, InIs, <2>3, Arrives
       DEF RoutineOf, Depth, ChrinLabels, ChroutLabels, SameMemory
  <2> QED
    BY <2>4, ChroutReturnCode, WithinIs
<1>3. CASE i = 2
  <2>1. /\ Step /\ Types' /\ Onward("chrout_return", 2)
        /\ SameMemory /\ SameFlagsBut({"C"}) /\ "C" \notin reg'.p
        /\ reg'.s = reg.s /\ reg'.a = reg.a /\ reg'.x = reg.x /\ reg'.y = reg.y
    BY <1>1, <1>3, ChroutReturnCode, AtClearCarry
  <2>2. pc' = <<"chrout_return", 3>>
    BY <2>1, ChroutReturnCode DEF Onward
  <2>3. Details("chrout_return", 3)'
    BY <1>1, <1>3, <2>1, <2>2, EntryKept
       DEF In, InCall, Details, PortsAt, FetchedAt, PrintedAt, ValuesAt, Ports, PortsIdle,
           ChrinLabels, ChroutLabels, Step, SameVars, SameFlags, SameFlagsBut, Flags, RegOffsets,
           Select, IO, Ack, SameMemory, ChroutAt, Searched, CR, SelectChrout
  <2>4. In("chrout_return", 3)'
    BY <1>3, <2>1, <2>2, <2>3, ArrivesSame
       DEF SamePlace, RoutineOf, Depth, ChrinLabels, ChroutLabels, SameMemory
  <2> QED
    BY <2>4, ChroutReturnCode, WithinIs
<1> QED
  BY <1>2, <1>3

LEMMA AtNotImplemented ==
  ASSUME NEW i \in 1 .. 6, In("not_implemented", i), Kernal
  PROVE  Within'
<1>1. At("not_implemented", i)
  BY NotImplementedCode DEF At, In
<1>2. CASE i = 1
  <2>1. /\ Step /\ Types' /\ Onward("not_implemented", 1)
        /\ Placed(2, Byte(reg.p)) /\ reg'.p = reg.p /\ reg'.s = Below(Base, 3)
        /\ reg'.a = reg.a /\ reg'.x = reg.x /\ reg'.y = reg.y
    BY <1>1, <1>2, NotImplementedCode, AtPush, InIs
       DEF Depth, RoutineOf, ChrinLabels, ChroutLabels
  <2>2. pc' = <<"not_implemented", 2>>
    BY <2>1, NotImplementedCode DEF Onward
  <2>3. Details("not_implemented", 2)'
    BY <1>1, <1>2, <2>1, <2>2, EntryKept
       DEF In, InCall, Details, PortsAt, FetchedAt, PrintedAt, ValuesAt, Ports, PortsIdle,
           ChrinLabels, ChroutLabels, Step, SameVars, SameFlags, SameFlagsBut, Flags, RegOffsets,
           Select, IO, Ack, Placed, NotImplementedAt, Variables, SelectNotImpl
  <2>4. In("not_implemented", 2)'
    BY <1>2, <2>1, <2>2, InIs, <2>3, Arrives
       DEF RoutineOf, Depth, ChrinLabels, ChroutLabels, Placed
  <2> QED
    BY <2>4, NotImplementedCode, WithinIs
<1>3. CASE i = 2
  <2>1. Place(2) \in StackOffsets /\ Place(2) # Place(3)
    BY PlacesAre, InIs
  <2>2. /\ Step /\ Types' /\ Onward("not_implemented", 2)
        /\ Placed(3, reg.a) /\ reg'.p = reg.p /\ reg'.s = Below(Base, 4)
        /\ reg'.a = reg.a /\ reg'.x = reg.x /\ reg'.y = reg.y
    BY <1>1, <1>3, <2>1, NotImplementedCode, AtPush, InIs
       DEF Depth, RoutineOf, ChrinLabels, ChroutLabels
  <2>3. pc' = <<"not_implemented", 3>>
    BY <2>2, NotImplementedCode DEF Onward
  <2>4. Details("not_implemented", 3)'
    BY <1>1, <1>3, <2>1, <2>2, <2>3, EntryKept
       DEF In, InCall, Details, PortsAt, FetchedAt, PrintedAt, ValuesAt, Ports, PortsIdle,
           ChrinLabels, ChroutLabels, Step, SameVars, SameFlags, SameFlagsBut, Flags, RegOffsets,
           Select, IO, Ack, Placed, NotImplementedAt, Variables, SelectNotImpl
  <2>5. In("not_implemented", 3)'
    BY <1>3, <2>2, <2>3, InIs, <2>4, Arrives
       DEF RoutineOf, Depth, ChrinLabels, ChroutLabels, Placed
  <2> QED
    BY <2>5, NotImplementedCode, WithinIs
<1>4. CASE i = 3
  <2>1. /\ Step /\ Types' /\ Onward("not_implemented", 3)
        /\ Loaded("a", 3)
    BY <1>1, <1>4, NotImplementedCode, NumbersAre, AtLoadImmediate
  <2>2. pc' = <<"not_implemented", 4>>
    BY <2>1, NotImplementedCode DEF Onward
  <2>3. Details("not_implemented", 4)'
    BY <1>1, <1>4, <2>1, <2>2, EntryKept
       DEF In, InCall, Details, PortsAt, FetchedAt, PrintedAt, ValuesAt, Ports, PortsIdle,
           ChrinLabels, ChroutLabels, Step, SameVars, SameFlags, SameFlagsBut, Flags, RegOffsets,
           Select, IO, Ack, Loaded, SameMemory, NotImplementedAt, Variables, SelectNotImpl
  <2>4. In("not_implemented", 4)'
    BY <1>4, <2>1, <2>2, <2>3, ArrivesSame
       DEF SamePlace, RoutineOf, Depth, ChrinLabels, ChroutLabels, Loaded, SameMemory
  <2> QED
    BY <2>4, NotImplementedCode, WithinIs
<1>5. CASE i = 4
  <2>1. /\ Step /\ Types' /\ Onward("not_implemented", 4)
        /\ Stored(0, reg["a"])
    BY <1>1, <1>5, NotImplementedCode, RegOffsetsAre, AtStoreSelect
  <2>2. pc' = <<"not_implemented", 5>>
    BY <2>1, NotImplementedCode DEF Onward
  <2>3. Details("not_implemented", 5)'
    BY <1>1, <1>5, <2>1, <2>2, EntryKept
       DEF In, InCall, Details, PortsAt, FetchedAt, PrintedAt, ValuesAt, Ports, PortsIdle,
           ChrinLabels, ChroutLabels, Step, SameVars, SameFlags, SameFlagsBut, Flags, RegOffsets,
           Select, IO, Ack, Stored, StoredAt, NotImplementedAt, Variables, SelectNotImpl
  <2>4. In("not_implemented", 5)'
    BY <1>5, <2>1, <2>2, <2>3, ArrivesSame
       DEF SamePlace, RoutineOf, Depth, ChrinLabels, ChroutLabels, Stored, StoredAt
  <2> QED
    BY <2>4, NotImplementedCode, WithinIs
<1>6. CASE i = 5
  <2>1. /\ Step /\ Types' /\ Onward("not_implemented", 5)
        /\ SameMemory /\ SameFlagsBut({"Z"}) /\ reg'.s = Below(Base, 3)
        /\ reg'.a = Stack[Place(3)] /\ reg'.x = reg.x /\ reg'.y = reg.y
    BY <1>1, <1>6, NotImplementedCode, AtPullA, InIs
       DEF Depth, RoutineOf, ChrinLabels, ChroutLabels
  <2>2. pc' = <<"not_implemented", 6>>
    BY <2>1, NotImplementedCode DEF Onward
  <2>3. Details("not_implemented", 6)'
    BY <1>1, <1>6, <2>1, <2>2, EntryKept
       DEF In, InCall, Details, PortsAt, FetchedAt, PrintedAt, ValuesAt, Ports, PortsIdle,
           ChrinLabels, ChroutLabels, Step, SameVars, SameFlags, SameFlagsBut, Flags, RegOffsets,
           Select, IO, Ack, SameMemory, NotImplementedAt, Variables, SelectNotImpl
  <2>4. In("not_implemented", 6)'
    BY <1>6, <2>1, <2>2, InIs, <2>3, Arrives
       DEF RoutineOf, Depth, ChrinLabels, ChroutLabels, SameMemory
  <2> QED
    BY <2>4, NotImplementedCode, WithinIs
<1>7. CASE i = 6
  <2>1. Was.p \in SUBSET Flags
    BY InIs, KernalCodeAssumption
  <2>2. Stack[Place(2)] = Byte(Was.p)
    BY <1>7 DEF In, ValuesAt, NotImplementedAt, ChrinLabels, ChroutLabels
  <2>3. 3 - 1 = 2
    OBVIOUS
  <2>4. /\ Step /\ Types' /\ Onward("not_implemented", 6)
        /\ SameMemory /\ reg'.p = Was.p /\ reg'.s = Below(Base, 2)
        /\ reg'.a = reg.a /\ reg'.x = reg.x /\ reg'.y = reg.y
    BY <1>1, <1>7, <2>1, <2>2, <2>3, NotImplementedCode, AtPullP, InIs
       DEF Depth, RoutineOf, ChrinLabels, ChroutLabels
  <2>5. pc' = <<"not_implemented", 7>>
    BY <2>4, NotImplementedCode DEF Onward
  <2>6. Details("not_implemented", 7)'
    BY <1>1, <1>7, <2>1, <2>2, <2>3, <2>4, <2>5, EntryKept
       DEF In, InCall, Details, PortsAt, FetchedAt, PrintedAt, ValuesAt, Ports, PortsIdle,
           ChrinLabels, ChroutLabels, Step, SameVars, SameFlags, SameFlagsBut, Flags, RegOffsets,
           Select, IO, Ack, SameMemory, NotImplementedAt, Variables, SelectNotImpl
  <2>7. In("not_implemented", 7)'
    BY <1>7, <2>4, <2>5, InIs, <2>6, Arrives
       DEF RoutineOf, Depth, ChrinLabels, ChroutLabels, SameMemory
  <2> QED
    BY <2>7, NotImplementedCode, WithinIs
<1> QED
  BY <1>2, <1>3, <1>4, <1>5, <1>6, <1>7

LEMMA AtScreenxy ==
  ASSUME NEW i \in 1 .. 2, In("screenxy", i), Kernal
  PROVE  Within'
<1>1. At("screenxy", i)
  BY ScreenxyCode DEF At, In
<1>2. CASE i = 1
  <2>1. /\ Step /\ Types' /\ Onward("screenxy", 1)
        /\ Loaded("x", Regs[5])
    BY <1>1, <1>2, ScreenxyCode, RegOffsetsAre, AtLoadRegister
  <2>2. pc' = <<"screenxy", 2>>
    BY <2>1, ScreenxyCode DEF Onward
  <2>3. Details("screenxy", 2)'
    BY <1>1, <1>2, <2>1, <2>2, EntryKept
       DEF In, InCall, Details, PortsAt, FetchedAt, PrintedAt, ValuesAt, Ports, PortsIdle,
           ChrinLabels, ChroutLabels, Step, SameVars, SameFlags, SameFlagsBut, Flags, RegOffsets,
           Select, IO, Ack, Loaded, SameMemory, ScreenAt, Variables
  <2>4. In("screenxy", 2)'
    BY <1>2, <2>1, <2>2, <2>3, ArrivesSame
       DEF SamePlace, RoutineOf, Depth, ChrinLabels, ChroutLabels, Loaded, SameMemory
  <2> QED
    BY <2>4, ScreenxyCode, WithinIs
<1>3. CASE i = 2
  <2>1. /\ Step /\ Types' /\ Onward("screenxy", 2)
        /\ Loaded("y", Regs[6])
    BY <1>1, <1>3, ScreenxyCode, RegOffsetsAre, AtLoadRegister
  <2>2. pc' = <<"screenxy", 3>>
    BY <2>1, ScreenxyCode DEF Onward
  <2>3. Details("screenxy", 3)'
    BY <1>1, <1>3, <2>1, <2>2, EntryKept
       DEF In, InCall, Details, PortsAt, FetchedAt, PrintedAt, ValuesAt, Ports, PortsIdle,
           ChrinLabels, ChroutLabels, Step, SameVars, SameFlags, SameFlagsBut, Flags, RegOffsets,
           Select, IO, Ack, Loaded, SameMemory, ScreenAt, Variables
  <2>4. In("screenxy", 3)'
    BY <1>3, <2>1, <2>2, <2>3, ArrivesSame
       DEF SamePlace, RoutineOf, Depth, ChrinLabels, ChroutLabels, Loaded, SameMemory
  <2> QED
    BY <2>4, ScreenxyCode, WithinIs
<1> QED
  BY <1>2, <1>3

LEMMA AtMemtop ==
  ASSUME NEW i \in 1 .. 3, In("memtop", i), Kernal
  PROVE  Within'
<1>1. At("memtop", i)
  BY MemtopCode DEF At, In
<1>2. CASE i = 1
  <2>1. Code["memtop"][i] = If("C", FALSE, "settop")
    BY <1>2, MemtopCode
  <2>2. /\ Step /\ Types' /\ SameMemory /\ reg' = reg
        /\ "C" \notin reg.p => pc' = <<"settop", 1>>
        /\ "C" \in reg.p => Onward("memtop", i)
    BY <1>1, <2>1, AtBranchUnless, Zenon
  <2>3. "C" \in reg.p => pc' = <<"memtop", 2>>
    BY <1>2, <2>2, MemtopCode DEF Onward
  <2>4. CASE "C" \notin reg.p
    <3>1. Details("settop", 1)'
      BY <1>1, <1>2, <2>2, <2>3, EntryKept, <2>4
         DEF In, InCall, Details, PortsAt, FetchedAt, PrintedAt, ValuesAt, Ports, PortsIdle,
             ChrinLabels, ChroutLabels, Step, SameVars, SameFlags, SameFlagsBut, Flags, RegOffsets,
             Select, IO, Ack, SameMemory, TellAt, SetAt, Variables
    <3>2. In("settop", 1)'
      BY <1>2, <2>2, <2>3, <2>4, <3>1, ArrivesSame
         DEF SamePlace, RoutineOf, Depth, ChrinLabels, ChroutLabels, SameMemory
    <3> QED
      BY <3>2, SettopCode, WithinIs
  <2>5. CASE "C" \in reg.p
    <3>1. Details("memtop", 2)'
      BY <1>1, <1>2, <2>2, <2>3, EntryKept, <2>5
         DEF In, InCall, Details, PortsAt, FetchedAt, PrintedAt, ValuesAt, Ports, PortsIdle,
             ChrinLabels, ChroutLabels, Step, SameVars, SameFlags, SameFlagsBut, Flags, RegOffsets,
             Select, IO, Ack, SameMemory, TellAt, SetAt, Variables
    <3>2. In("memtop", 2)'
      BY <1>2, <2>2, <2>3, <2>5, <3>1, ArrivesSame
         DEF SamePlace, RoutineOf, Depth, ChrinLabels, ChroutLabels, SameMemory
    <3> QED
      BY <3>2, MemtopCode, WithinIs
  <2> QED
    BY <2>4, <2>5
<1>3. CASE i = 2
  <2>1. /\ Step /\ Types' /\ Onward("memtop", 2)
        /\ Loaded("x", Regs[254])
    BY <1>1, <1>3, MemtopCode, RegOffsetsAre, AtLoadRegister
  <2>2. pc' = <<"memtop", 3>>
    BY <2>1, MemtopCode DEF Onward
  <2>3. Details("memtop", 3)'
    BY <1>1, <1>3, <2>1, <2>2, EntryKept
       DEF In, InCall, Details, PortsAt, FetchedAt, PrintedAt, ValuesAt, Ports, PortsIdle,
           ChrinLabels, ChroutLabels, Step, SameVars, SameFlags, SameFlagsBut, Flags, RegOffsets,
           Select, IO, Ack, Loaded, SameMemory, TellAt, SetAt, Variables
  <2>4. In("memtop", 3)'
    BY <1>3, <2>1, <2>2, <2>3, ArrivesSame
       DEF SamePlace, RoutineOf, Depth, ChrinLabels, ChroutLabels, Loaded, SameMemory
  <2> QED
    BY <2>4, MemtopCode, WithinIs
<1>4. CASE i = 3
  <2>1. /\ Step /\ Types' /\ Onward("memtop", 3)
        /\ Loaded("y", Regs[255])
    BY <1>1, <1>4, MemtopCode, RegOffsetsAre, AtLoadRegister
  <2>2. pc' = <<"memtop", 4>>
    BY <2>1, MemtopCode DEF Onward
  <2>3. Details("memtop", 4)'
    BY <1>1, <1>4, <2>1, <2>2, EntryKept
       DEF In, InCall, Details, PortsAt, FetchedAt, PrintedAt, ValuesAt, Ports, PortsIdle,
           ChrinLabels, ChroutLabels, Step, SameVars, SameFlags, SameFlagsBut, Flags, RegOffsets,
           Select, IO, Ack, Loaded, SameMemory, TellAt, SetAt, Variables
  <2>4. In("memtop", 4)'
    BY <1>4, <2>1, <2>2, <2>3, ArrivesSame
       DEF SamePlace, RoutineOf, Depth, ChrinLabels, ChroutLabels, Loaded, SameMemory
  <2> QED
    BY <2>4, MemtopCode, WithinIs
<1> QED
  BY <1>2, <1>3, <1>4

LEMMA AtSettop ==
  ASSUME NEW i \in 1 .. 2, In("settop", i), Kernal
  PROVE  Within'
<1>1. At("settop", i)
  BY SettopCode DEF At, In
<1>2. CASE i = 1
  <2>1. /\ Step /\ Types' /\ Onward("settop", 1)
        /\ Stored(254, reg["x"])
    BY <1>1, <1>2, SettopCode, RegOffsetsAre, AtStore
  <2>2. pc' = <<"settop", 2>>
    BY <2>1, SettopCode DEF Onward
  <2>3. Details("settop", 2)'
    BY <1>1, <1>2, <2>1, <2>2, EntryKept
       DEF In, InCall, Details, PortsAt, FetchedAt, PrintedAt, ValuesAt, Ports, PortsIdle,
           ChrinLabels, ChroutLabels, Step, SameVars, SameFlags, SameFlagsBut, Flags, RegOffsets,
           Select, IO, Ack, Stored, StoredAt, SetAt, Variables
  <2>4. In("settop", 2)'
    BY <1>2, <2>1, <2>2, <2>3, ArrivesSame
       DEF SamePlace, RoutineOf, Depth, ChrinLabels, ChroutLabels, Stored, StoredAt
  <2> QED
    BY <2>4, SettopCode, WithinIs
<1>3. CASE i = 2
  <2>1. /\ Step /\ Types' /\ Onward("settop", 2)
        /\ Stored(255, reg["y"])
    BY <1>1, <1>3, SettopCode, RegOffsetsAre, AtStore
  <2>2. pc' = <<"settop", 3>>
    BY <2>1, SettopCode DEF Onward
  <2>3. Details("settop", 3)'
    BY <1>1, <1>3, <2>1, <2>2, EntryKept
       DEF In, InCall, Details, PortsAt, FetchedAt, PrintedAt, ValuesAt, Ports, PortsIdle,
           ChrinLabels, ChroutLabels, Step, SameVars, SameFlags, SameFlagsBut, Flags, RegOffsets,
           Select, IO, Ack, Stored, StoredAt, SetAt, Variables
  <2>4. In("settop", 3)'
    BY <1>3, <2>1, <2>2, <2>3, ArrivesSame
       DEF SamePlace, RoutineOf, Depth, ChrinLabels, ChroutLabels, Stored, StoredAt
  <2> QED
    BY <2>4, SettopCode, WithinIs
<1> QED
  BY <1>2, <1>3

LEMMA AtMembot ==
  ASSUME NEW i \in 1 .. 3, In("membot", i), Kernal
  PROVE  Within'
<1>1. At("membot", i)
  BY MembotCode DEF At, In
<1>2. CASE i = 1
  <2>1. Code["membot"][i] = If("C", FALSE, "setbot")
    BY <1>2, MembotCode
  <2>2. /\ Step /\ Types' /\ SameMemory /\ reg' = reg
        /\ "C" \notin reg.p => pc' = <<"setbot", 1>>
        /\ "C" \in reg.p => Onward("membot", i)
    BY <1>1, <2>1, AtBranchUnless, Zenon
  <2>3. "C" \in reg.p => pc' = <<"membot", 2>>
    BY <1>2, <2>2, MembotCode DEF Onward
  <2>4. CASE "C" \notin reg.p
    <3>1. Details("setbot", 1)'
      BY <1>1, <1>2, <2>2, <2>3, EntryKept, <2>4
         DEF In, InCall, Details, PortsAt, FetchedAt, PrintedAt, ValuesAt, Ports, PortsIdle,
             ChrinLabels, ChroutLabels, Step, SameVars, SameFlags, SameFlagsBut, Flags, RegOffsets,
             Select, IO, Ack, SameMemory, TellAt, SetAt, Variables
    <3>2. In("setbot", 1)'
      BY <1>2, <2>2, <2>3, <2>4, <3>1, ArrivesSame
         DEF SamePlace, RoutineOf, Depth, ChrinLabels, ChroutLabels, SameMemory
    <3> QED
      BY <3>2, SetbotCode, WithinIs
  <2>5. CASE "C" \in reg.p
    <3>1. Details("membot", 2)'
      BY <1>1, <1>2, <2>2, <2>3, EntryKept, <2>5
         DEF In, InCall, Details, PortsAt, FetchedAt, PrintedAt, ValuesAt, Ports, PortsIdle,
             ChrinLabels, ChroutLabels, Step, SameVars, SameFlags, SameFlagsBut, Flags, RegOffsets,
             Select, IO, Ack, SameMemory, TellAt, SetAt, Variables
    <3>2. In("membot", 2)'
      BY <1>2, <2>2, <2>3, <2>5, <3>1, ArrivesSame
         DEF SamePlace, RoutineOf, Depth, ChrinLabels, ChroutLabels, SameMemory
    <3> QED
      BY <3>2, MembotCode, WithinIs
  <2> QED
    BY <2>4, <2>5
<1>3. CASE i = 2
  <2>1. /\ Step /\ Types' /\ Onward("membot", 2)
        /\ Loaded("x", Regs[252])
    BY <1>1, <1>3, MembotCode, RegOffsetsAre, AtLoadRegister
  <2>2. pc' = <<"membot", 3>>
    BY <2>1, MembotCode DEF Onward
  <2>3. Details("membot", 3)'
    BY <1>1, <1>3, <2>1, <2>2, EntryKept
       DEF In, InCall, Details, PortsAt, FetchedAt, PrintedAt, ValuesAt, Ports, PortsIdle,
           ChrinLabels, ChroutLabels, Step, SameVars, SameFlags, SameFlagsBut, Flags, RegOffsets,
           Select, IO, Ack, Loaded, SameMemory, TellAt, SetAt, Variables
  <2>4. In("membot", 3)'
    BY <1>3, <2>1, <2>2, <2>3, ArrivesSame
       DEF SamePlace, RoutineOf, Depth, ChrinLabels, ChroutLabels, Loaded, SameMemory
  <2> QED
    BY <2>4, MembotCode, WithinIs
<1>4. CASE i = 3
  <2>1. /\ Step /\ Types' /\ Onward("membot", 3)
        /\ Loaded("y", Regs[253])
    BY <1>1, <1>4, MembotCode, RegOffsetsAre, AtLoadRegister
  <2>2. pc' = <<"membot", 4>>
    BY <2>1, MembotCode DEF Onward
  <2>3. Details("membot", 4)'
    BY <1>1, <1>4, <2>1, <2>2, EntryKept
       DEF In, InCall, Details, PortsAt, FetchedAt, PrintedAt, ValuesAt, Ports, PortsIdle,
           ChrinLabels, ChroutLabels, Step, SameVars, SameFlags, SameFlagsBut, Flags, RegOffsets,
           Select, IO, Ack, Loaded, SameMemory, TellAt, SetAt, Variables
  <2>4. In("membot", 4)'
    BY <1>4, <2>1, <2>2, <2>3, ArrivesSame
       DEF SamePlace, RoutineOf, Depth, ChrinLabels, ChroutLabels, Loaded, SameMemory
  <2> QED
    BY <2>4, MembotCode, WithinIs
<1> QED
  BY <1>2, <1>3, <1>4

LEMMA AtSetbot ==
  ASSUME NEW i \in 1 .. 2, In("setbot", i), Kernal
  PROVE  Within'
<1>1. At("setbot", i)
  BY SetbotCode DEF At, In
<1>2. CASE i = 1
  <2>1. /\ Step /\ Types' /\ Onward("setbot", 1)
        /\ Stored(252, reg["x"])
    BY <1>1, <1>2, SetbotCode, RegOffsetsAre, AtStore
  <2>2. pc' = <<"setbot", 2>>
    BY <2>1, SetbotCode DEF Onward
  <2>3. Details("setbot", 2)'
    BY <1>1, <1>2, <2>1, <2>2, EntryKept
       DEF In, InCall, Details, PortsAt, FetchedAt, PrintedAt, ValuesAt, Ports, PortsIdle,
           ChrinLabels, ChroutLabels, Step, SameVars, SameFlags, SameFlagsBut, Flags, RegOffsets,
           Select, IO, Ack, Stored, StoredAt, SetAt, Variables
  <2>4. In("setbot", 2)'
    BY <1>2, <2>1, <2>2, <2>3, ArrivesSame
       DEF SamePlace, RoutineOf, Depth, ChrinLabels, ChroutLabels, Stored, StoredAt
  <2> QED
    BY <2>4, SetbotCode, WithinIs
<1>3. CASE i = 2
  <2>1. /\ Step /\ Types' /\ Onward("setbot", 2)
        /\ Stored(253, reg["y"])
    BY <1>1, <1>3, SetbotCode, RegOffsetsAre, AtStore
  <2>2. pc' = <<"setbot", 3>>
    BY <2>1, SetbotCode DEF Onward
  <2>3. Details("setbot", 3)'
    BY <1>1, <1>3, <2>1, <2>2, EntryKept
       DEF In, InCall, Details, PortsAt, FetchedAt, PrintedAt, ValuesAt, Ports, PortsIdle,
           ChrinLabels, ChroutLabels, Step, SameVars, SameFlags, SameFlagsBut, Flags, RegOffsets,
           Select, IO, Ack, Stored, StoredAt, SetAt, Variables
  <2>4. In("setbot", 3)'
    BY <1>3, <2>1, <2>2, <2>3, ArrivesSame
       DEF SamePlace, RoutineOf, Depth, ChrinLabels, ChroutLabels, Stored, StoredAt
  <2> QED
    BY <2>4, SetbotCode, WithinIs
<1> QED
  BY <1>2, <1>3

-----------------------------------------------------------------------------
(* From each instruction of the reset to the next. *)

LEMMA AtReset ==
  ASSUME NEW i \in 1 .. 11, InReset(i), Kernal
  PROVE  InReset(i + 1)'
<1>1. At("reset", i)
  BY ResetCode DEF At, InReset
<1>2. \A o \in 3 .. 10 : Regs[o] = InitialRegisters(machine)[o]
  BY DEF InReset, Types
<1>3. entry.routine = "reset" /\ Was.s \in StackPointers /\ OnStack(Depth("reset", i))
  BY DEF InReset, ResetAt, Base, OnStack

<1>4. CASE i = 1
  <2>1. /\ Step /\ Types' /\ Onward("reset", 1)
        /\ SameMemory /\ SameFlagsBut({"D"}) /\ "D" \notin reg'.p
        /\ reg'.s = reg.s /\ reg'.a = reg.a /\ reg'.x = reg.x /\ reg'.y = reg.y
    BY <1>1, <1>4, ResetCode, AtClearDecimal
  <2>2. pc' = <<"reset", 2>>
    BY <2>1, ResetCode DEF Onward
  <2>3. ResetAt(2)' /\ PortsAt("reset", 2)'
    BY <1>2, <1>3, <1>4, <2>1
       DEF InReset, ResetAt, PortsAt, PortsIdle, ChrinLabels, ChroutLabels, Step, Depth,
           SameFlagsBut, Flags, RegOffsets, Select, IO, Ack, Was, Base, SameMemory
  <2>4. InReset(2)'
    BY <2>1, <2>2, <2>3 DEF InReset
  <2> QED
    BY <1>4, <2>4
<1>5. CASE i = 2
  <2>1. /\ Step /\ Types' /\ Onward("reset", 2)
        /\ Loaded("a", Regs[9])
    BY <1>1, <1>5, ResetCode, RegOffsetsAre, AtLoadRegister
  <2>2. pc' = <<"reset", 3>>
    BY <2>1, ResetCode DEF Onward
  <2>3. ResetAt(3)' /\ PortsAt("reset", 3)'
    BY <1>2, <1>3, <1>5, <2>1
       DEF InReset, ResetAt, PortsAt, PortsIdle, ChrinLabels, ChroutLabels, Step, Depth,
           SameFlagsBut, Flags, RegOffsets, Select, IO, Ack, Was, Base, Loaded, SameMemory
  <2>4. InReset(3)'
    BY <2>1, <2>2, <2>3 DEF InReset
  <2> QED
    BY <1>5, <2>4
<1>6. CASE i = 3
  <2>1. /\ Step /\ Types' /\ Onward("reset", 3)
        /\ Stored(252, reg["a"])
    BY <1>1, <1>6, ResetCode, RegOffsetsAre, AtStore
  <2>2. pc' = <<"reset", 4>>
    BY <2>1, ResetCode DEF Onward
  <2>3. ResetAt(4)' /\ PortsAt("reset", 4)'
    BY <1>2, <1>3, <1>6, <2>1
       DEF InReset, ResetAt, PortsAt, PortsIdle, ChrinLabels, ChroutLabels, Step, Depth,
           SameFlagsBut, Flags, RegOffsets, Select, IO, Ack, Was, Base, Stored, StoredAt
  <2>4. InReset(4)'
    BY <2>1, <2>2, <2>3 DEF InReset
  <2> QED
    BY <1>6, <2>4
<1>7. CASE i = 4
  <2>1. /\ Step /\ Types' /\ Onward("reset", 4)
        /\ Loaded("a", Regs[10])
    BY <1>1, <1>7, ResetCode, RegOffsetsAre, AtLoadRegister
  <2>2. pc' = <<"reset", 5>>
    BY <2>1, ResetCode DEF Onward
  <2>3. ResetAt(5)' /\ PortsAt("reset", 5)'
    BY <1>2, <1>3, <1>7, <2>1
       DEF InReset, ResetAt, PortsAt, PortsIdle, ChrinLabels, ChroutLabels, Step, Depth,
           SameFlagsBut, Flags, RegOffsets, Select, IO, Ack, Was, Base, Loaded, SameMemory
  <2>4. InReset(5)'
    BY <2>1, <2>2, <2>3 DEF InReset
  <2> QED
    BY <1>7, <2>4
<1>8. CASE i = 5
  <2>1. /\ Step /\ Types' /\ Onward("reset", 5)
        /\ Stored(253, reg["a"])
    BY <1>1, <1>8, ResetCode, RegOffsetsAre, AtStore
  <2>2. pc' = <<"reset", 6>>
    BY <2>1, ResetCode DEF Onward
  <2>3. ResetAt(6)' /\ PortsAt("reset", 6)'
    BY <1>2, <1>3, <1>8, <2>1
       DEF InReset, ResetAt, PortsAt, PortsIdle, ChrinLabels, ChroutLabels, Step, Depth,
           SameFlagsBut, Flags, RegOffsets, Select, IO, Ack, Was, Base, Stored, StoredAt
  <2>4. InReset(6)'
    BY <2>1, <2>2, <2>3 DEF InReset
  <2> QED
    BY <1>8, <2>4
<1>9. CASE i = 6
  <2>1. /\ Step /\ Types' /\ Onward("reset", 6)
        /\ Loaded("a", Regs[7])
    BY <1>1, <1>9, ResetCode, RegOffsetsAre, AtLoadRegister
  <2>2. pc' = <<"reset", 7>>
    BY <2>1, ResetCode DEF Onward
  <2>3. ResetAt(7)' /\ PortsAt("reset", 7)'
    BY <1>2, <1>3, <1>9, <2>1
       DEF InReset, ResetAt, PortsAt, PortsIdle, ChrinLabels, ChroutLabels, Step, Depth,
           SameFlagsBut, Flags, RegOffsets, Select, IO, Ack, Was, Base, Loaded, SameMemory
  <2>4. InReset(7)'
    BY <2>1, <2>2, <2>3 DEF InReset
  <2> QED
    BY <1>9, <2>4
<1>10. CASE i = 7
  <2>1. /\ Step /\ Types' /\ Onward("reset", 7)
        /\ Stored(254, reg["a"])
    BY <1>1, <1>10, ResetCode, RegOffsetsAre, AtStore
  <2>2. pc' = <<"reset", 8>>
    BY <2>1, ResetCode DEF Onward
  <2>3. ResetAt(8)' /\ PortsAt("reset", 8)'
    BY <1>2, <1>3, <1>10, <2>1
       DEF InReset, ResetAt, PortsAt, PortsIdle, ChrinLabels, ChroutLabels, Step, Depth,
           SameFlagsBut, Flags, RegOffsets, Select, IO, Ack, Was, Base, Stored, StoredAt
  <2>4. InReset(8)'
    BY <2>1, <2>2, <2>3 DEF InReset
  <2> QED
    BY <1>10, <2>4
<1>11. CASE i = 8
  <2>1. /\ Step /\ Types' /\ Onward("reset", 8)
        /\ Loaded("a", Regs[8])
    BY <1>1, <1>11, ResetCode, RegOffsetsAre, AtLoadRegister
  <2>2. pc' = <<"reset", 9>>
    BY <2>1, ResetCode DEF Onward
  <2>3. ResetAt(9)' /\ PortsAt("reset", 9)'
    BY <1>2, <1>3, <1>11, <2>1
       DEF InReset, ResetAt, PortsAt, PortsIdle, ChrinLabels, ChroutLabels, Step, Depth,
           SameFlagsBut, Flags, RegOffsets, Select, IO, Ack, Was, Base, Loaded, SameMemory
  <2>4. InReset(9)'
    BY <2>1, <2>2, <2>3 DEF InReset
  <2> QED
    BY <1>11, <2>4
<1>12. CASE i = 9
  <2>1. /\ Step /\ Types' /\ Onward("reset", 9)
        /\ Stored(255, reg["a"])
    BY <1>1, <1>12, ResetCode, RegOffsetsAre, AtStore
  <2>2. pc' = <<"reset", 10>>
    BY <2>1, ResetCode DEF Onward
  <2>3. ResetAt(10)' /\ PortsAt("reset", 10)'
    BY <1>2, <1>3, <1>12, <2>1
       DEF InReset, ResetAt, PortsAt, PortsIdle, ChrinLabels, ChroutLabels, Step, Depth,
           SameFlagsBut, Flags, RegOffsets, Select, IO, Ack, Was, Base, Stored, StoredAt
  <2>4. InReset(10)'
    BY <2>1, <2>2, <2>3 DEF InReset
  <2> QED
    BY <1>12, <2>4
<1>13. CASE i = 10
  <2>1. /\ Step /\ Types' /\ Onward("reset", 10)
        /\ Placed(0, reg.a) /\ reg'.p = reg.p /\ reg'.s = Below(Base, 1)
        /\ reg'.a = reg.a /\ reg'.x = reg.x /\ reg'.y = reg.y
    BY <1>1, <1>13, ResetCode, <1>3, AtPush DEF Depth
  <2>2. pc' = <<"reset", 11>>
    BY <2>1, ResetCode DEF Onward
  <2>3. ResetAt(11)' /\ PortsAt("reset", 11)'
    BY <1>2, <1>3, <1>13, <2>1
       DEF InReset, ResetAt, PortsAt, PortsIdle, ChrinLabels, ChroutLabels, Step, Depth,
           SameFlagsBut, Flags, RegOffsets, Select, IO, Ack, Was, Base, Placed
  <2>4. InReset(11)'
    BY <2>1, <2>2, <2>3 DEF InReset
  <2> QED
    BY <1>13, <2>4
<1>14. CASE i = 11
  <2>1. /\ Step /\ Types' /\ Onward("reset", 11)
        /\ Placed(1, reg.a) /\ reg'.p = reg.p /\ reg'.s = Below(Base, 2)
        /\ reg'.a = reg.a /\ reg'.x = reg.x /\ reg'.y = reg.y
    BY <1>1, <1>14, ResetCode, <1>3, AtPush DEF Depth
  <2>2. pc' = <<"reset", 12>>
    BY <2>1, ResetCode DEF Onward
  <2>3. ResetAt(12)' /\ PortsAt("reset", 12)'
    BY <1>2, <1>3, <1>14, <2>1
       DEF InReset, ResetAt, PortsAt, PortsIdle, ChrinLabels, ChroutLabels, Step, Depth,
           SameFlagsBut, Flags, RegOffsets, Select, IO, Ack, Was, Base, Placed
  <2>4. InReset(12)'
    BY <2>1, <2>2, <2>3 DEF InReset
  <2> QED
    BY <1>14, <2>4
<1> QED
  BY <1>4, <1>5, <1>6, <1>7, <1>8, <1>9, <1>10, <1>11, <1>12, <1>13, <1>14

-----------------------------------------------------------------------------
(* The ways back to BASIC. *)

LEMMA BasicEntryIs ==
  ASSUME machine \in Machines
  PROVE  /\ BasicEntry(machine) \in Nat /\ BasicEntry(machine) < 65536
         /\ BasicEntry(machine) = InitialRegisters(machine)[3] + 256 * InitialRegisters(machine)[4]
BY DEF Machines, BasicEntry, InitialWord, InitialRegisters

LEMMA ResetEnds ==
  ASSUME InReset(12), Kernal
  PROVE  /\ InBasic' /\ Step /\ SameMemory /\ reg' = reg
<1>1. At("reset", 12)
  BY ResetCode DEF At, InReset
<1>2. /\ Step /\ Types' /\ SameMemory /\ reg' = reg
      /\ pc' = <<"app", Regs[3] + 256 * Regs[4]>>
  BY <1>1, ResetCode, AtJumpToBasic
<1>3. Regs[3] + 256 * Regs[4] = (BasicEntry(machine) + calls) % 65536
  <2>1. Regs[3] + 256 * Regs[4] = BasicEntry(machine) /\ machine \in Machines /\ calls = 0
    BY BasicEntryIs DEF InReset, Types, ResetAt
  <2> QED
    BY <2>1, BasicEntryIs
<1>4. AtRest'
  <2>1. calls' = 0 /\ printed' = <<>> /\ machine' = machine /\ calls = 0
    BY <1>2 DEF InReset, ResetAt, Step
  <2>2. pc'[2] = (BasicEntry(machine') + calls') % 65536
    BY <1>2, <1>3, <2>1
  <2> QED
    BY <2>1, <2>2 DEF AtRest
<1>5. PortsAt("app", pc[2])'
  BY <1>2 DEF InReset, PortsAt, PortsIdle, SameMemory
<1>6. pc' = <<"app", pc'[2]>>
  BY <1>2
<1> QED
  BY <1>2, <1>4, <1>5, <1>6 DEF InBasic

LEMMA PrintedOnce ==
  ASSUME NEW l, NEW i, In(l, i)
  PROVE  Len(printed) <= 1
<1>1. Len(<<>>) <= 1 /\ Len(Output) <= 1
  BY DEF Output
<1> QED
  BY <1>1 DEF In, InCall, PrintedAt

LEMMA ReturnAddressIs ==
  ASSUME machine \in Machines, calls \in Nat, calls > 0
  PROVE  Next16(ReturnAddress) = (BasicEntry(machine) + calls) % 65536
<1> DEFINE b == BasicEntry(machine) + calls - 1
<1>1. b \in Nat /\ b + 1 = BasicEntry(machine) + calls
  BY BasicEntryIs
<1> HIDE DEF b
<1>2. ((b % 65536) + 1) % 65536 = (b + 1) % 65536
  BY <1>1
<1> QED
  BY <1>1, <1>2 DEF Next16, ReturnAddress, b

(* A call that has left the stack as it found it, and gone where it came   *)
(* from, is back in BASIC.                                                 *)
LEMMA BackInBasic ==
  ASSUME NEW l, NEW i, In(l, i), l # "reset", RoutineOf(l) # "reset",
         PortsIdle, Step, Types', SameMemory, NEW a, pc' = <<"app", a>>,
         a = (BasicEntry(machine) + calls) % 65536
  PROVE  InBasic'
<1>1. Pushed' /\ Untouched'
  <2>1. Stack' = Stack
    BY DEF SameMemory
  <2> QED
    BY <2>1, CallKept DEF In, InCall
<1>2. machine' = machine /\ calls' = calls /\ printed' = printed /\ entry' = entry
  BY DEF Step
<1>3. AtRest'
  <2>1. pc'[2] = (BasicEntry(machine') + calls') % 65536
    BY <1>2
  <2>2. Len(printed') <= 1
    BY <1>2, PrintedOnce
  <2>3. entry'.routine # "reset"
    BY <1>2, InIs
  <2> QED
    BY <1>1, <2>1, <2>2, <2>3 DEF AtRest, Pushed
<1>4. PortsAt("app", pc[2])'
  BY DEF PortsAt, PortsIdle, SameMemory
<1>5. pc' = <<"app", pc'[2]>>
  OBVIOUS
<1> QED
  BY <1>3, <1>4, <1>5 DEF InBasic

LEMMA SubroutineReturns ==
  ASSUME NEW l, NEW i, In(l, i), l \in DOMAIN Code, Kernal, Code[l][i] = Op("rts"),
         l # "reset", RoutineOf(l) \notin {"reset", "IRQ_service_routine"},
         Depth(l, i) = 2, PortsIdle
  PROVE  /\ InBasic' /\ Step /\ SameMemory
         /\ reg'.a = reg.a /\ reg'.x = reg.x /\ reg'.y = reg.y /\ reg'.p = reg.p
         /\ reg'.s = Was.s
<1>1. At(l, i)
  BY DEF At, In
<1>2. Was \in Arguments /\ entry.routine \notin {"reset", "IRQ_service_routine"} /\ OnStack(2)
  BY InIs
<1>3. /\ Step /\ Types' /\ SameMemory
      /\ reg'.a = reg.a /\ reg'.x = reg.x /\ reg'.y = reg.y /\ reg'.p = reg.p
      /\ reg'.s = Was.s
      /\ pc' = <<"app", Next16(Stack[Place(1)] + 256 * Stack[Place(0)])>>
  BY <1>1, <1>2, AtReturn
<1>4. Next16(Stack[Place(1)] + 256 * Stack[Place(0)]) = (BasicEntry(machine) + calls) % 65536
  <2>1. Stack[Place(1)] + 256 * Stack[Place(0)] = ReturnAddress /\ calls > 0
    BY <1>2 DEF In, InCall, Pushed
  <2>2. machine \in Machines /\ calls \in Nat
    BY KernalCodeAssumption DEF In, Types
  <2> QED
    BY <2>1, <2>2, ReturnAddressIs
<1> QED
  BY <1>3, <1>4, BackInBasic

LEMMA InterruptReturns ==
  ASSUME In("IRQ_service_routine", 1), Kernal
  PROVE  /\ InBasic' /\ Step /\ SameMemory
         /\ reg'.a = reg.a /\ reg'.x = reg.x /\ reg'.y = reg.y /\ reg'.p = Was.p
         /\ reg'.s = Was.s
<1>1. At("IRQ_service_routine", 1)
  BY InterruptCode DEF At, In
<1>2. Was \in Arguments /\ entry.routine = "IRQ_service_routine" /\ OnStack(3)
  BY InIs DEF Depth, RoutineOf, ChrinLabels, ChroutLabels
<1>3. Was.p \in SUBSET Flags /\ Stack[Place(2)] = Byte(Was.p)
  BY <1>2, KernalCodeAssumption DEF In, InCall, Pushed
<1>4. /\ Step /\ Types' /\ SameMemory
      /\ reg'.a = reg.a /\ reg'.x = reg.x /\ reg'.y = reg.y /\ reg'.p = Was.p
      /\ reg'.s = Was.s
      /\ pc' = <<"app", Stack[Place(1)] + 256 * Stack[Place(0)]>>
  BY <1>1, <1>2, <1>3, InterruptCode, AtReturnFromInterrupt
<1>5. Stack[Place(1)] + 256 * Stack[Place(0)] = (BasicEntry(machine) + calls) % 65536
  <2>1. Stack[Place(1)] + 256 * Stack[Place(0)] = Next16(ReturnAddress) /\ calls > 0
    BY <1>2 DEF In, InCall, Pushed
  <2>2. machine \in Machines /\ calls \in Nat
    BY KernalCodeAssumption DEF In, Types
  <2> QED
    BY <2>1, <2>2, ReturnAddressIs
<1>6. PortsIdle
  BY DEF In, PortsAt, ChrinLabels, ChroutLabels
<1>7. RoutineOf("IRQ_service_routine") # "reset"
  BY DEF RoutineOf, ChrinLabels, ChroutLabels
<1> QED
  BY <1>4, <1>5, <1>6, <1>7, BackInBasic

-----------------------------------------------------------------------------
(* Into the reset, and into a call.                                        *)

LEMMA PowerOnStarts ==
  ASSUME Off, NEW m \in Machines, PowerOn(m)
  PROVE  InReset(1)'
<1> DEFINE n == IF m = "C64" THEN 5 ELSE 4
           init == InitialRegisters(m)
<1>1. /\ DOMAIN RangesOf[m] = 1 .. n /\ n \in {4, 5}
      /\ RangesOf[m][2].kind = "registers" /\ RangesOf[m][2].byte = 0
      /\ RangesOf[m][n].kind = "RAM" /\ RangesOf[m][n].byte = 0
      /\ \A i \in 1 .. n \ {2, n} : RangesOf[m][i].kind = "ROM"
  BY RangesOfMachine
<1>2. /\ Offsets(RangesOf[m][2]) = RegOffsets /\ Offsets(RangesOf[m][n]) = StackOffsets
      /\ \A i \in 1 .. n \ {2, n} : Offsets(RangesOf[m][i]) = {}
  BY <1>1 DEF Offsets, RegOffsets, StackOffsets
<1>3. DOMAIN init = 1 .. 10 /\ \A o \in 1 .. 10 : init[o] \in Bytes
  BY DEF InitialRegisters, Bytes
<1>4. init[1] = 0 /\ init[2] = 0
  BY DEF InitialRegisters
<1>5. RAMIndex' = n /\ machine' = m
  BY DEF PowerOn, RAMIndex
<1> HIDE DEF n, init
<1>6. data' = [i \in 1 .. n |->
                [o \in Offsets(RangesOf[m][i]) |->
                   IF RangesOf[m][i].kind = "registers" /\ o \in 1 .. 10
                   THEN init[o] ELSE RangesOf[m][i].byte]]
  BY <1>1, <1>3 DEF PowerOn, init
<1>7. /\ data'[2] = [o \in RegOffsets |-> IF o \in 1 .. 10 THEN init[o] ELSE 0]
      /\ data'[n] = [o \in StackOffsets |-> 0]
      /\ \A i \in 1 .. n \ {2, n} : data'[i] \in [{} -> Bytes]
  <2>1. data'[2] = [o \in RegOffsets |-> IF o \in 1 .. 10 THEN init[o] ELSE 0]
    BY <1>1, <1>2, <1>6
  <2>2. data'[n] = [o \in StackOffsets |-> 0]
    BY <1>1, <1>2, <1>6
  <2>3. ASSUME NEW i \in 1 .. n \ {2, n}
        PROVE  data'[i] \in [{} -> Bytes]
    BY <1>1, <1>2, <1>6
  <2> QED
    BY <2>1, <2>2, <2>3
<1>8. /\ data'[2] \in [RegOffsets -> Bytes] /\ data'[n] \in [StackOffsets -> Bytes]
      /\ data' = [i \in 1 .. n |-> data'[i]]
  BY <1>1, <1>3, <1>6, <1>7, NumbersAre
<1>9. Memory(data)'
  BY <1>5, <1>7, <1>8 DEF Memory
<1>10. Regs' = [o \in RegOffsets |-> IF o \in 1 .. 10 THEN init[o] ELSE 0]
  BY <1>7 DEF Regs
<1>11. /\ \A o \in 3 .. 10 : Regs'[o] = init[o]
       /\ Regs'[0] = 0 /\ Regs'[1] = 0 /\ Regs'[2] = 0 /\ Regs'[250] = 0
  BY <1>4, <1>10, RegOffsetsAre
<1>12. /\ reg' \in RegisterSets /\ reg'.s \in StackPointers /\ reg'.s \in Bytes
  <2>1. 0 \in Bytes /\ StackPointers \subseteq Bytes
    BY KernalCodeAssumption DEF Bytes
  <2> QED
    BY <2>1 DEF PowerOn, RegisterSets, Flags
<1>13. /\ turn' = turn /\ eof' = eof /\ calls' = calls /\ fetched' = fetched /\ printed' = printed
       /\ entry'.routine = "reset" /\ entry'.data = <<>> /\ entry'.reg = reg'
       /\ pc' = <<"reset", 1>>
  BY DEF PowerOn, NoCall
<1>14. Types'
  <2>1. 0 \in 0 .. MaxCalls
    BY KernalCodeAssumption
  <2>2. \A o \in 3 .. 10 : Regs'[o] = InitialRegisters(machine)'[o]
    BY <1>5, <1>11 DEF init
  <2> QED
    BY <1>5, <1>9, <1>12, <1>13, <2>1, <2>2 DEF Types, Off
<1>15. PortsAt("reset", 1)'
  BY <1>11 DEF PortsAt, PortsIdle, Select, IO, Ack
<1>16. ResetAt(1)'
  <2>1. Below(reg'.s, Depth("reset", 1)) = reg'.s
    <3>1. Depth("reset", 1) = 0
      BY DEF Depth
    <3> QED
      BY <1>12, <3>1, BelowAre
  <2> QED
    BY <1>11, <1>12, <1>13, <2>1 DEF ResetAt, Off, Was
<1> QED
  BY <1>13, <1>14, <1>15, <1>16 DEF InReset

(* An address is pushed as its two bytes, which make it up again.          *)
LEMMA BytesOfAddress ==
  ASSUME NEW a \in Addresses
  PROVE  /\ a \div 256 \in Bytes /\ a % 256 \in Bytes
         /\ (a % 256) + 256 * (a \div 256) = a
BY SMTT(20) DEF Bytes, Addresses

LEMMA AddressPushed ==
  ASSUME machine \in Machines, Memory(data), NEW args \in Arguments, NEW a \in Addresses,
         NEW pushed, pushed = PushAddress(data, args.s, a),
         NEW top, top = 256 + Below(args.s, 0), NEW next, next = 256 + Below(args.s, 1)
  PROVE  /\ Memory(pushed) /\ pushed[2] = Regs
         /\ pushed[RAMIndex][top] = a \div 256 /\ pushed[RAMIndex][next] = a % 256
         /\ \A o \in StackOffsets : o \notin {top, next} => pushed[RAMIndex][o] = Stack[o]
<1> DEFINE once == Store(ranges, data, top, a \div 256)
<1>1. args.s \in Bytes
  BY KernalCodeAssumption DEF Bytes
<1>2. pushed = Store(ranges, once, next, a % 256)
  <2>1. Below(args.s, 0) = args.s
    BY <1>1, BelowAre
  <2> QED
    BY <2>1 DEF PushAddress, Push
<1> HIDE DEF once
<1>3. top \in StackOffsets /\ next \in StackOffsets /\ top # next
  <2>1. top \in StackOffsets /\ next \in StackOffsets
    BY StackOffsetsAre
  <2>2. Below(args.s, 0) # Below(args.s, 1)
    BY <1>1, BelowDiffers
  <2>3. Below(args.s, 0) \in Bytes /\ Below(args.s, 1) \in Bytes
    BY <1>1, BelowAre
  <2>4. Below(args.s, 0) \in Nat /\ Below(args.s, 1) \in Nat
    BY <2>3 DEF Bytes
  <2> QED
    BY <2>1, <2>2, <2>4
<1>4. a \div 256 \in Bytes /\ a % 256 \in Bytes
  BY BytesOfAddress
<1> DEFINE high == a \div 256
           low == a % 256
<1>5. /\ Memory(once) /\ once[2] = data[2]
      /\ once[RAMIndex] = [data[RAMIndex] EXCEPT ![top] = high]
  <2>1. once = Store(ranges, data, top, high)
    BY DEF once
  <2>2. high \in Bytes /\ top \in StackOffsets
    BY <1>3, <1>4
  <2> HIDE DEF high, low
  <2>3. /\ Memory(Store(ranges, data, top, high)) /\ Store(ranges, data, top, high)[2] = data[2]
        /\ Store(ranges, data, top, high)[RAMIndex] = [data[RAMIndex] EXCEPT ![top] = high]
    BY <2>2, StoreStack
  <2> QED
    BY <2>1, <2>3
<1>6. /\ Memory(pushed) /\ pushed[2] = once[2]
      /\ pushed[RAMIndex] = [once[RAMIndex] EXCEPT ![next] = low]
  <2>1. pushed = Store(ranges, once, next, low)
    BY <1>2
  <2>2. low \in Bytes /\ next \in StackOffsets /\ Memory(once)
    BY <1>3, <1>4, <1>5
  <2> HIDE DEF high, low
  <2>3. /\ Memory(Store(ranges, once, next, low)) /\ Store(ranges, once, next, low)[2] = once[2]
        /\ Store(ranges, once, next, low)[RAMIndex] = [once[RAMIndex] EXCEPT ![next] = low]
    BY <2>2, StoreStack
  <2> QED
    BY <2>1, <2>3
<1> HIDE DEF high, low
<1>7. /\ pushed[2] = Regs
      /\ pushed[RAMIndex][top] = high /\ pushed[RAMIndex][next] = low
      /\ \A o \in StackOffsets : o \notin {top, next} => pushed[RAMIndex][o] = Stack[o]
  <2>1. data[2] = Regs /\ data[RAMIndex] = Stack /\ DOMAIN data[RAMIndex] = StackOffsets
    BY DEF Regs, Stack, Memory
  <2>2. DOMAIN once[RAMIndex] = StackOffsets
    BY <1>5, <2>1
  <2> QED
    BY <1>3, <1>5, <1>6, <2>1, <2>2
<1> QED
  BY <1>6, <1>7 DEF high, low

Entrances == {"chrin", "chrout", "screenxy", "memtop", "membot", "not_implemented",
              "IRQ_service_routine"}

LEMMA Entered ==
  ASSUME InBasic, NEW args \in Arguments, NEW routine \in Entrances, NEW n, NEW word \in Addresses,
         \/ routine # "IRQ_service_routine" /\ n = 2 /\ word = pc[2]
         \/ routine = "IRQ_service_routine" /\ n = 3 /\ word = Next16(pc[2]),
         Enters(routine, args, n), Memory(data'), data'[2] = Regs,
         NEW stack, stack = data'[RAMIndex],
         stack[256 + Below(args.s, 0)] = word \div 256,
         stack[256 + Below(args.s, 1)] = word % 256,
         n = 3 => stack[256 + Below(args.s, 2)] = Byte(args.p),
         \A o \in StackOffsets :
           o \notin {256 + Below(args.s, m) : m \in 0 .. 3} => stack[o] = Stack[o]
  PROVE  In(routine, 1)'
<1>1. /\ turn' = "host" /\ calls' = calls + 1 /\ calls < MaxCalls
      /\ entry' = [routine |-> routine, reg |-> args, data |-> data]
      /\ fetched' = 0 /\ printed' = <<>> /\ pc' = <<routine, 1>>
      /\ reg' = [args EXCEPT !.s = Below(args.s, n)]
      /\ machine' = machine /\ eof' = eof
  BY DEF Enters
<1>2. /\ Types /\ PortsIdle /\ pc[2] = (BasicEntry(machine) + calls) % 65536
  BY DEF InBasic, PortsAt, AtRest
<1>3. RAMIndex' = RAMIndex /\ Memory(data)' /\ Memory(entry.data)'
      /\ Regs' = Regs /\ Stack' = stack
  <2>1. RAMIndex' = RAMIndex
    BY <1>1 DEF RAMIndex
  <2>2. Memory(data)' /\ Memory(entry.data)'
    BY <1>1, <1>2, <2>1, MemoryTyped DEF Memory
  <2> QED
    BY <2>1, <2>2 DEF Regs, Stack
<1>4. /\ Was' = args /\ Had' = Regs /\ Base' = args.s
      /\ \A m : Place(m)' = 256 + Below(args.s, m)
  <2>1. Was' = args /\ Had' = Regs
    BY <1>1, <1>2, MemoryTyped DEF Was, Had
  <2>2. Base' = args.s
    BY <1>1, <2>1 DEF Base, Entrances
  <2> QED
    BY <2>1, <2>2 DEF Place
<1>5. args \in [a : Bytes, x : Bytes, y : Bytes, s : Bytes, p : SUBSET Flags]
  BY KernalCodeAssumption DEF Bytes
<1>6. /\ reg' \in RegisterSets
      /\ reg'.a = args.a /\ reg'.x = args.x /\ reg'.y = args.y /\ reg'.p = args.p
      /\ reg'.s = Below(args.s, n)
  <2>1. Below(args.s, n) \in Bytes
    BY <1>5, BelowAre
  <2> QED
    BY <1>1, <1>5, <2>1 DEF RegisterSets
<1>7. Types'
  <2>1. calls' \in 0 .. MaxCalls /\ calls \in Nat
    BY <1>1, <1>2, KernalCodeAssumption DEF Types
  <2> QED
    BY <1>1, <1>2, <1>3, <1>6, <2>1 DEF Types
<1>8. Pushed'
  <2>1. calls \in Nat /\ calls' > 0 /\ machine \in Machines
    BY <1>1, <1>2, KernalCodeAssumption DEF Types
  <2>2. ReturnAddress' = pc[2]
    <3>1. BasicEntry(machine) \in Nat
      BY <2>1, BasicEntryIs
    <3>2. BasicEntry(machine') + calls' - 1 = BasicEntry(machine) + calls
      BY <1>1, <2>1, <3>1
    <3> QED
      BY <1>2, <3>2 DEF ReturnAddress
  <2>3. Stack'[Place(1)'] + 256 * Stack'[Place(0)'] = word
    <3>1. (word % 256) + 256 * (word \div 256) = word
      BY BytesOfAddress
    <3>2. Stack'[Place(1)'] = word % 256 /\ Stack'[Place(0)'] = word \div 256
      BY <1>3, <1>4
    <3> QED
      BY <3>1, <3>2
  <2>4. Stack'[Place(1)'] + 256 * Stack'[Place(0)'] =
          IF entry'.routine = "IRQ_service_routine" THEN Next16(ReturnAddress') ELSE ReturnAddress'
    BY <1>1, <2>2, <2>3
  <2>5. entry'.routine = "IRQ_service_routine" => Stack'[Place(2)'] = Byte(Was'.p)
    BY <1>1, <1>3, <1>4
  <2> QED
    BY <1>3, <1>4, <2>1, <2>4, <2>5, Zenon DEF Pushed
<1>9. Untouched'
  <2>1. {Place(m)' : m \in 0 .. 3} = {256 + Below(args.s, m) : m \in 0 .. 3}
    BY <1>4
  <2>2. entry'.data[RAMIndex'] = Stack
    BY <1>1, <1>3 DEF Stack
  <2>3. \A o \in StackOffsets : o \notin {Place(m) : m \in 0 .. 3}' =>
          Stack'[o] = entry'.data[RAMIndex'][o]
    BY <1>3, <2>1, <2>2
  <2>4. \A o \in 3 .. 10 : Regs'[o] = Had'[o]
    BY <1>3, <1>4
  <2> QED
    BY <2>3, <2>4 DEF Untouched
<1>10. FetchedAt(routine, 1)' /\ PrintedAt(routine, 1)'
  BY <1>1 DEF FetchedAt, PrintedAt, Entrances, ChrinLabels, ChroutLabels
<1>11. RoutineOf(routine) = routine /\ Depth(routine, 1) = n
  BY DEF RoutineOf, Depth, Entrances, ChrinLabels, ChroutLabels
<1>12. InCall(routine, 1)'
  <2>1. reg'.s = Below(Base', Depth(routine, 1))
    BY <1>4, <1>6, <1>11
  <2> QED
    BY <1>1, <1>8, <1>9, <1>10, <1>11, <2>1 DEF InCall
<1>13. PortsAt(routine, 1)'
  BY <1>2, <1>3 DEF PortsAt, PortsIdle, Entrances
<1>14. ValuesAt(routine, 1)'
  <2>1. /\ reg'.a = Was'.a /\ reg'.x = Was'.x /\ reg'.y = Was'.y /\ reg'.p = Was'.p
        /\ Regs' = Had'
    BY <1>3, <1>4, <1>6
  <2>2. /\ SameVars(Variables)' /\ SameVars(252 .. 255)' /\ Regs'[250] = Had'[250]
        /\ Regs'[251] = Had'[251] /\ SameFlags({"C", "D"})' /\ SameFlags({"D"})'
    BY <2>1 DEF SameVars, SameFlags
  <2>3. NotImplementedAt(1)'
    BY <2>1, <2>2 DEF NotImplementedAt
  <2>4. ChrinAt("chrin", 1)'
    BY <2>1, <2>2 DEF ChrinAt
  <2>5. ChroutAt("chrout", 1)'
    BY <2>1, <2>2 DEF ChroutAt
  <2>6. ScreenAt(1)' /\ TellAt(1, 254)' /\ TellAt(1, 252)' /\ InterruptAt'
    BY <2>1, <2>2 DEF ScreenAt, TellAt, InterruptAt
  <2> QED
    BY <2>3, <2>4, <2>5, <2>6 DEF ValuesAt, Entrances, ChrinLabels, ChroutLabels
<1> QED
  BY <1>1, <1>7, <1>12, <1>13, <1>14 DEF In

LEMMA BasicAt ==
  ASSUME InBasic
  PROVE  pc[2] \in Addresses /\ Next16(pc[2]) \in Addresses /\ machine \in Machines /\ Memory(data)
<1>1. machine \in Machines /\ calls \in Nat /\ Memory(data)
  BY KernalCodeAssumption DEF InBasic, Types
<1>2. BasicEntry(machine) + calls \in Nat
  BY <1>1, BasicEntryIs
<1>3. pc[2] = (BasicEntry(machine) + calls) % 65536
  BY DEF InBasic, AtRest
<1>4. \A n \in Nat : n % 65536 \in Addresses
  BY DEF Addresses
<1>5. pc[2] \in Addresses
  BY <1>2, <1>3, <1>4
<1>6. pc[2] + 1 \in Nat
  <2>1. \A w \in Addresses : w + 1 \in Nat
    BY DEF Addresses
  <2> QED
    BY <1>5, <2>1
<1> QED
  BY <1>1, <1>4, <1>5, <1>6 DEF Next16

LEMMA CallStarts ==
  ASSUME InBasic, NEW args \in Arguments, NEW address \in JumpAddresses, Call(address, args)
  PROVE  \E routine \in Entrances : routine = JumpTable(address) /\ In(routine, 1)'
<1> DEFINE routine == JumpTable(address)
           stack == data'[RAMIndex]
<1>1. routine \in Entrances /\ routine # "IRQ_service_routine"
  BY DEF JumpTable, Entrances
<1>2. Enters(routine, args, 2) /\ data' = PushAddress(data, args.s, pc[2])
  BY DEF Call
<1>3. pc[2] \in Addresses /\ machine \in Machines /\ Memory(data)
  BY BasicAt
<1> DEFINE word == pc[2]
           pushed == PushAddress(data, args.s, word)
<1>4. /\ Memory(pushed) /\ pushed[2] = Regs
      /\ pushed[RAMIndex][256 + Below(args.s, 0)] = word \div 256
      /\ pushed[RAMIndex][256 + Below(args.s, 1)] = word % 256
      /\ \A o \in StackOffsets : o \notin {256 + Below(args.s, 0), 256 + Below(args.s, 1)} =>
           pushed[RAMIndex][o] = Stack[o]
  <2> HIDE DEF word
  <2> QED
    BY <1>3, AddressPushed DEF word
<1>5. data' = pushed
  BY <1>2
<1> HIDE DEF pushed, routine
<1>6. \A o \in StackOffsets : o \notin {256 + Below(args.s, m) : m \in 0 .. 3} =>
        stack[o] = Stack[o]
  BY <1>4, <1>5
<1>7. In(routine, 1)'
  <2> HIDE DEF word
  <2>1. word \in Addresses /\ word = pc[2]
    BY <1>3 DEF word
  <2>2. /\ Memory(data') /\ data'[2] = Regs
        /\ stack[256 + Below(args.s, 0)] = word \div 256
        /\ stack[256 + Below(args.s, 1)] = word % 256
    BY <1>4, <1>5
  <2>3. Enters(routine, args, 2)
    BY <1>2 DEF routine
  <2> HIDE DEF stack
  <2> QED
    BY <1>1, <1>6, <2>1, <2>2, <2>3, Entered DEF stack
<1> QED
  BY <1>1, <1>7 DEF routine

LEMMA BreakStarts ==
  ASSUME InBasic, NEW args \in Arguments, Break(args)
  PROVE  In("IRQ_service_routine", 1)'
<1> DEFINE word == Next16(pc[2])
           pushed == PushAddress(data, args.s, word)
           third == 256 + Below(args.s, 2)
           stack == data'[RAMIndex]
<1>1. /\ Enters("IRQ_service_routine", args, 3)
      /\ data' = Store(ranges, pushed, third, Byte(args.p))
  BY DEF Break, Push
<1>2. word \in Addresses /\ machine \in Machines /\ Memory(data)
  BY BasicAt
<1>3. /\ Memory(pushed) /\ pushed[2] = Regs
      /\ pushed[RAMIndex][256 + Below(args.s, 0)] = word \div 256
      /\ pushed[RAMIndex][256 + Below(args.s, 1)] = word % 256
      /\ \A o \in StackOffsets : o \notin {256 + Below(args.s, 0), 256 + Below(args.s, 1)} =>
           pushed[RAMIndex][o] = Stack[o]
  <2> HIDE DEF word
  <2> QED
    BY <1>2, AddressPushed
<1>4. /\ third \in StackOffsets /\ third # 256 + Below(args.s, 0) /\ third # 256 + Below(args.s, 1)
      /\ 256 + Below(args.s, 0) \in StackOffsets /\ 256 + Below(args.s, 1) \in StackOffsets
  <2>1. args.s \in Bytes
    BY KernalCodeAssumption DEF Bytes
  <2>2. Below(args.s, 2) # Below(args.s, 0) /\ Below(args.s, 2) # Below(args.s, 1)
    BY <2>1, BelowDiffers
  <2>3. \A n \in 0 .. 2 : Below(args.s, n) \in Bytes
    BY <2>1, BelowAre
  <2>4. \A n \in 0 .. 2 : Below(args.s, n) \in Nat
    BY <2>3 DEF Bytes
  <2> QED
    BY <2>2, <2>4, StackOffsetsAre
<1>5. Byte(args.p) \in Bytes
  BY KernalCodeAssumption, FlagsOfByte
<1> HIDE DEF word, pushed, third
<1>6. /\ Memory(data') /\ data'[2] = pushed[2]
      /\ stack = [pushed[RAMIndex] EXCEPT ![third] = Byte(args.p)]
  <2> DEFINE flags == Byte(args.p)
  <2>1. machine \in Machines /\ Memory(pushed) /\ third \in StackOffsets /\ flags \in Bytes
    BY <1>2, <1>3, <1>4, <1>5
  <2>2. data' = Store(ranges, pushed, third, flags)
    BY <1>1
  <2> HIDE DEF flags
  <2>3. /\ Memory(Store(ranges, pushed, third, flags))
        /\ Store(ranges, pushed, third, flags)[2] = pushed[2]
        /\ Store(ranges, pushed, third, flags)[RAMIndex] =
             [pushed[RAMIndex] EXCEPT ![third] = flags]
    BY <2>1, StoreStack
  <2> QED
    BY <2>2, <2>3 DEF flags
<1>7. DOMAIN pushed[RAMIndex] = StackOffsets
  BY <1>3 DEF Memory
<1>8. third = 256 + Below(args.s, 2)
  BY DEF third
<1> HIDE DEF stack
<1>9. /\ stack[256 + Below(args.s, 0)] = word \div 256
      /\ stack[256 + Below(args.s, 1)] = word % 256
      /\ stack[256 + Below(args.s, 2)] = Byte(args.p)
      /\ \A o \in StackOffsets : o \notin {256 + Below(args.s, m) : m \in 0 .. 3} =>
           stack[o] = Stack[o]
  BY <1>3, <1>4, <1>6, <1>7, <1>8
<1>10. word = Next16(pc[2]) /\ stack = data'[RAMIndex]
  BY DEF word, stack
<1>11. "IRQ_service_routine" \in Entrances
  BY DEF Entrances
<1>12. data'[2] = Regs
  BY <1>3, <1>6
<1>13. ASSUME NEW routine, routine = "IRQ_service_routine", NEW n, n = 3
       PROVE  In(routine, 1)'
  <2>1. /\ routine \in Entrances /\ Enters(routine, args, n)
        /\ routine = "IRQ_service_routine" /\ n = 3 /\ word = Next16(pc[2])
    BY <1>1, <1>10, <1>11, <1>13
  <2>2. /\ word \in Addresses /\ Memory(data') /\ data'[2] = Regs
        /\ n = 3 => stack[256 + Below(args.s, 2)] = Byte(args.p)
    BY <1>2, <1>6, <1>9, <1>12
  <2>3. /\ stack[256 + Below(args.s, 0)] = word \div 256
        /\ stack[256 + Below(args.s, 1)] = word % 256
        /\ \A o \in StackOffsets : o \notin {256 + Below(args.s, m) : m \in 0 .. 3} =>
             stack[o] = Stack[o]
    BY <1>9
  <2> QED
    BY <1>10, <2>1, <2>2, <2>3, Entered
<1> QED
  BY <1>13

-----------------------------------------------------------------------------
(* The host.                                                               *)

HostStep(regs) ==
  /\ turn = "host" /\ turn' = "cpu"
  /\ UNCHANGED <<machine, reg, pc, calls, entry>>
  /\ \/ /\ Fetches(Regs) /\ fetched' \in InputBytes
        /\ regs = [Regs EXCEPT ![IO] = fetched'] /\ UNCHANGED <<eof, printed>>
     \/ Fetches(Regs) /\ eof' = TRUE /\ regs = Regs /\ UNCHANGED <<fetched, printed>>
     \/ /\ ClearsAll(Regs) /\ regs = ClearAll(Regs) /\ UNCHANGED <<eof, fetched>>
        /\ printed' = IF Prints(Regs) THEN Append(printed, Regs[IO]) ELSE printed
     \/ ~Fetches(Regs) /\ ~ClearsAll(Regs) /\ regs = Regs /\ UNCHANGED <<eof, fetched, printed>>

LEMMA HostSteps ==
  ASSUME Types, OnCPUCycle
  PROVE  \E regs \in [RegOffsets -> Bytes] :
           HostStep(regs) /\ ((data' = data /\ regs = Regs) \/ data' = [data EXCEPT ![2] = regs])
<1>1. Registers = Regs /\ KernelRegisters(ranges) = 2 /\ 2 \in DOMAIN data
  <2>1. machine \in Machines /\ Memory(data)
    BY DEF Types
  <2>2. RAMIndex \in {4, 5}
    BY <2>1, RangesAre
  <2>3. 2 \in DOMAIN data
    BY <2>1, <2>2 DEF Memory
  <2> QED
    BY <2>1, <2>3, RegistersAre DEF Registers, Regs
<1>2. Regs \in [RegOffsets -> Bytes]
  BY DEF Types, Memory, Regs
<1>3. CASE HostFetch
  <2> DEFINE regs == [Regs EXCEPT ![IO] = fetched']
  <2>1. fetched' \in InputBytes /\ data' = [data EXCEPT ![2][IO] = fetched']
    BY <1>1, <1>3 DEF HostFetch
  <2>2. fetched' \in Bytes
    BY <2>1, KernalCodeAssumption DEF Bytes
  <2>3. regs \in [RegOffsets -> Bytes]
    BY <1>2, <2>2
  <2>4. data' = [data EXCEPT ![2] = regs]
    BY <1>1, <2>1 DEF Regs
  <2>5. HostStep(regs)
    BY <1>1, <1>3 DEF HostFetch, Host, HostStep
  <2> QED
    BY <2>3, <2>4, <2>5
<1>4. CASE HostEndOfFile
  BY <1>1, <1>2, <1>4 DEF HostEndOfFile, Host, HostStep
<1>5. CASE HostClear
  <2> DEFINE regs == ClearAll(Regs)
  <2>1. data' = [data EXCEPT ![2] = regs]
    BY <1>1, <1>5 DEF HostClear, Regs
  <2>2. 0 \in Bytes
    BY NumbersAre
  <2>3. regs \in [RegOffsets -> Bytes]
    BY <1>2, <2>2 DEF ClearAll
  <2>4. HostStep(regs)
    BY <1>1, <1>5 DEF HostClear, Host, HostStep
  <2> QED
    BY <2>1, <2>3, <2>4
<1>6. CASE HostIdle
  BY <1>1, <1>2, <1>6 DEF HostIdle, Host, HostStep
<1> QED
  BY <1>3, <1>4, <1>5, <1>6 DEF OnCPUCycle

(* What the host leaves alone.                                             *)
Kept ==
  /\ UNCHANGED <<machine, reg, pc, calls, entry>>
  /\ RAMIndex' = RAMIndex /\ Stack' = Stack
  /\ \A o \in RegOffsets \ {Select, IO, Ack} : Regs'[o] = Regs[o]

HostKeeps == turn = "host" /\ turn' = "cpu" /\ Kept

LEMMA HostActs ==
  ASSUME Types, OnCPUCycle
  PROVE  HostStep(Regs') /\ HostKeeps /\ Types'
<1>1. PICK regs \in [RegOffsets -> Bytes] :
        HostStep(regs) /\ ((data' = data /\ regs = Regs) \/ data' = [data EXCEPT ![2] = regs])
  BY HostSteps
<1>2. machine' = machine /\ RAMIndex' = RAMIndex
  BY <1>1 DEF HostStep, RAMIndex
<1>3. Memory(data) /\ machine \in Machines
  BY DEF Types
<1>4. Memory(data') /\ data'[2] = regs /\ data'[RAMIndex] = Stack
  <2>1. CASE data' = data /\ regs = Regs
    BY <1>3, <2>1 DEF Regs, Stack
  <2>2. CASE data' = [data EXCEPT ![2] = regs]
    <3>1. RAMIndex # 2
      BY <1>3, RangesAre
    <3>2. /\ Memory([data EXCEPT ![2] = regs]) /\ [data EXCEPT ![2] = regs][2] = regs
          /\ [data EXCEPT ![2] = regs][RAMIndex] = data[RAMIndex]
      BY <1>3, <3>1, MemoryExcept
    <3> QED
      BY <2>2, <3>2, Zenon DEF Stack
  <2> QED
    BY <1>1, <2>1, <2>2
<1>5. Memory(data)' /\ Regs' = regs /\ Stack' = Stack
  BY <1>2, <1>4 DEF Memory, Regs, Stack
<1>6. \A o \in RegOffsets \ {Select, IO, Ack} : regs[o] = Regs[o]
  <2>1. DOMAIN Regs = RegOffsets
    BY MemoryTyped
  <2> QED
    BY <1>1, <2>1 DEF HostStep, ClearAll
<1>7. HostKeeps
  BY <1>1, <1>2, <1>5, <1>6 DEF HostKeeps, Kept, HostStep
<1>8. \A o \in 3 .. 10 : Regs'[o] = InitialRegisters(machine)[o]
  <2>1. \A o \in 3 .. 10 : o \in RegOffsets \ {Select, IO, Ack}
    BY DEF RegOffsets, Select, IO, Ack
  <2> QED
    BY <1>5, <1>6, <2>1 DEF Types
<1>9. Types'
  <2>1. /\ reg' = reg /\ calls' = calls /\ turn' = "cpu" /\ eof' \in BOOLEAN
        /\ fetched' \in InputBytes \cup {0}
    BY <1>1 DEF HostStep, Types
  <2> QED
    BY <1>2, <1>5, <1>8, <2>1 DEF Types
<1> QED
  BY <1>1, <1>5, <1>7, <1>9

(* It finds nothing to do unless one of its routines is selected.          *)
Quiet ==
  /\ Regs[Select] = SelectChrin => Regs[IO] # 0 /\ Regs[Ack] = 0
  /\ Regs[Select] = SelectChrout => Regs[IO] = 0
  /\ Regs[Select] # SelectNotImpl

LEMMA QuietStays ==
  ASSUME Types, OnCPUCycle, Quiet
  PROVE  HostKeeps /\ Types' /\ Regs' = Regs /\ UNCHANGED <<eof, fetched, printed>>
<1>1. ~Fetches(Regs) /\ ~ClearsAll(Regs)
  BY DEF Quiet, Fetches, ClearsAll, Prints, SelectChrin, SelectChrout, SelectNotImpl
<1> QED
  BY <1>1, HostActs DEF HostStep

LEMMA HostInReset ==
  ASSUME NEW i, InReset(i), OnCPUCycle
  PROVE  InReset(i)' /\ UNCHANGED <<fetched, printed>>
<1>1. Types /\ Quiet
  BY DEF InReset, PortsAt, PortsIdle, Quiet, SelectChrin, SelectChrout, SelectNotImpl
<1>2. HostKeeps /\ Types' /\ Regs' = Regs /\ UNCHANGED <<eof, fetched, printed>>
  BY <1>1, QuietStays
<1>3. ResetAt(i)'
  BY <1>2 DEF InReset, HostKeeps, Kept, ResetAt, Was
<1> QED
  BY <1>2, <1>3 DEF InReset, HostKeeps, Kept, PortsAt, PortsIdle

LEMMA HostInBasic ==
  ASSUME InBasic, OnCPUCycle
  PROVE  InBasic' /\ Regs' = Regs /\ UNCHANGED <<fetched, printed>>
<1>1. Types /\ Quiet
  BY DEF InBasic, PortsAt, PortsIdle, Quiet, SelectChrin, SelectChrout, SelectNotImpl
<1>2. HostKeeps /\ Types' /\ Regs' = Regs /\ UNCHANGED <<eof, fetched, printed>>
  BY <1>1, QuietStays
<1>3. /\ Was' = Was /\ Had' = Had /\ Base' = Base /\ \A n : Place(n)' = Place(n)
      /\ entry' = entry /\ RAMIndex' = RAMIndex /\ Stack' = Stack
  BY <1>2 DEF HostKeeps, Kept, Was, Had, Base, Place
<1>4. Untouched <=> Untouched'
  BY <1>2, <1>3 DEF Untouched
<1>5. Memory(entry.data)' <=> Memory(entry.data)
  BY <1>3 DEF Memory
<1>6. AtRest'
  BY <1>2, <1>3, <1>4, <1>5 DEF InBasic, HostKeeps, Kept, AtRest
<1> QED
  BY <1>2, <1>6 DEF InBasic, HostKeeps, Kept, PortsAt, PortsIdle

LEMMA CallHeld ==
  ASSUME Kept
  PROVE  /\ Was' = Was /\ Had' = Had /\ Base' = Base /\ Output' = Output
         /\ Dropping' <=> Dropping
         /\ \A n : Place(n)' = Place(n)
         /\ Pushed' <=> Pushed
         /\ Untouched' <=> Untouched
<1>1. /\ Was' = Was /\ Had' = Had /\ Base' = Base /\ \A n : Place(n)' = Place(n)
      /\ entry' = entry /\ RAMIndex' = RAMIndex /\ Stack' = Stack /\ calls' = calls
      /\ machine' = machine
  BY DEF HostKeeps, Kept, Was, Had, Base, Place
<1>2. Output' = Output /\ (Dropping' <=> Dropping)
  BY <1>1 DEF Output, Dropping
<1>3. Pushed' <=> Pushed
  BY <1>1 DEF Pushed, ReturnAddress, Memory
<1>4. \A o \in 3 .. 10 : Regs'[o] = Regs[o]
  <2>1. \A o \in 3 .. 10 : o \in RegOffsets \ {Select, IO, Ack}
    BY DEF RegOffsets, Select, IO, Ack
  <2> QED
    BY <2>1 DEF HostKeeps, Kept
<1>5. Untouched' <=> Untouched
  BY <1>1, <1>4 DEF Untouched
<1> QED
  BY <1>1, <1>2, <1>3, <1>5

CallLabels ==
  ChrinLabels \cup ChroutLabels \cup
  {"not_implemented", "screenxy", "memtop", "settop", "membot", "setbot", "IRQ_service_routine"}

LEMMA LabelsAre == DOMAIN Code = CallLabels \cup {"reset"} /\ "reset" \notin CallLabels
BY DEF Code, CallLabels, ChrinLabels, ChroutLabels

LEMMA ValuesHeld ==
  ASSUME Kept, NEW l \in CallLabels, NEW i, ValuesAt(l, i), fetched' = fetched
  PROVE  ValuesAt(l, i)'
<1>1. /\ Was' = Was /\ Had' = Had /\ (Dropping' <=> Dropping) /\ \A n : Place(n)' = Place(n)
  BY CallHeld
<1>2. Stack' = Stack /\ reg' = reg
  BY DEF HostKeeps, Kept
<1>3. /\ \A o \in 250 .. 255 : Regs'[o] = Regs[o]
      /\ Regs'[5] = Regs[5] /\ Regs'[6] = Regs[6]
  <2>1. \A o \in 250 .. 255 \cup {5, 6} : o \in RegOffsets \ {Select, IO, Ack}
    BY DEF RegOffsets, Select, IO, Ack
  <2> QED
    BY <2>1 DEF HostKeeps, Kept
<1>4. /\ \A os \in SUBSET (250 .. 255) : SameVars(os)' <=> SameVars(os)
      /\ \A fs : SameFlags(fs)' <=> SameFlags(fs)
  BY <1>1, <1>2, <1>3 DEF SameVars, SameFlags
<1>5. /\ Regs'[250] = Regs[250] /\ Regs'[251] = Regs[251] /\ Regs'[252] = Regs[252]
      /\ Regs'[253] = Regs[253] /\ Regs'[254] = Regs[254] /\ Regs'[255] = Regs[255]
  BY <1>3
<1>6. /\ SameVars(Variables)' <=> SameVars(Variables)
      /\ SameVars(252 .. 255)' <=> SameVars(252 .. 255)
      /\ SameVars(Variables \ {254, 255})' <=> SameVars(Variables \ {254, 255})
      /\ SameVars(Variables \ {252, 253})' <=> SameVars(Variables \ {252, 253})
  BY <1>4 DEF Variables
<1>7. NotImplementedAt(i)' <=> NotImplementedAt(i)
  BY <1>1, <1>2, <1>6 DEF NotImplementedAt
<1>8. ChrinAt(l, i)' <=> ChrinAt(l, i)
  <2>1. \A c, n : Searched(c, n)' <=> Searched(c, n)
    BY <1>2 DEF Searched
  <2> QED
    BY <1>1, <1>2, <1>4, <1>5, <1>6, <2>1 DEF ChrinAt
<1>9. ChroutAt(l, i)' <=> ChroutAt(l, i)
  <2>1. \A c, n : Searched(c, n)' <=> Searched(c, n)
    BY <1>2 DEF Searched
  <2> QED
    BY <1>1, <1>2, <1>4, <1>5, <1>6, <2>1 DEF ChroutAt
<1>10. ScreenAt(i)' <=> ScreenAt(i)
  BY <1>1, <1>2, <1>3, <1>4, <1>6 DEF ScreenAt
<1>11. TellAt(i, 254)' <=> TellAt(i, 254)
  BY <1>1, <1>2, <1>4, <1>5, <1>6 DEF TellAt
<1>12. TellAt(i, 252)' <=> TellAt(i, 252)
  BY <1>1, <1>2, <1>4, <1>5, <1>6 DEF TellAt
<1>13. SetAt(i, 254)' <=> SetAt(i, 254)
  BY <1>1, <1>2, <1>4, <1>5, <1>6 DEF SetAt
<1>14. SetAt(i, 252)' <=> SetAt(i, 252)
  BY <1>1, <1>2, <1>4, <1>5, <1>6 DEF SetAt
<1>15. InterruptAt' <=> InterruptAt
  BY <1>1, <1>2, <1>6 DEF InterruptAt
<1>16. CASE l \in ChrinLabels
  BY <1>8, <1>16 DEF ValuesAt, ChrinLabels, ChroutLabels
<1>17. CASE l \in ChroutLabels
  BY <1>9, <1>17 DEF ValuesAt, ChrinLabels, ChroutLabels
<1>18. CASE l \in {"not_implemented", "screenxy", "IRQ_service_routine"}
  BY <1>7, <1>10, <1>15, <1>18 DEF ValuesAt, ChrinLabels, ChroutLabels
<1>19. CASE l = "memtop"
  BY <1>11, <1>19 DEF ValuesAt, ChrinLabels, ChroutLabels
<1>20. CASE l = "membot"
  BY <1>12, <1>20 DEF ValuesAt, ChrinLabels, ChroutLabels
<1>21. CASE l = "settop"
  BY <1>13, <1>21 DEF ValuesAt, ChrinLabels, ChroutLabels
<1>22. CASE l = "setbot"
  BY <1>14, <1>22 DEF ValuesAt, ChrinLabels, ChroutLabels
<1> QED
  BY <1>16, <1>17, <1>18, <1>19, <1>20, <1>21, <1>22 DEF CallLabels

(* A call goes on as it was once the host has looked, whatever it did.     *)
LEMMA HostArrives ==
  ASSUME NEW l, NEW i, In(l, i), Kept, Types',
         PortsAt(l, i)', FetchedAt(l, i)', PrintedAt(l, i)', ValuesAt(l, i)'
  PROVE  In(l, i)'
<1>1. Pushed' /\ Untouched' /\ Base' = Base
  BY CallHeld DEF In, InCall
<1>2. pc' = pc /\ entry' = entry /\ reg' = reg
  BY DEF HostKeeps, Kept
<1> QED
  BY <1>1, <1>2 DEF In, InCall

(* Where the host finds something to do.                                   *)
Busy(l, i) ==
  \/ l = "chrin_io_loop"
  \/ l = "not_implemented" /\ i = 5
  \/ l = "chrout_write" /\ i = 2

LEMMA HostQuiet ==
  ASSUME NEW l \in CallLabels, NEW i, In(l, i), OnCPUCycle, ~Busy(l, i)
  PROVE  In(l, i)' /\ UNCHANGED <<fetched, printed>>
<1>1. Types /\ PortsAt(l, i) /\ (PortsIdle \/ Ports(2, 0, 0))
  BY DEF In, PortsAt, Busy
<1>2. Quiet
  BY <1>1 DEF Ports, PortsIdle, Quiet, SelectChrin, SelectChrout, SelectNotImpl
<1>3. HostKeeps /\ Types' /\ Regs' = Regs /\ UNCHANGED <<eof, fetched, printed>>
  BY <1>1, <1>2, QuietStays
<1>4. PortsAt(l, i)'
  BY <1>1, <1>3 DEF PortsAt, Ports, PortsIdle, Busy
<1>5. FetchedAt(l, i)' /\ PrintedAt(l, i)'
  <2>1. FetchedAt(l, i) /\ PrintedAt(l, i)
    BY DEF In, InCall
  <2>2. Output' = Output /\ (Dropping' <=> Dropping) /\ reg' = reg
    BY <1>3, CallHeld DEF HostKeeps, Kept
  <2> QED
    BY <1>3, <2>1, <2>2 DEF FetchedAt, PrintedAt, Busy
<1>6. ValuesAt(l, i)'
  BY <1>3, ValuesHeld DEF In, HostKeeps
<1> QED
  BY <1>3, <1>4, <1>5, <1>6, HostArrives DEF HostKeeps

(* chrin waits for a character, and then for it to be acknowledged.        *)
LEMMA HostAtChrinIoLoop ==
  ASSUME NEW i \in 1 .. 4, In("chrin_io_loop", i), OnCPUCycle
  PROVE  /\ In("chrin_io_loop", i)' /\ printed' = printed
         /\ fetched' = fetched \/ (fetched = 0 /\ fetched' \in InputBytes)
<1>1. HostStep(Regs') /\ HostKeeps /\ Types' /\ DOMAIN Regs = RegOffsets
  <2>1. Types
    BY DEF In
  <2> QED
    BY <2>1, HostActs, MemoryTyped
<1>2. turn = "host" /\ turn' = "cpu" /\ reg' = reg
  BY <1>1 DEF HostKeeps, Kept
<1>3. FetchedAt("chrin_io_loop", i) /\ PrintedAt("chrin_io_loop", i)
      /\ ValuesAt("chrin_io_loop", i)
  BY DEF In, InCall
<1>4. printed' = printed => PrintedAt("chrin_io_loop", i)'
  BY <1>3 DEF PrintedAt, ChroutLabels
<1>5. "chrin_io_loop" \in CallLabels
  BY DEF CallLabels, ChrinLabels
<1>6. Select \in RegOffsets /\ IO \in RegOffsets /\ Ack \in RegOffsets
      /\ Select # IO /\ Select # Ack /\ IO # Ack
  BY DEF Select, IO, Ack, RegOffsets
<1>7. CASE i <= 3 /\ fetched = 0
  <2>1. Ports(1, 0, 0)
    BY <1>7 DEF In, PortsAt
  <2>2. ~ClearsAll(Regs) /\ Fetches(Regs)
    BY <2>1 DEF Ports, ClearsAll, Prints, Fetches, SelectChrin, SelectChrout, SelectNotImpl
  <2>3. /\ printed' = printed
        /\ Ports(1, fetched, 0)'
        /\ fetched' = fetched \/ fetched' \in InputBytes
    BY <1>1, <1>6, <1>7, <2>1, <2>2 DEF HostStep, Ports
  <2>4. PortsAt("chrin_io_loop", i)'
    BY <1>7, <2>3 DEF PortsAt
  <2>5. i # 3 /\ i # 4 /\ (i = 2 => "Z" \in reg.p)
    BY <1>3, <1>7 DEF FetchedAt, ChrinLabels
  <2>6. FetchedAt("chrin_io_loop", i)'
    BY <1>2, <2>5 DEF FetchedAt, ChrinLabels
  <2>7. ValuesAt("chrin_io_loop", i)'
    <3>1. ChrinAt("chrin_io_loop", i)
      BY <1>3 DEF ValuesAt, ChrinLabels, ChroutLabels
    <3>2. /\ Was' = Was /\ Had' = Had /\ \A o \in 250 .. 255 : Regs'[o] = Regs[o]
      <4>1. \A o \in 250 .. 255 : o \in RegOffsets \ {Select, IO, Ack}
        BY DEF RegOffsets, Select, IO, Ack
      <4> QED
        BY <1>1, <4>1, CallHeld DEF HostKeeps, Kept
    <3>3. SameFlags({"D"})' /\ SameVars(252 .. 255)' /\ Regs'[250] = Had'[250]
          /\ Regs'[251] = Was'.x /\ reg'.y = Was'.y
      BY <1>2, <3>1, <3>2 DEF ChrinAt, SameFlags, SameVars
    <3>4. i = 2 => reg'.a = 0 /\ "Z" \in reg'.p
      BY <1>2, <2>5, <3>1 DEF ChrinAt
    <3>5. ChrinAt("chrin_io_loop", i)'
      BY <2>5, <3>3, <3>4 DEF ChrinAt
    <3> QED
      BY <3>5 DEF ValuesAt, ChrinLabels, ChroutLabels
  <2>8. PrintedAt("chrin_io_loop", i)'
    BY <1>4, <2>3
  <2>9. In("chrin_io_loop", i)'
    BY <1>1, <2>4, <2>6, <2>7, <2>8, HostArrives DEF HostKeeps
  <2> QED
    BY <1>7, <2>3, <2>9
<1>8. CASE i <= 3 /\ fetched # 0
  <2>1. Ports(1, fetched, 0)
    BY <1>8 DEF In, PortsAt
  <2>2. Quiet
    BY <1>8, <2>1 DEF Ports, Quiet, SelectChrin, SelectChrout, SelectNotImpl
  <2>3. Regs' = Regs /\ UNCHANGED <<eof, fetched, printed>>
    BY <2>2, QuietStays DEF In
  <2>4. PortsAt("chrin_io_loop", i)'
    BY <1>8, <2>1, <2>3 DEF PortsAt, Ports
  <2>5. FetchedAt("chrin_io_loop", i)'
    BY <1>2, <1>3, <2>3 DEF FetchedAt
  <2>6. ValuesAt("chrin_io_loop", i)'
    BY <1>1, <1>3, <1>5, <2>3, ValuesHeld DEF HostKeeps
  <2>7. PrintedAt("chrin_io_loop", i)'
    BY <1>4, <2>3
  <2>8. In("chrin_io_loop", i)'
    BY <1>1, <2>4, <2>5, <2>6, <2>7, HostArrives DEF HostKeeps
  <2> QED
    BY <2>3, <2>8
<1>9. CASE i = 4
  <2>1. fetched # 0
    BY <1>3, <1>9 DEF FetchedAt, ChrinLabels
  <2>2. Ports(1, fetched, 1)
    BY <1>2, <1>9 DEF In, PortsAt
  <2>3. ~Fetches(Regs) /\ ClearsAll(Regs) /\ ~Prints(Regs)
    BY <2>1, <2>2 DEF Ports, ClearsAll, Prints, Fetches, SelectChrin, SelectChrout, SelectNotImpl
  <2>4. /\ printed' = printed /\ fetched' = fetched /\ Regs' = ClearAll(Regs)
    BY <1>1, <2>3 DEF HostStep
  <2>5. PortsIdle'
    BY <1>1, <1>6, <2>4 DEF PortsIdle, ClearAll
  <2>6. PortsAt("chrin_io_loop", i)'
    BY <1>2, <1>9, <2>5 DEF PortsAt
  <2>7. FetchedAt("chrin_io_loop", i)'
    BY <1>2, <1>3, <2>4 DEF FetchedAt
  <2>8. ValuesAt("chrin_io_loop", i)'
    BY <1>1, <1>3, <1>5, <2>4, ValuesHeld DEF HostKeeps
  <2>9. PrintedAt("chrin_io_loop", i)'
    BY <1>4, <2>4
  <2>10. In("chrin_io_loop", i)'
    BY <1>1, <2>6, <2>7, <2>8, <2>9, HostArrives DEF HostKeeps
  <2> QED
    BY <2>4, <2>10
<1> QED
  BY <1>7, <1>8, <1>9

(* not_implemented is reported.                                            *)
LEMMA HostAtNotImplemented ==
  ASSUME In("not_implemented", 5), OnCPUCycle
  PROVE  In("not_implemented", 5)' /\ UNCHANGED <<fetched, printed>>
<1>1. HostStep(Regs') /\ HostKeeps /\ Types' /\ DOMAIN Regs = RegOffsets
  <2>1. Types
    BY DEF In
  <2> QED
    BY <2>1, HostActs, MemoryTyped
<1>2. turn = "host" /\ turn' = "cpu" /\ reg' = reg
  BY <1>1 DEF HostKeeps, Kept
<1>3. Ports(3, 0, 0)
  BY <1>2 DEF In, PortsAt
<1>4. ~Fetches(Regs) /\ ClearsAll(Regs) /\ ~Prints(Regs)
  BY <1>3 DEF Ports, ClearsAll, Prints, Fetches, SelectChrin, SelectChrout, SelectNotImpl
<1>5. printed' = printed /\ fetched' = fetched /\ Regs' = ClearAll(Regs)
  BY <1>1, <1>4 DEF HostStep
<1>6. PortsIdle'
  BY <1>1, <1>5 DEF PortsIdle, ClearAll, Select, IO, Ack, RegOffsets
<1>7. PortsAt("not_implemented", 5)'
  BY <1>2, <1>6 DEF PortsAt
<1>8. FetchedAt("not_implemented", 5)' /\ PrintedAt("not_implemented", 5)'
  <2>1. Len(printed) <= 1
    BY PrintedOnce
  <2> QED
    BY <1>5, <2>1 DEF FetchedAt, PrintedAt, ChrinLabels, ChroutLabels
<1>9. ValuesAt("not_implemented", 5)'
  <2>1. "not_implemented" \in CallLabels /\ ValuesAt("not_implemented", 5)
    BY DEF CallLabels, In
  <2> QED
    BY <1>1, <1>5, <2>1, ValuesHeld DEF HostKeeps
<1> QED
  BY <1>1, <1>5, <1>7, <1>8, <1>9, HostArrives DEF HostKeeps

(* chrout's character is printed.                                          *)
LEMMA HostAtChroutWrite ==
  ASSUME In("chrout_write", 2), OnCPUCycle
  PROVE  /\ In("chrout_write", 2)' /\ fetched' = fetched
         /\ printed = <<>> /\ printed' = Output
<1>1. HostStep(Regs') /\ HostKeeps /\ Types' /\ DOMAIN Regs = RegOffsets
  <2>1. Types
    BY DEF In
  <2> QED
    BY <2>1, HostActs, MemoryTyped
<1>2. turn = "host" /\ turn' = "cpu" /\ reg' = reg
  BY <1>1 DEF HostKeeps, Kept
<1>3. Ports(2, ToASCII(Was.a), 0)
  BY <1>2 DEF In, PortsAt
<1>4. printed = <<>>
  BY <1>2 DEF In, InCall, PrintedAt, ChroutLabels
<1>5. ToASCII(Was.a) = 0 <=> Was.a = 0
  BY DEF ToASCII
<1>6. ~Fetches(Regs) /\ (ClearsAll(Regs) <=> Prints(Regs)) /\ (Prints(Regs) <=> Was.a # 0)
  BY <1>3, <1>5 DEF Ports, ClearsAll, Prints, Fetches, SelectChrin, SelectChrout, SelectNotImpl
<1>7. fetched' = fetched /\ printed' = Output
  <2>1. CASE Was.a = 0
    BY <1>1, <1>4, <1>6, <2>1 DEF HostStep, Output
  <2>2. CASE Was.a # 0
    <3>1. fetched' = fetched /\ printed' = Append(printed, Regs[IO])
      BY <1>1, <1>6, <2>2 DEF HostStep
    <3>2. Append(printed, Regs[IO]) = <<ToASCII(Was.a)>>
      BY <1>3, <1>4 DEF Ports
    <3> QED
      BY <2>2, <3>1, <3>2 DEF Output
  <2> QED
    BY <2>1, <2>2
<1>8. PortsIdle'
  <2>1. (Regs' = Regs /\ Was.a = 0) \/ Regs' = ClearAll(Regs)
    BY <1>1, <1>6 DEF HostStep
  <2>2. Regs'[Select] \in {0, 2} /\ Regs'[IO] = 0 /\ Regs'[Ack] = 0
    BY <1>1, <1>3, <1>5, <2>1 DEF Ports, ClearAll, Select, IO, Ack, RegOffsets
  <2> QED
    BY <2>2 DEF PortsIdle
<1>9. PortsAt("chrout_write", 2)'
  BY <1>2, <1>8 DEF PortsAt
<1>10. FetchedAt("chrout_write", 2)' /\ PrintedAt("chrout_write", 2)'
  BY <1>1, <1>2, <1>7, CallHeld DEF HostKeeps, FetchedAt, PrintedAt, ChrinLabels, ChroutLabels
<1>11. ValuesAt("chrout_write", 2)'
  <2>1. "chrout_write" \in CallLabels /\ ValuesAt("chrout_write", 2)
    BY DEF CallLabels, ChroutLabels, In
  <2> QED
    BY <1>1, <1>7, <2>1, ValuesHeld DEF HostKeeps
<1> QED
  BY <1>1, <1>4, <1>7, <1>9, <1>10, <1>11, HostArrives DEF HostKeeps

-----------------------------------------------------------------------------
(* Every step keeps the invariant.                                         *)

Last(l, i) ==
  <<l, i>> \in {<<"chrin_return", 4>>,
                <<"chrout_return", 3>>,
                <<"not_implemented", 7>>,
                <<"screenxy", 3>>,
                <<"memtop", 4>>,
                <<"settop", 3>>,
                <<"membot", 4>>,
                <<"setbot", 3>>,
                <<"IRQ_service_routine", 1>>}

LEMMA CallGoesOn ==
  ASSUME NEW l \in CallLabels, NEW i \in 1 .. Len(Code[l]), In(l, i), Kernal, ~Last(l, i)
  PROVE  Within'
<1>1. CASE l = "chrin"
  BY <1>1, ChrinCode, AtChrin
<1>2. CASE l = "chrin_io_loop"
  BY <1>2, ChrinIoLoopCode, AtChrinIoLoop
<1>3. CASE l = "chrin_lookup"
  BY <1>3, ChrinLookupCode, AtChrinLookup
<1>4. CASE l = "chrin_translate"
  BY <1>4, ChrinTranslateCode, AtChrinTranslate
<1>5. CASE l = "chrin_return"
  <2>1. i \in 1 .. 3
    BY <1>5, ChrinReturnCode DEF Last
  <2> QED
    BY <1>5, <2>1, AtChrinReturn
<1>6. CASE l = "chrout"
  BY <1>6, ChroutCode, AtChrout
<1>7. CASE l = "chrout_start"
  BY <1>7, ChroutStartCode, AtChroutStart
<1>8. CASE l = "chrout_lookup"
  BY <1>8, ChroutLookupCode, AtChroutLookup
<1>9. CASE l = "chrout_translate"
  BY <1>9, ChroutTranslateCode, AtChroutTranslate
<1>10. CASE l = "chrout_write"
  BY <1>10, ChroutWriteCode, AtChroutWrite
<1>11. CASE l = "chrout_return"
  <2>1. i \in 1 .. 2
    BY <1>11, ChroutReturnCode DEF Last
  <2> QED
    BY <1>11, <2>1, AtChroutReturn
<1>12. CASE l = "not_implemented"
  <2>1. i \in 1 .. 6
    BY <1>12, NotImplementedCode DEF Last
  <2> QED
    BY <1>12, <2>1, AtNotImplemented
<1>13. CASE l = "screenxy"
  <2>1. i \in 1 .. 2
    BY <1>13, ScreenxyCode DEF Last
  <2> QED
    BY <1>13, <2>1, AtScreenxy
<1>14. CASE l = "memtop"
  <2>1. i \in 1 .. 3
    BY <1>14, MemtopCode DEF Last
  <2> QED
    BY <1>14, <2>1, AtMemtop
<1>15. CASE l = "settop"
  <2>1. i \in 1 .. 2
    BY <1>15, SettopCode DEF Last
  <2> QED
    BY <1>15, <2>1, AtSettop
<1>16. CASE l = "membot"
  <2>1. i \in 1 .. 3
    BY <1>16, MembotCode DEF Last
  <2> QED
    BY <1>16, <2>1, AtMembot
<1>17. CASE l = "setbot"
  <2>1. i \in 1 .. 2
    BY <1>17, SetbotCode DEF Last
  <2> QED
    BY <1>17, <2>1, AtSetbot
<1>18. ASSUME l = "IRQ_service_routine"
      PROVE  FALSE
  <2>1. i \in 1 .. 1
    BY <1>18, InterruptCode
  <2>2. i = 1
    BY <2>1
  <2> QED
    BY <1>18, <2>2 DEF Last
<1> QED
  BY <1>1, <1>2, <1>3, <1>4, <1>5, <1>6, <1>7, <1>8, <1>9, <1>10, <1>11, <1>12, <1>13, <1>14, <1>15, <1>16, <1>17, <1>18 DEF CallLabels, ChrinLabels, ChroutLabels

LEMMA CallReturns ==
  ASSUME NEW l \in CallLabels, NEW i, In(l, i), Kernal, Last(l, i)
  PROVE  /\ InBasic' /\ Step /\ SameMemory
         /\ reg'.a = reg.a /\ reg'.x = reg.x /\ reg'.y = reg.y /\ reg'.s = Was.s
         /\ reg'.p = IF l = "IRQ_service_routine" THEN Was.p ELSE reg.p
<1>1. CASE l = "IRQ_service_routine"
  <2>1. i = 1
    BY <1>1 DEF Last
  <2> QED
    BY <1>1, <2>1, InterruptReturns
<1>2. CASE l # "IRQ_service_routine"
  <2>1. l \in DOMAIN Code /\ Code[l][i] = Op("rts")
    BY <1>2, ChrinReturnCode, ChroutReturnCode, NotImplementedCode, ScreenxyCode, MemtopCode, SettopCode, MembotCode, SetbotCode DEF Last
  <2>2. l # "reset" /\ RoutineOf(l) \notin {"reset", "IRQ_service_routine"} /\ Depth(l, i) = 2
    BY <1>2 DEF Last, RoutineOf, Depth, ChrinLabels, ChroutLabels
  <2>3. PortsIdle
    BY <1>2 DEF Last, In, PortsAt
  <2> QED
    BY <1>2, <2>1, <2>2, <2>3, SubroutineReturns
<1> QED
  BY <1>1, <1>2

LEMMA HostLooks ==
  ASSUME NEW l \in CallLabels, NEW i \in 1 .. Len(Code[l]), In(l, i), OnCPUCycle
  PROVE  In(l, i)'
<1>1. CASE l = "chrin_io_loop"
  BY <1>1, ChrinIoLoopCode, HostAtChrinIoLoop
<1>2. CASE l = "not_implemented" /\ i = 5
  BY <1>2, HostAtNotImplemented
<1>3. CASE l = "chrout_write" /\ i = 2
  BY <1>3, HostAtChroutWrite
<1>4. CASE ~Busy(l, i)
  BY <1>4, HostQuiet
<1> QED
  BY <1>1, <1>2, <1>3, <1>4 DEF Busy

(* Which steps there are in each of these states.                          *)
LEMMA StepsOff ==
  ASSUME Off, KNext
  PROVE  \E m \in Machines : PowerOn(m)
<1>1. pc[1] = "off" /\ turn = "cpu"
  BY DEF Off
<1>2. ~Basic
  BY <1>1 DEF Basic, Break, Call, Enters
<1>3. ~Kernal
  <2>1. "off" \notin DOMAIN Code
    BY LabelsAre DEF CallLabels, ChrinLabels, ChroutLabels
  <2> QED
    BY <1>1, <2>1, WhichAction
<1>4. ~OnCPUCycle
  BY <1>1 DEF OnCPUCycle, HostFetch, HostEndOfFile, HostClear, HostIdle, Host
<1> QED
  BY <1>2, <1>3, <1>4 DEF KNext, Runs

LEMMA StepsInBasic ==
  ASSUME InBasic, KNext
  PROVE  Basic \/ OnCPUCycle
<1>1. pc[1] = "app"
  BY DEF InBasic
<1>2. ~Kernal
  <2>1. "app" \notin DOMAIN Code
    BY LabelsAre DEF CallLabels, ChrinLabels, ChroutLabels
  <2> QED
    BY <1>1, <2>1, WhichAction
<1>3. \A m \in Machines : ~PowerOn(m)
  BY <1>1 DEF PowerOn
<1> QED
  BY <1>2, <1>3 DEF KNext, Runs

LEMMA StepsInCode ==
  ASSUME pc[1] \in DOMAIN Code, KNext
  PROVE  Kernal \/ OnCPUCycle
<1>1. pc[1] \notin {"app", "off"}
  BY LabelsAre DEF CallLabels, ChrinLabels, ChroutLabels
<1>2. ~Basic
  BY <1>1 DEF Basic, Break, Call, Enters
<1>3. \A m \in Machines : ~PowerOn(m)
  BY <1>1 DEF PowerOn
<1> QED
  BY <1>2, <1>3 DEF KNext, Runs

LEMMA KInvKept ==
  ASSUME KInv, KNext
  PROVE  KInv'
<1>1. CASE Off
  BY <1>1, StepsOff, PowerOnStarts DEF KInv
<1>2. CASE InBasic
  <2>1. CASE Basic
    <3>1. PICK args \in Arguments : Break(args) \/ \E address \in JumpAddresses : Call(address, args)
      BY <2>1 DEF Basic
    <3>2. CASE Break(args)
      <4>1. In("IRQ_service_routine", 1)'
        BY <1>2, <3>2, BreakStarts
      <4>2. Within'
        BY <4>1, InterruptCode, WithinIs
      <4> QED
        BY <4>2 DEF KInv, Within
    <3>3. CASE \E address \in JumpAddresses : Call(address, args)
      <4>1. PICK routine \in Entrances : In(routine, 1)'
        BY <1>2, <3>3, CallStarts
      <4>2. routine \in DOMAIN Code /\ routine # "reset" /\ 1 \in 1 .. Len(Code[routine])
        BY ChrinCode, ChroutCode, ScreenxyCode, MemtopCode, MembotCode, NotImplementedCode,
           InterruptCode DEF Entrances
      <4>3. Within'
        BY <4>1, <4>2, WithinIs
      <4> QED
        BY <4>3 DEF KInv, Within
    <3> QED
      BY <3>1, <3>2, <3>3
  <2>2. CASE OnCPUCycle
    BY <1>2, <2>2, HostInBasic DEF KInv
  <2> QED
    BY <1>2, <2>1, <2>2, StepsInBasic
<1>3. ASSUME NEW i \in 1 .. 12, InReset(i)
      PROVE  KInv'
  <2>1. pc[1] \in DOMAIN Code
    BY <1>3, LabelsAre DEF InReset
  <2>2. CASE Kernal
    <3>1. CASE i = 12
      BY <1>3, <2>2, <3>1, ResetEnds DEF KInv
    <3>2. CASE i \in 1 .. 11
      <4>1. InReset(i + 1)' /\ i + 1 \in 1 .. 12
        BY <1>3, <2>2, <3>2, AtReset
      <4> QED
        BY <4>1 DEF KInv
    <3> QED
      BY <3>1, <3>2
  <2>3. CASE OnCPUCycle
    BY <1>3, <2>3, HostInReset DEF KInv
  <2> QED
    BY <2>1, <2>2, <2>3, StepsInCode
<1>4. ASSUME NEW l \in CallLabels, NEW i \in 1 .. Len(Code[l]), In(l, i)
      PROVE  KInv'
  <2>1. pc[1] \in DOMAIN Code /\ l \in DOMAIN Code \ {"reset"}
    BY <1>4, LabelsAre DEF In
  <2>2. CASE Kernal /\ Last(l, i)
    BY <1>4, <2>2, CallReturns DEF KInv
  <2>3. CASE Kernal /\ ~Last(l, i)
    <3>1. Within'
      BY <1>4, <2>3, CallGoesOn
    <3> QED
      BY <3>1 DEF KInv, Within
  <2>4. CASE OnCPUCycle
    <3>1. In(l, i)'
      BY <1>4, <2>4, HostLooks
    <3> QED
      BY <2>1, <3>1 DEF KInv
  <2> QED
    BY <2>1, <2>2, <2>3, <2>4, StepsInCode
<1> QED
  BY <1>1, <1>2, <1>3, <1>4, LabelsAre DEF KInv

LEMMA KInvStutters ==
  ASSUME KInv, UNCHANGED kvars
  PROVE  KInv'
<1>1. /\ Kept /\ Regs' = Regs /\ UNCHANGED <<data, turn, eof, fetched, printed>>
      /\ Output' = Output /\ (Dropping' <=> Dropping) /\ (Pushed' <=> Pushed)
      /\ (Untouched' <=> Untouched) /\ Base' = Base
  <2>1. Kept /\ Regs' = Regs
    BY DEF kvars, Kept, RAMIndex, Regs, Stack
  <2> QED
    BY <2>1, CallHeld DEF kvars
<1>2. Types' <=> Types
  BY <1>1 DEF Kept, Types, Memory
<1>3. CASE Off
  BY <1>1, <1>3 DEF Off, Kept, KInv
<1>4. CASE InBasic
  <2>1. AtRest'
    BY <1>1, <1>4 DEF InBasic, AtRest, Kept, Was, Memory
  <2> QED
    BY <1>1, <1>2, <1>4, <2>1 DEF InBasic, Kept, PortsAt, PortsIdle, KInv
<1>5. ASSUME NEW i \in 1 .. 12, InReset(i)
      PROVE  KInv'
  <2>1. ResetAt(i)'
    BY <1>1, <1>5 DEF InReset, Kept, ResetAt, Was
  <2> QED
    BY <1>1, <1>2, <1>5, <2>1 DEF InReset, Kept, PortsAt, PortsIdle, KInv
<1>6. ASSUME NEW l \in CallLabels, NEW i \in 1 .. Len(Code[l]), In(l, i)
      PROVE  KInv'
  <2>1. PortsAt(l, i)'
    BY <1>1, <1>6 DEF In, PortsAt, Ports, PortsIdle, Was, Kept
  <2>2. FetchedAt(l, i)' /\ PrintedAt(l, i)'
    BY <1>1, <1>6 DEF In, InCall, FetchedAt, PrintedAt, Kept
  <2>3. ValuesAt(l, i)'
    BY <1>1, <1>6, ValuesHeld DEF In
  <2>4. In(l, i)'
    BY <1>1, <1>2, <1>6, <2>1, <2>2, <2>3, HostArrives DEF In
  <2> QED
    BY <2>4, LabelsAre DEF KInv
<1> QED
  BY <1>3, <1>4, <1>5, <1>6, LabelsAre DEF KInv

(* The inductive invariant: in every state the registers, the stack, the   *)
(* variables of the kernal and the host's registers are what the           *)
(* instructions from the last call up to here have made of them.           *)
THEOREM KInvAlways == KSpec => []KInv
<1>1. KInit => KInv
  BY DEF KInit, KInv, Off
<1>2. KInv /\ [KNext]_kvars => KInv'
  BY KInvKept, KInvStutters
<1> QED
  BY <1>1, <1>2, PTL DEF KSpec

-----------------------------------------------------------------------------
(* What follows for the machine between two instructions.                  *)

(* Each label has a sequence of instructions.                              *)
LEMMA CodeIsProgram ==
  ASSUME NEW l \in DOMAIN Code
  PROVE  DOMAIN Code[l] = 1 .. Len(Code[l])
BY LabelsAre DEF Code, NotImplemented, Copy, Lookup, ChrinReturn, Save, Restore, SetTop,
   IRQServiceRoutine

LEMMA KInvMeans ==
  ASSUME KInv, pc[1] # "off"
  PROVE  /\ Types /\ Len(printed) <= 1
         /\ pc[1] \in DOMAIN Code => pc[2] \in DOMAIN Code[pc[1]]
         /\ pc[1] = "app" => InBasic
<1>1. ~Off
  BY DEF Off
<1>2. "app" \notin DOMAIN Code /\ "reset" \in DOMAIN Code /\ Len(Code["reset"]) = 12
  BY LabelsAre, ResetCode DEF CallLabels, ChrinLabels, ChroutLabels
<1>3. \A l \in DOMAIN Code : DOMAIN Code[l] = 1 .. Len(Code[l])
  BY CodeIsProgram
<1>4. CASE InBasic
  BY <1>2, <1>4 DEF InBasic, AtRest
<1>5. ASSUME NEW i \in 1 .. 12, InReset(i)
      PROVE  /\ Types /\ Len(printed) <= 1 /\ pc[1] # "app"
             /\ pc[1] \in DOMAIN Code => pc[2] \in DOMAIN Code[pc[1]]
  <2>1. pc[1] = "reset" /\ pc[2] = i /\ Types /\ printed = <<>>
    BY <1>5 DEF InReset, ResetAt
  <2> QED
    BY <1>2, <1>3, <2>1
<1>6. ASSUME NEW l \in DOMAIN Code \ {"reset"}, NEW i \in 1 .. Len(Code[l]), In(l, i)
      PROVE  /\ Types /\ Len(printed) <= 1 /\ pc[1] # "app"
             /\ pc[1] \in DOMAIN Code => pc[2] \in DOMAIN Code[pc[1]]
  <2>1. pc[1] = l /\ pc[2] = i /\ Types /\ Len(printed) <= 1
    BY <1>6, PrintedOnce DEF In
  <2> QED
    BY <1>2, <1>3, <1>6, <2>1
<1> QED
  BY <1>1, <1>4, <1>5, <1>6 DEF KInv

LEMMA TypesMeant ==
  ASSUME Types
  PROVE  /\ machine \in Machines
         /\ \A i \in DOMAIN ranges : data[i] \in [Offsets(ranges[i]) -> 0 .. 255]
<1>1. machine \in Machines /\ Memory(data)
  BY DEF Types
<1>2. DOMAIN ranges = 1 .. RAMIndex
  BY <1>1, RangesAre
<1>3. ASSUME NEW i \in DOMAIN ranges
      PROVE  data[i] \in [Offsets(ranges[i]) -> Bytes]
  BY <1>1, <1>2, OffsetsAre DEF Memory
<1> QED
  BY <1>1, <1>3 DEF Bytes

(* Every register and every cell looked at is a byte of its range in every *)
(* state, and the program counter never leaves the code it is in.          *)
THEOREM KTypeOKHolds == KSpec => []KTypeOK
<1>1. KInv => KTypeOK
  <2> SUFFICES ASSUME KInv, pc[1] # "off" PROVE KTypeOK
    BY DEF KTypeOK
  <2>1. /\ Types /\ Len(printed) <= 1
        /\ pc[1] \in DOMAIN Code => pc[2] \in DOMAIN Code[pc[1]]
    BY KInvMeans
  <2>2. reg \in [a : 0 .. 255, x : 0 .. 255, y : 0 .. 255, s : 0 .. 255, p : SUBSET Flags]
    BY <2>1 DEF Types, RegisterSets, Bytes
  <2> QED
    BY <2>1, <2>2, TypesMeant DEF KTypeOK, Types
<1> QED
  BY <1>1, KInvAlways, PTL

(* However often BASIC has called, been interrupted and returned to, it is *)
(* where the machine entered it and as far on as it has called: each       *)
(* routine pulls what was pushed, on a stack that may wrap.                *)
THEOREM ReturnsToCallerHolds == KSpec => []ReturnsToCaller
<1>1. KInv => ReturnsToCaller
  <2> SUFFICES ASSUME KInv, pc[1] = "app" PROVE pc[2] = (BasicEntry(machine) + calls) % 65536
    BY DEF ReturnsToCaller
  <2>1. InBasic
    BY KInvMeans
  <2> QED
    BY <2>1 DEF InBasic, AtRest
<1> QED
  BY <1>1, KInvAlways, PTL

(* A call leaves the caller's part of the stack, and what the constructor  *)
(* has stored in the registers, as they were.                              *)
THEOREM LeavesTheRestHolds == KSpec => []LeavesTheRest
<1>1. KInv => LeavesTheRest
  <2> SUFFICES ASSUME KInv, pc[1] = "app", calls > 0,
                      NEW i \in DOMAIN ranges, NEW o \in Offsets(ranges[i]) \ Scratch(ranges[i])
               PROVE  data[i][o] = entry.data[i][o]
    BY DEF LeavesTheRest
  <2>1. InBasic
    BY KInvMeans
  <2>2. Types /\ Untouched /\ entry.routine # "reset"
    BY <2>1 DEF InBasic, AtRest
  <2>3. machine \in Machines
    BY <2>2 DEF Types
  <2>4. /\ DOMAIN ranges = 1 .. RAMIndex
        /\ ranges[2].kind = "registers" /\ ranges[RAMIndex].kind = "RAM"
    BY <2>3, RangesAre
  <2>5. CASE i = 2
    <3>1. o \in RegOffsets /\ o \notin {Select, IO, Ack} \cup 250 .. 255
      BY <2>3, <2>4, <2>5, OffsetsAre DEF Scratch
    <3>2. o \in 3 .. 10
      BY <3>1 DEF RegOffsets, Select, IO, Ack
    <3> QED
      BY <2>2, <2>5, <3>2 DEF Untouched, Regs, Had
  <2>6. CASE i = RAMIndex
    <3>1. o \in StackOffsets /\ o \notin {256 + Below(entry.reg.s, n) : n \in 0 .. 3}
      BY <2>3, <2>4, <2>6, OffsetsAre DEF Scratch
    <3>2. \A n : Place(n) = 256 + Below(entry.reg.s, n)
      BY <2>2 DEF Place, Base, Was
    <3>3. {Place(n) : n \in 0 .. 3} = {256 + Below(entry.reg.s, n) : n \in 0 .. 3}
      BY <3>2
    <3> QED
      BY <2>2, <2>6, <3>1, <3>3 DEF Untouched, Stack
  <2>7. CASE i \in 1 .. RAMIndex \ {2, RAMIndex}
    BY <2>3, <2>7, OffsetsAre
  <2> QED
    BY <2>4, <2>5, <2>6, <2>7
<1> QED
  BY <1>1, KInvAlways, PTL

-----------------------------------------------------------------------------
(* What is seen of it between the calls.                                   *)
SeenGiven == IF machine = "none" THEN <<>> ELSE Given[machine]
SeenCPU   == IF Resting THEN reg ELSE entry.reg
SeenArea  == IF SeenData = <<>> THEN <<>>
             ELSE LET bytes == SeenData[KernelRegisters(ranges)]
                  IN [top |-> Word(bytes, 254), bottom |-> Word(bytes, 252)]
SeenLast  == IF SeenData = <<>> THEN 0 ELSE SeenData[KernelRegisters(ranges)][250]
SeenCall  == CASE pc[1] = "off" -> "off" [] pc[1] = "app" -> "none" [] OTHER -> entry.routine

SeenVars == <<SeenGiven, SeenCPU, SeenArea, SeenLast, SeenCall, fetched, printed>>

AreaOf(bytes) == [top |-> <<bytes[254], bytes[255]>>, bottom |-> <<bytes[252], bytes[253]>>]

LEMMA MemoryIsThere ==
  ASSUME machine \in Machines, NEW ds, Memory(ds)
  PROVE  ds # <<>> /\ KernelRegisters(ranges) = 2
<1>1. RAMIndex \in {4, 5} /\ DOMAIN ds = 1 .. RAMIndex
  BY RangesAre DEF Memory
<1>2. 1 \in DOMAIN ds /\ 1 \notin DOMAIN <<>>
  BY <1>1
<1> QED
  BY <1>2, RegistersAre

BasicSeen ==
  /\ SeenGiven = Given[machine] /\ SeenCPU = reg /\ SeenCall = "none"
  /\ SeenArea = AreaOf(Regs) /\ SeenLast = Regs[250]

ResetSeen ==
  /\ SeenGiven = Given[machine] /\ SeenCPU = entry.reg /\ SeenCall = "reset"
  /\ SeenArea = <<>> /\ SeenLast = 0

CallSeen ==
  /\ SeenGiven = Given[machine] /\ SeenCPU = Was /\ SeenCall = entry.routine
  /\ SeenArea = AreaOf(Had) /\ SeenLast = Had[250]

LEMMA SeenInBasic ==
  ASSUME InBasic
  PROVE  BasicSeen
<1>1. pc[1] = "app" /\ machine \in Machines /\ Memory(data)
  BY DEF InBasic, Types
<1>2. SeenData = data /\ Resting /\ machine # "none"
  BY <1>1 DEF SeenData, Resting, Machines
<1>3. data # <<>> /\ KernelRegisters(ranges) = 2
  BY <1>1, MemoryIsThere
<1> QED
  BY <1>1, <1>2, <1>3
     DEF BasicSeen, SeenGiven, SeenCPU, SeenArea, SeenLast, SeenCall, AreaOf, Word, Regs

LEMMA SeenInReset ==
  ASSUME NEW i, InReset(i)
  PROVE  ResetSeen
<1>1. pc[1] = "reset" /\ machine \in Machines /\ entry.routine = "reset" /\ entry.data = <<>>
  BY DEF InReset, Types, ResetAt
<1>2. SeenData = <<>> /\ ~Resting /\ machine # "none"
  BY <1>1 DEF SeenData, Resting, Machines
<1> QED
  BY <1>1, <1>2 DEF ResetSeen, SeenGiven, SeenCPU, SeenArea, SeenLast, SeenCall

AllSeen ==
  /\ InBasic => BasicSeen
  /\ \A i : InReset(i) => ResetSeen
  /\ \A l \in CallLabels : \A i : In(l, i) => CallSeen

LEMMA SeenInCall ==
  ASSUME NEW l \in CallLabels, NEW i, In(l, i)
  PROVE  CallSeen
<1>1. /\ pc[1] = l /\ machine \in Machines /\ Memory(entry.data)
  BY DEF In, Types, InCall, Pushed
<1>2. l \notin {"off", "app"}
  BY DEF CallLabels, ChrinLabels, ChroutLabels
<1>3. SeenData = entry.data /\ ~Resting /\ machine # "none"
  BY <1>1, <1>2 DEF SeenData, Resting, Machines
<1>4. entry.data # <<>> /\ KernelRegisters(ranges) = 2
  BY <1>1, MemoryIsThere
<1> QED
  BY <1>1, <1>2, <1>3, <1>4
     DEF CallSeen, SeenGiven, SeenCPU, SeenArea, SeenLast, SeenCall, AreaOf, Word, Had, Was

LEMMA AllAreSeen == AllSeen
BY SeenInBasic, SeenInReset, SeenInCall DEF AllSeen

(* A step inside a call that neither fetches nor prints is not seen.       *)
LEMMA NotSeen ==
  ASSUME NEW k \in CallLabels, NEW j, In(k, j), NEW m \in CallLabels, NEW n, In(m, n)',
         UNCHANGED <<machine, entry>>
  PROVE  UNCHANGED <<SeenGiven, SeenCPU, SeenArea, SeenLast, SeenCall>>
<1>1. AllSeen'
  BY AllAreSeen, PTL
<1>2. CallSeen /\ CallSeen'
  BY <1>1, SeenInCall DEF AllSeen
<1> QED
  BY <1>2 DEF CallSeen, Was, Had

(* The steps of the calls, told from what is seen.                         *)
LEMMA PowerOnSeen ==
  ASSUME SeenCall = "off", SeenCall' = "reset", fetched' = 0, printed' = <<>>
  PROVE  Calls!PowerOn
BY DEF Calls!PowerOn, SeenCall

LEMMA BeginSeen ==
  ASSUME NEW name, SeenCall = "none", SeenCall' = name, fetched' = 0, printed' = <<>>,
         UNCHANGED <<SeenGiven, SeenArea, SeenLast>>
  PROVE  Calls!Begin(name)
BY DEF Calls!Begin, SeenCall, SeenGiven, SeenArea, SeenLast

LEMMA TakeSeen ==
  ASSUME SeenCall = "chrin", fetched = 0, fetched' \in InputBytes, printed' = printed,
         UNCHANGED <<SeenGiven, SeenCPU, SeenArea, SeenLast, SeenCall>>
  PROVE  Calls!Take
BY DEF Calls!Take, SeenCall, SeenGiven, SeenArea, SeenLast, SeenCPU

LEMMA PutSeen ==
  ASSUME SeenCall = "chrout", printed = <<>>, SeenCPU.a # 0, ~(SeenCPU.a = CR /\ SeenLast = CR),
         printed' = <<ToASCII(SeenCPU.a)>>, fetched' = fetched,
         UNCHANGED <<SeenGiven, SeenCPU, SeenArea, SeenLast, SeenCall>>
  PROVE  Calls!Put
BY DEF Calls!Put, Calls!Dropped, SeenCall, SeenGiven, SeenArea, SeenLast, SeenCPU

LEMMA ReturnsSeen ==
  ASSUME NEW name, SeenCall = name, SeenCall' = "none", UNCHANGED <<SeenGiven, fetched, printed>>
  PROVE  Calls!Returns(name)
BY DEF Calls!Returns, SeenCall, SeenGiven

LEMMA GivesSeen ==
  ASSUME NEW r, NEW z \in SUBSET {"Z"}, SeenCPU' = [r EXCEPT !.p = (@ \ {"Z"}) \cup z]
  PROVE  Calls!Gives(r)
BY DEF Calls!Gives, SeenCPU

LEMMA ResetSeenEnd ==
  ASSUME Calls!Returns("reset"), "D" \notin SeenCPU'.p, SeenCPU'.s # 0,
         SeenArea' = [top |-> SeenGiven.top, bottom |-> SeenGiven.bottom], SeenLast' = SeenLast
  PROVE  Calls!Reset
BY DEF Calls!Reset, SeenCPU, SeenArea, SeenGiven, SeenLast

LEMMA ChrinSeen ==
  ASSUME Calls!Returns("chrin"), fetched # 0,
         Calls!Gives([SeenCPU EXCEPT !.a = FromASCII(fetched), !.p = SeenCPU.p \ {"C"}]),
         SeenLast' = FromASCII(fetched), SeenArea' = SeenArea
  PROVE  Calls!Chrin
BY DEF Calls!Chrin, Calls!Success, SeenCPU, SeenArea, SeenLast

LEMMA ChroutSeen ==
  ASSUME Calls!Returns("chrout"),
         NEW dropped \in BOOLEAN, dropped <=> SeenCPU.a = CR /\ SeenLast = CR,
         printed # <<>> \/ SeenCPU.a = 0 \/ dropped,
         Calls!Gives([SeenCPU EXCEPT !.p = SeenCPU.p \ {"C"}]),
         SeenLast' = IF dropped THEN 0 ELSE SeenLast, SeenArea' = SeenArea
  PROVE  Calls!Chrout
BY DEF Calls!Chrout, Calls!Success, Calls!Dropped, SeenCPU, SeenArea, SeenLast

LEMMA ScreenxySeen ==
  ASSUME Calls!Returns("screenxy"),
         Calls!Gives([SeenCPU EXCEPT !.x = SeenGiven.screen[1], !.y = SeenGiven.screen[2]]),
         SeenLast' = SeenLast, SeenArea' = SeenArea
  PROVE  Calls!Screenxy
BY DEF Calls!Screenxy, SeenCPU, SeenGiven, SeenArea, SeenLast

LEMMA TellSeen ==
  ASSUME NEW name, NEW end, Calls!Returns(name), "C" \in SeenCPU.p,
         Calls!Gives([SeenCPU EXCEPT !.x = SeenArea[end][1], !.y = SeenArea[end][2]]),
         SeenLast' = SeenLast, SeenArea' = SeenArea
  PROVE  Calls!Tell(name, end)
BY DEF Calls!Tell, SeenCPU, SeenArea, SeenLast

LEMMA SetSeen ==
  ASSUME NEW name, NEW end, Calls!Returns(name), "C" \notin SeenCPU.p, Calls!Gives(SeenCPU),
         SeenLast' = SeenLast, SeenArea' = [SeenArea EXCEPT ![end] = <<SeenCPU.x, SeenCPU.y>>]
  PROVE  Calls!Set(name, end)
BY DEF Calls!Set, SeenCPU, SeenArea, SeenLast

LEMMA NothingSeen ==
  ASSUME NEW name, Calls!Returns(name), UNCHANGED <<SeenCPU, SeenArea, SeenLast>>
  PROVE  Calls!Nothing(name)
BY DEF Calls!Nothing, SeenCPU, SeenArea, SeenLast

LEMMA GivesRegisters ==
  ASSUME SeenCPU' \in RegisterSets, NEW p \in SUBSET Flags,
         NEW r, r = [a |-> SeenCPU'.a, x |-> SeenCPU'.x, y |-> SeenCPU'.y, s |-> SeenCPU'.s, p |-> p],
         \A f \in Flags \ {"Z"} : f \in SeenCPU'.p <=> f \in p
  PROVE  Calls!Gives(r)
<1> DEFINE z == SeenCPU'.p \cap {"Z"}
           q == SeenCPU'
<1>1. q = [a |-> q.a, x |-> q.x, y |-> q.y, s |-> q.s, p |-> q.p] /\ q.p \in SUBSET Flags
  BY DEF RegisterSets
<1>2. q.p = (p \ {"Z"}) \cup z
  BY <1>1
<1>3. [r EXCEPT !.p = (@ \ {"Z"}) \cup z] =
        [a |-> q.a, x |-> q.x, y |-> q.y, s |-> q.s, p |-> (p \ {"Z"}) \cup z]
  OBVIOUS
<1>4. q = [r EXCEPT !.p = (@ \ {"Z"}) \cup z] /\ z \in SUBSET {"Z"}
  BY <1>1, <1>2, <1>3
<1> HIDE DEF z
<1> QED
  BY <1>4, GivesSeen

Returned(p) ==
  /\ SeenCPU = Was /\ Was \in RegisterSets
  /\ Was = [a |-> Was.a, x |-> Was.x, y |-> Was.y, s |-> Was.s, p |-> Was.p]
  /\ SeenCPU' = [a |-> reg.a, x |-> reg.x, y |-> reg.y, s |-> Was.s, p |-> p]
  /\ SeenCPU' \in RegisterSets
  /\ SeenArea = AreaOf(Had) /\ SeenArea' = AreaOf(Regs)
  /\ SeenLast = Had[250] /\ SeenLast' = Regs[250]
  /\ SeenGiven = Given[machine]

LEMMA ReturnIsSeen ==
  ASSUME NEW l \in CallLabels, NEW i, In(l, i), Kernal, Last(l, i)
  PROVE  /\ Calls!Returns(RoutineOf(l))
         /\ Returned(IF l = "IRQ_service_routine" THEN Was.p ELSE reg.p)
         /\ ValuesAt(l, i) /\ FetchedAt(l, i) /\ PrintedAt(l, i)
         /\ \A o \in 3 .. 10 : Regs[o] = Had[o] /\ Regs[o] = InitialRegisters(machine)[o]
         /\ machine \in Machines
<1>1. /\ InBasic' /\ Step /\ SameMemory
      /\ reg'.a = reg.a /\ reg'.x = reg.x /\ reg'.y = reg.y /\ reg'.s = Was.s
      /\ reg'.p = IF l = "IRQ_service_routine" THEN Was.p ELSE reg.p
  BY CallReturns
<1>2. BasicSeen' /\ CallSeen
  <2>1. AllSeen'
    BY AllAreSeen, PTL
  <2> QED
    BY <1>1, <2>1, SeenInCall DEF AllSeen
<1>3. Was \in RegisterSets /\ reg' \in RegisterSets /\ entry.routine = RoutineOf(l)
  BY <1>1, KernalCodeAssumption DEF InBasic, Types, In, InCall, Pushed, RegisterSets, Bytes
<1>4. machine' = machine /\ fetched' = fetched /\ printed' = printed /\ Regs' = Regs
  BY <1>1 DEF Step, SameMemory
<1>5. Calls!Returns(RoutineOf(l))
  BY <1>2, <1>3, <1>4, ReturnsSeen DEF BasicSeen, CallSeen
<1>6. \A o \in 3 .. 10 : Regs[o] = Had[o] /\ Regs[o] = InitialRegisters(machine)[o]
  BY DEF In, InCall, Untouched, Types
<1>7. \A r \in RegisterSets : r = [a |-> r.a, x |-> r.x, y |-> r.y, s |-> r.s, p |-> r.p]
  BY DEF RegisterSets
<1>8. /\ Was = [a |-> Was.a, x |-> Was.x, y |-> Was.y, s |-> Was.s, p |-> Was.p]
      /\ reg' = [a |-> reg.a, x |-> reg.x, y |-> reg.y, s |-> Was.s,
                 p |-> IF l = "IRQ_service_routine" THEN Was.p ELSE reg.p]
  <2>1. reg' = [a |-> reg'.a, x |-> reg'.x, y |-> reg'.y, s |-> reg'.s, p |-> reg'.p]
    BY <1>3, <1>7
  <2> QED
    BY <1>1, <1>3, <1>7, <2>1
<1>9. Returned(IF l = "IRQ_service_routine" THEN Was.p ELSE reg.p)
  BY <1>2, <1>3, <1>4, <1>8 DEF BasicSeen, CallSeen, Returned
<1> QED
  BY <1>5, <1>6, <1>9 DEF In, InCall, Types

LEMMA AreaIs ==
  ASSUME SameVars(252 .. 255)
  PROVE  AreaOf(Regs) = AreaOf(Had)
BY DEF SameVars, AreaOf

LEMMA FlagsAre == Flags \ {"Z"} = {"C", "D"}
BY DEF Flags

LEMMA GivenIs ==
  ASSUME NEW m \in Machines
  PROVE  /\ Given[m].top = <<InitialRegisters(m)[7], InitialRegisters(m)[8]>>
         /\ Given[m].bottom = <<InitialRegisters(m)[9], InitialRegisters(m)[10]>>
         /\ Given[m].screen = <<InitialRegisters(m)[5], InitialRegisters(m)[6]>>
BY DEF Given, Word

LEMMA RegistersExceptAP ==
  ASSUME NEW r \in RegisterSets, NEW v, NEW w
  PROVE  [r EXCEPT !.a = v, !.p = w] = [a |-> v, x |-> r.x, y |-> r.y, s |-> r.s, p |-> w]
<1> DEFINE q == [r EXCEPT !.a = v]
<1>1. q = [a |-> v, x |-> r.x, y |-> r.y, s |-> r.s, p |-> r.p]
  BY DEF RegisterSets
<1> HIDE DEF q
<1>2. [q EXCEPT !.p = w] = [a |-> v, x |-> r.x, y |-> r.y, s |-> r.s, p |-> w]
  BY <1>1
<1> QED
  BY <1>2 DEF q

LEMMA RegistersExceptXY ==
  ASSUME NEW r \in RegisterSets, NEW v, NEW w
  PROVE  [r EXCEPT !.x = v, !.y = w] = [a |-> r.a, x |-> v, y |-> w, s |-> r.s, p |-> r.p]
<1> DEFINE q == [r EXCEPT !.x = v]
<1>1. q = [a |-> r.a, x |-> v, y |-> r.y, s |-> r.s, p |-> r.p]
  BY DEF RegisterSets
<1> HIDE DEF q
<1>2. [q EXCEPT !.y = w] = [a |-> r.a, x |-> v, y |-> w, s |-> r.s, p |-> r.p]
  BY <1>1
<1> QED
  BY <1>2 DEF q

LEMMA GivesReturned ==
  ASSUME NEW q, Returned(q), NEW p \in SUBSET Flags, \A f \in Flags \ {"Z"} : f \in q <=> f \in p,
         NEW r, r = [a |-> reg.a, x |-> reg.x, y |-> reg.y, s |-> Was.s, p |-> p]
  PROVE  Calls!Gives(r)
<1>1. r = [a |-> SeenCPU'.a, x |-> SeenCPU'.x, y |-> SeenCPU'.y, s |-> SeenCPU'.s, p |-> p]
      /\ SeenCPU'.p = q /\ SeenCPU' \in RegisterSets
  BY DEF Returned
<1> QED
  BY <1>1, GivesRegisters

LEMMA ChrinReturnSeen ==
  ASSUME In("chrin_return", 4), Kernal
  PROVE  Calls!Chrin
<1>1. "chrin_return" \in CallLabels /\ Last("chrin_return", 4) /\ RoutineOf("chrin_return") = "chrin"
  BY DEF CallLabels, ChrinLabels, ChroutLabels, Last, RoutineOf
<1>2. /\ Calls!Returns("chrin") /\ Returned(reg.p)
      /\ ValuesAt("chrin_return", 4) /\ FetchedAt("chrin_return", 4) /\ PrintedAt("chrin_return", 4)
  BY <1>1, ReturnIsSeen
<1>3. ChrinAt("chrin_return", 4) /\ fetched # 0
  BY <1>2 DEF ValuesAt, FetchedAt, PrintedAt, ChrinLabels, ChroutLabels
<1>4. /\ reg.a = FromASCII(fetched) /\ reg.x = Was.x /\ reg.y = Was.y /\ "C" \notin reg.p
      /\ SameFlags({"D"}) /\ SameVars(252 .. 255) /\ Regs[250] = reg.a
  BY <1>3 DEF ChrinAt
<1>5. Was = [a |-> Was.a, x |-> Was.x, y |-> Was.y, s |-> Was.s, p |-> Was.p]
      /\ Was.p \in SUBSET Flags /\ SeenCPU = Was
  BY <1>2 DEF Returned, RegisterSets
<1>7. Calls!Gives([SeenCPU EXCEPT !.a = FromASCII(fetched), !.p = SeenCPU.p \ {"C"}])
  <2> DEFINE r == [SeenCPU EXCEPT !.a = FromASCII(fetched), !.p = SeenCPU.p \ {"C"}]
  <2>1. r = [a |-> reg.a, x |-> reg.x, y |-> reg.y, s |-> Was.s, p |-> Was.p \ {"C"}]
    <3> DEFINE v == FromASCII(fetched)
               w == SeenCPU.p \ {"C"}
    <3>1. r = [a |-> v, x |-> SeenCPU.x, y |-> SeenCPU.y, s |-> SeenCPU.s, p |-> w]
      <4> HIDE DEF v, w
      <4>1. SeenCPU \in RegisterSets
        BY <1>2 DEF Returned
      <4>2. [SeenCPU EXCEPT !.a = v, !.p = w] = [a |-> v, x |-> SeenCPU.x, y |-> SeenCPU.y, s |-> SeenCPU.s, p |-> w]
        BY <4>1, RegistersExceptAP
      <4> QED
        BY <4>2 DEF v, w
    <3> QED
      BY <1>4, <1>5, <3>1
  <2>2. Was.p \ {"C"} \in SUBSET Flags /\ \A f \in Flags \ {"Z"} : f \in reg.p <=> f \in Was.p \ {"C"}
    BY <1>4, <1>5, FlagsAre DEF SameFlags
  <2> HIDE DEF r
  <2>3. Calls!Gives(r)
    BY <1>2, <2>1, <2>2, GivesReturned
  <2> QED
    BY <2>3 DEF r
<1>8. SeenArea' = SeenArea
  BY <1>2, <1>4, AreaIs DEF Returned
<1>9. SeenLast' = FromASCII(fetched)
  BY <1>2, <1>4 DEF Returned
<1> QED
  BY <1>2, <1>3, <1>7, <1>8, <1>9, ChrinSeen

LEMMA ChroutReturnSeen ==
  ASSUME In("chrout_return", 3), Kernal
  PROVE  Calls!Chrout
<1>1. "chrout_return" \in CallLabels /\ Last("chrout_return", 3) /\ RoutineOf("chrout_return") = "chrout"
  BY DEF CallLabels, ChrinLabels, ChroutLabels, Last, RoutineOf
<1>2. /\ Calls!Returns("chrout") /\ Returned(reg.p)
      /\ ValuesAt("chrout_return", 3) /\ FetchedAt("chrout_return", 3) /\ PrintedAt("chrout_return", 3)
  BY <1>1, ReturnIsSeen
<1>3. ChroutAt("chrout_return", 3) /\ printed = IF Dropping THEN <<>> ELSE Output
  BY <1>2 DEF ValuesAt, FetchedAt, PrintedAt, ChrinLabels, ChroutLabels
<1>4. /\ reg.a = Was.a /\ reg.x = Was.x /\ reg.y = Was.y /\ "C" \notin reg.p
      /\ SameFlags({"D"}) /\ SameVars(252 .. 255)
      /\ Regs[250] = IF Dropping THEN 0 ELSE Had[250]
  BY <1>3 DEF ChroutAt
<1>5. Was = [a |-> Was.a, x |-> Was.x, y |-> Was.y, s |-> Was.s, p |-> Was.p]
      /\ Was.p \in SUBSET Flags /\ SeenCPU = Was
  BY <1>2 DEF Returned, RegisterSets
<1>7. Calls!Gives([SeenCPU EXCEPT !.p = SeenCPU.p \ {"C"}])
  <2> DEFINE r == [SeenCPU EXCEPT !.p = SeenCPU.p \ {"C"}]
  <2>1. r = [a |-> reg.a, x |-> reg.x, y |-> reg.y, s |-> Was.s, p |-> Was.p \ {"C"}]
    BY <1>4, <1>5
  <2>2. Was.p \ {"C"} \in SUBSET Flags /\ \A f \in Flags \ {"Z"} : f \in reg.p <=> f \in Was.p \ {"C"}
    BY <1>4, <1>5, FlagsAre DEF SameFlags
  <2> HIDE DEF r
  <2>3. Calls!Gives(r)
    BY <1>2, <2>1, <2>2, GivesReturned
  <2> QED
    BY <2>3 DEF r
<1>8. SeenArea' = SeenArea
  BY <1>2, <1>4, AreaIs DEF Returned
<1>9. SeenLast = Had[250] /\ SeenLast' = IF Dropping THEN 0 ELSE SeenLast
  BY <1>2, <1>4 DEF Returned
<1>10. Dropping \in BOOLEAN /\ (Dropping <=> SeenCPU.a = CR /\ SeenLast = CR)
  BY <1>5, <1>9 DEF Dropping
<1>11. printed # <<>> \/ SeenCPU.a = 0 \/ Dropping
  BY <1>3, <1>5 DEF Output
<1> QED
  BY <1>2, <1>7, <1>8, <1>9, <1>10, <1>11, ChroutSeen

LEMMA ScreenxyReturnSeen ==
  ASSUME In("screenxy", 3), Kernal
  PROVE  Calls!Screenxy
<1>1. "screenxy" \in CallLabels /\ Last("screenxy", 3) /\ RoutineOf("screenxy") = "screenxy"
  BY DEF CallLabels, ChrinLabels, ChroutLabels, Last, RoutineOf
<1>2. /\ Calls!Returns("screenxy") /\ Returned(reg.p)
      /\ ValuesAt("screenxy", 3) /\ FetchedAt("screenxy", 3) /\ PrintedAt("screenxy", 3)
  BY <1>1, ReturnIsSeen
<1>3. ScreenAt(3)
  BY <1>2 DEF ValuesAt, FetchedAt, PrintedAt, ChrinLabels, ChroutLabels
<1>4. /\ reg.a = Was.a /\ reg.x = Regs[5] /\ reg.y = Regs[6]
      /\ SameFlags({"C", "D"}) /\ SameVars(252 .. 255) /\ Regs[250] = Had[250]
  BY <1>3 DEF ScreenAt, SameVars, Variables
<1>5. Was = [a |-> Was.a, x |-> Was.x, y |-> Was.y, s |-> Was.s, p |-> Was.p]
      /\ Was.p \in SUBSET Flags /\ SeenCPU = Was
  BY <1>2 DEF Returned, RegisterSets
<1>6. SeenGiven.screen[1] = Regs[5] /\ SeenGiven.screen[2] = Regs[6]
  <2>1. /\ machine \in Machines /\ Regs[5] = InitialRegisters(machine)[5]
        /\ Regs[6] = InitialRegisters(machine)[6]
    BY <1>1, ReturnIsSeen
  <2>2. SeenGiven = Given[machine]
    BY <1>2 DEF Returned
  <2> QED
    BY <2>1, <2>2, GivenIs
<1>7. Calls!Gives([SeenCPU EXCEPT !.x = SeenGiven.screen[1], !.y = SeenGiven.screen[2]])
  <2> DEFINE r == [SeenCPU EXCEPT !.x = SeenGiven.screen[1], !.y = SeenGiven.screen[2]]
  <2>1. r = [a |-> reg.a, x |-> reg.x, y |-> reg.y, s |-> Was.s, p |-> Was.p]
    <3> DEFINE v == SeenGiven.screen[1]
               w == SeenGiven.screen[2]
    <3>1. r = [a |-> SeenCPU.a, x |-> v, y |-> w, s |-> SeenCPU.s, p |-> SeenCPU.p]
      <4> HIDE DEF v, w
      <4>1. SeenCPU \in RegisterSets
        BY <1>2 DEF Returned
      <4>2. [SeenCPU EXCEPT !.x = v, !.y = w] = [a |-> SeenCPU.a, x |-> v, y |-> w, s |-> SeenCPU.s, p |-> SeenCPU.p]
        BY <4>1, RegistersExceptXY
      <4> QED
        BY <4>2 DEF v, w
    <3> QED
      BY <1>4, <1>5, <1>6, <3>1
  <2>2. Was.p \in SUBSET Flags /\ \A f \in Flags \ {"Z"} : f \in reg.p <=> f \in Was.p
    BY <1>4, <1>5, FlagsAre DEF SameFlags
  <2> HIDE DEF r
  <2>3. Calls!Gives(r)
    BY <1>2, <2>1, <2>2, GivesReturned
  <2> QED
    BY <2>3 DEF r
<1>8. SeenArea' = SeenArea
  BY <1>2, <1>4, AreaIs DEF Returned
<1>9. SeenLast' = SeenLast
  BY <1>2, <1>4 DEF Returned
<1> QED
  BY <1>2, <1>7, <1>8, <1>9, ScreenxySeen

LEMMA MemtopReturnSeen ==
  ASSUME In("memtop", 4), Kernal
  PROVE  Calls!Tell("memtop", "top")
<1>1. "memtop" \in CallLabels /\ Last("memtop", 4) /\ RoutineOf("memtop") = "memtop"
  BY DEF CallLabels, ChrinLabels, ChroutLabels, Last, RoutineOf
<1>2. /\ Calls!Returns("memtop") /\ Returned(reg.p)
      /\ ValuesAt("memtop", 4) /\ FetchedAt("memtop", 4) /\ PrintedAt("memtop", 4)
  BY <1>1, ReturnIsSeen
<1>3. TellAt(4, 254)
  BY <1>2 DEF ValuesAt, FetchedAt, PrintedAt, ChrinLabels, ChroutLabels
<1>4. /\ reg.a = Was.a /\ reg.x = Had[254] /\ reg.y = Had[255] /\ "C" \in Was.p
      /\ SameFlags({"C", "D"}) /\ SameVars(252 .. 255) /\ Regs[250] = Had[250]
  BY <1>3 DEF TellAt, SameVars, Variables
<1>5. Was = [a |-> Was.a, x |-> Was.x, y |-> Was.y, s |-> Was.s, p |-> Was.p]
      /\ Was.p \in SUBSET Flags /\ SeenCPU = Was
  BY <1>2 DEF Returned, RegisterSets
<1>6. SeenArea["top"][1] = Had[254] /\ SeenArea["top"][2] = Had[255]
  BY <1>2 DEF Returned, AreaOf
<1>7. Calls!Gives([SeenCPU EXCEPT !.x = SeenArea["top"][1], !.y = SeenArea["top"][2]])
  <2> DEFINE r == [SeenCPU EXCEPT !.x = SeenArea["top"][1], !.y = SeenArea["top"][2]]
  <2>1. r = [a |-> reg.a, x |-> reg.x, y |-> reg.y, s |-> Was.s, p |-> Was.p]
    <3> DEFINE v == SeenArea["top"][1]
               w == SeenArea["top"][2]
    <3>1. r = [a |-> SeenCPU.a, x |-> v, y |-> w, s |-> SeenCPU.s, p |-> SeenCPU.p]
      <4> HIDE DEF v, w
      <4>1. SeenCPU \in RegisterSets
        BY <1>2 DEF Returned
      <4>2. [SeenCPU EXCEPT !.x = v, !.y = w] = [a |-> SeenCPU.a, x |-> v, y |-> w, s |-> SeenCPU.s, p |-> SeenCPU.p]
        BY <4>1, RegistersExceptXY
      <4> QED
        BY <4>2 DEF v, w
    <3> QED
      BY <1>4, <1>5, <1>6, <3>1
  <2>2. Was.p \in SUBSET Flags /\ \A f \in Flags \ {"Z"} : f \in reg.p <=> f \in Was.p
    BY <1>4, <1>5, FlagsAre DEF SameFlags
  <2> HIDE DEF r
  <2>3. Calls!Gives(r)
    BY <1>2, <2>1, <2>2, GivesReturned
  <2> QED
    BY <2>3 DEF r
<1>8. SeenArea' = SeenArea
  BY <1>2, <1>4, AreaIs DEF Returned
<1>9. SeenLast' = SeenLast
  BY <1>2, <1>4 DEF Returned
<1> QED
  BY <1>2, <1>4, <1>5, <1>7, <1>8, <1>9, TellSeen

LEMMA MembotReturnSeen ==
  ASSUME In("membot", 4), Kernal
  PROVE  Calls!Tell("membot", "bottom")
<1>1. "membot" \in CallLabels /\ Last("membot", 4) /\ RoutineOf("membot") = "membot"
  BY DEF CallLabels, ChrinLabels, ChroutLabels, Last, RoutineOf
<1>2. /\ Calls!Returns("membot") /\ Returned(reg.p)
      /\ ValuesAt("membot", 4) /\ FetchedAt("membot", 4) /\ PrintedAt("membot", 4)
  BY <1>1, ReturnIsSeen
<1>3. TellAt(4, 252)
  BY <1>2 DEF ValuesAt, FetchedAt, PrintedAt, ChrinLabels, ChroutLabels
<1>4. /\ reg.a = Was.a /\ reg.x = Had[252] /\ reg.y = Had[253] /\ "C" \in Was.p
      /\ SameFlags({"C", "D"}) /\ SameVars(252 .. 255) /\ Regs[250] = Had[250]
  BY <1>3 DEF TellAt, SameVars, Variables
<1>5. Was = [a |-> Was.a, x |-> Was.x, y |-> Was.y, s |-> Was.s, p |-> Was.p]
      /\ Was.p \in SUBSET Flags /\ SeenCPU = Was
  BY <1>2 DEF Returned, RegisterSets
<1>6. SeenArea["bottom"][1] = Had[252] /\ SeenArea["bottom"][2] = Had[253]
  BY <1>2 DEF Returned, AreaOf
<1>7. Calls!Gives([SeenCPU EXCEPT !.x = SeenArea["bottom"][1], !.y = SeenArea["bottom"][2]])
  <2> DEFINE r == [SeenCPU EXCEPT !.x = SeenArea["bottom"][1], !.y = SeenArea["bottom"][2]]
  <2>1. r = [a |-> reg.a, x |-> reg.x, y |-> reg.y, s |-> Was.s, p |-> Was.p]
    <3> DEFINE v == SeenArea["bottom"][1]
               w == SeenArea["bottom"][2]
    <3>1. r = [a |-> SeenCPU.a, x |-> v, y |-> w, s |-> SeenCPU.s, p |-> SeenCPU.p]
      <4> HIDE DEF v, w
      <4>1. SeenCPU \in RegisterSets
        BY <1>2 DEF Returned
      <4>2. [SeenCPU EXCEPT !.x = v, !.y = w] = [a |-> SeenCPU.a, x |-> v, y |-> w, s |-> SeenCPU.s, p |-> SeenCPU.p]
        BY <4>1, RegistersExceptXY
      <4> QED
        BY <4>2 DEF v, w
    <3> QED
      BY <1>4, <1>5, <1>6, <3>1
  <2>2. Was.p \in SUBSET Flags /\ \A f \in Flags \ {"Z"} : f \in reg.p <=> f \in Was.p
    BY <1>4, <1>5, FlagsAre DEF SameFlags
  <2> HIDE DEF r
  <2>3. Calls!Gives(r)
    BY <1>2, <2>1, <2>2, GivesReturned
  <2> QED
    BY <2>3 DEF r
<1>8. SeenArea' = SeenArea
  BY <1>2, <1>4, AreaIs DEF Returned
<1>9. SeenLast' = SeenLast
  BY <1>2, <1>4 DEF Returned
<1> QED
  BY <1>2, <1>4, <1>5, <1>7, <1>8, <1>9, TellSeen

LEMMA SettopReturnSeen ==
  ASSUME In("settop", 3), Kernal
  PROVE  Calls!Set("memtop", "top")
<1>1. "settop" \in CallLabels /\ Last("settop", 3) /\ RoutineOf("settop") = "memtop"
  BY DEF CallLabels, ChrinLabels, ChroutLabels, Last, RoutineOf
<1>2. /\ Calls!Returns("memtop") /\ Returned(reg.p)
      /\ ValuesAt("settop", 3) /\ FetchedAt("settop", 3) /\ PrintedAt("settop", 3)
  BY <1>1, ReturnIsSeen
<1>3. SetAt(3, 254)
  BY <1>2 DEF ValuesAt, FetchedAt, PrintedAt, ChrinLabels, ChroutLabels
<1>4. /\ reg.a = Was.a /\ reg.x = Was.x /\ reg.y = Was.y /\ "C" \notin Was.p
      /\ SameFlags({"C", "D"}) /\ Regs[250] = Had[250]
      /\ Regs[254] = Was.x /\ Regs[255] = Was.y
      /\ Regs[252] = Had[252] /\ Regs[253] = Had[253]
  BY <1>3 DEF SetAt, SameVars, Variables
<1>5. Was = [a |-> Was.a, x |-> Was.x, y |-> Was.y, s |-> Was.s, p |-> Was.p]
      /\ Was.p \in SUBSET Flags /\ SeenCPU = Was
  BY <1>2 DEF Returned, RegisterSets
<1>7. Calls!Gives(SeenCPU)
  <2> DEFINE r == SeenCPU
  <2>1. r = [a |-> reg.a, x |-> reg.x, y |-> reg.y, s |-> Was.s, p |-> Was.p]
    BY <1>4, <1>5
  <2>2. Was.p \in SUBSET Flags /\ \A f \in Flags \ {"Z"} : f \in reg.p <=> f \in Was.p
    BY <1>4, <1>5, FlagsAre DEF SameFlags
  <2> HIDE DEF r
  <2>3. Calls!Gives(r)
    BY <1>2, <2>1, <2>2, GivesReturned
  <2> QED
    BY <2>3 DEF r
<1>8. SeenArea' = [SeenArea EXCEPT !["top"] = <<SeenCPU.x, SeenCPU.y>>]
  BY <1>2, <1>4, <1>5 DEF Returned, AreaOf
<1>9. SeenLast' = SeenLast
  BY <1>2, <1>4 DEF Returned
<1> QED
  BY <1>2, <1>4, <1>5, <1>7, <1>8, <1>9, SetSeen

LEMMA SetbotReturnSeen ==
  ASSUME In("setbot", 3), Kernal
  PROVE  Calls!Set("membot", "bottom")
<1>1. "setbot" \in CallLabels /\ Last("setbot", 3) /\ RoutineOf("setbot") = "membot"
  BY DEF CallLabels, ChrinLabels, ChroutLabels, Last, RoutineOf
<1>2. /\ Calls!Returns("membot") /\ Returned(reg.p)
      /\ ValuesAt("setbot", 3) /\ FetchedAt("setbot", 3) /\ PrintedAt("setbot", 3)
  BY <1>1, ReturnIsSeen
<1>3. SetAt(3, 252)
  BY <1>2 DEF ValuesAt, FetchedAt, PrintedAt, ChrinLabels, ChroutLabels
<1>4. /\ reg.a = Was.a /\ reg.x = Was.x /\ reg.y = Was.y /\ "C" \notin Was.p
      /\ SameFlags({"C", "D"}) /\ Regs[250] = Had[250]
      /\ Regs[252] = Was.x /\ Regs[253] = Was.y
      /\ Regs[254] = Had[254] /\ Regs[255] = Had[255]
  BY <1>3 DEF SetAt, SameVars, Variables
<1>5. Was = [a |-> Was.a, x |-> Was.x, y |-> Was.y, s |-> Was.s, p |-> Was.p]
      /\ Was.p \in SUBSET Flags /\ SeenCPU = Was
  BY <1>2 DEF Returned, RegisterSets
<1>7. Calls!Gives(SeenCPU)
  <2> DEFINE r == SeenCPU
  <2>1. r = [a |-> reg.a, x |-> reg.x, y |-> reg.y, s |-> Was.s, p |-> Was.p]
    BY <1>4, <1>5
  <2>2. Was.p \in SUBSET Flags /\ \A f \in Flags \ {"Z"} : f \in reg.p <=> f \in Was.p
    BY <1>4, <1>5, FlagsAre DEF SameFlags
  <2> HIDE DEF r
  <2>3. Calls!Gives(r)
    BY <1>2, <2>1, <2>2, GivesReturned
  <2> QED
    BY <2>3 DEF r
<1>8. SeenArea' = [SeenArea EXCEPT !["bottom"] = <<SeenCPU.x, SeenCPU.y>>]
  BY <1>2, <1>4, <1>5 DEF Returned, AreaOf
<1>9. SeenLast' = SeenLast
  BY <1>2, <1>4 DEF Returned
<1> QED
  BY <1>2, <1>4, <1>5, <1>7, <1>8, <1>9, SetSeen

LEMMA NotImplementedReturnSeen ==
  ASSUME In("not_implemented", 7), Kernal
  PROVE  Calls!Nothing("not_implemented")
<1>1. /\ "not_implemented" \in CallLabels /\ Last("not_implemented", 7)
      /\ RoutineOf("not_implemented") = "not_implemented"
  BY DEF CallLabels, ChrinLabels, ChroutLabels, Last, RoutineOf
<1>2. /\ Calls!Returns("not_implemented") /\ Returned(reg.p) /\ ValuesAt("not_implemented", 7)
  BY <1>1, ReturnIsSeen
<1>3. NotImplementedAt(7)
  BY <1>2 DEF ValuesAt, ChrinLabels, ChroutLabels
<1>4. /\ reg.a = Was.a /\ reg.x = Was.x /\ reg.y = Was.y /\ reg.p = Was.p
      /\ SameVars(252 .. 255) /\ Regs[250] = Had[250]
  BY <1>3 DEF NotImplementedAt, SameVars, Variables
<1>5. SeenArea' = SeenArea
  BY <1>2, <1>4, AreaIs DEF Returned
<1>6. SeenLast' = SeenLast /\ SeenCPU' = SeenCPU
  BY <1>2, <1>4 DEF Returned
<1> QED
  BY <1>2, <1>5, <1>6, NothingSeen

LEMMA InterruptReturnSeen ==
  ASSUME In("IRQ_service_routine", 1), Kernal
  PROVE  Calls!Nothing("IRQ_service_routine")
<1>1. /\ "IRQ_service_routine" \in CallLabels /\ Last("IRQ_service_routine", 1)
      /\ RoutineOf("IRQ_service_routine") = "IRQ_service_routine"
  BY DEF CallLabels, ChrinLabels, ChroutLabels, Last, RoutineOf
<1>2. /\ Calls!Returns("IRQ_service_routine") /\ Returned(Was.p) /\ ValuesAt("IRQ_service_routine", 1)
  BY <1>1, ReturnIsSeen
<1>3. InterruptAt
  BY <1>2 DEF ValuesAt, ChrinLabels, ChroutLabels
<1>4. /\ reg.a = Was.a /\ reg.x = Was.x /\ reg.y = Was.y
      /\ SameVars(252 .. 255) /\ Regs[250] = Had[250]
  BY <1>3 DEF InterruptAt, SameVars, Variables
<1>5. SeenArea' = SeenArea
  BY <1>2, <1>4, AreaIs DEF Returned
<1>6. SeenLast' = SeenLast /\ SeenCPU' = SeenCPU
  BY <1>2, <1>4 DEF Returned
<1> QED
  BY <1>2, <1>5, <1>6, NothingSeen

(* A call that returns.                                                    *)
LEMMA CallReturnSeen ==
  ASSUME NEW l \in CallLabels, NEW i, In(l, i), Kernal, Last(l, i)
  PROVE  Calls!CNext
<1>1. CASE l = "chrin_return"
  BY <1>1, ChrinReturnSeen DEF Last, Calls!CNext
<1>2. CASE l = "chrout_return"
  BY <1>2, ChroutReturnSeen DEF Last, Calls!CNext
<1>3. CASE l = "screenxy"
  BY <1>3, ScreenxyReturnSeen DEF Last, Calls!CNext
<1>4. CASE l = "memtop"
  <2>1. Calls!Tell("memtop", "top")
    BY <1>4, MemtopReturnSeen DEF Last
  <2> QED
    BY <2>1 DEF Calls!CNext
<1>5. CASE l = "membot"
  <2>1. Calls!Tell("membot", "bottom")
    BY <1>5, MembotReturnSeen DEF Last
  <2> QED
    BY <2>1 DEF Calls!CNext
<1>6. CASE l = "settop"
  <2>1. Calls!Set("memtop", "top")
    BY <1>6, SettopReturnSeen DEF Last
  <2> QED
    BY <2>1 DEF Calls!CNext
<1>7. CASE l = "setbot"
  <2>1. Calls!Set("membot", "bottom")
    BY <1>7, SetbotReturnSeen DEF Last
  <2> QED
    BY <2>1 DEF Calls!CNext
<1>8. CASE l = "not_implemented"
  BY <1>8, NotImplementedReturnSeen DEF Last, Calls!CNext
<1>9. CASE l = "IRQ_service_routine"
  BY <1>9, InterruptReturnSeen DEF Last, Calls!CNext
<1> QED
  BY <1>1, <1>2, <1>3, <1>4, <1>5, <1>6, <1>7, <1>8, <1>9 DEF Last

LEMMA ResetEndSeen ==
  ASSUME InReset(12), Kernal
  PROVE  Calls!Reset
<1>1. InBasic' /\ Step /\ SameMemory /\ reg' = reg
  BY ResetEnds
<1>2. BasicSeen' /\ ResetSeen
  <2>1. AllSeen'
    BY AllAreSeen, PTL
  <2> QED
    BY <1>1, <2>1, SeenInReset DEF AllSeen
<1>3. machine' = machine /\ fetched' = fetched /\ printed' = printed /\ Regs' = Regs
      /\ machine \in Machines
  BY <1>1 DEF Step, SameMemory, InReset, Types
<1>4. Calls!Returns("reset")
  BY <1>2, <1>3, ReturnsSeen DEF BasicSeen, ResetSeen
<1>5. ResetAt(12)
  BY DEF InReset
<1>6. "D" \notin SeenCPU'.p /\ SeenCPU'.s # 0
  <2>1. "D" \notin reg.p /\ reg.s = Below(Was.s, Depth("reset", 12)) /\ Was.s \in StackPointers
    BY <1>5 DEF ResetAt
  <2>2. Below(Was.s, Depth("reset", 12)) # 0
    BY <2>1, KernalCodeAssumption DEF Depth, Below
  <2> QED
    BY <1>1, <1>2, <2>1, <2>2 DEF BasicSeen
<1>7. SeenArea' = [top |-> SeenGiven.top, bottom |-> SeenGiven.bottom]
  <2>1. /\ Regs[252] = InitialRegisters(machine)[9] /\ Regs[253] = InitialRegisters(machine)[10]
        /\ Regs[254] = InitialRegisters(machine)[7] /\ Regs[255] = InitialRegisters(machine)[8]
    BY <1>5 DEF ResetAt
  <2>2. SeenGiven = Given[machine] /\ SeenArea' = AreaOf(Regs)
    BY <1>2, <1>3 DEF BasicSeen, ResetSeen
  <2> QED
    BY <1>3, <2>1, <2>2, GivenIs DEF AreaOf
<1>8. SeenLast' = SeenLast
  BY <1>2, <1>3, <1>5 DEF BasicSeen, ResetSeen, ResetAt
<1> QED
  BY <1>4, <1>6, <1>7, <1>8, ResetSeenEnd

LEMMA ResetGoesOnUnseen ==
  ASSUME NEW i, InReset(i), NEW j, InReset(j)', UNCHANGED <<machine, entry, fetched, printed>>
  PROVE  UNCHANGED SeenVars
<1>1. ResetSeen /\ ResetSeen'
  <2>1. AllSeen'
    BY AllAreSeen, PTL
  <2> QED
    BY <2>1, SeenInReset DEF AllSeen
<1> QED
  BY <1>1 DEF ResetSeen, SeenVars

LEMMA CallGoesOnUnseen ==
  ASSUME NEW l \in CallLabels, NEW i, In(l, i), Kernal, Within'
  PROVE  UNCHANGED SeenVars
<1>1. UNCHANGED <<machine, entry, fetched, printed>>
  BY WhichAction DEF Step
<1>2. PICK m \in CallLabels, n \in Nat : In(m, n)'
  BY LabelsAre DEF Within
<1> QED
  BY <1>1, <1>2, NotSeen DEF SeenVars

(* The host in a call.                                                     *)
LEMMA HostSeen ==
  ASSUME NEW l \in CallLabels, NEW i \in 1 .. Len(Code[l]), In(l, i), OnCPUCycle
  PROVE  Calls!CNext \/ UNCHANGED SeenVars
<1>1. In(l, i)' /\ UNCHANGED <<machine, entry>>
  BY HostLooks, HostActs DEF In, HostKeeps, Kept
<1>2. UNCHANGED <<SeenGiven, SeenCPU, SeenArea, SeenLast, SeenCall>> /\ CallSeen
  BY <1>1, NotSeen, SeenInCall
<1>3. SeenCall = RoutineOf(l)
  BY <1>2 DEF CallSeen, In, InCall
<1>4. CASE l = "chrin_io_loop"
  <2>1. printed' = printed /\ (fetched' = fetched \/ (fetched = 0 /\ fetched' \in InputBytes))
    BY <1>4, ChrinIoLoopCode, HostAtChrinIoLoop
  <2>2. SeenCall = "chrin"
    BY <1>3, <1>4 DEF RoutineOf, ChrinLabels, ChroutLabels
  <2>3. CASE fetched' = fetched
    BY <1>2, <2>1, <2>3 DEF SeenVars
  <2>4. CASE fetched = 0 /\ fetched' \in InputBytes
    <3>1. Calls!Take
      BY <1>2, <2>1, <2>2, <2>4, TakeSeen
    <3> QED
      BY <3>1 DEF Calls!CNext
  <2> QED
    BY <2>1, <2>3, <2>4
<1>5. CASE l = "chrout_write" /\ i = 2
  <2>1. fetched' = fetched /\ printed = <<>> /\ printed' = Output
    BY <1>5, HostAtChroutWrite
  <2>2. SeenCall = "chrout"
    BY <1>3, <1>5 DEF RoutineOf, ChrinLabels, ChroutLabels
  <2>3. ~Dropping
    <3>1. ChroutAt("chrout_write", 2)
      BY <1>5 DEF In, ValuesAt, ChrinLabels, ChroutLabels
    <3> QED
      BY <3>1 DEF ChroutAt
  <2>4. CASE Was.a = 0
    BY <1>2, <2>1, <2>4 DEF SeenVars, Output
  <2>5. CASE Was.a # 0
    <3>1. SeenCPU.a # 0 /\ ~(SeenCPU.a = CR /\ SeenLast = CR) /\ printed' = <<ToASCII(SeenCPU.a)>>
      BY <1>2, <2>1, <2>3, <2>5 DEF CallSeen, Dropping, Output
    <3>2. Calls!Put
      BY <1>2, <2>1, <2>2, <3>1, PutSeen
    <3> QED
      BY <3>2 DEF Calls!CNext
  <2> QED
    BY <2>4, <2>5
<1>6. CASE l = "not_implemented" /\ i = 5
  <2>1. UNCHANGED <<fetched, printed>>
    BY <1>6, HostAtNotImplemented
  <2> QED
    BY <1>2, <2>1 DEF SeenVars
<1>7. CASE ~Busy(l, i)
  <2>1. UNCHANGED <<fetched, printed>>
    BY <1>7, HostQuiet
  <2> QED
    BY <1>2, <2>1 DEF SeenVars
<1> QED
  BY <1>4, <1>5, <1>6, <1>7 DEF Busy

(* A call that begins, and the power that comes on.                        *)
LEMMA BeginsSeen ==
  ASSUME InBasic, Basic
  PROVE  Calls!CNext
<1>1. PICK routine \in Entrances, args \in Arguments, n \in {2, 3} :
        Enters(routine, args, n) /\ In(routine, 1)'
  <2>1. PICK args \in Arguments : Break(args) \/ \E address \in JumpAddresses : Call(address, args)
    BY DEF Basic
  <2>2. CASE Break(args)
    <3>1. In("IRQ_service_routine", 1)' /\ Enters("IRQ_service_routine", args, 3)
      BY <2>2, BreakStarts DEF Break
    <3> QED
      BY <3>1 DEF Entrances
  <2>3. ASSUME NEW address \in JumpAddresses, Call(address, args)
        PROVE  \E routine \in Entrances, n \in {2, 3} : Enters(routine, args, n) /\ In(routine, 1)'
    <3>1. PICK routine \in Entrances : routine = JumpTable(address) /\ In(routine, 1)'
      BY <2>3, CallStarts
    <3>2. Enters(routine, args, 2)
      BY <2>3, <3>1 DEF Call
    <3> QED
      BY <3>1, <3>2
  <2> QED
    BY <2>1, <2>2, <2>3
<1>2. /\ fetched' = 0 /\ printed' = <<>> /\ machine' = machine /\ entry'.data = data
      /\ entry'.routine = routine /\ routine \in CallLabels
  BY <1>1 DEF Enters, Entrances, CallLabels, ChrinLabels, ChroutLabels
<1>3. BasicSeen /\ CallSeen'
  <2>1. AllSeen'
    BY AllAreSeen, PTL
  <2> QED
    BY <1>1, <1>2, <2>1, SeenInBasic DEF AllSeen
<1>4. Had' = Regs
  <2>1. entry'.routine # "reset"
    BY <1>1, <1>2 DEF Entrances
  <2> QED
    BY <1>2, <2>1 DEF Had, Regs
<1>5. Calls!Begin(routine)
  BY <1>2, <1>3, <1>4, BeginSeen DEF BasicSeen, CallSeen
<1> QED
  BY <1>1, <1>5 DEF Calls!CNext, Entrances

LEMMA PowerOnIsSeen ==
  ASSUME Off, NEW m \in Machines, PowerOn(m)
  PROVE  Calls!PowerOn
<1>1. SeenCall = "off"
  BY DEF Off, SeenCall
<1>2. SeenCall' = "reset"
  <2>1. ResetSeen'
    <3>1. AllSeen'
      BY AllAreSeen, PTL
    <3> QED
      BY <3>1, PowerOnStarts DEF AllSeen
  <2> QED
    BY <2>1 DEF ResetSeen
<1>3. fetched' = 0 /\ printed' = <<>>
  BY DEF PowerOn, Off
<1> QED
  BY <1>1, <1>2, <1>3, PowerOnSeen

(* Every step is a step of the calls, or is not seen.                      *)
LEMMA StepIsSeen ==
  ASSUME KInv, KNext
  PROVE  [Calls!CNext]_(Calls!cvars)
<1> SUFFICES Calls!CNext \/ UNCHANGED SeenVars
  BY DEF Calls!cvars, SeenVars, SeenGiven, SeenCPU, SeenArea, SeenLast, SeenCall
<1>1. CASE Off
  <2>1. PICK m \in Machines : PowerOn(m)
    BY <1>1, StepsOff
  <2>2. Calls!PowerOn
    BY <1>1, <2>1, PowerOnIsSeen
  <2> QED
    BY <2>2 DEF Calls!CNext
<1>2. CASE InBasic
  <2>1. CASE Basic
    BY <1>2, <2>1, BeginsSeen
  <2>2. CASE OnCPUCycle
    <3>1. InBasic' /\ Regs' = Regs /\ UNCHANGED <<fetched, printed, machine, reg>>
      BY <1>2, <2>2, HostInBasic, HostActs DEF InBasic, HostKeeps, Kept
    <3>2. BasicSeen /\ BasicSeen'
      <4>1. AllSeen'
        BY AllAreSeen, PTL
      <4> QED
        BY <1>2, <3>1, <4>1, SeenInBasic DEF AllSeen
    <3> QED
      BY <3>1, <3>2 DEF BasicSeen, SeenVars
  <2> QED
    BY <1>2, <2>1, <2>2, StepsInBasic
<1>3. ASSUME NEW i \in 1 .. 12, InReset(i)
      PROVE  Calls!CNext \/ UNCHANGED SeenVars
  <2>1. pc[1] \in DOMAIN Code
    BY <1>3, LabelsAre DEF InReset
  <2>2. CASE Kernal
    <3>1. CASE i = 12
      <4>1. Calls!Reset
        BY <1>3, <2>2, <3>1, ResetEndSeen
      <4> QED
        BY <4>1 DEF Calls!CNext
    <3>2. CASE i \in 1 .. 11
      <4>1. InReset(i + 1)'
        BY <1>3, <2>2, <3>2, AtReset
      <4>2. UNCHANGED <<machine, entry, fetched, printed>>
        BY <2>2, WhichAction DEF Step
      <4> QED
        BY <1>3, <4>1, <4>2, ResetGoesOnUnseen
    <3> QED
      BY <3>1, <3>2
  <2>3. CASE OnCPUCycle
    <3>1. InReset(i)' /\ UNCHANGED <<machine, entry, fetched, printed>>
      BY <1>3, <2>3, HostInReset, HostActs DEF InReset, HostKeeps, Kept
    <3> QED
      BY <1>3, <3>1, ResetGoesOnUnseen
  <2> QED
    BY <2>1, <2>2, <2>3, StepsInCode
<1>4. ASSUME NEW l \in CallLabels, NEW i \in 1 .. Len(Code[l]), In(l, i)
      PROVE  Calls!CNext \/ UNCHANGED SeenVars
  <2>1. pc[1] \in DOMAIN Code
    BY <1>4, LabelsAre DEF In
  <2>2. CASE Kernal /\ Last(l, i)
    BY <1>4, <2>2, CallReturnSeen
  <2>3. CASE Kernal /\ ~Last(l, i)
    BY <1>4, <2>3, CallGoesOn, CallGoesOnUnseen
  <2>4. CASE OnCPUCycle
    BY <1>4, <2>4, HostSeen
  <2> QED
    BY <2>1, <2>2, <2>3, <2>4, StepsInCode
<1> QED
  BY <1>1, <1>2, <1>3, <1>4, LabelsAre DEF KInv

LEMMA StutterIsUnseen ==
  ASSUME UNCHANGED kvars
  PROVE  [Calls!CNext]_(Calls!cvars)
BY DEF Calls!cvars, kvars, Resting, SeenData, ranges

(* The kernal's code, with the host beside it, does to BASIC what the      *)
(* calls promise, and nothing else.                                        *)
THEOREM CallsImplemented == KSpec => ImplementsCalls
<1>1. KInit => Calls!CInit
  BY DEF KInit, Calls!CInit
<1>2. KInv /\ [KNext]_kvars => [Calls!CNext]_(Calls!cvars)
  BY StepIsSeen, StutterIsUnseen
<1> QED
  BY <1>1, <1>2, KInvAlways, PTL DEF KSpec, ImplementsCalls, Calls!CSpec
=============================================================================
