-------------------------- MODULE Machine6502Proofs --------------------------
(***************************************************************************)
(* What is proved of machine_6502::run: whatever the CPU does, however     *)
(* many callers there are and whatever addresses are looked at, the pins   *)
(* get their edges in order, every access is served once, the trace and    *)
(* the host see what the CPU sees, and the ranges are a flat memory.       *)
(*                                                                         *)
(* The argument: the pins, and what was put out, served and traced, are    *)
(* told by where in the script the caller is that holds the mutex          *)
(* (Position), and nobody else is in the script (OneRuns).                 *)
(***************************************************************************)
EXTENDS Machine6502, SequenceTheorems, WellFoundedInduction, TLAPS

-----------------------------------------------------------------------------
(* Whatever ranges a machine is built with, and however they overlap, they *)
(* are a flat memory.                                                      *)

(* A list of ranges, and data that has a place for every address of a set. *)
AddressRanges == [kind : {"ROM", "RAM", "registers"}, start : Nat, size : Nat, byte : 0 .. 255]
Ranges(list) == list \in Seq(AddressRanges)

Backs(cells, list, addresses) ==
  /\ cells = [i \in DOMAIN list |-> cells[i]]
  /\ \A i \in DOMAIN list :
       /\ cells[i] = [o \in DOMAIN cells[i] |-> cells[i][o]]
       /\ \A a \in addresses :
            Contains(list[i], a) => a - list[i].start \in DOMAIN cells[i]

(* The first range that contains an address is one that does.              *)
LEMMA ServingHits ==
  ASSUME NEW list, Ranges(list), NEW a, Hits(list, a) # {}
  PROVE  /\ Serving(list, a) \in DOMAIN list
         /\ Contains(list[Serving(list, a)], a)
<1>1. Hits(list, a) \subseteq Nat
  BY DEF Ranges, Hits
<1>2. PICK n \in Hits(list, a) : \A k \in Hits(list, a) : <<k, n>> \notin OpToRel(<, Nat)
  <2> HIDE DEF Hits
  <2> QED
    BY <1>1, NatLessThanWellFounded, WFMin
<1>3. \A k \in Hits(list, a) : n <= k
  <2> SUFFICES ASSUME NEW k \in Hits(list, a), k < n PROVE FALSE
    BY <1>1
  <2>1. <<k, n>> \in Nat \X Nat /\ <<k, n>>[1] < <<k, n>>[2]
    BY <1>1
  <2> QED
    BY <1>2, <2>1 DEF OpToRel
<1>4. Serving(list, a) \in Hits(list, a)
  BY <1>2, <1>3 DEF Serving, Min
<1> QED
  BY <1>4 DEF Hits

(* It is the first of them.                                                *)
LEMMA ServingIs ==
  ASSUME NEW list, Ranges(list), NEW a, NEW i \in Hits(list, a),
         \A j \in Hits(list, a) : i <= j
  PROVE  Serving(list, a) = i
<1>1. Hits(list, a) \subseteq Nat
  BY DEF Ranges, Hits
<1>2. /\ Serving(list, a) \in Hits(list, a)
      /\ \A j \in Hits(list, a) : Serving(list, a) <= j
  <2> HIDE DEF Hits
  <2> QED
    BY DEF Serving, Min
<1>3. Serving(list, a) \in Nat /\ i \in Nat
  BY <1>1, <1>2
<1>4. Serving(list, a) <= i /\ i <= Serving(list, a)
  BY <1>2
<1> QED
  BY <1>3, <1>4

(* A store at an address is what the next load there gives, if the range   *)
(* that serves the address can be written, and changes no other address.   *)
THEOREM StoreThenLoad ==
  ASSUME NEW list, Ranges(list),
         NEW addresses \in SUBSET Nat,
         NEW cells, Backs(cells, list, addresses),
         NEW a \in addresses, NEW b \in 0 .. 255,
         NEW c \in addresses
  PROVE  Load(list, Store(list, cells, a, b), c) =
           IF c = a /\ a \notin ReadOnly(list, addresses) THEN b
           ELSE Load(list, cells, c)
<1> DEFINE i == Serving(list, a)
           j == Serving(list, c)
<1>1. CASE Hits(list, a) = {}
  BY <1>1 DEF Store, Load, ReadOnly
<1>2. CASE Hits(list, a) # {} /\ ~IsWritable(list[i])
  BY <1>2 DEF Store, Load, ReadOnly
<1>3. CASE Hits(list, a) # {} /\ IsWritable(list[i])
  <2>1. i \in DOMAIN list /\ Contains(list[i], a)
    BY <1>3, ServingHits
  <2>2. a - list[i].start \in DOMAIN cells[i] /\ i \in DOMAIN cells
    BY <2>1 DEF Backs
  <2>3. Store(list, cells, a, b) = [cells EXCEPT ![i][a - list[i].start] = b]
    BY <1>3 DEF Store
  <2>4. a \notin ReadOnly(list, addresses)
    BY <1>3 DEF ReadOnly
  <2>5. CASE Hits(list, c) = {}
    BY <1>3, <2>5 DEF Load
  <2>6. CASE Hits(list, c) # {}
    <3>1. j \in DOMAIN list /\ Contains(list[j], c)
      BY <2>6, ServingHits
    <3>2. c - list[j].start \in DOMAIN cells[j] /\ j \in DOMAIN cells
      BY <3>1 DEF Backs
    <3>3. Load(list, Store(list, cells, a, b), c)
            = [cells EXCEPT ![i][a - list[i].start] = b][j][c - list[j].start]
      BY <2>3, <2>6 DEF Load
    <3>4. CASE i = j
      <4>1. list[i].start \in Nat
        <5>1. list[i] \in AddressRanges
          BY <2>1 DEF Ranges
        <5> QED
          BY <5>1 DEF AddressRanges
      <4>2. c = a <=> c - list[j].start = a - list[i].start
        BY <3>4, <4>1
      <4> QED
        BY <2>2, <2>4, <2>6, <3>2, <3>3, <3>4, <4>2 DEF Load, Backs
    <3>5. CASE i # j
      <4>1. c # a
        BY <3>5
      <4> QED
        BY <2>2, <2>6, <3>2, <3>3, <3>5, <4>1 DEF Load
    <3> QED
      BY <3>4, <3>5
  <2> QED
    BY <2>5, <2>6
<1> QED
  BY <1>1, <1>2, <1>3

-----------------------------------------------------------------------------
(* What the script of machine_6502::run says at each of its 53 positions.  *)

Ops ==
  {PinWriteOp("RES", FALSE), PinWriteOp("RES", TRUE),
   PinWriteOp("CLK0IN", FALSE), PinWriteOp("CLK0IN", TRUE),
   PinWriteOp("RDY", TRUE), PinWriteOp("SO", FALSE),
   PinWriteOp("IRQ", TRUE), PinWriteOp("NMI", TRUE),
   RecalcOp, StabilizeOp, MemoryOp, TraceOp, HostOp}

Setup ==
  <<PinWriteOp("RES", FALSE), RecalcOp, PinWriteOp("CLK0IN", TRUE), RecalcOp,
    PinWriteOp("RDY", TRUE), RecalcOp, PinWriteOp("SO", FALSE), RecalcOp,
    PinWriteOp("IRQ", TRUE), RecalcOp, PinWriteOp("NMI", TRUE), StabilizeOp>>

Release == <<PinWriteOp("RES", TRUE), RecalcOp>>
Serve   == <<MemoryOp, TraceOp, HostOp>>

LEMMA OpsAre ==
  /\ PinWriteOp("RES", FALSE) \in Ops /\ PinWriteOp("RES", TRUE) \in Ops
  /\ PinWriteOp("CLK0IN", FALSE) \in Ops /\ PinWriteOp("CLK0IN", TRUE) \in Ops
  /\ PinWriteOp("RDY", TRUE) \in Ops /\ PinWriteOp("SO", FALSE) \in Ops
  /\ PinWriteOp("IRQ", TRUE) \in Ops /\ PinWriteOp("NMI", TRUE) \in Ops
  /\ RecalcOp \in Ops /\ StabilizeOp \in Ops
  /\ MemoryOp \in Ops /\ TraceOp \in Ops /\ HostOp \in Ops
BY DEF Ops

LEMMA Two ==
  ASSUME NEW S, NEW a \in S, NEW b \in S
  PROVE  <<a, b>> \in Seq(S) /\ Len(<<a, b>>) = 2
OBVIOUS

LEMMA Three ==
  ASSUME NEW S, NEW a \in S, NEW b \in S, NEW c \in S
  PROVE  <<a, b, c>> \in Seq(S) /\ Len(<<a, b, c>>) = 3
OBVIOUS

LEMMA Four ==
  ASSUME NEW S, NEW a \in S, NEW b \in S, NEW c \in S, NEW d \in S
  PROVE  <<a, b, c, d>> \in Seq(S) /\ Len(<<a, b, c, d>>) = 4
OBVIOUS

LEMMA Twelve ==
  ASSUME NEW S, NEW a \in S, NEW b \in S, NEW c \in S, NEW d \in S, NEW e \in S,
         NEW f \in S, NEW g \in S, NEW h \in S
  PROVE  LET s == <<a, b, c, b, d, b, e, b, f, b, g, h>> IN s \in Seq(S) /\ Len(s) = 12
OBVIOUS

LEMMA Spans ==
  ASSUME NEW S, NEW n \in Nat, NEW f \in [1 .. n -> S]
  PROVE  f \in Seq(S) /\ Len(f) = n
<1>1. f \in Seq(S)
  BY SeqDef
<1>2. Len(f) \in Nat /\ DOMAIN f = 1 .. Len(f) /\ DOMAIN f = 1 .. n
  BY <1>1, LenProperties
<1> QED
  BY <1>1, <1>2

LEMMA Joins ==
  ASSUME NEW S, NEW s \in Seq(S), NEW t \in Seq(S)
  PROVE  /\ s \o t \in Seq(S) /\ Len(s \o t) = Len(s) + Len(t)
         /\ \A i \in 1 .. Len(s) : (s \o t)[i] = s[i]
         /\ \A i \in 1 .. Len(t) : (s \o t)[Len(s) + i] = t[i]
<1>1. /\ s \o t \in Seq(S) /\ Len(s \o t) = Len(s) + Len(t)
      /\ \A i \in 1 .. Len(s) + Len(t) :
           (s \o t)[i] = IF i <= Len(s) THEN s[i] ELSE t[i - Len(s)]
  BY ConcatProperties
<1>2. Len(s) \in Nat /\ Len(t) \in Nat
  OBVIOUS
<1>3. \A i \in 1 .. Len(t) : /\ (Len(s) + i) - Len(s) = i /\ ~(Len(s) + i <= Len(s))
                            /\ Len(s) + i \in 1 .. Len(s) + Len(t)
  BY <1>2
<1> QED
  BY <1>1, <1>2, <1>3

LEMMA SetupIs == Setup \in Seq(Ops) /\ Len(Setup) = 12
<1>1. Setup \in Seq(Ops)
  BY OpsAre, Twelve DEF Setup
<1>2. Len(Setup) = 12
  BY OpsAre, Twelve DEF Setup
<1> QED
  BY <1>1, <1>2

LEMMA ReleaseIs == Release \in Seq(Ops) /\ Len(Release) = 2
<1>1. Release \in Seq(Ops)
  BY OpsAre, Two DEF Release
<1>2. Len(Release) = 2
  BY OpsAre, Two DEF Release
<1> QED
  BY <1>1, <1>2

LEMMA ServeIs == Serve \in Seq(Ops) /\ Len(Serve) = 3
<1>1. Serve \in Seq(Ops)
  BY OpsAre, Three DEF Serve
<1>2. Len(Serve) = 3
  BY OpsAre, Three DEF Serve
<1> QED
  BY <1>1, <1>2

LEMMA CycleIs == CycleOps \in Seq(Ops) /\ Len(CycleOps) = 4
<1>1. CycleOps \in Seq(Ops)
  BY OpsAre, Four DEF CycleOps
<1>2. Len(CycleOps) = 4
  BY OpsAre, Four DEF CycleOps
<1> QED
  BY <1>1, <1>2

LEMMA HoldIs == HoldOps \in Seq(Ops) /\ Len(HoldOps) = 32
<1>1. \A k \in 1 .. 32 : (((k - 1) % 4) + 1) \in 1 .. 4
  OBVIOUS
<1>2. \A j \in 1 .. 4 : CycleOps[j] \in Ops
  BY CycleIs, ElementOfSeq
<1>3. HoldOps = [k \in 1 .. 32 |-> CycleOps[((k - 1) % 4) + 1]]
  BY DEF HoldOps, HoldCycles
<1>4. HoldOps \in [1 .. 32 -> Ops]
  BY <1>1, <1>2, <1>3
<1> QED
  BY <1>4, Spans

LEMMA SetupHold ==
  /\ Setup \o HoldOps \in Seq(Ops) /\ Len(Setup \o HoldOps) = 44
  /\ \A k \in 1 .. 12 : (Setup \o HoldOps)[k] = Setup[k]
  /\ \A k \in 1 .. 32 : (Setup \o HoldOps)[12 + k] = HoldOps[k]
<1>1. Setup \in Seq(Ops) /\ HoldOps \in Seq(Ops)
  BY SetupIs, HoldIs
<1>2. Len(Setup) = 12 /\ Len(HoldOps) = 32
  BY SetupIs, HoldIs
<1>3. Setup \o HoldOps \in Seq(Ops)
  BY <1>1, Joins
<1>4. Len(Setup \o HoldOps) = Len(Setup) + Len(HoldOps)
  BY <1>1, Joins
<1>5. \A k \in 1 .. Len(Setup) : (Setup \o HoldOps)[k] = Setup[k]
  BY <1>1, Joins
<1>6. \A k \in 1 .. Len(HoldOps) : (Setup \o HoldOps)[Len(Setup) + k] = HoldOps[k]
  BY <1>1, Joins
<1>7. Len(Setup \o HoldOps) = 44
  BY <1>2, <1>4
<1>8. \A k \in 1 .. 12 : (Setup \o HoldOps)[k] = Setup[k]
  BY <1>2, <1>5
<1>9. \A k \in 1 .. 32 : (Setup \o HoldOps)[12 + k] = HoldOps[k]
  BY <1>2, <1>6
<1> QED
  BY <1>3, <1>7, <1>8, <1>9

Held == Setup \o HoldOps

LEMMA HeldIs == Held \in Seq(Ops) /\ Len(Held) = 44
BY SetupHold DEF Held

LEMMA HeldRelease ==
  /\ Held \o Release \in Seq(Ops) /\ Len(Held \o Release) = 46
  /\ \A k \in 1 .. 44 : (Held \o Release)[k] = Held[k]
  /\ \A k \in 1 .. 2 : (Held \o Release)[44 + k] = Release[k]
<1>1. Held \in Seq(Ops) /\ Release \in Seq(Ops)
  BY HeldIs, ReleaseIs
<1>2. Len(Held) = 44 /\ Len(Release) = 2
  BY HeldIs, ReleaseIs
<1>3. Held \o Release \in Seq(Ops)
  BY <1>1, Joins
<1>4. Len(Held \o Release) = Len(Held) + Len(Release)
  BY <1>1, Joins
<1>5. \A k \in 1 .. Len(Held) : (Held \o Release)[k] = Held[k]
  BY <1>1, Joins
<1>6. \A k \in 1 .. Len(Release) : (Held \o Release)[Len(Held) + k] = Release[k]
  BY <1>1, Joins
<1>7. Len(Held \o Release) = 46
  BY <1>2, <1>4
<1>8. \A k \in 1 .. 44 : (Held \o Release)[k] = Held[k]
  BY <1>2, <1>5
<1>9. \A k \in 1 .. 2 : (Held \o Release)[44 + k] = Release[k]
  BY <1>2, <1>6
<1> QED
  BY <1>3, <1>7, <1>8, <1>9

LEMMA CycleServe ==
  /\ CycleOps \o Serve \in Seq(Ops) /\ Len(CycleOps \o Serve) = 7
  /\ \A k \in 1 .. 4 : (CycleOps \o Serve)[k] = CycleOps[k]
  /\ \A k \in 1 .. 3 : (CycleOps \o Serve)[4 + k] = Serve[k]
<1>1. CycleOps \in Seq(Ops) /\ Serve \in Seq(Ops)
  BY CycleIs, ServeIs
<1>2. Len(CycleOps) = 4 /\ Len(Serve) = 3
  BY CycleIs, ServeIs
<1>3. CycleOps \o Serve \in Seq(Ops)
  BY <1>1, Joins
<1>4. Len(CycleOps \o Serve) = Len(CycleOps) + Len(Serve)
  BY <1>1, Joins
<1>5. \A k \in 1 .. Len(CycleOps) : (CycleOps \o Serve)[k] = CycleOps[k]
  BY <1>1, Joins
<1>6. \A k \in 1 .. Len(Serve) : (CycleOps \o Serve)[Len(CycleOps) + k] = Serve[k]
  BY <1>1, Joins
<1>7. Len(CycleOps \o Serve) = 7
  BY <1>2, <1>4
<1>8. \A k \in 1 .. 4 : (CycleOps \o Serve)[k] = CycleOps[k]
  BY <1>2, <1>5
<1>9. \A k \in 1 .. 3 : (CycleOps \o Serve)[4 + k] = Serve[k]
  BY <1>2, <1>6
<1> QED
  BY <1>3, <1>7, <1>8, <1>9

LEMMA InitializeIs ==
  InitializeOps = Held \o Release /\ InitializeOps \in Seq(Ops) /\ Len(InitializeOps) = 46
<1>1. InitializeOps = Held \o Release
  BY DEF InitializeOps, Held, Setup, Release
<1> QED
  BY <1>1, HeldRelease

LEMMA LoopIs == LoopOps = CycleOps \o Serve /\ LoopOps \in Seq(Ops) /\ Len(LoopOps) = 7
<1>1. LoopOps = CycleOps \o Serve
  BY DEF LoopOps, Serve
<1> QED
  BY <1>1, CycleServe

LEMMA InitializeLoop ==
  /\ InitializeOps \o LoopOps \in Seq(Ops) /\ Len(InitializeOps \o LoopOps) = 53
  /\ \A k \in 1 .. 46 : (InitializeOps \o LoopOps)[k] = InitializeOps[k]
  /\ \A k \in 1 .. 7 : (InitializeOps \o LoopOps)[46 + k] = LoopOps[k]
<1>1. InitializeOps \in Seq(Ops) /\ LoopOps \in Seq(Ops)
  BY InitializeIs, LoopIs
<1>2. Len(InitializeOps) = 46 /\ Len(LoopOps) = 7
  BY InitializeIs, LoopIs
<1>3. InitializeOps \o LoopOps \in Seq(Ops)
  BY <1>1, Joins
<1>4. Len(InitializeOps \o LoopOps) = Len(InitializeOps) + Len(LoopOps)
  BY <1>1, Joins
<1>5. \A k \in 1 .. Len(InitializeOps) : (InitializeOps \o LoopOps)[k] = InitializeOps[k]
  BY <1>1, Joins
<1>6. \A k \in 1 .. Len(LoopOps) :
        (InitializeOps \o LoopOps)[Len(InitializeOps) + k] = LoopOps[k]
  BY <1>1, Joins
<1>7. Len(InitializeOps \o LoopOps) = 53
  BY <1>2, <1>4
<1>8. \A k \in 1 .. 46 : (InitializeOps \o LoopOps)[k] = InitializeOps[k]
  BY <1>2, <1>5
<1>9. \A k \in 1 .. 7 : (InitializeOps \o LoopOps)[46 + k] = LoopOps[k]
  BY <1>2, <1>6
<1> QED
  BY <1>3, <1>7, <1>8, <1>9

LEMMA Parts ==
  /\ Len(Script) = 53 /\ LoopStart = 47
  /\ \A k \in 1 .. 12 : Script[k] = Setup[k]
  /\ \A k \in 1 .. 32 : Script[12 + k] = HoldOps[k]
  /\ \A k \in 1 .. 2 : Script[44 + k] = Release[k]
  /\ \A k \in 1 .. 4 : Script[46 + k] = CycleOps[k]
  /\ \A k \in 1 .. 3 : Script[50 + k] = Serve[k]
<1>1. Script = InitializeOps \o LoopOps
  BY DEF Script
<1>2. Len(Script) = 53
  BY <1>1, InitializeLoop
<1>3. LoopStart = 47
  BY InitializeIs DEF LoopStart
<1>4. \A k \in 1 .. 46 : Script[k] = (Held \o Release)[k]
  BY <1>1, InitializeLoop, InitializeIs
<1>5. \A k \in 1 .. 44 : Script[k] = (Setup \o HoldOps)[k]
  <2>1. \A k \in 1 .. 44 : (Held \o Release)[k] = Held[k]
    BY HeldRelease
  <2>2. \A k \in 1 .. 44 : k \in 1 .. 46
    OBVIOUS
  <2>3. \A k \in 1 .. 44 : Script[k] = Held[k]
    BY <1>4, <2>1, <2>2
  <2> QED
    BY <2>3 DEF Held
<1>6. \A k \in 1 .. 7 : Script[46 + k] = (CycleOps \o Serve)[k]
  BY <1>1, InitializeLoop, LoopIs
<1>7. \A k \in 1 .. 12 : Script[k] = Setup[k]
  <2>1. \A k \in 1 .. 12 : (Setup \o HoldOps)[k] = Setup[k]
    BY SetupHold
  <2>2. \A k \in 1 .. 12 : k \in 1 .. 44
    OBVIOUS
  <2> QED
    BY <1>5, <2>1, <2>2
<1>8. \A k \in 1 .. 32 : Script[12 + k] = HoldOps[k]
  <2>1. \A k \in 1 .. 32 : (Setup \o HoldOps)[12 + k] = HoldOps[k]
    BY SetupHold
  <2>2. \A k \in 1 .. 32 : 12 + k \in 1 .. 44
    OBVIOUS
  <2> QED
    BY <1>5, <2>1, <2>2
<1>9. \A k \in 1 .. 2 : Script[44 + k] = Release[k]
  <2>1. \A k \in 1 .. 2 : (Held \o Release)[44 + k] = Release[k]
    BY HeldRelease
  <2>2. \A k \in 1 .. 2 : 44 + k \in 1 .. 46
    OBVIOUS
  <2> QED
    BY <1>4, <2>1, <2>2
<1>10. \A k \in 1 .. 4 : Script[46 + k] = CycleOps[k]
  <2>1. \A k \in 1 .. 4 : (CycleOps \o Serve)[k] = CycleOps[k]
    BY CycleServe
  <2>2. \A k \in 1 .. 4 : k \in 1 .. 7
    OBVIOUS
  <2> QED
    BY <1>6, <2>1, <2>2
<1>11. \A k \in 1 .. 3 : Script[50 + k] = Serve[k]
  <2>1. \A k \in 1 .. 3 : 4 + k \in 1 .. 7 /\ 46 + (4 + k) = 50 + k
    OBVIOUS
  <2>2. \A k \in 1 .. 3 : (CycleOps \o Serve)[4 + k] = Serve[k]
    BY CycleServe
  <2> QED
    BY <1>6, <2>1, <2>2
<1> QED
  BY <1>2, <1>3, <1>7, <1>8, <1>9, <1>10, <1>11

(* The calls but those that hold reset. *)
LEMMA SingleCalls ==
  /\ Script[1] = PinWriteOp("RES", FALSE) /\ Script[2] = RecalcOp
  /\ Script[3] = PinWriteOp("CLK0IN", TRUE) /\ Script[4] = RecalcOp
  /\ Script[5] = PinWriteOp("RDY", TRUE) /\ Script[6] = RecalcOp
  /\ Script[7] = PinWriteOp("SO", FALSE) /\ Script[8] = RecalcOp
  /\ Script[9] = PinWriteOp("IRQ", TRUE) /\ Script[10] = RecalcOp
  /\ Script[11] = PinWriteOp("NMI", TRUE) /\ Script[12] = StabilizeOp
  /\ Script[45] = PinWriteOp("RES", TRUE) /\ Script[46] = RecalcOp
  /\ Script[47] = PinWriteOp("CLK0IN", FALSE) /\ Script[48] = RecalcOp
  /\ Script[49] = PinWriteOp("CLK0IN", TRUE) /\ Script[50] = RecalcOp
  /\ Script[51] = MemoryOp /\ Script[52] = TraceOp /\ Script[53] = HostOp
<1>1. /\ Setup[1] = PinWriteOp("RES", FALSE) /\ Setup[2] = RecalcOp
      /\ Setup[3] = PinWriteOp("CLK0IN", TRUE) /\ Setup[4] = RecalcOp
      /\ Setup[5] = PinWriteOp("RDY", TRUE) /\ Setup[6] = RecalcOp
      /\ Setup[7] = PinWriteOp("SO", FALSE) /\ Setup[8] = RecalcOp
      /\ Setup[9] = PinWriteOp("IRQ", TRUE) /\ Setup[10] = RecalcOp
      /\ Setup[11] = PinWriteOp("NMI", TRUE) /\ Setup[12] = StabilizeOp
  BY DEF Setup
<1>2. /\ Script[1] = Setup[1] /\ Script[2] = Setup[2] /\ Script[3] = Setup[3]
      /\ Script[4] = Setup[4]
      /\ Script[5] = Setup[5] /\ Script[6] = Setup[6] /\ Script[7] = Setup[7]
      /\ Script[8] = Setup[8]
      /\ Script[9] = Setup[9] /\ Script[10] = Setup[10] /\ Script[11] = Setup[11]
      /\ Script[12] = Setup[12]
  BY Parts
<1>3. /\ Release[1] = PinWriteOp("RES", TRUE) /\ Release[2] = RecalcOp
  BY DEF Release
<1>4. /\ Script[45] = Release[1] /\ Script[46] = Release[2]
  <2>1. \A k \in 1 .. 2 : Script[44 + k] = Release[k]
    BY Parts
  <2>2. 44 + 1 = 45 /\ 44 + 2 = 46
    OBVIOUS
  <2> QED
    BY <2>1, <2>2
<1>5. /\ CycleOps[1] = PinWriteOp("CLK0IN", FALSE) /\ CycleOps[2] = RecalcOp
      /\ CycleOps[3] = PinWriteOp("CLK0IN", TRUE) /\ CycleOps[4] = RecalcOp
  BY DEF CycleOps
<1>6. /\ Script[47] = CycleOps[1] /\ Script[48] = CycleOps[2] /\ Script[49] = CycleOps[3]
      /\ Script[50] = CycleOps[4]
  <2>1. \A k \in 1 .. 4 : Script[46 + k] = CycleOps[k]
    BY Parts
  <2>2. 46 + 1 = 47 /\ 46 + 2 = 48 /\ 46 + 3 = 49 /\ 46 + 4 = 50
    OBVIOUS
  <2> QED
    BY <2>1, <2>2
<1>7. /\ Serve[1] = MemoryOp /\ Serve[2] = TraceOp
      /\ Serve[3] = HostOp
  BY DEF Serve
<1>8. /\ Script[51] = Serve[1] /\ Script[52] = Serve[2] /\ Script[53] = Serve[3]
  <2>1. \A k \in 1 .. 3 : Script[50 + k] = Serve[k]
    BY Parts
  <2>2. 50 + 1 = 51 /\ 50 + 2 = 52 /\ 50 + 3 = 53
    OBVIOUS
  <2> QED
    BY <2>1, <2>2
<1> QED
  BY <1>1, <1>2, <1>3, <1>4, <1>5, <1>6, <1>7, <1>8

(* The calls that hold reset, in which the clock falls and rises.          *)
LEMMA HoldCalls ==
  ASSUME NEW p \in 13 .. 44
  PROVE  /\ (p - 13) % 4 = 0 => Script[p] = PinWriteOp("CLK0IN", FALSE)
         /\ (p - 13) % 4 = 2 => Script[p] = PinWriteOp("CLK0IN", TRUE)
         /\ (p - 13) % 4 \in {1, 3} => Script[p] = RecalcOp
         /\ (p - 13) % 4 \in 0 .. 3
<1>1. /\ p - 12 \in 1 .. 32 /\ 12 + (p - 12) = p /\ (p - 12) - 1 = p - 13
      /\ (p - 13) % 4 \in 0 .. 3
  OBVIOUS
<1>2. Script[p] = HoldOps[p - 12]
  <2>1. \A k \in 1 .. 32 : Script[12 + k] = HoldOps[k]
    BY Parts
  <2> QED
    BY <1>1, <2>1
<1>3. HoldOps[p - 12] = CycleOps[((p - 13) % 4) + 1]
  <2>1. HoldOps = [k \in 1 .. 32 |-> CycleOps[((k - 1) % 4) + 1]]
    BY DEF HoldOps, HoldCycles
  <2> QED
    BY <1>1, <2>1
<1>4. /\ CycleOps[1] = PinWriteOp("CLK0IN", FALSE) /\ CycleOps[2] = RecalcOp
      /\ CycleOps[3] = PinWriteOp("CLK0IN", TRUE) /\ CycleOps[4] = RecalcOp
  BY DEF CycleOps
<1>5. /\ (p - 13) % 4 = 0 => CycleOps[((p - 13) % 4) + 1] = CycleOps[1]
      /\ (p - 13) % 4 = 1 => CycleOps[((p - 13) % 4) + 1] = CycleOps[2]
      /\ (p - 13) % 4 = 2 => CycleOps[((p - 13) % 4) + 1] = CycleOps[3]
      /\ (p - 13) % 4 = 3 => CycleOps[((p - 13) % 4) + 1] = CycleOps[4]
  OBVIOUS
<1> QED
  BY <1>1, <1>2, <1>3, <1>4, <1>5

LEMMA KindsAre ==
  /\ \A pin : /\ PinWriteOp(pin, TRUE).op = "pin" /\ PinWriteOp(pin, FALSE).op = "pin"
              /\ PinWriteOp(pin, TRUE).pin = pin /\ PinWriteOp(pin, FALSE).pin = pin
              /\ PinWriteOp(pin, TRUE).value = TRUE /\ PinWriteOp(pin, FALSE).value = FALSE
  /\ RecalcOp.op = "recalc" /\ StabilizeOp.op = "stabilize" /\ MemoryOp.op = "memory"
  /\ TraceOp.op = "trace" /\ HostOp.op = "host"
BY DEF PinWriteOp, RecalcOp, StabilizeOp, MemoryOp, TraceOp, HostOp

(* Where each kind of call is. *)
Positions(op) ==
  CASE op = "pin"    -> {1, 3, 5, 7, 9, 11, 45, 47, 49}
                          \cup {p \in 13 .. 44 : (p - 13) % 4 \in {0, 2}}
    [] op = "recalc" -> {2, 4, 6, 8, 10, 46, 48, 50}
                          \cup {p \in 13 .. 44 : (p - 13) % 4 \in {1, 3}}
    [] op = "stabilize" -> {12}
    [] op = "memory" -> {51}
    [] op = "trace"  -> {52}
    [] op = "host"   -> {53}

LEMMA KindOf ==
  ASSUME NEW p \in 1 .. 53,
         NEW op \in {"pin", "recalc", "stabilize", "memory", "trace", "host"},
         Script[p].op = op
  PROVE  p \in Positions(op)
<1>1. CASE p \in 13 .. 44
  <2>1. /\ (p - 13) % 4 = 0 => Script[p].op = "pin"
        /\ (p - 13) % 4 = 2 => Script[p].op = "pin"
        /\ (p - 13) % 4 \in {1, 3} => Script[p].op = "recalc"
        /\ (p - 13) % 4 \in 0 .. 3
    BY <1>1, HoldCalls, KindsAre
  <2> QED
    BY <1>1, <2>1 DEF Positions
<1>2. CASE p \in {1, 3, 5, 7, 9, 11, 45, 47, 49}
  <2>1. Script[1].op = "pin" /\ Script[3].op = "pin" /\ Script[5].op = "pin"
    BY SingleCalls DEF PinWriteOp, RecalcOp, StabilizeOp, MemoryOp, TraceOp, HostOp
  <2>2. Script[7].op = "pin" /\ Script[9].op = "pin" /\ Script[11].op = "pin"
    BY SingleCalls DEF PinWriteOp
  <2>3. Script[45].op = "pin" /\ Script[47].op = "pin" /\ Script[49].op = "pin"
    BY SingleCalls DEF PinWriteOp
  <2> QED
    BY <1>2, <2>1, <2>2, <2>3 DEF Positions
<1>3. CASE p \in {2, 4, 6, 8, 10, 46, 48, 50}
  <2>1. Script[p].op = "recalc"
    BY <1>3, SingleCalls, KindsAre
  <2> QED
    BY <1>3, <2>1 DEF Positions
<1>4. CASE p \in {12, 51, 52, 53}
  BY <1>4, SingleCalls, KindsAre DEF Positions
<1> QED
  BY <1>1, <1>2, <1>3, <1>4

(* What is written to which pin, and where. *)
LEMMA PinCalls ==
  ASSUME NEW p \in Positions("pin")
  PROVE  \/ /\ p \in {5, 7, 9, 11} /\ Script[p].pin \in Pins \ {"RES", "CLK0IN"}
            /\ Script[p].value \in BOOLEAN
         \/ p = 1 /\ Script[p].pin = "RES" /\ Script[p].value = FALSE
         \/ p = 45 /\ Script[p].pin = "RES" /\ Script[p].value = TRUE
         \/ p \in {3, 49} /\ Script[p].pin = "CLK0IN" /\ Script[p].value = TRUE
         \/ p = 47 /\ Script[p].pin = "CLK0IN" /\ Script[p].value = FALSE
         \/ /\ p \in 13 .. 44 /\ (p - 13) % 4 = 0 /\ Script[p].pin = "CLK0IN"
            /\ Script[p].value = FALSE
         \/ /\ p \in 13 .. 44 /\ (p - 13) % 4 = 2 /\ Script[p].pin = "CLK0IN"
            /\ Script[p].value = TRUE
<1>1. p \in {1, 3, 5, 7, 9, 11, 45, 47, 49} \/ (p \in 13 .. 44 /\ (p - 13) % 4 \in {0, 2})
  BY DEF Positions
<1>2. CASE p \in {5, 7, 9, 11}
  <2>1. Script[5].pin = "RDY" /\ Script[5].value = TRUE
    BY SingleCalls DEF PinWriteOp
  <2>2. Script[7].pin = "SO" /\ Script[7].value = FALSE
    BY SingleCalls DEF PinWriteOp
  <2>3. Script[9].pin = "IRQ" /\ Script[9].value = TRUE
    BY SingleCalls DEF PinWriteOp
  <2>4. Script[11].pin = "NMI" /\ Script[11].value = TRUE
    BY SingleCalls DEF PinWriteOp
  <2> QED
    BY <1>2, <2>1, <2>2, <2>3, <2>4 DEF Pins
<1>3. CASE p = 1
  <2>1. Script[1].pin = "RES" /\ Script[1].value = FALSE
    BY SingleCalls DEF PinWriteOp
  <2> QED
    BY <1>3, <2>1
<1>4. CASE p = 45
  <2>1. Script[45].pin = "RES" /\ Script[45].value = TRUE
    BY SingleCalls DEF PinWriteOp
  <2> QED
    BY <1>4, <2>1
<1>5. CASE p \in {3, 49}
  <2>1. Script[3].pin = "CLK0IN" /\ Script[3].value = TRUE
    BY SingleCalls DEF PinWriteOp
  <2>2. Script[49].pin = "CLK0IN" /\ Script[49].value = TRUE
    BY SingleCalls DEF PinWriteOp
  <2> QED
    BY <1>5, <2>1, <2>2
<1>6. CASE p = 47
  <2>1. Script[47].pin = "CLK0IN" /\ Script[47].value = FALSE
    BY SingleCalls DEF PinWriteOp
  <2> QED
    BY <1>6, <2>1
<1>7. CASE p \in 13 .. 44 /\ (p - 13) % 4 = 0
  <2>1. Script[p].pin = "CLK0IN" /\ Script[p].value = FALSE
    BY <1>7, HoldCalls DEF PinWriteOp
  <2> QED
    BY <1>7, <2>1
<1>8. CASE p \in 13 .. 44 /\ (p - 13) % 4 = 2
  <2>1. Script[p].pin = "CLK0IN" /\ Script[p].value = TRUE
    BY <1>8, HoldCalls DEF PinWriteOp
  <2> QED
    BY <1>8, <2>1
<1> QED
  BY <1>1, <1>2, <1>3, <1>4, <1>5, <1>6, <1>7, <1>8

-----------------------------------------------------------------------------
(* The ranges of the two machines. *)

KernalROM   == ROM(65024, 512, KernalByte)
RegistersOf == AddressRange("registers", 64768, 256, 0)

C64Ranges == <<ROM(40960, 8192, BasicByte), ROM(57344, 1207, BasicByte), RAM(0, 65536)>>
VICRanges == <<ROM(49152, 9472, BasicByte), RAM(0, 5120)>>

LEMMA RangesTyped ==
  /\ KernalROM \in AddressRanges /\ RegistersOf \in AddressRanges
  /\ ROM(40960, 8192, BasicByte) \in AddressRanges
  /\ ROM(57344, 1207, BasicByte) \in AddressRanges
  /\ ROM(49152, 9472, BasicByte) \in AddressRanges
  /\ RAM(0, 65536) \in AddressRanges /\ RAM(0, 5120) \in AddressRanges
BY DEF AddressRanges, AddressRange, ROM, RAM, KernalROM, RegistersOf, KernalByte, BasicByte

LEMMA CommodoreIs ==
  /\ Commodore = <<KernalROM, RegistersOf>>
  /\ Commodore \in Seq(AddressRanges) /\ Len(Commodore) = 2
<1>1. Commodore = <<KernalROM, RegistersOf>>
  <2>1. 65536 - 512 = 65024
    OBVIOUS
  <2> QED
    BY <2>1 DEF Commodore, KernalROM, RegistersOf, RegistersStart, RegistersSize
<1> QED
  BY <1>1, Two, RangesTyped

LEMMA OwnAre ==
  /\ OwnRanges("C64") = C64Ranges /\ C64Ranges \in Seq(AddressRanges) /\ Len(C64Ranges) = 3
  /\ OwnRanges("VIC20") = VICRanges /\ VICRanges \in Seq(AddressRanges) /\ Len(VICRanges) = 2
<1>1. OwnRanges("C64") = C64Ranges
  <2>1. 9399 - 8192 = 1207
    OBVIOUS
  <2> QED
    BY <2>1 DEF OwnRanges, C64Ranges
<1>2. OwnRanges("VIC20") = VICRanges
  BY DEF OwnRanges, VICRanges
<1>3. C64Ranges \in Seq(AddressRanges) 
  BY Three, RangesTyped DEF C64Ranges
<1>4. Len(C64Ranges) = 3
  BY DEF C64Ranges
<1>5. VICRanges \in Seq(AddressRanges) 
  BY Two, RangesTyped DEF VICRanges
<1>6. Len(VICRanges) = 2
  BY DEF VICRanges
<1> QED
  BY <1>1, <1>2, <1>3, <1>4, <1>5, <1>6

LEMMA RangesC64 ==
  /\ RangesOf["C64"] \in Seq(AddressRanges) /\ Len(RangesOf["C64"]) = 5
  /\ RangesOf["C64"][1] = KernalROM /\ RangesOf["C64"][2] = RegistersOf
  /\ RangesOf["C64"][3] = ROM(40960, 8192, BasicByte)
  /\ RangesOf["C64"][4] = ROM(57344, 1207, BasicByte)
  /\ RangesOf["C64"][5] = RAM(0, 65536)
<1>1. RangesOf["C64"] = Commodore \o C64Ranges
  BY OwnAre DEF RangesOf, Machines
<1>2. Commodore \in Seq(AddressRanges) /\ C64Ranges \in Seq(AddressRanges)
  BY CommodoreIs, OwnAre
<1>3. Len(Commodore) = 2 /\ Len(C64Ranges) = 3
  BY CommodoreIs, OwnAre
<1>4. Commodore \o C64Ranges \in Seq(AddressRanges)
  BY <1>2, Joins
<1>5. Len(Commodore \o C64Ranges) = Len(Commodore) + Len(C64Ranges)
  BY <1>2, Joins
<1>6. \A k \in 1 .. Len(Commodore) : (Commodore \o C64Ranges)[k] = Commodore[k]
  BY <1>2, Joins
<1>7. \A k \in 1 .. Len(C64Ranges) : (Commodore \o C64Ranges)[Len(Commodore) + k] = C64Ranges[k]
  BY <1>2, Joins
<1>8. Len(Commodore \o C64Ranges) = 5
  BY <1>3, <1>5
<1>9. \A k \in 1 .. 2 : (Commodore \o C64Ranges)[k] = Commodore[k]
  BY <1>3, <1>6
<1>10. \A k \in 1 .. 3 : (Commodore \o C64Ranges)[2 + k] = C64Ranges[k]
  BY <1>3, <1>7
<1>11. Commodore[1] = KernalROM /\ Commodore[2] = RegistersOf
  BY CommodoreIs
<1>12. /\ C64Ranges[1] = ROM(40960, 8192, BasicByte)
       /\ C64Ranges[2] = ROM(57344, 1207, BasicByte)
       /\ C64Ranges[3] = RAM(0, 65536)
  BY DEF C64Ranges
<1>13. 2 + 1 = 3 /\ 2 + 2 = 4 /\ 2 + 3 = 5
  OBVIOUS
<1>14. RangesOf["C64"][1] = KernalROM /\ RangesOf["C64"][2] = RegistersOf
  <2>1. \A k \in 1 .. 2 : RangesOf["C64"][k] = Commodore[k]
    BY <1>1, <1>9
  <2>2. RangesOf["C64"][1] = Commodore[1] /\ RangesOf["C64"][2] = Commodore[2]
    BY <2>1
  <2> QED
    BY <1>11, <2>2
<1>15. /\ RangesOf["C64"][2 + 1] = C64Ranges[1] /\ RangesOf["C64"][2 + 2] = C64Ranges[2]
       /\ RangesOf["C64"][2 + 3] = C64Ranges[3]
  <2>1. \A k \in 1 .. 3 : RangesOf["C64"][2 + k] = C64Ranges[k]
    BY <1>1, <1>10
  <2> QED
    BY <2>1
<1> QED
  BY <1>1, <1>4, <1>8, <1>12, <1>13, <1>14, <1>15

LEMMA RangesVIC ==
  /\ RangesOf["VIC20"] \in Seq(AddressRanges) /\ Len(RangesOf["VIC20"]) = 4
  /\ RangesOf["VIC20"][1] = KernalROM /\ RangesOf["VIC20"][2] = RegistersOf
  /\ RangesOf["VIC20"][3] = ROM(49152, 9472, BasicByte)
  /\ RangesOf["VIC20"][4] = RAM(0, 5120)
<1>1. RangesOf["VIC20"] = Commodore \o VICRanges
  BY OwnAre DEF RangesOf, Machines
<1>2. Commodore \in Seq(AddressRanges) /\ VICRanges \in Seq(AddressRanges)
  BY CommodoreIs, OwnAre
<1>3. Len(Commodore) = 2 /\ Len(VICRanges) = 2
  BY CommodoreIs, OwnAre
<1>4. Commodore \o VICRanges \in Seq(AddressRanges)
  BY <1>2, Joins
<1>5. Len(Commodore \o VICRanges) = Len(Commodore) + Len(VICRanges)
  BY <1>2, Joins
<1>6. \A k \in 1 .. Len(Commodore) : (Commodore \o VICRanges)[k] = Commodore[k]
  BY <1>2, Joins
<1>7. \A k \in 1 .. Len(VICRanges) : (Commodore \o VICRanges)[Len(Commodore) + k] = VICRanges[k]
  BY <1>2, Joins
<1>8. Len(Commodore \o VICRanges) = 4
  BY <1>3, <1>5
<1>9. \A k \in 1 .. 2 : (Commodore \o VICRanges)[k] = Commodore[k]
  BY <1>3, <1>6
<1>10. \A k \in 1 .. 2 : (Commodore \o VICRanges)[2 + k] = VICRanges[k]
  BY <1>3, <1>7
<1>11. Commodore[1] = KernalROM /\ Commodore[2] = RegistersOf
  BY CommodoreIs
<1>12. VICRanges[1] = ROM(49152, 9472, BasicByte) /\ VICRanges[2] = RAM(0, 5120)
  BY DEF VICRanges
<1>13. 2 + 1 = 3 /\ 2 + 2 = 4
  OBVIOUS
<1>14. RangesOf["VIC20"][1] = KernalROM /\ RangesOf["VIC20"][2] = RegistersOf
  <2>1. \A k \in 1 .. 2 : RangesOf["VIC20"][k] = Commodore[k]
    BY <1>1, <1>9
  <2>2. RangesOf["VIC20"][1] = Commodore[1] /\ RangesOf["VIC20"][2] = Commodore[2]
    BY <2>1
  <2> QED
    BY <1>11, <2>2
<1>15. RangesOf["VIC20"][2 + 1] = VICRanges[1] /\ RangesOf["VIC20"][2 + 2] = VICRanges[2]
  <2>1. \A k \in 1 .. 2 : RangesOf["VIC20"][2 + k] = VICRanges[k]
    BY <1>1, <1>10
  <2> QED
    BY <2>1
<1> QED
  BY <1>1, <1>4, <1>8, <1>12, <1>13, <1>14, <1>15

LEMMA RangesAre == \A m \in Machines :
  /\ Ranges(RangesOf[m]) /\ 2 \in DOMAIN RangesOf[m] /\ 1 \in DOMAIN RangesOf[m]
  /\ RangesOf[m][1] = KernalROM /\ RangesOf[m][2] = RegistersOf
  /\ \A i \in DOMAIN RangesOf[m] : RangesOf[m][i].kind = "registers" => i = 2
<1>1. Machines = {"C64", "VIC20"}
  BY DEF Machines
<1>2. DOMAIN RangesOf["C64"] = 1 .. 5 /\ DOMAIN RangesOf["VIC20"] = 1 .. 4
  BY RangesC64, RangesVIC, LenProperties
<1>3. /\ KernalROM.kind = "ROM" /\ RegistersOf.kind = "registers"
      /\ \A start, size, byte : ROM(start, size, byte).kind = "ROM"
      /\ \A start, size : RAM(start, size).kind = "RAM"
  BY DEF KernalROM, RegistersOf, ROM, RAM, AddressRange
<1>4. \A i \in 1 .. 5 : RangesOf["C64"][i].kind = "registers" => i = 2
  BY <1>3, RangesC64
<1>5. \A i \in 1 .. 4 : RangesOf["VIC20"][i].kind = "registers" => i = 2
  BY <1>3, RangesVIC
<1>6. Ranges(RangesOf["C64"]) /\ Ranges(RangesOf["VIC20"])
  BY RangesC64, RangesVIC DEF Ranges
<1>7. \A m \in Machines : RangesOf[m][1] = KernalROM /\ RangesOf[m][2] = RegistersOf
  BY <1>1, RangesC64, RangesVIC
<1>8. \A m \in Machines : DOMAIN RangesOf[m] = 1 .. 5 \/ DOMAIN RangesOf[m] = 1 .. 4
  BY <1>1, <1>2
<1>9. \A m \in Machines : \A i \in DOMAIN RangesOf[m] : RangesOf[m][i].kind = "registers" =>
          i = 2
  BY <1>1, <1>2, <1>4, <1>5
<1> QED
  BY <1>1, <1>6, <1>7, <1>8, <1>9

(* The registers are served by their own range. *)
LEMMA RegistersServed ==
  ASSUME NEW m \in Machines
  PROVE  /\ KernelRegisters(RangesOf[m]) = 2
         /\ \A a \in 64768 .. 65023 : Hits(RangesOf[m], a) # {} /\ Serving(RangesOf[m], a) = 2
         /\ \A a \in Nat \ (64768 .. 65023) : ~Contains(RangesOf[m][2], a)
         /\ RangesOf[m][2].start = 64768 /\ RangesOf[m][2].kind = "registers"
<1>1. /\ RegistersOf.start = 64768 /\ RegistersOf.size = 256 /\ RegistersOf.kind = "registers"
      /\ KernalROM.start = 65024 /\ KernalROM.size = 512
  BY DEF RegistersOf, KernalROM, ROM, AddressRange
<1>2. KernelRegisters(RangesOf[m]) = 2
  BY <1>1, RangesAre DEF KernelRegisters
<1>3. ASSUME NEW a \in 64768 .. 65023
      PROVE  Hits(RangesOf[m], a) # {} /\ Serving(RangesOf[m], a) = 2
  <2>1. 2 \in Hits(RangesOf[m], a)
    BY <1>1, RangesAre DEF Hits, Contains
  <2>2. 1 \notin Hits(RangesOf[m], a)
    BY <1>1, RangesAre DEF Hits, Contains
  <2>3. \A j \in Hits(RangesOf[m], a) : j \in Nat \ {0}
    BY RangesAre DEF Hits, Ranges
  <2>4. \A j \in Hits(RangesOf[m], a) : 2 <= j
    BY <2>2, <2>3
  <2>5. Ranges(RangesOf[m])
    BY RangesAre
  <2> QED
    BY <2>1, <2>4, <2>5, ServingIs
<1>4. \A a \in Nat \ (64768 .. 65023) : ~Contains(RangesOf[m][2], a)
  BY <1>1, RangesAre DEF Contains
<1> QED
  BY <1>1, <1>2, <1>3, <1>4, RangesAre

-----------------------------------------------------------------------------
(* The levels of the two pins that matter, at each position of the script. *)

Clock(driving, settling) == driven["CLK0IN"] = driving /\ settled["CLK0IN"] = settling
Reset(driving, settling) == driven["RES"] = driving /\ settled["RES"] = settling

(* The k-th of the calls that hold reset comes next. *)
InHold(k) ==
  /\ held = k \div 4
  /\ Clock(k % 4 \in {0, 3}, k % 4 \in {0, 1})

InSetup(p) ==
  /\ p <= 3 => driven["CLK0IN"] = settled["CLK0IN"]
  /\ p <= 1 => driven["RES"] = settled["RES"]
  /\ p = 2 => driven["RES"] = FALSE
  /\ p \in 3 .. 45 => Reset(FALSE, FALSE) /\ cpu = NoAccess
  /\ p \in 4 .. 12 => driven["CLK0IN"] = TRUE
  /\ p \in 5 .. 12 => settled["CLK0IN"] = TRUE
  /\ p \in 13 .. 45 => InHold(p - 13)
  /\ p = 46 => Reset(TRUE, FALSE) /\ Clock(TRUE, TRUE) /\ held = 8 /\ cpu = NoAccess

InLoop(p) ==
  /\ p >= 47 => Reset(TRUE, TRUE)
  /\ p \in {47, 51, 52, 53} => Clock(TRUE, TRUE)
  /\ p = 48 => Clock(FALSE, TRUE)
  /\ p = 49 => Clock(FALSE, FALSE)
  /\ p = 50 => Clock(TRUE, FALSE)
  /\ p \in {47, 48} => served \/ cpu = NoAccess
  /\ p >= 51 => cpu \in Accesses
  /\ p \in {51, 52} => traced = <<>>
  /\ p = 51 => ~served
  /\ p >= 52 => served
  /\ p = 52 => (cpu.reading => bus = Load(ranges, data, cpu.address))

Position(p) == InSetup(p) /\ InLoop(p)

(* One caller runs the machine, and the machine is where the caller is; if *)
(* none does, it is at rest.                                               *)
OneRuns ==
  /\ \A c \in Callers : at[c] # 0 <=> lock = {c}
  /\ lock # {} => \E c \in Callers : lock = {c}
  /\ \A c \in Callers : Position(at[c]) \/ lock # {c}
  /\ lock = {} => Position(0)

(* The inductive invariant. *)
Inv == TypeOK /\ OneRuns /\ TraceTellsAccess

(* What is known of the addresses and of the accesses. *)
LEMMA Here ==
  ASSUME TypeOK
  PROVE  /\ machine \in Machines /\ Ranges(ranges)
         /\ Addresses[machine] \subseteq Nat
         /\ NoAccess.reset = TRUE /\ NoAccess.reading = TRUE
         /\ NoAccess.address \in Addresses[machine]
         /\ \A x \in Accesses : /\ x.reset = FALSE /\ x.address \in Addresses[machine]
                                /\ x.reading \in BOOLEAN /\ x.byte \in 0 .. 3
<1>1. machine \in Machines
  BY DEF TypeOK
<1>2. Ranges(ranges)
  BY <1>1, RangesAre DEF ranges
<1>3. /\ Addresses[machine] # {}
      /\ Stores[machine] \subseteq Addresses[machine] \X (0 .. 3)
  BY <1>1, MachineAssumption
<1>4. NoAccess.reset = TRUE /\ NoAccess.reading = TRUE
  BY DEF NoAccess
<1>8. NoAccess.address \in Addresses[machine]
  <2>1. \E a : a \in Addresses[machine]
    BY <1>3
  <2>2. (CHOOSE a \in Addresses[machine] : TRUE) \in Addresses[machine]
    BY <2>1
  <2>3. NoAccess.address = CHOOSE a \in Addresses[machine] : TRUE
    BY DEF NoAccess
  <2> QED
    BY <2>2, <2>3
<1>5. ASSUME NEW x \in Accesses
      PROVE  /\ x.reset = FALSE /\ x.address \in Addresses[machine]
             /\ x.reading \in BOOLEAN /\ x.byte \in 0 .. 3
  <2>1. CASE \E a \in Addresses[machine] :
                   x = [reading |-> TRUE, address |-> a, byte |-> 0, reset |-> FALSE]
    BY <2>1
  <2>2. CASE \E s \in Stores[machine] :
                   x = [reading |-> FALSE, address |-> s[1], byte |-> s[2], reset |-> FALSE]
    <3>1. PICK s \in Stores[machine] :
                   x = [reading |-> FALSE, address |-> s[1], byte |-> s[2], reset |-> FALSE]
      BY <2>2
    <3>2. s[1] \in Addresses[machine] /\ s[2] \in 0 .. 3
      BY <1>3
    <3> QED
      BY <3>1, <3>2
  <2> QED
    BY <2>1, <2>2 DEF Accesses
<1>6. Addresses[machine] \subseteq Nat
  BY <1>1, MachineAssumption
<1>7. machine \in Machines /\ Ranges(ranges)
  BY <1>1, <1>2
<1> QED
  <2>1. \A x \in Accesses : /\ x.reset = FALSE /\ x.address \in Addresses[machine]
                            /\ x.reading \in BOOLEAN /\ x.byte \in 0 .. 3
    BY <1>5, Zenon
  <2>2. /\ NoAccess.reset = TRUE /\ NoAccess.reading = TRUE
        /\ NoAccess.address \in Addresses[machine]
    BY <1>4, <1>8
  <2> QED
    BY <2>1, <2>2, <1>6, <1>7, Zenon

(* Data for the ranges, as TypeOK has it. *)
DataOK(d) ==
  /\ d = [i \in DOMAIN ranges |-> d[i]]
  /\ \A i \in DOMAIN ranges : d[i] \in [Offsets(ranges[i]) -> 0 .. 255]

(* Every address looked at has a place in the range that serves it. *)
LEMMA OffsetOf ==
  ASSUME NEW i \in DOMAIN ranges, NEW a \in Addresses[machine], Contains(ranges[i], a)
  PROVE  a - ranges[i].start \in Offsets(ranges[i])
BY DEF Offsets

LEMMA Backed ==
  ASSUME TypeOK, NEW d, DataOK(d)
  PROVE  Backs(d, ranges, Addresses[machine])
BY OffsetOf DEF DataOK, Backs

(* What the memory gives is a byte, and it stays data for the ranges. *)
LEMMA LoadIsByte ==
  ASSUME TypeOK, NEW a \in Addresses[machine]
  PROVE  Load(ranges, data, a) \in 0 .. 255
<1>1. CASE Hits(ranges, a) = {}
  BY <1>1 DEF Load
<1>2. CASE Hits(ranges, a) # {}
  <2>1. Serving(ranges, a) \in DOMAIN ranges /\ Contains(ranges[Serving(ranges, a)], a)
    <3>1. Ranges(ranges)
      BY Here
    <3> QED
      BY <1>2, <3>1, ServingHits
  <2>2. a - ranges[Serving(ranges, a)].start \in Offsets(ranges[Serving(ranges, a)])
    BY <2>1, OffsetOf
  <2>3. data[Serving(ranges, a)] \in [Offsets(ranges[Serving(ranges, a)]) -> 0 .. 255]
    BY <2>1 DEF TypeOK
  <2> QED
    BY <1>2, <2>2, <2>3 DEF Load
<1> QED
  BY <1>1, <1>2

LEMMA PutByte ==
  ASSUME NEW d, DataOK(d), NEW i \in DOMAIN ranges, NEW o, NEW b \in 0 .. 255
  PROVE  DataOK([d EXCEPT ![i][o] = b])
BY DEF DataOK

LEMMA StoreKeepsType ==
  ASSUME TypeOK, NEW a \in Addresses[machine], NEW b \in 0 .. 255
  PROVE  DataOK(Store(ranges, data, a, b))
<1>1. DataOK(data)
  BY DEF TypeOK, DataOK
<1>2. CASE Hits(ranges, a) = {} \/ ~IsWritable(ranges[Serving(ranges, a)])
  BY <1>1, <1>2 DEF Store
<1>3. CASE Hits(ranges, a) # {} /\ IsWritable(ranges[Serving(ranges, a)])
  <2>1. Serving(ranges, a) \in DOMAIN ranges
    <3>1. Ranges(ranges)
      BY Here
    <3> QED
      BY <1>3, <3>1, ServingHits
  <2> QED
    BY <1>1, <1>3, <2>1, PutByte DEF Store
<1> QED
  BY <1>2, <1>3

LEMMA HostKeepsType ==
  ASSUME TypeOK
  PROVE  /\ \A char \in HostChars : DataOK([data EXCEPT ![KernelRegisters(ranges)][IO] = char])
         /\ DataOK([data EXCEPT ![KernelRegisters(ranges)] = ClearAll(@)])
<1>1. KernelRegisters(ranges) = 2 /\ 2 \in DOMAIN ranges
  BY Here, RangesAre, RegistersServed DEF ranges
<1>2. DataOK(data)
  BY DEF TypeOK, DataOK
<1>3. ASSUME NEW char \in HostChars PROVE DataOK([data EXCEPT ![2][IO] = char])
  <2>1. char \in 0 .. 255
    <3>1. HostChars \subseteq 0 .. 3
      BY MachineAssumption
    <3>2. char \in 0 .. 3
      BY <3>1
    <3> QED
      BY <3>2
  <2> QED
    BY <1>1, <1>2, <2>1, PutByte
<1>4. DataOK([data EXCEPT ![2] = ClearAll(@)])
  BY <1>1, <1>2 DEF DataOK, ClearAll
<1> QED
  BY <1>1, <1>3, <1>4

LEMMA HoldArith ==
  ASSUME NEW k \in 0 .. 31
  PROVE  /\ k % 4 \in 0 .. 3 /\ k \div 4 \in 0 .. 7
         /\ k % 4 # 3 => (k + 1) % 4 = (k % 4) + 1 /\ (k + 1) \div 4 = k \div 4
         /\ k % 4 = 3 => (k + 1) % 4 = 0 /\ (k + 1) \div 4 = (k \div 4) + 1
OBVIOUS

(* What only depends on which machine it is stays. *)
LEMMA MachineStays ==
  ASSUME machine' = machine
  PROVE  ranges' = ranges /\ NoAccess' = NoAccess /\ Accesses' = Accesses
BY DEF ranges, NoAccess, Accesses

LEMMA TypeKept ==
  ASSUME TypeOK, machine' = machine, NEW d, d = data', DataOK(d),
         lock' \subseteq Callers, at' \in [Callers -> 0 .. Len(Script)],
         eof' \in [Callers -> BOOLEAN],
         driven' \in [Pins -> BOOLEAN], settled' \in [Pins -> BOOLEAN],
         cpu' \in Accesses \cup {NoAccess}, bus' \in 0 .. 255,
         served' \in BOOLEAN, held' \in 0 .. HoldCycles,
         traced' = <<>> \/ traced' \in {"read", "write"} \X Addresses[machine] \X (0 .. 255)
  PROVE  TypeOK'
<1>1. ranges' = ranges /\ NoAccess' = NoAccess /\ Accesses' = Accesses
  BY MachineStays
<1>2. (data = [i \in DOMAIN ranges |-> data[i]])'
  BY <1>1 DEF DataOK
<1>3. (\A i \in DOMAIN ranges : data[i] \in [Offsets(ranges[i]) -> 0 .. 255])'
  <2>1. \A i \in DOMAIN ranges : data'[i] \in [Offsets(ranges[i]) -> 0 .. 255]
    BY DEF DataOK
  <2>2. \A i \in DOMAIN ranges : Offsets(ranges[i])' = Offsets(ranges[i])
    BY <1>1 DEF Offsets
  <2> QED
    BY <1>1, <2>1, <2>2
<1>4. machine' \in Machines
  BY DEF TypeOK
<1>5. (traced = <<>> \/ traced \in {"read", "write"} \X Addresses[machine] \X (0 .. 255))'
  OBVIOUS
<1>6. (cpu \in Accesses \cup {NoAccess})'
  BY <1>1
<1> QED
  BY <1>2, <1>3, <1>4, <1>5, <1>6 DEF TypeOK

(* Who is somewhere in the script runs the machine. *)
LEMMA Runs ==
  ASSUME Inv, NEW c \in Callers, at[c] # 0
  PROVE  lock = {c} /\ Position(at[c]) /\ at[c] \in 1 .. 53
<1>1. lock = {c} /\ Position(at[c])
  BY DEF Inv, OneRuns
<1>2. at[c] \in 0 .. Len(Script)
  BY DEF Inv, TypeOK
<1>3. Len(Script) = 53
  BY Parts
<1>4. at[c] \in 1 .. 53
  BY <1>2, <1>3
<1> QED
  BY <1>1, <1>4

(* The next call of the script is made. *)
LEMMA Moves ==
  ASSUME Inv, NEW c \in Callers, NEW p \in 1 .. 53, at[c] = p, Advance(c), lock' = lock,
         NEW q, q = IF p = 53 THEN 47 ELSE p + 1, Position(q)'
  PROVE  OneRuns' /\ at' \in [Callers -> 0 .. Len(Script)]
<1>1. lock = {c}
  BY Runs
<1>2. Len(Script) = 53 /\ LoopStart = 47
  BY Parts
<1>3. at' = [at EXCEPT ![c] = q]
  BY <1>2 DEF Advance
<1>4. at \in [Callers -> 0 .. 53]
  BY <1>2 DEF Inv, TypeOK
<1>5. q \in 1 .. 53
  OBVIOUS
<1>6. at' \in [Callers -> 0 .. 53]
  BY <1>3, <1>4, <1>5
<1>7. at'[c] = q /\ \A d \in Callers \ {c} : at'[d] = at[d]
  BY <1>3, <1>4
<1>8. \A d \in Callers : at'[d] # 0 <=> lock' = {d}
  BY <1>1, <1>5, <1>7 DEF Inv, OneRuns
<1>9. ASSUME NEW d \in Callers, lock' = {d} PROVE Position(at[d])'
  <2>1. d = c
    BY <1>1, <1>9
  <2>2. at'[d] = q
    BY <1>7, <2>1
  <2> QED
    BY <2>2 DEF Position, InSetup, InLoop, InHold, Clock, Reset
<1> QED
  BY <1>1, <1>2, <1>6, <1>8, <1>9 DEF OneRuns

LEMMA DataTyped == ASSUME TypeOK PROVE DataOK(data)
BY DEF TypeOK, DataOK

-----------------------------------------------------------------------------
(* The invariant, one action at a time. *)

LEMMA InitInv == Init => Inv
<1> SUFFICES ASSUME Init PROVE Inv
  OBVIOUS
<1>1. TypeOK
  <2>1. machine \in Machines
    BY DEF Init
  <2>2. /\ data = [i \in DOMAIN ranges |-> data[i]]
        /\ \A i \in DOMAIN ranges : data[i] \in [Offsets(ranges[i]) -> 0 .. 255]
    <3>1. \A i \in DOMAIN ranges : ranges[i].byte \in 0 .. 255
      <4>1. Ranges(ranges)
        BY <2>1, RangesAre DEF ranges
      <4>2. \A i \in DOMAIN ranges : ranges[i] \in AddressRanges
        BY <4>1 DEF Ranges
      <4> QED
        BY <4>2 DEF AddressRanges
    <3>2. \A o \in 1 .. 10 : InitialRegisters(machine)[o] \in 0 .. 255
      BY DEF InitialRegisters
    <3> DEFINE First(i) ==
          [o \in Offsets(ranges[i]) |->
             IF ranges[i].kind = "registers" /\ o \in 1 .. 10
             THEN InitialRegisters(machine)[o] ELSE ranges[i].byte]
    <3>3. ASSUME NEW i \in DOMAIN ranges PROVE First(i) \in [Offsets(ranges[i]) -> 0 .. 255]
      BY <3>1, <3>2
    <3>4. data = [i \in DOMAIN ranges |-> First(i)]
      BY DEF Init
    <3> HIDE DEF First
    <3>5. \A i \in DOMAIN ranges : data[i] = First(i)
      BY <3>4
    <3>6. data = [i \in DOMAIN ranges |-> data[i]]
      BY <3>4, <3>5
    <3> QED
      BY <3>3, <3>5, <3>6
  <2>3. lock \subseteq Callers /\ eof \in [Callers -> BOOLEAN]
    BY DEF Init
  <2>4. at \in [Callers -> 0 .. Len(Script)]
    <3>1. Len(Script) = 53
      BY Parts
    <3> QED
      BY <3>1 DEF Init
  <2>5. driven \in [Pins -> BOOLEAN] /\ settled \in [Pins -> BOOLEAN]
    BY DEF Init
  <2>6. cpu \in Accesses \cup {NoAccess} /\ bus \in 0 .. 255
    BY DEF Init
  <2>7. served \in BOOLEAN /\ held \in 0 .. HoldCycles /\ traced = <<>>
    <3>1. served = FALSE /\ held = 0 /\ traced = <<>>
      BY DEF Init
    <3>2. 0 \in 0 .. HoldCycles
      BY DEF HoldCycles
    <3>3. served \in BOOLEAN
      BY <3>1
    <3> QED
      BY <3>1, <3>2, <3>3, Zenon
  <2> QED
    BY <2>1, <2>2, <2>3, <2>4, <2>5, <2>6, <2>7 DEF TypeOK
<1>2. OneRuns
  <2>1. Position(0)
    <3>1. driven["CLK0IN"] = settled["CLK0IN"] /\ driven["RES"] = settled["RES"]
      <4>1. driven = [p \in Pins |-> p \in {"RDY", "SO"}] /\ settled = [p \in Pins |-> FALSE]
        BY DEF Init
      <4>2. "CLK0IN" \in Pins /\ "RES" \in Pins
        BY DEF Pins
      <4>3. "CLK0IN" \notin {"RDY", "SO"} /\ "RES" \notin {"RDY", "SO"}
        OBVIOUS
      <4>4. driven["CLK0IN"] = FALSE /\ driven["RES"] = FALSE
        <5>1. /\ driven["CLK0IN"] = ("CLK0IN" \in {"RDY", "SO"})
              /\ driven["RES"] = ("RES" \in {"RDY", "SO"})
          BY <4>1, <4>2, Zenon
        <5>2. ("CLK0IN" \in {"RDY", "SO"}) = FALSE /\ ("RES" \in {"RDY", "SO"}) = FALSE
          BY <4>3
        <5> QED
          BY <5>1, <5>2, Zenon
      <4>5. settled["CLK0IN"] = FALSE /\ settled["RES"] = FALSE
        BY <4>1, <4>2
      <4> QED
        BY <4>4, <4>5
    <3> QED
      BY <3>1 DEF Position, InSetup, InLoop
  <2>2. lock = {} /\ \A c \in Callers : at[c] = 0
    BY DEF Init
  <2>3. \A c \in Callers : lock # {c}
    BY <2>2
  <2> QED
    BY <2>1, <2>2, <2>3 DEF OneRuns
<1>3. TraceTellsAccess
  BY DEF Init, TraceTellsAccess
<1> QED
  BY <1>1, <1>2, <1>3 DEF Inv

(* The chip as it was, and the data of the ranges. *)
LEMMA TypeOfRest ==
  ASSUME Inv, machine' = machine, chip' = chip, NEW d, d = data', DataOK(d),
         lock' \subseteq Callers, at' \in [Callers -> 0 .. Len(Script)],
         eof' \in [Callers -> BOOLEAN]
  PROVE  TypeOK' /\ TraceTellsAccess'
<1>1. /\ driven' \in [Pins -> BOOLEAN] /\ settled' \in [Pins -> BOOLEAN]
      /\ cpu' \in Accesses \cup {NoAccess} /\ bus' \in 0 .. 255
      /\ served' \in BOOLEAN /\ held' \in 0 .. HoldCycles
      /\ traced' = <<>> \/ traced' \in {"read", "write"} \X Addresses[machine] \X (0 .. 255)
  BY DEF chip, Inv, TypeOK
<1>2. TypeOK'
  BY <1>1, TypeKept DEF Inv
<1>3. TraceTellsAccess'
  BY DEF chip, Inv, TraceTellsAccess
<1> QED
  BY <1>2, <1>3

LEMMA CallInv ==
  ASSUME Inv, NEW c \in Callers, Call(c)
  PROVE  Inv'
<1>1. /\ at[c] = 0 /\ lock = {} /\ lock' = {c} /\ at' = [at EXCEPT ![c] = 1]
      /\ machine' = machine /\ data' = data /\ chip' = chip
      /\ \E end \in BOOLEAN : eof' = [eof EXCEPT ![c] = end]
  BY DEF Call
<1>2. Len(Script) = 53 /\ at \in [Callers -> 0 .. Len(Script)] /\ eof \in [Callers -> BOOLEAN]
  BY Parts DEF Inv, TypeOK
<1>3. /\ at' \in [Callers -> 0 .. Len(Script)] /\ eof' \in [Callers -> BOOLEAN]
      /\ lock' \subseteq Callers
  BY <1>1, <1>2
<1>4. TypeOK' /\ TraceTellsAccess'
  BY <1>1, <1>3, DataTyped, TypeOfRest DEF Inv
<1>5. OneRuns'
  <2>1. Position(0) /\ \A d \in Callers : at[d] = 0
    BY <1>1 DEF Inv, OneRuns
  <2>2. at'[c] = 1 /\ \A d \in Callers \ {c} : at'[d] = 0
    BY <1>1, <1>2, <2>1
  <2>3. \A d \in Callers : at'[d] # 0 <=> lock' = {d}
    BY <1>1, <2>2
  <2>4. driven'["CLK0IN"] = settled'["CLK0IN"] /\ driven'["RES"] = settled'["RES"]
    BY <1>1, <2>1 DEF Position, InSetup, chip
  <2>5. ASSUME NEW d \in Callers, lock' = {d} PROVE Position(at[d])'
    <3>1. at'[d] = 1
      BY <1>1, <2>2, <2>5
    <3> QED
      BY <2>4, <3>1 DEF Position, InSetup, InLoop
  <2> QED
    BY <1>1, <2>3, <2>5 DEF OneRuns
<1> QED
  BY <1>4, <1>5 DEF Inv

LEMMA ReturnInv ==
  ASSUME Inv, NEW c \in Callers, Return(c)
  PROVE  Inv'
<1>1. /\ at[c] = 47 /\ lock' = {} /\ at' = [at EXCEPT ![c] = 0]
      /\ eof' = [eof EXCEPT ![c] = FALSE]
      /\ machine' = machine /\ data' = data /\ chip' = chip
  BY Parts DEF Return
<1>2. Len(Script) = 53 /\ at \in [Callers -> 0 .. Len(Script)] /\ eof \in [Callers -> BOOLEAN]
  BY Parts DEF Inv, TypeOK
<1>3. /\ at' \in [Callers -> 0 .. Len(Script)] /\ eof' \in [Callers -> BOOLEAN]
      /\ lock' \subseteq Callers
  BY <1>1, <1>2
<1>4. TypeOK' /\ TraceTellsAccess'
  BY <1>1, <1>3, DataTyped, TypeOfRest DEF Inv
<1>5. OneRuns'
  <2>1. lock = {c} /\ Position(at[c])
    BY <1>1, Runs
  <2>2. \A d \in Callers : at'[d] = 0
    BY <1>1, <1>2, <2>1 DEF Inv, OneRuns
  <2>3. driven'["CLK0IN"] = settled'["CLK0IN"] /\ driven'["RES"] = settled'["RES"]
    <3>1. Position(47)
      BY <1>1, <2>1
    <3>2. /\ driven["CLK0IN"] = TRUE /\ settled["CLK0IN"] = TRUE
          /\ driven["RES"] = TRUE /\ settled["RES"] = TRUE
      BY <3>1 DEF Position, InLoop, Clock, Reset
    <3>3. driven' = driven /\ settled' = settled
      BY <1>1 DEF chip
    <3> QED
      BY <3>2, <3>3
  <2>4. Position(0)'
    BY <2>3 DEF Position, InSetup, InLoop
  <2>5. \A d \in Callers : at'[d] # 0 <=> lock' = {d}
    BY <1>1, <2>2
  <2> QED
    BY <1>1, <2>4, <2>5 DEF OneRuns
<1> QED
  BY <1>4, <1>5 DEF Inv

LEMMA Doings ==
  ASSUME Inv, NEW c \in Callers,
         NEW op \in {"pin", "recalc", "stabilize", "memory", "trace", "host"}, Doing(c, op)
  PROVE  at[c] \in 1 .. 53 /\ at[c] \in Positions(op) /\ Position(at[c])
<1>1. at[c] # 0 /\ Script[at[c]].op = op
  BY DEF Doing
<1>2. at[c] \in 1 .. 53 /\ Position(at[c])
  BY <1>1, Runs
<1> QED
  BY <1>1, <1>2, KindOf

(* A call of the cycles that hold reset leads to the next one. *)
LEMMA HoldsOn ==
  ASSUME NEW k \in 0 .. 31, NEW q \in 14 .. 45, q = 14 + k,
         InHold(k + 1)', Reset(FALSE, FALSE)', (cpu = NoAccess)'
  PROVE  Position(q)'
<1>1. ~(q <= 3) /\ ~(q <= 1) /\ q # 2 /\ q \notin 4 .. 12 /\ q # 46 /\ ~(q >= 47) /\ ~(q >= 51)
  OBVIOUS
<1>2. InHold(q - 13)'
  <2>1. q - 13 = k + 1
    OBVIOUS
  <2> QED
    BY <2>1 DEF InHold, Clock
<1>3. InSetup(q)'
  BY <1>1, <1>2 DEF InSetup, InHold, Clock, Reset
<1>4. q \notin {47, 48, 49, 50, 51, 52, 53}
  OBVIOUS
<1>5. InLoop(q)'
  BY <1>1, <1>4 DEF InLoop, Clock, Reset
<1> QED
  BY <1>3, <1>5 DEF Position

LEMMA WritePinInv ==
  ASSUME Inv, NEW c \in Callers, WritePin(c)
  PROVE  Inv'
<1>1. at[c] \in 1 .. 53 /\ at[c] \in Positions("pin") /\ Position(at[c])
  BY Doings DEF WritePin
<1>2. PICK p \in 1 .. 53 : at[c] = p
  BY <1>1
<1>3. p \in Positions("pin") /\ Position(p)
  BY <1>1, <1>2
<1>4. /\ driven' = [driven EXCEPT ![Script[p].pin] = Script[p].value]
      /\ held' = IF Script[p].pin = "RES" /\ ~Script[p].value THEN 0 ELSE held
      /\ Advance(c)
      /\ machine' = machine /\ data' = data /\ lock' = lock /\ eof' = eof /\ settled' = settled
      /\ cpu' = cpu /\ bus' = bus /\ served' = served /\ traced' = traced
  BY <1>2 DEF WritePin
<1>5. driven \in [Pins -> BOOLEAN] /\ settled \in [Pins -> BOOLEAN] /\ held \in 0 .. HoldCycles
  BY DEF Inv, TypeOK
<1>6. "CLK0IN" \in Pins /\ "RES" \in Pins
  BY DEF Pins
<1>7. Script[p].pin \in Pins /\ Script[p].value \in BOOLEAN
  BY <1>3, <1>6, PinCalls
<1>8. /\ Script[p].pin # "RES" => driven'["RES"] = driven["RES"] /\ held' = held
      /\ Script[p].pin # "CLK0IN" => driven'["CLK0IN"] = driven["CLK0IN"]
      /\ Script[p].pin = "RES" => driven'["RES"] = Script[p].value
      /\ Script[p].pin = "CLK0IN" => driven'["CLK0IN"] = Script[p].value
  BY <1>4, <1>5, <1>6, <1>7
<1>9. NoAccess' = NoAccess /\ Accesses' = Accesses
  BY <1>4, MachineStays
<1>10. Position(p + 1)'
  <2>1. CASE p \in {5, 7, 9, 11} /\ Script[p].pin \in Pins \ {"RES", "CLK0IN"}
    <3>1. driven'["RES"] = driven["RES"] /\ driven'["CLK0IN"] = driven["CLK0IN"]
      BY <1>8, <2>1
    <3>2. /\ driven["RES"] = FALSE /\ settled["RES"] = FALSE /\ cpu = NoAccess
          /\ driven["CLK0IN"] = TRUE /\ settled["CLK0IN"] = TRUE
      BY <1>3, <2>1 DEF Position, InSetup, Clock, Reset
    <3>3. p + 1 \in {6, 8, 10, 12}
      BY <2>1
    <3> QED
      BY <1>4, <1>9, <3>1, <3>2, <3>3 DEF Position, InSetup, InLoop, Clock, Reset
  <2>2. CASE p = 1 /\ Script[p].pin = "RES" /\ Script[p].value = FALSE
    <3>1. driven'["RES"] = FALSE /\ driven'["CLK0IN"] = driven["CLK0IN"]
      BY <1>8, <2>2
    <3>2. driven["CLK0IN"] = settled["CLK0IN"]
      BY <1>3, <2>2 DEF Position, InSetup, Clock, Reset
    <3> QED
      BY <1>4, <2>2, <3>1, <3>2 DEF Position, InSetup, InLoop, Clock, Reset
  <2>3. CASE p = 45 /\ Script[p].pin = "RES" /\ Script[p].value = TRUE
    <3>1. driven'["RES"] = TRUE /\ driven'["CLK0IN"] = driven["CLK0IN"]
      BY <1>8, <2>3
    <3>2. /\ settled["RES"] = FALSE /\ cpu = NoAccess /\ InHold(32)
      BY <1>3, <2>3 DEF Position, InSetup, Clock, Reset
    <3>3. held = 8 /\ driven["CLK0IN"] = TRUE /\ settled["CLK0IN"] = TRUE
      <4>1. 32 \div 4 = 8 /\ 32 % 4 = 0
        OBVIOUS
      <4>2. /\ held = 32 \div 4
            /\ driven["CLK0IN"] = (32 % 4 \in {0, 3}) /\ settled["CLK0IN"] = (32 % 4 \in {0, 1})
        BY <3>2 DEF InHold, Clock
      <4> QED
        BY <4>1, <4>2
    <3>4. held' = held
      BY <1>4, <2>3
    <3> QED
      BY <1>4, <1>9, <2>3, <3>1, <3>2, <3>3, <3>4 DEF Position, InSetup, InLoop, Clock, Reset
  <2>4. CASE p = 3 /\ Script[p].pin = "CLK0IN" /\ Script[p].value = TRUE
    <3>1. driven'["CLK0IN"] = TRUE /\ driven'["RES"] = driven["RES"]
      BY <1>8, <2>4
    <3>2. driven["RES"] = FALSE /\ settled["RES"] = FALSE /\ cpu = NoAccess
      BY <1>3, <2>4 DEF Position, InSetup, Clock, Reset
    <3> QED
      BY <1>4, <1>9, <2>4, <3>1, <3>2 DEF Position, InSetup, InLoop, Clock, Reset
  <2>5. CASE p = 49 /\ Script[p].pin = "CLK0IN" /\ Script[p].value = TRUE
    <3>1. driven'["CLK0IN"] = TRUE /\ driven'["RES"] = driven["RES"]
      BY <1>8, <2>5
    <3>2. driven["RES"] = TRUE /\ settled["RES"] = TRUE /\ settled["CLK0IN"] = FALSE
      BY <1>3, <2>5 DEF Position, InLoop, Clock, Reset
    <3> QED
      BY <1>4, <1>9, <2>5, <3>1, <3>2 DEF Position, InSetup, InLoop, Clock, Reset
  <2>6. CASE p = 47 /\ Script[p].pin = "CLK0IN" /\ Script[p].value = FALSE
    <3>1. driven'["CLK0IN"] = FALSE /\ driven'["RES"] = driven["RES"]
      BY <1>8, <2>6
    <3>2. /\ driven["RES"] = TRUE /\ settled["RES"] = TRUE /\ settled["CLK0IN"] = TRUE
          /\ served \/ cpu = NoAccess
      BY <1>3, <2>6 DEF Position, InLoop, Clock, Reset
    <3> QED
      BY <1>4, <1>9, <2>6, <3>1, <3>2 DEF Position, InSetup, InLoop, Clock, Reset
  <2>7. CASE /\ p \in 13 .. 44 /\ Script[p].pin = "CLK0IN"
             /\ \/ (p - 13) % 4 = 0 /\ Script[p].value = FALSE
                \/ (p - 13) % 4 = 2 /\ Script[p].value = TRUE
    <3>1. /\ driven'["CLK0IN"] = ((p - 13) % 4 = 2) /\ driven'["RES"] = driven["RES"]
          /\ held' = held
      <4>1. /\ driven'["CLK0IN"] = Script[p].value /\ driven'["RES"] = driven["RES"]
            /\ held' = held
        BY <1>8, <2>7
      <4>2. Script[p].value = ((p - 13) % 4 = 2)
        <5>1. CASE (p - 13) % 4 = 0 /\ Script[p].value = FALSE
          <6>1. (p - 13) % 4 # 2
            BY <5>1
          <6>2. ((p - 13) % 4 = 2) = FALSE
            BY <6>1, Zenon
          <6> QED
            BY <5>1, <6>2, Zenon
        <5>2. CASE (p - 13) % 4 = 2 /\ Script[p].value = TRUE
          <6>1. ((p - 13) % 4 = 2) = TRUE
            BY <5>2, Zenon
          <6> QED
            BY <5>2, <6>1, Zenon
        <5> QED
          BY <2>7, <5>1, <5>2
      <4> QED
        BY <4>1, <4>2
    <3>2. /\ driven["RES"] = FALSE /\ settled["RES"] = FALSE /\ cpu = NoAccess /\ InHold(p - 13)
      BY <1>3, <2>7 DEF Position, InSetup, Clock, Reset
    <3>3. PICK k \in 0 .. 31 : k = p - 13
      BY <2>7
    <3>4. k % 4 \in {0, 2} /\ InHold(k)
      BY <2>7, <3>2, <3>3
    <3>5. (k + 1) % 4 = (k % 4) + 1 /\ (k + 1) \div 4 = k \div 4
      BY <3>4, HoldArith
    <3>6. held = k \div 4 /\ (settled["CLK0IN"] = (k % 4 = 0))
      BY <3>4 DEF InHold, Clock
    <3>7. driven'["CLK0IN"] = (k % 4 = 2)
      BY <3>1, <3>3
    <3>8. InHold(k + 1)'
      BY <1>4, <3>1, <3>4, <3>5, <3>6, <3>7 DEF InHold, Clock
    <3>9. Reset(FALSE, FALSE)' /\ (cpu = NoAccess)'
      BY <1>4, <1>9, <3>1, <3>2 DEF Reset
    <3>10. PICK q \in 14 .. 45 : q = p + 1
      BY <2>7
    <3>11. q = 14 + k
      BY <3>3, <3>10
    <3>12. Position(q)'
      BY <3>8, <3>9, <3>11, HoldsOn
    <3> QED
      BY <3>10, <3>12
  <2>8. \/ p \in {5, 7, 9, 11} /\ Script[p].pin \in Pins \ {"RES", "CLK0IN"}
        \/ p = 1 /\ Script[p].pin = "RES" /\ Script[p].value = FALSE
        \/ p = 45 /\ Script[p].pin = "RES" /\ Script[p].value = TRUE
        \/ p = 3 /\ Script[p].pin = "CLK0IN" /\ Script[p].value = TRUE
        \/ p = 49 /\ Script[p].pin = "CLK0IN" /\ Script[p].value = TRUE
        \/ p = 47 /\ Script[p].pin = "CLK0IN" /\ Script[p].value = FALSE
        \/ /\ p \in 13 .. 44 /\ Script[p].pin = "CLK0IN"
           /\ \/ (p - 13) % 4 = 0 /\ Script[p].value = FALSE
              \/ (p - 13) % 4 = 2 /\ Script[p].value = TRUE
    BY <1>3, PinCalls
  <2> QED
    BY <2>1, <2>2, <2>3, <2>4, <2>5, <2>6, <2>7, <2>8
<1>11. p + 1 \in 2 .. 50 /\ p # 53
  BY <1>3 DEF Positions
<1>12. OneRuns' /\ at' \in [Callers -> 0 .. Len(Script)]
  BY <1>2, <1>4, <1>10, <1>11, Moves
<1>13. TypeOK'
  <2>1. driven' \in [Pins -> BOOLEAN]
    BY <1>4, <1>5, <1>7
  <2>2. held' \in 0 .. HoldCycles
    BY <1>4, <1>5 DEF HoldCycles
  <2>3. /\ lock \subseteq Callers /\ eof \in [Callers -> BOOLEAN]
        /\ cpu \in Accesses \cup {NoAccess} /\ bus \in 0 .. 255 /\ served \in BOOLEAN
        /\ traced = <<>> \/ traced \in {"read", "write"} \X Addresses[machine] \X (0 .. 255)
    BY DEF Inv, TypeOK
  <2> QED
    BY <1>4, <1>5, <1>12, <2>1, <2>2, <2>3, DataTyped, TypeKept DEF Inv
<1>14. TraceTellsAccess'
  BY <1>4 DEF Inv, TraceTellsAccess
<1> QED
  BY <1>12, <1>13, <1>14 DEF Inv

LEMMA RecalcInv ==
  ASSUME Inv, NEW c \in Callers, Recalc(c)
  PROVE  Inv'
<1>1. at[c] \in 1 .. 53 /\ at[c] \in Positions("recalc") /\ Position(at[c])
  BY Doings DEF Recalc
<1>2. PICK p \in 1 .. 53 : at[c] = p
  BY <1>1
<1>3. p \in Positions("recalc") /\ Position(p)
  BY <1>1, <1>2
<1>4. /\ settled' = driven
      /\ Advance(c)
      /\ machine' = machine /\ data' = data /\ lock' = lock /\ eof' = eof
      /\ driven' = driven /\ bus' = bus
  BY DEF Recalc
<1>5. driven \in [Pins -> BOOLEAN] /\ settled \in [Pins -> BOOLEAN] /\ held \in 0 .. 8
  BY DEF Inv, TypeOK, HoldCycles
<1>6. driven["CLK0IN"] \in BOOLEAN /\ driven["RES"] \in BOOLEAN /\ settled["CLK0IN"] \in BOOLEAN
  BY <1>5 DEF Pins
<1>7. ~driven["RES"] => cpu' = NoAccess /\ served' = FALSE /\ traced' = <<>>
  BY DEF Recalc
<1>8. driven["RES"] /\ ~settled["CLK0IN"] /\ driven["CLK0IN"] =>
        cpu' \in Accesses /\ served' = FALSE /\ traced' = <<>>
  BY DEF Recalc
<1>9. driven["RES"] /\ ~(~settled["CLK0IN"] /\ driven["CLK0IN"]) =>
          cpu' = cpu /\ traced' = traced
  BY DEF Recalc
<1>10. driven["RES"] /\ ~(~settled["CLK0IN"] /\ driven["CLK0IN"]) => served' = served
  <2>1. served \in BOOLEAN
    BY DEF Inv, TypeOK
  <2>2. served' = (served /\ ~(~settled["CLK0IN"] /\ driven["CLK0IN"]) /\ driven["RES"])
    BY DEF Recalc
  <2> QED
    BY <2>1, <2>2
<1>11. held' = IF ~driven["RES"] /\ (~settled["CLK0IN"] /\ driven["CLK0IN"]) /\ held < 8
               THEN held + 1 ELSE held
  BY DEF Recalc, HoldCycles
<1>12. NoAccess' = NoAccess /\ Accesses' = Accesses
  BY <1>4, MachineStays
<1>13. p # 53 /\ p + 1 \in 3 .. 51
  BY <1>3 DEF Positions
<1>14. Position(p + 1)'
  <2>1. CASE p = 2
    <3>1. driven["RES"] = FALSE
      BY <1>3, <2>1 DEF Position, InSetup
    <3>2. cpu' = NoAccess'
      BY <1>7, <1>12, <3>1
    <3> QED
      BY <1>4, <2>1, <3>1, <3>2 DEF Position, InSetup, InLoop, Clock, Reset
  <2>2. CASE p \in {4, 6, 8, 10}
    <3>1. driven["RES"] = FALSE /\ driven["CLK0IN"] = TRUE
      BY <1>3, <2>2 DEF Position, InSetup, Reset
    <3>2. cpu' = NoAccess'
      BY <1>7, <1>12, <3>1
    <3>3. p + 1 \in {5, 7, 9, 11}
      BY <2>2
    <3> QED
      BY <1>4, <3>1, <3>2, <3>3 DEF Position, InSetup, InLoop, Clock, Reset
  <2>3. CASE p \in 13 .. 44 /\ (p - 13) % 4 \in {1, 3}
    <3>1. driven["RES"] = FALSE /\ InHold(p - 13)
      BY <1>3, <2>3 DEF Position, InSetup, Reset
    <3>2. PICK k \in 0 .. 31 : k = p - 13
      BY <2>3
    <3>3. k % 4 \in {1, 3} /\ InHold(k)
      BY <2>3, <3>1, <3>2
    <3>4. /\ held = k \div 4
          /\ driven["CLK0IN"] = (k % 4 \in {0, 3}) /\ settled["CLK0IN"] = (k % 4 \in {0, 1})
      BY <3>3 DEF InHold, Clock
    <3>5. InHold(k + 1)'
      <4>1. CASE k % 4 = 1
        <5>1. driven["CLK0IN"] = FALSE
          <6>1. k % 4 \notin {0, 3}
            BY <4>1
          <6>2. driven["CLK0IN"] = (k % 4 \in {0, 3})
            BY <3>4
          <6>3. (k % 4 \in {0, 3}) = FALSE
            BY <6>1
          <6> QED
            BY <6>2, <6>3, Zenon
        <5>2. (k + 1) % 4 = 2 /\ (k + 1) \div 4 = k \div 4
          BY <4>1, HoldArith
        <5>3. held' = (k + 1) \div 4
          BY <1>11, <3>4, <5>1, <5>2
        <5>4. (k + 1) % 4 \notin {0, 3} /\ (k + 1) % 4 \notin {0, 1}
          BY <5>2
        <5>5. driven'["CLK0IN"] = FALSE /\ settled'["CLK0IN"] = FALSE
          BY <1>4, <5>1
        <5>6. ((k + 1) % 4 \in {0, 3}) = FALSE /\ ((k + 1) % 4 \in {0, 1}) = FALSE
          BY <5>4
        <5> QED
          BY <5>3, <5>5, <5>6, Zenon DEF InHold, Clock
      <4>2. CASE k % 4 = 3
        <5>1. driven["CLK0IN"] = TRUE /\ settled["CLK0IN"] = FALSE
          <6>1. k % 4 \in {0, 3} /\ k % 4 \notin {0, 1}
            BY <4>2
          <6>2. driven["CLK0IN"] = (k % 4 \in {0, 3}) /\ settled["CLK0IN"] = (k % 4 \in {0, 1})
            BY <3>4
          <6>3. (k % 4 \in {0, 3}) = TRUE /\ (k % 4 \in {0, 1}) = FALSE
            BY <6>1
          <6> QED
            BY <6>2, <6>3, Zenon
        <5>2. (k + 1) % 4 = 0 /\ (k + 1) \div 4 = (k \div 4) + 1 /\ k \div 4 \in 0 .. 7
          BY <4>2, HoldArith
        <5>3. held' = (k + 1) \div 4
          BY <1>11, <3>1, <3>4, <5>1, <5>2
        <5> QED
          BY <1>4, <5>1, <5>2, <5>3 DEF InHold, Clock
      <4> QED
        BY <3>3, <4>1, <4>2
    <3>6. Reset(FALSE, FALSE)' /\ (cpu = NoAccess)'
      BY <1>4, <1>7, <1>12, <3>1 DEF Reset
    <3>7. PICK q \in 14 .. 45 : q = p + 1
      BY <2>3
    <3>8. q = 14 + k
      BY <3>2, <3>7
    <3>9. Position(q)'
      BY <3>5, <3>6, <3>8, HoldsOn
    <3> QED
      BY <3>7, <3>9
  <2>4. CASE p = 46
    <3>1. /\ driven["RES"] = TRUE /\ driven["CLK0IN"] = TRUE /\ settled["CLK0IN"] = TRUE
          /\ cpu = NoAccess
      BY <1>3, <2>4 DEF Position, InSetup, Clock, Reset
    <3>2. cpu' = NoAccess'
      BY <1>9, <1>12, <3>1
    <3> QED
      BY <1>4, <2>4, <3>1, <3>2 DEF Position, InSetup, InLoop, Clock, Reset
  <2>5. CASE p = 48
    <3>1. driven["RES"] = TRUE /\ driven["CLK0IN"] = FALSE
      BY <1>3, <2>5 DEF Position, InLoop, Clock, Reset
    <3> QED
      BY <1>4, <2>5, <3>1 DEF Position, InSetup, InLoop, Clock, Reset
  <2>6. CASE p = 50
    <3>1. driven["RES"] = TRUE /\ driven["CLK0IN"] = TRUE /\ settled["CLK0IN"] = FALSE
      BY <1>3, <2>6 DEF Position, InLoop, Clock, Reset
    <3>2. cpu' \in Accesses' /\ served' = FALSE /\ traced' = <<>>
      BY <1>8, <1>12, <3>1
    <3> QED
      BY <1>4, <2>6, <3>1, <3>2 DEF Position, InSetup, InLoop, Clock, Reset
  <2> QED
    BY <1>3, <2>1, <2>2, <2>3, <2>4, <2>5, <2>6 DEF Positions
<1>15. OneRuns' /\ at' \in [Callers -> 0 .. Len(Script)]
  BY <1>2, <1>4, <1>13, <1>14, Moves
<1>16. /\ lock \subseteq Callers /\ eof \in [Callers -> BOOLEAN]
       /\ cpu \in Accesses \cup {NoAccess} /\ bus \in 0 .. 255 /\ served \in BOOLEAN
       /\ traced = <<>> \/ traced \in {"read", "write"} \X Addresses[machine] \X (0 .. 255)
  BY DEF Inv, TypeOK
<1>17. \/ cpu' = NoAccess /\ served' = FALSE /\ traced' = <<>>
       \/ cpu' \in Accesses /\ served' = FALSE /\ traced' = <<>>
       \/ cpu' = cpu /\ served' = served /\ traced' = traced
  BY <1>7, <1>8, <1>9, <1>10
<1>18. TypeOK'
  <2>1. held' \in 0 .. HoldCycles
    <3>1. held' \in 0 .. 8
      BY <1>5, <1>11
    <3> QED
      BY <3>1 DEF HoldCycles
  <2>2. /\ cpu' \in Accesses \cup {NoAccess} /\ served' \in BOOLEAN
        /\ traced' = <<>> \/ traced' \in {"read", "write"} \X Addresses[machine] \X (0 .. 255)
    BY <1>16, <1>17
  <2> QED
    BY <1>4, <1>5, <1>15, <1>16, <2>1, <2>2, DataTyped, TypeKept DEF Inv
<1>19. TraceTellsAccess'
  BY <1>4, <1>17 DEF Inv, TraceTellsAccess
<1> QED
  BY <1>15, <1>18, <1>19 DEF Inv

LEMMA StabilizeInv ==
  ASSUME Inv, NEW c \in Callers, Stabilize(c)
  PROVE  Inv'
<1>1. at[c] \in 1 .. 53 /\ at[c] \in Positions("stabilize") /\ Position(at[c])
  BY Doings DEF Stabilize
<1>2. at[c] = 12 /\ Position(12)
  BY <1>1 DEF Positions
<1>3. /\ settled' = driven /\ held' = 0
      /\ Advance(c)
      /\ machine' = machine /\ data' = data /\ lock' = lock /\ eof' = eof /\ driven' = driven
      /\ cpu' = cpu /\ bus' = bus /\ served' = served /\ traced' = traced
  BY DEF Stabilize
<1>4. NoAccess' = NoAccess
  BY <1>3, MachineStays
<1>5. Position(13)'
  <2>1. driven["RES"] = FALSE /\ driven["CLK0IN"] = TRUE /\ cpu = NoAccess
    BY <1>2 DEF Position, InSetup, Reset
  <2>2. 13 - 13 = 0 /\ 0 \div 4 = 0 /\ 0 % 4 = 0
    OBVIOUS
  <2>3. InHold(13 - 13)'
    BY <1>3, <2>1, <2>2 DEF InHold, Clock
  <2> QED
    BY <1>3, <1>4, <2>1, <2>3 DEF Position, InSetup, InLoop, InHold, Clock, Reset
<1>6. OneRuns' /\ at' \in [Callers -> 0 .. Len(Script)]
  BY <1>2, <1>3, <1>5, Moves
<1>7. TypeOK'
  <2>1. 0 \in 0 .. HoldCycles
    BY DEF HoldCycles
  <2>2. /\ lock \subseteq Callers /\ eof \in [Callers -> BOOLEAN]
        /\ driven \in [Pins -> BOOLEAN]
        /\ cpu \in Accesses \cup {NoAccess} /\ bus \in 0 .. 255 /\ served \in BOOLEAN
        /\ traced = <<>> \/ traced \in {"read", "write"} \X Addresses[machine] \X (0 .. 255)
    BY DEF Inv, TypeOK
  <2> QED
    BY <1>3, <1>6, <2>1, <2>2, DataTyped, TypeKept DEF Inv
<1>8. TraceTellsAccess'
  BY <1>3 DEF Inv, TraceTellsAccess
<1> QED
  BY <1>6, <1>7, <1>8 DEF Inv

LEMMA HandleMemoryInv ==
  ASSUME Inv, NEW c \in Callers, HandleMemory(c)
  PROVE  Inv'
<1>1. at[c] \in 1 .. 53 /\ at[c] \in Positions("memory") /\ Position(at[c])
  BY Doings DEF HandleMemory
<1>2. at[c] = 51 /\ Position(51)
  BY <1>1 DEF Positions
<1>3. /\ served' = TRUE
      /\ Advance(c)
      /\ machine' = machine /\ lock' = lock /\ eof' = eof /\ driven' = driven
      /\ settled' = settled /\ cpu' = cpu /\ held' = held /\ traced' = traced
  BY DEF HandleMemory
<1>4. ranges' = ranges /\ Accesses' = Accesses
  BY <1>3, MachineStays
<1>5. /\ driven["RES"] = TRUE /\ settled["RES"] = TRUE
      /\ driven["CLK0IN"] = TRUE /\ settled["CLK0IN"] = TRUE
      /\ cpu \in Accesses /\ traced = <<>>
  BY <1>2 DEF Position, InLoop, Clock, Reset
<1>6. cpu.address \in Addresses[machine] /\ cpu.byte \in 0 .. 3 /\ TypeOK
  BY <1>5, Here DEF Inv
<1>7. cpu.reading => bus' = Load(ranges, data, cpu.address) /\ data' = data
  BY DEF HandleMemory
<1>8. ~cpu.reading => data' = Store(ranges, data, cpu.address, cpu.byte) /\ bus' = bus
  BY DEF HandleMemory
<1>9. Position(52)'
  BY <1>3, <1>4, <1>5, <1>7 DEF Position, InSetup, InLoop, Clock, Reset
<1>10. OneRuns' /\ at' \in [Callers -> 0 .. Len(Script)]
  BY <1>2, <1>3, <1>9, Moves
<1>11. TypeOK'
  <2>1. PICK d : d = data'
    OBVIOUS
  <2>2. DataOK(d)
    <3>1. CASE cpu.reading
      BY <1>6, <1>7, <2>1, <3>1, DataTyped
    <3>2. CASE ~cpu.reading
      <4>1. cpu.byte \in 0 .. 255
        BY <1>6
      <4>2. DataOK(Store(ranges, data, cpu.address, cpu.byte))
        BY <1>6, <4>1, StoreKeepsType
      <4> QED
        BY <1>8, <2>1, <3>2, <4>2
    <3> QED
      BY <3>1, <3>2
  <2>3. bus' \in 0 .. 255
    <3>1. Load(ranges, data, cpu.address) \in 0 .. 255
      BY <1>6, LoadIsByte
    <3>2. bus \in 0 .. 255
      BY DEF Inv, TypeOK
    <3> QED
      BY <1>7, <1>8, <3>1, <3>2
  <2>4. /\ lock \subseteq Callers /\ eof \in [Callers -> BOOLEAN]
        /\ driven \in [Pins -> BOOLEAN]
        /\ settled \in [Pins -> BOOLEAN] /\ held \in 0 .. HoldCycles
        /\ cpu \in Accesses \cup {NoAccess}
    BY DEF Inv, TypeOK
  <2> QED
    BY <1>3, <1>5, <1>10, <2>1, <2>2, <2>3, <2>4, TypeKept DEF Inv
<1>12. TraceTellsAccess'
  BY <1>3, <1>5 DEF TraceTellsAccess
<1> QED
  BY <1>10, <1>11, <1>12 DEF Inv

LEMMA TraceCPUInv ==
  ASSUME Inv, NEW c \in Callers, TraceCPU(c)
  PROVE  Inv'
<1>1. at[c] \in 1 .. 53 /\ at[c] \in Positions("trace") /\ Position(at[c])
  BY Doings DEF TraceCPU
<1>2. at[c] = 52 /\ Position(52)
  BY <1>1 DEF Positions
<1>3. /\ traced' = IF cpu.reading THEN <<"read", cpu.address, Load(ranges, data, cpu.address)>>
                   ELSE <<"write", cpu.address, cpu.byte>>
      /\ Advance(c)
      /\ machine' = machine /\ data' = data /\ lock' = lock /\ eof' = eof /\ driven' = driven
      /\ settled' = settled /\ cpu' = cpu /\ bus' = bus /\ served' = served /\ held' = held
  BY DEF TraceCPU
<1>4. Accesses' = Accesses
  BY <1>3, MachineStays
<1>5. /\ driven["RES"] = TRUE /\ settled["RES"] = TRUE
      /\ driven["CLK0IN"] = TRUE /\ settled["CLK0IN"] = TRUE
      /\ cpu \in Accesses /\ served
      /\ cpu.reading => bus = Load(ranges, data, cpu.address)
  BY <1>2 DEF Position, InLoop, Clock, Reset
<1>6. Position(53)'
  BY <1>3, <1>4, <1>5 DEF Position, InSetup, InLoop, Clock, Reset
<1>7. OneRuns' /\ at' \in [Callers -> 0 .. Len(Script)]
  BY <1>2, <1>3, <1>6, Moves
<1>8. /\ cpu.address \in Addresses[machine] /\ cpu.byte \in 0 .. 255
      /\ cpu.reading \in BOOLEAN /\ TypeOK
  <2>1. /\ cpu.address \in Addresses[machine] /\ cpu.byte \in 0 .. 3
        /\ cpu.reading \in BOOLEAN /\ TypeOK
    BY <1>5, Here DEF Inv
  <2> QED
    BY <2>1
<1>9. TypeOK'
  <2>1. traced' \in {"read", "write"} \X Addresses[machine] \X (0 .. 255)
    <3>1. Load(ranges, data, cpu.address) \in 0 .. 255
      BY <1>8, LoadIsByte
    <3> QED
      BY <1>3, <1>8, <3>1
  <2>2. /\ lock \subseteq Callers /\ eof \in [Callers -> BOOLEAN]
        /\ driven \in [Pins -> BOOLEAN]
        /\ settled \in [Pins -> BOOLEAN] /\ held \in 0 .. HoldCycles
        /\ cpu \in Accesses \cup {NoAccess} /\ bus \in 0 .. 255 /\ served \in BOOLEAN
    BY DEF Inv, TypeOK
  <2> QED
    BY <1>3, <1>7, <2>1, <2>2, DataTyped, TypeKept DEF Inv
<1>10. TraceTellsAccess'
  BY <1>3, <1>5 DEF TraceTellsAccess
<1> QED
  BY <1>7, <1>9, <1>10 DEF Inv

LEMMA HostInv ==
  ASSUME Inv, NEW c \in Callers, Host(c), eof' \in [Callers -> BOOLEAN],
         NEW d, d = data', DataOK(d)
  PROVE  Inv'
<1>1. at[c] \in 1 .. 53 /\ at[c] \in Positions("host") /\ Position(at[c])
  BY Doings DEF Host
<1>2. at[c] = 53 /\ Position(53)
  BY <1>1 DEF Positions
<1>3. Advance(c) /\ machine' = machine /\ lock' = lock /\ chip' = chip
  BY DEF Host
<1>4. Position(47)'
  <2>1. /\ driven["RES"] = TRUE /\ settled["RES"] = TRUE
        /\ driven["CLK0IN"] = TRUE /\ settled["CLK0IN"] = TRUE /\ served
    BY <1>2 DEF Position, InLoop, Clock, Reset
  <2>2. driven' = driven /\ settled' = settled /\ served' = served
    BY <1>3 DEF chip
  <2> QED
    BY <2>1, <2>2 DEF Position, InSetup, InLoop, Clock, Reset
<1>5. OneRuns' /\ at' \in [Callers -> 0 .. Len(Script)]
  BY <1>2, <1>3, <1>4, Moves
<1>6. lock' \subseteq Callers
  BY <1>3 DEF Inv, TypeOK
<1>7. TypeOK' /\ TraceTellsAccess'
  BY <1>3, <1>5, <1>6, TypeOfRest
<1> QED
  BY <1>5, <1>7 DEF Inv

LEMMA HostActionsInv ==
  ASSUME Inv, NEW c \in Callers,
         HostFetch(c) \/ HostEndOfFile(c) \/ HostClear(c) \/ HostIdle(c)
  PROVE  Inv'
<1>1. eof \in [Callers -> BOOLEAN] /\ TypeOK /\ DataOK(data)
  BY DataTyped DEF Inv, TypeOK
<1>2. CASE HostFetch(c)
  <2>1. PICK char \in HostChars : data' = [data EXCEPT ![KernelRegisters(ranges)][IO] = char]
    BY <1>2 DEF HostFetch
  <2>2. DataOK([data EXCEPT ![KernelRegisters(ranges)][IO] = char])
    BY <1>1, HostKeepsType
  <2>3. Host(c) /\ eof' = eof
    BY <1>2 DEF HostFetch
  <2> QED
    BY <1>1, <2>1, <2>2, <2>3, HostInv
<1>3. CASE HostEndOfFile(c)
  <2>1. Host(c) /\ eof' = [eof EXCEPT ![c] = TRUE] /\ data' = data
    BY <1>3 DEF HostEndOfFile
  <2>2. eof' \in [Callers -> BOOLEAN]
    BY <1>1, <2>1
  <2> QED
    BY <1>1, <2>1, <2>2, HostInv
<1>4. CASE HostClear(c)
  <2>1. Host(c) /\ eof' = eof /\ data' = [data EXCEPT ![KernelRegisters(ranges)] = ClearAll(@)]
    BY <1>4 DEF HostClear
  <2>2. DataOK([data EXCEPT ![KernelRegisters(ranges)] = ClearAll(@)])
    BY <1>1, HostKeepsType
  <2> QED
    BY <1>1, <2>1, <2>2, HostInv
<1>5. CASE HostIdle(c)
  <2>1. Host(c) /\ eof' = eof /\ data' = data
    BY <1>5 DEF HostIdle
  <2> QED
    BY <1>1, <2>1, HostInv
<1> QED
  BY <1>2, <1>3, <1>4, <1>5

LEMMA NextInv == Inv /\ [Next]_vars => Inv'
<1> SUFFICES ASSUME Inv, [Next]_vars PROVE Inv'
  OBVIOUS
<1>1. CASE UNCHANGED vars
  <2>1. /\ machine' = machine /\ data' = data /\ lock' = lock /\ at' = at /\ eof' = eof
        /\ chip' = chip
    BY <1>1 DEF vars
  <2>2. TypeOK' /\ TraceTellsAccess'
    BY <2>1, DataTyped, TypeOfRest DEF Inv, TypeOK
  <2>3. OneRuns'
    <3>1. ranges' = ranges /\ NoAccess' = NoAccess /\ Accesses' = Accesses
      BY <2>1, MachineStays
    <3>2. /\ driven' = driven /\ settled' = settled /\ cpu' = cpu /\ bus' = bus
          /\ served' = served /\ held' = held /\ traced' = traced
      BY <2>1 DEF chip
    <3> QED
      BY <2>1, <3>1, <3>2 DEF Inv, OneRuns, Position, InSetup, InLoop, InHold, Clock, Reset
  <2> QED
    BY <2>2, <2>3 DEF Inv
<1>2. ASSUME NEW c \in Callers,
             \/ Call(c) \/ Return(c)
             \/ WritePin(c) \/ Recalc(c) \/ Stabilize(c) \/ HandleMemory(c) \/ TraceCPU(c)
             \/ HostFetch(c) \/ HostEndOfFile(c) \/ HostClear(c) \/ HostIdle(c)
      PROVE  Inv'
  BY <1>2, CallInv, ReturnInv, WritePinInv, RecalcInv, StabilizeInv, HandleMemoryInv,
     TraceCPUInv, HostActionsInv
<1> QED
  BY <1>1, <1>2 DEF Next

-----------------------------------------------------------------------------
(* The invariant holds in every behaviour. *)
LEMMA SpecInv == Spec => []Inv
<1>1. Init => Inv
  BY InitInv
<1>2. Inv /\ [Next]_vars => Inv'
  BY NextInv
<1> QED
  BY <1>1, <1>2, PTL DEF Spec

(* Where the machine is in the script. *)
LEMMA Somewhere ==
  ASSUME Inv
  PROVE  \E p \in 0 .. 53 : Position(p)
<1>1. CASE lock = {}
  <2>1. Position(0)
    BY <1>1 DEF Inv, OneRuns
  <2> QED
    BY <2>1
<1>2. CASE lock # {}
  <2>1. PICK c \in Callers : lock = {c}
    BY <1>2 DEF Inv, OneRuns
  <2>2. at[c] # 0
    BY <2>1 DEF Inv, OneRuns
  <2>3. at[c] \in 1 .. 53 /\ Position(at[c])
    BY <2>2, Runs
  <2>4. PICK p \in 1 .. 53 : p = at[c]
    BY <2>3
  <2>5. Position(p) /\ p \in 0 .. 53
    BY <2>3, <2>4
  <2> QED
    BY <2>5
<1> QED
  BY <1>1, <1>2

(* Every variable has its type: in particular the data of a range has a    *)
(* byte for every offset that the CPU or the host can look at.             *)
THEOREM TypesHold == Spec => []TypeOK
<1>1. Inv => TypeOK
  BY DEF Inv
<1> QED
  BY <1>1, SpecInv, PTL

(* A cycle of the CPU does not end before its access was served, whoever   *)
(* else runs the machine (run, locked by the mutex).                       *)
THEOREM EveryCycleServed == Spec => []CyclesServed
<1>1. Inv => CyclesServed
  <2> SUFFICES ASSUME Inv, settled["CLK0IN"], ~driven["CLK0IN"], ~cpu.reset PROVE served
    BY DEF CyclesServed
  <2>1. PICK p \in 0 .. 53 : Position(p)
    BY Somewhere
  <2>2. cpu # NoAccess
    BY Here DEF Inv
  <2>3. p > 3
    <3>1. p <= 3 => driven["CLK0IN"] = settled["CLK0IN"]
      BY <2>1 DEF Position, InSetup
    <3>2. ~(p <= 3)
      BY <3>1
    <3> QED
      BY <3>2
  <2>4. p \notin 3 .. 45 /\ p # 46
    BY <2>1, <2>2 DEF Position, InSetup
  <2>5. p \notin {47, 51, 52, 53} /\ p # 49 /\ p # 50
    BY <2>1 DEF Position, InLoop, Clock
  <2>6. p = 48
    BY <2>3, <2>4, <2>5
  <2> QED
    BY <2>1, <2>2, <2>6 DEF Position, InLoop
<1> QED
  BY <1>1, SpecInv, PTL

(* RES is let go after eight cycles of the clock that the network has      *)
(* seen, on every run (initialize_chip).                                   *)
THEOREM ResetIsHeld == Spec => []ResetHeld
<1>1. Inv => ResetHeld
  <2> SUFFICES ASSUME Inv, driven["RES"], ~settled["RES"] PROVE held = HoldCycles
    BY DEF ResetHeld
  <2>1. PICK p \in 0 .. 53 : Position(p)
    BY Somewhere
  <2>2. p > 1 /\ p # 2
    <3>1. p <= 1 => driven["RES"] = settled["RES"]
      BY <2>1 DEF Position, InSetup
    <3>2. p = 2 => driven["RES"] = FALSE
      BY <2>1 DEF Position, InSetup
    <3>3. ~(p <= 1) /\ p # 2
      BY <3>1, <3>2
    <3> QED
      BY <3>3
  <2>3. p \notin 3 .. 45
    BY <2>1 DEF Position, InSetup, Reset
  <2>4. ~(p >= 47)
    BY <2>1 DEF Position, InLoop, Reset
  <2>5. p = 46
    BY <2>2, <2>3, <2>4
  <2> QED
    BY <2>1, <2>5 DEF Position, InSetup, HoldCycles
<1> QED
  BY <1>1, SpecInv, PTL

(* The trace of a cycle tells the access of that cycle (trace_CPU).        *)
THEOREM TraceIsTrue == Spec => []TraceTellsAccess
<1>1. Inv => TraceTellsAccess
  BY DEF Inv
<1> QED
  BY <1>1, SpecInv, PTL

(* The host's pointers and the CPU's loads see the same registers          *)
(* (commodore, memory::read).                                              *)
THEOREM HostReadsWhatIsServed == Spec => []HostSeesRegisters
<1>1. Inv => HostSeesRegisters
  <2> SUFFICES ASSUME Inv, NEW offset \in {Select, IO, Ack}
               PROVE  Registers[offset] = Load(ranges, data, RegistersStart + offset)
    BY DEF HostSeesRegisters
  <2>1. machine \in Machines
    BY DEF Inv, TypeOK
  <2>2. KernelRegisters(ranges) = 2 /\ ranges[2].start = 64768
    BY <2>1, RegistersServed DEF ranges
  <2>3. RegistersStart + offset \in 64768 .. 65023
    BY DEF Select, IO, Ack, RegistersStart
  <2>4. /\ Hits(ranges, RegistersStart + offset) # {}
        /\ Serving(ranges, RegistersStart + offset) = 2
    BY <2>1, <2>3, RegistersServed DEF ranges
  <2>5. (RegistersStart + offset) - 64768 = offset
    BY DEF Select, IO, Ack, RegistersStart
  <2>6. Load(ranges, data, RegistersStart + offset) =
          data[2][(RegistersStart + offset) - ranges[2].start]
    BY <2>4 DEF Load
  <2> QED
    BY <2>2, <2>5, <2>6 DEF Registers
<1> QED
  BY <1>1, SpecInv, PTL

(* What the constructors hand over to BASIC. *)
LEMMA WordsAre ==
  /\ RamBottom("C64") = 2048 /\ RamTop("C64") = 40960 /\ BasicEntry("C64") = 58260
  /\ RamBottom("VIC20") = 1536 /\ RamTop("VIC20") = 5120 /\ BasicEntry("VIC20") = 58232
<1>1. InitialRegisters("C64") = <<0, 0, 148, 227, 40, 25, 0, 160, 0, 8>>
  BY DEF InitialRegisters
<1>2. InitialRegisters("VIC20") = <<0, 0, 120, 227, 22, 23, 0, 20, 0, 6>>
  BY DEF InitialRegisters
<1>3. RamBottom("C64") = 2048 /\ RamTop("C64") = 40960 /\ BasicEntry("C64") = 58260
  BY <1>1, SMT DEF RamBottom, RamTop, BasicEntry, InitialWord
<1>4. RamBottom("VIC20") = 1536 /\ RamTop("VIC20") = 5120 /\ BasicEntry("VIC20") = 58232
  BY <1>2, SMT DEF RamBottom, RamTop, BasicEntry, InitialWord
<1> QED
  BY <1>3, <1>4

LEMMA RangeShapes ==
  /\ KernalROM.start = 65024 /\ KernalROM.size = 512
  /\ RegistersOf.start = 64768 /\ RegistersOf.size = 256
  /\ \A start, size, byte : /\ ROM(start, size, byte).kind = "ROM"
                            /\ ROM(start, size, byte).start = start
                            /\ ROM(start, size, byte).size = size
  /\ \A start, size : /\ RAM(start, size).kind = "RAM"
                      /\ RAM(start, size).start = start
                      /\ RAM(start, size).size = size
BY DEF KernalROM, RegistersOf, ROM, RAM, AddressRange

LEMMA HandsOverC64 ==
  /\ \A a \in Nat : 2048 <= a /\ a < 40960 =>
       /\ Hits(RangesOf["C64"], a) # {}
       /\ RangesOf["C64"][Serving(RangesOf["C64"], a)].kind = "RAM"
  /\ Hits(RangesOf["C64"], 58260) # {}
  /\ RangesOf["C64"][Serving(RangesOf["C64"], 58260)].kind = "ROM"
<1> DEFINE R == RangesOf["C64"]
<1>1. Ranges(R) /\ DOMAIN R = 1 .. 5
  BY RangesC64, LenProperties DEF Ranges
<1>2. /\ R[1].start = 65024 /\ R[2].start = 64768
      /\ R[3].start = 40960 /\ R[3].size = 8192
      /\ R[4].start = 57344 /\ R[4].size = 1207 /\ R[4].kind = "ROM"
      /\ R[5].start = 0 /\ R[5].size = 65536 /\ R[5].kind = "RAM"
  BY RangesC64, RangeShapes
<1> HIDE DEF R
<1>3. ASSUME NEW a \in Nat, 2048 <= a, a < 40960
      PROVE  Hits(R, a) # {} /\ R[Serving(R, a)].kind = "RAM"
  <2>1. ~Contains(R[1], a) /\ ~Contains(R[2], a) /\ ~Contains(R[3], a) /\ ~Contains(R[4], a)
    BY <1>2, <1>3, SMT DEF Contains
  <2>2. Contains(R[5], a)
    BY <1>2, <1>3, SMT DEF Contains
  <2>3. 5 \in Hits(R, a) /\ \A j \in Hits(R, a) : 5 <= j
    BY <1>1, <2>1, <2>2 DEF Hits
  <2>4. Serving(R, a) = 5
    BY <1>1, <2>3, ServingIs
  <2> QED
    BY <1>2, <2>3, <2>4
<1>4. Hits(R, 58260) # {} /\ R[Serving(R, 58260)].kind = "ROM"
  <2>1. ~Contains(R[1], 58260) /\ ~Contains(R[2], 58260) /\ ~Contains(R[3], 58260)
    BY <1>2, SMT DEF Contains
  <2>2. Contains(R[4], 58260)
    BY <1>2, SMT DEF Contains
  <2>3. 4 \in Hits(R, 58260) /\ \A j \in Hits(R, 58260) : 4 <= j
    BY <1>1, <2>1, <2>2, SMT DEF Hits
  <2>4. Serving(R, 58260) = 4
    BY <1>1, <2>3, ServingIs, SMT
  <2> QED
    BY <1>2, <2>3, <2>4, SMT
<1> QED
  BY <1>3, <1>4, SMT DEF R

LEMMA HandsOverVIC ==
  /\ \A a \in Nat : 1536 <= a /\ a < 5120 =>
       /\ Hits(RangesOf["VIC20"], a) # {}
       /\ RangesOf["VIC20"][Serving(RangesOf["VIC20"], a)].kind = "RAM"
  /\ Hits(RangesOf["VIC20"], 58232) # {}
  /\ RangesOf["VIC20"][Serving(RangesOf["VIC20"], 58232)].kind = "ROM"
<1> DEFINE R == RangesOf["VIC20"]
<1>1. Ranges(R) /\ DOMAIN R = 1 .. 4
  BY RangesVIC, LenProperties DEF Ranges
<1>2. /\ R[1].start = 65024 /\ R[2].start = 64768
      /\ R[3].start = 49152 /\ R[3].size = 9472 /\ R[3].kind = "ROM"
      /\ R[4].start = 0 /\ R[4].size = 5120 /\ R[4].kind = "RAM"
  BY RangesVIC, RangeShapes
<1> HIDE DEF R
<1>3. ASSUME NEW a \in Nat, 1536 <= a, a < 5120
      PROVE  Hits(R, a) # {} /\ R[Serving(R, a)].kind = "RAM"
  <2>1. ~Contains(R[1], a) /\ ~Contains(R[2], a) /\ ~Contains(R[3], a)
    BY <1>2, <1>3, SMT DEF Contains
  <2>2. Contains(R[4], a)
    BY <1>2, <1>3, SMT DEF Contains
  <2>3. 4 \in Hits(R, a) /\ \A j \in Hits(R, a) : 4 <= j
    BY <1>1, <2>1, <2>2 DEF Hits
  <2>4. Serving(R, a) = 4
    BY <1>1, <2>3, ServingIs
  <2> QED
    BY <1>2, <2>3, <2>4
<1>4. Hits(R, 58232) # {} /\ R[Serving(R, 58232)].kind = "ROM"
  <2>1. ~Contains(R[1], 58232) /\ ~Contains(R[2], 58232)
    BY <1>2, SMT DEF Contains
  <2>2. Contains(R[3], 58232)
    BY <1>2, SMT DEF Contains
  <2>3. 3 \in Hits(R, 58232) /\ \A j \in Hits(R, 58232) : 3 <= j
    BY <1>1, <2>1, <2>2, SMT DEF Hits
  <2>4. Serving(R, 58232) = 3
    BY <1>1, <2>3, ServingIs, SMT
  <2> QED
    BY <1>2, <2>3, <2>4, SMT
<1> QED
  BY <1>3, <1>4, SMT DEF R

(* On both machines the work area given to BASIC is RAM that no other      *)
(* range hides, and BASIC is entered in ROM (C64, CVIC20).                 *)
THEOREM HandsOver == Spec => []HandsOverToBasic
<1>1. Inv => HandsOverToBasic
  <2> SUFFICES ASSUME Inv PROVE HandsOverToBasic
    OBVIOUS
  <2>1. /\ machine \in {"C64", "VIC20"} /\ ranges = RangesOf[machine]
        /\ Addresses[machine] \subseteq Nat
    BY Here DEF Inv, TypeOK, Machines, ranges
  <2>2. CASE machine = "C64"
    <3>1. ranges = RangesOf["C64"] /\ Addresses["C64"] \subseteq Nat
      BY <2>1, <2>2
    <3>2. Addresses["C64"] \cup {2048, 40960 - 1} \subseteq Nat
      BY <3>1, SMT
    <3> QED
      BY <2>2, <3>1, <3>2, WordsAre, HandsOverC64, SMT DEF HandsOverToBasic
  <2>3. CASE machine = "VIC20"
    <3>1. ranges = RangesOf["VIC20"] /\ Addresses["VIC20"] \subseteq Nat
      BY <2>1, <2>3
    <3>2. Addresses["VIC20"] \cup {1536, 5120 - 1} \subseteq Nat
      BY <3>1, SMT
    <3> QED
      BY <2>3, <3>1, <3>2, WordsAre, HandsOverVIC, SMT DEF HandsOverToBasic
  <2> QED
    BY <2>1, <2>2, <2>3
<1> QED
  BY <1>1, SpecInv, PTL

-----------------------------------------------------------------------------
(* The flat memory. *)

LEMMA InitFlat == Init => Flat!FlatInit
<1> SUFFICES ASSUME Init PROVE Flat!FlatInit
  OBVIOUS
<1>1. machine \in Machines /\ Addresses[machine] \subseteq Nat
  BY InitInv, Here DEF Inv
<1>2. ReadOnly(ranges, Addresses[machine]) \subseteq Addresses[machine]
  BY DEF ReadOnly
<1>3. ASSUME NEW a \in ReadOnly(ranges, Addresses[machine]),
             a \in RegistersStart .. RegistersStart + RegistersSize - 1
      PROVE  FALSE
  <2>1. a \in 64768 .. 65023
    BY <1>3 DEF RegistersStart, RegistersSize
  <2>2. Hits(ranges, a) # {} /\ Serving(ranges, a) = 2 /\ ranges[2].kind = "registers"
    BY <1>1, <2>1, RegistersServed DEF ranges
  <2> QED
    BY <1>3, <2>2 DEF ReadOnly, IsWritable
<1>4. served = FALSE
  BY DEF Init
<1> QED
  BY <1>2, <1>3, <1>4 DEF Flat!FlatInit, Flat!None

(* The machine stays, and with it the addresses where a write is lost. *)
LEMMA ReadOnlyStays ==
  ASSUME machine' = machine
  PROVE  ReadOnly(ranges, Addresses[machine])' = ReadOnly(ranges, Addresses[machine])
BY DEF ReadOnly, ranges

LEMMA Stutters ==
  ASSUME machine' = machine, data' = data, cpu' = cpu, bus' = bus, served' = served
  PROVE  UNCHANGED Flat!mvars
<1>1. ranges' = ranges
  BY DEF ranges
<1> QED
  BY <1>1, ReadOnlyStays DEF Flat!mvars

LEMMA RecalcFlat ==
  ASSUME Inv, NEW c \in Callers, Recalc(c)
  PROVE  Flat!NextCycle \/ UNCHANGED Flat!mvars
<1>1. machine' = machine /\ data' = data /\ bus' = bus
  BY DEF Recalc
<1>2. /\ ranges' = ranges
      /\ ReadOnly(ranges, Addresses[machine])' = ReadOnly(ranges, Addresses[machine])
  BY <1>1, ReadOnlyStays DEF ranges
<1>3. served' = FALSE \/ (cpu' = cpu /\ served' = served)
  <2>1. served \in BOOLEAN
    BY DEF Inv, TypeOK
  <2>2. served' = (served /\ ~(~settled["CLK0IN"] /\ driven["CLK0IN"]) /\ driven["RES"])
    BY DEF Recalc
  <2>3. driven["RES"] /\ ~(~settled["CLK0IN"] /\ driven["CLK0IN"]) => cpu' = cpu
    BY DEF Recalc
  <2> QED
    BY <2>1, <2>2, <2>3
<1>4. CASE cpu' = cpu /\ served' = served
  BY <1>1, <1>4, Stutters
<1>5. CASE served' = FALSE /\ ~served
  BY <1>1, <1>2, <1>5 DEF Flat!mvars
<1>6. CASE served' = FALSE /\ served
  BY <1>1, <1>2, <1>6 DEF Flat!NextCycle, Flat!None
<1> QED
  BY <1>3, <1>4, <1>5, <1>6

LEMMA HandleMemoryFlat ==
  ASSUME Inv, NEW c \in Callers, HandleMemory(c)
  PROVE  \E a \in Addresses[machine] : Flat!Read(a) \/ \E b \in 0 .. 3 : Flat!Write(a, b)
<1>1. at[c] \in 1 .. 53 /\ at[c] \in Positions("memory") /\ Position(at[c])
  BY Doings DEF HandleMemory
<1>2. at[c] = 51 /\ Position(51)
  BY <1>1 DEF Positions
<1>3. cpu \in Accesses /\ ~served
  BY <1>2 DEF Position, InLoop
<1>4. cpu.address \in Addresses[machine] /\ cpu.byte \in 0 .. 3 /\ TypeOK
  BY <1>3, Here DEF Inv
<1>5. served' = TRUE /\ machine' = machine /\ cpu' = cpu
  BY DEF HandleMemory
<1>6. /\ ranges' = ranges
      /\ ReadOnly(ranges, Addresses[machine])' = ReadOnly(ranges, Addresses[machine])
  BY <1>5, ReadOnlyStays DEF ranges
<1>7. CASE cpu.reading
  <2>1. bus' = Load(ranges, data, cpu.address) /\ data' = data
    BY <1>7 DEF HandleMemory
  <2>2. Flat!Read(cpu.address)
    BY <1>3, <1>4, <1>5, <1>6, <1>7, <2>1 DEF Flat!Read, Flat!None
  <2> QED
    BY <1>4, <2>2
<1>8. CASE ~cpu.reading
  <2>1. data' = Store(ranges, data, cpu.address, cpu.byte) /\ bus' = bus
    BY <1>8 DEF HandleMemory
  <2>2. Ranges(ranges) /\ Addresses[machine] \in SUBSET Nat /\ cpu.byte \in 0 .. 255
    BY <1>4, Here
  <2>3. Backs(data, ranges, Addresses[machine])
    BY <1>4, Backed, DataTyped
  <2>4. ASSUME NEW x \in Addresses[machine]
        PROVE  Load(ranges, data', x) =
                 IF x = cpu.address /\ cpu.address \notin ReadOnly(ranges, Addresses[machine])
                 THEN cpu.byte ELSE Load(ranges, data, x)
    BY <1>4, <2>1, <2>2, <2>3, StoreThenLoad
  <2>5. Flat!Write(cpu.address, cpu.byte)
    BY <1>3, <1>4, <1>5, <1>6, <1>8, <2>4 DEF Flat!Write, Flat!None
  <2> QED
    BY <1>4, <2>5
<1> QED
  BY <1>7, <1>8

LEMMA HostFlat ==
  ASSUME Inv, NEW c \in Callers, Host(c), NEW d, d = data', d = [data EXCEPT ![2] = d[2]]
  PROVE  Flat!Device
<1>1. machine' = machine /\ cpu' = cpu /\ bus' = bus /\ served' = served
  BY DEF Host, chip
<1>2. /\ ranges' = ranges
      /\ ReadOnly(ranges, Addresses[machine])' = ReadOnly(ranges, Addresses[machine])
  BY <1>1, ReadOnlyStays DEF ranges
<1>3. ASSUME NEW a \in Addresses[machine],
             a \notin RegistersStart .. RegistersStart + RegistersSize - 1
      PROVE  Load(ranges, d, a) = Load(ranges, data, a)
  <2>1. a \in Nat \ (64768 .. 65023)
    <3>1. a \in Nat
      BY Here DEF Inv
    <3> QED
      BY <1>3, <3>1 DEF RegistersStart, RegistersSize
  <2>2. ~Contains(ranges[2], a)
    BY <2>1, Here, RegistersServed DEF Inv, ranges
  <2>3. CASE Hits(ranges, a) = {}
    BY <2>3 DEF Load
  <2>4. CASE Hits(ranges, a) # {}
    <3>1. Contains(ranges[Serving(ranges, a)], a) /\ Serving(ranges, a) \in DOMAIN ranges
      <4>1. Ranges(ranges)
        BY Here DEF Inv
      <4> QED
        BY <2>4, <4>1, ServingHits
    <3>2. Serving(ranges, a) # 2
      BY <2>2, <3>1
    <3>3. d[Serving(ranges, a)] = data[Serving(ranges, a)]
      <4>1. data = [i \in DOMAIN ranges |-> data[i]]
        BY DEF Inv, TypeOK
      <4>2. PICK j \in DOMAIN ranges : j = Serving(ranges, a)
        BY <3>1
      <4>3. DOMAIN data = DOMAIN ranges
        BY <4>1
      <4>4. d[j] = data[j]
        BY <3>2, <4>2, <4>3
      <4> QED
        BY <4>2, <4>4
    <3> QED
      BY <2>4, <3>3 DEF Load
  <2> QED
    BY <2>3, <2>4
<1> QED
  BY <1>1, <1>2, <1>3 DEF Flat!Device

LEMMA StepFlat == Inv /\ [Next]_vars => [Flat!FlatNext]_(Flat!mvars)
<1> SUFFICES ASSUME Inv, [Next]_vars PROVE [Flat!FlatNext]_(Flat!mvars)
  OBVIOUS
<1>1. CASE UNCHANGED vars
  BY <1>1, Stutters DEF vars, chip
<1>2. ASSUME NEW c \in Callers,
             Call(c) \/ Return(c) \/ WritePin(c) \/ Stabilize(c) \/ TraceCPU(c)
      PROVE  UNCHANGED Flat!mvars
  <2>1. machine' = machine /\ data' = data /\ cpu' = cpu /\ bus' = bus /\ served' = served
    BY <1>2 DEF Call, Return, WritePin, Stabilize, TraceCPU, chip
  <2> QED
    BY <2>1, Stutters
<1>3. ASSUME NEW c \in Callers, HostEndOfFile(c) \/ HostIdle(c)
      PROVE  UNCHANGED Flat!mvars
  <2>1. machine' = machine /\ data' = data /\ cpu' = cpu /\ bus' = bus /\ served' = served
    BY <1>3 DEF HostEndOfFile, HostIdle, Host, chip
  <2> QED
    BY <2>1, Stutters
<1>4. ASSUME NEW c \in Callers, Recalc(c)
      PROVE  Flat!NextCycle \/ UNCHANGED Flat!mvars
  BY <1>4, RecalcFlat
<1>5. ASSUME NEW c \in Callers, HandleMemory(c)
      PROVE  \E a \in Addresses[machine] : Flat!Read(a) \/ \E b \in 0 .. 3 : Flat!Write(a, b)
  BY <1>5, HandleMemoryFlat
<1>6. ASSUME NEW c \in Callers, HostFetch(c) \/ HostClear(c)
      PROVE  Flat!Device
  <2>1. KernelRegisters(ranges) = 2
    BY Here, RegistersServed DEF Inv, ranges
  <2>2. data = [i \in DOMAIN ranges |-> data[i]]
    BY DEF Inv, TypeOK
  <2>3. data' = [data EXCEPT ![2] = data'[2]]
    BY <1>6, <2>1, <2>2 DEF HostFetch, HostClear
  <2>4. Host(c)
    BY <1>6 DEF HostFetch, HostClear
  <2> QED
    BY <2>3, <2>4, HostFlat
<1> QED
  BY <1>1, <1>2, <1>3, <1>4, <1>5, <1>6 DEF Next, Flat!FlatNext

(* With the clock, the pins and the host between them, the CPU and the     *)
(* list of ranges are a flat memory with a device (handle_memory).         *)
THEOREM FlatMemoryImplemented == Spec => ImplementsFlatMemory
<1>1. Init => Flat!FlatInit
  BY InitFlat
<1>2. Inv /\ [Next]_vars => [Flat!FlatNext]_(Flat!mvars)
  BY StepFlat
<1> QED
  BY <1>1, <1>2, SpecInv, PTL DEF Spec, ImplementsFlatMemory, Flat!FlatSpec
=============================================================================
