------------------------------ MODULE Mos65xx ------------------------------
(***************************************************************************)
(* The pins and buses of the 6500 family (src/src/mos65xx.cc): what the    *)
(* host of a chip sees and drives.  Behind them is class nmos with the     *)
(* netlist of the 6502, of which only the nodes on pins and buses and in   *)
(* registers appear here: the first with the flags set_node gives them,    *)
(* both with the level they have.                                          *)
(***************************************************************************)
EXTENDS Pinouts, Functions

CONSTANTS
  Chosen,       \* the models that are looked at
  Addresses,    \* addresses the CPU may put out
  DataValues,   \* bytes the CPU or the host may put on the data bus
  Contents,     \* what the registers of the CPU may hold
  MaxCalls      \* most calls of the host and cycles of the CPU

Bytes == 0 .. 255
DoubleBytes == 0 .. 65535
Words == [A : Bytes, X : Bytes, Y : Bytes, S : Bytes, P : Bytes, IR : Bytes, PC : DoubleBytes]

ASSUME PinsAssumption ==
  /\ Chosen \subseteq Models
  /\ Addresses \subseteq DoubleBytes /\ DataValues \subseteq Bytes
  /\ Contents \subseteq Words
  /\ MaxCalls \in Nat

VARIABLES
  model,        \* which class
  drive,        \* node_is_pullup and node_is_pulldown: "up", "down" or "none"
  high,         \* the nodes with node_is_high
  isAecHigh,    \* is_aec_high
  ioports,      \* the bits set in ioports
  iodirs,       \* the bits set in iodirs
  contents,     \* history: what the CPU holds in its registers
  last,         \* history: what the host wrote last to each pin
  settled,      \* history: nothing was written since recalc()
  calls         \* history: calls and cycles so far

pvars == <<model, drive, high, isAecHigh, ioports, iodirs, contents, last, settled, calls>>

pinout == Pinout(model)
pinCount == Len(pinout)
Ports == {"P", "AEC", "none"}      \* no nodes: ids past the last node, or 0
AddressBusIds == Down("AB", 15, 0)
DataBusIds    == Down("DB", 7, 0)
Nodes == {s \in Range(pinout) : s[1] \notin Ports} \cup Range(AddressBusIds) \cup Range(DataBusIds)

(* The nodes of the registers, by their names in enum NODE: A7 there is    *)
(* NODE("A", 7) here.  Their numbers there are all different.              *)
NODE(name, i) == <<"register", name, i>>
RegisterBytes == {"A", "X", "Y", "S", "P", "PCH", "PCL", "NOTIR"}
RegisterNodes == {NODE(name, i) : name \in RegisterBytes, i \in 0 .. 7}
                 \ {NODE("P", 5)}                      \* the chip has no such flag

PulledUp == {Pin("RDY"), Pin("SO"), Pin("CLK1IN")}      \* of these nodes, in mos6502.inc

Init ==
  /\ model \in Chosen
  /\ drive = [s \in Nodes |-> IF s \in PulledUp THEN "up" ELSE "none"]
  /\ high = {s \in Nodes : s[1] = "Vcc"}
  /\ isAecHigh = FALSE /\ ioports = {} /\ iodirs = {}
  /\ contents = [A |-> 0, X |-> 0, Y |-> 0, S |-> 0, P |-> 0, IR |-> 255, PC |-> 0]
  /\ last = [pin \in 1 .. pinCount |-> "none"]
  /\ settled = FALSE /\ calls = 0

Called == calls < MaxCalls /\ calls' = calls + 1
Written == Called /\ settled' = FALSE
Level(value) == IF value THEN "high" ELSE "low"
Bit(value, i) == (value \div 2 ^ i) % 2 = 1

-----------------------------------------------------------------------------
(* class nmos: set_node, get_node, and their loops over several nodes. *)

(* set_node: a node that was never driven is not pulled down. *)
SetNode(flag, value) ==
  CASE value -> "up" [] ~value /\ flag = "up" -> "down" [] OTHER -> flag

(* Bug: the bits are taken in the order of the ids. *)
Bug_WriteNodes(ids, value) ==
  [s \in Nodes |-> IF s \in Range(ids)
                   THEN LET k == CHOOSE k \in DOMAIN ids : ids[k] = s
                        IN SetNode(drive[s], Bit(value, k - 1))
                   ELSE drive[s]]

(* write_nodes: the last id gets the lowest bit. *)
WriteNodes(ids, value) ==
  [s \in Nodes |-> IF s \in Range(ids)
                   THEN LET k == CHOOSE k \in DOMAIN ids : ids[k] = s
                        IN SetNode(drive[s], Bit(value, Len(ids) - k))
                   ELSE drive[s]]

(* get_node: the id 0 is no node, and reads low. *)
GetNode(s) == s \in high

(* read_nodes: the first id is the highest bit. *)
ReadNodes(ids) ==
  LET read[k \in 0 .. Len(ids)] ==
        IF k = 0 THEN 0 ELSE 2 * read[k - 1] + (IF GetNode(ids[k]) THEN 1 ELSE 0)
  IN read[Len(ids)]

-----------------------------------------------------------------------------
(* The host. *)

(* pin_write on a node; an index that is no pin has no effect. *)
PinWrite(pin, value) ==
  /\ Written
  /\ pin \in 1 .. pinCount /\ pinout[pin][1] \notin Ports
  /\ last' = [last EXCEPT ![pin] = Level(value)]
  /\ drive' = [drive EXCEPT ![pinout[pin]] = SetNode(@, value)]
  /\ UNCHANGED <<model, high, isAecHigh, ioports, iodirs, contents>>

(* A pin that is not connected: set_node(0) has no effect. *)
UnconnectedWrite(pin, value) ==
  /\ Written
  /\ pin \in 1 .. pinCount /\ pinout[pin][1] = "none"
  /\ last' = [last EXCEPT ![pin] = Level(value)]
  /\ UNCHANGED <<model, drive, high, isAecHigh, ioports, iodirs, contents>>

AecWrite(pin, value) ==
  /\ Written
  /\ pin \in 1 .. pinCount /\ pinout[pin][1] = "AEC"
  /\ last' = [last EXCEPT ![pin] = Level(value)]
  /\ isAecHigh' = value
  /\ UNCHANGED <<model, drive, high, ioports, iodirs, contents>>

(* Bug: the port is not counted from ioport_id_0. *)
Bug_PortWrite(pin, value) ==
  /\ Written
  /\ pin \in 1 .. pinCount /\ pinout[pin][1] = "P"
  /\ last' = [last EXCEPT ![pin] = Level(value)]
  /\ LET i == pinout[pin][2] + 65520
     IN ioports' = IF i \in iodirs THEN ioports
                   ELSE IF value THEN ioports \cup {i} ELSE ioports \ {i}
  /\ UNCHANGED <<model, drive, high, isAecHigh, iodirs, contents>>

(* A port pin takes the value while its direction bit is clear. *)
PortWrite(pin, value) ==
  /\ Written
  /\ pin \in 1 .. pinCount /\ pinout[pin][1] = "P"
  /\ last' = [last EXCEPT ![pin] = Level(value)]
  /\ LET i == pinout[pin][2]
     IN ioports' = IF i \in iodirs THEN ioports
                   ELSE IF value THEN ioports \cup {i} ELSE ioports \ {i}
  /\ UNCHANGED <<model, drive, high, isAecHigh, iodirs, contents>>

WriteDataBus(value) ==
  /\ Written
  /\ drive' = WriteNodes(DataBusIds, value)
  /\ last' = [pin \in DOMAIN last |->
                IF pinout[pin][1] = "DB" THEN Level(Bit(value, pinout[pin][2])) ELSE last[pin]]
  /\ UNCHANGED <<model, high, isAecHigh, ioports, iodirs, contents>>

(* pin_read with an I/O port: a port pin reads low unless it is an output. *)
IOPinRead(pin) ==
  LET s == pinout[pin]
  IN CASE s[1] = "AEC" -> isAecHigh
       [] s[1] = "P"   -> s[2] \in iodirs /\ s[2] \in ioports
       [] OTHER        -> GetNode(s)

PinRead(pin) ==
  /\ pin \in 1 .. pinCount
  /\ IF model \in With_IO THEN IOPinRead(pin) ELSE GetNode(pinout[pin])

ReadDataBus    == ReadNodes(DataBusIds)

(* Bug: the ids of a narrow bus are taken from the high end. *)
Bug_ReadAddressBus == ReadNodes(SubSeq(AddressBusIds, 1, AddressBusWidth(model)))

ReadAddressBus ==
  LET width == AddressBusWidth(model) IN ReadNodes(SubSeq(AddressBusIds, 17 - width, 16))

(* The nodes each getter reads, the highest bit first; no node, which      *)
(* reads low, is in the place of bit 5 of P.                               *)
AIds ==
  <<NODE("A", 7), NODE("A", 6), NODE("A", 5), NODE("A", 4),
    NODE("A", 3), NODE("A", 2), NODE("A", 1), NODE("A", 0)>>

XIds ==
  <<NODE("X", 7), NODE("X", 6), NODE("X", 5), NODE("X", 4),
    NODE("X", 3), NODE("X", 2), NODE("X", 1), NODE("X", 0)>>

YIds ==
  <<NODE("Y", 7), NODE("Y", 6), NODE("Y", 5), NODE("Y", 4),
    NODE("Y", 3), NODE("Y", 2), NODE("Y", 1), NODE("Y", 0)>>

SIds ==
  <<NODE("S", 7), NODE("S", 6), NODE("S", 5), NODE("S", 4),
    NODE("S", 3), NODE("S", 2), NODE("S", 1), NODE("S", 0)>>

(* Bug: nothing is read for the flag that does not exist. *)
Bug_PIds ==
  <<NODE("P", 7), NODE("P", 6), NODE("P", 4),
    NODE("P", 3), NODE("P", 2), NODE("P", 1), NODE("P", 0)>>

PIds ==
  <<NODE("P", 7), NODE("P", 6), Pin("none"), NODE("P", 4),
    NODE("P", 3), NODE("P", 2), NODE("P", 1), NODE("P", 0)>>

PCHIds ==
  <<NODE("PCH", 7), NODE("PCH", 6), NODE("PCH", 5), NODE("PCH", 4),
    NODE("PCH", 3), NODE("PCH", 2), NODE("PCH", 1), NODE("PCH", 0)>>

PCLIds ==
  <<NODE("PCL", 7), NODE("PCL", 6), NODE("PCL", 5), NODE("PCL", 4),
    NODE("PCL", 3), NODE("PCL", 2), NODE("PCL", 1), NODE("PCL", 0)>>

NOTIRIds ==
  <<NODE("NOTIR", 7), NODE("NOTIR", 6), NODE("NOTIR", 5), NODE("NOTIR", 4),
    NODE("NOTIR", 3), NODE("NOTIR", 2), NODE("NOTIR", 1), NODE("NOTIR", 0)>>

A   == ReadNodes(AIds)
X   == ReadNodes(XIds)
Y   == ReadNodes(YIds)
S   == ReadNodes(SIds)
P   == ReadNodes(PIds)
PCH == ReadNodes(PCHIds)
PCL == ReadNodes(PCLIds)
PC  == 256 * PCH + PCL
IR  == ReadNodes(NOTIRIds)

(* The nodes that are high when the registers of the chip hold these       *)
(* words: what the netlist does at the nodes it names.                     *)
Held(words) ==
  {s \in RegisterNodes :
     LET i == s[3]
     IN CASE s[2] = "A"     -> Bit(words.A, i)
          [] s[2] = "X"     -> Bit(words.X, i)
          [] s[2] = "Y"     -> Bit(words.Y, i)
          [] s[2] = "S"     -> Bit(words.S, i)
          [] s[2] = "P"     -> Bit(words.P, i)
          [] s[2] = "PCH"   -> Bit(words.PC, i + 8)
          [] s[2] = "PCL"   -> Bit(words.PC, i)
          [] s[2] = "NOTIR" -> ~Bit(words.IR, i)}

(* recalc(): the CPU puts out an address, and a byte if it writes; on a    *)
(* read the data bus follows the host, and a bit nobody ever drove stays;  *)
(* the two supplies are never in a group, and keep their levels.           *)
Recalc(address, reading, value, words) ==
  /\ Called /\ settled' = TRUE
  /\ contents' = words
  /\ high' = Held(words) \cup
       {s \in Nodes :
          CASE s[1] = "Vcc" -> TRUE
            [] s[1] = "Vss" -> FALSE
            [] s[1] = "AB" -> Bit(address, s[2])
            [] s[1] = "RW" -> reading
            [] s[1] = "DB" /\ ~reading -> Bit(value, s[2])
            [] OTHER -> drive[s] = "up" \/ (drive[s] = "none" /\ s \in high)}
  /\ UNCHANGED <<model, drive, isAecHigh, ioports, iodirs, last>>

Next ==
  \/ \E pin \in 0 .. 41, value \in BOOLEAN :
       \/ PinWrite(pin, value) \/ UnconnectedWrite(pin, value)
       \/ AecWrite(pin, value) \/ PortWrite(pin, value)
  \/ \E value \in DataValues : WriteDataBus(value)
  \/ \E address \in Addresses, reading \in BOOLEAN, value \in DataValues, words \in Contents :
       Recalc(address, reading, value, words)

Spec == Init /\ [][Next]_pvars

-----------------------------------------------------------------------------
TypeOK ==
  /\ model \in Chosen
  /\ drive \in [Nodes -> {"up", "down", "none"}]
  /\ high \subseteq Nodes \cup RegisterNodes
  /\ contents \in Words
  /\ isAecHigh \in BOOLEAN /\ ioports \subseteq 0 .. 7 /\ iodirs \subseteq 0 .. 7
  /\ last \in [1 .. pinCount -> {"high", "low", "none"}]
  /\ settled \in BOOLEAN /\ calls \in 0 .. MaxCalls

(* Whatever the host writes, and in whatever order, the signal that the    *)
(* header puts on a pin is the one that what was written last to that pin  *)
(* drives: the two tables agree, and no write disturbs another pin.        *)
PinsHold ==
  LET enum == EnumPin(model)
  IN \A s \in DOMAIN enum :
       LET written == last[enum[s]]
           isHigh  == CASE s[1] = "P" -> s[2] \in ioports
                        [] s[1] = "AEC" -> isAecHigh
                        [] OTHER -> s \in Nodes /\ drive[s] = "up"
       IN written # "none" => (isHigh <=> written = "high")

(* The value of a bus, told from the pins the header gives it. *)
PinsValue(name, width) ==
  LET value[i \in 0 .. width] ==
        IF i = 0 THEN 0
        ELSE value[i - 1] + (IF PinRead(EnumPin(model)[<<name, i - 1>>]) THEN 2 ^ (i - 1) ELSE 0)
  IN value[width]

(* The buses read as the pins do, as far as address_bus_width() goes: the  *)
(* highest address pin of the 6503, 6504 and 6505 is beyond it.            *)
BusesArePins ==
  /\ ReadDataBus = PinsValue("DB", 8)
  /\ ReadAddressBus = PinsValue("AB", AddressBusWidth(model))

(* What the trace prints of the registers (machine_6502.cc:22-26) is what  *)
(* the CPU holds, whatever its host does to the pins: no two getters share *)
(* a node, the status has every flag the chip has in its place, the halves *)
(* of PC are in order, and the instruction register is stored inverted.    *)
RegistersRead ==
  /\ A = contents.A /\ X = contents.X /\ Y = contents.Y /\ S = contents.S
  /\ \A i \in 0 .. 7 : Bit(P, i) <=> i # 5 /\ Bit(contents.P, i)
  /\ PC = contents.PC
  /\ 255 - IR = contents.IR

(* On a read cycle the CPU finds on the data bus what the host has written *)
(* there: the trace shows the byte from memory as the one that is read     *)
(* (machine_6502.cc:30-33).                                                *)
ReadsWhatHostWrote ==
  settled /\ PinRead(EnumPin(model)[Pin("RW")]) =>
    \A i \in 0 .. 7 :
      LET pin == EnumPin(model)[<<"DB", i>>]
      IN last[pin] # "none" => (PinRead(pin) <=> last[pin] = "high")
=============================================================================
