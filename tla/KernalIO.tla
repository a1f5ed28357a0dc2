------------------------------ MODULE KernalIO ------------------------------
(***************************************************************************)
(* How the 6502 code of cbm_tiny_kernel.s and the host (commodore.cc) talk *)
(* through three registers in the memory of the machine: SEL says what is  *)
(* asked of the host, IO carries a character, ACK says that the 6502 has   *)
(* taken it.                                                               *)
(*                                                                         *)
(* machine_6502::run lets the CPU do one cycle, in which it may read or    *)
(* write one byte, and then the host look at the registers; turn says who  *)
(* is next.  Only the cycles that touch a register are told apart: gap     *)
(* counts the other cycles to go before the next of them.                  *)
(***************************************************************************)
EXTENDS Integers, Sequences, Characters

CONSTANTS
  Inputs,      \* the inputs the run may be given
  MaxGap,      \* most cycles between two that touch a register
  MaxCalls     \* most calls the program makes (bounds the output)

ASSUME KernalAssumption ==
  /\ Inputs \subseteq Seq(Chars)
  /\ MaxGap \in Nat \ {0} /\ MaxCalls \in Nat

VARIABLES
  sel,         \* the register SEL
  io,          \* the register IO
  ack,         \* the register ACK
  lastChar,    \* LAST_CHAR, a variable of the kernal
  acc,         \* A, the accumulator
  operand,     \* what inc ACK has read
  pc,          \* the register access the CPU does next
  gap,         \* the cycles before it
  turn,        \* who runs next
  input,       \* what is left of the input
  eof,         \* feof(input)
  output,      \* what the host has written
  calls        \* calls the program has made

registers == <<sel, io, ack>>
files     == <<input, eof, output>>
vars      == <<registers, lastChar, acc, operand, pc, gap, turn, files, calls>>

Selects == {"none", "CHRIN", "CHROUT", "NOT_IMPL"}
Labels  == {"app", "not_implemented", "chrin", "io_loop", "ack_read", "ack_old", "ack_new",
            "return", "chrout", "write", "written"}

Init ==
  /\ sel = "none" /\ io = "NUL" /\ ack = 0
  /\ lastChar = "NUL" /\ acc = "NUL" /\ operand = 0
  /\ pc = "app" /\ gap = 0 /\ turn = "cpu"
  /\ input \in Inputs /\ eof = FALSE /\ output = <<>>
  /\ calls = 0

-----------------------------------------------------------------------------
(* The CPU. *)

(* The loop of run() goes on until feof(input). *)
Cycle(label) == turn = "cpu" /\ ~eof /\ pc = label /\ gap = 0

(* The access is done; the host looks, and fetching the next instruction   *)
(* takes at least a cycle.                                                 *)
Goto(label) == turn' = "host" /\ pc' = label /\ gap' \in 1 .. MaxGap

(* The access is done, and the same instruction does another one. *)
Follow(label) == turn' = "host" /\ pc' = label /\ gap' = 0

(* rts *)
Return == turn' = "host" /\ pc' = "app" /\ gap' = 0

OtherCycle ==
  /\ turn = "cpu" /\ ~eof /\ gap > 0
  /\ gap' = gap - 1
  /\ turn' = "host"
  /\ UNCHANGED <<registers, lastChar, acc, operand, pc, files, calls>>

(* The program (BASIC) runs code of its own, or calls the kernal. *)
AppCycle ==
  /\ Cycle("app")
  /\ Return
  /\ UNCHANGED <<registers, lastChar, acc, operand, files, calls>>

Call(label) ==
  /\ Cycle("app") /\ calls < MaxCalls
  /\ calls' = calls + 1
  /\ Goto(label)
  /\ UNCHANGED <<registers, lastChar, operand, files>>

CallChrin          == Call("chrin") /\ UNCHANGED acc
CallNotImplemented == Call("not_implemented") /\ UNCHANGED acc
CallChrout(c)      == Call("chrout") /\ acc' = c

NotImplemented ==
  /\ Cycle("not_implemented")
  /\ sel' = "NOT_IMPL"
  /\ Return
  /\ UNCHANGED <<io, ack, lastChar, acc, operand, files, calls>>

(* chrin: sta SEL *)
ChrinSelect ==
  /\ Cycle("chrin")
  /\ sel' = "CHRIN"
  /\ Goto("io_loop")
  /\ UNCHANGED <<io, ack, lastChar, acc, operand, files, calls>>

(* Bug: the loop goes on while there is a character. *)
Bug_ChrinPoll ==
  /\ Cycle("io_loop")
  /\ acc' = io
  /\ Goto(IF io # "NUL" THEN "io_loop" ELSE "ack_read")
  /\ UNCHANGED <<registers, lastChar, operand, files, calls>>

(* io_loop: lda IO, beq io_loop *)
ChrinPoll ==
  /\ Cycle("io_loop")
  /\ acc' = io
  /\ Goto(IF io = "NUL" THEN "io_loop" ELSE "ack_read")
  /\ UNCHANGED <<registers, lastChar, operand, files, calls>>

(* inc ACK reads the register, writes the old value back, and then the new. *)
AckRead ==
  /\ Cycle("ack_read")
  /\ operand' = ack
  /\ Follow("ack_old")
  /\ UNCHANGED <<registers, lastChar, acc, files, calls>>

AckOld ==
  /\ Cycle("ack_old")
  /\ ack' = operand
  /\ Follow("ack_new")
  /\ UNCHANGED <<sel, io, lastChar, acc, operand, files, calls>>

AckNew ==
  /\ Cycle("ack_new")
  /\ ack' = (operand + 1) % 256
  /\ Goto("return")
  /\ UNCHANGED <<sel, io, lastChar, acc, operand, files, calls>>

(* lookup, translate, and return: sta LAST_CHAR *)
ChrinReturn ==
  /\ Cycle("return")
  /\ acc' = FromASCII(acc)
  /\ lastChar' = FromASCII(acc)
  /\ Return
  /\ UNCHANGED <<registers, operand, files, calls>>

(* chrout: a CR after chrin has returned one is dropped ... *)
ChroutDrop ==
  /\ Cycle("chrout") /\ acc = "CR" /\ lastChar = "CR"
  /\ lastChar' = "NUL"
  /\ Return
  /\ UNCHANGED <<registers, acc, operand, files, calls>>

(* ... otherwise start: stx SEL *)
ChroutSelect ==
  /\ Cycle("chrout") /\ ~(acc = "CR" /\ lastChar = "CR")
  /\ sel' = "CHROUT"
  /\ Goto("write")
  /\ UNCHANGED <<io, ack, lastChar, acc, operand, files, calls>>

(* lookup, translate, and write: sta IO *)
ChroutWrite ==
  /\ Cycle("write")
  /\ io' = ToASCII(acc)
  /\ Goto("written")
  /\ UNCHANGED <<sel, ack, lastChar, acc, operand, files, calls>>

ChroutReturn ==
  /\ Cycle("written")
  /\ Return
  /\ UNCHANGED <<registers, lastChar, acc, operand, files, calls>>

-----------------------------------------------------------------------------
(* The host: on_CPU_cycle, which looks at SEL. *)

Host(selected) ==
  /\ turn = "host" /\ sel = selected
  /\ turn' = "cpu"
  /\ UNCHANGED <<lastChar, acc, operand, pc, gap, calls>>

ClearAll == sel' = "none" /\ io' = "NUL" /\ ack' = 0

(* handle_chrin *)
HostFetch ==
  /\ Host("CHRIN") /\ io = "NUL" /\ input # <<>>
  /\ io' = Head(input)
  /\ input' = Tail(input)
  /\ UNCHANGED <<sel, ack, eof, output>>

(* Bug: the EOF that fgetc returns is stored as a character. *)
Bug_HostEndOfFile ==
  /\ Host("CHRIN") /\ io = "NUL" /\ input = <<>>
  /\ eof' = TRUE
  /\ io' = "EOF"
  /\ UNCHANGED <<sel, ack, input, output>>

HostEndOfFile ==
  /\ Host("CHRIN") /\ io = "NUL" /\ input = <<>>
  /\ eof' = TRUE
  /\ UNCHANGED <<registers, input, output>>

HostAwaitAck ==
  /\ Host("CHRIN") /\ io # "NUL" /\ ack = 0
  /\ UNCHANGED <<registers, files>>

(* Bug: the character is left in IO. *)
Bug_HostAcked ==
  /\ Host("CHRIN") /\ io # "NUL" /\ ack # 0
  /\ sel' = "none" /\ ack' = 0
  /\ UNCHANGED <<io, files>>

HostAcked ==
  /\ Host("CHRIN") /\ io # "NUL" /\ ack # 0
  /\ ClearAll
  /\ UNCHANGED files

(* Bug: handle_chrout says that nothing is to be cleared. *)
Bug_HostPrintAgain ==
  /\ Host("CHROUT") /\ io # "NUL"
  /\ output' = Append(output, io)
  /\ UNCHANGED <<registers, input, eof>>

(* Bug: only SEL is cleared. *)
Bug_HostPrintLeaves ==
  /\ Host("CHROUT") /\ io # "NUL"
  /\ output' = Append(output, io)
  /\ sel' = "none"
  /\ UNCHANGED <<io, ack, input, eof>>

(* handle_chrout *)
HostPrint ==
  /\ Host("CHROUT") /\ io # "NUL"
  /\ output' = Append(output, io)
  /\ ClearAll
  /\ UNCHANGED <<input, eof>>

HostAwaitChar ==
  /\ Host("CHROUT") /\ io = "NUL"
  /\ UNCHANGED <<registers, files>>

HostNotImplemented ==
  /\ Host("NOT_IMPL")
  /\ ClearAll
  /\ UNCHANGED files

HostIdle ==
  /\ Host("none")
  /\ UNCHANGED <<registers, files>>

-----------------------------------------------------------------------------
Program ==
  AppCycle \/ CallChrin \/ CallNotImplemented \/ \E c \in Chars : CallChrout(c)

Kernal ==
  \/ OtherCycle \/ NotImplemented
  \/ ChrinSelect \/ ChrinPoll \/ AckRead \/ AckOld \/ AckNew \/ ChrinReturn
  \/ ChroutDrop \/ ChroutSelect \/ ChroutWrite \/ ChroutReturn

OnCPUCycle ==
  \/ HostFetch \/ HostEndOfFile \/ HostAwaitAck \/ HostAcked
  \/ HostPrint \/ HostAwaitChar \/ HostNotImplemented \/ HostIdle

Next == Program \/ Kernal \/ OnCPUCycle

Spec == Init /\ [][Next]_vars

(* run() is a loop of one thread: the next cycle, of the kernal or of the  *)
(* host, always comes.  Nothing is assumed of the program.                 *)
FairSpec == Spec /\ WF_vars(Kernal \/ OnCPUCycle)

-----------------------------------------------------------------------------
TypeOK ==
  /\ sel \in Selects /\ io \in Chars /\ ack \in 0 .. 255
  /\ lastChar \in Chars /\ acc \in Chars /\ operand \in 0 .. 255
  /\ pc \in Labels /\ gap \in 0 .. MaxGap /\ turn \in {"cpu", "host"}
  /\ input \in Seq(Chars) /\ eof \in BOOLEAN /\ output \in Seq(Chars)
  /\ calls \in 0 .. MaxCalls

(* What the host is about to print is the character chrout has just stored *)
(* ("Write byte to default output", cbm_tiny_kernel.s:88), not something   *)
(* that was in IO when chrout set SEL.                                     *)
PrintsWhatWasWritten ==
  turn = "host" /\ sel = "CHROUT" /\ io # "NUL" =>
    pc = "written" /\ io = ToASCII(acc)

(* A call leaves the handshake where the next one needs it: between two    *)
(* calls IO and ACK are clear, and the host is not left reading input.     *)
AtRest ==
  pc = "app" /\ turn = "cpu" => io = "NUL" /\ ack = 0 /\ sel \in {"none", "CHROUT"}

(* Why both hold: what the registers are at every access of the kernal.    *)
Cleared == io = "NUL" /\ ack = 0

Handshake ==
  /\ turn = "host" => ~eof
  /\ pc = "app" => /\ Cleared
                   /\ sel \in {"none", "CHROUT"} \/ (sel = "NOT_IMPL" /\ turn = "host")
  /\ pc \in {"not_implemented", "chrin", "chrout"} => Cleared /\ sel \in {"none", "CHROUT"}
  /\ pc = "io_loop" => sel = "CHRIN" /\ ack = 0
  /\ pc \in {"ack_read", "ack_old", "ack_new"} =>
       sel = "CHRIN" /\ ack = 0 /\ io = acc /\ io # "NUL"
  /\ pc \in {"ack_old", "ack_new"} => operand = 0
  /\ pc = "return" => /\ acc # "NUL"
                      /\ \/ sel = "none" /\ Cleared
                         \/ sel = "CHRIN" /\ io # "NUL" /\ ack = 1 /\ turn = "host"
  /\ pc = "write" => sel = "CHROUT" /\ Cleared
  /\ pc \in {"write", "written"} => ~(acc = "CR" /\ lastChar = "CR")
  /\ pc = "written" => \/ Cleared /\ sel \in {"none", "CHROUT"}
                       \/ sel = "CHROUT" /\ ack = 0 /\ turn = "host" /\ io = ToASCII(acc)

(* What is in progress, as Terminal sees it. *)
CallInProgress ==
  CASE pc \in {"chrin", "io_loop"} ->
         IF io = "NUL" THEN <<"chrin", "NUL">> ELSE <<"taken", FromASCII(io)>>
    [] pc \in {"ack_read", "ack_old", "ack_new", "return"} -> <<"taken", FromASCII(acc)>>
    [] pc \in {"chrout", "write"} -> <<"chrout", acc>>
    [] pc = "written" -> IF turn = "host" /\ sel = "CHROUT" /\ io # "NUL"
                         THEN <<"chrout", acc>> ELSE <<"put", acc>>
    [] OTHER -> <<"none", "NUL">>

T == INSTANCE Terminal WITH call <- CallInProgress, last <- lastChar

(* However the cycles of the CPU and the looks of the host fall, the two   *)
(* together are a terminal: every character is read once, in order, and    *)
(* every character printed is written once, before chrout returns.         *)
ImplementsTerminal == T!TSpec

(* A call returns, unless it asks for a character when there is none: then *)
(* the run ends.                                                           *)
CallsReturn == pc # "app" ~> (pc = "app" \/ eof)
=============================================================================
