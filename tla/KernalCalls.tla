---------------------------- MODULE KernalCalls ----------------------------
(***************************************************************************)
(* What the calls of the kernal promise BASIC: each changes the registers  *)
(* of the CPU and the work area at once, when it returns, and only as      *)
(* said here.  Of the flags the carry, the zero and the decimal flag are   *)
(* looked at.                                                              *)
(***************************************************************************)
EXTENDS Integers

CONSTANTS
  Bytes,             \* the bytes the input may hold
  FromASCII(_),      \* the translations of characters
  ToASCII(_),
  CR

VARIABLES
  given,     \* what the machine is made with: the work area, the screen and BASIC's entry
  cpu,       \* the registers of the CPU at the last call or return
  area,      \* the work area: top and bottom, each a pair of its low and its high byte
  last,      \* the last character chrin returned, if no CR was dropped since
  call,      \* the call in progress
  taken,     \* the byte taken off the input in this call, or 0
  printed    \* what was printed in this call

cvars == <<given, cpu, area, last, call, taken, printed>>

CInit == call = "off"

PowerOn ==
  /\ call = "off"
  /\ call' = "reset" /\ taken' = 0 /\ printed' = <<>>

Begin(name) ==
  /\ call = "none"
  /\ call' = name /\ taken' = 0 /\ printed' = <<>>
  /\ UNCHANGED <<given, area, last>>

Take ==
  /\ call = "chrin" /\ taken = 0
  /\ taken' \in Bytes
  /\ UNCHANGED <<given, cpu, area, last, call, printed>>

Dropped == cpu.a = CR /\ last = CR

Put ==
  /\ call = "chrout" /\ printed = <<>> /\ cpu.a # 0 /\ ~Dropped
  /\ printed' = <<ToASCII(cpu.a)>>
  /\ UNCHANGED <<given, cpu, area, last, call, taken>>

-----------------------------------------------------------------------------
Returns(name) ==
  /\ call = name /\ call' = "none"
  /\ UNCHANGED <<given, taken, printed>>

(* The other registers and flags keep their values, but for the zero flag. *)
Gives(registers) ==
  \E z \in SUBSET {"Z"} : cpu' = [registers EXCEPT !.p = (@ \ {"Z"}) \cup z]

Success == cpu.p \ {"C"}

(* BASIC starts without decimal mode, with room on the stack, and with the *)
(* work area of the machine.                                               *)
Reset ==
  /\ Returns("reset")
  /\ "D" \notin cpu'.p /\ cpu'.s # 0
  /\ area' = [top |-> given.top, bottom |-> given.bottom]
  /\ UNCHANGED last

Chrin ==
  /\ Returns("chrin") /\ taken # 0
  /\ Gives([cpu EXCEPT !.a = FromASCII(taken), !.p = Success])
  /\ last' = FromASCII(taken)
  /\ UNCHANGED area

Chrout ==
  /\ Returns("chrout")
  /\ printed # <<>> \/ cpu.a = 0 \/ Dropped
  /\ Gives([cpu EXCEPT !.p = Success])
  /\ last' = IF Dropped THEN 0 ELSE last
  /\ UNCHANGED area

Screenxy ==
  /\ Returns("screenxy")
  /\ Gives([cpu EXCEPT !.x = given.screen[1], !.y = given.screen[2]])
  /\ UNCHANGED <<area, last>>

(* memtop and membot: with the carry set the end is told, otherwise set. *)
Tell(name, end) ==
  /\ Returns(name) /\ "C" \in cpu.p
  /\ Gives([cpu EXCEPT !.x = area[end][1], !.y = area[end][2]])
  /\ UNCHANGED <<area, last>>

Set(name, end) ==
  /\ Returns(name) /\ "C" \notin cpu.p
  /\ Gives(cpu)
  /\ area' = [area EXCEPT ![end] = <<cpu.x, cpu.y>>]
  /\ UNCHANGED last

(* Nothing at all is changed, the zero flag neither. *)
Nothing(name) == Returns(name) /\ UNCHANGED <<cpu, area, last>>

CNext ==
  \/ PowerOn
  \/ \E name \in {"chrin", "chrout", "screenxy", "memtop", "membot",
                  "not_implemented", "IRQ_service_routine"} : Begin(name)
  \/ Take \/ Put
  \/ Reset \/ Chrin \/ Chrout \/ Screenxy
  \/ \E end \in {<<"memtop", "top">>, <<"membot", "bottom">>} :
       Tell(end[1], end[2]) \/ Set(end[1], end[2])
  \/ Nothing("not_implemented") \/ Nothing("IRQ_service_routine")

CSpec == CInit /\ [][CNext]_cvars
=============================================================================
