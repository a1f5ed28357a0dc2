------------------------------ MODULE Terminal ------------------------------
(***************************************************************************)
(* What the kernal promises a program: chrin and chrout as calls with one  *)
(* effect each, taken between the call and the return.                     *)
(*                                                                         *)
(* chrin takes characters off the input until one is not NUL, and returns  *)
(* it translated.  chrout puts its character on the output, translated,    *)
(* but drops NUL, and drops one CR after chrin has returned CR.            *)
(***************************************************************************)
EXTENDS Sequences, Characters

CONSTANT Inputs      \* the inputs the run may be given

VARIABLES
  input,     \* what is left of the input
  eof,       \* a read has found the end of the input
  output,    \* what has been written
  call,      \* the call in progress: <<name, character>>
  last       \* the last character chrin returned, if no CR was dropped since

tvars == <<input, eof, output, call, last>>

NoCall == <<"none", "NUL">>

TInit ==
  /\ input \in Inputs
  /\ eof = FALSE
  /\ output = <<>>
  /\ call = NoCall
  /\ last = "NUL"

Chrin ==
  /\ call = NoCall
  /\ call' = <<"chrin", "NUL">>
  /\ UNCHANGED <<input, eof, output, last>>

Take ==
  /\ call[1] = "chrin" /\ input # <<>>
  /\ input' = Tail(input)
  /\ call' = IF Head(input) = "NUL" THEN call ELSE <<"taken", FromASCII(Head(input))>>
  /\ UNCHANGED <<eof, output, last>>

End ==
  /\ call[1] = "chrin" /\ input = <<>>
  /\ eof' = TRUE
  /\ UNCHANGED <<input, output, call, last>>

ReturnTaken ==
  /\ call[1] = "taken"
  /\ call' = NoCall
  /\ last' = call[2]
  /\ UNCHANGED <<input, eof, output>>

Chrout(c) ==
  /\ call = NoCall
  /\ call' = <<"chrout", c>>
  /\ UNCHANGED <<input, eof, output, last>>

Put ==
  /\ call[1] = "chrout" /\ ~(call[2] = "CR" /\ last = "CR")
  /\ output' = IF call[2] = "NUL" THEN output ELSE Append(output, ToASCII(call[2]))
  /\ call' = <<"put", call[2]>>
  /\ UNCHANGED <<input, eof, last>>

ReturnPut ==
  /\ call[1] = "put"
  /\ call' = NoCall
  /\ UNCHANGED <<input, eof, output, last>>

Drop ==
  /\ call = <<"chrout", "CR">> /\ last = "CR"
  /\ call' = NoCall
  /\ last' = "NUL"
  /\ UNCHANGED <<input, eof, output>>

TNext ==
  /\ ~eof
  /\ \/ Chrin \/ Take \/ End \/ ReturnTaken
     \/ \E c \in Chars : Chrout(c)
     \/ Put \/ ReturnPut \/ Drop

TSpec == TInit /\ [][TNext]_tvars
=============================================================================
