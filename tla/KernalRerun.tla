---------------------------- MODULE KernalRerun ----------------------------
(***************************************************************************)
(* machine::run may be called again on the same machine.  The registers    *)
(* and LAST_CHAR are memory, which neither initialize_CPU nor the reset    *)
(* routine of the kernal touches.                                          *)
(***************************************************************************)
EXTENDS KernalIO

Rerun ==
  /\ turn = "cpu" /\ eof
  /\ input' \in Inputs /\ eof' = FALSE
  /\ pc' = "app" /\ gap' = 0
  /\ UNCHANGED <<registers, lastChar, acc, operand, turn, output, calls>>

RerunSpec == Init /\ [][Next \/ Rerun]_vars

OneInput == {<<"a">>}
=============================================================================
