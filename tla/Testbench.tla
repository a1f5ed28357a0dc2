----------------------------- MODULE Testbench -----------------------------
(***************************************************************************)
(* The testbench as a whole: the process picks a machine from its          *)
(* arguments and runs it, the kernal's code and the host take turns in it  *)
(* until the input ends, and the process goes on to its end.               *)
(***************************************************************************)
EXTENDS CommandLine, KernalCode

(* Which machine the registered constructors make. *)
Creates(name) == IF name = "Commodore64" THEN "C64" ELSE "VIC20"

Init == LInit /\ KInit

Start == Run /\ PowerOn(Creates(chosen))

RunCycles == at = "run" /\ Runs /\ UNCHANGED lvars

(* Bug: run returns after any look of the host. *)
Bug_End == RunReturns /\ turn = "cpu" /\ UNCHANGED kvars

(* The loop of run asks for feof after the host has looked. *)
End == RunReturns /\ turn = "cpu" /\ eof /\ UNCHANGED kvars

Next ==
  \/ (ProcessArguments \/ BeforeAndAfter) /\ UNCHANGED kvars
  \/ Start \/ RunCycles \/ End

Spec == Init /\ [][Next]_<<lvars, kvars>>

(* A machine that was asked for, and no other, runs until its input ends.  *)
RunsToTheEnd ==
  at \in {"exit", "done"} /\ asked.machine # "none" => eof /\ machine = Creates(asked.machine)
=============================================================================
