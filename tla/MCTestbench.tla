---------------------------- MODULE MCTestbench ----------------------------
(***************************************************************************)
(* Every argument list of up to three words, and calls of the kernal with  *)
(* characters it translates, drops, prints as they are and ignores, from   *)
(* two places on the stack, for TLC.                                       *)
(***************************************************************************)
EXTENDS Testbench

Args(a, x, s, p) == [a |-> a, x |-> x, y |-> 9, s |-> s, p |-> p]

SomeArguments ==
  {Args(65, 7, 251, {}), Args(13, 8, 1, {"C", "Z"}), Args(147, 7, 251, {"C"}), Args(0, 8, 251, {})}

SomeWords == {"-h", "-t", "-s", "Commodore64", "CommodoreVIC20", "file", "", "unwritable"}
=============================================================================
