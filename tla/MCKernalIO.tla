----------------------------- MODULE MCKernalIO -----------------------------
(***************************************************************************)
(* Short inputs for TLC.  A raw CR in the input is passed on as it is.     *)
(***************************************************************************)
EXTENDS KernalIO

ShortInputs == UNION {[1 .. n -> {"NUL", "NL", "CR", "a"}] : n \in 0 .. 2}
=============================================================================
