----------------------------- MODULE Characters -----------------------------
(***************************************************************************)
(* The characters the kernal treats specially, one that it does not, and   *)
(* its two translations (cbm_tiny_kernel.s, control_chars).                *)
(***************************************************************************)
Chars == {"NUL", "NL", "FF", "CR", "CLR", "a"}

(* What chrin returns for a byte of the input. *)
FromASCII(c) == CASE c = "NL" -> "CR" [] c = "FF" -> "CLR" [] OTHER -> c

(* What chrout writes for a character of the program. *)
ToASCII(c) == CASE c = "CR" -> "NL" [] c = "CLR" -> "FF" [] OTHER -> c
=============================================================================
