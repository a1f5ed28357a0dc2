--------------------------- MODULE MCMachine6502 ---------------------------
(***************************************************************************)
(* Two callers, both machines, and the addresses where one range ends and  *)
(* the next begins, for TLC.  The CPU writes a byte of its own to RAM, to  *)
(* ROM and where there is nothing, and what the kernal would to SEL, IO    *)
(* and ACK.                                                                *)
(***************************************************************************)
EXTENDS Machine6502, TLC

ToRegisters ==
  ({64768} \X (0 .. 3)) \cup ({64769} \X {0, 1}) \cup ({64770} \X {0, 1})

CallersAlike == Permutations(Callers)

SomeAddresses ==
     "C64"   :> {40959, 40960, 58550, 58551, 64768, 64769, 64770, 65023, 65024, 65535}
  @@ "VIC20" :> {5119, 5120, 49152, 58623, 58624, 64767, 64768, 64769, 64770, 65535}

SomeStores ==
     "C64"   :> ToRegisters \cup ({40959, 40960, 58551, 65023, 65535} \X {1})
  @@ "VIC20" :> ToRegisters \cup ({5119, 5120, 58623, 64767, 65535} \X {1})
=============================================================================
