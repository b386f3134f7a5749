----------------------------- MODULE MCRamLoad -----------------------------
(***************************************************************************)
(* RamLoad with banks of two bytes and eight values in a byte: sizes that  *)
(* are and are not whole banks, too many banks, and too many for a byte.   *)
(***************************************************************************)
EXTENDS RamLoad

AnySize == 0 .. 20

=============================================================================
