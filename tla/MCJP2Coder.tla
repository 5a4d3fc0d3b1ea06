----------------------------- MODULE MCJP2Coder -----------------------------
(* Small instances of JP2Coder for TLC.                                    *)
EXTENDS JP2Coder, TLC
=============================================================================
