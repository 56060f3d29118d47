--------------------------- MODULE MC_TlsMaterial ---------------------------
(* Small instances of TlsMaterial for TLC.                                 *)
EXTENDS TlsMaterial
=============================================================================
