----------------------------- MODULE MC_CopyScan -----------------------------
(* A small instance of CopyScan for TLC: a packet of a and b, what NAT     *)
(* makes of it, one of other hosts with the same numbers, and a packet     *)
(* whose numbers say nothing.                                              *)
EXTENDS CopyScan, TLC

CONSTANTS a, b, c, d, tcp, anon, k

Packet(src, dst, body) == [src |-> src, dst |-> dst, body |-> body]
AFewPackets == {Packet(a, b, tcp), Packet(c, b, tcp), Packet(c, d, tcp),
                Packet(a, b, anon)}
Keys == (tcp :> k) @@ (anon :> NoKey)
Symmetry == Permutations(Links)
=============================================================================
