-------------------------- MODULE MC_SanitizedCopy --------------------------
(* Small instances of SanitizedCopy for TLC, and of the address map it      *)
(* uses: three-bit addresses, every pad and a key per pair of parities.     *)
EXTENDS SanitizedCopy

Bit3 == [1..3 -> BOOLEAN]
AM == INSTANCE AddressMap
        WITH Bits <- 3, Kept <- {a \in Bit3 : \A i \in 1..3 : ~a[i]}, Private <- {}, CacheLimit <- 2

(* Keys that mix the bits of a block in different ways. *)
SomeKeys == {[b \in Bit3 |-> b[i] # b[j]] : i, j \in 1..3} \union {[b \in Bit3 |-> b[i] /\ b[j]] : i, j \in 1..3}

ASSUME AddressesChecked ==
    \A key \in SomeKeys, pad \in Bit3 :
        AM!PrefixesKept(key, pad) /\ AM!StandInsDiffer(key, pad, FALSE)
=============================================================================
