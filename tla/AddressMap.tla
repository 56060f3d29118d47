----------------------------- MODULE AddressMap -----------------------------
(***************************************************************************)
(* What replaces an address in a sanitized capture: PrefixPreservingMap    *)
(* and AddressMapper (backend/anonymize.py).                               *)
(*                                                                         *)
(* An address is its bits, most significant first.  AES under the          *)
(* capture's key is any function from blocks to the top bit of the result, *)
(* and the pad any block: what holds of all of them needs no secrecy.  MAC *)
(* addresses and names are keyed hashes and are left out.                  *)
(***************************************************************************)
EXTENDS Naturals, FiniteSets

CONSTANTS
    Bits,       \* bits of an address: 32, and 128 of IPv6
    Kept,       \* addresses that stay as they are whatever is ticked
    Private,    \* addresses that stay when keep_private is ticked
    CacheLimit  \* CACHE_LIMIT

Positions == 1..Bits
Addresses == [Positions -> BOOLEAN]
Keys == [Addresses -> BOOLEAN]

(* What is encrypted for bit i: the address's bits before it, then the     *)
(* pad's.                                                                  *)
Block(pad, address, i) == [p \in Positions |-> IF p < i THEN address[p] ELSE pad[p]]

(* PrefixPreservingMap.map: the top bit of each block is XORed in. *)
Map(key, pad, address) == [i \in Positions |-> address[i] # key[Block(pad, address, i)]]

(* _map_ipv4, and _map_ipv6 of an address that is not an IPv4 one. *)
Exempt(keepPrivate) == Kept \union (IF keepPrivate THEN Private ELSE {})
StandIn(key, pad, keepPrivate, address) ==
    IF address \in Exempt(keepPrivate) THEN address ELSE Map(key, pad, address)

(* _remember, and the lookup before it: a cache is a function from the     *)
(* addresses it knows.                                                     *)
Remember(cache, address, standIn) ==
    IF Cardinality(DOMAIN cache) < CacheLimit
      THEN [a \in DOMAIN cache \union {address} |-> IF a = address THEN standIn ELSE cache[a]]
      ELSE cache
Lookup(cache, key, pad, keepPrivate, address) ==
    IF address \in DOMAIN cache THEN cache[address] ELSE StandIn(key, pad, keepPrivate, address)

----------------------------------------------------------------------------
(* Properties. *)

SharePrefix(a, b, n) == \A i \in 1..n : a[i] = b[i]

(* Two addresses share their first n bits exactly when their images do:    *)
(* subnets stay subnets, and two networks are never merged.                *)
PrefixesKept(key, pad) ==
    \A a, b \in Addresses, n \in 0..Bits :
        SharePrefix(a, b, n) <=> SharePrefix(Map(key, pad, a), Map(key, pad, b), n)

(* Two addresses that are replaced never get one stand-in. *)
StandInsDiffer(key, pad, keepPrivate) ==
    \A a, b \in Addresses \ Exempt(keepPrivate) :
        a # b => StandIn(key, pad, keepPrivate, a) # StandIn(key, pad, keepPrivate, b)

(* A cache that holds stand-ins only. *)
Faithful(cache, key, pad, keepPrivate) ==
    \A a \in DOMAIN cache : cache[a] = StandIn(key, pad, keepPrivate, a)
=============================================================================
