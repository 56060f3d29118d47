--------------------------- MODULE Packets_proofs ---------------------------
(***************************************************************************)
(* What holds of every packet, whatever its headers say and whatever is    *)
(* asked of it: of what replaces an address (AddressMap), of what the      *)
(* walker reports of a frame and what is left of its checksums once it is  *)
(* rewritten (FrameWalk), and of what a filter expression is said to match *)
(* (PortFilter, FilterCheck).  First, recursion.                           *)
(***************************************************************************)
EXTENDS AddressMap, FrameWalk, FilterCheck,
        SequenceTheorems, FiniteSetTheorems, WellFoundedInduction, TLAPS

-----------------------------------------------------------------------------
(* Recursion.  A recursive function is the CHOICE of a solution of its     *)
(* equation; that there is one, and what holds of its values, is shown by  *)
(* a rank that its calls descend.                                          *)

(* Of numbers that there are, one is the smallest. *)
LEMMA Smallest ==
    ASSUME NEW T, T \subseteq Nat, T # {}
    PROVE  \E x \in T : \A y \in T : ~(y < x)
<1>1. \E x \in T : \A y \in T : ~(<<y, x>> \in OpToRel(<, Nat))
  BY NatLessThanWellFounded, WFMin
<1>2. PICK x \in T : \A y \in T : ~(<<y, x>> \in OpToRel(<, Nat))
  BY <1>1
<1>3. ASSUME NEW y \in T, y < x PROVE FALSE
  <2>1. <<y, x>> \in OpToRel(<, Nat)
    BY <1>3 DEF OpToRel
  <2>2. QED BY <2>1, <1>2
<1>4. QED BY <1>2, <1>3

(* Induction: what every exception finds another one below has none.       *)
LEMMA NoneAtAll ==
    ASSUME NEW D, NEW rank \in [D -> Nat], NEW Bad, Bad \subseteq D,
           \A x \in Bad : \E y \in Bad : rank[y] < rank[x]
    PROVE  Bad = {}
<1> SUFFICES ASSUME Bad # {} PROVE FALSE
  OBVIOUS
<1>1. PICK T : T = {rank[x] : x \in Bad} OBVIOUS
<1>2. T \subseteq Nat /\ T # {} BY <1>1
<1>3. PICK n \in T : \A k \in T : ~(k < n) BY <1>2, Smallest
<1>4. PICK x \in Bad : rank[x] = n BY <1>1, <1>3
<1>5. PICK y \in Bad : rank[y] < rank[x] BY <1>4
<1>6. rank[y] \in T BY <1>1
<1>7. QED BY <1>3, <1>4, <1>5, <1>6

(* What G makes of a function depends, at x, on its values below x only.   *)
LooksDown(G, D, V, rank) ==
    /\ G \in [[D -> V] -> [D -> V]]
    /\ \A f, g \in [D -> V], x \in D :
          (\A y \in D : rank[y] < rank[x] => f[y] = g[y]) => G[f][x] = G[g][x]
SolvesUpTo(f, G, D, rank, n) == \A x \in D : rank[x] <= n => f[x] = G[f][x]

(* Recursion: a definition that looks down has a solution.                 *)
LEMMA Recursion ==
    ASSUME NEW D, NEW rank \in [D -> Nat], NEW V, V # {}, NEW G, LooksDown(G, D, V, rank)
    PROVE  \E f \in [D -> V] : f = G[f]
<1> DEFINE Good(n, f) == f \in [D -> V] /\ SolvesUpTo(f, G, D, rank, n)
<1>0. G \in [[D -> V] -> [D -> V]] BY DEF LooksDown
<1>1. ASSUME NEW n \in Nat, NEW f, NEW g, Good(n, f), Good(n, g)
      PROVE  \A x \in D : rank[x] <= n => f[x] = g[x]
  <2>1. PICK Bad : Bad = {x \in D : rank[x] <= n /\ f[x] # g[x]} OBVIOUS
  <2>2. ASSUME NEW x \in Bad, \A y \in Bad : ~(rank[y] < rank[x]) PROVE FALSE
    <3>1. x \in D /\ rank[x] <= n /\ f[x] # g[x] BY <2>1
    <3>2. ASSUME NEW y \in D, rank[y] < rank[x] PROVE f[y] = g[y]
      <4>1. rank[y] <= n BY <3>1, <3>2
      <4>2. QED BY <2>1, <2>2, <3>2, <4>1
    <3>3. f \in [D -> V] /\ g \in [D -> V] BY <1>1
    <3>4. G[f][x] = G[g][x] BY <3>1, <3>2, <3>3 DEF LooksDown
    <3>5. f[x] = G[f][x] /\ g[x] = G[g][x] BY <1>1, <3>1 DEF SolvesUpTo
    <3>6. QED BY <3>1, <3>4, <3>5
  <2>3. Bad = {}
    <3>1. Bad \subseteq D BY <2>1
    <3>2. \A x \in Bad : \E y \in Bad : rank[y] < rank[x] BY <2>2
    <3>3. QED BY <3>1, <3>2, NoneAtAll
  <2>4. QED BY <2>1, <2>3
<1>2. \A n \in Nat : \E f : Good(n, f)
  <2>1. PICK T : T = {n \in Nat : ~\E f : Good(n, f)} OBVIOUS
  <2>2. SUFFICES ASSUME T # {} PROVE FALSE BY <2>1
  <2>3. T \subseteq Nat BY <2>1
  <2>4. PICK m \in T : \A k \in T : ~(k < m) BY <2>2, <2>3, Smallest
  <2>5. m \in Nat BY <2>1
  <2>6. \E g \in [D -> V] : \A x \in D : rank[x] < m => g[x] = G[g][x]
    <3>1. CASE m = 0
      <4>1. PICK v \in V : TRUE OBVIOUS
      <4>2. [x \in D |-> v] \in [D -> V] OBVIOUS
      <4>3. \A x \in D : ~(rank[x] < m) BY <3>1
      <4>4. QED BY <4>2, <4>3
    <3>2. CASE m # 0
      <4>1. m - 1 \in Nat /\ m - 1 < m BY <2>5, <3>2
      <4>2. m - 1 \notin T BY <2>4, <4>1
      <4>3. PICK g : Good(m - 1, g) BY <2>1, <4>1, <4>2
      <4>4. \A x \in D : rank[x] < m => rank[x] <= m - 1 BY <2>5
      <4>5. QED BY <4>3, <4>4 DEF SolvesUpTo
    <3>3. QED BY <3>1, <3>2
  <2>7. PICK g \in [D -> V] : \A x \in D : rank[x] < m => g[x] = G[g][x] BY <2>6
  <2>8. PICK f \in [D -> V] : f = G[g] BY <1>0
  <2>9. ASSUME NEW x \in D, rank[x] <= m PROVE f[x] = G[f][x]
    <3>1. ASSUME NEW y \in D, rank[y] < rank[x] PROVE f[y] = g[y]
      <4>1. rank[y] < m BY <2>5, <2>9, <3>1
      <4>2. QED BY <2>7, <2>8, <4>1
    <3>2. G[f][x] = G[g][x] BY <3>1 DEF LooksDown
    <3>3. QED BY <2>8, <3>2
  <2>10. Good(m, f) BY <2>9 DEF SolvesUpTo
  <2>11. QED BY <2>1, <2>4, <2>10
<1>3. PICK best : best = [n \in Nat |-> CHOOSE f : Good(n, f)] OBVIOUS
<1>4. \A n \in Nat : Good(n, best[n])
  <2> HIDE DEF Good
  <2> QED BY <1>2, <1>3
<1>5. PICK h : h = [x \in D |-> best[rank[x]][x]] OBVIOUS
<1>6. h \in [D -> V] BY <1>4, <1>5
<1>7. ASSUME NEW x \in D PROVE h[x] = G[h][x]
  <2>1. PICK n \in Nat : n = rank[x] OBVIOUS
  <2>2. PICK f : f = best[n] OBVIOUS
  <2>3. Good(n, f) BY <1>4, <2>2
  <2>4. ASSUME NEW y \in D, rank[y] < rank[x] PROVE h[y] = f[y]
    <3>1. PICK k \in Nat : k = rank[y] OBVIOUS
    <3>2. Good(k, best[k]) BY <1>4
    <3>3. Good(k, f)
      <4>1. \A z \in D : rank[z] <= k => rank[z] <= n BY <2>1, <2>4, <3>1
      <4>2. QED BY <2>3, <4>1 DEF SolvesUpTo
    <3>4. best[k][y] = f[y]
      <4> HIDE DEF Good
      <4> QED BY <1>1, <3>1, <3>2, <3>3
    <3>5. QED BY <1>5, <3>1, <3>4
  <2>5. G[h][x] = G[f][x] BY <1>6, <2>3, <2>4 DEF LooksDown
  <2>6. f[x] = G[f][x] BY <2>1, <2>3 DEF SolvesUpTo
  <2>7. h[x] = f[x] BY <1>5, <2>1, <2>2
  <2>8. QED BY <2>5, <2>6, <2>7
<1>8. PICK gh \in [D -> V] : gh = G[h] BY <1>0, <1>6
<1>9. h = gh BY <1>6, <1>7, <1>8
<1>10. QED BY <1>6, <1>8, <1>9

-----------------------------------------------------------------------------
(* Sums over finite sets.                                                  *)

One(s) == CHOOSE x \in s : TRUE
SumsOf(f, S, sums) ==
    sums = [s \in SUBSET S |-> IF s = {} THEN 0 ELSE f[One(s)] + sums[s \ {One(s)}]]

LEMMA SmallerSubset ==
    ASSUME NEW S, IsFiniteSet(S), NEW s \in SUBSET S
    PROVE  /\ Cardinality(s) \in Nat
           /\ s # {} => /\ One(s) \in S /\ s \ {One(s)} \in SUBSET S
                        /\ Cardinality(s \ {One(s)}) < Cardinality(s)
<1>1. IsFiniteSet(s) /\ Cardinality(s) \in Nat BY FS_Subset, FS_CardinalityType
<1>2. ASSUME s # {} PROVE /\ One(s) \in s /\ Cardinality(s \ {One(s)}) < Cardinality(s)
  <2>1. One(s) \in s BY <1>2 DEF One
  <2>2. PICK x : x = One(s) OBVIOUS
  <2>3. Cardinality(s \ {x}) = Cardinality(s) - 1 BY <1>1, <2>1, <2>2, FS_RemoveElement
  <2>4. QED BY <1>1, <2>1, <2>2, <2>3
<1>3. QED BY <1>1, <1>2

(* The sum of finitely many numbers is one, and is found term by term.     *)
LEMMA SumFound ==
    ASSUME NEW f, NEW S, IsFiniteSet(S), \A x \in S : f[x] \in Int
    PROVE  \E sums \in [SUBSET S -> Int] :
              SumsOf(f, S, sums) /\ SumFunctionOnSet(f, S) = sums[S]
<1> DEFINE D == SUBSET S
           rank == [s \in D |-> Cardinality(s)]
           Body(h) == [s \in D |-> IF s = {} THEN 0 ELSE f[One(s)] + h[s \ {One(s)}]]
           G == [h \in [D -> Int] |-> Body(h)]
<1>1. rank \in [D -> Nat] BY SmallerSubset
<1>2. \A h \in [D -> Int] : Body(h) \in [D -> Int]
  <2> SUFFICES ASSUME NEW h \in [D -> Int], NEW s \in D PROVE Body(h)[s] \in Int OBVIOUS
  <2>1. CASE s = {} BY <2>1
  <2>2. CASE s # {}
    <3>1. PICK t \in D : t = s \ {One(s)} BY <2>2, SmallerSubset
    <3>2. f[One(s)] \in Int /\ h[t] \in Int BY <2>2, SmallerSubset
    <3>3. Body(h)[s] = f[One(s)] + h[t] BY <2>2, <3>1
    <3>4. QED BY <3>2, <3>3
  <2>3. QED BY <2>1, <2>2
<1>3. G \in [[D -> Int] -> [D -> Int]] BY <1>2
<1>4. LooksDown(G, D, Int, rank)
  <2> SUFFICES ASSUME NEW h \in [D -> Int], NEW k \in [D -> Int], NEW s \in D,
                      \A t \in D : rank[t] < rank[s] => h[t] = k[t]
               PROVE  G[h][s] = G[k][s]
    BY <1>3 DEF LooksDown
  <2>1. G[h][s] = Body(h)[s] /\ G[k][s] = Body(k)[s] OBVIOUS
  <2>2. CASE s = {} BY <2>1, <2>2
  <2>3. CASE s # {}
    <3>1. PICK t \in D : t = s \ {One(s)} BY <2>3, SmallerSubset
    <3>2. rank[t] < rank[s] BY <2>3, <3>1, SmallerSubset
    <3>3. h[t] = k[t] BY <3>2
    <3>4. QED BY <2>1, <2>3, <3>1, <3>3
  <2>4. QED BY <2>2, <2>3
<1>5. PICK h \in [D -> Int] : h = G[h]
  <2>1. Int # {} OBVIOUS
  <2> HIDE DEF G, rank, D, Body
  <2>2. QED BY <1>1, <1>4, <2>1, Recursion
<1>6. h = Body(h) BY <1>5
<1>7. PICK sums : sums = CHOOSE iter : iter = Body(iter) OBVIOUS
<1>8. sums = Body(sums) BY <1>6, <1>7
<1>9. SumFunctionOnSet(f, S) = sums[S]
  BY <1>7 DEF SumFunctionOnSet, FoldFunctionOnSet, MapThenFoldSet, One
<1>10. SumsOf(f, S, sums) BY <1>8 DEF SumsOf
<1>11. sums = h
  <2>1. PICK Bad : Bad = {s \in D : sums[s] # h[s]} OBVIOUS
  <2>2. \A s \in Bad : \E t \in Bad : rank[t] < rank[s]
    <3> SUFFICES ASSUME NEW s \in Bad PROVE \E t \in Bad : rank[t] < rank[s] OBVIOUS
    <3>1. s \in D /\ sums[s] # h[s] BY <2>1
    <3>2. sums[s] = Body(sums)[s] /\ h[s] = Body(h)[s] BY <1>6, <1>8
    <3>3. s # {} BY <3>1, <3>2
    <3>4. PICK t \in D : t = s \ {One(s)} BY <3>1, <3>3, SmallerSubset
    <3>5. rank[t] < rank[s] BY <3>1, <3>3, <3>4, SmallerSubset
    <3>6. sums[t] # h[t] BY <3>1, <3>2, <3>3, <3>4
    <3>7. QED BY <2>1, <3>4, <3>5, <3>6
  <2>3. Bad = {}
    <3> HIDE DEF rank
    <3> QED BY <1>1, <2>1, <2>2, NoneAtAll
  <2>4. \A s \in D : sums[s] = h[s] BY <2>1, <2>3
  <2>5. QED BY <1>6, <1>8, <2>4
<1>12. QED BY <1>9, <1>10, <1>11

(* It depends on its terms only. *)
LEMMA SameSum ==
    ASSUME NEW f, NEW g, NEW S, IsFiniteSet(S), \A x \in S : f[x] \in Int, \A x \in S : f[x] = g[x]
    PROVE  /\ SumFunctionOnSet(f, S) \in Int
           /\ SumFunctionOnSet(f, S) = SumFunctionOnSet(g, S)
<1>1. PICK a \in [SUBSET S -> Int] :
          SumsOf(f, S, a) /\ SumFunctionOnSet(f, S) = a[S]
  BY SumFound
<1>2. PICK b \in [SUBSET S -> Int] :
          SumsOf(g, S, b) /\ SumFunctionOnSet(g, S) = b[S]
  BY SumFound
<1>3. PICK rank : rank = [s \in SUBSET S |-> Cardinality(s)] OBVIOUS
<1>4. rank \in [SUBSET S -> Nat] BY <1>3, SmallerSubset
<1>5. PICK Bad : Bad = {s \in SUBSET S : a[s] # b[s]} OBVIOUS
<1>6. ASSUME NEW s \in Bad PROVE \E t \in Bad : rank[t] < rank[s]
  <2>1. s \in SUBSET S /\ a[s] # b[s] BY <1>5
  <2>2. /\ a[s] = IF s = {} THEN 0 ELSE f[One(s)] + a[s \ {One(s)}]
        /\ b[s] = IF s = {} THEN 0 ELSE g[One(s)] + b[s \ {One(s)}]
    BY <1>1, <1>2, <2>1 DEF SumsOf
  <2>3. s # {} BY <2>1, <2>2
  <2>4. One(s) \in S BY <2>1, <2>3, SmallerSubset
  <2>5. PICK t \in SUBSET S : t = s \ {One(s)} BY <2>1, <2>3, SmallerSubset
  <2>6. a[t] # b[t] BY <2>1, <2>2, <2>3, <2>4, <2>5
  <2>7. rank[t] < rank[s] BY <1>3, <2>1, <2>3, <2>5, SmallerSubset
  <2>8. QED BY <1>5, <2>6, <2>7
<1>7. Bad = {}
  <2>1. Bad \subseteq SUBSET S BY <1>5
  <2>2. QED BY <2>1, <1>4, <1>6, NoneAtAll
<1>8. S \in SUBSET S OBVIOUS
<1>9. a[S] = b[S] BY <1>5, <1>7, <1>8
<1>10. QED BY <1>1, <1>2, <1>8, <1>9

-----------------------------------------------------------------------------
(* What replaces an address: AddressMap, for every length of address,      *)
(* every key and every pad.                                                *)

(* Where two addresses agree before bit i, the bit flips in both or in     *)
(* neither.                                                                *)
LEMMA FlipsTogether ==
    ASSUME Bits \in Nat, NEW key \in Keys, NEW pad \in Addresses,
           NEW a \in Addresses, NEW b \in Addresses, NEW i \in Positions,
           \A p \in 1..(i - 1) : a[p] = b[p]
    PROVE  (a[i] = b[i]) <=> (Map(key, pad, a)[i] = Map(key, pad, b)[i])
<1>1. \A p \in Positions : p < i => p \in 1..(i - 1)
  BY DEF Positions
<1>2. Block(pad, a, i) = Block(pad, b, i)
  BY <1>1 DEF Block
<1>3. /\ Map(key, pad, a)[i] = (a[i] # key[Block(pad, a, i)])
      /\ Map(key, pad, b)[i] = (b[i] # key[Block(pad, b, i)])
  BY DEF Map
<1>4. Block(pad, b, i) \in Addresses
  BY DEF Block, Addresses
<1>5. a[i] \in BOOLEAN /\ b[i] \in BOOLEAN /\ key[Block(pad, b, i)] \in BOOLEAN
  BY <1>4 DEF Addresses, Keys
<1>6. QED
  BY <1>2, <1>3, <1>5

(* PrefixesKept for every key and pad: the first bit in which two addresses *)
(* differ is the first in which their images do.                           *)
THEOREM PrefixPreservation ==
    ASSUME Bits \in Nat, NEW key \in Keys, NEW pad \in Addresses
    PROVE  PrefixesKept(key, pad)
<1> SUFFICES ASSUME NEW a \in Addresses, NEW b \in Addresses, NEW n \in 0..Bits
             PROVE  SharePrefix(a, b, n) <=> SharePrefix(Map(key, pad, a), Map(key, pad, b), n)
  BY DEF PrefixesKept
<1> DEFINE ma == Map(key, pad, a)
           mb == Map(key, pad, b)
<1>1. ASSUME NEW i \in 1..n, \A p \in 1..(i - 1) : a[p] = b[p]
      PROVE  (a[i] = b[i]) <=> (ma[i] = mb[i])
  <2>1. i \in Positions BY DEF Positions
  <2>2. QED BY <2>1, <1>1, FlipsTogether
<1>2. ASSUME SharePrefix(a, b, n) PROVE SharePrefix(ma, mb, n)
  <2> SUFFICES ASSUME NEW i \in 1..n PROVE ma[i] = mb[i]
    BY DEF SharePrefix
  <2>1. a[i] = b[i] /\ \A p \in 1..(i - 1) : a[p] = b[p]
    BY <1>2 DEF SharePrefix
  <2>2. QED BY <2>1, <1>1
<1>3. ASSUME SharePrefix(ma, mb, n) PROVE SharePrefix(a, b, n)
  <2> DEFINE Differ == {i \in 1..n : a[i] # b[i]}
  <2>1. CASE Differ = {}
    BY <2>1 DEF SharePrefix
  <2>2. CASE Differ # {}
    <3>1. Differ \subseteq Nat OBVIOUS
    <3>2. \E x \in Differ : \A y \in Differ : ~(y < x)
      <4> HIDE DEF Differ
      <4> QED BY <3>1, <2>2, Smallest
    <3>3. PICK x \in Differ : \A y \in Differ : ~(y < x)
      BY <3>2
    <3>4. \A p \in 1..(x - 1) : a[p] = b[p]
      <4> SUFFICES ASSUME NEW p \in 1..(x - 1) PROVE a[p] = b[p]
        OBVIOUS
      <4>1. p \in 1..n /\ p < x OBVIOUS
      <4>2. p \notin Differ BY <4>1, <3>3
      <4>3. QED BY <4>1, <4>2
    <3>5. ma[x] = mb[x] BY <1>3 DEF SharePrefix
    <3>6. QED BY <3>3, <3>4, <3>5, <1>1
  <2>3. QED BY <2>1, <2>2
<1>4. QED BY <1>2, <1>3

(* StandInsDiffer for every key and pad: hosts that are replaced are told  *)
(* apart as before.                                                        *)
THEOREM StandInsAreDistinct ==
    ASSUME Bits \in Nat, NEW key \in Keys, NEW pad \in Addresses, NEW keepPrivate \in BOOLEAN
    PROVE  StandInsDiffer(key, pad, keepPrivate)
<1> SUFFICES ASSUME NEW a \in Addresses \ Exempt(keepPrivate),
                    NEW b \in Addresses \ Exempt(keepPrivate),
                    StandIn(key, pad, keepPrivate, a) = StandIn(key, pad, keepPrivate, b)
             PROVE  a = b
  BY DEF StandInsDiffer
<1>1. Map(key, pad, a) = Map(key, pad, b)
  BY DEF StandIn
<1>2. SharePrefix(Map(key, pad, a), Map(key, pad, b), Bits)
  BY <1>1 DEF SharePrefix
<1>3. PrefixesKept(key, pad) /\ Bits \in 0..Bits
  BY PrefixPreservation
<1>4. SharePrefix(a, b, Bits)
  BY <1>2, <1>3 DEF PrefixesKept
<1>5. QED
  BY <1>4 DEF SharePrefix, Addresses, Positions

(* The caches change no stand-in: whatever was remembered, in whatever     *)
(* order and up to whatever limit, an address gets the one it would have   *)
(* got, so that two downloads of a capture agree.                          *)
THEOREM CacheChangesNothing ==
    ASSUME NEW key, NEW pad, NEW keepPrivate, NEW cache, NEW address,
           Faithful(cache, key, pad, keepPrivate)
    PROVE  LET out == Lookup(cache, key, pad, keepPrivate, address)
           IN  /\ out = StandIn(key, pad, keepPrivate, address)
               /\ Faithful(Remember(cache, address, out), key, pad, keepPrivate)
<1>1. Lookup(cache, key, pad, keepPrivate, address) = StandIn(key, pad, keepPrivate, address)
  BY DEF Lookup, Faithful
<1>2. Faithful(Remember(cache, address, StandIn(key, pad, keepPrivate, address)), key, pad, keepPrivate)
  BY DEF Faithful, Remember
<1>3. QED BY <1>1, <1>2

-----------------------------------------------------------------------------
(* Ones' complement sums of the words a checksum covers, and what          *)
(* refresh_checksums makes of them.                                        *)

Span == [off : Nat, len : Nat]
ScopeRecord == [checksum_at : Nat, start : Nat, end : Nat, pseudo : SUBSET Span]

LEMMA Modulus ==
    ASSUME NEW n \in Nat, n > 0
    PROVE  /\ \A x \in Int : x % n \in 0..(n - 1)
           /\ \A x \in 0..(n - 1) : x % n = x
           /\ \A x \in n..(2 * n - 1) : x % n = x - n
           /\ \A x \in (-n)..(-1) : x % n = x + n
OBVIOUS

(* RFC 1624's update keeps the difference, and is never zero.              *)
LEMMA UpdateKeepsDifference ==
    ASSUME NEW hc \in 0..Top, NEW old \in 0..(Top - 1), NEW new \in 0..(Top - 1)
    PROVE  /\ UpdatedChecksum(hc, old, new) \in 1..Top
           /\ (UpdatedChecksum(hc, old, new) + new) % Top = (hc + old) % Top
<1>1. Top \in Nat /\ Top > 0 BY TopAssumption
<1>2. PICK x \in (-Top)..(2 * Top - 1) : x = Top - hc + new - old BY <1>1
<1>3. PICK r : r = Top - (x % Top) OBVIOUS
<1>4. x % Top \in 0..(Top - 1) BY <1>1, Modulus
<1>5. r \in 1..Top BY <1>1, <1>3, <1>4
<1>6. r = Top - x \/ r = Top - x + Top \/ r = Top - x - Top
  <2>1. CASE x < 0 BY <1>1, <1>3, <2>1, Modulus
  <2>2. CASE x >= 0 /\ x < Top BY <1>1, <1>3, <2>2, Modulus
  <2>3. CASE x >= Top BY <1>1, <1>3, <2>3, Modulus
  <2>4. QED BY <1>1, <2>1, <2>2, <2>3
<1>7. PICK a : a = r + new OBVIOUS
<1>8. PICK b : b = hc + old OBVIOUS
<1>9. /\ a \in 0..(2 * Top - 1) /\ b \in 0..(2 * Top - 1)
      /\ a = b \/ a = b + Top \/ a = b - Top
  BY <1>1, <1>2, <1>5, <1>6, <1>7, <1>8
<1>10. a % Top = b % Top
  <2>1. CASE a = b BY <2>1
  <2>2. CASE a = b + Top
    <3>1. a \in Top..(2 * Top - 1) /\ b \in 0..(Top - 1) BY <1>1, <1>9, <2>2
    <3>2. QED BY <1>1, <2>2, <3>1, Modulus
  <2>3. CASE a = b - Top
    <3>1. b \in Top..(2 * Top - 1) /\ a \in 0..(Top - 1) BY <1>1, <1>9, <2>3
    <3>2. QED BY <1>1, <2>3, <3>1, Modulus
  <2>4. QED BY <1>9, <2>1, <2>2, <2>3
<1>11. UpdatedChecksum(hc, old, new) = r BY <1>2, <1>3 DEF UpdatedChecksum
<1>12. QED BY <1>5, <1>7, <1>8, <1>10, <1>11

(* What feeds a checksum depends on which words there are, not on what     *)
(* they hold.                                                              *)
LEMMA SameFeeds ==
    ASSUME NEW f, NEW g, NEW s, DOMAIN f = DOMAIN g
    PROVE  Feeds(f, s) = Feeds(g, s) /\ Feeds(f, s) \subseteq DOMAIN f
BY DEF Feeds, Covered

(* The sum is one of the words that feed it.                               *)
LEMMA SumOfFeeds ==
    ASSUME NEW D, IsFiniteSet(D), NEW f \in [D -> 0..Top], NEW g \in [D -> 0..Top], NEW s
    PROVE  /\ OnesSum(f, s) \in 0..(Top - 1)
           /\ (\A w \in Feeds(f, s) : f[w] = g[w]) => OnesSum(f, s) = OnesSum(g, s)
<1>1. PICK S : S = Feeds(f, s) OBVIOUS
<1>2. S \subseteq D /\ Feeds(g, s) = S BY <1>1, SameFeeds
<1>3. IsFiniteSet(S) BY <1>2, FS_Subset
<1>4. Top \in Nat /\ Top > 0 BY TopAssumption
<1>5. \A w \in S : f[w] \in Int BY <1>2, <1>4
<1>6. SumFunctionOnSet(f, S) \in Int
  <2>1. \A w \in S : f[w] = f[w] OBVIOUS
  <2>2. QED BY <1>3, <1>5, <2>1, SameSum
<1>7. ASSUME \A w \in S : f[w] = g[w] PROVE SumFunctionOnSet(f, S) = SumFunctionOnSet(g, S)
  BY <1>3, <1>5, <1>7, SameSum
<1>8. QED BY <1>1, <1>2, <1>4, <1>6, <1>7, Modulus DEF OnesSum

(* What the words of a frame may hold.                                     *)
Words(D) == [D -> 0..Top]

(* A checksum at its word of the frame, that feeds itself in no way.       *)
Placed(D, s) == /\ s.checksum_at \in D \intersect Nat /\ s.checksum_at + 2 <= captured
                /\ \A f : DOMAIN f = D => s.checksum_at \notin Feeds(f, s)

(* "Stay exactly as wrong", of one checksum.                               *)
AsWrong(before, after, s) ==
    LET a == s.checksum_at
    IN  /\ (after[a] + OnesSum(after, s)) % Top = (before[a] + OnesSum(before, s)) % Top
        /\ after[a] \in 0..Top
        /\ after[a] # before[a] => after[a] # 0
        /\ after[a] # before[a] => \E w \in Feeds(before, s) : w # a /\ after[w] # before[w]

(* One round of refresh_checksums: that checksum is right about its words, *)
(* and no other word changes.                                              *)
LEMMA RefreshOneFacts ==
    ASSUME NEW D, IsFiniteSet(D), NEW before \in Words(D), NEW f \in Words(D),
           NEW s, Placed(D, s), captured \in Nat, f[s.checksum_at] = before[s.checksum_at],
           NEW g, g = RefreshOne(before, f, s)
    PROVE  /\ g \in Words(D)
           /\ \A w \in D : w # s.checksum_at => g[w] = f[w]
           /\ AsWrong(before, g, s)
<1>0. before \in [D -> 0..Top] /\ f \in [D -> 0..Top] BY DEF Words
<1>1. PICK a \in D \intersect Nat : a = s.checksum_at BY DEF Placed
<1>2. a + 2 <= captured /\ a \notin Feeds(before, s) BY <1>0, <1>1 DEF Placed
<1>3. Top \in Nat /\ Top > 0 BY TopAssumption
<1>4. PICK S : S = Feeds(before, s) OBVIOUS
<1>5. S \subseteq D /\ a \notin S BY <1>0, <1>2, <1>4, SameFeeds
<1>6. PICK old : old = OnesSum(before, s) OBVIOUS
<1>7. PICK new : new = OnesSum(f, s) OBVIOUS
<1>8. old \in 0..(Top - 1) /\ new \in 0..(Top - 1) BY <1>0, <1>6, <1>7, SumOfFeeds
<1>9. g = RefreshOne(before, f, s) OBVIOUS
<1>10. before[a] \in 0..Top /\ f[a] = before[a] BY <1>0, <1>1
<1>11. CASE \E w \in S : before[w] # f[w]
  <2>1. PICK v : v = UpdatedChecksum(before[a], old, new) OBVIOUS
  <2>2. v \in 1..Top /\ (v + new) % Top = (before[a] + old) % Top
    BY <1>8, <1>10, <2>1, UpdateKeepsDifference
  <2>3. ~(a + 2 > captured) BY <1>2
  <2>4. g = [f EXCEPT ![a] = v]
    BY <1>1, <1>4, <1>6, <1>7, <1>9, <1>10, <1>11, <2>1, <2>3 DEF RefreshOne
  <2>5. g \in [D -> 0..Top] /\ g[a] = v /\ \A w \in D : w # a => g[w] = f[w]
    BY <1>0, <1>1, <1>3, <2>2, <2>4
  <2>6. OnesSum(g, s) = new
    <3>1. \A w \in Feeds(f, s) : f[w] = g[w] BY <1>0, <1>4, <1>5, <2>5, SameFeeds
    <3>2. QED BY <1>0, <1>7, <2>5, <3>1, SumOfFeeds
  <2>7. AsWrong(before, g, s)
    <3>1. \E w \in S : w # a /\ g[w] # before[w] BY <1>5, <1>11, <2>5
    <3>2. v # 0 /\ v \in 0..Top BY <1>3, <2>2
    <3>3. QED BY <1>1, <1>4, <1>6, <2>2, <2>5, <2>6, <3>1, <3>2 DEF AsWrong
  <2>8. QED BY <1>1, <1>9, <2>5, <2>7 DEF Words
<1>12. CASE ~\E w \in S : before[w] # f[w]
  <2>1. g = f BY <1>4, <1>9, <1>12 DEF RefreshOne
  <2>2. \A w \in Feeds(f, s) : f[w] = before[w] BY <1>0, <1>4, <1>12, SameFeeds
  <2>3. new = old BY <1>0, <1>6, <1>7, <2>2, SumOfFeeds
  <2>4. AsWrong(before, g, s) BY <1>1, <1>6, <1>7, <1>10, <2>1, <2>3 DEF AsWrong
  <2>5. QED BY <1>1, <1>9, <2>1, <2>4
<1>13. QED BY <1>11, <1>12

(* What is written elsewhere leaves it as wrong as it is.                  *)
LEMMA StaysAsWrong ==
    ASSUME NEW D, IsFiniteSet(D), NEW before \in Words(D), NEW f \in Words(D), NEW g \in Words(D),
           NEW s, Placed(D, s), AsWrong(before, f, s),
           g[s.checksum_at] = f[s.checksum_at], \A w \in Feeds(before, s) : g[w] = f[w]
    PROVE  AsWrong(before, g, s)
<1>0. before \in [D -> 0..Top] /\ f \in [D -> 0..Top] /\ g \in [D -> 0..Top] BY DEF Words
<1>1. \A w \in Feeds(f, s) : f[w] = g[w] BY <1>0, SameFeeds
<1>2. OnesSum(g, s) = OnesSum(f, s) BY <1>0, <1>1, SumOfFeeds
<1>3. QED BY <1>2 DEF AsWrong

(* The largest of some of the first numbers. *)
LEMMA Largest ==
    ASSUME NEW n \in Nat, NEW s \in SUBSET (1..n), s # {}
    PROVE  Max(s) \in s /\ \A y \in s : Max(s) >= y
<1>1. PICK T : T = {n - x : x \in s} OBVIOUS
<1>2. T \subseteq Nat /\ T # {}
  <2>1. \A x \in s : x \in 1..n OBVIOUS
  <2>2. \A x \in s : n - x \in Nat BY <2>1
  <2>3. QED BY <1>1, <2>2
<1>3. PICK t \in T : \A u \in T : ~(u < t) BY <1>2, Smallest
<1>4. PICK x \in s : t = n - x BY <1>1, <1>3
<1>5. \A y \in s : x >= y
  <2> SUFFICES ASSUME NEW y \in s PROVE x >= y OBVIOUS
  <2>1. n - y \in T BY <1>1
  <2>2. ~(n - y < n - x) BY <1>3, <1>4, <2>1
  <2>3. x \in 1..n /\ y \in 1..n OBVIOUS
  <2>4. QED BY <2>2, <2>3
<1>6. QED BY <1>5 DEF Max

(* refresh_checksums is its rounds: one checksum each, the last one first. *)
Rounds(before, after, scopes, rounds) ==
    /\ rounds[0] = after
    /\ \A k \in 1..Len(scopes) :
          rounds[k] = RefreshOne(before, rounds[k - 1], scopes[Len(scopes) + 1 - k])

LEMMA RefreshInRounds ==
    ASSUME NEW W, NEW before, NEW after \in W, NEW S, NEW scopes \in Seq(S),
           \A f \in W : \A i \in DOMAIN scopes : RefreshOne(before, f, scopes[i]) \in W
    PROVE  \E rounds : /\ Rounds(before, after, scopes, rounds)
                       /\ RefreshChecksums(before, after, scopes) = rounds[Len(scopes)]
<1> DEFINE n == Len(scopes)
           D == SUBSET (1..n)
           r == Reverse(scopes)
           rank == [s \in D |-> Cardinality(s)]
           Body(h) == [s \in D |-> IF s = {} THEN after
                                   ELSE RefreshOne(before, h[s \ {Max(s)}], r[Max(s)])]
           G == [h \in [D -> W] |-> Body(h)]
<1>1. n \in Nat /\ DOMAIN scopes = 1..n OBVIOUS
<1>2. DOMAIN r = 1..n /\ \A k \in 1..n : r[k] = scopes[n + 1 - k] BY <1>1 DEF Reverse
<1>3. IsFiniteSet(1..n) BY <1>1, FS_Interval
<1>4. ASSUME NEW s \in D PROVE Cardinality(s) \in Nat BY <1>3, FS_Subset, FS_CardinalityType
<1>5. ASSUME NEW s \in D, s # {}
      PROVE  /\ Max(s) \in 1..n /\ s \ {Max(s)} \in D
             /\ Cardinality(s \ {Max(s)}) < Cardinality(s)
  <2>1. Max(s) \in s BY <1>1, <1>5, Largest
  <2>2. IsFiniteSet(s) BY <1>3, FS_Subset
  <2>3. PICK x \in s : x = Max(s) BY <2>1
  <2>4. Cardinality(s \ {x}) = Cardinality(s) - 1 BY <2>2, FS_RemoveElement
  <2>5. Cardinality(s \ {x}) < Cardinality(s) BY <1>4, <2>4
  <2>6. QED BY <2>3, <2>5
<1> HIDE DEF r
<1>6. \A h \in [D -> W] : Body(h) \in [D -> W]
  <2> SUFFICES ASSUME NEW h \in [D -> W], NEW s \in D PROVE Body(h)[s] \in W OBVIOUS
  <2>1. CASE s = {} BY <2>1
  <2>2. CASE s # {}
    <3>1. PICK k \in 1..n : k = Max(s) BY <1>5, <2>2
    <3>2. PICK t \in D : t = s \ {Max(s)} BY <1>5, <2>2
    <3>3. Body(h)[s] = RefreshOne(before, h[t], r[k]) BY <2>2, <3>1, <3>2
    <3>4. n + 1 - k \in DOMAIN scopes /\ r[k] = scopes[n + 1 - k] BY <1>1, <1>2
    <3>5. h[t] \in W OBVIOUS
    <3>6. QED BY <3>3, <3>4, <3>5
  <2>3. QED BY <2>1, <2>2
<1>7. G \in [[D -> W] -> [D -> W]] BY <1>6
<1>8. LooksDown(G, D, W, rank)
  <2> SUFFICES ASSUME NEW h \in [D -> W], NEW k \in [D -> W], NEW s \in D,
                      \A t \in D : rank[t] < rank[s] => h[t] = k[t]
               PROVE  G[h][s] = G[k][s]
    BY <1>7 DEF LooksDown
  <2>1. G[h][s] = Body(h)[s] /\ G[k][s] = Body(k)[s] OBVIOUS
  <2>2. CASE s = {} BY <2>1, <2>2
  <2>3. CASE s # {}
    <3>1. PICK t \in D : t = s \ {Max(s)} BY <1>5, <2>3
    <3>2. rank[t] < rank[s] BY <1>5, <2>3, <3>1
    <3>3. h[t] = k[t] BY <3>2
    <3>4. QED BY <2>1, <2>3, <3>1, <3>3
  <2>4. QED BY <2>2, <2>3
<1>9. PICK h \in [D -> W] : h = G[h]
  <2>1. rank \in [D -> Nat] BY <1>4
  <2>2. W # {} OBVIOUS
  <2> HIDE DEF G, rank, D, Body
  <2>3. QED BY <1>8, <2>1, <2>2, Recursion
<1>10. h = Body(h) BY <1>9
<1>11. PICK c : c = CHOOSE iter : iter = Body(iter) OBVIOUS
<1>12. c = Body(c) BY <1>10, <1>11
<1>13. RefreshChecksums(before, after, scopes) = c[1..n]
  BY <1>2, <1>11 DEF RefreshChecksums, FoldLeft, MapThenFoldSet, r
<1>14. PICK rounds : rounds = [k \in 0..n |-> c[1..k]] OBVIOUS
<1>15. \A s \in D : c[s] = Body(c)[s] BY <1>12
<1>16. rounds[0] = after
  <2>1. {} \in D /\ 1..0 = {} OBVIOUS
  <2>2. c[{}] = after BY <1>15, <2>1
  <2>3. QED BY <1>1, <1>14, <2>1, <2>2
<1>17. ASSUME NEW k \in 1..n
       PROVE  rounds[k] = RefreshOne(before, rounds[k - 1], scopes[n + 1 - k])
  <2>1. PICK s : s = 1..k OBVIOUS
  <2>2. s \in D /\ s # {} /\ k \in s BY <1>1, <2>1
  <2>3. Max(s) \in s /\ \A y \in s : Max(s) >= y BY <1>1, <2>2, Largest
  <2>4. Max(s) = k BY <2>1, <2>2, <2>3
  <2>5. s \ {k} = 1..(k - 1) BY <2>1
  <2>6. c[s] = RefreshOne(before, c[s \ {k}], r[k]) BY <1>15, <2>2, <2>4
  <2>7. rounds[k] = c[s] /\ rounds[k - 1] = c[1..(k - 1)] BY <1>1, <1>14, <2>1
  <2>8. QED BY <1>2, <2>5, <2>6, <2>7
<1>18. Rounds(before, after, scopes, rounds) BY <1>16, <1>17 DEF Rounds
<1>19. rounds[n] = c[1..n] BY <1>1, <1>14
<1>20. QED BY <1>13, <1>18, <1>19

(* Checksums each at its own word, no earlier one of which feeds a later.  *)
Ordered(D, scopes) ==
    \A j \in DOMAIN scopes :
        /\ Placed(D, scopes[j])
        /\ \A i \in DOMAIN scopes : i < j =>
              /\ scopes[i].checksum_at # scopes[j].checksum_at
              /\ \A f : DOMAIN f = D => scopes[i].checksum_at \notin Feeds(f, scopes[j])

(* Innermost first, one round: every checksum comes to be as wrong as it   *)
(* was, and what is refreshed later changes none of the words it covers.   *)
LEMMA RefreshKeepsWrong ==
    ASSUME captured \in Nat, NEW D, IsFiniteSet(D),
           NEW before \in Words(D), NEW after \in Words(D),
           NEW S, NEW scopes \in Seq(S), Ordered(D, scopes),
           \A i \in DOMAIN scopes : after[scopes[i].checksum_at] = before[scopes[i].checksum_at]
    PROVE  \A i \in DOMAIN scopes :
              AsWrong(before, RefreshChecksums(before, after, scopes), scopes[i])
<1>1. PICK n \in Nat : n = Len(scopes) /\ DOMAIN scopes = 1..n OBVIOUS
<1>2. ASSUME NEW f \in Words(D), NEW i \in DOMAIN scopes PROVE RefreshOne(before, f, scopes[i]) \in Words(D)
  <2>0. before \in [D -> 0..Top] /\ f \in [D -> 0..Top] BY DEF Words
  <2>1. PICK s : s = scopes[i] OBVIOUS
  <2>2. s.checksum_at \in D /\ Top \in Nat BY <2>1, TopAssumption DEF Ordered, Placed
  <2>3. PICK hc : hc = f[s.checksum_at] OBVIOUS
  <2>4. OnesSum(before, s) \in 0..(Top - 1) /\ OnesSum(f, s) \in 0..(Top - 1) BY <2>0, SumOfFeeds
  <2>5. hc \in 0..Top BY <2>0, <2>2, <2>3
  <2>6. PICK v \in 1..Top : v = UpdatedChecksum(hc, OnesSum(before, s), OnesSum(f, s))
    BY <2>4, <2>5, UpdateKeepsDifference
  <2>7. v \in 0..Top BY <2>2
  <2>8. QED BY <2>0, <2>1, <2>2, <2>3, <2>6, <2>7 DEF RefreshOne, Words
<1>3. PICK rounds : /\ Rounds(before, after, scopes, rounds)
                    /\ RefreshChecksums(before, after, scopes) = rounds[n]
  <2>2. \A f \in Words(D) : \A i \in DOMAIN scopes : RefreshOne(before, f, scopes[i]) \in Words(D) BY <1>2
  <2>5. \E rounds : /\ Rounds(before, after, scopes, rounds)
                    /\ RefreshChecksums(before, after, scopes) = rounds[Len(scopes)]
    BY <2>2, RefreshInRounds
  <2>6. QED BY <1>1, <2>5
<1> DEFINE Fine(k) ==
               /\ rounds[k] \in Words(D)
               /\ \A i \in 1..n :
                     IF i <= n - k THEN rounds[k][scopes[i].checksum_at] = before[scopes[i].checksum_at]
                                   ELSE AsWrong(before, rounds[k], scopes[i])
<1>4. Fine(0)
  <2>1. rounds[0] = after /\ \A i \in 1..n : i <= n - 0 BY <1>1, <1>3 DEF Rounds
  <2>2. QED BY <1>1, <2>1
<1>5. ASSUME NEW k \in 0..(n - 1), Fine(k) PROVE Fine(k + 1)
  <2>0. n - k \in 1..n BY <1>1
  <2>1. PICK j \in 1..n : j = n - k BY <2>0
  <2>2. PICK f \in Words(D) : f = rounds[k] BY <1>5
  <2>3. PICK g : g = rounds[k + 1] OBVIOUS
  <2>4. PICK s : s = scopes[j] OBVIOUS
  <2>5. g = RefreshOne(before, f, s)
    <3>1. k + 1 \in 1..n BY <1>1
    <3>2. k + 1 - 1 = k BY <1>1
    <3>3. n + 1 - (k + 1) = j BY <1>1, <2>1
    <3>4. rounds[k + 1] = RefreshOne(before, rounds[k + 1 - 1], scopes[n + 1 - (k + 1)])
      BY <1>1, <1>3, <3>1 DEF Rounds
    <3>5. QED BY <2>2, <2>3, <2>4, <3>2, <3>3, <3>4
  <2>6. Placed(D, s) /\ f[s.checksum_at] = before[s.checksum_at]
    <3>1. j <= n - k BY <2>1, <1>1
    <3>2. QED BY <1>1, <1>5, <2>2, <2>4, <3>1 DEF Ordered
  <2>7. /\ g \in Words(D)
        /\ \A w \in D : w # s.checksum_at => g[w] = f[w]
        /\ AsWrong(before, g, s)
    BY <2>5, <2>6, RefreshOneFacts
  <2>8. ASSUME NEW i \in 1..n, i < j
        PROVE  g[scopes[i].checksum_at] = before[scopes[i].checksum_at]
    <3>1. scopes[i].checksum_at \in D /\ scopes[i].checksum_at # s.checksum_at
      BY <1>1, <2>4, <2>8 DEF Ordered, Placed
    <3>2. i <= n - k BY <2>1, <2>8, <1>1
    <3>3. f[scopes[i].checksum_at] = before[scopes[i].checksum_at] BY <1>5, <2>2, <3>2
    <3>4. QED BY <2>7, <3>1, <3>3
  <2>9. ASSUME NEW i \in 1..n, i > j PROVE AsWrong(before, g, scopes[i])
    <3>1. /\ Placed(D, scopes[i]) /\ scopes[i].checksum_at # s.checksum_at
          /\ s.checksum_at \notin Feeds(before, scopes[i])
      <4>1. DOMAIN before = D BY DEF Words
      <4>2. i \in DOMAIN scopes /\ j \in DOMAIN scopes /\ j < i BY <1>1, <2>9
      <4>3. QED BY <2>4, <4>1, <4>2 DEF Ordered
    <3>2. ~(i <= n - k) BY <2>1, <2>9, <1>1
    <3>3. AsWrong(before, f, scopes[i]) BY <1>5, <2>2, <3>2
    <3>4. scopes[i].checksum_at \in D BY <3>1 DEF Placed
    <3>5. g[scopes[i].checksum_at] = f[scopes[i].checksum_at] BY <2>7, <3>1, <3>4
    <3>6. \A w \in Feeds(before, scopes[i]) : g[w] = f[w] BY <2>7, <3>1, SameFeeds DEF Words
    <3>7. QED BY <2>7, <3>1, <3>3, <3>5, <3>6, StaysAsWrong
  <2>10. ASSUME NEW i \in 1..n
         PROVE  IF i <= n - (k + 1) THEN g[scopes[i].checksum_at] = before[scopes[i].checksum_at]
                                    ELSE AsWrong(before, g, scopes[i])
    <3>1. CASE i < j
      <4>1. i <= n - (k + 1) BY <1>1, <2>1, <3>1
      <4>2. QED BY <2>8, <3>1, <4>1
    <3>2. CASE i = j
      <4>1. ~(i <= n - (k + 1)) BY <1>1, <2>1, <3>2
      <4>2. QED BY <2>4, <2>7, <3>2, <4>1
    <3>3. CASE i > j
      <4>1. ~(i <= n - (k + 1)) BY <1>1, <2>1, <3>3
      <4>2. QED BY <2>9, <3>3, <4>1
    <3>4. QED BY <1>1, <2>1, <3>1, <3>2, <3>3
  <2>11. QED BY <2>3, <2>7, <2>10
<1> HIDE DEF Fine
<1>6. Fine(n)
  <2>1. PICK Bad : Bad = {k \in 0..n : ~Fine(k)} OBVIOUS
  <2>2. SUFFICES ASSUME Bad # {} PROVE FALSE BY <1>1, <2>1
  <2>3. Bad \subseteq Nat BY <2>1
  <2>4. PICK m \in Bad : \A k \in Bad : ~(k < m) BY <2>2, <2>3, Smallest
  <2>5. m \in 0..n /\ ~Fine(m) BY <2>1
  <2>6. m # 0 BY <1>4, <2>5
  <2>7. PICK k \in 0..(n - 1) : m = k + 1 BY <1>1, <2>5, <2>6
  <2>8. k \notin Bad BY <2>4, <2>7
  <2>9. Fine(k) BY <1>1, <2>1, <2>8
  <2>10. QED BY <1>5, <2>5, <2>7, <2>9
<1>7. \A i \in 1..n : ~(i <= n - n) BY <1>1
<1>8. QED BY <1>1, <1>3, <1>6, <1>7 DEF Fine

-----------------------------------------------------------------------------
(* The walk of a frame: FrameWalk, whatever its headers say.               *)

AddressSpan == [off : Nat, len : {4, 6, 16}]
Layout == [addresses : SUBSET AddressSpan, scopes : Seq(ScopeRecord), payload_start : Nat]

(* The addresses and checksum slots of a layout.                           *)
FieldsOf(l) == l.addresses \union {Slot(l.scopes[i]) : i \in DOMAIN l.scopes}

(* The bytes from o on, as many as len, hold nothing found before.         *)
Clear(l, o, len) == \A f \in FieldsOf(l) : f.off + f.len <= o \/ o + len <= f.off

(* Everything found ends by byte b. *)
EndsBy(l, b) == \A f \in FieldsOf(l) : f.off + f.len <= b

(* What is found lies in the frame and does not overlap; a scope begins    *)
(* after the checksums found before it, and is fed addresses that were     *)
(* found, so no checksum found earlier.                                    *)
InFrame(l) == EndsBy(l, captured)
Apart(l) == \A f, g \in FieldsOf(l) : f # g => f.off + f.len <= g.off \/ g.off + g.len <= f.off
Nests(l) ==
    \A j \in DOMAIN l.scopes :
        /\ l.scopes[j].pseudo \subseteq l.addresses
        /\ l.scopes[j].start <= l.scopes[j].checksum_at
        /\ \A i \in DOMAIN l.scopes : i < j => l.scopes[i].checksum_at + 2 <= l.scopes[j].start
Sound(l) == l \in Layout /\ InFrame(l) /\ Apart(l) /\ Nests(l)

(* What was found as a checksum is a header's, so not of the payload.      *)
Headed(l) == \A i \in DOMAIN l.scopes : l.scopes[i].checksum_at + 2 <= l.payload_start

(* How far the walk has come: a tunnel's header begins with the 8 bytes of *)
(* the UDP header it was recognised by.                                    *)
Frontier == IF at \in {"vxlan", "geneve"} THEN off + 8 ELSE off

Walked ==
    /\ captured \in Nat /\ off \in Nat /\ end \in Nat
    /\ at = "link" => off = 0
    /\ pseudo \subseteq layout.addresses
    /\ Sound(layout) /\ Headed(layout)
    /\ at \notin {"done", "rewritten"} => EndsBy(layout, Frontier)

(* A field more, where nothing was found before.                           *)
LEMMA AddressFound ==
    ASSUME captured \in Nat, NEW l, Sound(l), NEW o \in Nat, NEW len \in {4, 6, 16}, Clear(l, o, len)
    PROVE  LET m == Address(l, o, len)
           IN  /\ Sound(m)
               /\ m.scopes = l.scopes /\ m.payload_start = l.payload_start
               /\ l.addresses \subseteq m.addresses
               /\ \A f \in FieldsOf(m) : f \in FieldsOf(l) \/ (f = Field(o, len) /\ o + len <= captured)
               /\ o + len <= captured => Field(o, len) \in m.addresses
<1> DEFINE m == Address(l, o, len)
           new == Field(o, len)
<1>1. l \in Layout BY DEF Sound
<1>2. new \in AddressSpan /\ new.off = o /\ new.len = len BY DEF Field, AddressSpan
<1>3. CASE ~(o + len <= captured)
  <2>1. m = l BY <1>3 DEF Address, Has
  <2>2. QED BY <1>3, <2>1
<1>4. CASE o + len <= captured
  <2>1. m = [l EXCEPT !.addresses = @ \union {new}] BY <1>4 DEF Address, Has
  <2> HIDE DEF m, new
  <2>2. /\ m \in Layout /\ m.scopes = l.scopes /\ m.addresses = l.addresses \union {new}
        /\ m.payload_start = l.payload_start
    BY <1>1, <1>2, <2>1 DEF Layout
  <2>3. FieldsOf(m) = FieldsOf(l) \union {new} BY <2>2 DEF FieldsOf
  <2>4. InFrame(m) BY <1>2, <1>4, <2>3 DEF Sound, InFrame, EndsBy
  <2>5. Apart(m) BY <1>2, <2>3 DEF Sound, Apart, Clear
  <2>6. Nests(m) BY <2>2 DEF Sound, Nests
  <2>7. QED BY <1>4, <2>2, <2>3, <2>4, <2>5, <2>6 DEF Sound, m, new
<1>5. QED BY <1>3, <1>4

(* What was clear stays so, beside what is added.                          *)
LEMMA StaysClear ==
    ASSUME captured \in Nat, NEW l, Sound(l), NEW o \in Nat, NEW len \in {4, 6, 16}, Clear(l, o, len),
           NEW p \in Nat, NEW size \in Nat, Clear(l, p, size), o + len <= p \/ p + size <= o
    PROVE  Clear(Address(l, o, len), p, size)
<1>1. \A f \in FieldsOf(Address(l, o, len)) : f \in FieldsOf(l) \/ f = Field(o, len)
  BY AddressFound
<1>2. QED BY <1>1 DEF Clear, Field

LEMMA StaysBy ==
    ASSUME captured \in Nat, NEW l, Sound(l), NEW o \in Nat, NEW len \in {4, 6, 16}, Clear(l, o, len),
           NEW b \in Nat, EndsBy(l, b), o + len <= b
    PROVE  EndsBy(Address(l, o, len), b)
<1>1. \A f \in FieldsOf(Address(l, o, len)) : f \in FieldsOf(l) \/ f = Field(o, len)
  BY AddressFound
<1>2. QED BY <1>1 DEF EndsBy, Field

(* The start of the payload moves, nothing else. *)
LEMMA HeaderEndFound ==
    ASSUME captured \in Nat, NEW l, Sound(l), NEW o \in Nat
    PROVE  LET m == HeaderEnd(l, o)
           IN  /\ Sound(m) /\ m.scopes = l.scopes /\ m.addresses = l.addresses /\ FieldsOf(m) = FieldsOf(l)
               /\ EndsBy(l, o) => Headed(m)
<1> DEFINE m == HeaderEnd(l, o)
<1>1. Smaller(o, captured) \in Nat BY DEF Smaller
<1>2. m = [l EXCEPT !.payload_start = Smaller(o, captured)] BY DEF HeaderEnd
<1> HIDE DEF m
<1>3. l \in Layout BY DEF Sound
<1>4. /\ m \in Layout /\ m.scopes = l.scopes /\ m.addresses = l.addresses
      /\ m.payload_start = Smaller(o, captured)
  BY <1>1, <1>2, <1>3 DEF Layout
<1>5. FieldsOf(m) = FieldsOf(l) BY <1>4 DEF FieldsOf
<1>6. ASSUME EndsBy(l, o) PROVE Headed(m)
  <2> SUFFICES ASSUME NEW i \in DOMAIN l.scopes
               PROVE  l.scopes[i].checksum_at + 2 <= Smaller(o, captured)
    BY <1>4 DEF Headed
  <2>1. PICK f : f = Slot(l.scopes[i]) OBVIOUS
  <2>2. f \in FieldsOf(l) BY <2>1 DEF FieldsOf
  <2>3. f.off + f.len <= o /\ f.off + f.len <= captured
    BY <1>6, <2>2 DEF EndsBy, Sound, InFrame
  <2>4. QED BY <2>1, <2>3 DEF Slot, Field, Smaller
<1>7. QED BY <1>4, <1>5, <1>6 DEF Sound, InFrame, EndsBy, Apart, Nests, m

(* A checksum more, beyond those found before.                             *)
LEMMA ScopeFound ==
    ASSUME captured \in Nat, NEW l, Sound(l),
           NEW a \in Nat, NEW from \in Nat, NEW to \in Nat, NEW extra \in SUBSET l.addresses,
           Clear(l, a, 2), a + 2 <= captured, from <= a,
           \A i \in DOMAIN l.scopes : l.scopes[i].checksum_at + 2 <= from
    PROVE  LET m == AddScope(l, Scope(a, from, to, extra))
           IN  /\ Sound(m)
               /\ m.addresses = l.addresses
               /\ FieldsOf(m) = FieldsOf(l) \union {Field(a, 2)}
<1> DEFINE s == Scope(a, from, to, extra)
           m == AddScope(l, s)
           k == Len(l.scopes) + 1
           new == Field(a, 2)
<1>1. l \in Layout /\ l.scopes \in Seq(ScopeRecord) /\ l.addresses \subseteq AddressSpan
  BY DEF Sound, Layout
<1>2. AddressSpan \subseteq Span BY DEF AddressSpan, Span
<1>3. s \in ScopeRecord BY <1>1, <1>2 DEF Scope, ScopeRecord
<1>4. s.checksum_at = a /\ s.start = from /\ s.pseudo = extra /\ Slot(s) = new
  BY DEF Scope, Slot
<1>5. m = [l EXCEPT !.scopes = Append(@, s)] BY DEF AddScope
<1> HIDE DEF s, m
<1>6. m \in Layout /\ m.addresses = l.addresses /\ m.scopes = Append(l.scopes, s)
  <2>1. Append(l.scopes, s) \in Seq(ScopeRecord) BY <1>1, <1>3
  <2>2. QED BY <1>1, <1>5, <2>1 DEF Layout
<1>7. /\ DOMAIN m.scopes = DOMAIN l.scopes \union {k} /\ k \notin DOMAIN l.scopes
      /\ m.scopes[k] = s /\ \A i \in DOMAIN l.scopes : m.scopes[i] = l.scopes[i]
      /\ \A i \in DOMAIN l.scopes : i \in Nat /\ i < k
      /\ k \in Nat
  BY <1>1, <1>6
<1> HIDE DEF k
<1>8. FieldsOf(m) = FieldsOf(l) \union {new} BY <1>4, <1>6, <1>7 DEF FieldsOf
<1>9. new.off = a /\ new.len = 2 BY DEF Field
<1> HIDE DEF new
<1>10. InFrame(m) BY <1>8, <1>9 DEF Sound, InFrame, EndsBy
<1>11. Apart(m) BY <1>8, <1>9 DEF Sound, Apart, Clear
<1>12. Nests(m)
  <2>1. ASSUME NEW j \in DOMAIN m.scopes 
        PROVE  m.scopes[j].pseudo \subseteq m.addresses /\ m.scopes[j].start <= m.scopes[j].checksum_at
    BY <1>4, <1>6, <1>7 DEF Sound, Nests
  <2>2. ASSUME NEW j \in DOMAIN m.scopes, NEW i \in DOMAIN m.scopes, i < j
        PROVE  m.scopes[i].checksum_at + 2 <= m.scopes[j].start
    <3>1. i \in DOMAIN l.scopes BY <1>7, <2>2
    <3>2. CASE j = k BY <1>4, <1>7, <3>1, <3>2
    <3>3. CASE j \in DOMAIN l.scopes BY <1>7, <2>2, <3>1, <3>3 DEF Sound, Nests
    <3>4. QED BY <1>7, <3>2, <3>3
  <2>3. QED BY <2>1, <2>2 DEF Nests
<1>13. QED BY <1>6, <1>8, <1>10, <1>11, <1>12 DEF Sound, m, s, new

(* What lies before a byte leaves everything from it on clear.             *)
LEMMA ClearBeyond ==
    ASSUME NEW l, Sound(l), NEW b \in Nat, EndsBy(l, b), NEW o \in Nat, b <= o, NEW len \in Nat
    PROVE  /\ Clear(l, o, len) /\ EndsBy(l, o)
           /\ \A i \in DOMAIN l.scopes : l.scopes[i].checksum_at + 2 <= o
<1>1. \A f \in FieldsOf(l) : f \in Span
  <2>1. l.addresses \subseteq AddressSpan /\ l.scopes \in Seq(ScopeRecord) BY DEF Sound, Layout
  <2>2. ASSUME NEW i \in DOMAIN l.scopes PROVE Slot(l.scopes[i]) \in Span
    <3>1. l.scopes[i] \in ScopeRecord BY <2>1
    <3>2. l.scopes[i].checksum_at \in Nat BY <3>1 DEF ScopeRecord
    <3>3. QED BY <3>2 DEF Slot, Field, Span
  <2>3. AddressSpan \subseteq Span BY DEF AddressSpan, Span
  <2>4. QED BY <2>1, <2>2, <2>3 DEF FieldsOf
<1>2. \A f \in FieldsOf(l) : f.off + f.len <= o BY <1>1 DEF EndsBy, Span
<1>3. \A i \in DOMAIN l.scopes : l.scopes[i].checksum_at + 2 <= o
  <2>1. SUFFICES ASSUME NEW i \in DOMAIN l.scopes PROVE l.scopes[i].checksum_at + 2 <= o OBVIOUS
  <2>2. Slot(l.scopes[i]) \in FieldsOf(l) BY DEF FieldsOf
  <2>3. QED BY <1>2, <2>2 DEF Slot, Field
<1>4. QED BY <1>2, <1>3 DEF Clear, EndsBy

(* Where the next function reads is beyond all that was found.             *)
LEMMA Moves ==
    ASSUME Walked, NEW what, NEW o \in Nat, NEW d, NEW m, Call(what, o, d, m), what # "link",
           Sound(m), Headed(m), end' \in Nat, pseudo' \subseteq m.addresses,
           \/ what \in {"done", "rewritten"}
           \/ EndsBy(m, IF what \in {"vxlan", "geneve"} THEN o + 8 ELSE o)
    PROVE  Walked'
<1>1. at' = what /\ off' = o /\ layout' = m /\ captured' = captured BY DEF Call
<1>2. captured \in Nat BY DEF Walked
<1>3. Sound(layout)' /\ Headed(layout)' BY <1>1 DEF Sound, InFrame, EndsBy, Apart, Nests, FieldsOf, Headed
<1>4. (at \notin {"done", "rewritten"} => EndsBy(layout, Frontier))'
  BY <1>1 DEF EndsBy, Frontier, FieldsOf
<1>5. QED BY <1>1, <1>2, <1>3, <1>4 DEF Walked

LEMMA Returns == ASSUME Walked, Return PROVE Walked'
<1>1. Call("done", off, depth, layout) /\ end' = end /\ pseudo' = pseudo
  BY DEF Return, SameContext
<1>2. off \in Nat /\ Sound(layout) /\ Headed(layout) /\ end \in Nat /\ pseudo \subseteq layout.addresses BY DEF Walked
<1>3. QED BY <1>1, <1>2, Moves

(* A header without addresses or a checksum of its own is passed over.     *)
LEMMA PassesOver ==
    ASSUME Walked, at \notin {"done", "rewritten", "vxlan", "geneve"},
           NEW what, what \notin {"link", "vxlan", "geneve"}, NEW o \in Nat, off <= o, NEW d, NEW m,
           Call(what, o, d, m), m = layout \/ m = HeaderEnd(layout, o),
           end' = end, pseudo' = pseudo
    PROVE  Walked'
<1>1. /\ captured \in Nat /\ off \in Nat /\ end \in Nat
      /\ Sound(layout) /\ Headed(layout) /\ EndsBy(layout, off) /\ pseudo \subseteq layout.addresses
  BY DEF Walked, Frontier
<1>3. EndsBy(layout, o) BY <1>1, ClearBeyond
<1>2. Sound(m) /\ Headed(m) /\ m.addresses = layout.addresses /\ FieldsOf(m) = FieldsOf(layout)
  BY <1>1, <1>3, HeaderEndFound
<1>4. EndsBy(m, o) BY <1>2, <1>3 DEF EndsBy
<1>5. QED BY <1>1, <1>2, <1>4, Moves

(* A field more in a header, which leaves room for others there.           *)
LEMMA OneMore ==
    ASSUME captured \in Nat, NEW l, Sound(l), NEW o \in Nat, NEW len \in {4, 6, 16}, Clear(l, o, len),
           NEW b \in Nat, EndsBy(l, b), o + len <= b
    PROVE  LET m == Address(l, o, len)
           IN  /\ Sound(m) /\ EndsBy(m, b) /\ (Headed(l) => Headed(m))
               /\ m.scopes = l.scopes /\ l.addresses \subseteq m.addresses
               /\ o + len <= captured => Field(o, len) \in m.addresses
BY AddressFound, StaysBy DEF Headed

(* A header begins where nothing was found yet.                            *)
LEMMA HeaderIsClear ==
    ASSUME Walked, at \notin {"done", "rewritten", "vxlan", "geneve"}
    PROVE  /\ captured \in Nat /\ off \in Nat /\ end \in Nat
           /\ Sound(layout) /\ Headed(layout) /\ pseudo \subseteq layout.addresses
           /\ \A i \in DOMAIN layout.scopes : layout.scopes[i].checksum_at + 2 <= off
           /\ \A len \in Nat : Clear(layout, off, len)
           /\ \A k, len \in Nat : Clear(layout, off + k, len) /\ EndsBy(layout, off + k)
<1>1. /\ captured \in Nat /\ off \in Nat /\ end \in Nat
      /\ Sound(layout) /\ Headed(layout) /\ EndsBy(layout, off) /\ pseudo \subseteq layout.addresses
  BY DEF Walked, Frontier
<1>2. \A i \in DOMAIN layout.scopes : layout.scopes[i].checksum_at + 2 <= off
  BY <1>1, ClearBeyond
<1>3. ASSUME NEW k \in Nat, NEW len \in Nat PROVE Clear(layout, off + k, len) /\ EndsBy(layout, off + k)
  <2>1. off + k \in Nat /\ off <= off + k BY <1>1
  <2>2. QED BY <1>1, <2>1, ClearBeyond
<1>4. ASSUME NEW len \in Nat PROVE Clear(layout, off, len) BY <1>1, ClearBeyond
<1>5. QED BY <1>1, <1>2, <1>3, <1>4

(* Two addresses of one header. *)
LEMMA TwoMore ==
    ASSUME captured \in Nat, NEW l, Sound(l), NEW b \in Nat, EndsBy(l, b),
           NEW o \in Nat, NEW p \in Nat, NEW len \in {4, 6, 16}, Clear(l, o, len), Clear(l, p, len),
           o + len <= p, p + len <= b
    PROVE  LET m == Address(Address(l, o, len), p, len)
           IN  /\ Sound(m) /\ EndsBy(m, b)
               /\ m.scopes = l.scopes /\ l.addresses \subseteq m.addresses
               /\ p + len <= captured => {Field(o, len), Field(p, len)} \subseteq m.addresses
               /\ \A q, size \in Nat :
                     /\ Clear(l, q, size)
                     /\ o + len <= q \/ q + size <= o
                     /\ p + len <= q \/ q + size <= p
                     => Clear(m, q, size)
<1>1. PICK k : k = Address(l, o, len) OBVIOUS
<1>2. PICK m : m = Address(k, p, len) OBVIOUS
<1>3. len \in Nat /\ o + len <= b OBVIOUS
<1>4. /\ Sound(k) /\ EndsBy(k, b) /\ k.scopes = l.scopes /\ l.addresses \subseteq k.addresses
      /\ o + len <= captured => Field(o, len) \in k.addresses
  BY <1>1, <1>3, OneMore
<1>5. Clear(k, p, len) BY <1>1, <1>3, StaysClear
<1>6. /\ Sound(m) /\ EndsBy(m, b) /\ m.scopes = k.scopes /\ k.addresses \subseteq m.addresses
      /\ p + len <= captured => Field(p, len) \in m.addresses
  BY <1>2, <1>4, <1>5, OneMore
<1>7. ASSUME NEW q \in Nat, NEW size \in Nat, Clear(l, q, size),
             o + len <= q \/ q + size <= o, p + len <= q \/ q + size <= p
      PROVE  Clear(m, q, size)
  <2>1. Clear(k, q, size) BY <1>1, <1>7, StaysClear
  <2>2. QED BY <1>2, <1>4, <1>5, <1>7, <2>1, StaysClear
<1>8. p + len <= captured => o + len <= captured BY <1>3
<1>9. QED BY <1>1, <1>2, <1>4, <1>6, <1>7, <1>8

-----------------------------------------------------------------------------
(* Each function of the walker. *)

LEMMA LinkWalks == ASSUME Walked, Link PROVE Walked'
<1>1. PICK to \in {"ethernet", "sll", "sll2", "raw_ip", "loopback"} :
          Call(to, 0, 0, layout) /\ SameContext
  BY DEF Link
<1>2. off = 0 /\ at = "link" BY DEF Walked, Link
<1>3. end' = end /\ pseudo' = pseudo BY <1>1 DEF SameContext
<1>4. QED BY <1>1, <1>2, <1>3, PassesOver

LEMMA EthernetWalks == ASSUME Walked, Ethernet PROVE Walked'
<1>1. at = "ethernet" BY DEF Ethernet
<1>2. PICK l1 : l1 = Address(Address(layout, off, 6), off + 6, 6) OBVIOUS
<1>3. PICK l2 : l2 = HeaderEnd(l1, off + 14) OBVIOUS
<1>4. CASE Return BY <1>4, Returns
<1>5. CASE ~Return
  <2>1. Call("ethertype", off + 14, depth, l2) /\ end' = end /\ pseudo' = pseudo
    BY <1>2, <1>3, <1>5 DEF Ethernet, SameContext
  <2>2. /\ captured \in Nat /\ off \in Nat /\ end \in Nat
        /\ Sound(layout) /\ pseudo \subseteq layout.addresses
        /\ Clear(layout, off, 6) /\ Clear(layout, off + 6, 6) /\ EndsBy(layout, off + 14)
    BY <1>1, HeaderIsClear
  <2>3. off + 6 \in Nat /\ off + 14 \in Nat BY <2>2
  <2>4. Sound(l1) /\ EndsBy(l1, off + 14) /\ layout.addresses \subseteq l1.addresses
    BY <1>2, <2>2, <2>3, TwoMore
  <2>5. Sound(l2) /\ Headed(l2) /\ l2.addresses = l1.addresses /\ EndsBy(l2, off + 14)
    BY <1>3, <2>2, <2>3, <2>4, HeaderEndFound DEF EndsBy
  <2>6. QED BY <2>1, <2>2, <2>3, <2>4, <2>5, Moves
<1>6. QED BY <1>4, <1>5

LEMMA CookedWalks ==
    ASSUME Walked, NEW name, name \notin {"done", "rewritten", "vxlan", "geneve"},
           NEW length \in Nat, NEW where \in Nat, where + 6 <= length, Cooked(name, length, where)
    PROVE  Walked'
<1>1. at = name BY DEF Cooked
<1>2. CASE Return BY <1>2, Returns
<1>3. CASE ~Return
  <2>1. PICK mac \in BOOLEAN :
           /\ Call("ethertype", off + length, 0,
                          HeaderEnd(IF mac THEN Address(layout, off + where, 6) ELSE layout,
                                           off + length))
           /\ SameContext
    BY <1>3 DEF Cooked
  <2>2. PICK l1 : l1 = IF mac THEN Address(layout, off + where, 6) ELSE layout OBVIOUS
  <2>3. PICK l2 : l2 = HeaderEnd(l1, off + length) OBVIOUS
  <2>4. Call("ethertype", off + length, 0, l2) /\ end' = end /\ pseudo' = pseudo
    BY <2>1, <2>2, <2>3 DEF SameContext
  <2>5. /\ captured \in Nat /\ off \in Nat /\ end \in Nat
        /\ Sound(layout) /\ pseudo \subseteq layout.addresses
        /\ Clear(layout, off + where, 6) /\ EndsBy(layout, off + length)
    BY <1>1, HeaderIsClear
  <2>6. off + where \in Nat /\ off + length \in Nat /\ off + where + 6 <= off + length BY <2>5
  <2>7. Sound(l1) /\ EndsBy(l1, off + length) /\ layout.addresses \subseteq l1.addresses
    BY <2>2, <2>5, <2>6, OneMore
  <2>8. Sound(l2) /\ Headed(l2) /\ l2.addresses = l1.addresses /\ EndsBy(l2, off + length)
    BY <2>3, <2>5, <2>6, <2>7, HeaderEndFound DEF EndsBy
  <2>9. QED BY <2>4, <2>5, <2>6, <2>7, <2>8, Moves
<1>4. QED BY <1>2, <1>3

LEMMA SllWalks == ASSUME Walked, Sll \/ Sll2 PROVE Walked'
<1>1. CASE Sll BY <1>1, CookedWalks DEF Sll
<1>2. CASE Sll2 BY <1>2, CookedWalks DEF Sll2
<1>3. QED BY <1>1, <1>2

(* Headers that are passed over. *)
LEMMA PlainWalks ==
    ASSUME Walked,
           \/ Loopback \/ RawIp \/ Ethertype \/ Mpls
           \/ Pppoe
    PROVE  Walked'
<1>1. CASE Return BY <1>1, Returns
<1>2. CASE ~Return
  <2>1. off \in Nat BY DEF Walked
  <2>2. at \in {"loopback", "raw_ip", "ethertype", "mpls", "pppoe"}
    BY DEF Loopback, RawIp, Ethertype, Mpls, Pppoe
  <2>3. CASE Loopback
    <3>1. PICK to \in {"ipv4", "ipv6", "done"} :
              Call(to, off + 4, 0, HeaderEnd(layout, off + 4)) /\ SameContext
      BY <1>2, <2>3 DEF Loopback
    <3>2. QED BY <2>1, <2>2, <3>1, PassesOver DEF SameContext
  <2>4. CASE RawIp
    <3>1. PICK to \in {"ipv4", "ipv6", "done"} :
              Call(to, off, depth, layout) /\ SameContext
      BY <1>2, <2>4 DEF RawIp
    <3>2. QED BY <2>1, <2>2, <3>1, PassesOver DEF SameContext
  <2>5. CASE Ethertype
    <3>1. CASE Again /\ Call("ethertype", off + 4, depth, HeaderEnd(layout, off + 4))
      BY <2>1, <2>2, <3>1, PassesOver DEF Again
    <3>2. CASE \E to \in {"ipv4", "ipv6", "arp", "mpls", "pppoe", "done"} :
                  Call(to, off, depth, layout) /\ SameContext
      BY <2>1, <2>2, <3>2, PassesOver DEF SameContext
    <3>3. QED BY <2>5, <3>1, <3>2 DEF Ethertype
  <2>6. CASE Mpls
    <3>1. PICK to \in {"mpls", "raw_ip"} :
              /\ Call(to, off + 4, depth, HeaderEnd(layout, off + 4))
              /\ end' = end /\ pseudo' = pseudo
      BY <1>2, <2>6 DEF Mpls, Again, SameContext
    <3>2. QED BY <2>1, <2>2, <3>1, PassesOver
  <2>7. CASE Pppoe
    <3>1. PICK to \in {"ipv4", "ipv6", "done"} :
              Call(to, off + 8, depth, HeaderEnd(layout, off + 8)) /\ SameContext
      BY <1>2, <2>7 DEF Pppoe
    <3>2. QED BY <2>1, <2>2, <3>1, PassesOver DEF SameContext
  <2>8. QED BY <2>3, <2>4, <2>5, <2>6, <2>7
<1>3. QED BY <1>1, <1>2

LEMMA ArpWalks == ASSUME Walked, Arp PROVE Walked'
<1>1. at = "arp" BY DEF Arp
<1>2. /\ captured \in Nat /\ off \in Nat /\ end \in Nat
      /\ Sound(layout) /\ pseudo \subseteq layout.addresses
      /\ Clear(layout, off + 8, 6) /\ Clear(layout, off + 18, 6)
      /\ Clear(layout, off + 14, 4) /\ Clear(layout, off + 24, 4)
      /\ EndsBy(layout, off + 28) /\ \A k \in Nat : EndsBy(layout, off + k)
  BY <1>1, HeaderIsClear
<1>3. CASE Return BY <1>3, Returns
<1>4. CASE /\ SameContext
           /\ \E lengths \in Sizes :
                 Call("done", off, depth, HeaderEnd(layout, off + 8 + 2 * lengths))
  <2>1. PICK lengths \in Sizes :
            Call("done", off, depth, HeaderEnd(layout, off + 8 + 2 * lengths))
    BY <1>4
  <2>2. PICK l : l = HeaderEnd(layout, off + 8 + 2 * lengths) OBVIOUS
  <2>3. PICK k \in Nat : k = 8 + 2 * lengths BY LengthsAssumption
  <2>6. PICK o \in Nat : o = off + k BY <1>2, <2>3
  <2>7. o = off + 8 + 2 * lengths /\ EndsBy(layout, o) BY <1>2, <2>3, <2>6, LengthsAssumption
  <2>4. Sound(l) /\ Headed(l) /\ l.addresses = layout.addresses BY <1>2, <2>2, <2>7, HeaderEndFound
  <2>5. QED BY <1>2, <1>4, <2>1, <2>2, <2>4, Moves DEF SameContext
<1>5. PICK l1 : l1 = Address(Address(layout, off + 8, 6), off + 18, 6) OBVIOUS
<1>6. PICK l2 : l2 = Address(Address(l1, off + 14, 4), off + 24, 4) OBVIOUS
<1>7. PICK l3 : l3 = HeaderEnd(l2, off + 28) OBVIOUS
<1>8. CASE SameContext /\ Call("done", off, depth, l3)
  <2>1. /\ off + 8 \in Nat /\ off + 14 \in Nat /\ off + 18 \in Nat /\ off + 24 \in Nat
        /\ off + 28 \in Nat
    BY <1>2
  <2>2. /\ Sound(l1) /\ EndsBy(l1, off + 28) /\ layout.addresses \subseteq l1.addresses
        /\ \A q, size \in Nat :
              /\ Clear(layout, q, size)
              /\ off + 8 + 6 <= q \/ q + size <= off + 8
              /\ off + 18 + 6 <= q \/ q + size <= off + 18
              => Clear(l1, q, size)
    <3>1. /\ captured \in Nat /\ Sound(layout) /\ EndsBy(layout, off + 28)
          /\ Clear(layout, off + 8, 6) /\ Clear(layout, off + 18, 6)
      BY <1>2, <2>1
    <3>2. off + 8 + 6 <= off + 18 /\ off + 18 + 6 <= off + 28
      BY <1>2
    <3>3. PICK p \in Nat : p = off + 8 BY <2>1
    <3>4. PICK r \in Nat : r = off + 18 BY <2>1
    <3>5. /\ Sound(l1) /\ EndsBy(l1, off + 28) /\ layout.addresses \subseteq l1.addresses
          /\ \A q, size \in Nat :
                /\ Clear(layout, q, size)
                /\ p + 6 <= q \/ q + size <= p
                /\ r + 6 <= q \/ q + size <= r
                => Clear(l1, q, size)
      BY <1>5, <2>1, <3>1, <3>2, <3>3, <3>4, TwoMore
    <3>6. QED BY <3>3, <3>4, <3>5
  <2>3. Clear(l1, off + 14, 4) /\ Clear(l1, off + 24, 4) BY <1>2, <2>1, <2>2
  <2>4. Sound(l2) /\ EndsBy(l2, off + 28) /\ l1.addresses \subseteq l2.addresses
    BY <1>2, <1>6, <2>1, <2>2, <2>3, TwoMore
  <2>5. Sound(l3) /\ Headed(l3) /\ l3.addresses = l2.addresses BY <1>2, <1>7, <2>1, <2>4, HeaderEndFound
  <2>6. QED BY <1>2, <1>8, <2>2, <2>4, <2>5, Moves DEF SameContext
<1>9. QED BY <1>3, <1>4, <1>5, <1>6, <1>7, <1>8 DEF Arp

LEMMA Ipv4Walks == ASSUME Walked, Ipv4 PROVE Walked'
<1>1. at = "ipv4" BY DEF Ipv4
<1>2. /\ captured \in Nat /\ off \in Nat /\ end \in Nat
      /\ Sound(layout) /\ pseudo \subseteq layout.addresses
      /\ \A i \in DOMAIN layout.scopes : layout.scopes[i].checksum_at + 2 <= off
      /\ Clear(layout, off + 12, 4) /\ Clear(layout, off + 16, 4) /\ Clear(layout, off + 10, 2)
      /\ \A k \in Nat : EndsBy(layout, off + k)
  BY <1>1, HeaderIsClear
<1>3. CASE Return BY <1>3, Returns
<1>4. CASE ~Return
  <2>1. PICK l1 : l1 = Address(Address(layout, off + 12, 4), off + 16, 4) OBVIOUS
  <2>2. PICK words \in Sizes, total \in Claims, next \in {"transport", "done"} :
            /\ ~(4 * words < 20) /\ Has(off, 20)
            /\ Call(next, off + 4 * words, depth,
                  HeaderEnd(
                      IF Has(off, 4 * words)
                      THEN AddScope(l1, Scope(off + 10, off, off + 4 * words, {})) ELSE l1,
                      off + 4 * words))
            /\ end' = IF total >= 4 * words THEN Smaller(off + total, captured) ELSE captured
            /\ pseudo' = {Field(off + 12, 4), Field(off + 16, 4)}
    BY <1>4, <2>1 DEF Ipv4
  <2>3. words \in Nat /\ total \in Nat BY LengthsAssumption
  <2>4. PICK ihl \in Nat : ihl = 4 * words /\ ihl >= 20 BY <2>2, <2>3
  <2>5. PICK l2 : l2 = IF Has(off, ihl)
                        THEN AddScope(l1, Scope(off + 10, off, off + ihl, {})) ELSE l1
    OBVIOUS
  <2>6. PICK l3 : l3 = HeaderEnd(l2, off + ihl) OBVIOUS
  <2>7. Call(next, off + ihl, depth, l3) BY <2>2, <2>4, <2>5, <2>6
  <2>8. /\ off + 10 \in Nat /\ off + 12 \in Nat /\ off + 16 \in Nat /\ off + ihl \in Nat
        /\ off + 20 <= captured /\ EndsBy(layout, off + ihl)
    BY <1>2, <2>2, <2>4 DEF Has
  <2>9. /\ Sound(l1) /\ EndsBy(l1, off + ihl) /\ l1.scopes = layout.scopes
        /\ {Field(off + 12, 4), Field(off + 16, 4)} \subseteq l1.addresses
        /\ \A q, size \in Nat :
              /\ Clear(layout, q, size)
              /\ off + 12 + 4 <= q \/ q + size <= off + 12
              /\ off + 16 + 4 <= q \/ q + size <= off + 16
              => Clear(l1, q, size)
    <3>1. /\ captured \in Nat /\ Sound(layout)
          /\ Clear(layout, off + 12, 4) /\ Clear(layout, off + 16, 4)
      BY <1>2, <2>8
    <3>2. off + 12 + 4 <= off + 16 /\ off + 16 + 4 <= off + ihl /\ off + 16 + 4 <= captured
      BY <1>2, <2>4, <2>8
    <3>3. PICK p \in Nat : p = off + 12 BY <2>8
    <3>4. PICK r \in Nat : r = off + 16 BY <2>8
    <3>5. /\ Sound(l1) /\ EndsBy(l1, off + ihl) /\ l1.scopes = layout.scopes
          /\ {Field(p, 4), Field(r, 4)} \subseteq l1.addresses
          /\ \A q, size \in Nat :
                /\ Clear(layout, q, size)
                /\ p + 4 <= q \/ q + size <= p
                /\ r + 4 <= q \/ q + size <= r
                => Clear(l1, q, size)
      BY <2>1, <2>8, <3>1, <3>2, <3>3, <3>4, TwoMore
    <3>6. QED BY <3>3, <3>4, <3>5
  <2>10. Clear(l1, off + 10, 2)
    <3>1. PICK q \in Nat : q = off + 10 BY <2>8
    <3>2. Clear(layout, q, 2) /\ q + 2 <= off + 12 /\ q + 2 <= off + 16 BY <1>2, <3>1
    <3>3. Clear(l1, q, 2) BY <2>9, <3>2
    <3>4. QED BY <3>1, <3>3
  <2>11. Sound(l2) /\ EndsBy(l2, off + ihl) /\ l2.addresses = l1.addresses
    <3>1. CASE Has(off, ihl)
      <4>1. l2 = AddScope(l1, Scope(off + 10, off, off + ihl, {})) BY <2>5, <3>1
      <4>2. off + 10 + 2 <= captured /\ off <= off + 10 BY <1>2, <2>8
      <4>3. \A i \in DOMAIN l1.scopes : l1.scopes[i].checksum_at + 2 <= off BY <1>2, <2>9
      <4>4. /\ Sound(l2) /\ l2.addresses = l1.addresses
            /\ FieldsOf(l2) = FieldsOf(l1) \union {Field(off + 10, 2)}
        <5>1. PICK a \in Nat : a = off + 10 BY <2>8
        <5>2. PICK to \in Nat : to = off + ihl BY <2>8
        <5>3. l2 = AddScope(l1, Scope(a, off, to, {})) BY <4>1, <5>1, <5>2
        <5>4. Clear(l1, a, 2) /\ a + 2 <= captured /\ off <= a BY <2>10, <4>2, <5>1
        <5>5. {} \in SUBSET l1.addresses OBVIOUS
        <5>6. /\ Sound(l2) /\ l2.addresses = l1.addresses
              /\ FieldsOf(l2) = FieldsOf(l1) \union {Field(a, 2)}
          BY <1>2, <2>9, <4>3, <5>3, <5>4, <5>5, ScopeFound
        <5>7. QED BY <5>1, <5>6
      <4>5. EndsBy(l2, off + ihl) BY <1>2, <2>4, <2>9, <4>4 DEF EndsBy, Field
      <4>6. QED BY <4>4, <4>5
    <3>2. CASE ~Has(off, ihl) BY <2>9, <2>5, <3>2
    <3>3. QED BY <3>1, <3>2
  <2>12. Sound(l3) /\ Headed(l3) /\ l3.addresses = l2.addresses /\ EndsBy(l3, off + ihl)
    BY <1>2, <2>8, <2>11, <2>6, HeaderEndFound DEF EndsBy
  <2>13. end' \in Nat BY <1>2, <2>2, <2>3 DEF Smaller
  <2>14. pseudo' \subseteq l3.addresses BY <2>2, <2>9, <2>11, <2>12
  <2>15. QED BY <2>8, <2>12, <2>13, <2>14, <2>7, Moves
<1>5. QED BY <1>3, <1>4

LEMMA Ipv6Walks == ASSUME Walked, Ipv6 PROVE Walked'
<1>1. at = "ipv6" BY DEF Ipv6
<1>2. /\ captured \in Nat /\ off \in Nat /\ end \in Nat
      /\ Sound(layout) /\ pseudo \subseteq layout.addresses
      /\ Clear(layout, off + 8, 16) /\ Clear(layout, off + 24, 16) /\ EndsBy(layout, off + 40)
  BY <1>1, HeaderIsClear
<1>3. CASE Return BY <1>3, Returns
<1>4. CASE ~Return
  <2>1. PICK l1 : l1 = Address(Address(layout, off + 8, 16), off + 24, 16) OBVIOUS
  <2>2. PICK l2 : l2 = HeaderEnd(l1, off + 40) OBVIOUS
  <2>3. PICK payload \in Claims :
            /\ Has(off, 40)
            /\ Call("extension", off + 40, depth, l2)
            /\ end' = IF payload # 0 THEN Smaller(off + 40 + payload, captured) ELSE captured
            /\ pseudo' = {Field(off + 8, 16), Field(off + 24, 16)}
    BY <1>4, <2>1, <2>2 DEF Ipv6
  <2>4. /\ payload \in Nat /\ off + 8 \in Nat /\ off + 24 \in Nat /\ off + 40 \in Nat
        /\ off + 8 + 16 <= off + 24 /\ off + 24 + 16 <= off + 40 /\ off + 24 + 16 <= captured
    <3>1. payload \in Nat BY LengthsAssumption
    <3>2. off + 40 <= captured BY <2>3 DEF Has
    <3>3. QED BY <1>2, <3>1, <3>2
  <2>5. /\ Sound(l1) /\ EndsBy(l1, off + 40)
        /\ {Field(off + 8, 16), Field(off + 24, 16)} \subseteq l1.addresses
    BY <1>2, <2>1, <2>4, TwoMore
  <2>6. Sound(l2) /\ Headed(l2) /\ l2.addresses = l1.addresses /\ EndsBy(l2, off + 40)
    BY <1>2, <2>2, <2>4, <2>5, HeaderEndFound DEF EndsBy
  <2>7. end' \in Nat BY <1>2, <2>3, <2>4 DEF Smaller
  <2>8. QED BY <2>3, <2>4, <2>5, <2>6, <2>7, Moves
<1>5. QED BY <1>3, <1>4

(* Extension headers, and where the transport is told. *)
LEMMA BetweenWalks ==
    ASSUME Walked, Extension \/ Transport
    PROVE  Walked'
<1>1. at \in {"extension", "transport"} /\ off \in Nat
  BY DEF Walked, Extension, Transport
<1>2. CASE Return BY <1>2, Returns
<1>3. CASE ~Return /\ Extension
  <2>1. CASE Call("transport", off, depth, layout) /\ SameContext
    BY <1>1, <2>1, PassesOver DEF SameContext
  <2>2. CASE \E to \in {"done", "extension"} :
                 Again /\ Call(to, off + 8, depth, HeaderEnd(layout, off + 8))
    BY <1>1, <2>2, PassesOver DEF Again
  <2>3. CASE \E size \in Sizes : \E length \in {4 * (size + 2), 8 * (size + 1)} :
                 Again /\ Call("extension", off + length, depth, HeaderEnd(layout, off + length))
    <3>1. PICK length \in Nat :
              Again /\ Call("extension", off + length, depth, HeaderEnd(layout, off + length))
      BY <2>3, LengthsAssumption
    <3>2. off + length \in Nat /\ off <= off + length BY <1>1
    <3>3. QED BY <1>1, <3>1, <3>2, PassesOver DEF Again
  <2>4. QED BY <1>3, <2>1, <2>2, <2>3 DEF Extension
<1>4. CASE Transport
  <2>1. PICK to \in {"tcp", "udp", "icmp", "icmpv6", "gre", "done", "ipv4", "ipv6"},
                d \in {depth, depth + 1} :
            Call(to, off, d, layout) /\ SameContext
    BY <1>4 DEF Transport
  <2>2. QED BY <1>1, <2>1, PassesOver DEF SameContext
<1>5. QED BY <1>2, <1>3, <1>4

(* A checksum more, at a place of its header, covering from the header on. *)
LEMMA SummedFrom ==
    ASSUME Walked, at \notin {"done", "rewritten", "vxlan", "geneve"},
           NEW k \in Nat, off + k + 2 <= captured, NEW extra \in SUBSET layout.addresses
    PROVE  LET m == AddScope(layout, Scope(off + k, off, end, extra))
           IN  /\ Sound(m) /\ m.addresses = layout.addresses
               /\ EndsBy(m, off + k + 2)
<1>1. /\ captured \in Nat /\ off \in Nat /\ end \in Nat
      /\ Sound(layout)
      /\ \A i \in DOMAIN layout.scopes : layout.scopes[i].checksum_at + 2 <= off
      /\ Clear(layout, off + k, 2) /\ EndsBy(layout, off + (k + 2))
  BY HeaderIsClear
<1>2. PICK m : m = AddScope(layout, Scope(off + k, off, end, extra)) OBVIOUS
<1>3. off + k \in Nat /\ off + (k + 2) = off + k + 2 BY <1>1
<1>4. /\ Sound(m) /\ m.addresses = layout.addresses
      /\ FieldsOf(m) = FieldsOf(layout) \union {Field(off + k, 2)}
  BY <1>1, <1>2, <1>3, ScopeFound
<1>5. EndsBy(m, off + k + 2) BY <1>1, <1>3, <1>4 DEF EndsBy, Field
<1>6. QED BY <1>2, <1>4, <1>5

LEMMA TcpWalks == ASSUME Walked, Tcp PROVE Walked'
<1>1. at = "tcp" BY DEF Tcp
<1>2. captured \in Nat /\ off \in Nat /\ end \in Nat /\ pseudo \subseteq layout.addresses
  BY DEF Walked
<1>3. CASE Return BY <1>3, Returns
<1>4. CASE ~Return
  <2>1. PICK l1 : l1 = AddScope(layout, Scope(off + 16, off, end, pseudo)) OBVIOUS
  <2>2. PICK words \in Sizes :
            /\ Has(off, 20)
            /\ Call("done", off, depth, HeaderEnd(l1, off + Larger(4 * words, 20)))
            /\ end' = end /\ pseudo' = pseudo
    BY <1>4, <2>1 DEF Tcp, SameContext
  <2>3. PICK o : o = off + Larger(4 * words, 20) OBVIOUS
  <2>4. o \in Nat /\ off + 16 + 2 \in Nat /\ off + 16 + 2 <= o
    BY <1>2, <2>3, LengthsAssumption DEF Larger
  <2>5. off + 16 + 2 <= captured BY <1>2, <2>2 DEF Has
  <2>6. Sound(l1) /\ l1.addresses = layout.addresses /\ EndsBy(l1, off + 16 + 2)
    BY <1>1, <1>2, <2>1, <2>5, SummedFrom
  <2>7. PICK l2 : l2 = HeaderEnd(l1, o) OBVIOUS
  <2>8. Sound(l2) /\ Headed(l2) /\ l2.addresses = l1.addresses
    <3>1. EndsBy(l1, o) BY <2>4, <2>6, ClearBeyond
    <3>2. QED BY <1>2, <2>4, <2>6, <2>7, <3>1, HeaderEndFound
  <2>9. Call("done", off, depth, l2) BY <2>2, <2>3, <2>7
  <2>10. QED BY <1>2, <2>2, <2>6, <2>8, <2>9, Moves
<1>5. QED BY <1>3, <1>4

LEMMA UdpWalks == ASSUME Walked, Udp PROVE Walked'
<1>1. at = "udp" BY DEF Udp
<1>2. /\ captured \in Nat /\ off \in Nat /\ end \in Nat /\ pseudo \subseteq layout.addresses
      /\ Sound(layout) /\ EndsBy(layout, off + 8)
  BY <1>1, HeaderIsClear
<1>3. CASE Return BY <1>3, Returns
<1>4. CASE ~Return
  <2>1. PICK s : s = AddScope(layout, Scope(off + 6, off, end, pseudo)) OBVIOUS
  <2>2. PICK to \in {"vxlan", "geneve", "done"}, l1 \in {layout, s} :
            /\ Has(off, 8)
            /\ Call(to, off, depth, HeaderEnd(l1, off + 8))
            /\ end' = end /\ pseudo' = pseudo
    BY <1>4, <2>1 DEF Udp, SameContext
  <2>3. off + 6 + 2 <= captured /\ off + 6 + 2 = off + 8 BY <1>2, <2>2 DEF Has
  <2>4. Sound(s) /\ s.addresses = layout.addresses /\ EndsBy(s, off + 8)
    BY <1>1, <1>2, <2>1, <2>3, SummedFrom
  <2>5. PICK l2 : l2 = HeaderEnd(l1, off + 8) OBVIOUS
  <2>6. off + 8 \in Nat BY <1>2
  <2>7. Sound(l2) /\ Headed(l2) /\ l2.addresses = layout.addresses /\ EndsBy(l2, off + 8)
    <3>1. Sound(l1) /\ l1.addresses = layout.addresses /\ EndsBy(l1, off + 8) BY <1>2, <2>2, <2>4
    <3>2. QED BY <1>2, <2>5, <2>6, <3>1, HeaderEndFound DEF EndsBy
  <2>8. Call(to, off, depth, l2) BY <2>2, <2>5
  <2>9. to = "done" \/ to \in {"vxlan", "geneve"} OBVIOUS
  <2>10. QED BY <1>2, <2>2, <2>7, <2>8, <2>9, Moves
<1>5. QED BY <1>3, <1>4

(* The inner frame begins after the tunnel's header. *)
LEMMA TunnelWalks ==
    ASSUME Walked, Vxlan \/ Geneve
    PROVE  Walked'
<1>1. at \in {"vxlan", "geneve"} BY DEF Vxlan, Geneve
<1>2. /\ captured \in Nat /\ off \in Nat /\ end \in Nat /\ pseudo \subseteq layout.addresses
      /\ Sound(layout) /\ EndsBy(layout, off + 8)
  BY <1>1 DEF Walked, Frontier
<1>3. CASE Return BY <1>3, Returns
<1>4. CASE ~Return
  <2>1. PICK k \in Nat, to \in {"ethernet", "ethertype"} :
            /\ Call(to, off + 16 + k, depth + 1, HeaderEnd(layout, off + 16 + k))
            /\ end' = end /\ pseudo' = pseudo
    <3>1. CASE Vxlan
      <4>1. off + 16 = off + 16 + 0 BY <1>2
      <4>2. QED BY <1>4, <3>1, <4>1 DEF Vxlan, SameContext
    <3>2. CASE Geneve
      <4>1. PICK words \in Sizes, to \in {"ethernet", "ethertype"} :
                /\ Call(to, off + 16 + 4 * words, depth + 1,
                               HeaderEnd(layout, off + 16 + 4 * words))
                /\ end' = end /\ pseudo' = pseudo
        BY <1>4, <3>2 DEF Geneve, SameContext
      <4>2. 4 * words \in Nat BY LengthsAssumption
      <4>3. QED BY <4>1, <4>2
    <3>3. QED BY <3>1, <3>2
  <2>2. PICK o : o = off + 16 + k OBVIOUS
  <2>3. o \in Nat /\ off + 8 \in Nat /\ off + 8 <= o BY <1>2, <2>2
  <2>4. PICK l : l = HeaderEnd(layout, o) OBVIOUS
  <2>9. EndsBy(layout, o) BY <1>2, <2>3, ClearBeyond
  <2>5. /\ Sound(l) /\ Headed(l)
        /\ l.addresses = layout.addresses /\ FieldsOf(l) = FieldsOf(layout)
    BY <1>2, <2>3, <2>4, <2>9, HeaderEndFound
  <2>6. EndsBy(l, o) BY <2>5, <2>9 DEF EndsBy
  <2>7. Call(to, o, depth + 1, l) BY <2>1, <2>2, <2>4
  <2>8. QED BY <1>2, <2>1, <2>3, <2>5, <2>6, <2>7, Moves
<1>5. QED BY <1>3, <1>4

LEMMA IcmpWalks == ASSUME Walked, Icmp PROVE Walked'
<1>1. at = "icmp" BY DEF Icmp
<1>2. /\ captured \in Nat /\ off \in Nat /\ end \in Nat /\ pseudo \subseteq layout.addresses
  BY DEF Walked
<1>3. CASE Return BY <1>3, Returns
<1>4. CASE ~Return
  <2>1. PICK l1 : l1 = AddScope(layout, Scope(off + 2, off, end, {})) OBVIOUS
  <2>2. PICK l2 : l2 = HeaderEnd(l1, off + 8) OBVIOUS
  <2>3. PICK error \in BOOLEAN :
            /\ Has(off, 8)
            /\ Call(IF error THEN "ipv4" ELSE "done", IF error THEN off + 8 ELSE off,
                           IF error THEN depth + 1 ELSE depth, l2)
            /\ end' = end /\ pseudo' = pseudo
    BY <1>4, <2>1, <2>2 DEF Icmp, SameContext
  <2>4. off + 2 + 2 <= captured /\ off + 2 + 2 \in Nat /\ off + 8 \in Nat /\ off + 2 + 2 <= off + 8
    BY <1>2, <2>3 DEF Has
  <2>5. Sound(l1) /\ l1.addresses = layout.addresses /\ EndsBy(l1, off + 2 + 2)
    BY <1>1, <2>1, <2>4, SummedFrom
  <2>6. EndsBy(l1, off + 8) BY <2>4, <2>5, ClearBeyond
  <2>7. Sound(l2) /\ Headed(l2) /\ l2.addresses = layout.addresses /\ EndsBy(l2, off + 8)
    BY <1>2, <2>2, <2>4, <2>5, <2>6, HeaderEndFound DEF EndsBy
  <2>8. CASE error
    <3>1. Call("ipv4", off + 8, depth + 1, l2) BY <2>3, <2>8
    <3>2. QED BY <1>2, <2>3, <2>4, <2>7, <3>1, Moves
  <2>9. CASE ~error
    <3>1. Call("done", off, depth, l2) BY <2>3, <2>9
    <3>2. QED BY <1>2, <2>3, <2>7, <3>1, Moves
  <2>10. QED BY <2>8, <2>9
<1>5. QED BY <1>3, <1>4

LEMMA Icmpv6Walks == ASSUME Walked, Icmpv6 PROVE Walked'
<1>1. at = "icmpv6" BY DEF Icmpv6
<1>2. /\ captured \in Nat /\ off \in Nat /\ end \in Nat /\ pseudo \subseteq layout.addresses
  BY DEF Walked
<1>3. CASE Return BY <1>3, Returns
<1>4. CASE ~Return
  <2>1. PICK l1 : l1 = AddScope(layout, Scope(off + 2, off, end, pseudo)) OBVIOUS
  <2>2. PICK l2 : l2 = HeaderEnd(l1, off + 8) OBVIOUS
  <2>3. PICK l3 : l3 = Address(l2, off + 8, 16) OBVIOUS
  <2>4. PICK l4 : l4 = Address(l3, off + 24, 16) OBVIOUS
  <2>5. /\ Has(off, 8) /\ end' = end /\ pseudo' = pseudo
        /\ \/ Call("done", off, depth, l2)
           \/ Call("ipv6", off + 8, depth + 1, l2)
           \/ \E skip \in {8, 16} : Call("nd_options", off + skip, depth, l2)
           \/ Call("nd_options", off + 24, depth, l3)
           \/ Call("nd_options", off + 40, depth, l4)
    BY <1>4, <2>1, <2>2, <2>3, <2>4 DEF Icmpv6, SameContext
  <2>6. /\ off + 2 + 2 <= captured /\ off + 2 + 2 \in Nat /\ off + 8 \in Nat /\ off + 2 + 2 <= off + 8
        /\ off + 16 \in Nat /\ off + 24 \in Nat /\ off + 40 \in Nat
        /\ off + 8 <= off + 16 /\ off + 8 <= off + 24 /\ off + 24 <= off + 40
        /\ off + 8 + 16 <= off + 24 /\ off + 24 + 16 <= off + 40
    <3>1. off + 8 <= captured BY <2>5 DEF Has
    <3>2. QED BY <1>2, <3>1
  <2>7. Sound(l1) /\ l1.addresses = layout.addresses /\ EndsBy(l1, off + 2 + 2)
    BY <1>1, <1>2, <2>1, <2>6, SummedFrom
  <2>8. EndsBy(l1, off + 8) BY <2>6, <2>7, ClearBeyond
  <2>9. Sound(l2) /\ Headed(l2) /\ l2.addresses = layout.addresses /\ EndsBy(l2, off + 8)
    BY <1>2, <2>2, <2>6, <2>7, <2>8, HeaderEndFound DEF EndsBy
  <2>10. EndsBy(l2, off + 16) /\ EndsBy(l2, off + 24) /\ Clear(l2, off + 8, 16)
    BY <2>6, <2>9, ClearBeyond
  <2>11. Sound(l3) /\ Headed(l3) /\ EndsBy(l3, off + 24) /\ layout.addresses \subseteq l3.addresses
    BY <1>2, <2>3, <2>6, <2>9, <2>10, OneMore
  <2>12. EndsBy(l3, off + 40) /\ Clear(l3, off + 24, 16) BY <2>6, <2>11, ClearBeyond
  <2>13. Sound(l4) /\ Headed(l4) /\ EndsBy(l4, off + 40) /\ layout.addresses \subseteq l4.addresses
    BY <1>2, <2>4, <2>6, <2>11, <2>12, OneMore
  <2>14. CASE Call("done", off, depth, l2) BY <1>2, <2>5, <2>9, <2>14, Moves
  <2>15. CASE Call("ipv6", off + 8, depth + 1, l2) BY <1>2, <2>5, <2>6, <2>9, <2>15, Moves
  <2>16. CASE \E skip \in {8, 16} : Call("nd_options", off + skip, depth, l2)
    <3>1. CASE Call("nd_options", off + 8, depth, l2) BY <1>2, <2>5, <2>6, <2>9, <3>1, Moves
    <3>2. CASE Call("nd_options", off + 16, depth, l2)
      BY <1>2, <2>5, <2>6, <2>9, <2>10, <3>2, Moves
    <3>3. QED BY <2>16, <3>1, <3>2
  <2>17. CASE Call("nd_options", off + 24, depth, l3)
    BY <1>2, <2>5, <2>6, <2>11, <2>17, Moves
  <2>18. CASE Call("nd_options", off + 40, depth, l4)
    BY <1>2, <2>5, <2>6, <2>13, <2>18, Moves
  <2>19. QED BY <2>5, <2>14, <2>15, <2>16, <2>17, <2>18
<1>5. QED BY <1>3, <1>4

LEMMA NdOptionsWalks == ASSUME Walked, NdOptions PROVE Walked'
<1>1. at = "nd_options" BY DEF NdOptions
<1>2. /\ captured \in Nat /\ off \in Nat /\ end \in Nat
      /\ Sound(layout) /\ Headed(layout) /\ pseudo \subseteq layout.addresses
      /\ Clear(layout, off + 2, 6) /\ Clear(layout, off + 16, 16)
      /\ \A k \in Nat : EndsBy(layout, off + k)
  BY <1>1, HeaderIsClear
<1>3. CASE Return BY <1>3, Returns
<1>4. CASE ~Return
  <2>1. PICK l1 : l1 = Address(layout, off + 2, 6) OBVIOUS
  <2>2. PICK l2 : l2 = Address(layout, off + 16, 16) OBVIOUS
  <2>3. PICK units \in Sizes :
            /\ 8 * units # 0
            /\ \E found \in {layout, l1, IF 8 * units >= 32 THEN l2 ELSE layout} :
                  Call("nd_options", off + 8 * units, depth, found)
            /\ end' = end /\ pseudo' = pseudo
    BY <1>4, <2>1, <2>2 DEF NdOptions, Again
  <2>4. units \in Nat BY LengthsAssumption
  <2>5. PICK length \in Nat : length = 8 * units /\ length >= 8 BY <2>3, <2>4
  <2>6. off + length \in Nat /\ off + 2 \in Nat /\ off + 16 \in Nat /\ EndsBy(layout, off + length)
    BY <1>2
  <2>7. Sound(l1) /\ Headed(l1) /\ EndsBy(l1, off + length) /\ layout.addresses \subseteq l1.addresses
    <3>1. off + 2 + 6 <= off + length BY <1>2, <2>5
    <3>2. QED BY <1>2, <2>1, <2>6, <3>1, OneMore
  <2>8. ASSUME length >= 32
        PROVE  Sound(l2) /\ Headed(l2) /\ EndsBy(l2, off + length) /\ layout.addresses \subseteq l2.addresses
    <3>1. off + 16 + 16 <= off + length BY <1>2, <2>5, <2>8
    <3>2. QED BY <1>2, <2>2, <2>6, <3>1, OneMore
  <2>9. PICK found \in {layout, l1, IF length >= 32 THEN l2 ELSE layout} :
            Call("nd_options", off + length, depth, found)
    BY <2>3, <2>5
  <2>10. Sound(found) /\ Headed(found) /\ EndsBy(found, off + length) /\ layout.addresses \subseteq found.addresses
    BY <1>2, <2>6, <2>7, <2>8, <2>9
  <2>11. QED BY <1>2, <2>3, <2>6, <2>9, <2>10, Moves
<1>5. QED BY <1>3, <1>4

LEMMA GreWalks == ASSUME Walked, Gre PROVE Walked'
<1>1. at = "gre" BY DEF Gre
<1>2. /\ captured \in Nat /\ off \in Nat /\ end \in Nat
      /\ Sound(layout) /\ pseudo \subseteq layout.addresses
      /\ \A k \in Nat : EndsBy(layout, off + k)
  BY <1>1, HeaderIsClear
<1>3. CASE Return BY <1>3, Returns
<1>4. CASE ~Return
  <2>1. PICK s : s = AddScope(layout, Scope(off + 4, off, end, {})) OBVIOUS
  <2>2. PICK checksum, key, sequence \in BOOLEAN, to \in {"ethernet", "ethertype"} :
            LET Word(present) == IF present THEN 4 ELSE 0
                cur == off + 4 + Word(checksum) + Word(key) + Word(sequence)
                summed == IF checksum /\ Has(off + 4, 2) THEN s ELSE layout
            IN  Call(to, cur, depth + 1, HeaderEnd(summed, cur)) /\ SameContext
    BY <1>4, <2>1 DEF Gre
  <2>3. PICK c, k, q \in {0, 4} :
            /\ c = IF checksum THEN 4 ELSE 0
            /\ k = IF key THEN 4 ELSE 0
            /\ q = IF sequence THEN 4 ELSE 0
    OBVIOUS
  <2>4. PICK cur \in Nat : cur = off + 4 + c + k + q BY <1>2
  <2>5. PICK l1 : l1 = IF checksum /\ Has(off + 4, 2) THEN s ELSE layout OBVIOUS
  <2>6. PICK l2 : l2 = HeaderEnd(l1, cur) OBVIOUS
  <2>7. Call(to, cur, depth + 1, l2) /\ end' = end /\ pseudo' = pseudo
    BY <2>2, <2>3, <2>4, <2>5, <2>6 DEF SameContext
  <2>8. Sound(l1) /\ l1.addresses = layout.addresses /\ EndsBy(l1, cur)
    <3>1. CASE checksum /\ Has(off + 4, 2)
      <4>1. off + 4 + 2 <= captured /\ off + 4 + 2 \in Nat /\ off + 4 + 2 <= cur
        BY <1>2, <2>3, <2>4, <3>1 DEF Has
      <4>2. Sound(s) /\ s.addresses = layout.addresses /\ EndsBy(s, off + 4 + 2)
        BY <1>1, <2>1, <4>1, SummedFrom
      <4>3. EndsBy(s, cur) BY <4>1, <4>2, ClearBeyond
      <4>4. QED BY <2>5, <3>1, <4>2, <4>3
    <3>2. CASE ~(checksum /\ Has(off + 4, 2))
      <4>1. PICK j \in Nat : cur = off + j BY <1>2, <2>3, <2>4
      <4>2. QED BY <1>2, <2>5, <3>2, <4>1
    <3>3. QED BY <3>1, <3>2
  <2>9. Sound(l2) /\ Headed(l2) /\ l2.addresses = l1.addresses /\ EndsBy(l2, cur)
    BY <1>2, <2>6, <2>8, HeaderEndFound DEF EndsBy
  <2>10. QED BY <1>2, <2>7, <2>8, <2>9, Moves
<1>5. QED BY <1>3, <1>4

-----------------------------------------------------------------------------
(* What the walk reports. *)

LEMMA WalkStarts == ASSUME WalkInit PROVE Walked
<1>1. /\ captured \in Nat /\ at = "link" /\ off = 0 /\ end = 0 /\ pseudo = {}
      /\ layout = [addresses |-> {}, scopes |-> <<>>, payload_start |-> 0]
  BY LengthsAssumption DEF WalkInit
<1>2. FieldsOf(layout) = {} /\ layout.scopes = <<>> BY <1>1 DEF FieldsOf
<1>3. layout \in Layout BY <1>1 DEF Layout
<1>4. Sound(layout) /\ Headed(layout)
  BY <1>2, <1>3 DEF Sound, InFrame, EndsBy, Apart, Nests, Headed
<1>5. EndsBy(layout, Frontier) BY <1>2 DEF EndsBy
<1>6. QED BY <1>1, <1>4, <1>5 DEF Walked

LEMMA WalkGoesOn == ASSUME Walked, [WalkNext]_walkVars PROVE Walked'
<1>1. CASE Walk
  BY <1>1, LinkWalks, EthernetWalks, SllWalks, PlainWalks, ArpWalks, Ipv4Walks, Ipv6Walks,
     BetweenWalks, TcpWalks, UdpWalks, TunnelWalks, IcmpWalks, Icmpv6Walks, NdOptionsWalks,
     GreWalks DEF Walk
<1>2. CASE Rewrite
  <2>1. /\ at' = "rewritten" /\ captured' = captured /\ off' = off /\ end' = end
        /\ pseudo' = pseudo /\ layout' = layout
    BY <1>2 DEF Rewrite
  <2>2. QED BY <2>1 DEF Walked, Sound, InFrame, EndsBy, Apart, Nests, FieldsOf, Headed
<1>3. CASE UNCHANGED walkVars
  BY <1>3 DEF walkVars, Walked, Sound, InFrame, EndsBy, Apart, Nests, FieldsOf, Frontier, Headed
<1>4. QED BY <1>1, <1>2, <1>3 DEF WalkNext

(* Walked is inductive, for any nesting of headers and whatever they say   *)
(* of their lengths.                                                       *)
THEOREM WalkInvariant == WalkSpec => []Walked
<1>1. WalkInit => Walked BY WalkStarts
<1>2. Walked /\ [WalkNext]_walkVars => Walked' BY WalkGoesOn
<1>3. QED BY <1>1, <1>2, PTL DEF WalkSpec

-----------------------------------------------------------------------------
(* The types of the walk: wherever it goes next, the headers end within    *)
(* the frame.                                                              *)
HeadersEnd(l) == "payload_start" \in DOMAIN l /\ l.payload_start \in 0..captured

Counts == at \in Functions /\ depth \in Nat /\ over4 \in BOOLEAN /\ loops \in Nat

Typed == captured \in Lengths /\ Counts /\ HeadersEnd(layout)

LEMMA HeadersEndKept ==
    ASSUME captured \in Nat, NEW l, HeadersEnd(l)
    PROVE  /\ \A o, len : HeadersEnd(Address(l, o, len))
           /\ \A s : HeadersEnd(AddScope(l, s))
           /\ \A o \in Nat : HeadersEnd(HeaderEnd(l, o))
<1>1. ASSUME NEW o, NEW len PROVE HeadersEnd(Address(l, o, len))
  BY DEF HeadersEnd, Address
<1>2. ASSUME NEW s PROVE HeadersEnd(AddScope(l, s))
  BY DEF HeadersEnd, AddScope
<1>3. ASSUME NEW o \in Nat PROVE HeadersEnd(HeaderEnd(l, o))
  BY DEF HeadersEnd, HeaderEnd, Smaller
<1>4. QED BY <1>1, <1>2, <1>3

(* A call keeps the types, a return too, and so does a context that is     *)
(* left alone or has one round less to go.                                 *)
LEMMA CallTyped ==
    ASSUME Typed, NEW what \in Functions, NEW o, NEW d \in Nat, NEW m, HeadersEnd(m),
           Call(what, o, d, m), SameContext \/ Again \/ (over4' \in BOOLEAN /\ loops' = loops)
    PROVE  Typed'
<1>1. loops' \in Nat /\ over4' \in BOOLEAN BY DEF Typed, Counts, SameContext, Again
<1>2. captured' = captured /\ layout' = m /\ at' = what /\ depth' = d BY DEF Call
<1>3. QED BY <1>1, <1>2 DEF Typed, Counts, HeadersEnd

LEMMA ReturnTyped == ASSUME Typed, Return PROVE Typed'
<1>1. "done" \in Functions /\ depth \in Nat /\ HeadersEnd(layout)
  BY DEF Functions, Typed, Counts
<1>2. QED BY <1>1, CallTyped DEF Return

(* Functions that read no field of their own. *)
LEMMA PlainTyped ==
    ASSUME Typed, captured \in Nat, off \in Nat,
           Link \/ Loopback \/ RawIp \/ Ethertype \/ Mpls \/ Pppoe \/ Transport \/ Vxlan
    PROVE  Typed'
<1>1. depth \in Nat /\ depth + 1 \in Nat /\ HeadersEnd(layout) BY DEF Typed, Counts
<1>2. \A o \in Nat : HeadersEnd(HeaderEnd(layout, o)) BY <1>1, HeadersEndKept
<1>3. CASE Link BY <1>1, <1>3, CallTyped DEF Link, Functions
<1>4. CASE Loopback BY <1>1, <1>2, <1>4, CallTyped, ReturnTyped DEF Loopback, Functions
<1>5. CASE RawIp BY <1>1, <1>5, CallTyped, ReturnTyped DEF RawIp, Functions
<1>6. CASE Ethertype BY <1>1, <1>2, <1>6, CallTyped DEF Ethertype, Functions
<1>7. CASE Mpls BY <1>1, <1>2, <1>7, CallTyped, ReturnTyped DEF Mpls, Functions
<1>8. CASE Pppoe BY <1>1, <1>2, <1>8, CallTyped, ReturnTyped DEF Pppoe, Functions
<1>9. CASE Transport BY <1>1, <1>9, CallTyped DEF Transport, Functions
<1>10. CASE Vxlan BY <1>1, <1>2, <1>10, CallTyped, ReturnTyped DEF Vxlan, Functions
<1>11. QED BY <1>3, <1>4, <1>5, <1>6, <1>7, <1>8, <1>9, <1>10

(* Functions that note an address. *)
LEMMA AddressTyped ==
    ASSUME Typed, captured \in Nat, off \in Nat,
           Ethernet \/ Sll \/ Sll2 \/ Arp \/ Ipv4 \/ Ipv6 \/ NdOptions
    PROVE  Typed'
<1>1. depth \in Nat /\ HeadersEnd(layout) /\ 0 \in Nat BY DEF Typed, Counts
<1>2. /\ \A l, o, len : HeadersEnd(l) => HeadersEnd(Address(l, o, len))
      /\ \A l, s : HeadersEnd(l) => HeadersEnd(AddScope(l, s))
      /\ \A l, o : HeadersEnd(l) /\ o \in Nat => HeadersEnd(HeaderEnd(l, o))
  BY HeadersEndKept
<1>3. CASE Ethernet BY <1>1, <1>2, <1>3, CallTyped, ReturnTyped DEF Ethernet, Functions
<1>4. CASE Sll BY <1>1, <1>2, <1>4, CallTyped, ReturnTyped DEF Sll, Cooked, Functions
<1>5. CASE Sll2 BY <1>1, <1>2, <1>5, CallTyped, ReturnTyped DEF Sll2, Cooked, Functions
<1>6. CASE Arp BY <1>1, <1>2, <1>6, CallTyped, ReturnTyped, LengthsAssumption DEF Arp, Functions
<1>7. CASE Ipv4
  <2>1. CASE Return BY <2>1, ReturnTyped
  <2>2. CASE ~Return
    <3>1. PICK words \in Sizes, next \in {"transport", "done"} :
              \E l : /\ HeadersEnd(l)
                     /\ Call(next, off + 4 * words, depth, HeaderEnd(l, off + 4 * words))
                     /\ over4' = TRUE /\ loops' = loops
      BY <1>1, <1>2, <1>7, <2>2 DEF Ipv4
    <3>2. PICK l : /\ HeadersEnd(l)
                   /\ Call(next, off + 4 * words, depth, HeaderEnd(l, off + 4 * words))
                   /\ over4' = TRUE /\ loops' = loops
      BY <3>1
    <3>3. off + 4 * words \in Nat BY LengthsAssumption
    <3>4. HeadersEnd(HeaderEnd(l, off + 4 * words)) BY <1>2, <3>2, <3>3
    <3>5. next \in Functions BY DEF Functions
    <3>6. QED BY <1>1, <3>2, <3>4, <3>5, CallTyped
  <2>3. QED BY <2>1, <2>2
<1>8. CASE Ipv6
  <2>1. CASE Return BY <2>1, ReturnTyped
  <2>2. CASE ~Return
    <3>1. PICK l : /\ HeadersEnd(l)
                   /\ Call("extension", off + 40, depth, HeaderEnd(l, off + 40))
                   /\ over4' = FALSE /\ loops' = loops
      BY <1>1, <1>2, <1>8, <2>2 DEF Ipv6
    <3>2. HeadersEnd(HeaderEnd(l, off + 40)) /\ "extension" \in Functions
      BY <1>2, <3>1 DEF Functions
    <3>3. over4' \in BOOLEAN BY <3>1
    <3>4. QED BY <1>1, <3>1, <3>2, <3>3, CallTyped
  <2>3. QED BY <2>1, <2>2
<1>9. CASE NdOptions BY <1>1, <1>2, <1>9, CallTyped, ReturnTyped DEF NdOptions, Functions
<1>10. QED BY <1>3, <1>4, <1>5, <1>6, <1>7, <1>8, <1>9

(* Functions that note a checksum, and headers of a length of their own.   *)
LEMMA ChecksumTyped ==
    ASSUME Typed, captured \in Nat, off \in Nat,
           Extension \/ Tcp \/ Udp \/ Geneve \/ Icmp \/ Icmpv6 \/ Gre
    PROVE  Typed'
<1>1. depth \in Nat /\ depth + 1 \in Nat /\ HeadersEnd(layout) BY DEF Typed, Counts
<1>2. /\ \A l, o, len : HeadersEnd(l) => HeadersEnd(Address(l, o, len))
      /\ \A l, s : HeadersEnd(l) => HeadersEnd(AddScope(l, s))
      /\ \A l, o : HeadersEnd(l) /\ o \in Nat => HeadersEnd(HeaderEnd(l, o))
  BY HeadersEndKept
<1>3. CASE Extension
  <2>1. \A size \in Sizes : off + 4 * (size + 2) \in Nat /\ off + 8 * (size + 1) \in Nat
    BY LengthsAssumption
  <2>2. QED BY <1>1, <1>2, <1>3, <2>1, CallTyped, ReturnTyped DEF Extension, Functions
<1>4. CASE Tcp
  <2>1. \A words \in Sizes : off + Larger(4 * words, 20) \in Nat
    BY LengthsAssumption DEF Larger
  <2>2. QED BY <1>1, <1>2, <1>4, <2>1, CallTyped, ReturnTyped DEF Tcp, Functions
<1>5. CASE Udp BY <1>1, <1>2, <1>5, CallTyped, ReturnTyped DEF Udp, Functions
<1>6. CASE Geneve
  <2>1. \A words \in Sizes : off + 16 + 4 * words \in Nat BY LengthsAssumption
  <2>2. QED BY <1>1, <1>2, <1>6, <2>1, CallTyped, ReturnTyped DEF Geneve, Functions
<1>7. CASE Icmp BY <1>1, <1>2, <1>7, CallTyped, ReturnTyped DEF Icmp, Functions
<1>8. CASE Icmpv6 BY <1>1, <1>2, <1>8, CallTyped, ReturnTyped DEF Icmpv6, Functions
<1>9. CASE Gre BY <1>1, <1>2, <1>9, CallTyped, ReturnTyped DEF Gre, Functions
<1>10. QED BY <1>3, <1>4, <1>5, <1>6, <1>7, <1>8, <1>9

(* FrameTypeOK, whatever the frame: what is reported are fields of 4, 6    *)
(* and 16 bytes and coverages of 16-bit words, and the payload begins      *)
(* within what was captured, even where a header claims to be longer.      *)
THEOREM FrameTypes == WalkSpec => []FrameTypeOK
<1>1. WalkInit => Typed
  <2> SUFFICES ASSUME WalkInit PROVE Typed
    OBVIOUS
  <2>1. captured \in Lengths /\ captured \in Nat BY LengthsAssumption DEF WalkInit
  <2>2. at \in Functions /\ depth \in Nat /\ loops \in Nat
    BY BoundsAssumption DEF WalkInit, Functions
  <2>3. over4 \in BOOLEAN BY DEF WalkInit
  <2>4. HeadersEnd(layout) BY <2>1 DEF WalkInit, HeadersEnd
  <2>5. QED BY <2>1, <2>2, <2>3, <2>4 DEF Typed, Counts
<1>2. Walked /\ Typed /\ [WalkNext]_walkVars => Typed'
  <2> SUFFICES ASSUME Walked, Typed, [WalkNext]_walkVars PROVE Typed'
    OBVIOUS
  <2>1. captured \in Nat /\ off \in Nat BY DEF Walked
  <2>2. CASE Walk BY <2>1, <2>2, PlainTyped, AddressTyped, ChecksumTyped DEF Walk
  <2>3. CASE Rewrite
    BY <2>3 DEF Rewrite, Typed, Counts, Functions, HeadersEnd
  <2>4. CASE UNCHANGED walkVars
    BY <2>4 DEF walkVars, Typed, Counts, HeadersEnd
  <2>5. QED BY <2>2, <2>3, <2>4 DEF WalkNext
<1>3. Walked /\ Typed => FrameTypeOK
  <2> SUFFICES ASSUME Walked, Typed PROVE FrameTypeOK
    OBVIOUS
  <2>1. layout \in Layout /\ pseudo \subseteq layout.addresses BY DEF Walked, Sound
  <2>2. layout.addresses \subseteq AddressSpan /\ layout.scopes \in Seq(ScopeRecord)
    BY <2>1 DEF Layout
  <2>3. AddressSpan \subseteq [off : Nat, len : Nat] BY DEF AddressSpan
  <2>4. QED BY <2>1, <2>2, <2>3
            DEF Walked, Typed, Counts, HeadersEnd, FrameTypeOK, AddressSpan, ScopeRecord, Span
<1>4. QED BY <1>1, <1>2, <1>3, WalkInvariant, PTL DEF WalkSpec

-----------------------------------------------------------------------------
(* Where the fields are. *)

LEMMA FoundIs == Found = FieldsOf(layout)
BY DEF Found, FieldsOf

(* WithinCaptured: no address and no checksum is reported beyond what was  *)
(* captured of the frame.                                                  *)
THEOREM WithinCapturedHolds == WalkSpec => []WithinCaptured
<1>1. Walked => WithinCaptured
  BY FoundIs DEF Walked, Sound, InFrame, EndsBy, WithinCaptured
<1>2. QED BY <1>1, WalkInvariant, PTL

(* FieldsAreDisjoint: no two of the fields reported share a byte.          *)
THEOREM FieldsAreDisjointHolds == WalkSpec => []FieldsAreDisjoint
<1>1. Walked => FieldsAreDisjoint
  BY FoundIs DEF Walked, Sound, Apart, FieldsAreDisjoint
<1>2. QED BY <1>1, WalkInvariant, PTL

(* refresh_checksums needs one round: no checksum it refreshes later, that *)
(* of a header further out, is among the words that one refreshed before   *)
(* is computed from.                                                       *)
OneRoundIsEnough ==
    \A i, j \in DOMAIN layout.scopes : i < j =>
        \A words : layout.scopes[i].checksum_at \notin Feeds(words, layout.scopes[j])

THEOREM InnermostFirst == WalkSpec => []OneRoundIsEnough
<1>1. ASSUME Walked, NEW i \in DOMAIN layout.scopes, NEW j \in DOMAIN layout.scopes, i < j, NEW words
      PROVE  layout.scopes[i].checksum_at \notin Feeds(words, layout.scopes[j])
  <2>1. PICK a : a = layout.scopes[i].checksum_at OBVIOUS
  <2>2. PICK s : s = layout.scopes[j] OBVIOUS
  <2>3. /\ Sound(layout) /\ layout.addresses \subseteq AddressSpan
        /\ layout.scopes[i] \in ScopeRecord /\ s \in ScopeRecord
    BY <1>1, <2>2 DEF Walked, Sound, Layout
  <2>4. a \in Nat /\ s.start \in Nat BY <2>1, <2>3 DEF ScopeRecord
  <2>5. a + 2 <= s.start /\ s.pseudo \subseteq layout.addresses
    BY <1>1, <2>1, <2>2, <2>3 DEF Sound, Nests
  <2>6. a \notin Covered(words, s.start, Smaller(s.end, captured))
    BY <2>4, <2>5 DEF Covered
  <2>7. ASSUME NEW p \in s.pseudo PROVE a \notin FieldWords(p)
    <3>1. p \in layout.addresses /\ p.off \in Nat /\ p.len \in {4, 6, 16}
      BY <2>3, <2>5, <2>7 DEF AddressSpan
    <3>2. PICK slot : slot = Slot(layout.scopes[i]) OBVIOUS
    <3>3. slot.off = a /\ slot.len = 2 BY <2>1, <3>2 DEF Slot, Field
    <3>4. p \in FieldsOf(layout) /\ slot \in FieldsOf(layout) /\ p # slot
      BY <3>1, <3>2, <3>3 DEF FieldsOf
    <3>5. p.off + p.len <= a \/ a + 2 <= p.off BY <2>3, <3>3, <3>4 DEF Sound, Apart
    <3>6. QED BY <2>4, <3>1, <3>5 DEF FieldWords
  <2>8. QED BY <2>1, <2>2, <2>6, <2>7 DEF Feeds
<1>2. Walked => OneRoundIsEnough BY <1>1 DEF OneRoundIsEnough
<1>3. QED BY <1>2, WalkInvariant, PTL

-----------------------------------------------------------------------------
(* The rewrite. *)

(* A checksum found is a word of its own, no address's and not the         *)
(* payload's first; it does not feed itself, nor one found later.          *)
LEMMA SlotsApart ==
    ASSUME Walked, NEW i \in DOMAIN layout.scopes
    PROVE  /\ layout.scopes[i] \in ScopeRecord
           /\ layout.scopes[i].checksum_at + 2 <= captured
           /\ layout.scopes[i].checksum_at + 2 <= layout.payload_start
           /\ \A p \in layout.addresses :
                 p.off + p.len <= layout.scopes[i].checksum_at \/ layout.scopes[i].checksum_at + 2 <= p.off
<1>1. /\ Sound(layout) /\ Headed(layout) /\ layout.addresses \subseteq AddressSpan
      /\ layout.scopes[i] \in ScopeRecord
  BY DEF Walked, Sound, Layout
<1>2. PICK slot : slot = Slot(layout.scopes[i]) OBVIOUS
<1>3. slot.off = layout.scopes[i].checksum_at /\ slot.len = 2 /\ slot \in FieldsOf(layout)
  BY <1>2 DEF Slot, Field, FieldsOf
<1>4. slot.off + slot.len <= captured BY <1>1, <1>3 DEF Sound, InFrame, EndsBy
<1>5. ASSUME NEW p \in layout.addresses
      PROVE  p.off + p.len <= slot.off \/ slot.off + slot.len <= p.off
  <2>1. p \in FieldsOf(layout) /\ p.len \in {4, 6, 16} BY <1>1 DEF FieldsOf, AddressSpan
  <2>2. p # slot BY <1>3, <2>1
  <2>3. QED BY <1>1, <1>3, <2>1, <2>2 DEF Sound, Apart
<1>6. QED BY <1>1, <1>3, <1>4, <1>5 DEF Headed

LEMMA ScopesInOrder ==
    ASSUME Walked, NEW D, \A i \in DOMAIN layout.scopes : layout.scopes[i].checksum_at \in D
    PROVE  Ordered(D, layout.scopes)
<1>1. ASSUME NEW i \in DOMAIN layout.scopes, NEW j \in DOMAIN layout.scopes, i <= j,
             i \in Nat, j \in Nat,
             NEW f, DOMAIN f = D
      PROVE  layout.scopes[i].checksum_at \notin Feeds(f, layout.scopes[j])
  <2>1. PICK a : a = layout.scopes[i].checksum_at OBVIOUS
  <2>2. PICK s : s = layout.scopes[j] OBVIOUS
  <2>3. /\ Sound(layout) /\ layout.addresses \subseteq AddressSpan
        /\ layout.scopes[i] \in ScopeRecord /\ s \in ScopeRecord
    BY <1>1, <2>2 DEF Walked, Sound, Layout
  <2>4. a \in Nat /\ s.start \in Nat BY <2>1, <2>3 DEF ScopeRecord
  <2>5. s.pseudo \subseteq layout.addresses BY <2>2, <2>3 DEF Sound, Nests
  <2>6. a \notin Covered(f, s.start, Smaller(s.end, captured)) \ {s.checksum_at}
    <3>1. CASE i = j BY <2>1, <2>2, <3>1
    <3>2. CASE i < j
      <4>1. a + 2 <= s.start BY <2>1, <2>2, <2>3, <3>2 DEF Sound, Nests
      <4>2. QED BY <2>4, <4>1 DEF Covered
    <3>3. QED BY <1>1, <3>1, <3>2
  <2>7. ASSUME NEW p \in s.pseudo PROVE a \notin FieldWords(p)
    <3>1. p \in layout.addresses /\ p.off \in Nat /\ p.len \in {4, 6, 16}
      BY <2>3, <2>5, <2>7 DEF AddressSpan
    <3>2. p.off + p.len <= a \/ a + 2 <= p.off BY <2>1, <3>1, SlotsApart
    <3>3. QED BY <2>4, <3>1, <3>2 DEF FieldWords
  <2>8. QED BY <2>1, <2>2, <2>6, <2>7 DEF Feeds
<1>2. \A i \in DOMAIN layout.scopes : i \in Nat
  <2>1. layout.scopes \in Seq(ScopeRecord) BY DEF Walked, Sound, Layout
  <2>2. QED BY <2>1
<1>3. ASSUME NEW j \in DOMAIN layout.scopes PROVE Placed(D, layout.scopes[j])
  <2>1. layout.scopes[j].checksum_at \in Nat /\ layout.scopes[j].checksum_at + 2 <= captured
    BY SlotsApart DEF ScopeRecord
  <2>2. j \in Nat /\ j <= j BY <1>2
  <2>3. QED BY <1>1, <2>1, <2>2 DEF Placed
<1>4. ASSUME NEW j \in DOMAIN layout.scopes, NEW i \in DOMAIN layout.scopes, i < j
      PROVE  /\ layout.scopes[i].checksum_at # layout.scopes[j].checksum_at
             /\ \A f : DOMAIN f = D => layout.scopes[i].checksum_at \notin Feeds(f, layout.scopes[j])
  <2>1. layout.scopes[i] \in ScopeRecord /\ layout.scopes[j] \in ScopeRecord BY SlotsApart
  <2>2. /\ layout.scopes[i].checksum_at + 2 <= layout.scopes[j].start
        /\ layout.scopes[j].start <= layout.scopes[j].checksum_at
    BY <1>4 DEF Walked, Sound, Nests
  <2>3. layout.scopes[i].checksum_at # layout.scopes[j].checksum_at
    BY <2>1, <2>2 DEF ScopeRecord
  <2>4. i \in Nat /\ j \in Nat /\ i <= j BY <1>2, <1>4
  <2>5. QED BY <1>1, <2>3, <2>4
<1>5. QED BY <1>3, <1>4 DEF Ordered

(* A word of several fields is of one of them.                             *)
LEMMA OfOneField ==
    ASSUME NEW F, NEW P, NEW w \in (UNION {FieldWords(a) : a \in F}) \union P, w \notin P
    PROVE  \E a \in F : w \in FieldWords(a)
<1>1. w \in UNION {FieldWords(a) : a \in F} BY Zenon
<1>2. PICK W \in {FieldWords(a) : a \in F} : w \in W BY <1>1, Zenon
<1>3. QED BY <1>2

(* Of the rewritten frame every checksum is as wrong as it was.            *)
LEMMA RewriteKeepsWrong == ASSUME Walked, captured \in Lengths, Rewrite PROVE AsWrongAsBefore'
<1>1. PICK macs \in BOOLEAN, ips \in BOOLEAN, content \in Contents :
           LET fields == {a \in layout.addresses : IF a.len = 6 THEN macs ELSE ips}
               payload == {w \in layout.payload_start..(captured - 1) : w % 2 = 0}
               replaced == (UNION {FieldWords(a) : a \in fields}) \union payload
               slots == {layout.scopes[i].checksum_at : i \in DOMAIN layout.scopes}
               before == [w \in replaced \union slots |-> content[1][w]]
               placed == [w \in DOMAIN before |-> IF w \in replaced THEN content[2][w] ELSE content[1][w]]
           IN  edited' = <<before, RefreshChecksums(before, placed, layout.scopes)>>
  BY DEF Rewrite
<1>2. PICK fields : fields = {a \in layout.addresses : IF a.len = 6 THEN macs ELSE ips} OBVIOUS
<1>3. PICK slots : slots = {layout.scopes[i].checksum_at : i \in DOMAIN layout.scopes} OBVIOUS
<1>4. PICK payload : payload = {w \in layout.payload_start..(captured - 1) : w % 2 = 0} OBVIOUS
<1>5. PICK replaced : replaced = (UNION {FieldWords(a) : a \in fields}) \union payload OBVIOUS
<1>6. PICK D : D = replaced \union slots OBVIOUS
<1>7. PICK before : before = [w \in D |-> content[1][w]] OBVIOUS
<1>8. PICK placed : placed = [w \in D |-> IF w \in replaced THEN content[2][w] ELSE content[1][w]] OBVIOUS
<1>9. edited' = <<before, RefreshChecksums(before, placed, layout.scopes)>>
  BY <1>1, <1>2, <1>3, <1>4, <1>5, <1>6, <1>7, <1>8
<1>10. /\ captured \in Nat /\ layout.addresses \subseteq AddressSpan /\ Sound(layout)
       /\ layout.payload_start \in Nat /\ layout.scopes \in Seq(ScopeRecord)
  BY DEF Walked, Sound, Layout
<1>11. ASSUME NEW a \in fields, NEW w \in FieldWords(a)
       PROVE  /\ a \in layout.addresses /\ a.off \in Nat /\ a.len \in {4, 6, 16}
              /\ a.off <= w /\ w < a.off + a.len /\ w \in 0..(captured - 1)
  <2>1. a \in layout.addresses /\ a \in FieldsOf(layout) BY <1>2 DEF FieldsOf
  <2>2. a.off \in Nat /\ a.len \in {4, 6, 16} /\ a.off + a.len <= captured
    BY <1>10, <2>1 DEF AddressSpan, Sound, InFrame, EndsBy
  <2>3. w \in a.off..(a.off + a.len - 1) BY DEF FieldWords
  <2>4. QED BY <1>10, <2>1, <2>2, <2>3
<1>12. ASSUME NEW w \in replaced PROVE w \in 0..(captured - 1)
  <2>1. CASE w \in payload BY <1>4, <1>10, <2>1
  <2>2. CASE w \notin payload
    <3>1. w \in (UNION {FieldWords(a) : a \in fields}) \union payload /\ w \notin payload BY <1>5, <2>2, Zenon
    <3>2. PICK a \in fields : w \in FieldWords(a) BY <3>1, OfOneField
    <3>3. QED BY <1>11, <3>2
  <2>3. QED BY <2>1, <2>2
<1>13. ASSUME NEW w \in slots PROVE w \in 0..(captured - 1)
  BY <1>3, <1>10, SlotsApart DEF ScopeRecord
<1>14. replaced \intersect slots = {}
  <2> SUFFICES ASSUME NEW i \in DOMAIN layout.scopes, layout.scopes[i].checksum_at \in replaced PROVE FALSE
    BY <1>3
  <2>1. PICK c \in Nat : c = layout.scopes[i].checksum_at BY SlotsApart DEF ScopeRecord
  <2>2. c + 2 <= layout.payload_start BY <2>1, SlotsApart
  <2>3. c \notin payload BY <1>4, <1>10, <2>2
  <2>4. c \in (UNION {FieldWords(a) : a \in fields}) \union payload BY <1>5, <2>1, Zenon
  <2>5. PICK a \in fields : c \in FieldWords(a) BY <2>3, <2>4, OfOneField
  <2>6. a \in layout.addresses /\ a.off \in Nat /\ a.len \in {4, 6, 16} /\ a.off <= c /\ c < a.off + a.len
    BY <1>11, <2>5
  <2>7. a.off + a.len <= c \/ c + 2 <= a.off BY <2>1, <2>6, SlotsApart
  <2>8. QED BY <2>6, <2>7
<1>15. IsFiniteSet(D) /\ D \subseteq Places
  <2>1. D \subseteq 0..(captured - 1) BY <1>6, <1>12, <1>13
  <2>2. IsFiniteSet(0..(captured - 1)) BY <1>10, FS_Interval
  <2>3. 0..(captured - 1) \subseteq Places BY DEF Places
  <2>4. QED BY <2>1, <2>2, <2>3, FS_Subset
<1>16. before \in Words(D) /\ placed \in Words(D)
  <2>1. content[1] \in [Places -> 0..Top] /\ content[2] \in [Places -> 0..Top] BY ContentsAssumption
  <2>2. \A w \in D : content[1][w] \in 0..Top /\ content[2][w] \in 0..Top BY <1>15, <2>1
  <2>3. QED BY <1>7, <1>8, <2>2 DEF Words
<1>17. \A i \in DOMAIN layout.scopes : layout.scopes[i].checksum_at \in D BY <1>3, <1>6
<1>18. \A i \in DOMAIN layout.scopes :
           placed[layout.scopes[i].checksum_at] = before[layout.scopes[i].checksum_at]
  BY <1>3, <1>7, <1>8, <1>14, <1>17
<1>19. PICK after : after = RefreshChecksums(before, placed, layout.scopes) OBVIOUS
<1>20. \A i \in DOMAIN layout.scopes : AsWrong(before, after, layout.scopes[i])
  <2>1. Ordered(D, layout.scopes) BY <1>17, ScopesInOrder
  <2>2. QED BY <1>10, <1>15, <1>16, <1>18, <1>19, <2>1, RefreshKeepsWrong
<1>21. edited'[1] = before /\ edited'[2] = after /\ layout' = layout /\ captured' = captured
  BY <1>9, <1>19 DEF Rewrite
<1>22. \A f, s : OnesSum(f, s)' = OnesSum(f, s)
  BY <1>21 DEF OnesSum, Feeds, Covered
<1>23. \A f, s : Feeds(f, s)' = Feeds(f, s) BY <1>21 DEF Feeds, Covered
<1>24. QED
  BY <1>20, <1>21, <1>22, <1>23 DEF AsWrongAsBefore, AsWrong

(* Only that step ends in a rewritten frame. *)
LEMMA WalkLeavesUnwritten == ASSUME Walk PROVE at' # "rewritten"
BY DEF Walk, Link, Ethernet, Sll, Sll2, Cooked, Loopback, RawIp, Ethertype, Mpls, Pppoe, Arp, Ipv4, Ipv6,
   Extension, Transport, Tcp, Udp, Vxlan, Geneve, Icmp, Icmpv6, NdOptions, Gre, Return, Call

(* AsWrongAsBefore: once the frame is rewritten every checksum, inner ones *)
(* included, is off by as much as it was, whatever was found, whichever    *)
(* kinds of address were replaced and whatever each word held and holds;   *)
(* one whose coverage is untouched is untouched, an updated one not zero.  *)
THEOREM AsWrongAsBeforeHolds == WalkSpec => []AsWrongAsBefore
<1>1. WalkInit => Walked /\ AsWrongAsBefore
  <2>1. WalkInit => at # "rewritten" BY DEF WalkInit
  <2>2. QED BY <2>1, WalkStarts DEF AsWrongAsBefore
<1>2. Walked /\ FrameTypeOK /\ AsWrongAsBefore /\ [WalkNext]_walkVars => (Walked /\ AsWrongAsBefore)'
  <2> SUFFICES ASSUME Walked, FrameTypeOK, AsWrongAsBefore, [WalkNext]_walkVars PROVE AsWrongAsBefore'
    BY WalkGoesOn
  <2>1. CASE Walk
    <3>1. at' # "rewritten" BY <2>1, WalkLeavesUnwritten
    <3>2. QED BY <3>1 DEF AsWrongAsBefore
  <2>2. CASE Rewrite BY <2>2, RewriteKeepsWrong DEF FrameTypeOK
  <2>3. CASE UNCHANGED walkVars
    <3>1. at' = at /\ captured' = captured /\ layout' = layout /\ edited' = edited
      BY <2>3 DEF walkVars
    <3>2. \A f, s : OnesSum(f, s)' = OnesSum(f, s) /\ Feeds(f, s)' = Feeds(f, s)
      BY <3>1 DEF OnesSum, Feeds, Covered
    <3>3. QED BY <3>1, <3>2 DEF AsWrongAsBefore
  <2>4. QED BY <2>1, <2>2, <2>3 DEF WalkNext
<1>3. QED BY <1>1, <1>2, FrameTypes, PTL DEF WalkSpec

-----------------------------------------------------------------------------
(* The verdict on port constraints: PortFilter, for any ports, any number  *)
(* of constraints and any limit to the search.                             *)

Passes(p, cs) == \A i \in DOMAIN cs : Satisfies(p, cs[i])

(* The port the search tries in the place of a packet's: itself if a term  *)
(* names it, and otherwise the one that stands for all the others.         *)
Tried(port, cs) == IF port \in Candidates(cs) THEN port ELSE Other

(* A packet that satisfies a constraint does so by a slot whose port the   *)
(* constraint names.                                                       *)
LEMMA SatisfiedByName ==
    ASSUME NEW I, NEW cs \in [I -> Constraints], NEW p \in Traffic,
           NEW i \in I, Satisfies(p, cs[i])
    PROVE  \E alt \in cs[i] :
              /\ alt.proto \in {"any", p.proto}
              /\ \/ "src" \in alt.slots /\ p.src \in alt.ports
                 \/ "dst" \in alt.slots /\ p.dst \in alt.ports
<1>1. PICK alt \in cs[i] :
         alt.proto \in {"any", p.proto} /\ \E slot \in alt.slots : p[slot] \in alt.ports
  BY DEF Satisfies
<1>2. cs[i] \in SUBSET Alternatives
  BY DEF Constraints
<1>3. alt.slots \subseteq {"src", "dst"}
  BY <1>1, <1>2 DEF Alternatives, Slots
<1>4. PICK slot \in alt.slots : p[slot] \in alt.ports
  BY <1>1
<1>5. slot = "src" \/ slot = "dst"
  BY <1>3, <1>4
<1>6. QED
  BY <1>1, <1>4, <1>5

(* Whatever a packet satisfies, the ports tried in its place satisfy.      *)
LEMMA TriedHolds ==
    ASSUME NEW I, NEW cs \in [I -> Constraints], NEW p \in Traffic,
           NEW i \in I, Satisfies(p, cs[i])
    PROVE  Holds(cs[i], p.proto, Tried(p.src, cs), Tried(p.dst, cs))
<1>1. PICK alt \in cs[i] :
         /\ alt.proto \in {"any", p.proto}
         /\ \/ "src" \in alt.slots /\ p.src \in alt.ports
            \/ "dst" \in alt.slots /\ p.dst \in alt.ports
  BY SatisfiedByName
<1>2. alt.ports \subseteq Candidates(cs)
  BY DEF Candidates, NamedPorts
<1>3. QED
  BY <1>1, <1>2 DEF Holds, Tried

(* "matches_nothing" is never said of constraints some packet satisfies,   *)
(* although only ports that are named and one other were tried             *)
(* (_satisfiable: sound for every packet there is).                        *)
THEOREM NothingMeansNothing ==
    ASSUME NEW I, IsFiniteSet(I), NEW cs \in [I -> Constraints], Verdict(cs) = "matches_nothing"
    PROVE  \A p \in Traffic : ~Passes(p, cs)
<1>1. ~Satisfiable(cs) /\ ~(Cardinality(I) < 2)
  BY DEF Verdict
<1>2. SUFFICES ASSUME NEW p \in Traffic, Passes(p, cs) PROVE FALSE
  OBVIOUS
<1>3. p.proto \in Protocols
  <2>1. I # {}
    BY <1>1, FS_EmptySet
  <2>2. QED BY <1>2, <2>1 DEF Passes, Satisfies
<1>4. \A i \in I : Holds(cs[i], p.proto, Tried(p.src, cs), Tried(p.dst, cs))
  BY <1>2, TriedHolds DEF Passes
<1>5. Tried(p.src, cs) \in Candidates(cs) \union {Other}
      /\ Tried(p.dst, cs) \in Candidates(cs) \union {Other}
  BY DEF Tried
<1>6. QED
  BY <1>1, <1>3, <1>4, <1>5 DEF Satisfiable

LEMMA NamedAreFew ==
    ASSUME NEW I, NEW cs \in [I -> Constraints]
    PROVE  Candidates(cs) \subseteq Ports /\ Cardinality(Candidates(cs)) \in Nat
<1>1. Candidates(cs) \subseteq Ports
  BY DEF Candidates, NamedPorts, Constraints, Alternatives
<1>2. QED
  BY <1>1, PortsAssumption, FS_Subset, FS_CardinalityType

(* Within the limit the search misses nothing either: constraints of which *)
(* the check is silent, or says that they match between services, are      *)
(* satisfied by some packet.                                               *)
THEOREM SearchMissesNothing ==
    ASSUME NEW I, NEW cs \in [I -> Constraints], ~(Cardinality(I) < 2), Ports # {},
           Cardinality(Candidates(cs)) <= MaxCandidates,
           Verdict(cs) # "matches_nothing"
    PROVE  \E p \in Traffic : Passes(p, cs)
<1>1. Satisfiable(cs)
  BY DEF Verdict
<1>2. ~ Cardinality(Candidates(cs)) > MaxCandidates
  BY NamedAreFew, LimitAssumption
<1>3. PICK proto \in Protocols,
           src \in Candidates(cs) \union {Other},
           dst \in Candidates(cs) \union {Other} :
         \A i \in I : Holds(cs[i], proto, src, dst)
  BY <1>1, <1>2 DEF Satisfiable
<1>4. PICK any \in Ports : TRUE
  OBVIOUS
<1>5. Candidates(cs) \subseteq Ports
  BY NamedAreFew
<1> DEFINE real(port) == IF port = Other THEN any ELSE port
           p == [proto |-> proto, src |-> real(src), dst |-> real(dst)]
<1>6. p \in Traffic
  BY <1>3, <1>4, <1>5 DEF Traffic
<1>7. ASSUME NEW i \in I PROVE Satisfies(p, cs[i])
  <2>1. PICK alt \in cs[i] :
           /\ alt.proto \in {"any", proto}
           /\ \/ "src" \in alt.slots /\ src \in alt.ports
              \/ "dst" \in alt.slots /\ dst \in alt.ports
    BY <1>3 DEF Holds
  <2>2. cs[i] \in SUBSET Alternatives
    BY DEF Constraints
  <2>3. Other \notin alt.ports
    BY <2>1, <2>2, OtherAssumption DEF Alternatives
  <2>4. \E slot \in alt.slots : p[slot] \in alt.ports
    BY <2>1, <2>3
  <2>5. p.proto = proto
    OBVIOUS
  <2>6. QED BY <1>3, <2>1, <2>4, <2>5 DEF Satisfies
<1>8. QED
  BY <1>6, <1>7 DEF Passes

(* "cross_service_only": both ports of every packet that matches are named,*)
(* by constraints that have no port in common, so that no packet between   *)
(* one of these services and anything else is captured.                    *)
THEOREM CrossMeansBetweenServices ==
    ASSUME NEW I, NEW cs \in [I -> Constraints], Verdict(cs) = "cross_service_only",
           NEW p \in Traffic, Passes(p, cs)
    PROVE  \E i, j \in I :
              /\ i # j
              /\ p.src \in NamedPorts(cs[i])
              /\ p.dst \in NamedPorts(cs[j])
              /\ NamedPorts(cs[i]) \intersect NamedPorts(cs[j]) = {}
<1>1. Cardinality(PortSets(cs)) >= 2 /\ PairwiseDisjoint(cs)
  BY DEF Verdict
<1>2. PICK i \in PortSets(cs), j \in PortSets(cs) : i # j
  <2>1. Cardinality({}) = 0 /\ \A x : Cardinality({x}) = 1
    BY FS_EmptySet, FS_Singleton
  <2>2. PortSets(cs) # {}
    BY <1>1, <2>1
  <2>3. PICK i \in PortSets(cs) : TRUE
    BY <2>2
  <2>4. PortSets(cs) # {i}
    <3>1. CASE PortSets(cs) = {i}
      <4>1. Cardinality(PortSets(cs)) = 1
        BY <2>1, <3>1
      <4>2. QED BY <1>1, <4>1
    <3>2. QED BY <3>1
  <2>5. QED BY <2>3, <2>4
<1>3. i \in I /\ j \in I
  BY DEF PortSets
<1>4. NamedPorts(cs[i]) \intersect NamedPorts(cs[j]) = {}
  BY <1>1, <1>2 DEF PairwiseDisjoint
<1>5. \A k \in I : p.src \in NamedPorts(cs[k]) \/ p.dst \in NamedPorts(cs[k])
  BY SatisfiedByName DEF Passes, NamedPorts
<1>6. QED
  BY <1>2, <1>3, <1>4, <1>5

-----------------------------------------------------------------------------
(* What a filter expression matches and what the code makes of it:         *)
(* FilterCheck, for expressions nested to any depth.                       *)

(* How far a node is from the last: operands are nearer.                   *)
Height(e) == [k \in DOMAIN e |-> Len(e) - k]

LEMMA TreeIs ==
    ASSUME NEW e, WellFormed(e)
    PROVE  /\ DOMAIN e = 1..Len(e) /\ Len(e) \in Nat /\ 1 \in DOMAIN e
           /\ IsFiniteSet(DOMAIN e)
           /\ Height(e) \in [DOMAIN e -> Nat]
<1>1. e \in Seq(PortTerms \union {Unknown} \union Negations \union Groups) /\ e # <<>>
  BY DEF WellFormed
<1>2. DOMAIN e = 1..Len(e) /\ Len(e) \in Nat /\ 1 \in DOMAIN e
  BY <1>1
<1>3. IsFiniteSet(DOMAIN e)
  BY <1>2, FS_Interval
<1>4. QED BY <1>2, <1>3 DEF Height

LEMMA NodeIs ==
    ASSUME NEW e, WellFormed(e), NEW k \in DOMAIN e
    PROVE  /\ \/ e[k].kind = "port" /\ e[k] \in PortTerms
              \/ e[k].kind = "unknown"
              \/ e[k].kind = "not" /\ e[k].of \in Operands(e[k])
              \/ e[k].kind = "group" /\ e[k] \in Groups
           /\ \A c \in Operands(e[k]) : c \in DOMAIN e /\ Height(e)[c] < Height(e)[k]
<1>1. e[k] \in PortTerms \union {Unknown} \union Negations \union Groups
  BY DEF WellFormed
<1>2. Operands(e[k]) \subseteq (k + 1)..Len(e)
  BY DEF WellFormed
<1>3. DOMAIN e = 1..Len(e) /\ Len(e) \in Nat
  BY TreeIs
<1>4. \A c \in Operands(e[k]) : c \in DOMAIN e /\ Len(e) - c < Len(e) - k
  BY <1>2, <1>3
<1>5. \/ e[k].kind = "port" /\ e[k] \in PortTerms
      \/ e[k].kind = "unknown"
      \/ e[k].kind = "not"
      \/ e[k].kind = "group" /\ e[k] \in Groups
  BY <1>1 DEF PortTerms, Unknown, Negations, Groups
<1>6. e[k].kind = "not" => e[k].of \in Operands(e[k])
  BY DEF Operands
<1>7. QED
  BY <1>4, <1>5, <1>6 DEF Height

(* A group has operands, and an operator before each but the first.        *)
LEMMA GroupIs ==
    ASSUME NEW e, WellFormed(e), NEW k \in DOMAIN e, e[k].kind = "group"
    PROVE  /\ 1 \in DOMAIN e[k].operands
           /\ Operands(e[k]) = {e[k].operands[i] : i \in DOMAIN e[k].operands}
           /\ Len(e[k].operands) = 1 => DOMAIN e[k].operands = {1}
           /\ \A i \in DOMAIN e[k].operands :
                 /\ i \in Nat
                 /\ i # 1 => /\ i > 1
                             /\ e[k].ops[i - 1] \in {"and", "or"}
                             /\ e[k].ops[i - 1] \in Range(e[k].ops)
           /\ Range(e[k].ops) \subseteq {"and", "or"}
           /\ \A x \in Range(e[k].ops) : \E i \in DOMAIN e[k].operands : i # 1 /\ e[k].ops[i - 1] = x
<1>1. PICK o : o = e[k] OBVIOUS
<1>2. o \in Groups
  BY <1>1, NodeIs
<1>3. o.operands \in Seq(Nat) /\ o.ops \in Seq({"and", "or"})
  BY <1>2 DEF Groups
<1>4. Len(o.operands) = Len(o.ops) + 1
  BY <1>1 DEF WellFormed
<1>5. /\ DOMAIN o.operands = 1..(Len(o.ops) + 1) /\ DOMAIN o.ops = 1..Len(o.ops)
      /\ Len(o.ops) \in Nat
  BY <1>3, <1>4
<1>6. \A i \in DOMAIN o.ops : o.ops[i] \in {"and", "or"} /\ o.ops[i] \in Range(o.ops)
  BY <1>3 DEF Range
<1>7. \A i \in DOMAIN o.operands : i \in Nat /\ (i # 1 => i > 1 /\ i - 1 \in DOMAIN o.ops)
  BY <1>5
<1>8. \A x \in Range(o.ops) : \E i \in DOMAIN o.operands : i # 1 /\ o.ops[i - 1] = x
  <2>1. SUFFICES ASSUME NEW j \in DOMAIN o.ops
                 PROVE  \E i \in DOMAIN o.operands : i # 1 /\ o.ops[i - 1] = o.ops[j]
    BY DEF Range
  <2>2. j + 1 \in DOMAIN o.operands /\ j + 1 # 1 /\ (j + 1) - 1 = j
    BY <1>5
  <2>3. QED BY <2>2
<1>9. Operands(o) = {o.operands[i] : i \in DOMAIN o.operands}
  BY <1>2 DEF Operands, Range, Groups
<1>10. Range(o.ops) \subseteq {"and", "or"}
  BY <1>6 DEF Range
<1>11. 1 \in DOMAIN o.operands /\ (Len(o.operands) = 1 => DOMAIN o.operands = {1})
  BY <1>4, <1>5
<1>12. QED
  BY <1>1, <1>6, <1>7, <1>8, <1>9, <1>10, <1>11

-----------------------------------------------------------------------------
(* Each recursive reading of an expression is what its equation says: what *)
(* is read of a node as a port term, whether a packet satisfies it, which  *)
(* constraints are gathered below it.                                      *)

IsRead(o) == o.kind = "port" /\ Cardinality(o.ports) <= MaxCandidates + 1

LEMMA WrapperIs ==
    ASSUME NEW e, WellFormed(e), NEW k \in DOMAIN e, IsWrapper(e[k])
    PROVE  /\ e[k].operands[1] \in DOMAIN e
           /\ Height(e)[e[k].operands[1]] < Height(e)[k]
<1>1. e[k].kind = "group"
  BY DEF IsWrapper
<1>2. e[k].operands[1] \in Operands(e[k])
  BY <1>1, GroupIs
<1>3. QED BY <1>2, NodeIs

LEMMA TermTyped ==
    ASSUME NEW e, WellFormed(e), NEW k \in DOMAIN e, e[k].kind = "port"
    PROVE  /\ TermOf(e[k]) \in Alternatives
           /\ TermOf(e[k]).ports # {} /\ TermOf(e[k]).slots # {}
           /\ TermOf(e[k]) # NoAlternative
<1>1. e[k] \in PortTerms
  BY NodeIs
<1>2. QED
  BY <1>1 DEF PortTerms, TermOf, Alternatives, NoAlternative

LEMMA AlternativeFound ==
    ASSUME NEW e, WellFormed(e)
    PROVE  \E read \in [DOMAIN e -> Alternatives] :
              /\ AlternativeOf(e) = read
              /\ \A k \in DOMAIN e :
                    read[k] = IF IsWrapper(e[k]) THEN read[e[k].operands[1]]
                              ELSE IF IsRead(e[k]) THEN TermOf(e[k])
                              ELSE NoAlternative
<1> DEFINE D == DOMAIN e
           rank == Height(e)
           Body(r) == [k \in D |-> IF IsWrapper(e[k]) THEN r[e[k].operands[1]]
                                   ELSE IF IsRead(e[k]) THEN TermOf(e[k])
                                   ELSE NoAlternative]
           G == [r \in [D -> Alternatives] |-> Body(r)]
<1>1. rank \in [D -> Nat]
  BY TreeIs
<1>2. NoAlternative \in Alternatives
  BY DEF NoAlternative, Alternatives
<1>3. \A k \in D : IsRead(e[k]) => TermOf(e[k]) \in Alternatives
  BY TermTyped DEF IsRead
<1>4. \A k \in D : IsWrapper(e[k]) => e[k].operands[1] \in D /\ rank[e[k].operands[1]] < rank[k]
  BY WrapperIs
<1>5. G \in [[D -> Alternatives] -> [D -> Alternatives]]
  BY <1>2, <1>3, <1>4
<1>6. LooksDown(G, D, Alternatives, rank)
  <2> SUFFICES ASSUME NEW f \in [D -> Alternatives], NEW g \in [D -> Alternatives], NEW k \in D,
                      \A c \in D : rank[c] < rank[k] => f[c] = g[c]
               PROVE  G[f][k] = G[g][k]
    BY <1>5 DEF LooksDown
  <2>1. IsWrapper(e[k]) => f[e[k].operands[1]] = g[e[k].operands[1]]
    BY <1>4
  <2>2. QED BY <2>1
<1>7. PICK f \in [D -> Alternatives] : f = G[f]
  <2>1. Alternatives # {} BY <1>2
  <2> HIDE DEF G, rank, D, Body
  <2>2. QED BY <1>1, <1>6, <2>1, Recursion
<1>8. f = Body(f) BY <1>7
<1>9. PICK read : read = CHOOSE r : r = Body(r) OBVIOUS
<1>10. read = Body(read) BY <1>8, <1>9
<1>11. AlternativeOf(e) = read
  BY <1>9 DEF AlternativeOf, IsWrapper, IsRead
<1>12. \A k \in D : read[k] \in Alternatives
  <2>1. PICK Bad : Bad = {k \in D : read[k] \notin Alternatives} OBVIOUS
  <2>2. \A k \in Bad : \E c \in Bad : rank[c] < rank[k]
    <3> SUFFICES ASSUME NEW k \in Bad PROVE \E c \in Bad : rank[c] < rank[k] OBVIOUS
    <3>1. k \in D /\ read[k] \notin Alternatives BY <2>1
    <3>2. IsWrapper(e[k]) /\ read[k] = read[e[k].operands[1]]
      BY <1>2, <1>3, <1>10, <3>1
    <3>3. QED BY <1>4, <2>1, <3>1, <3>2
  <2>3. Bad = {}
    <3>1. Bad \subseteq D BY <2>1
    <3> HIDE DEF rank, D
    <3>2. QED BY <1>1, <2>2, <3>1, NoneAtAll
  <2>4. QED BY <2>1, <2>3
<1>13. read \in [D -> Alternatives]
  <2>1. \A k \in D : Body(read)[k] \in Alternatives BY <1>10, <1>12
  <2>2. Body(read) \in [D -> Alternatives] BY <2>1
  <2>3. QED BY <1>10, <2>2
<1>14. QED BY <1>10, <1>11, <1>13

(* What a packet does to a tree, when `said` are the unknown terms that    *)
(* hold.                                                                   *)
DecidesAt(e, p, said, holds, k) ==
    \/ e[k].kind = "port" /\ Satisfies(p, {TermOf(e[k])})
    \/ e[k].kind = "unknown" /\ k \in said
    \/ e[k].kind = "not" /\ ~holds[e[k].of]
    \/ e[k].kind = "group" /\ HoldTogether(e[k], holds)
Decides(e, p, said, holds) == \A k \in DOMAIN e : holds[k] = DecidesAt(e, p, said, holds, k)

LEMMA TogetherLooksDown ==
    ASSUME NEW e, WellFormed(e), NEW k \in DOMAIN e, e[k].kind = "group",
           NEW f, NEW g, \A c \in Operands(e[k]) : f[c] = g[c]
    PROVE  HoldTogether(e[k], f) <=> HoldTogether(e[k], g)
<1>1. \A i \in DOMAIN e[k].operands : f[e[k].operands[i]] = g[e[k].operands[i]]
  BY GroupIs
<1>2. QED BY <1>1 DEF HoldTogether

LEMMA MatchFound ==
    ASSUME NEW e, WellFormed(e), NEW p, NEW said
    PROVE  \E holds \in [DOMAIN e -> BOOLEAN] :
              Matches(e, p, said) = holds[1] /\ Decides(e, p, said, holds)
<1> DEFINE D == DOMAIN e
           rank == Height(e)
           Body(h) == [k \in D |-> DecidesAt(e, p, said, h, k)]
           G == [h \in [D -> BOOLEAN] |-> Body(h)]
<1>1. rank \in [D -> Nat]
  BY TreeIs
<1>2. \A k \in D : \A h : DecidesAt(e, p, said, h, k) \in BOOLEAN
  BY DEF DecidesAt
<1>3. G \in [[D -> BOOLEAN] -> [D -> BOOLEAN]]
  BY <1>2
<1>4. LooksDown(G, D, BOOLEAN, rank)
  <2> SUFFICES ASSUME NEW f \in [D -> BOOLEAN], NEW g \in [D -> BOOLEAN], NEW k \in D,
                      \A c \in D : rank[c] < rank[k] => f[c] = g[c]
               PROVE  G[f][k] = G[g][k]
    BY <1>3 DEF LooksDown
  <2>1. \A c \in Operands(e[k]) : f[c] = g[c]
    BY NodeIs
  <2>2. e[k].kind = "not" => f[e[k].of] = g[e[k].of]
    BY <2>1, NodeIs
  <2>3. e[k].kind = "group" => (HoldTogether(e[k], f) <=> HoldTogether(e[k], g))
    BY <2>1, TogetherLooksDown
  <2>4. DecidesAt(e, p, said, f, k) <=> DecidesAt(e, p, said, g, k)
    BY <2>2, <2>3 DEF DecidesAt
  <2>5. QED BY <1>2, <2>4
<1>5. PICK h \in [D -> BOOLEAN] : h = G[h]
  <2>1. BOOLEAN # {} OBVIOUS
  <2> HIDE DEF G, rank, D, Body
  <2>2. QED BY <1>1, <1>4, <2>1, Recursion
<1>6. h = Body(h)
  BY <1>5
<1>7. PICK holds : holds = CHOOSE j : j = Body(j) OBVIOUS
<1>8. holds = Body(holds)
  BY <1>6, <1>7
<1>9. Matches(e, p, said) = holds[1]
  BY <1>7 DEF Matches, DecidesAt
<1>10. holds \in [D -> BOOLEAN]
  BY <1>2, <1>8
<1>11. \A k \in D : holds[k] = DecidesAt(e, p, said, holds, k)
  BY <1>8
<1>12. QED BY <1>9, <1>10, <1>11 DEF Decides

(* The nodes whose constraints _collect gathers of each node.              *)
Gathers(e, places) ==
    \A k \in DOMAIN e :
        places[k] = IF IsAnd(e[k]) THEN UNION {places[c] : c \in Operands(e[k])}
                    ELSE IF ConstraintAt(e, k) # {} THEN {k} ELSE {}

LEMMA PlacesFound ==
    ASSUME NEW e, WellFormed(e)
    PROVE  \E places \in [DOMAIN e -> SUBSET DOMAIN e] :
              /\ Collect(e) = [k \in places[1] |-> ConstraintAt(e, k)]
              /\ Gathers(e, places)
<1> DEFINE D == DOMAIN e
           rank == Height(e)
           At(h, k) == IF IsAnd(e[k]) THEN UNION {h[c] : c \in Operands(e[k])}
                       ELSE IF ConstraintAt(e, k) # {} THEN {k} ELSE {}
           Body(h) == [k \in D |-> At(h, k)]
           G == [h \in [D -> SUBSET D] |-> Body(h)]
<1>1. rank \in [D -> Nat]
  BY TreeIs
<1>2. \A k \in D : \A c \in Operands(e[k]) : c \in D /\ rank[c] < rank[k]
  BY NodeIs
<1>3. \A k \in D : \A h : (\A c \in Operands(e[k]) : h[c] \in SUBSET D) => At(h, k) \in SUBSET D
  OBVIOUS
<1>4. G \in [[D -> SUBSET D] -> [D -> SUBSET D]]
  <2> SUFFICES ASSUME NEW h \in [D -> SUBSET D], NEW k \in D PROVE At(h, k) \in SUBSET D
    OBVIOUS
  <2>1. \A c \in Operands(e[k]) : h[c] \in SUBSET D
    BY <1>2
  <2> HIDE DEF At
  <2>2. QED BY <1>3, <2>1
<1>5. LooksDown(G, D, SUBSET D, rank)
  <2> SUFFICES ASSUME NEW f \in [D -> SUBSET D], NEW g \in [D -> SUBSET D], NEW k \in D,
                      \A c \in D : rank[c] < rank[k] => f[c] = g[c]
               PROVE  G[f][k] = G[g][k]
    BY <1>4 DEF LooksDown
  <2>1. \A c \in Operands(e[k]) : f[c] = g[c]
    BY <1>2
  <2>2. {f[c] : c \in Operands(e[k])} = {g[c] : c \in Operands(e[k])}
    BY <2>1
  <2>3. At(f, k) = At(g, k)
    BY <2>2
  <2> HIDE DEF At
  <2>4. QED BY <2>3
<1>6. PICK h \in [D -> SUBSET D] : h = G[h]
  <2>1. SUBSET D # {} OBVIOUS
  <2> HIDE DEF G, rank, D, Body
  <2>2. QED BY <1>1, <1>5, <2>1, Recursion
<1>7. h = Body(h)
  <2> HIDE DEF At
  <2> QED BY <1>6
<1>8. PICK places : places = CHOOSE j : j = Body(j) OBVIOUS
<1>9. places = Body(places)
  <2> HIDE DEF Body
  <2> QED BY <1>7, <1>8
<1>10. Collect(e) = [k \in places[1] |-> ConstraintAt(e, k)]
  BY <1>8 DEF Collect
<1>11. \A k \in D : places[k] = At(places, k)
  <2> HIDE DEF At
  <2> QED BY <1>9
<1>12. \A k \in D : places[k] \in SUBSET D
  <2>1. PICK Bad : Bad = {k \in D : places[k] \notin SUBSET D} OBVIOUS
  <2>2. \A k \in Bad : \E c \in Bad : rank[c] < rank[k]
    <3> SUFFICES ASSUME NEW k \in Bad PROVE \E c \in Bad : rank[c] < rank[k] OBVIOUS
    <3>1. k \in D /\ places[k] \notin SUBSET D BY <2>1
    <3>2. PICK c \in Operands(e[k]) : places[c] \notin SUBSET D
      <4> HIDE DEF At
      <4> QED BY <1>3, <1>11, <3>1
    <3>3. QED BY <1>2, <2>1, <3>1, <3>2
  <2>3. Bad = {}
    <3>1. Bad \subseteq D BY <2>1
    <3> HIDE DEF rank, D
    <3>2. QED BY <1>1, <2>2, <3>1, NoneAtAll
  <2>4. QED BY <2>1, <2>3
<1>13. places \in [D -> SUBSET D]
  <2> HIDE DEF At
  <2>1. \A k \in D : Body(places)[k] \in SUBSET D BY <1>9, <1>12
  <2>2. Body(places) \in [D -> SUBSET D] BY <2>1
  <2>3. QED BY <1>9, <2>2
<1>14. QED BY <1>10, <1>11, <1>13 DEF Gathers

-----------------------------------------------------------------------------
(* What a node says and what is read of it agree.                          *)

LEMMA SatisfiesSome ==
    ASSUME NEW p, NEW c
    PROVE  Satisfies(p, c) <=> \E alt \in c : Satisfies(p, {alt})
  BY DEF Satisfies

LEMMA AlternativesAgree ==
    ASSUME NEW e, WellFormed(e), NEW p, NEW said, NEW holds, Decides(e, p, said, holds),
           NEW read, read = AlternativeOf(e), NEW k \in DOMAIN e, read[k] # NoAlternative
    PROVE  holds[k] <=> Satisfies(p, {read[k]})
<1>1. PICK Bad : Bad = {c \in DOMAIN e : read[c] # NoAlternative
                                         /\ ~(holds[c] <=> Satisfies(p, {read[c]}))}
  OBVIOUS
<1>2. \A c \in Bad : \E d \in Bad : Height(e)[d] < Height(e)[c]
  <2> SUFFICES ASSUME NEW c \in Bad PROVE \E d \in Bad : Height(e)[d] < Height(e)[c] OBVIOUS
  <2>1. c \in DOMAIN e /\ read[c] # NoAlternative /\ ~(holds[c] <=> Satisfies(p, {read[c]}))
    BY <1>1
  <2>2. holds[c] = DecidesAt(e, p, said, holds, c)
    BY <2>1 DEF Decides
  <2>3. read[c] = IF IsWrapper(e[c]) THEN read[e[c].operands[1]]
                  ELSE IF IsRead(e[c]) THEN TermOf(e[c])
                  ELSE NoAlternative
    BY <2>1, AlternativeFound
  <2>4. CASE IsWrapper(e[c])
    <3>1. PICK d \in DOMAIN e : d = e[c].operands[1]
      BY <2>1, <2>4, WrapperIs
    <3>2. Height(e)[d] < Height(e)[c]
      BY <2>1, <2>4, <3>1, WrapperIs
    <3>3. read[d] = read[c]
      BY <2>3, <2>4, <3>1
    <3>4. e[c].kind = "group" /\ DOMAIN e[c].operands = {1}
      BY <2>1, <2>4, GroupIs DEF IsWrapper
    <3>5. HoldTogether(e[c], holds) <=> holds[d]
      BY <3>1, <3>4 DEF HoldTogether
    <3>6. holds[c] <=> holds[d]
      BY <2>2, <3>4, <3>5 DEF DecidesAt
    <3>7. QED BY <1>1, <2>1, <3>2, <3>3, <3>6
  <2>5. CASE ~IsWrapper(e[c])
    <3>1. IsRead(e[c]) /\ read[c] = TermOf(e[c])
      BY <2>1, <2>3, <2>5
    <3>2. holds[c] <=> Satisfies(p, {TermOf(e[c])})
      BY <2>2, <3>1 DEF DecidesAt, IsRead
    <3>3. QED BY <2>1, <3>1, <3>2
  <2>6. QED BY <2>4, <2>5
<1>3. Bad = {}
  <2>1. Bad \subseteq DOMAIN e /\ Height(e) \in [DOMAIN e -> Nat]
    BY <1>1, TreeIs
  <2>2. QED BY <1>2, <2>1, NoneAtAll
<1>4. QED BY <1>1, <1>3

(* An `or` that is collected holds as its constraint does.                 *)
LEMMA OrAgrees ==
    ASSUME NEW e, WellFormed(e), NEW p, NEW said, NEW holds, Decides(e, p, said, holds),
           NEW k \in DOMAIN e, IsOr(e[k]), ConstraintAt(e, k) # {}
    PROVE  holds[k] <=> Satisfies(p, ConstraintAt(e, k))
<1>1. PICK o : o = e[k] OBVIOUS
<1>2. PICK read : read = AlternativeOf(e) OBVIOUS
<1>3. o.kind = "group" /\ "and" \notin Range(o.ops)
      /\ ConstraintAt(e, k) = {read[c] : c \in Operands(o)}
      /\ \A c \in Operands(o) : read[c] # NoAlternative
  BY <1>1, <1>2 DEF ConstraintAt, CollectOr, IsOr
<1>4. /\ Operands(o) = {o.operands[i] : i \in DOMAIN o.operands}
      /\ \A i \in DOMAIN o.operands : i = 1 \/ o.ops[i - 1] = "or"
      /\ \A i \in DOMAIN o.operands : i \in Nat
      /\ \A i \in DOMAIN o.operands : i > 1 => o.ops[i - 1] # "and"
  BY <1>1, <1>3, GroupIs
<1>5. \A j, i \in DOMAIN o.operands : j > i /\ o.ops[j - 1] = "and" => FALSE
  <2>1. 1 \in DOMAIN o.operands /\ \A i \in DOMAIN o.operands : i # 1 => i > 1
    BY <1>1, <1>3, GroupIs
  <2>2. QED BY <1>4, <2>1
<1>6. HoldTogether(o, holds) <=> \E i \in DOMAIN o.operands : holds[o.operands[i]]
  BY <1>4, <1>5 DEF HoldTogether
<1>7. HoldTogether(o, holds) <=> \E c \in Operands(o) : holds[c]
  BY <1>4, <1>6
<1>8. holds[k] <=> HoldTogether(o, holds)
  BY <1>1, <1>3 DEF Decides, DecidesAt
<1>9. \A c \in Operands(o) : holds[c] <=> Satisfies(p, {read[c]})
  <2> SUFFICES ASSUME NEW c \in Operands(o) PROVE holds[c] <=> Satisfies(p, {read[c]})
    OBVIOUS
  <2>1. c \in DOMAIN e BY <1>1, NodeIs
  <2>2. QED BY <1>2, <1>3, <2>1, AlternativesAgree
<1>10. Satisfies(p, ConstraintAt(e, k)) <=> \E c \in Operands(o) : Satisfies(p, {read[c]})
  BY <1>3, SatisfiesSome
<1>11. QED BY <1>7, <1>8, <1>9, <1>10

(* Operands joined by `and` alone hold together when each of them does.    *)
LEMMA AndHolds ==
    ASSUME NEW e, WellFormed(e), NEW p, NEW said, NEW holds, Decides(e, p, said, holds),
           NEW k \in DOMAIN e, IsAnd(e[k])
    PROVE  holds[k] <=> \A c \in Operands(e[k]) : holds[c]
<1>1. PICK o : o = e[k] OBVIOUS
<1>2. o.kind = "group" /\ "or" \notin Range(o.ops)
  BY <1>1 DEF IsAnd
<1>3. /\ 1 \in DOMAIN o.operands
      /\ Operands(o) = {o.operands[i] : i \in DOMAIN o.operands}
      /\ \A i \in DOMAIN o.operands : i # 1 => i > 1 /\ o.ops[i - 1] = "and"
  BY <1>1, <1>2, GroupIs
<1>4. HoldTogether(o, holds) <=> \A i \in DOMAIN o.operands : holds[o.operands[i]]
  BY <1>3 DEF HoldTogether
<1>5. holds[k] <=> HoldTogether(o, holds)
  BY <1>1, <1>2 DEF Decides, DecidesAt
<1>6. QED BY <1>1, <1>3, <1>4, <1>5

(* The constraint of a node that is no group of `and`s holds as it does.   *)
LEMMA ConstraintAgrees ==
    ASSUME NEW e, WellFormed(e), NEW p, NEW said, NEW holds, Decides(e, p, said, holds),
           NEW k \in DOMAIN e, ~IsAnd(e[k]), ConstraintAt(e, k) # {}
    PROVE  holds[k] <=> Satisfies(p, ConstraintAt(e, k))
<1>1. CASE IsOr(e[k])
  BY <1>1, OrAgrees
<1>2. CASE ~IsOr(e[k])
  <2>1. PICK read : read = AlternativeOf(e) OBVIOUS
  <2>2. ConstraintAt(e, k) = {read[k]} /\ read[k] # NoAlternative
    BY <1>2, <2>1 DEF ConstraintAt
  <2>3. QED BY <2>1, <2>2, AlternativesAgree
<1>3. QED BY <1>1, <1>2

(* Whatever brackets are around them, the constraints gathered at a node   *)
(* are satisfied when the node holds.                                      *)
LEMMA GatheredAreNecessary ==
    ASSUME NEW e, WellFormed(e), NEW p, NEW said, NEW holds, Decides(e, p, said, holds),
           NEW places \in [DOMAIN e -> SUBSET DOMAIN e], Gathers(e, places),
           NEW k \in DOMAIN e, holds[k]
    PROVE  \A q \in places[k] : Satisfies(p, ConstraintAt(e, q))
<1> DEFINE Necessary(c) == holds[c] => \A q \in places[c] : Satisfies(p, ConstraintAt(e, q))
<1>1. PICK Bad : Bad = {c \in DOMAIN e : ~Necessary(c)}
  OBVIOUS
<1>2. \A c \in Bad : \E d \in Bad : Height(e)[d] < Height(e)[c]
  <2> SUFFICES ASSUME NEW c \in Bad PROVE \E d \in Bad : Height(e)[d] < Height(e)[c] OBVIOUS
  <2>1. c \in DOMAIN e /\ holds[c]
    BY <1>1
  <2>2. PICK q \in places[c] : ~Satisfies(p, ConstraintAt(e, q))
    BY <1>1
  <2>3. places[c] = IF IsAnd(e[c]) THEN UNION {places[d] : d \in Operands(e[c])}
                    ELSE IF ConstraintAt(e, c) # {} THEN {c} ELSE {}
    BY <2>1 DEF Gathers
  <2>4. CASE IsAnd(e[c])
    <3>1. PICK d \in Operands(e[c]) : q \in places[d]
      BY <2>2, <2>3, <2>4
    <3>2. d \in DOMAIN e /\ Height(e)[d] < Height(e)[c]
      BY <2>1, NodeIs
    <3>3. holds[d]
      BY <2>1, <2>4, AndHolds
    <3>4. d \in Bad
      BY <1>1, <2>2, <3>1, <3>2, <3>3
    <3>5. QED BY <3>2, <3>4
  <2>5. CASE ~IsAnd(e[c])
    <3>1. q = c /\ ConstraintAt(e, c) # {}
      BY <2>2, <2>3, <2>5
    <3>2. QED BY <2>1, <2>2, <2>5, <3>1, ConstraintAgrees
  <2>6. QED BY <2>4, <2>5
<1>3. Bad = {}
  <2>1. Bad \subseteq DOMAIN e /\ Height(e) \in [DOMAIN e -> Nat]
    BY <1>1, TreeIs
  <2> HIDE DEF Necessary
  <2>2. QED BY <1>2, <2>1, NoneAtAll
<1>4. Necessary(k) BY <1>1, <1>3
<1>5. QED BY <1>4

(* Of an expression that is understood, they are all there is to it.       *)
LEMMA GatheredAreEnough ==
    ASSUME NEW e, WellFormed(e), NEW p, NEW said, NEW holds, Decides(e, p, said, holds),
           NEW places \in [DOMAIN e -> SUBSET DOMAIN e], Gathers(e, places), Understood(e),
           NEW k \in DOMAIN e, \A q \in places[k] : Satisfies(p, ConstraintAt(e, q))
    PROVE  holds[k]
<1> DEFINE Enough(c) == (\A q \in places[c] : Satisfies(p, ConstraintAt(e, q))) => holds[c]
<1>1. PICK Bad : Bad = {c \in DOMAIN e : ~Enough(c)}
  OBVIOUS
<1>2. \A c \in Bad : \E d \in Bad : Height(e)[d] < Height(e)[c]
  <2> SUFFICES ASSUME NEW c \in Bad PROVE \E d \in Bad : Height(e)[d] < Height(e)[c] OBVIOUS
  <2>1. c \in DOMAIN e /\ ~holds[c] /\ \A q \in places[c] : Satisfies(p, ConstraintAt(e, q))
    BY <1>1
  <2>2. places[c] = IF IsAnd(e[c]) THEN UNION {places[d] : d \in Operands(e[c])}
                    ELSE IF ConstraintAt(e, c) # {} THEN {c} ELSE {}
    BY <2>1 DEF Gathers
  <2>3. CASE IsAnd(e[c])
    <3>1. PICK d \in Operands(e[c]) : ~holds[d]
      BY <2>1, <2>3, AndHolds
    <3>2. d \in DOMAIN e /\ Height(e)[d] < Height(e)[c]
      BY <2>1, NodeIs
    <3>3. places[d] \subseteq places[c]
      BY <2>2, <2>3, <3>1
    <3>4. d \in Bad
      BY <1>1, <2>1, <3>1, <3>2, <3>3
    <3>5. QED BY <3>2, <3>4
  <2>4. CASE ~IsAnd(e[c])
    <3>1. ConstraintAt(e, c) # {}
      BY <2>1, <2>4 DEF Understood
    <3>2. c \in places[c]
      BY <2>2, <2>4, <3>1
    <3>3. QED BY <2>1, <2>4, <3>1, <3>2, ConstraintAgrees
  <2>5. QED BY <2>3, <2>4
<1>3. Bad = {}
  <2>1. Bad \subseteq DOMAIN e /\ Height(e) \in [DOMAIN e -> Nat]
    BY <1>1, TreeIs
  <2> HIDE DEF Enough
  <2>2. QED BY <1>2, <2>1, NoneAtAll
<1>4. Enough(k) BY <1>1, <1>3
<1>5. QED BY <1>4

-----------------------------------------------------------------------------
(* What the constraints of an expression say of the packets it matches.    *)

(* What is read is a term that some packet satisfies.                      *)
LEMMA ReadIsTerm ==
    ASSUME NEW e, WellFormed(e), NEW k \in DOMAIN e, AlternativeOf(e)[k] # NoAlternative
    PROVE  AlternativeOf(e)[k].ports # {} /\ AlternativeOf(e)[k].slots # {}
<1>1. PICK read : read = AlternativeOf(e) OBVIOUS
<1> DEFINE IsTerm(alt) == alt.ports # {} /\ alt.slots # {}
<1>2. PICK Bad : Bad = {c \in DOMAIN e : read[c] # NoAlternative /\ ~IsTerm(read[c])}
  OBVIOUS
<1>3. \A c \in Bad : \E d \in Bad : Height(e)[d] < Height(e)[c]
  <2> SUFFICES ASSUME NEW c \in Bad PROVE \E d \in Bad : Height(e)[d] < Height(e)[c] OBVIOUS
  <2>1. c \in DOMAIN e /\ read[c] # NoAlternative /\ ~IsTerm(read[c])
    BY <1>2
  <2>2. read[c] = IF IsWrapper(e[c]) THEN read[e[c].operands[1]]
                  ELSE IF IsRead(e[c]) THEN TermOf(e[c])
                  ELSE NoAlternative
    BY <1>1, <2>1, AlternativeFound
  <2>3. IsRead(e[c]) => IsTerm(TermOf(e[c]))
    BY <2>1, TermTyped DEF IsRead
  <2>4. IsWrapper(e[c]) /\ read[c] = read[e[c].operands[1]]
    BY <2>1, <2>2, <2>3
  <2>5. PICK d \in DOMAIN e : d = e[c].operands[1] /\ Height(e)[d] < Height(e)[c]
    BY <2>1, <2>4, WrapperIs
  <2>6. QED BY <1>2, <2>1, <2>4, <2>5
<1>4. Bad = {}
  <2>1. Bad \subseteq DOMAIN e /\ Height(e) \in [DOMAIN e -> Nat]
    BY <1>2, TreeIs
  <2>2. QED BY <1>3, <2>1, NoneAtAll
<1>5. QED BY <1>1, <1>2, <1>4

LEMMA ConstraintIs ==
    ASSUME NEW e, WellFormed(e), NEW k \in DOMAIN e
    PROVE  /\ ConstraintAt(e, k) \in Constraints
           /\ \A alt \in ConstraintAt(e, k) : alt.ports # {} /\ alt.slots # {}
<1>1. PICK read \in [DOMAIN e -> Alternatives] : read = AlternativeOf(e)
  BY AlternativeFound
<1>2. \A c \in Operands(e[k]) : c \in DOMAIN e
  BY NodeIs
<1>3. \A alt \in ConstraintAt(e, k) : \E c \in DOMAIN e : alt = read[c] /\ alt # NoAlternative
  <2>1. CASE IsOr(e[k])
    <3>1. ConstraintAt(e, k) = CollectOr(e, e[k])
      BY <2>1 DEF ConstraintAt
    <3>2. QED BY <1>1, <1>2, <3>1 DEF CollectOr
  <2>2. CASE ~IsOr(e[k])
    BY <1>1, <2>2 DEF ConstraintAt
  <2>3. QED BY <2>1, <2>2
<1>4. \A alt \in ConstraintAt(e, k) : alt \in Alternatives
  BY <1>1, <1>3
<1>5. \A alt \in ConstraintAt(e, k) : alt.ports # {} /\ alt.slots # {}
  BY <1>1, <1>3, ReadIsTerm
<1>6. QED BY <1>4, <1>5 DEF Constraints

LEMMA CollectIs ==
    ASSUME NEW e, WellFormed(e)
    PROVE  \E places \in [DOMAIN e -> SUBSET DOMAIN e] :
              /\ Gathers(e, places)
              /\ Collect(e) = [k \in places[1] |-> ConstraintAt(e, k)]
              /\ Collect(e) \in [places[1] -> Constraints]
              /\ places[1] \subseteq DOMAIN e
              /\ IsFiniteSet(places[1])
<1>1. PICK places \in [DOMAIN e -> SUBSET DOMAIN e] :
         Collect(e) = [k \in places[1] |-> ConstraintAt(e, k)] /\ Gathers(e, places)
  BY PlacesFound
<1>2. places[1] \subseteq DOMAIN e
  BY TreeIs
<1>3. IsFiniteSet(places[1])
  BY <1>2, TreeIs, FS_Subset
<1>4. \A k \in places[1] : ConstraintAt(e, k) \in Constraints
  BY <1>2, ConstraintIs
<1>5. [k \in places[1] |-> ConstraintAt(e, k)] \in [places[1] -> Constraints]
  BY <1>4
<1>6. QED BY <1>1, <1>2, <1>3, <1>5

(* Every packet an expression without `not` matches passes its constraints.*)
LEMMA MatchedPasses ==
    ASSUME NEW e, WellFormed(e), NEW p \in MatchedBy(e)
    PROVE  Passes(p, Collect(e))
<1>1. PICK said : Matches(e, p, said)
  BY DEF MatchedBy
<1>2. PICK holds \in [DOMAIN e -> BOOLEAN] :
         Matches(e, p, said) = holds[1] /\ Decides(e, p, said, holds)
  BY MatchFound
<1>3. PICK places \in [DOMAIN e -> SUBSET DOMAIN e] :
         Gathers(e, places) /\ Collect(e) = [k \in places[1] |-> ConstraintAt(e, k)]
  BY CollectIs
<1>4. 1 \in DOMAIN e /\ holds[1]
  BY <1>1, <1>2, TreeIs
<1>5. \A q \in places[1] : Satisfies(p, ConstraintAt(e, q))
  BY <1>2, <1>3, <1>4, GatheredAreNecessary
<1>6. QED BY <1>3, <1>5 DEF Passes

(* An expression that is understood constrains something.                  *)
LEMMA UnderstoodConstrains ==
    ASSUME NEW e, WellFormed(e), Understood(e),
           NEW places \in [DOMAIN e -> SUBSET DOMAIN e], Gathers(e, places), NEW k \in DOMAIN e
    PROVE  \E q \in places[k] : ConstraintAt(e, q) # {}
<1>1. PICK Bad : Bad = {c \in DOMAIN e : \A q \in places[c] : ConstraintAt(e, q) = {}}
  OBVIOUS
<1>2. \A c \in Bad : \E d \in Bad : Height(e)[d] < Height(e)[c]
  <2> SUFFICES ASSUME NEW c \in Bad PROVE \E d \in Bad : Height(e)[d] < Height(e)[c] OBVIOUS
  <2>1. c \in DOMAIN e /\ \A q \in places[c] : ConstraintAt(e, q) = {}
    BY <1>1
  <2>2. places[c] = IF IsAnd(e[c]) THEN UNION {places[d] : d \in Operands(e[c])}
                    ELSE IF ConstraintAt(e, c) # {} THEN {c} ELSE {}
    BY <2>1 DEF Gathers
  <2>3. IsAnd(e[c])
    BY <2>1, <2>2 DEF Understood
  <2>4. PICK d : d \in Operands(e[c])
    BY <2>1, <2>3, GroupIs DEF IsAnd
  <2>5. d \in DOMAIN e /\ Height(e)[d] < Height(e)[c]
    BY <2>1, <2>4, NodeIs
  <2>6. places[d] \subseteq places[c]
    BY <2>2, <2>3, <2>4
  <2>7. QED BY <1>1, <2>1, <2>5, <2>6
<1>3. Bad = {}
  <2>1. Bad \subseteq DOMAIN e /\ Height(e) \in [DOMAIN e -> Nat]
    BY <1>1, TreeIs
  <2>2. QED BY <1>2, <2>1, NoneAtAll
<1>4. QED BY <1>1, <1>3

(* A single term is satisfied by some packet.                              *)
LEMMA TermIsSatisfiable ==
    ASSUME NEW alt \in Alternatives, alt.ports # {}, alt.slots # {}
    PROVE  Ports # {} /\ \E p \in Traffic : Satisfies(p, {alt})
<1>1. PICK port \in alt.ports, slot \in alt.slots : TRUE
  OBVIOUS
<1>2. port \in Ports /\ slot \in {"src", "dst"}
  BY <1>1 DEF Alternatives, Slots
<1>3. PICK proto \in Protocols : alt.proto \in {"any", proto}
  BY DEF Alternatives, Protocols
<1>4. PICK p \in Traffic : p = [proto |-> proto, src |-> port, dst |-> port]
  BY <1>2, <1>3 DEF Traffic
<1>5. p.proto = proto /\ p[slot] = port
  BY <1>2, <1>4
<1>6. Satisfies(p, {alt})
  BY <1>1, <1>3, <1>5 DEF Satisfies
<1>7. QED BY <1>2, <1>6

(* An expression that is understood, of which it is not said that it       *)
(* matches nothing, matches something.                                     *)
LEMMA UnderstoodIsExact ==
    ASSUME NEW e, WellFormed(e), Understood(e), StructuralCheck(e) # "matches_nothing",
           Cardinality(Candidates(Collect(e))) <= MaxCandidates
    PROVE  MatchedBy(e) # {}
<1>1. ~Negates(e)
  <2> SUFFICES ASSUME NEW k \in DOMAIN e, e[k].kind = "not" PROVE FALSE
    BY DEF Negates
  <2>1. AlternativeOf(e)[k] = NoAlternative
    BY AlternativeFound DEF IsWrapper, IsRead
  <2>2. ~IsAnd(e[k]) /\ ConstraintAt(e, k) = {}
    BY <2>1 DEF IsAnd, IsOr, ConstraintAt
  <2>3. QED BY <2>2 DEF Understood
<1>2. Verdict(Collect(e)) # "matches_nothing"
  BY <1>1 DEF StructuralCheck
<1>3. PICK places \in [DOMAIN e -> SUBSET DOMAIN e] :
         /\ Gathers(e, places)
         /\ Collect(e) = [k \in places[1] |-> ConstraintAt(e, k)]
         /\ Collect(e) \in [places[1] -> Constraints]
         /\ places[1] \subseteq DOMAIN e
         /\ IsFiniteSet(places[1])
  BY CollectIs
<1>4. 1 \in DOMAIN e
  BY TreeIs
<1>5. PICK q \in places[1] : ConstraintAt(e, q) # {}
  BY <1>3, <1>4, UnderstoodConstrains
<1>6. PICK alt \in ConstraintAt(e, q) : TRUE
  BY <1>5
<1>7. q \in DOMAIN e /\ alt \in Alternatives /\ alt.ports # {} /\ alt.slots # {}
  BY <1>3, <1>5, <1>6, ConstraintIs DEF Constraints
<1>8. Ports # {} /\ \E p \in Traffic : Satisfies(p, {alt})
  BY <1>7, TermIsSatisfiable
<1>9. \E p \in Traffic : \A k \in places[1] : Satisfies(p, ConstraintAt(e, k))
  <2>1. CASE ~(Cardinality(places[1]) < 2)
    <3>1. PICK p \in Traffic : Passes(p, Collect(e))
      BY <1>2, <1>3, <1>8, <2>1, SearchMissesNothing
    <3>2. QED BY <1>3, <3>1 DEF Passes
  <2>2. CASE Cardinality(places[1]) < 2
    <3>1. places[1] = {q}
      <4>1. PICK C : C = places[1] \ {q} OBVIOUS
      <4>2. Cardinality(C) = Cardinality(places[1]) - 1 /\ IsFiniteSet(C)
        BY <1>3, <1>5, <4>1, FS_RemoveElement
      <4>3. Cardinality(places[1]) \in Nat /\ Cardinality(C) \in Nat
        BY <1>3, <4>2, FS_CardinalityType
      <4>4. C = {}
        BY <2>2, <4>2, <4>3, FS_EmptySet
      <4>5. QED BY <1>5, <4>1, <4>4
    <3>2. PICK p \in Traffic : Satisfies(p, {alt})
      BY <1>8
    <3>3. Satisfies(p, ConstraintAt(e, q))
      BY <1>6, <3>2, SatisfiesSome
    <3>4. QED BY <3>1, <3>2, <3>3
  <2>3. QED BY <2>1, <2>2
<1>10. PICK p \in Traffic : \A k \in places[1] : Satisfies(p, ConstraintAt(e, k))
  BY <1>9
<1>11. PICK holds \in [DOMAIN e -> BOOLEAN] :
          Matches(e, p, {}) = holds[1] /\ Decides(e, p, {}, holds)
  BY MatchFound
<1>12. holds[1]
  BY <1>3, <1>4, <1>10, <1>11, GatheredAreEnough
<1>13. QED
  BY <1>11, <1>12 DEF MatchedBy

-----------------------------------------------------------------------------
(* The inductive invariant: what the structure answered is about the       *)
(* expression that is edited.                                              *)
Answered ==
    /\ expr \in Expressions
    /\ Structural => warning.says = StructuralCheck(expr)

LEMMA CheckKeeps == CheckSpec => []Answered
<1>1. CheckInit => Answered
  BY DEF CheckInit, Answered, Structural, NoAnswer
<1>2. Answered /\ [CheckNext]_checkVars => Answered'
  <2> SUFFICES ASSUME Answered, [CheckNext]_checkVars PROVE Answered'
    OBVIOUS
  <2> USE DEF Answered, Structural
  <2>1. CASE Ask
    BY <2>1 DEF Ask
  <2>2. ASSUME NEW says \in {"matches_nothing", "invalid"}, CompileFinds(says) PROVE Answered'
    BY <2>2 DEF CompileFinds
  <2>3. CASE CompileQuiet
    BY <2>3 DEF CompileQuiet
  <2>4. CASE MinutePasses
    BY <2>4 DEF MinutePasses
  <2>5. CASE UNCHANGED checkVars
    BY <2>5 DEF checkVars
  <2>6. QED
    BY <2>1, <2>2, <2>3, <2>4, <2>5 DEF CheckNext
<1>3. QED BY <1>1, <1>2, PTL DEF CheckSpec

LEMMA SaidOfConstraints ==
    ASSUME NEW e, StructuralCheck(e) # "quiet"
    PROVE  ~Negates(e) /\ Verdict(Collect(e)) = StructuralCheck(e)
  BY DEF StructuralCheck

(* However an expression is bracketed, whatever of it is not understood,   *)
(* it is said to match nothing only if no packet matches it: what the code *)
(* collects of it every packet it matches satisfies                        *)
(* (GatheredAreNecessary), and what is satisfied the search finds.         *)
THEOREM NeverWronglyEmptyHolds == CheckSpec => []NeverWronglyEmpty
<1>1. Answered => NeverWronglyEmpty
  <2> SUFFICES ASSUME Answered, Structural, warning.says = "matches_nothing",
                      NEW p \in MatchedBy(expr)
               PROVE  FALSE
    BY DEF NeverWronglyEmpty
  <2>1. WellFormed(expr) /\ StructuralCheck(expr) = "matches_nothing"
    BY ExpressionsAssumption DEF Answered
  <2>2. Verdict(Collect(expr)) = "matches_nothing"
    BY <2>1, SaidOfConstraints
  <2>3. PICK I : IsFiniteSet(I) /\ Collect(expr) \in [I -> Constraints]
    BY <2>1, CollectIs
  <2>4. p \in Traffic /\ Passes(p, Collect(expr))
    BY <2>1, MatchedPasses DEF MatchedBy
  <2>5. QED BY <2>2, <2>3, <2>4, NothingMeansNothing
<1>2. QED BY <1>1, CheckKeeps, PTL

(* ... and to match only what goes between services, only if both ports of *)
(* every packet it matches are named by different constraints of it.       *)
THEOREM CrossMeansBetweenHolds == CheckSpec => []CrossMeansBetween
<1>1. Answered => CrossMeansBetween
  <2> SUFFICES ASSUME Answered, Structural, warning.says = "cross_service_only",
                      NEW p \in MatchedBy(expr)
               PROVE  \E i, j \in DOMAIN Collect(expr) :
                         /\ i # j
                         /\ p.src \in NamedPorts(Collect(expr)[i])
                         /\ p.dst \in NamedPorts(Collect(expr)[j])
    BY DEF CrossMeansBetween
  <2>1. WellFormed(expr) /\ StructuralCheck(expr) = "cross_service_only"
    BY ExpressionsAssumption DEF Answered
  <2>2. Verdict(Collect(expr)) = "cross_service_only"
    BY <2>1, SaidOfConstraints
  <2>3. PICK I : Collect(expr) \in [I -> Constraints]
    BY <2>1, CollectIs
  <2>4. p \in Traffic /\ Passes(p, Collect(expr))
    BY <2>1, MatchedPasses DEF MatchedBy
  <2>5. DOMAIN Collect(expr) = I
    BY <2>3
  <2>6. QED BY <2>2, <2>3, <2>4, <2>5, CrossMeansBetweenServices
<1>2. QED BY <1>1, CheckKeeps, PTL

(* Of an expression that it understands, and within the limit of the       *)
(* search, the check misses nothing: what it collects is all that the      *)
(* expression says (GatheredAreEnough), so that a packet that passes it    *)
(* is matched.                                                             *)
THEOREM MissesNothingHolds == CheckSpec => []MissesNothing
<1>1. Answered => MissesNothing
  <2> SUFFICES ASSUME Answered, Structural, Understood(expr), MatchedBy(expr) = {},
                      Cardinality(Candidates(Collect(expr))) <= MaxCandidates
               PROVE  warning.says = "matches_nothing"
    BY DEF MissesNothing
  <2>1. WellFormed(expr) /\ warning.says = StructuralCheck(expr)
    BY ExpressionsAssumption DEF Answered
  <2>2. QED BY <2>1, UnderstoodIsExact
<1>2. QED BY <1>1, CheckKeeps, PTL
=============================================================================
