----------------------------- MODULE FrameWalk -----------------------------
(***************************************************************************)
(* Where the addresses and checksums of one frame are, and how the         *)
(* checksums follow an edit: walk and refresh_checksums                    *)
(* (backend/framewalk.py), as _FrameRewriter.rewrite calls them.           *)
(*                                                                         *)
(* A frame is its captured length.  What a header says is chosen when the  *)
(* walker reads it, which it does once, since it only moves forward: every *)
(* choice is some frame.  Offsets are the code's, in bytes; captured and   *)
(* claimed lengths are even here, so that a 16-bit word is covered wholly  *)
(* or not at all.  The transport's name and ports are left out.            *)
(***************************************************************************)
EXTENDS Integers, Sequences, FiniteSets, SequencesExt

CONSTANTS
    Lengths,   \* captured lengths of a frame
    Claims,    \* what a total or payload length field may say
    Sizes,     \* what a header's own length field may say, in its unit
    MaxDepth,  \* MAX_DEPTH
    MaxLoops,  \* bound: tags, labels, extension headers and options in a frame
    Contents,  \* what the words of a frame hold, and what would be written there
    Top        \* 0xFFFF: the largest value of a word, and the sums' modulus

(* The offsets in a frame. *)
Places == UNION {0..(n - 1) : n \in Lengths}

ASSUME LengthsAssumption == Lengths \subseteq Nat /\ Claims \subseteq Nat /\ Sizes \subseteq Nat
ASSUME BoundsAssumption == MaxDepth \in Nat /\ MaxLoops \in Nat
ASSUME TopAssumption == Top \in Nat /\ Top > 1
ASSUME ContentsAssumption == Contents \subseteq [Places -> 0..Top] \X [Places -> 0..Top]

VARIABLES
    captured, \* bytes of the frame
    at,       \* the function about to read
    off,      \* where it reads
    depth,    \* how deep in tunnels, errors and IP in IP
    end,      \* where the enclosing IP packet ends, as far as captured
    pseudo,   \* address fields of the enclosing IP header
    over4,    \* the enclosing IP header is IPv4
    loops,    \* repetitions left
    layout,   \* what has been found: addresses, scopes, payload_start
    edited    \* <<words before, words after>> once the frame is rewritten

walkVars == <<captured, at, off, depth, end, pseudo, over4, loops, layout, edited>>

Field(o, len) == [off |-> o, len |-> len]
Scope(a, from, to, fed) == [checksum_at |-> a, start |-> from, end |-> to, pseudo |-> fed]

Functions ==
    {"link", "ethernet", "sll", "sll2", "loopback", "raw_ip", "ethertype", "mpls", "pppoe",
     "arp", "ipv4", "ipv6", "extension", "transport", "tcp", "udp", "vxlan", "geneve", "icmp",
     "icmpv6", "nd_options", "gre", "done", "rewritten"}

Smaller(a, b) == IF a < b THEN a ELSE b
Larger(a, b) == IF a < b THEN b ELSE a

----------------------------------------------------------------------------
(* The walker's helpers. *)

Has(o, len) == o + len <= captured

(* Mutant: an address is noted wherever its header says it is. *)
AddressUnchecked(l, o, len) == [l EXCEPT !.addresses = @ \union {Field(o, len)}]

Address(l, o, len) ==
    IF Has(o, len) THEN [l EXCEPT !.addresses = @ \union {Field(o, len)}] ELSE l

HeaderEnd(l, o) == [l EXCEPT !.payload_start = Smaller(o, captured)]

AddScope(l, s) == [l EXCEPT !.scopes = Append(@, s)]

(* A call of the next function, and a return from all of them. *)
Call(what, o, d, l) ==
    /\ at' = what /\ off' = o /\ depth' = d /\ layout' = l
    /\ UNCHANGED <<captured, edited>>
SameContext == UNCHANGED <<end, pseudo, over4, loops>>
Return == Call("done", off, depth, layout) /\ SameContext

(* One more round of a loop over tags, labels, headers or options. *)
Again == loops > 0 /\ loops' = loops - 1 /\ UNCHANGED <<end, pseudo, over4>>

----------------------------------------------------------------------------
(* Link layer. *)

Link ==
    /\ at = "link"
    /\ \E to \in {"ethernet", "sll", "sll2", "raw_ip", "loopback"} :
          Call(to, 0, 0, layout) /\ SameContext

Ethernet ==
    /\ at = "ethernet"
    /\ IF depth > MaxDepth \/ ~Has(off, 14) THEN Return
       ELSE /\ Call("ethertype", off + 14, depth,
                    HeaderEnd(Address(Address(layout, off, 6), off + 6, 6), off + 14))
            /\ SameContext

(* The cooked headers hold one address, when its length says it is a MAC.  *)
Cooked(name, length, where) ==
    /\ at = name
    /\ IF ~Has(off, length) THEN Return
       ELSE \E mac \in BOOLEAN :
              /\ Call("ethertype", off + length, 0,
                      HeaderEnd(IF mac THEN Address(layout, off + where, 6) ELSE layout, off + length))
              /\ SameContext
Sll == Cooked("sll", 16, 6)
Sll2 == Cooked("sll2", 20, 12)

Loopback ==
    /\ at = "loopback"
    /\ IF ~Has(off, 4) THEN Return
       ELSE \E family \in {"ipv4", "ipv6", "done"} :
              Call(family, off + 4, 0, HeaderEnd(layout, off + 4)) /\ SameContext

RawIp ==
    /\ at = "raw_ip"
    /\ IF ~Has(off, 1) THEN Return
       ELSE \E version \in {"ipv4", "ipv6", "done"} :
              Call(version, off, depth, layout) /\ SameContext

Ethertype ==
    /\ at = "ethertype"
    /\ \/ Has(off, 4) /\ Again /\ Call("ethertype", off + 4, depth, HeaderEnd(layout, off + 4))
       \/ \E to \in {"ipv4", "ipv6", "arp", "mpls", "pppoe", "done"} :
             Call(to, off, depth, layout) /\ SameContext

Mpls ==
    /\ at = "mpls"
    /\ IF ~Has(off, 4) THEN Return
       ELSE \/ Again /\ Call("mpls", off + 4, depth, HeaderEnd(layout, off + 4))
            \/ SameContext /\ Call("raw_ip", off + 4, depth, HeaderEnd(layout, off + 4))

Pppoe ==
    /\ at = "pppoe"
    /\ IF ~Has(off, 8) THEN Return
       ELSE \E protocol \in {"ipv4", "ipv6", "done"} :
              Call(protocol, off + 8, depth, HeaderEnd(layout, off + 8)) /\ SameContext

Arp ==
    /\ at = "arp"
    /\ IF ~Has(off, 8) THEN Return
       ELSE /\ SameContext
            /\ \/ \E lengths \in Sizes : Call("done", off, depth, HeaderEnd(layout, off + 8 + 2 * lengths))
               \/ LET macs == Address(Address(layout, off + 8, 6), off + 18, 6)
                  IN  Call("done", off, depth,
                           HeaderEnd(Address(Address(macs, off + 14, 4), off + 24, 4), off + 28))

----------------------------------------------------------------------------
(* Network layer. *)

(* A later fragment holds no transport header. *)
Ipv4 ==
    /\ at = "ipv4"
    /\ IF depth > MaxDepth \/ ~Has(off, 20) THEN Return
       ELSE \E words \in Sizes, total \in Claims, next \in {"transport", "done"} :
              LET ihl == 4 * words
                  ends == Address(Address(layout, off + 12, 4), off + 16, 4)
                  summed == IF Has(off, ihl) THEN AddScope(ends, Scope(off + 10, off, off + ihl, {})) ELSE ends
              IN  IF ihl < 20 THEN Return
                  ELSE /\ Call(next, off + ihl, depth, HeaderEnd(summed, off + ihl))
                       /\ end' = IF total >= ihl THEN Smaller(off + total, captured) ELSE captured
                       /\ pseudo' = {Field(off + 12, 4), Field(off + 16, 4)}
                       /\ over4' = TRUE
                       /\ UNCHANGED loops

Ipv6 ==
    /\ at = "ipv6"
    /\ IF depth > MaxDepth \/ ~Has(off, 40) THEN Return
       ELSE \E payload \in Claims :
              /\ Call("extension", off + 40, depth,
                      HeaderEnd(Address(Address(layout, off + 8, 16), off + 24, 16), off + 40))
              /\ end' = IF payload # 0 THEN Smaller(off + 40 + payload, captured) ELSE captured
              /\ pseudo' = {Field(off + 8, 16), Field(off + 24, 16)}
              /\ over4' = FALSE
              /\ UNCHANGED loops

(* A fragment header is 8 bytes, an authentication header counts words and *)
(* the others count in units of 8.                                         *)
Extension ==
    /\ at = "extension"
    /\ \/ Call("transport", off, depth, layout) /\ SameContext
       \/ ~Has(off, 2) /\ Return
       \/ \E later \in BOOLEAN :
             /\ Has(off, 8)
             /\ Again
             /\ Call(IF later THEN "done" ELSE "extension", off + 8, depth, HeaderEnd(layout, off + 8))
       \/ \E size \in Sizes : \E length \in {4 * (size + 2), 8 * (size + 1)} :
             /\ Has(off, 2)
             /\ Again
             /\ Call("extension", off + length, depth, HeaderEnd(layout, off + length))

----------------------------------------------------------------------------
(* Transport, and what rides on it. *)

(* IP in IP goes one deeper; a protocol that is not followed ends the walk. *)
Transport ==
    /\ at = "transport"
    /\ SameContext
    /\ \/ \E to \in {"tcp", "udp", "icmp", "icmpv6", "gre", "done"} : Call(to, off, depth, layout)
       \/ \E to \in {"ipv4", "ipv6"} : Call(to, off, depth + 1, layout)

Tcp ==
    /\ at = "tcp"
    /\ IF ~Has(off, 20) THEN Return
       ELSE \E words \in Sizes :
              /\ Call("done", off, depth,
                      HeaderEnd(AddScope(layout, Scope(off + 16, off, end, pseudo)), off + Larger(4 * words, 20)))
              /\ SameContext

(* Over IPv4 a zero checksum means none was computed, and it stays. *)
Udp ==
    /\ at = "udp"
    /\ IF ~Has(off, 8) THEN Return
       ELSE \E none \in BOOLEAN, to \in {"vxlan", "geneve", "done"} :
              LET summed == IF over4 /\ none THEN layout
                            ELSE AddScope(layout, Scope(off + 6, off, end, pseudo))
              IN  Call(to, off, depth, HeaderEnd(summed, off + 8)) /\ SameContext

Vxlan ==
    /\ at = "vxlan"
    /\ IF ~Has(off + 8, 8) THEN Return
       ELSE Call("ethernet", off + 16, depth + 1, HeaderEnd(layout, off + 16)) /\ SameContext

Geneve ==
    /\ at = "geneve"
    /\ IF ~Has(off + 8, 8) THEN Return
       ELSE \E words \in Sizes, to \in {"ethernet", "ethertype"} :
              LET inner == off + 16 + 4 * words
              IN  Call(to, inner, depth + 1, HeaderEnd(layout, inner)) /\ SameContext

Icmp ==
    /\ at = "icmp"
    /\ IF ~Has(off, 8) THEN Return
       ELSE \E error \in BOOLEAN :
              /\ Call(IF error THEN "ipv4" ELSE "done", IF error THEN off + 8 ELSE off,
                      IF error THEN depth + 1 ELSE depth,
                      HeaderEnd(AddScope(layout, Scope(off + 2, off, end, {})), off + 8))
              /\ SameContext

(* Mutant: a redirect's options are looked for where a neighbour's are. *)
Icmpv6SameOptions ==
    /\ at = "icmpv6"
    /\ Has(off, 8)
    /\ LET target == Address(AddScope(layout, Scope(off + 2, off, end, pseudo)), off + 8, 16)
       IN  \E redirect \in BOOLEAN :
             Call("nd_options", off + 24, depth, IF redirect THEN Address(target, off + 24, 16) ELSE target)
    /\ SameContext

(* Errors quote a packet; neighbour discovery carries addresses, then      *)
(* options: solicitation and advertisement of routers, of neighbours, and  *)
(* a redirect.                                                             *)
Icmpv6 ==
    /\ at = "icmpv6"
    /\ IF ~Has(off, 8) THEN Return
       ELSE /\ SameContext
            /\ LET summed == HeaderEnd(AddScope(layout, Scope(off + 2, off, end, pseudo)), off + 8)
                   target == Address(summed, off + 8, 16)
               IN  \/ Call("done", off, depth, summed)
                   \/ Call("ipv6", off + 8, depth + 1, summed)
                   \/ \E skip \in {8, 16} : Call("nd_options", off + skip, depth, summed)
                   \/ Call("nd_options", off + 24, depth, target)
                   \/ Call("nd_options", off + 40, depth, Address(target, off + 24, 16))

(* A link-layer address option and a prefix option; others are skipped. *)
NdOptions ==
    /\ at = "nd_options"
    /\ IF ~(off + 2 <= end /\ Has(off, 2)) THEN Return
       ELSE \E units \in Sizes :
              LET length == 8 * units
                  prefix == IF length >= 32 THEN Address(layout, off + 16, 16) ELSE layout
              IN  IF length = 0 THEN Return
                  ELSE \E found \in {layout, Address(layout, off + 2, 6), prefix} :
                         Again /\ Call("nd_options", off + length, depth, found)

(* The optional words: checksum, key and sequence number. *)
Gre ==
    /\ at = "gre"
    /\ IF ~Has(off, 4) THEN Return
       ELSE \/ Return
            \/ \E checksum, key, sequence \in BOOLEAN, to \in {"ethernet", "ethertype"} :
                 LET Word(present) == IF present THEN 4 ELSE 0
                     cur == off + 4 + Word(checksum) + Word(key) + Word(sequence)
                     summed == IF checksum /\ Has(off + 4, 2)
                                 THEN AddScope(layout, Scope(off + 4, off, end, {})) ELSE layout
                 IN  Call(to, cur, depth + 1, HeaderEnd(summed, cur)) /\ SameContext

----------------------------------------------------------------------------
(* The checksums follow an edit. *)

(* The words [from, to) of a frame whose words of interest are DOMAIN f. *)
Covered(f, from, to) == {w \in DOMAIN f : from <= w /\ w < to}
FieldWords(field) == {w \in field.off..(field.off + field.len - 1) : w % 2 = 0}

(* What a checksum is computed from: its coverage, itself left out, and    *)
(* the pseudo header.                                                      *)
Feeds(f, s) ==
    (Covered(f, s.start, Smaller(s.end, captured)) \ {s.checksum_at})
        \union (DOMAIN f \intersect UNION {FieldWords(p) : p \in s.pseudo})

OnesSum(f, s) == SumFunctionOnSet(f, Feeds(f, s)) % Top

(* RFC 1624: HC' = ~(~HC + ~m + m'), never zero. *)
UpdatedChecksum(hc, old, new) == Top - ((Top - hc + new - old) % Top)

(* Mutant: a checksum is updated whether or not anything it covers was. *)
RefreshUntouchedToo(before, after, s) ==
    IF s.checksum_at + 2 > captured THEN after
    ELSE [after EXCEPT ![s.checksum_at] = UpdatedChecksum(@, OnesSum(before, s), OnesSum(after, s))]

(* One round of refresh_checksums: untouched coverage, untouched checksum. *)
RefreshOne(before, after, s) ==
    LET touched == \E w \in Feeds(before, s) : before[w] # after[w]
    IN  IF s.checksum_at + 2 > captured \/ ~touched THEN after
        ELSE [after EXCEPT ![s.checksum_at] = UpdatedChecksum(@, OnesSum(before, s), OnesSum(after, s))]

(* Mutant: outermost first. *)
RefreshOutermostFirst(before, after, scopes) ==
    FoldLeft(LAMBDA f, s : RefreshOne(before, f, s), after, scopes)

(* Innermost first: the scopes in reverse. *)
RefreshChecksums(before, after, scopes) ==
    FoldLeft(LAMBDA f, s : RefreshOne(before, f, s), after, Reverse(scopes))

(* _FrameRewriter.rewrite: the addresses of the kinds asked for are        *)
(* replaced, and so is any of the payload, where tshark places fields; a   *)
(* word may well be written as it was.  Then the checksums follow.  What   *)
(* nothing replaces does not matter and is left out.                       *)
Rewrite ==
    /\ at = "done"
    /\ \E macs, ips \in BOOLEAN, content \in Contents :
          LET fields == {a \in layout.addresses : IF a.len = 6 THEN macs ELSE ips}
              payload == {w \in layout.payload_start..(captured - 1) : w % 2 = 0}
              replaced == (UNION {FieldWords(a) : a \in fields}) \union payload
              slots == {layout.scopes[i].checksum_at : i \in DOMAIN layout.scopes}
              before == [w \in replaced \union slots |-> content[1][w]]
              placed == [w \in DOMAIN before |-> IF w \in replaced THEN content[2][w] ELSE content[1][w]]
          IN  edited' = <<before, RefreshChecksums(before, placed, layout.scopes)>>
    /\ at' = "rewritten"
    /\ UNCHANGED <<captured, off, depth, end, pseudo, over4, loops, layout>>

WalkInit ==
    /\ captured \in Lengths
    /\ at = "link" /\ off = 0 /\ depth = 0 /\ end = 0 /\ pseudo = {} /\ over4 = FALSE
    /\ loops = MaxLoops
    /\ layout = [addresses |-> {}, scopes |-> <<>>, payload_start |-> 0]
    /\ edited = <<>>

Walk ==
    \/ Link \/ Ethernet \/ Sll \/ Sll2 \/ Loopback \/ RawIp \/ Ethertype \/ Mpls \/ Pppoe \/ Arp
    \/ Ipv4 \/ Ipv6 \/ Extension \/ Transport \/ Tcp \/ Udp \/ Vxlan \/ Geneve \/ Icmp \/ Icmpv6
    \/ NdOptions \/ Gre

WalkNext == Walk \/ Rewrite

WalkSpec == WalkInit /\ [][WalkNext]_walkVars

----------------------------------------------------------------------------
(* Properties. *)

Slot(s) == Field(s.checksum_at, 2)

(* What the walker found of the frame: addresses and checksum slots. *)
Found == layout.addresses \union {Slot(layout.scopes[i]) : i \in DOMAIN layout.scopes}

(* The offsets, lengths and bounds are numbers; a scope names its words. *)
FrameTypeOK ==
    /\ captured \in Lengths /\ at \in Functions /\ off \in Nat /\ depth \in Nat /\ end \in Nat
    /\ pseudo \subseteq [off : Nat, len : Nat] /\ over4 \in BOOLEAN /\ loops \in Nat
    /\ layout.addresses \subseteq [off : Nat, len : {4, 6, 16}]
    /\ layout.scopes \in Seq([checksum_at : Nat, start : Nat, end : Nat, pseudo : SUBSET [off : Nat, len : Nat]])
    /\ layout.payload_start \in 0..captured

(* Every address and every checksum that is reported lies within what was  *)
(* captured, whatever the headers of a frame that was cut short claim.     *)
WithinCaptured == \A f \in Found : f.off + f.len <= captured

(* No two of them share a byte: replacing one address changes neither      *)
(* another nor a checksum, however the headers nest.                       *)
FieldsAreDisjoint == \A f, g \in Found : f # g => f.off + f.len <= g.off \/ g.off + g.len <= f.off

(* "Stay exactly as wrong": once the frame is rewritten, every checksum is *)
(* off from the sum of what it covers, inner checksums included, by as     *)
(* much as it was; one whose coverage is untouched is untouched, so that   *)
(* zero still says none was computed; an updated one is never zero.        *)
AsWrongAsBefore ==
    at = "rewritten" =>
        LET before == edited[1]
            after == edited[2]
        IN  \A i \in DOMAIN layout.scopes :
              LET s == layout.scopes[i]
                  a == s.checksum_at
              IN  /\ (after[a] + OnesSum(after, s)) % Top = (before[a] + OnesSum(before, s)) % Top
                  /\ after[a] \in 0..Top
                  /\ after[a] # before[a] => after[a] # 0
                  /\ (after[a] # before[a] => \E w \in Feeds(before, s) : after[w] # before[w])
=============================================================================
