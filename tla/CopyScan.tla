------------------------------ MODULE CopyScan ------------------------------
(***************************************************************************)
(* Which frames of a capture are the same packet seen again on another     *)
(* interface (backend/packet_parser.py find_interface_copies), and what    *)
(* tshark says of them on their own link (_read_link_views).               *)
(*                                                                         *)
(* One pass over the capture in file order keeps what it saw moments ago   *)
(* in two tables, one by everything a router leaves alone, one by what NAT *)
(* leaves alone too, and forgets old entries every so many frames.  Then   *)
(* each link that carries copies is read alone, and its k-th line is taken *)
(* to be about the k-th frame the pass saw on it.                          *)
(*                                                                         *)
(* A packet is its addresses and its body: the rest of what is compared.   *)
(* Left out: the text of a line, and how the tshark process and its feeder *)
(* run beside the reader (SanitizedCopy has them).                         *)
(***************************************************************************)
EXTENDS Naturals, Sequences, FiniteSets

CONSTANTS
    Links,      \* interfaces frames are recorded on
    Packets,    \* records of src, dst and body
    NotIp,      \* a frame without an IP layer
    NatKey,     \* of a body: ID, length, protocol, sequence, ack and flags
    NoKey,      \* ... for IPv6, and for a zero ID outside TCP
    Window,     \* _COPY_WINDOW_SECONDS
    PruneEvery, \* _COPY_PRUNE_EVERY
    LinkViews,  \* _LINK_VIEWS_MAX
    MaxFrames,  \* bound: frames in a capture
    MaxTime     \* bound: times of frames are 0..MaxTime

ASSUME PacketsAssumption == NotIp \notin Packets
ASSUME KeysAssumption == \A p \in Packets : p.body \in DOMAIN NatKey
ASSUME NumbersAssumption ==
    {Window, LinkViews, MaxFrames, MaxTime} \subseteq Nat /\ PruneEvery \in Nat \ {0}

VARIABLES
    frames, \* the capture so far
    marks,  \* originals, seen and nat_seen of the pass
    whole,  \* history: the same of a pass that forgets nothing
    order,  \* the frames of each link, in order
    phase,  \* "scan", "links", "done" or "failed"
    todo,   \* links still to be read alone
    viewed  \* link_view: of each frame that has one, the frame it is of

scanVars == <<frames, marks, whole, order, phase, todo, viewed>>

Frame == [link : Links, packet : Packets \union {NotIp}, when : 0..MaxTime]
NoMark == [first |-> 0, nat |-> FALSE]
NoTables == [of |-> <<>>, seen |-> {}, nat |-> {}]

(* The frames on one link, as a display filter on it selects them.         *)
OnLink(l) == SelectSeq([n \in DOMAIN frames |-> n], LAMBDA n : frames[n].link = l)

-----------------------------------------------------------------------------
(* The pass *)

(* Mutant: the end of the window is outside it. *)
RecentWithin(entries, key, f) ==
    {e \in entries : e.key = key /\ f.when < e.last + Window /\ f.link \notin e.links}

(* What was seen moments before, but not on this link.                     *)
Recent(entries, key, f) ==
    {e \in entries : e.key = key /\ f.when <= e.last + Window /\ f.link \notin e.links}

(* Mutant: any other conversation with the same numbers is a translation.  *)
TranslatesAny(e, p) == <<e.src, e.dst>> # <<p.src, p.dst>>

(* One address was rewritten and the other was not.                        *)
Translates(e, p) ==
    /\ <<e.src, e.dst>> # <<p.src, p.dst>>
    /\ e.src = p.src \/ e.dst = p.dst

Again(e, f) == [e EXCEPT !.last = f.when, !.links = @ \union {f.link}]
Instance(key, f, n) ==
    [key |-> key, last |-> f.when, first |-> n, links |-> {f.link},
     src |-> f.packet.src, dst |-> f.packet.dst]
Replaced(entries, key, new) == {e \in entries : e.key # key} \union new

(* One line: a copy as it was, a copy NAT rewrote, or a first sighting,    *)
(* which begins an instance in both tables.                                *)
Judged(t, f) ==
    LET n == Len(t.of) + 1
        natKey == NatKey[f.packet.body]
        same == Recent(t.seen, f.packet, f)
        moved == {e \in Recent(t.nat, natKey, f) : Translates(e, f.packet)}
    IN  IF f.packet = NotIp THEN [t EXCEPT !.of = Append(@, NoMark)]
        ELSE IF same # {} THEN
            LET e == CHOOSE e \in same : TRUE IN
            [t EXCEPT !.of = Append(@, [first |-> e.first, nat |-> FALSE]),
                      !.seen = Replaced(@, e.key, {Again(e, f)})]
        ELSE IF moved # {} THEN
            LET e == CHOOSE e \in moved : TRUE IN
            [t EXCEPT !.of = Append(@, [first |-> e.first, nat |-> TRUE]),
                      !.nat = Replaced(@, e.key, {Again(e, f)})]
        ELSE
            [t EXCEPT !.of = Append(@, NoMark),
                      !.seen = Replaced(@, f.packet, {Instance(f.packet, f, n)}),
                      !.nat = IF natKey = NoKey THEN @
                              ELSE Replaced(@, natKey, {Instance(natKey, f, n)})]

(* Mutant: what is as old as the window is forgotten. *)
PrunedEarly(t, now) ==
    [t EXCEPT !.seen = {e \in @ : now < e.last + Window},
              !.nat = {e \in @ : now < e.last + Window}]

Pruned(t, now) ==
    [t EXCEPT !.seen = {e \in @ : now <= e.last + Window},
              !.nat = {e \in @ : now <= e.last + Window}]

Judges == Cardinality({n \in DOMAIN frames : frames[n].packet # NotIp}) + 1

(* Mutant: only what has addresses to compare is counted on its link. *)
OrderedIfIp(f) ==
    [order EXCEPT ![f.link] = IF f.packet = NotIp THEN @ ELSE Append(@, Len(frames) + 1)]

Ordered(f) == [order EXCEPT ![f.link] = Append(@, Len(frames) + 1)]

Sight(f) ==
    /\ phase = "scan"
    /\ Len(frames) < MaxFrames
    /\ frames' = Append(frames, f)
    /\ order' = Ordered(f)
    /\ whole' = Judged(whole, f)
    /\ marks' = IF f.packet # NotIp /\ Judges % PruneEvery = 0
                THEN Pruned(Judged(marks, f), f.when) ELSE Judged(marks, f)
    /\ UNCHANGED <<phase, todo, viewed>>

(* tshark or its feeder failed, or every caller is gone: no marks at all.  *)
PassFails ==
    /\ phase = "scan"
    /\ phase' = "failed"
    /\ UNCHANGED <<frames, marks, whole, order, todo, viewed>>

-----------------------------------------------------------------------------
(* The links on their own *)

Unchanged(n) == marks.of[n] # NoMark /\ ~marks.of[n].nat
CopyLinks == {frames[n].link : n \in {n \in DOMAIN marks.of : Unchanged(n)}}

(* The end of the output: which links, of too many, is by their names.     *)
PassEnds ==
    /\ phase = "scan"
    /\ \E chosen \in SUBSET CopyLinks :
           /\ chosen = CopyLinks \/ Cardinality(chosen) = LinkViews
           /\ Cardinality(chosen) <= LinkViews
           /\ todo' = chosen
           /\ phase' = IF chosen = {} THEN "done" ELSE "links"
    /\ UNCHANGED <<frames, marks, whole, order, viewed>>

(* One link's capture, of which tshark may print less than all.            *)
ReadLink(l, k) ==
    LET lines == OnLink(l)
        about == {i \in 1..k : i <= Len(order[l]) /\ Unchanged(order[l][i])}
    IN  /\ phase = "links" /\ l \in todo
        /\ k \in 0..Len(lines)
        /\ viewed' = viewed \union {<<order[l][i], lines[i]>> : i \in about}
        /\ todo' = todo \ {l}
        /\ phase' = IF todo' = {} THEN "done" ELSE "links"
        /\ UNCHANGED <<frames, marks, whole, order>>

(* The marks stand, without any view of a link.                            *)
LinksFail ==
    /\ phase = "links"
    /\ phase' = "done"
    /\ todo' = {}
    /\ viewed' = {}
    /\ UNCHANGED <<frames, marks, whole, order>>

ScanInit ==
    /\ frames = <<>>
    /\ marks = NoTables /\ whole = NoTables
    /\ order = [l \in Links |-> <<>>]
    /\ phase = "scan"
    /\ todo = {}
    /\ viewed = {}

ScanNext ==
    \/ \E f \in Frame : Sight(f)
    \/ PassFails \/ PassEnds \/ LinksFail
    \/ \E l \in Links, k \in 0..MaxFrames : ReadLink(l, k)

ScanSpec == ScanInit /\ [][ScanNext]_scanVars

-----------------------------------------------------------------------------
(* Properties *)

Marked(n) == marks.of[n] # NoMark
SamePacket(m, n) == frames[m].packet = frames[n].packet
InOrder == \A n \in DOMAIN frames : n > 1 => frames[n - 1].when <= frames[n].when

(* A mark says what it means: the frame it names is an earlier first       *)
(* sighting and no copy itself, of the same packet or of one that differs  *)
(* in one address, on another link, and something of that instance was     *)
(* seen within the window before.                                          *)
CopiesAreRepeats ==
    \A n \in DOMAIN marks.of : Marked(n) =>
        LET m == marks.of[n].first IN
        /\ m < n /\ ~Marked(m)
        /\ frames[m].link # frames[n].link
        /\ IF marks.of[n].nat
           THEN /\ NatKey[frames[m].packet.body] = NatKey[frames[n].packet.body]
                /\ NatKey[frames[n].packet.body] # NoKey
                /\ (frames[m].packet.src = frames[n].packet.src)
                     # (frames[m].packet.dst = frames[n].packet.dst)
           ELSE SamePacket(m, n)
        /\ \E p \in m..(n - 1) :
               /\ p = m \/ marks.of[p].first = m
               /\ frames[n].when <= frames[p].when + Window

(* A healthy forwarded packet is found: after a sighting that is no copy,  *)
(* the packet's next sighting, if it is on another link and within the     *)
(* window, is marked, when the capture's times do not go back.  It is only *)
(* about that first repeat: a third hop is not required to be marked.      *)
EveryRepeatIsMarked ==
    InOrder =>
        \A m, n \in DOMAIN marks.of :
            /\ m < n /\ ~Marked(m) /\ frames[m].packet # NotIp /\ SamePacket(m, n)
            /\ frames[m].link # frames[n].link
            /\ frames[n].when <= frames[m].when + Window
            /\ \A p \in (m + 1)..(n - 1) : ~SamePacket(m, p)
            => Marked(n)

(* That old entries are dropped now and then changes no mark, whatever is  *)
(* dropped when, as long as times do not go back.                          *)
ForgettingChangesNothing == InOrder => marks.of = whole.of

(* What tshark says of a link's k-th frame is kept for that very frame of  *)
(* the whole capture, whatever other frames the links carry, and however   *)
(* early it stops.                                                         *)
ViewsAreOfTheirFrame == \A v \in viewed : v[1] = v[2]
=============================================================================
