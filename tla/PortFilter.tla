----------------------------- MODULE PortFilter -----------------------------
(***************************************************************************)
(* The port conditions of a capture filter and the verdict on them:        *)
(* _Alternative, _Constraint, _holds, _satisfiable and the two warnings of *)
(* structural_check (backend/bpf.py).                                      *)
(*                                                                         *)
(* A constraint is a set of alternatives, any of which satisfies it; a     *)
(* filter imposes a family of constraints, all at once, one for each place *)
(* of the expression that it was read at.  The code never sees a packet:   *)
(* it tries the ports that are named and one other.  How an expression     *)
(* becomes constraints is FilterCheck.                                     *)
(***************************************************************************)
EXTENDS Naturals, FiniteSets

CONSTANTS
    Ports,         \* port numbers
    Other,         \* None: a port that no term names
    MaxCandidates  \* _MAX_CANDIDATE_PORTS

ASSUME OtherAssumption == Other \notin Ports
ASSUME LimitAssumption == MaxCandidates \in Nat
ASSUME PortsAssumption == IsFiniteSet(Ports)

Protocols == {"tcp", "udp", "sctp"}
Slots == {"src", "dst"}

(* `[proto] [src|dst] port N`; proto "any" when the term names none.       *)
Alternatives == [ports : SUBSET Ports, slots : SUBSET Slots, proto : Protocols \union {"any"}]
Constraints == SUBSET Alternatives

(* Mutant: a term of one protocol is taken to hold of another. *)
HoldsAnyway(c, proto, src, dst) ==
    \E alt \in c :
        \/ "src" \in alt.slots /\ src \in alt.ports
        \/ "dst" \in alt.slots /\ dst \in alt.ports

(* _holds: some alternative does, of this protocol and these two ports.    *)
Holds(c, proto, src, dst) ==
    \E alt \in c :
        /\ alt.proto \in {"any", proto}
        /\ \/ "src" \in alt.slots /\ src \in alt.ports
           \/ "dst" \in alt.slots /\ dst \in alt.ports

NamedPorts(c) == UNION {alt.ports : alt \in c}
Candidates(cs) == UNION {NamedPorts(cs[i]) : i \in DOMAIN cs}

(* _satisfiable: by a packet of the ports that are named and one other;    *)
(* too many of them are not searched, and then the answer is yes.          *)
Satisfiable(cs) ==
    \/ Cardinality(Candidates(cs)) > MaxCandidates
    \/ \E proto \in Protocols, src, dst \in Candidates(cs) \union {Other} :
          \A i \in DOMAIN cs : Holds(cs[i], proto, src, dst)

(* The constraints that name a port at all. *)
PortSets(cs) == {i \in DOMAIN cs : NamedPorts(cs[i]) # {}}

(* Mutant: sets that differ count as disjoint. *)
PairwiseDistinct(cs) ==
    \A i, j \in PortSets(cs) : i # j => NamedPorts(cs[i]) # NamedPorts(cs[j])

PairwiseDisjoint(cs) ==
    \A i, j \in PortSets(cs) : i # j => NamedPorts(cs[i]) \intersect NamedPorts(cs[j]) = {}

(* structural_check, once the constraints are known. *)
Verdict(cs) ==
    IF Cardinality(DOMAIN cs) < 2 THEN "quiet"
    ELSE IF ~Satisfiable(cs) THEN "matches_nothing"
    ELSE IF Cardinality(PortSets(cs)) >= 2 /\ PairwiseDisjoint(cs) THEN "cross_service_only"
    ELSE "quiet"

(* A packet, and what satisfies a constraint: a packet of a protocol       *)
(* without ports satisfies none.                                           *)
Traffic == [proto : Protocols \union {"none"}, src : Ports, dst : Ports]
Satisfies(p, c) ==
    /\ p.proto \in Protocols
    /\ \E alt \in c :
          /\ alt.proto \in {"any", p.proto}
          /\ \E slot \in alt.slots : p[slot] \in alt.ports
=============================================================================
