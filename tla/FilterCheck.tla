---------------------------- MODULE FilterCheck ----------------------------
(***************************************************************************)
(* The check of a capture filter before the capture: check_filter and the  *)
(* route that asks it (backend/bpf.py, check_bpf_filter in main.py).       *)
(*                                                                         *)
(* An expression is its tree: a sequence of nodes that name their operands *)
(* by number, the whole expression first and what is in brackets after the *)
(* bracket.  A node is a port term, another term (a host, a named port,    *)
(* anything not understood), a negation, or operands in brackets with      *)
(* operators between them; libpcap reads those from left to right, `and`   *)
(* and `or` alike, the code splits them at every `or` first.  A term that  *)
(* changes what later terms are about (a tunnel header) and the characters *)
(* of an expression are left out.                                          *)
(*                                                                         *)
(* The verdict of tcpdump, when there is one, goes first; what it says of  *)
(* the expression is an input, for its absence and its timeout are too.    *)
(***************************************************************************)
EXTENDS PortFilter, Integers, SequencesExt

CONSTANTS
    Expressions,   \* the expressions asked about
    MaxPerMinute   \* filter checks an account may make in a minute

PortTerms ==
    [kind : {"port"}, proto : Protocols \union {"any"},
     slots : (SUBSET Slots) \ {{}}, ports : (SUBSET Ports) \ {{}}]
Unknown == [kind |-> "unknown"]
Negations == [kind : {"not"}, of : Nat]
Groups == [kind : {"group"}, operands : Seq(Nat), ops : Seq({"and", "or"})]

(* The nodes a node is made of. *)
Operands(o) ==
    CASE o.kind = "not" -> {o.of}
      [] o.kind = "group" -> Range(o.operands)
      [] OTHER -> {}

(* What brackets and operators make of tokens: every node but the first is *)
(* an operand of one before it.                                            *)
WellFormed(e) ==
    /\ e \in Seq(PortTerms \union {Unknown} \union Negations \union Groups)
    /\ e # <<>>
    /\ \A k \in DOMAIN e :
          /\ Operands(e[k]) \subseteq (k + 1)..Len(e)
          /\ e[k].kind = "group" =>
                Len(e[k].operands) = Len(e[k].ops) + 1 /\ IsInjective(e[k].operands)
          /\ k # 1 => \E l \in DOMAIN e :
                k \in Operands(e[l]) /\ \A m \in DOMAIN e : k \in Operands(e[m]) => m = l

ASSUME ExpressionsAssumption == \A e \in Expressions : WellFormed(e)

VARIABLES
    expr,          \* the expression being edited
    state,         \* where the request stands
    warning,       \* what the last check that ended answered
    hits           \* checks of the last minute

checkVars == <<expr, state, warning, hits>>

-----------------------------------------------------------------------------
(* What an expression matches: libpcap's reading of it.  What its unknown  *)
(* terms say of the packet is given: `said` are those that hold.           *)

TermOf(o) == [ports |-> o.ports, slots |-> o.slots, proto |-> o.proto]

(* Read from left to right, operands hold together if one that is the      *)
(* first or joined by `or` holds, and all that are joined by `and` after.  *)
HoldTogether(o, holds) ==
    \E i \in DOMAIN o.operands :
        /\ i = 1 \/ o.ops[i - 1] = "or"
        /\ holds[o.operands[i]]
        /\ \A j \in DOMAIN o.operands :
              j > i /\ o.ops[j - 1] = "and" => holds[o.operands[j]]

Matches(e, p, said) ==
    LET holds[k \in DOMAIN e] ==
            \/ e[k].kind = "port" /\ Satisfies(p, {TermOf(e[k])})
            \/ e[k].kind = "unknown" /\ k \in said
            \/ e[k].kind = "not" /\ ~holds[e[k].of]
            \/ e[k].kind = "group" /\ HoldTogether(e[k], holds)
    IN holds[1]

-----------------------------------------------------------------------------
(* What the code makes of it. *)

NoAlternative == [ports |-> {}, slots |-> {}, proto |-> "any"]

(* _strip_parens: brackets around a single operand are redundant.          *)
IsWrapper(o) == o.kind = "group" /\ Len(o.operands) = 1

(* _parse_alternative: a port term, however many brackets are around it; a *)
(* range of more than the limit is none of this module's business.         *)
AlternativeOf(e) ==
    LET read[k \in DOMAIN e] ==
            IF IsWrapper(e[k]) THEN read[e[k].operands[1]]
            ELSE IF e[k].kind = "port" /\ Cardinality(e[k].ports) <= MaxCandidates + 1
                 THEN TermOf(e[k])
            ELSE NoAlternative
    IN read

(* Mutant: what cannot be read of a disjunction is passed over. *)
CollectOrUnread(e, o) == {AlternativeOf(e)[c] : c \in Operands(o)} \ {NoAlternative}

(* An `or` of port terms is one constraint; an `or` of anything else, an   *)
(* `and` among them included, constrains nothing.                          *)
CollectOr(e, o) ==
    LET alts == {AlternativeOf(e)[c] : c \in Operands(o)}
    IN IF "and" \in Range(o.ops) \/ NoAlternative \in alts THEN {} ELSE alts

IsOr(o) == o.kind = "group" /\ "or" \in Range(o.ops)
IsAnd(o) == o.kind = "group" /\ "or" \notin Range(o.ops)

(* The constraint a node imposes by itself, {} if none. *)
ConstraintAt(e, k) ==
    IF IsOr(e[k]) THEN CollectOr(e, e[k]) ELSE {AlternativeOf(e)[k]} \ {NoAlternative}

(* _collect: the constraints of a chain of `and`, however bracketed, each  *)
(* under the node it was read at.                                          *)
Collect(e) ==
    LET places[k \in DOMAIN e] ==
            IF IsAnd(e[k]) THEN UNION {places[c] : c \in Operands(e[k])}
            ELSE IF ConstraintAt(e, k) # {} THEN {k}
            ELSE {}
    IN [k \in places[1] |-> ConstraintAt(e, k)]

Negates(e) == \E k \in DOMAIN e : e[k].kind = "not"

(* structural_check: a `not` anywhere ends the reasoning. *)
StructuralCheck(e) == IF Negates(e) THEN "quiet" ELSE Verdict(Collect(e))

-----------------------------------------------------------------------------
(* The request *)

NoAnswer == [by |-> "none", says |-> "quiet"]

CheckInit ==
    /\ expr \in Expressions
    /\ state = "idle"
    /\ warning = NoAnswer
    /\ hits = 0

Ask ==
    /\ state = "idle"
    /\ hits < MaxPerMinute
    /\ hits' = hits + 1
    /\ state' = "compiling"
    /\ UNCHANGED <<expr, warning>>

(* compile_check found a fault: an expression no packet matches, or one    *)
(* that is not an expression.                                              *)
CompileFinds(says) ==
    /\ state = "compiling"
    /\ state' = "idle"
    /\ warning' = [by |-> "tcpdump", says |-> says]
    /\ UNCHANGED <<expr, hits>>

(* No tcpdump, no answer in time, or nothing wrong: the structure decides. *)
CompileQuiet ==
    /\ state = "compiling"
    /\ state' = "idle"
    /\ warning' = [by |-> "structure", says |-> StructuralCheck(expr)]
    /\ UNCHANGED <<expr, hits>>

MinutePasses ==
    /\ hits > 0
    /\ hits' = 0
    /\ UNCHANGED <<expr, state, warning>>

CheckNext ==
    \/ Ask
    \/ \E says \in {"matches_nothing", "invalid"} : CompileFinds(says)
    \/ CompileQuiet
    \/ MinutePasses

CheckSpec == CheckInit /\ [][CheckNext]_checkVars

-----------------------------------------------------------------------------
(* Properties *)

NotUnderstood(e) == {k \in DOMAIN e : e[k].kind = "unknown"}
MatchedBy(e) == {p \in Traffic : \E said \in SUBSET NotUnderstood(e) : Matches(e, p, said)}
Structural == warning.by = "structure"

(* A filter is said to match nothing only if no packet matches it, however *)
(* it is bracketed and whatever is not understood of it: "Sound rather     *)
(* than complete: every warning it raises is one it can justify" (bpf.py). *)
NeverWronglyEmpty ==
    Structural /\ warning.says = "matches_nothing" => MatchedBy(expr) = {}

(* A filter is said to match only what goes between the services it names  *)
(* when both ports of every packet it matches are ports of different ones  *)
(* of them (structural_check, bpf_cross_service_only).                     *)
CrossMeansBetween ==
    Structural /\ warning.says = "cross_service_only" =>
        LET cs == Collect(expr) IN
        \A p \in MatchedBy(expr) :
            \E i, j \in DOMAIN cs :
                i # j /\ p.src \in NamedPorts(cs[i]) /\ p.dst \in NamedPorts(cs[j])

(* Of an expression it understands, the model misses nothing: a chain of   *)
(* `and` over port terms and lists of them, within the limit, that no      *)
(* packet matches is said to match nothing ("the two agree everywhere they *)
(* can both answer", bpf.py).                                              *)
Understood(e) == \A k \in DOMAIN e : IsAnd(e[k]) \/ ConstraintAt(e, k) # {}

MissesNothing ==
    Structural /\ Understood(expr) /\ MatchedBy(expr) = {}
    /\ Cardinality(Candidates(Collect(expr))) <= MaxCandidates
        => warning.says = "matches_nothing"
=============================================================================
