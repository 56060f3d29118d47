--------------------------- MODULE MC_FilterCheck ---------------------------
(* Small instances of FilterCheck for TLC: every expression of up to three *)
(* of a few operands, and of two operands one of which is bracketed.       *)
EXTENDS FilterCheck

Both == Slots
Port(proto, slots, ports) == <<[kind |-> "port", proto |-> proto, slots |-> slots, ports |-> ports]>>

(* A tree is put under others: its nodes get the numbers after theirs.     *)
Shift(e, by) ==
    [k \in DOMAIN e |->
        CASE e[k].kind = "not" -> [e[k] EXCEPT !.of = @ + by]
          [] e[k].kind = "group" ->
                [e[k] EXCEPT !.operands = [i \in DOMAIN e[k].operands |-> e[k].operands[i] + by]]
          [] OTHER -> e[k]]
Not(e) == <<[kind |-> "not", of |-> 2]>> \o Shift(e, 1)
Bracket(e) == <<[kind |-> "group", operands |-> <<2>>, ops |-> <<>>]>> \o Shift(e, 1)
Pair(a, op, b) ==
    <<[kind |-> "group", operands |-> <<2, 2 + Len(a)>>, ops |-> <<op>>]>>
    \o Shift(a, 1) \o Shift(b, 1 + Len(a))
Triple(a, op, b, op2, c) ==
    <<[kind |-> "group", operands |-> <<2, 2 + Len(a), 2 + Len(a \o b)>>, ops |-> <<op, op2>>]>>
    \o Shift(a, 1) \o Shift(b, 1 + Len(a)) \o Shift(c, 1 + Len(a \o b))

Narrow == {
    Port("any", Both, {1}), Port("any", Both, {2}), Port("any", Both, {3}),
    Port("tcp", Both, {1}), Port("udp", Both, {2}),
    Port("any", {"src"}, {1}), Port("any", {"src"}, {2}), Port("tcp", {"dst"}, {3})}
Ranges == {Port("any", Both, {1, 2}), Port("any", Both, {1, 2, 3, 4, 5})}
Terms == Narrow \union Ranges \union {<<Unknown>>}
Ops == {"and", "or"}

Pairs(left, right) == {Pair(a, op, b) : a \in left, b \in right, op \in Ops}
Triples(first, rest) ==
    {Triple(a, op, b, op2, c) : a \in first, b \in rest, c \in rest, op \in Ops, op2 \in Ops}
Bracketed == Pairs(Terms, Terms)
Negated == {Not(e) : e \in Terms \union Bracketed}
Deeper == {Pair(Bracket(t), "and", u) : t \in Narrow, u \in Narrow}

MCExpressions ==
    Triples(Terms, Terms) \union Pairs(Terms, Bracketed \union Negated \union Deeper)
    \union Triples(Bracketed, {Port("any", Both, {1}), Port("any", Both, {3}), <<Unknown>>})
=============================================================================
