---------------------------- MODULE MC_Accounts ----------------------------
(* A small instance of Accounts for TLC.                                   *)
EXTENDS Accounts, TLC

Symmetry == Permutations(Users) \union Permutations(Requests) \union Permutations(Secrets)

Known == {users[u].secret : u \in Users} \union {req[r].secret : r \in Requests}
            \union {code[1] : code \in UNION {taken[u] : u \in Users}}

(* What is explored: one account with all that the bounds allow; or two in *)
(* one minute, with codes of one step, one secret and no trusted device.   *)
Scope ==
    \/ Cardinality(spent) <= 1
    \/ /\ \A s \in Sessions : sessions[s].stamp = 0
       /\ \A u \in Users : taken[u] \subseteq Secrets \X {1}
       /\ Cardinality(Known \ {NoSecret}) <= 1
       /\ trusted = {}
=============================================================================
