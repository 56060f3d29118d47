---------------------------- MODULE MC_HostTrust ----------------------------
(* A small instance of HostTrust for TLC, and every host of TargetHost.    *)
EXTENDS HostTrust, TLC

CONSTANTS s1, s2, r1, r2, ann, bob, k1, k2, here, there

TrustSymmetry ==
    UNION {Permutations(S) :
              S \in {{s1, s2}, {r1, r2}, {ann, bob}, {k1, k2}, {here, there}}}

Busy == {r \in RequestIds : req[r].kind # "idle"}
Acting == {req[r].user : r \in Busy} \union {owner[s] : s \in servers}

(* What is explored: two accounts and two rows of which nothing was checked*)
(* yet, with one connection at a time and no crash; or one account with    *)
(* one row and two connections at once, or one after a crash.              *)
Scope ==
    \/ /\ Cardinality(Busy) <= 1 /\ restarts = 0
       /\ \A s \in ServerIds : verified[s] = NoEndpoint /\ finding[s] = NoEndpoint
    \/ /\ Cardinality(used) <= 1 /\ Cardinality(Acting) <= 1 /\ users = Users
       /\ restarts + Cardinality(Busy) <= 2

Target == INSTANCE TargetHost

(* What a passed and a failed checklist say of a capture, for every host   *)
(* that TargetHost describes, with and without sudo.                       *)
ASSUME VerdictsHold ==
    \A h \in Target!Hosts, useSudo \in BOOLEAN :
        /\ Target!PassMeansCapture(h, useSudo)
        /\ Target!FailMeansNoCapture(h, useSudo)

(* What the commands that the checklist prints do, for the same hosts.     *)
ASSUME RemediesHold ==
    \A h \in Target!Hosts, useSudo \in BOOLEAN :
        /\ Target!FixesWork(h, useSudo)
        /\ Target!CapturesCleanUp(h, useSudo)
=============================================================================
