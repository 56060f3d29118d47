------------------------ MODULE MC_CaptureLifecycle ------------------------
(* Small instances of CaptureLifecycle for TLC.                            *)
EXTENDS CaptureLifecycle, TLC

CONSTANTS c1, c2, s1, s2, l1, l2

Ask(s, i, ls) == [server |-> s, interface |-> i, interfaces |-> ls]

(* A link of each host: two captures compete for slots, not for a link.    *)
TwoHosts == {Ask(s1, l1, {}), Ask(s2, l1, {})}

(* One link, asked for by name: the narrowest contention.                  *)
OneLink == {Ask(s1, l1, {})}

(* A link by name; the other link as the only one of a list; both as a     *)
(* list, which runs on "any"; and plain "any" on another host.             *)
Mixed == {Ask(s1, l1, {}), Ask(s1, l2, {l2}), Ask(s1, l1, {l1, l2}),
          Ask(s2, AnyInterface, {})}

PairSymmetry == Permutations({c1, c2})
=============================================================================
