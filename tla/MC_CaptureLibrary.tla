------------------------- MODULE MC_CaptureLibrary -------------------------
(* Small instances of CaptureLibrary for TLC.                              *)
EXTENDS CaptureLibrary, TLC

CONSTANTS admin, ann, c1, c2, s1, s2, n1, n2

LibrarySymmetry == Permutations({c1, c2}) \union Permutations({s1, s2})
                      \union Permutations({n1, n2})
=============================================================================
