-------------------------- MODULE MC_CaptureVault --------------------------
(***************************************************************************)
(* Small instances of CaptureVault for TLC, and the envelope of one file   *)
(* under every cut, mixture and damage of a few chunks.                    *)
(***************************************************************************)
EXTENDS CaptureVault

CONSTANTS Damaged, NoHeader

Envelope == INSTANCE SealedEnvelope WITH Pieces <- {"p", "q"}, Empty <- "empty"

(* One object of two chunks and one of none, each under its own key.       *)
Objects == [a |-> <<"p", "q">>, b |-> <<>>]

FoundChunks ==
    {Damaged} \union
    UNION {{Envelope!SealChunks(NoKey, dek, Objects[dek]).chunks[i] :
               i \in 1..(Len(Objects[dek]) + 1)} : dek \in DOMAIN Objects}

FoundFiles ==
    [header : {NoHeader} \union [kek : Keys, dek : DOMAIN Objects],
     chunks : UNION {[1..n -> FoundChunks] : n \in 0..4}]

ASSUME OnlyWhatWasSealed ==
    \A file \in FoundFiles, k \in Keys :
        /\ Envelope!Genuine(Objects, file)
        /\ Envelope!NothingWrongIsRead(Objects, k, file)
        /\ Envelope!CleanEndIsWhole(Objects, k, file)

ASSUME RotationKeepsContent ==
    \A file \in {f \in FoundFiles : f.header # NoHeader}, k, next \in Keys :
        Envelope!RekeyKeepsContent(k, next, file)

(* Empty pieces are never sealed: every object is read back whole.         *)
ASSUME ReadsBack ==
    \A n \in 0..3, k \in Keys : \A given \in [1..n -> {"p", "q", "empty"}] :
        Envelope!OpenStream(k, Envelope!SealChunks(k, "a", given)) =
            [end |-> "clean", out |-> Envelope!Filled(given)]
=============================================================================
