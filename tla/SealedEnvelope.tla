--------------------------- MODULE SealedEnvelope ---------------------------
(***************************************************************************)
(* The envelope every sealed file is in (backend/crypto.py): a header with *)
(* the file's own key (DEK) wrapped under the master key (KEK), the chunks *)
(* sealed under that key each with its index, and an empty chunk at the    *)
(* end.                                                                    *)
(*                                                                         *)
(* A sealed chunk stands for its ciphertext: it opens under the key and    *)
(* index it was sealed with and no other.  DEKs come from os.urandom, so   *)
(* one is of one object.  Which files there are, and what seals and rekeys *)
(* them when, is CaptureVault.                                             *)
(***************************************************************************)
EXTENDS Naturals, Sequences

CONSTANTS
    Pieces,   \* plaintext of a chunk, of 1 to CHUNK_SIZE bytes
    Empty,    \* no bytes
    Damaged,  \* bytes that are no sealed chunk: altered, or cut short
    NoHeader  \* no magic at the start, or too short

----------------------------------------------------------------------------
(* Sealing *)

HeaderForDek(kek, dek) == [kek |-> kek, dek |-> dek]
SealOne(dek, index, piece) == [dek |-> dek, index |-> index, piece |-> piece]

(* seal_chunks and Sealer.seal leave out what is empty: an empty chunk     *)
(* would read as the end.                                                  *)
Filled(given) == SelectSeq(given, LAMBDA piece : piece # Empty)

Chunks(dek, pieces) ==
    [i \in 1..(Len(pieces) + 1) |->
        SealOne(dek, i - 1, IF i <= Len(pieces) THEN pieces[i] ELSE Empty)]

SealChunks(kek, dek, given) ==
    [header |-> HeaderForDek(kek, dek), chunks |-> Chunks(dek, Filled(given))]

(* A rotation keeps the DEK and writes the header anew.                    *)
Rekeyed(file, kek) == [file EXCEPT !.header = HeaderForDek(kek, file.header.dek)]

----------------------------------------------------------------------------
(* Opening *)

Authentic(dek, chunks, i) ==
    /\ chunks[i] # Damaged
    /\ chunks[i].dek = dek /\ chunks[i].index = i - 1

(* The i-th chunk is there and opens, and is not the end.                  *)
Yields(dek, chunks, i) ==
    i \in 1..Len(chunks) /\ Authentic(dek, chunks, i) /\ chunks[i].piece # Empty

(* How many open_stream yields before it returns or raises.                *)
Yielded(dek, chunks) ==
    CHOOSE n \in 0..Len(chunks) :
        (\A i \in 1..n : Yields(dek, chunks, i)) /\ ~Yields(dek, chunks, n + 1)

Plaintext(dek, chunks) == [i \in 1..Yielded(dek, chunks) |-> chunks[i].piece]

EndOf(dek, chunks) ==
    LET next == Yielded(dek, chunks) + 1
    IN  IF next > Len(chunks) THEN "truncated"
        ELSE IF Authentic(dek, chunks, next) THEN "clean" ELSE "unauthentic"

(* unwrap_dek, then open_stream.                                           *)
OpenStream(kek, file) ==
    IF file.header = NoHeader THEN [end |-> "not encrypted", out |-> <<>>]
    ELSE IF file.header.kek # kek THEN [end |-> "wrong key", out |-> <<>>]
    ELSE [end |-> EndOf(file.header.dek, file.chunks),
          out |-> Plaintext(file.header.dek, file.chunks)]

----------------------------------------------------------------------------
(* Properties.  written is what was sealed under each DEK. *)

(* Whatever befell a file: its chunks were cut, moved, repeated, mixed     *)
(* with those of other files or altered, but not forged.                   *)
Genuine(written, file) ==
    /\ file.header = NoHeader \/ file.header.dek \in DOMAIN written
    /\ \A i \in 1..Len(file.chunks) :
          \/ file.chunks[i] = Damaged
          \/ \E dek \in DOMAIN written : \E j \in 1..(Len(written[dek]) + 1) :
                file.chunks[i] = Chunks(dek, written[dek])[j]

(* What is yielded is what was sealed, from its beginning, also when the   *)
(* stream fails later.                                                     *)
NothingWrongIsRead(written, kek, file) ==
    LET out == OpenStream(kek, file).out
    IN  out # <<>> => /\ Len(out) <= Len(written[file.header.dek])
                      /\ \A i \in 1..Len(out) : out[i] = written[file.header.dek][i]

(* "the explicit terminator makes truncation detectable": a stream that    *)
(* ends cleanly was all of it.                                             *)
CleanEndIsWhole(written, kek, file) ==
    OpenStream(kek, file).end = "clean" => OpenStream(kek, file).out = written[file.header.dek]

(* A header for another master key changes who can open the file, and      *)
(* nothing of what they read.                                              *)
RekeyKeepsContent(kek, next, file) ==
    /\ OpenStream(next, Rekeyed(file, next)) = OpenStream(file.header.kek, file)
    /\ kek # next => OpenStream(kek, Rekeyed(file, next)).end = "wrong key"
============================================================================
