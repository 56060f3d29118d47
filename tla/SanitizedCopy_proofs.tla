------------------------ MODULE SanitizedCopy_proofs ------------------------
(***************************************************************************)
(* What holds of every sanitized download, whatever the capture, the pipes *)
(* and the number of downloads, and of every scan for copies, whatever the *)
(* capture, the window and how often old entries are forgotten.            *)
(***************************************************************************)
EXTENDS SanitizedCopy, CopyScan, SequenceTheorems, WellFoundedInduction, TLAPS

Endings == {"ended", "failed", "cut"}
Before == {"idle", "prepared", "dropped"}
Entry == [ticket : Tickets \union Crowd, of : Downloads \union {Nobody},
          state : {"running", "summary", "error"}]

TypeOK ==
    /\ selected \subseteq All /\ elsewhere \subseteq selected
    /\ pc \in [Downloads -> {"idle", "prepared", "streaming", "closing"} \union Over]
    /\ ending \in [Downloads -> Endings]
    /\ ticket \in [Downloads -> Tickets \union {NoTicket}]
    /\ index \in [Downloads -> 0..Frames]
    /\ masked \in [Downloads -> SUBSET All]
    /\ unplaced \in [Downloads -> SUBSET All]
    /\ feeder \in [Downloads -> {"none", "feeding", "closed", "short", "ragged"}]
    /\ fed \in [Downloads -> 0..Frames]
    /\ tool \in [Downloads -> {"none", "running"} \union Exited]
    /\ read \in [Downloads -> 0..Frames]
    /\ taken \in [Downloads -> 0..Frames]
    /\ pending \in [Downloads -> 0..Frames]
    /\ exhausted \in [Downloads -> BOOLEAN]
    /\ summaries \in Seq(Entry)
    /\ expired \in 0..Len(summaries)

(* Before its body runs a download has no tool; without one nothing is     *)
(* taken, and the body goes without only where there is nothing to find.   *)
Passes(d) ==
    /\ feeder[d] = "none" <=> tool[d] = "none"
    /\ pc[d] \in Before => tool[d] = "none" /\ index[d] = 0
    /\ tool[d] = "none" => taken[d] = 0 /\ pending[d] = 0 /\ ~exhausted[d]
    /\ tool[d] = "none" /\ pc[d] \notin Before => selected = {}

(* What tshark read was fed and what was taken was read; a tool that ends  *)
(* cleanly read all there was, which is the capture unless its source      *)
(* failed.                                                                 *)
Piped(d) ==
    /\ taken[d] <= read[d] /\ read[d] <= fed[d]
    /\ tool[d] \in {"running", "clean"} /\ feeder[d] = "closed" => fed[d] = Frames
    /\ tool[d] = "clean" => read[d] = fed[d] /\ feeder[d] \in {"closed", "short"}
    /\ pc[d] \in Over => tool[d] # "running" /\ feeder[d] # "feeding"

(* Of the packets taken all but the one held back are accounted for; that  *)
(* one is for a frame not yet rewritten, and nobody is ahead of the other. *)
InStep(d) ==
    /\ masked[d] \union unplaced[d] = {f \in selected : f <= taken[d]} \ {pending[d]}
    /\ pending[d] # 0 => pending[d] = taken[d] /\ pending[d] \in selected /\ index[d] < pending[d]
    /\ tool[d] # "none" /\ ~exhausted[d] /\ pending[d] = 0 => taken[d] = index[d]
    /\ exhausted[d] => pending[d] = 0 /\ tool[d] \in Exited /\ Printed(d) = {}

(* Who is to end without an error has masked what tshark was fed.          *)
Accounts(d) ==
    /\ pc[d] = "idle" => ticket[d] = NoTicket
    /\ pc[d] \in Endings => pc[d] = ending[d]
    /\ pc[d] \in {"closing", "ended"} /\ ending[d] = "ended" =>
          feeder[d] = "short" \/ selected = masked[d] \union unplaced[d]

Fits(d) == Passes(d) /\ Piped(d) /\ InStep(d) /\ Accounts(d)

(* A summary names a download that has its ticket, and says how it went;   *)
(* one to a ticket, and no more than there is room for.                    *)
Tells(s) ==
    s.of # Nobody =>
        /\ ticket[s.of] = s.ticket
        /\ s.state = "summary" <=> pc[s.of] = "ended"
        /\ s.state = "error" <=> pc[s.of] \in {"failed", "cut"}
Truthful == \A i \in DOMAIN summaries : Tells(summaries[i])
OneEach == \A i, j \in DOMAIN summaries : summaries[i].ticket = summaries[j].ticket => i = j
Bounded == Len(summaries) <= Limit

Copied == TypeOK /\ (\A d \in Downloads : Fits(d)) /\ Truthful /\ OneEach /\ Bounded

----------------------------------------------------------------------------
(* Sequences of summaries. *)

Unique(s) == \A i, j \in DOMAIN s : s[i].ticket = s[j].ticket => i = j
Among(r, e, s) ==
    \A j \in DOMAIN r :
        \/ r[j] = e
        \/ r[j].ticket # e.ticket /\ \E k \in DOMAIN s : r[j] = s[k]
From(r, s) == \A i \in DOMAIN r : \E k \in DOMAIN s : r[i] = s[k]

LEMMA RemoveAtFacts ==
    ASSUME NEW S, NEW s \in Seq(S), NEW i \in 1..Len(s)
    PROVE  /\ RemoveAt(s, i) \in Seq(S)
           /\ Len(RemoveAt(s, i)) = Len(s) - 1
           /\ \A j \in 1..(Len(s) - 1) : RemoveAt(s, i)[j] = IF j < i THEN s[j] ELSE s[j + 1]
<1> DEFINE a == SubSeq(s, 1, i - 1)
           b == SubSeq(s, i + 1, Len(s))
<1>1. a \in Seq(S) /\ Len(a) = i - 1 /\ \A j \in 1..(i - 1) : a[j] = s[j]
  BY SubSeqProperties
<1>2. b \in Seq(S) /\ Len(b) = Len(s) - i /\ \A j \in 1..(Len(s) - i) : b[j] = s[i + j]
  BY SubSeqProperties
<1> HIDE DEF a, b
<1>3. /\ a \o b \in Seq(S)
      /\ Len(a \o b) = Len(a) + Len(b)
      /\ \A j \in 1..(Len(a) + Len(b)) : (a \o b)[j] = IF j <= Len(a) THEN a[j] ELSE b[j - Len(a)]
  BY <1>1, <1>2, ConcatProperties
<1>4. Len(s) \in Nat OBVIOUS
<1>5. Len(a) + Len(b) = Len(s) - 1 BY <1>1, <1>2, <1>4
<1>6. ASSUME NEW j \in 1..(Len(s) - 1) PROVE (a \o b)[j] = IF j < i THEN s[j] ELSE s[j + 1]
  <2>1. (a \o b)[j] = IF j <= Len(a) THEN a[j] ELSE b[j - Len(a)]
    BY <1>3, <1>5
  <2>2. CASE j < i
    BY <2>1, <2>2, <1>1, <1>4
  <2>3. CASE ~(j < i)
    <3>1. ~(j <= Len(a)) /\ j - Len(a) \in 1..(Len(s) - i) /\ i + (j - Len(a)) = j + 1
      BY <1>1, <1>4, <2>3
    <3>2. b[j - Len(a)] = s[j + 1] BY <3>1, <1>2
    <3>3. QED BY <2>1, <3>1, <3>2, <2>3
  <2>4. QED BY <2>2, <2>3
<1>7. RemoveAt(s, i) = a \o b BY DEF RemoveAt, a, b
<1>8. QED BY <1>3, <1>5, <1>6, <1>7

(* Without one of its entries a sequence has the others, each once.        *)
LEMMA RemoveAtKeeps ==
    ASSUME NEW s \in Seq(Entry), NEW i \in DOMAIN s, Unique(s)
    PROVE  LET r == RemoveAt(s, i)
           IN  /\ r \in Seq(Entry) /\ Len(r) = Len(s) - 1
               /\ Unique(r) /\ From(r, s)
               /\ \A j \in DOMAIN r : r[j].ticket # s[i].ticket
<1> DEFINE r == RemoveAt(s, i)
<1>1. i \in 1..Len(s) /\ Len(s) \in Nat OBVIOUS
<1>2. /\ r \in Seq(Entry) /\ Len(r) = Len(s) - 1
      /\ \A j \in 1..(Len(s) - 1) : r[j] = IF j < i THEN s[j] ELSE s[j + 1]
  BY <1>1, RemoveAtFacts
<1> HIDE DEF r
<1>3. DOMAIN r = 1..(Len(s) - 1) /\ DOMAIN s = 1..Len(s)
  BY <1>2
<1>4. From(r, s)
  <2> SUFFICES ASSUME NEW j \in DOMAIN r PROVE \E k \in DOMAIN s : r[j] = s[k]
    BY DEF From
  <2>1. CASE j < i BY <2>1, <1>1, <1>2, <1>3
  <2>2. CASE ~(j < i)
    <3>1. r[j] = s[j + 1] /\ j + 1 \in DOMAIN s BY <2>2, <1>1, <1>2, <1>3
    <3>2. QED BY <3>1
  <2>3. QED BY <2>1, <2>2
<1>5. Unique(r)
  <2> SUFFICES ASSUME NEW j \in DOMAIN r, NEW k \in DOMAIN r, r[j].ticket = r[k].ticket PROVE j = k
    BY DEF Unique
  <2> DEFINE was(x) == IF x < i THEN x ELSE x + 1
  <2>1. was(j) \in DOMAIN s /\ was(k) \in DOMAIN s /\ r[j] = s[was(j)] /\ r[k] = s[was(k)]
    BY <1>1, <1>2, <1>3
  <2>2. was(j) = was(k)
    <3> HIDE DEF was
    <3> QED BY <2>1 DEF Unique
  <2>3. QED BY <2>2, <1>1, <1>3
<1>6. ASSUME NEW j \in DOMAIN r PROVE r[j].ticket # s[i].ticket
  <2> DEFINE was == IF j < i THEN j ELSE j + 1
  <2>1. was \in DOMAIN s /\ was # i /\ r[j] = s[was]
    BY <1>1, <1>2, <1>3
  <2> HIDE DEF was
  <2>2. QED BY <2>1 DEF Unique
<1>7. QED BY <1>2, <1>4, <1>5, <1>6 DEF r

(* So does what is left when the first ones go. *)
LEMMA SuffixKeeps ==
    ASSUME NEW s \in Seq(Entry), NEW m \in 1..(Len(s) + 1), Unique(s)
    PROVE  LET r == SubSeq(s, m, Len(s))
           IN  /\ r \in Seq(Entry) /\ Len(r) = Len(s) - m + 1
               /\ Unique(r) /\ From(r, s)
<1> DEFINE r == SubSeq(s, m, Len(s))
<1>1. Len(s) \in Nat /\ m \in Int OBVIOUS
<1>2. \A i \in m..Len(s) : s[i] \in Entry OBVIOUS
<1>3. /\ r \in Seq(Entry)
      /\ Len(r) = IF m <= Len(s) THEN Len(s) - m + 1 ELSE 0
      /\ \A i \in 1..(Len(s) - m + 1) : r[i] = s[m + i - 1]
  BY <1>1, <1>2, SubSeqProperties
<1> HIDE DEF r
<1>4. Len(r) = Len(s) - m + 1 BY <1>1, <1>3
<1>5. DOMAIN r = 1..(Len(s) - m + 1) /\ DOMAIN s = 1..Len(s) BY <1>3, <1>4
<1>6. ASSUME NEW j \in DOMAIN r PROVE m + j - 1 \in DOMAIN s /\ r[j] = s[m + j - 1]
  BY <1>1, <1>3, <1>5
<1>7. From(r, s) BY <1>6 DEF From
<1>8. Unique(r)
  <2> SUFFICES ASSUME NEW j \in DOMAIN r, NEW k \in DOMAIN r, r[j].ticket = r[k].ticket PROVE j = k
    BY DEF Unique
  <2>1. m + j - 1 \in DOMAIN s /\ m + k - 1 \in DOMAIN s /\ s[m + j - 1].ticket = s[m + k - 1].ticket
    BY <1>6
  <2>2. m + j - 1 = m + k - 1 BY <2>1 DEF Unique
  <2>3. QED BY <2>2, <1>1, <1>5
<1>9. QED BY <1>3, <1>4, <1>7, <1>8 DEF r

LEMMA FromFrom ==
    ASSUME NEW q, NEW r, NEW s, From(q, r), From(r, s)
    PROVE  From(q, s)
BY DEF From

(* An entry whose ticket is not there can be added. *)
LEMMA AppendKeeps ==
    ASSUME NEW s \in Seq(Entry), NEW e \in Entry, Unique(s),
           \A j \in DOMAIN s : s[j].ticket # e.ticket
    PROVE  LET r == Append(s, e)
           IN  /\ r \in Seq(Entry) /\ Len(r) = Len(s) + 1 /\ Unique(r)
               /\ \A j \in DOMAIN r : r[j] = e \/ (j \in DOMAIN s /\ r[j] = s[j])
<1> DEFINE r == Append(s, e)
<1>1. r \in Seq(Entry) /\ Len(r) = Len(s) + 1 /\ Len(s) \in Nat OBVIOUS
<1>2. DOMAIN s = 1..Len(s) /\ DOMAIN r = 1..(Len(s) + 1) OBVIOUS
<1>3. r[Len(s) + 1] = e /\ \A j \in DOMAIN s : r[j] = s[j] OBVIOUS
<1> HIDE DEF r
<1>4. \A j \in DOMAIN r : j \in DOMAIN s \/ j = Len(s) + 1 BY <1>1, <1>2
<1>5. Unique(r) BY <1>3, <1>4 DEF Unique
<1>6. QED BY <1>1, <1>3, <1>4, <1>5 DEF r

(* What _remember_sanitize_summary leaves: the entry, and of those that    *)
(* were there some with other tickets; never more than there is room for.  *)
LEMMA RememberedKeeps ==
    ASSUME TypeOK, OneEach, Bounded, NEW t, NEW e \in Entry, e.ticket = t,
           NEW r, r = Remembered(t, e)
    PROVE  /\ r \in Seq(Entry) /\ Unique(r) /\ Len(r) <= Limit
           /\ Among(r, e, summaries)
<1> DEFINE known == {i \in DOMAIN Fresh : Fresh[i].ticket = t}
           others == IF known # {} THEN RemoveAt(Fresh, CHOOSE i \in known : TRUE)
                     ELSE IF Len(Fresh) >= Limit THEN Tail(Fresh) ELSE Fresh
<1>1. summaries \in Seq(Entry) /\ Unique(summaries) /\ expired \in 0..Len(summaries)
      /\ Len(summaries) \in Nat /\ Len(summaries) <= Limit
  BY DEF TypeOK, OneEach, Unique, Bounded
<1>2. expired + 1 \in 1..(Len(summaries) + 1) BY <1>1
<1>3. /\ Fresh \in Seq(Entry) /\ Len(Fresh) = Len(summaries) - (expired + 1) + 1
      /\ Unique(Fresh) /\ From(Fresh, summaries)
  BY <1>1, <1>2, SuffixKeeps DEF Fresh
<1>4. Len(Fresh) \in Nat /\ Len(Fresh) <= Limit BY <1>1, <1>3, SizesAssumption
<1>5. /\ others \in Seq(Entry) /\ Len(others) < Limit /\ Unique(others) /\ From(others, Fresh)
      /\ \A j \in DOMAIN others : others[j].ticket # t
  <2>1. CASE known # {}
    <3> DEFINE i == CHOOSE i \in known : TRUE
    <3>1. i \in DOMAIN Fresh /\ Fresh[i].ticket = t BY <2>1
    <3>2. others = RemoveAt(Fresh, i) BY <2>1
    <3> HIDE DEF i, others, known
    <3>3. /\ others \in Seq(Entry) /\ Len(others) = Len(Fresh) - 1
          /\ Unique(others) /\ From(others, Fresh)
          /\ \A j \in DOMAIN others : others[j].ticket # Fresh[i].ticket
      BY <3>1, <3>2, <1>3, RemoveAtKeeps
    <3>4. Len(others) < Limit BY <3>3, <1>4, SizesAssumption
    <3>5. QED BY <3>1, <3>3, <3>4
  <2>2. CASE known = {} /\ Len(Fresh) >= Limit
    <3>1. others = Tail(Fresh) BY <2>2
    <3>2. Fresh # <<>> BY <2>2, SizesAssumption
    <3>3. Tail(Fresh) = SubSeq(Fresh, 2, Len(Fresh)) BY <3>2, <1>3, TailIsSubSeq
    <3>4. 2 \in 1..(Len(Fresh) + 1) BY <2>2, <1>4, SizesAssumption
    <3>5. \A j \in DOMAIN Fresh : Fresh[j].ticket # t BY <2>2
    <3> HIDE DEF others, known
    <3>6. /\ others \in Seq(Entry) /\ Len(others) = Len(Fresh) - 2 + 1
          /\ Unique(others) /\ From(others, Fresh)
      BY <3>1, <3>3, <3>4, <1>3, SuffixKeeps
    <3>7. Len(others) < Limit BY <3>6, <1>4, SizesAssumption
    <3>8. QED BY <3>5, <3>6, <3>7 DEF From
  <2>3. CASE known = {} /\ ~(Len(Fresh) >= Limit)
    <3>1. others = Fresh BY <2>3
    <3>2. Len(Fresh) < Limit BY <2>3, <1>4, SizesAssumption
    <3>3. \A j \in DOMAIN Fresh : Fresh[j].ticket # t BY <2>3
    <3> HIDE DEF others, known
    <3>4. QED BY <3>1, <3>2, <3>3, <1>3 DEF From
  <2>4. QED BY <2>1, <2>2, <2>3
<1>6. Remembered(t, e) = Append(others, e) BY DEF Remembered
<1> HIDE DEF others, known
<1>7. r = Append(others, e) BY <1>6
<1>8. /\ r \in Seq(Entry) /\ Len(r) = Len(others) + 1 /\ Unique(r)
      /\ \A j \in DOMAIN r : r[j] = e \/ (j \in DOMAIN others /\ r[j] = others[j])
  BY <1>5, <1>7, AppendKeeps
<1>9. Len(others) \in Nat /\ Limit \in Nat BY <1>5, SizesAssumption
<1>10. Len(r) <= Limit BY <1>5, <1>8, <1>9
<1>11. From(others, summaries) BY <1>3, <1>5, FromFrom
<1>12. ASSUME NEW j \in DOMAIN r, r[j] # e
       PROVE  r[j].ticket # t /\ \E k \in DOMAIN summaries : r[j] = summaries[k]
  <2>1. j \in DOMAIN others /\ r[j] = others[j] BY <1>8, <1>12
  <2>2. QED BY <2>1, <1>5, <1>11 DEF From
<1>13. Among(r, e, summaries) BY <1>12 DEF Among
<1>14. QED BY <1>8, <1>10, <1>13

(* Of numbers that there are, one is the smallest. *)
LEMMA Smallest ==
    ASSUME NEW T, T \subseteq Nat, T # {}
    PROVE  \E x \in T : \A y \in T : ~(y < x)
<1>1. \E x \in T : \A y \in T : ~(<<y, x>> \in OpToRel(<, Nat))
  BY NatLessThanWellFounded, WFMin
<1>2. PICK x \in T : \A y \in T : ~(<<y, x>> \in OpToRel(<, Nat))
  BY <1>1
<1>3. ASSUME NEW y \in T, y < x PROVE FALSE
  <2>1. <<y, x>> \in OpToRel(<, Nat)
    BY <1>3 DEF OpToRel
  <2>2. QED BY <2>1, <1>2
<1>4. QED BY <1>2, <1>3

----------------------------------------------------------------------------
(* Downloads side by side. *)

(* Nothing of download e changes. *)
Same(e) ==
    /\ pc'[e] = pc[e] /\ ending'[e] = ending[e] /\ ticket'[e] = ticket[e]
    /\ index'[e] = index[e] /\ masked'[e] = masked[e] /\ unplaced'[e] = unplaced[e]
    /\ feeder'[e] = feeder[e] /\ fed'[e] = fed[e] /\ tool'[e] = tool[e] /\ read'[e] = read[e]
    /\ taken'[e] = taken[e] /\ pending'[e] = pending[e] /\ exhausted'[e] = exhausted[e]

(* The step is one of download d, and the capture is the same. *)
Only(d) ==
    /\ selected' = selected /\ elsewhere' = elsewhere
    /\ \A e \in Downloads \ {d} : Same(e)

(* What a summary of download e says stays true. *)
SameEnd(e) ==
    /\ ticket[e] # NoTicket => ticket'[e] = ticket[e]
    /\ pc'[e] = "ended" <=> pc[e] = "ended"
    /\ pc'[e] \in {"failed", "cut"} <=> pc[e] \in {"failed", "cut"}

LEMMA Steady ==
    ASSUME NEW e, Fits(e), Same(e), selected' = selected
    PROVE  Fits(e)'
<1>1. Printed(e)' = Printed(e) BY DEF Printed, Same
<1>2. Passes(e)' BY DEF Fits, Passes, Same
<1>3. Piped(e)' BY DEF Fits, Piped, Same
<1>4. InStep(e)' BY <1>1 DEF Fits, InStep, Same
<1>5. Accounts(e)' BY DEF Fits, Accounts, Same
<1>6. QED BY <1>2, <1>3, <1>4, <1>5 DEF Fits

LEMMA OthersFit ==
    ASSUME \A e \in Downloads : Fits(e), NEW d \in Downloads, Only(d), Fits(d)'
    PROVE  \A e \in Downloads : Fits(e)'
<1> SUFFICES ASSUME NEW e \in Downloads PROVE Fits(e)'
  OBVIOUS
<1>1. CASE e = d BY <1>1
<1>2. CASE e # d BY <1>2, Steady DEF Only
<1>3. QED BY <1>1, <1>2

(* A summary of a download whose end does not change stays true. *)
LEMMA StillTells ==
    ASSUME NEW s \in Entry, Tells(s), s.of # Nobody => SameEnd(s.of)
    PROVE  Tells(s)'
<1>1. CASE s.of = Nobody BY <1>1 DEF Tells
<1>2. CASE s.of # Nobody
  <2>1. s.ticket # NoTicket BY TicketAssumption DEF Entry
  <2>2. QED BY <1>2, <2>1 DEF Tells, SameEnd
<1>3. QED BY <1>1, <1>2

LEMMA EntryAt ==
    ASSUME TypeOK, NEW i \in DOMAIN summaries
    PROVE  /\ summaries[i] \in Entry
           /\ summaries[i].of # Nobody => summaries[i].of \in Downloads
<1>1. summaries \in Seq(Entry) BY DEF TypeOK
<1>2. summaries[i] \in Entry BY <1>1
<1>3. QED BY <1>2 DEF Entry

(* A step of one download that leaves the summaries alone. *)
LEMMA Quietly ==
    ASSUME Copied, NEW d \in Downloads, TypeOK', Only(d), Fits(d)', SameEnd(d), summaries' = summaries
    PROVE  Copied'
<1>1. \A e \in Downloads : Fits(e)' BY OthersFit DEF Copied
<1>2. \A e \in Downloads : SameEnd(e) BY DEF Only, Same, SameEnd
<1>3. Truthful'
  <2> SUFFICES ASSUME NEW i \in DOMAIN summaries PROVE Tells(summaries[i])'
    BY DEF Truthful
  <2> DEFINE s == summaries[i]
  <2>1. s \in Entry /\ (s.of # Nobody => s.of \in Downloads) BY EntryAt DEF Copied
  <2>2. Tells(s) BY DEF Copied, Truthful
  <2>3. (s.of # Nobody => SameEnd(s.of)) BY <2>1, <1>2
  <2> HIDE DEF s
  <2>4. \A x \in Entry : Tells(x) /\ (x.of # Nobody => SameEnd(x.of)) => Tells(x)'
    BY StillTells
  <2>5. s' = s BY DEF s
  <2>6. QED BY <2>1, <2>2, <2>3, <2>4, <2>5 DEF s, Tells
<1>4. OneEach' BY DEF Copied, OneEach
<1>5. Bounded' BY DEF Copied, Bounded
<1>6. QED BY <1>1, <1>3, <1>4, <1>5 DEF Copied

(* An entry that is true, put in the place of the one with its ticket,     *)
(* leaves the summaries true.                                              *)
LEMMA Remembering ==
    ASSUME Copied, NEW t, NEW e \in Entry, e.ticket = t, summaries' = Remembered(t, e),
           \A x \in Downloads : x # e.of => SameEnd(x),
           e.of # Nobody => ticket[e.of] \in {t, NoTicket},
           Tells(e)'
    PROVE  summaries' \in Seq(Entry) /\ Truthful' /\ OneEach' /\ Bounded'
<1>1. /\ summaries' \in Seq(Entry) /\ Unique(summaries') /\ Len(summaries') <= Limit
      /\ Among(summaries', e, summaries)
  BY RememberedKeeps DEF Copied
<1>2. \A x \in Entry : Tells(x) /\ (x.of # Nobody => SameEnd(x.of)) => Tells(x)'
  BY StillTells
<1>3. ASSUME NEW x \in Entry, x.ticket # t, NEW k \in DOMAIN summaries, x = summaries[k]
      PROVE  Tells(x)'
  <2>1. x.of # Nobody => x.of \in Downloads BY <1>3, EntryAt DEF Copied
  <2>2. Tells(x) BY <1>3 DEF Copied, Truthful
  <2>3. x.of # Nobody => x.of # e.of
    <3>1. x.ticket # NoTicket BY TicketAssumption DEF Entry
    <3>2. QED BY <1>3, <2>2, <3>1 DEF Tells
  <2>4. QED BY <1>2, <2>1, <2>2, <2>3
<1>4. ASSUME NEW j \in DOMAIN summaries' PROVE Tells(summaries[j])'
  <2>1. summaries'[j] \in Entry BY <1>1
  <2>2. CASE summaries'[j] = e BY <2>2 DEF Tells
  <2>3. CASE summaries'[j] # e
    <3>1. PICK k \in DOMAIN summaries : summaries'[j] = summaries[k] BY <2>3, <1>1 DEF Among
    <3>2. summaries'[j].ticket # t BY <2>3, <1>1 DEF Among
    <3>4. \A x \in Entry : x.ticket # t /\ (\E i \in DOMAIN summaries : x = summaries[i]) => Tells(x)'
      BY <1>3
    <3>5. QED BY <2>1, <3>1, <3>2, <3>4 DEF Tells
  <2>4. QED BY <2>2, <2>3
<1>5. Truthful' BY <1>4 DEF Truthful
<1>6. QED BY <1>1, <1>5 DEF OneEach, Unique, Bounded

(* RememberSummary on behalf of a download that begins or ends. *)
LEMMA RememberingOwn ==
    ASSUME Copied, NEW d \in Downloads, NEW t \in Tickets \union {NoTicket},
           NEW state \in {"running", "summary", "error"}, RememberSummary(d, t, state),
           \A x \in Downloads \ {d} : SameEnd(x),
           ticket[d] \in {t, NoTicket}, ticket'[d] = t,
           state = "summary" <=> pc'[d] = "ended",
           state = "error" <=> pc'[d] \in {"failed", "cut"}
    PROVE  /\ summaries' \in Seq(Entry) /\ expired' \in 0..Len(summaries')
           /\ Truthful' /\ OneEach' /\ Bounded'
<1>1. d # Nobody BY TicketAssumption
<1>2. CASE t = NoTicket
  <2>1. summaries' = summaries /\ expired' = expired /\ ticket[d] = NoTicket
    BY <1>2 DEF RememberSummary
  <2>2. ASSUME NEW i \in DOMAIN summaries PROVE Tells(summaries[i])'
    <3>1. summaries[i] \in Entry /\ (summaries[i].of # Nobody => summaries[i].of \in Downloads)
      BY EntryAt DEF Copied
    <3>2. Tells(summaries[i]) BY DEF Copied, Truthful
    <3>3. summaries[i].ticket # NoTicket BY <3>1, TicketAssumption DEF Entry
    <3>4. summaries[i].of # Nobody => SameEnd(summaries[i].of)
      BY <2>1, <3>1, <3>2, <3>3 DEF Tells
    <3>5. \A x \in Entry : Tells(x) /\ (x.of # Nobody => SameEnd(x.of)) => Tells(x)'
      BY StillTells
    <3>6. QED BY <2>1, <3>1, <3>2, <3>4, <3>5 DEF Tells
  <2>3. Truthful' BY <2>1, <2>2 DEF Truthful
  <2>4. QED BY <2>1, <2>3 DEF Copied, TypeOK, OneEach, Bounded
<1>3. CASE t # NoTicket
  <2> DEFINE e == [ticket |-> t, of |-> d, state |-> state]
  <2>1. summaries' = Remembered(t, e) /\ expired' = 0 BY <1>3 DEF RememberSummary
  <2>2. e \in Entry /\ e.ticket = t /\ e.of = d /\ e.state = state BY <1>3 DEF Entry
  <2> HIDE DEF e
  <2>3. Tells(e)' BY <2>2 DEF Tells, e
  <2>4. summaries' \in Seq(Entry) /\ Truthful' /\ OneEach' /\ Bounded'
    BY <2>1, <2>2, <2>3, Remembering
  <2>5. Len(summaries') \in Nat BY <2>4
  <2>6. QED BY <2>1, <2>4, <2>5
<1>4. QED BY <1>2, <1>3

----------------------------------------------------------------------------
(* The feeder and tshark. *)

LEMMA FeedFits ==
    ASSUME Copied, NEW d \in Downloads, Feed(d)
    PROVE  Copied'
<1>1. TypeOK /\ Fits(d) BY DEF Copied
<1>2. TypeOK' BY <1>1, SizesAssumption, SMTT(30) DEF TypeOK, Feed, ToolOnly, Over, Exited
<1>3. Only(d) /\ SameEnd(d) /\ summaries' = summaries
  BY <1>1 DEF TypeOK, Only, Same, SameEnd, Feed, ToolOnly, Over, Exited
<1>4. Passes(d)' BY <1>1 DEF TypeOK, Fits, Passes, Feed, ToolOnly, Over, Exited
<1>5. Piped(d)' BY <1>1, SizesAssumption, SMTT(30) DEF TypeOK, Fits, Piped, Feed, ToolOnly, Over, Exited
<1>6. InStep(d)' BY <1>1 DEF TypeOK, Fits, InStep, Printed, Feed, ToolOnly, Over, Exited
<1>7. Accounts(d)' BY <1>1 DEF TypeOK, Fits, Accounts, Feed, ToolOnly, Over, Exited
<1>8. QED BY <1>2, <1>3, <1>4, <1>5, <1>6, <1>7, Quietly DEF Fits

LEMMA FeedEndsFits ==
    ASSUME Copied, NEW d \in Downloads, FeedEnds(d)
    PROVE  Copied'
<1>1. TypeOK /\ Fits(d) BY DEF Copied
<1>2. TypeOK' BY <1>1, SizesAssumption, SMTT(30) DEF TypeOK, FeedEnds, ToolOnly, Over, Exited
<1>3. Only(d) /\ SameEnd(d) /\ summaries' = summaries
  BY <1>1 DEF TypeOK, Only, Same, SameEnd, FeedEnds, ToolOnly, Over, Exited
<1>4. Passes(d)' BY <1>1 DEF TypeOK, Fits, Passes, FeedEnds, ToolOnly, Over, Exited
<1>5. Piped(d)' BY <1>1, SizesAssumption, SMTT(30) DEF TypeOK, Fits, Piped, FeedEnds, ToolOnly, Over, Exited
<1>6. InStep(d)' BY <1>1 DEF TypeOK, Fits, InStep, Printed, FeedEnds, ToolOnly, Over, Exited
<1>7. Accounts(d)' BY <1>1 DEF TypeOK, Fits, Accounts, FeedEnds, ToolOnly, Over, Exited
<1>8. QED BY <1>2, <1>3, <1>4, <1>5, <1>6, <1>7, Quietly DEF Fits

LEMMA FeedBreaksFits ==
    ASSUME Copied, NEW d \in Downloads, FeedBreaks(d)
    PROVE  Copied'
<1>1. TypeOK /\ Fits(d) BY DEF Copied
<1>2. TypeOK' BY <1>1, SizesAssumption, SMTT(30) DEF TypeOK, FeedBreaks, ToolOnly, Over, Exited
<1>3. Only(d) /\ SameEnd(d) /\ summaries' = summaries
  BY <1>1 DEF TypeOK, Only, Same, SameEnd, FeedBreaks, ToolOnly, Over, Exited
<1>4. Passes(d)' BY <1>1 DEF TypeOK, Fits, Passes, FeedBreaks, ToolOnly, Over, Exited
<1>5. Piped(d)' BY <1>1, SizesAssumption, SMTT(30) DEF TypeOK, Fits, Piped, FeedBreaks, ToolOnly, Over, Exited
<1>6. InStep(d)' BY <1>1 DEF TypeOK, Fits, InStep, Printed, FeedBreaks, ToolOnly, Over, Exited
<1>7. Accounts(d)' BY <1>1 DEF TypeOK, Fits, Accounts, FeedBreaks, ToolOnly, Over, Exited
<1>8. QED BY <1>2, <1>3, <1>4, <1>5, <1>6, <1>7, Quietly DEF Fits

LEMMA ToolReadsFits ==
    ASSUME Copied, NEW d \in Downloads, ToolReads(d)
    PROVE  Copied'
<1>1. TypeOK /\ Fits(d) BY DEF Copied
<1>2. TypeOK' BY <1>1, SizesAssumption, SMTT(30) DEF TypeOK, ToolReads, ToolOnly, Over, Exited
<1>3. Only(d) /\ SameEnd(d) /\ summaries' = summaries
  BY <1>1 DEF TypeOK, Only, Same, SameEnd, ToolReads, ToolOnly, Over, Exited
<1>4. Passes(d)' BY <1>1 DEF TypeOK, Fits, Passes, ToolReads, ToolOnly, Over, Exited
<1>5. Piped(d)' BY <1>1, SizesAssumption, SMTT(30) DEF TypeOK, Fits, Piped, ToolReads, ToolOnly, Over, Exited
<1>6. InStep(d)' BY <1>1 DEF TypeOK, Fits, InStep, Printed, ToolReads, ToolOnly, Over, Exited
<1>7. Accounts(d)' BY <1>1 DEF TypeOK, Fits, Accounts, ToolReads, ToolOnly, Over, Exited
<1>8. QED BY <1>2, <1>3, <1>4, <1>5, <1>6, <1>7, Quietly DEF Fits

LEMMA ToolExitsFits ==
    ASSUME Copied, NEW d \in Downloads, ToolExits(d)
    PROVE  Copied'
<1>1. TypeOK /\ Fits(d) BY DEF Copied
<1>2. TypeOK' BY <1>1, SizesAssumption, SMTT(30) DEF TypeOK, ToolExits, ToolOnly, Over, Exited
<1>3. Only(d) /\ SameEnd(d) /\ summaries' = summaries
  BY <1>1 DEF TypeOK, Only, Same, SameEnd, ToolExits, ToolOnly, Over, Exited
<1>4. Passes(d)' BY <1>1 DEF TypeOK, Fits, Passes, ToolExits, ToolOnly, Over, Exited
<1>5. Piped(d)' BY <1>1, SizesAssumption, SMTT(30) DEF TypeOK, Fits, Piped, ToolExits, ToolOnly, Over, Exited
<1>6. InStep(d)' BY <1>1 DEF TypeOK, Fits, InStep, Printed, ToolExits, ToolOnly, Over, Exited
<1>7. Accounts(d)' BY <1>1 DEF TypeOK, Fits, Accounts, ToolExits, ToolOnly, Over, Exited
<1>8. QED BY <1>2, <1>3, <1>4, <1>5, <1>6, <1>7, Quietly DEF Fits

LEMMA ToolDiesFits ==
    ASSUME Copied, NEW d \in Downloads, ToolDies(d)
    PROVE  Copied'
<1>1. TypeOK /\ Fits(d) BY DEF Copied
<1>2. TypeOK' BY <1>1, SizesAssumption, SMTT(30) DEF TypeOK, ToolDies, ToolOnly, Over, Exited
<1>3. Only(d) /\ SameEnd(d) /\ summaries' = summaries
  BY <1>1 DEF TypeOK, Only, Same, SameEnd, ToolDies, ToolOnly, Over, Exited
<1>4. Passes(d)' BY <1>1 DEF TypeOK, Fits, Passes, ToolDies, ToolOnly, Over, Exited
<1>5. Piped(d)' BY <1>1, SizesAssumption, SMTT(30) DEF TypeOK, Fits, Piped, ToolDies, ToolOnly, Over, Exited
<1>6. InStep(d)' BY <1>1 DEF TypeOK, Fits, InStep, Printed, ToolDies, ToolOnly, Over, Exited
<1>7. Accounts(d)' BY <1>1 DEF TypeOK, Fits, Accounts, ToolDies, ToolOnly, Over, Exited
<1>8. QED BY <1>2, <1>3, <1>4, <1>5, <1>6, <1>7, Quietly DEF Fits

----------------------------------------------------------------------------
(* The request and the reader. *)

LEMMA DroppedFits ==
    ASSUME Copied, NEW d \in Downloads, Dropped(d)
    PROVE  Copied'
<1>1. TypeOK /\ Fits(d) BY DEF Copied
<1>2. TypeOK' BY <1>1, SizesAssumption, SMTT(30) DEF TypeOK, Dropped, streams, Over, Endings, Before
<1>3. Only(d) /\ SameEnd(d) /\ summaries' = summaries
  BY <1>1 DEF TypeOK, Only, Same, SameEnd, Dropped, streams, Over, Endings, Before
<1>4. Passes(d)' BY <1>1 DEF TypeOK, Fits, Passes, Dropped, streams, Over, Endings, Before
<1>5. Piped(d)' BY <1>1, SizesAssumption, SMTT(30) DEF TypeOK, Fits, Passes, Piped, Dropped, streams, Over, Endings, Before
<1>6. InStep(d)' BY <1>1 DEF TypeOK, Fits, InStep, Printed, Dropped, streams, Over, Endings, Before
<1>7. Accounts(d)' BY <1>1 DEF TypeOK, Fits, Accounts, Dropped, streams, Over, Endings, Before
<1>8. QED BY <1>2, <1>3, <1>4, <1>5, <1>6, <1>7, Quietly DEF Fits

LEMMA StartFits ==
    ASSUME Copied, NEW d \in Downloads, Start(d)
    PROVE  Copied'
<1>1. TypeOK /\ Fits(d) BY DEF Copied
<1>2. TypeOK' BY <1>1, SizesAssumption, SMTT(30) DEF TypeOK, Start, Over, Endings, Before, Exited
<1>3. Only(d) /\ SameEnd(d) /\ summaries' = summaries
  BY <1>1 DEF TypeOK, Only, Same, SameEnd, Start, Over, Endings, Before, Exited
<1>4. Passes(d)' BY <1>1 DEF TypeOK, Fits, Passes, Start, Over, Endings, Before, Exited
<1>5. Piped(d)' BY <1>1, SizesAssumption, SMTT(30) DEF TypeOK, Fits, Piped, Start, Over, Endings, Before, Exited
<1>6. InStep(d)' BY <1>1 DEF TypeOK, Fits, Passes, InStep, Printed, Start, Over, Endings, Before, Exited
<1>7. Accounts(d)' BY <1>1 DEF TypeOK, Fits, Accounts, Start, Over, Endings, Before, Exited
<1>8. QED BY <1>2, <1>3, <1>4, <1>5, <1>6, <1>7, Quietly DEF Fits

LEMMA InterruptedFits ==
    ASSUME Copied, NEW d \in Downloads, Interrupted(d)
    PROVE  Copied'
<1>1. TypeOK /\ Fits(d) BY DEF Copied
<1>2. TypeOK' BY <1>1, SizesAssumption, SMTT(30) DEF TypeOK, Interrupted, Leave, streams, Over, Endings, Before
<1>3. Only(d) /\ SameEnd(d) /\ summaries' = summaries
  BY <1>1 DEF TypeOK, Only, Same, SameEnd, Interrupted, Leave, streams, Over, Endings, Before
<1>4. Passes(d)' BY <1>1 DEF TypeOK, Fits, Passes, Interrupted, Leave, streams, Over, Endings, Before
<1>5. Piped(d)' BY <1>1, SizesAssumption, SMTT(30) DEF TypeOK, Fits, Piped, Interrupted, Leave, streams, Over, Endings, Before
<1>6. InStep(d)' BY <1>1 DEF TypeOK, Fits, InStep, Printed, Interrupted, Leave, streams, Over, Endings, Before
<1>7. Accounts(d)' BY <1>1 DEF TypeOK, Fits, Accounts, Interrupted, Leave, streams, Over, Endings, Before
<1>8. QED BY <1>2, <1>3, <1>4, <1>5, <1>6, <1>7, Quietly DEF Fits

(* The packet _advance takes is the first of those printed. *)
LEMMA FirstPrinted ==
    ASSUME TypeOK, NEW d \in Downloads, Printed(d) # {}
    PROVE  /\ Min(Printed(d)) \in Printed(d)
           /\ \A f \in Printed(d) : Min(Printed(d)) <= f
<1>1. Printed(d) \subseteq Nat
  <2>1. \A f \in selected : f \in Nat BY SizesAssumption DEF TypeOK, All
  <2>2. QED BY <2>1 DEF Printed
<1>2. \E x \in Printed(d) : \A y \in Printed(d) : ~(y < x)
  BY <1>1, Smallest
<1>3. \E x \in Printed(d) : \A y \in Printed(d) : x <= y
  BY <1>1, <1>2
<1>4. QED BY <1>3 DEF Min

LEMMA AdvanceFits ==
    ASSUME Copied, NEW d \in Downloads, Advance(d)
    PROVE  Copied'
<1>1. TypeOK /\ Fits(d) BY DEF Copied
<1>2. /\ pc[d] = "streaming" /\ tool[d] # "none" /\ pending[d] = 0 /\ ~exhausted[d]
      /\ UNCHANGED <<selected, elsewhere, ticket, summaries, expired>>
      /\ UNCHANGED <<index, masked, unplaced, feeder, fed, tool, read>>
  BY DEF Advance, Leave
<1>3. CASE /\ Printed(d) # {}
           /\ pending' = [pending EXCEPT ![d] = Min(Printed(d))]
           /\ taken' = [taken EXCEPT ![d] = Min(Printed(d))]
           /\ UNCHANGED <<pc, ending, exhausted>>
  <2> DEFINE n == Min(Printed(d))
  <2>1. n \in Printed(d) /\ \A f \in Printed(d) : n <= f BY <1>1, <1>3, FirstPrinted
  <2>2. pending' = [pending EXCEPT ![d] = n] /\ taken' = [taken EXCEPT ![d] = n] BY <1>3
  <2> HIDE DEF n
  <2>3. n \in selected /\ n \in 1..Frames /\ taken[d] < n /\ n <= read[d]
    BY <1>1, <2>1, SizesAssumption DEF Printed, TypeOK, All
  <2>4. TypeOK' BY <1>1, <1>2, <1>3, <2>2, <2>3 DEF TypeOK
  <2>5. pending'[d] = n /\ taken'[d] = n BY <1>1, <2>2 DEF TypeOK
  <2>6. Only(d) /\ SameEnd(d) BY <1>1, <1>2, <1>3, <2>2 DEF TypeOK, Only, Same, SameEnd
  <2>7. Passes(d)' BY <1>1, <1>2, <1>3, <2>5 DEF Fits, Passes, Before
  <2>8. Piped(d)' BY <1>1, <1>2, <1>3, <2>3, <2>5 DEF Fits, Piped
  <2>9. InStep(d)'
    <3>1. taken[d] = index[d] /\ masked[d] \union unplaced[d] = {f \in selected : f <= taken[d]} \ {0}
      BY <1>1, <1>2 DEF Fits, InStep
    <3>2. {f \in selected : f <= taken[d]} \ {0} = {f \in selected : f <= n} \ {n}
      <4>1. \A f \in selected : f # 0 /\ f \in Nat BY <1>1, SizesAssumption DEF TypeOK, All
      <4>2. \A f \in selected : taken[d] < f /\ f <= read[d] => n <= f BY <2>1 DEF Printed
      <4>3. taken[d] \in Nat /\ read[d] \in Nat /\ n \in Nat
        BY <1>1, <2>3, SizesAssumption DEF TypeOK
      <4>4. \A f \in selected : f <= taken[d] => f <= n /\ f # n BY <4>1, <4>3, <2>3
      <4>5. \A f \in selected : f <= n /\ f # n => f <= taken[d]
        BY <4>1, <4>2, <4>3, <2>3
      <4>6. QED BY <4>1, <4>4, <4>5
    <3>3. n # 0 BY <2>3
    <3>4. QED BY <1>1, <1>2, <1>3, <2>3, <2>5, <3>1, <3>2, <3>3 DEF InStep, Fits
  <2>10. Accounts(d)' BY <1>1, <1>2, <1>3 DEF Fits, Accounts, Endings
  <2>11. QED BY <1>2, <2>4, <2>6, <2>7, <2>8, <2>9, <2>10, Quietly DEF Fits
<1>4. CASE /\ Printed(d) = {} /\ tool[d] \in Exited
           /\ exhausted' = [exhausted EXCEPT ![d] = TRUE]
           /\ UNCHANGED <<pc, ending, pending, taken>>
  <2>1. TypeOK' BY <1>1, <1>2, <1>4 DEF TypeOK
  <2>2. Only(d) /\ SameEnd(d) BY <1>1, <1>2, <1>4 DEF TypeOK, Only, Same, SameEnd
  <2>3. Passes(d)' BY <1>1, <1>2, <1>4 DEF Fits, Passes, Before
  <2>4. Piped(d)' BY <1>1, <1>2, <1>4 DEF Fits, Piped
  <2>5. Printed(d)' = Printed(d) BY <1>2, <1>4 DEF Printed
  <2>6. InStep(d)' BY <1>1, <1>2, <1>4, <2>5 DEF TypeOK, Fits, InStep, Exited
  <2>7. Accounts(d)' BY <1>1, <1>2, <1>4 DEF Fits, Accounts, Endings
  <2>8. QED BY <1>2, <2>1, <2>2, <2>3, <2>4, <2>6, <2>7, Quietly DEF Fits
<1>5. CASE /\ pc' = [pc EXCEPT ![d] = "closing"]
           /\ ending' = [ending EXCEPT ![d] = "failed"]
           /\ UNCHANGED <<pending, taken, exhausted>>
  <2>1. TypeOK' BY <1>1, <1>2, <1>5 DEF TypeOK, Endings
  <2>2. Only(d) /\ SameEnd(d) BY <1>1, <1>2, <1>5 DEF TypeOK, Only, Same, SameEnd
  <2>3. pc'[d] = "closing" /\ ending'[d] = "failed" BY <1>1, <1>5 DEF TypeOK
  <2>4. Passes(d)' BY <1>1, <1>2, <1>5, <2>3 DEF Fits, Passes, Before
  <2>5. Piped(d)' BY <1>1, <1>2, <1>5, <2>3 DEF Fits, Piped, Over
  <2>6. Printed(d)' = Printed(d) BY <1>2, <1>5 DEF Printed
  <2>7. InStep(d)' BY <1>1, <1>2, <1>5, <2>6 DEF Fits, InStep
  <2>8. Accounts(d)' BY <1>1, <1>2, <2>3 DEF Fits, Accounts, Endings
  <2>9. QED BY <1>2, <2>1, <2>2, <2>4, <2>5, <2>7, <2>8, Quietly DEF Fits
<1>6. QED BY <1>3, <1>4, <1>5 DEF Advance, Leave

(* The packet held back is never for a frame that has gone: rewriting the  *)
(* next one does not leave the loop.                                       *)
LEMMA RewriteFrameFits ==
    ASSUME Copied, NEW d \in Downloads, RewriteFrame(d)
    PROVE  Copied'
<1> DEFINE i == index[d] + 1
<1>1. TypeOK /\ Fits(d) BY DEF Copied
<1>2. index[d] \in 0..Frames /\ pending[d] \in 0..Frames /\ taken[d] \in 0..Frames
      /\ Frames \in Nat /\ i \in Nat \ {0}
  BY <1>1, SizesAssumption DEF TypeOK
<1>3. ~(pending[d] # 0 /\ pending[d] < i) BY <1>1, <1>2 DEF Fits, InStep
<1> HIDE DEF i
<1>4. /\ pc[d] = "streaming" /\ index[d] < Frames /\ Answered(d)
      /\ index' = [index EXCEPT ![d] = i]
      /\ pending' = [pending EXCEPT ![d] = IF @ = i THEN 0 ELSE @]
      /\ masked' = [masked EXCEPT ![d] = IF Masks(d, i) THEN @ \union {i} ELSE @]
      /\ unplaced' = [unplaced EXCEPT ![d] = IF Misses(d, i) THEN @ \union {i} ELSE @]
      /\ UNCHANGED <<selected, elsewhere, pc, ending, ticket, summaries, expired>>
      /\ UNCHANGED <<feeder, fed, tool, read, taken, exhausted>>
  BY <1>3 DEF RewriteFrame, i
<1>5. /\ index'[d] = i /\ pending'[d] = (IF pending[d] = i THEN 0 ELSE pending[d])
      /\ i = index[d] + 1 /\ i \in All
      /\ masked'[d] = IF Masks(d, i) THEN masked[d] \union {i} ELSE masked[d]
      /\ unplaced'[d] = IF Misses(d, i) THEN unplaced[d] \union {i} ELSE unplaced[d]
  BY <1>1, <1>2, <1>4 DEF TypeOK, i, All
<1>6. masked'[d] \union unplaced'[d] =
         masked[d] \union unplaced[d] \union (IF pending[d] = i THEN {i} ELSE {})
  BY <1>5 DEF Masks, Misses
<1>7. TypeOK'
  <2>1. masked'[d] \subseteq All /\ unplaced'[d] \subseteq All BY <1>1, <1>5 DEF TypeOK
  <2>2. masked' \in [Downloads -> SUBSET All] /\ unplaced' \in [Downloads -> SUBSET All]
    BY <1>1, <1>4, <2>1 DEF TypeOK
  <2>3. index' \in [Downloads -> 0..Frames] /\ pending' \in [Downloads -> 0..Frames]
    BY <1>1, <1>2, <1>4, <1>5 DEF TypeOK
  <2>4. QED BY <1>1, <1>4, <2>2, <2>3 DEF TypeOK
<1>8. Only(d) /\ SameEnd(d) BY <1>1, <1>4 DEF TypeOK, Only, Same, SameEnd
<1>9. Passes(d)' BY <1>1, <1>2, <1>4, <1>5 DEF Fits, Passes, Before
<1>10. Piped(d)' BY <1>1, <1>4 DEF Fits, Piped
<1>11. InStep(d)'
  <2>1. Printed(d)' = Printed(d) BY <1>4 DEF Printed
  <2>2. 0 \notin selected BY <1>1 DEF TypeOK, All
  <2>3. CASE pending[d] = i
    <3>1. pending[d] = taken[d] /\ i \in selected /\ i <= taken[d] /\ i # 0
      BY <1>1, <1>2, <2>3 DEF Fits, InStep
    <3>2. masked'[d] \union unplaced'[d] = {f \in selected : f <= taken[d]} \ {0}
      BY <1>1, <1>6, <2>2, <2>3, <3>1 DEF Fits, InStep
    <3>3. QED BY <1>1, <1>2, <1>4, <1>5, <2>1, <2>3, <3>1, <3>2 DEF Fits, InStep
  <2>4. CASE pending[d] # i
    <3>1. masked'[d] \union unplaced'[d] = masked[d] \union unplaced[d] BY <1>6, <2>4
    <3>2. pending'[d] = pending[d] BY <1>5, <2>4
    <3>3. pending[d] # 0 => i < pending[d] BY <1>2, <1>3, <2>4
    <3>4. pending[d] = 0 => exhausted[d] \/ tool[d] = "none" BY <1>4 DEF Answered
    <3>5. QED BY <1>1, <1>4, <1>5, <2>1, <3>1, <3>2, <3>3, <3>4 DEF Fits, InStep
  <2>5. QED BY <2>3, <2>4
<1>12. Accounts(d)' BY <1>1, <1>4 DEF Fits, Accounts, Endings
<1>13. QED BY <1>4, <1>7, <1>8, <1>9, <1>10, <1>11, <1>12, Quietly DEF Fits

(* finish() lets a download end well only when tshark ran through what it  *)
(* was fed, or there was nothing for it to do.                             *)
LEMMA FinishFits ==
    ASSUME Copied, NEW d \in Downloads, Finish(d)
    PROVE  Copied'
<1>1. TypeOK /\ Fits(d) BY DEF Copied
<1>2. TypeOK' BY <1>1 DEF TypeOK, Finish, Leave, streams, Endings
<1>3. Only(d) /\ SameEnd(d) /\ summaries' = summaries
  BY <1>1 DEF TypeOK, Only, Same, SameEnd, Finish, Leave, streams
<1>4. /\ pc[d] = "streaming" /\ pc'[d] = "closing" /\ Answered(d)
      /\ UNCHANGED <<selected, elsewhere, ticket, index, masked, unplaced, feeder, fed, tool, read,
                     taken, pending, exhausted>>
      /\ ending'[d] = "ended" => pending[d] = 0 /\ tool[d] \in {"none", "clean"}
  BY <1>1 DEF TypeOK, Finish, Leave, streams
<1>5. Passes(d)' BY <1>1, <1>4 DEF Fits, Passes, Before
<1>6. Piped(d)' BY <1>1, <1>4 DEF Fits, Piped, Over
<1>7. Printed(d)' = Printed(d) BY <1>4 DEF Printed
<1>8. InStep(d)' BY <1>1, <1>4, <1>7 DEF Fits, InStep
<1>9. ASSUME ending'[d] = "ended"
      PROVE  feeder[d] = "short" \/ selected = masked[d] \union unplaced[d]
  <2>1. pending[d] = 0 /\ tool[d] \in {"none", "clean"} BY <1>4, <1>9
  <2>2. \A f \in selected : f \in 1..Frames BY <1>1 DEF TypeOK, All
  <2>3. masked[d] \union unplaced[d] = {f \in selected : f <= taken[d]} \ {0}
    BY <1>1, <2>1 DEF Fits, InStep
  <2>4. CASE tool[d] = "none"
    BY <1>1, <1>4, <2>3, <2>4 DEF Fits, Passes, Before
  <2>5. CASE tool[d] = "clean" /\ feeder[d] # "short"
    <3>1. read[d] = fed[d] /\ fed[d] = Frames BY <1>1, <2>5 DEF Fits, Piped
    <3>2. Printed(d) = {} BY <1>1, <1>4, <2>1, <2>5 DEF Fits, InStep, Answered
    <3>3. \A f \in selected : ~(taken[d] < f) BY <2>2, <3>1, <3>2 DEF Printed
    <3>4. taken[d] \in Int BY <1>1, SizesAssumption DEF TypeOK
    <3>5. \A f \in selected : f <= taken[d] /\ f # 0 BY <2>2, <3>3, <3>4, SizesAssumption
    <3>6. QED BY <2>3, <3>5
  <2>6. QED BY <2>1, <2>4, <2>5
<1>10. Accounts(d)' BY <1>1, <1>4, <1>9 DEF Fits, Accounts, Endings
<1>11. QED BY <1>2, <1>3, <1>5, <1>6, <1>8, <1>10, Quietly DEF Fits

(* A request starts with no ticket, and asks its summary under the one it  *)
(* names.                                                                  *)
LEMMA RequestFits ==
    ASSUME Copied, NEW d \in Downloads, NEW t \in Tickets \union {NoTicket}, Request(d, t)
    PROVE  Copied'
<1>1. TypeOK /\ Fits(d) BY DEF Copied
<1>2. /\ pc[d] = "idle" /\ pc' = [pc EXCEPT ![d] = "prepared"]
      /\ ticket' = [ticket EXCEPT ![d] = t]
      /\ UNCHANGED <<selected, elsewhere, ending, index, masked, unplaced, feeder, fed, tool, read,
                     taken, pending, exhausted>>
      /\ RememberSummary(d, t, "running")
  BY DEF Request, streams
<1>3. Only(d) BY <1>1, <1>2 DEF TypeOK, Only, Same
<1>4. pc'[d] = "prepared" /\ ticket'[d] = t /\ ticket[d] = NoTicket
  BY <1>1, <1>2 DEF TypeOK, Fits, Accounts
<1>5. /\ summaries' \in Seq(Entry) /\ expired' \in 0..Len(summaries')
      /\ Truthful' /\ OneEach' /\ Bounded'
  <2>1. \A x \in Downloads \ {d} : SameEnd(x) BY <1>3 DEF Only, Same, SameEnd
  <2>2. QED BY <1>2, <1>4, <2>1, RememberingOwn
<1>6. TypeOK' BY <1>1, <1>2, <1>5 DEF TypeOK
<1>7. Passes(d)' BY <1>1, <1>2, <1>4 DEF Fits, Passes, Before
<1>8. Piped(d)' BY <1>1, <1>2, <1>4 DEF Fits, Piped, Over
<1>9. Printed(d)' = Printed(d) BY <1>2 DEF Printed
<1>10. InStep(d)' BY <1>1, <1>2, <1>9 DEF Fits, InStep
<1>11. Accounts(d)' BY <1>1, <1>2, <1>4 DEF Fits, Accounts, Endings
<1>12. \A e \in Downloads : Fits(e)'
  BY <1>3, <1>7, <1>8, <1>10, <1>11, OthersFit DEF Copied, Fits
<1>13. QED BY <1>5, <1>6, <1>12 DEF Copied

(* Closing ends what still runs and says under the ticket how it went.     *)
LEMMA CloseFits ==
    ASSUME Copied, NEW d \in Downloads, Close(d)
    PROVE  Copied'
<1> DEFINE said == IF ending[d] = "ended" THEN "summary" ELSE "error"
<1>1. TypeOK /\ Fits(d) BY DEF Copied
<1>2. /\ pc[d] = "closing" /\ pc' = [pc EXCEPT ![d] = ending[d]]
      /\ feeder' = [feeder EXCEPT ![d] = IF @ = "feeding" THEN "closed" ELSE @]
      /\ tool' = [tool EXCEPT ![d] = IF @ = "running" THEN "reaped" ELSE @]
      /\ UNCHANGED <<selected, elsewhere, ending, ticket, index, masked, unplaced, fed, read, taken,
                     pending, exhausted>>
      /\ RememberSummary(d, ticket[d], said)
  BY DEF Close
<1>3. Only(d) BY <1>1, <1>2 DEF TypeOK, Only, Same
<1>4. /\ pc'[d] = ending[d] /\ ending[d] \in Endings /\ ticket[d] \in Tickets \union {NoTicket}
      /\ feeder'[d] = (IF feeder[d] = "feeding" THEN "closed" ELSE feeder[d])
      /\ tool'[d] = (IF tool[d] = "running" THEN "reaped" ELSE tool[d])
  BY <1>1, <1>2 DEF TypeOK
<1>5. /\ summaries' \in Seq(Entry) /\ expired' \in 0..Len(summaries')
      /\ Truthful' /\ OneEach' /\ Bounded'
  <2>1. \A x \in Downloads \ {d} : SameEnd(x) BY <1>3 DEF Only, Same, SameEnd
  <2>2. /\ said \in {"running", "summary", "error"}
        /\ said = "summary" <=> pc'[d] = "ended"
        /\ said = "error" <=> pc'[d] \in {"failed", "cut"}
    BY <1>4 DEF Endings
  <2> HIDE DEF said
  <2>3. ticket'[d] = ticket[d] BY <1>2
  <2>4. QED BY <1>2, <1>4, <2>1, <2>2, <2>3, RememberingOwn
<1>6. TypeOK'
  <2>1. pc' \in [Downloads -> {"idle", "prepared", "streaming", "closing"} \union Over]
    BY <1>1, <1>2, <1>4 DEF TypeOK, Endings, Over
  <2>2. feeder' \in [Downloads -> {"none", "feeding", "closed", "short", "ragged"}]
    BY <1>1, <1>2 DEF TypeOK
  <2>3. tool' \in [Downloads -> {"none", "running"} \union Exited]
    BY <1>1, <1>2 DEF TypeOK, Exited
  <2>4. QED BY <1>1, <1>2, <1>5, <2>1, <2>2, <2>3 DEF TypeOK
<1>7. Passes(d)' BY <1>1, <1>2, <1>4 DEF Fits, Passes, Before, Endings
<1>8. Piped(d)' BY <1>1, <1>2, <1>4 DEF Fits, Piped, Over
<1>9. Printed(d)' = Printed(d) BY <1>2 DEF Printed
<1>10. InStep(d)' BY <1>1, <1>2, <1>4, <1>9 DEF Fits, InStep, Exited
<1>11. Accounts(d)' BY <1>1, <1>2, <1>4 DEF Fits, Accounts, Endings
<1>12. \A e \in Downloads : Fits(e)'
  BY <1>3, <1>7, <1>8, <1>10, <1>11, OthersFit DEF Copied, Fits
<1>13. QED BY <1>5, <1>6, <1>12 DEF Copied

----------------------------------------------------------------------------
(* The browser and the clock. *)

(* The downloads stay as they are. *)
Still ==
    UNCHANGED <<selected, elsewhere, pc, ending, ticket, index, masked, unplaced, feeder, fed, tool,
                read, taken, pending, exhausted>>

LEMMA StillFits ==
    ASSUME Copied, Still
    PROVE  /\ \A e \in Downloads : Fits(e)'
           /\ \A e \in Downloads : SameEnd(e)
           /\ summaries' \in Seq(Entry) /\ expired' \in 0..Len(summaries') => TypeOK'
<1>1. ASSUME NEW e \in Downloads PROVE Fits(e)'
  <2>1. Same(e) /\ selected' = selected BY DEF Still, Same
  <2>2. Fits(e) BY DEF Copied
  <2>3. QED BY <2>1, <2>2, Steady
<1>2. ASSUME NEW e \in Downloads PROVE SameEnd(e)
  BY DEF Still, SameEnd
<1>3. ASSUME summaries' \in Seq(Entry), expired' \in 0..Len(summaries') PROVE TypeOK'
  BY <1>3 DEF Copied, TypeOK, Still
<1>4. QED BY <1>1, <1>2, <1>3

LEMMA AskSummaryFits ==
    ASSUME Copied, NEW t, AskSummary(t)
    PROVE  Copied'
<1>1. PICK i \in DOMAIN summaries :
          /\ summaries' = RemoveAt(summaries, i)
          /\ expired' = IF i <= expired THEN expired - 1 ELSE expired
  BY DEF AskSummary
<1>2. Still BY DEF AskSummary, Still, streams
<1>3. summaries \in Seq(Entry) /\ Unique(summaries) /\ expired \in 0..Len(summaries)
      /\ Len(summaries) \in Nat /\ Len(summaries) <= Limit
  BY DEF Copied, TypeOK, OneEach, Unique, Bounded
<1>4. /\ summaries' \in Seq(Entry) /\ Len(summaries') = Len(summaries) - 1
      /\ Unique(summaries') /\ From(summaries', summaries)
  BY <1>1, <1>3, RemoveAtKeeps
<1>5. i \in 1..Len(summaries) BY <1>3
<1>6. expired' \in 0..Len(summaries') BY <1>1, <1>3, <1>4, <1>5
<1>7. Truthful'
  <2> SUFFICES ASSUME NEW j \in DOMAIN summaries' PROVE Tells(summaries[j])'
    BY DEF Truthful
  <2>1. PICK k \in DOMAIN summaries : summaries'[j] = summaries[k] BY <1>4 DEF From
  <2>2. Tells(summaries[k]) BY DEF Copied, Truthful
  <2>3. QED BY <1>2, <2>1, <2>2 DEF Tells, Still
<1>8. OneEach' BY <1>4 DEF OneEach, Unique
<1>9. Bounded' BY <1>3, <1>4, SizesAssumption DEF Bounded
<1>10. QED BY <1>2, <1>4, <1>6, <1>7, <1>8, <1>9, StillFits DEF Copied

LEMMA CrowdRemembersFits ==
    ASSUME Copied, NEW t \in Crowd, CrowdRemembers(t)
    PROVE  Copied'
<1>1. Still BY DEF CrowdRemembers, Still, streams
<1>2. t # NoTicket BY TicketAssumption
<1>3. PICK state \in {"running", "summary"} : RememberSummary(Nobody, t, state)
  BY DEF CrowdRemembers
<1> DEFINE e == [ticket |-> t, of |-> Nobody, state |-> state]
<1>4. summaries' = Remembered(t, e) /\ expired' = 0 BY <1>2, <1>3 DEF RememberSummary
<1>5. e \in Entry /\ e.ticket = t /\ e.of = Nobody BY DEF Entry
<1> HIDE DEF e
<1>6. Tells(e)' BY <1>5 DEF Tells
<1>7. \A x \in Downloads : SameEnd(x) BY <1>1, StillFits
<1>8. summaries' \in Seq(Entry) /\ Truthful' /\ OneEach' /\ Bounded'
  BY <1>4, <1>5, <1>6, <1>7, Remembering
<1>9. Len(summaries') \in Nat BY <1>8
<1>10. QED BY <1>1, <1>4, <1>8, <1>9, StillFits DEF Copied

LEMMA TimePassesFits ==
    ASSUME Copied, TimePasses
    PROVE  Copied'
<1>1. Still /\ summaries' = summaries BY DEF TimePasses, Still, streams
<1>2. summaries \in Seq(Entry) /\ expired \in 0..Len(summaries) BY DEF Copied, TypeOK
<1>3. expired' \in 0..Len(summaries') BY <1>1, <1>2 DEF TimePasses
<1>4. Truthful' BY <1>1 DEF Copied, Truthful, Tells, Still
<1>5. OneEach' /\ Bounded' BY <1>1 DEF Copied, OneEach, Bounded
<1>6. QED BY <1>1, <1>2, <1>3, <1>4, <1>5, StillFits DEF Copied

----------------------------------------------------------------------------
(* The invariant, and what it implies. *)

LEMMA InitFits == Init => Copied
<1> SUFFICES ASSUME Init PROVE Copied
  OBVIOUS
<1>1. summaries = <<>> /\ Len(summaries) = 0 BY DEF Init
<1>2. TypeOK BY <1>1, SizesAssumption DEF Init, TypeOK, Selections, Endings, All
<1>3. ASSUME NEW d \in Downloads PROVE Fits(d)
  <2>1. Passes(d) BY DEF Init, Passes, Before
  <2>2. Piped(d) BY SizesAssumption DEF Init, Piped, Over
  <2>3. InStep(d)
    <3>1. \A f \in selected : ~(f <= 0) BY SizesAssumption DEF Init, Selections, All
    <3>2. QED BY <3>1 DEF Init, InStep
  <2>4. Accounts(d) BY DEF Init, Accounts, Endings
  <2>5. QED BY <2>1, <2>2, <2>3, <2>4 DEF Fits
<1>4. Truthful /\ OneEach BY <1>1 DEF Truthful, OneEach
<1>5. Bounded BY <1>1, SizesAssumption DEF Bounded
<1>6. QED BY <1>2, <1>3, <1>4, <1>5 DEF Copied

LEMMA StepFits == Copied /\ [Next]_vars => Copied'
<1> SUFFICES ASSUME Copied, [Next]_vars PROVE Copied'
  OBVIOUS
<1>1. ASSUME NEW d \in Downloads,
             \/ \E t \in Tickets \union {NoTicket} : Request(d, t)
             \/ Dropped(d) \/ Start(d) \/ Interrupted(d)
             \/ Body(d) \/ Tool(d) \/ FeedBreaks(d) \/ ToolDies(d)
      PROVE  Copied'
  <2>1. CASE \E t \in Tickets \union {NoTicket} : Request(d, t) BY <2>1, RequestFits
  <2>2. CASE Dropped(d) BY <2>2, DroppedFits
  <2>3. CASE Start(d) BY <2>3, StartFits
  <2>4. CASE Interrupted(d) BY <2>4, InterruptedFits
  <2>5. CASE Body(d)
    BY <2>5, AdvanceFits, RewriteFrameFits, FinishFits, CloseFits DEF Body
  <2>6. CASE Tool(d)
    BY <2>6, FeedFits, FeedEndsFits, ToolReadsFits, ToolExitsFits DEF Tool
  <2>7. CASE FeedBreaks(d) BY <2>7, FeedBreaksFits
  <2>8. CASE ToolDies(d) BY <2>8, ToolDiesFits
  <2>9. QED BY <1>1, <2>1, <2>2, <2>3, <2>4, <2>5, <2>6, <2>7, <2>8
<1>2. CASE \E t \in Tickets \union Crowd : AskSummary(t) BY <1>2, AskSummaryFits
<1>3. CASE \E t \in Crowd : CrowdRemembers(t) BY <1>3, CrowdRemembersFits
<1>4. CASE TimePasses BY <1>4, TimePassesFits
<1>5. CASE UNCHANGED vars
  <2>1. Still /\ summaries' = summaries /\ expired' = expired BY <1>5 DEF vars, streams, Still
  <2>2. summaries' \in Seq(Entry) /\ expired' \in 0..Len(summaries')
    BY <2>1 DEF Copied, TypeOK
  <2>3. Truthful' /\ OneEach' /\ Bounded'
    BY <2>1 DEF Copied, Truthful, Tells, OneEach, Bounded, Still
  <2>4. QED BY <2>1, <2>2, <2>3, StillFits DEF Copied
<1>6. QED BY <1>1, <1>2, <1>3, <1>4, <1>5 DEF Next

(* Copied holds for every capture, however tshark, the feeder, the browser *)
(* and other downloads take turns.                                         *)
THEOREM CopiedInvariant == Spec => []Copied
<1>1. Init => Copied BY InitFits
<1>2. Copied /\ [Next]_vars => Copied' BY StepFits
<1>3. QED BY <1>1, <1>2, PTL DEF Spec

(* TypeOK of every download. *)
THEOREM CopyTypeCorrect == Spec => []TypeOK
<1>1. Copied => TypeOK BY DEF Copied
<1>2. QED BY <1>1, CopiedInvariant, PTL

(* CleanMeansMasked: a download that ends without an error has masked, or  *)
(* counted as not placed, every frame that carries something to mask, but  *)
(* for what its source cut short.                                          *)
THEOREM CleanMeansMaskedHolds == Spec => []CleanMeansMasked
<1>1. Copied => CleanMeansMasked
  BY DEF Copied, Fits, Accounts, CleanMeansMasked, Endings
<1>2. QED BY <1>1, CopiedInvariant, PTL

(* SummaryIsTrue: what is kept under a ticket tells how that download went. *)
THEOREM SummaryIsTrueHolds == Spec => []SummaryIsTrue
<1>1. Copied => SummaryIsTrue
  BY DEF Copied, Truthful, Tells, SummaryIsTrue
<1>2. QED BY <1>1, CopiedInvariant, PTL

(* NothingLeftRunning: no tool and no feeder outlives its download.        *)
THEOREM NothingLeftRunningHolds == Spec => []NothingLeftRunning
<1>1. Copied => NothingLeftRunning
  BY DEF Copied, Fits, Piped, NothingLeftRunning
<1>2. QED BY <1>1, CopiedInvariant, PTL

(* What tshark said of one frame never masks another: what is held back is *)
(* for a frame still to come, and all else that was taken is accounted     *)
(* for, so the reader's complaint of a packet for an earlier frame is one  *)
(* no run of an ordered tshark can raise.                                  *)
THEOREM PacketsInStep == Spec => [](\A d \in Downloads : InStep(d))
<1>1. Copied => \A d \in Downloads : InStep(d) BY DEF Copied, Fits
<1>2. QED BY <1>1, CopiedInvariant, PTL

(* _sanitize_summaries never outgrows its limit and holds one entry to a   *)
(* ticket, however requests, ends and expiry mix.                          *)
THEOREM SummariesKept == Spec => [](OneEach /\ Bounded)
<1>1. Copied => OneEach /\ Bounded BY DEF Copied
<1>2. QED BY <1>1, CopiedInvariant, PTL

----------------------------------------------------------------------------
(* The scan for copies: CopyScan.                                          *)

Mark == [first : Nat \ {0}, nat : BOOLEAN] \union {NoMark}
NatKeys == {NatKey[p.body] : p \in Packets}
Sources == {p.src : p \in Packets}
Targets == {p.dst : p \in Packets}
TableEntry(keys) == [key : keys, last : 0..MaxTime, first : Nat \ {0}, links : SUBSET Links,
                src : Sources, dst : Targets]
Tables == [of : Seq(Mark), seen : SUBSET TableEntry(Packets), nat : SUBSET TableEntry(NatKeys)]

(* The capture so far and the tables of both passes, which have judged     *)
(* every frame of it.                                                      *)
ScanTypes ==
    /\ frames \in Seq(Frame)
    /\ marks \in Tables /\ whole \in Tables
    /\ Len(marks.of) = Len(frames) /\ Len(whole.of) = Len(frames)

(* An entry stands for the instance its first sighting began: that frame   *)
(* is no copy, the entry has seen its link, and was last renewed by it or  *)
(* by a copy of it.                                                        *)
Backed(e) ==
    /\ e.first \in DOMAIN frames
    /\ frames[e.first].packet # NotIp /\ ~Marked(e.first)
    /\ frames[e.first].link \in e.links
    /\ \E p \in e.first..Len(frames) :
          /\ p = e.first \/ marks.of[p].first = e.first
          /\ frames[p].when = e.last

SeenBacked == \A e \in marks.seen : Backed(e) /\ e.key = frames[e.first].packet

NatBacked ==
    \A e \in marks.nat :
        /\ Backed(e)
        /\ e.key = NatKey[frames[e.first].packet.body] /\ e.key # NoKey
        /\ e.src = frames[e.first].packet.src /\ e.dst = frames[e.first].packet.dst

(* Older than the window, whatever comes now. *)
Old(e) == \E n \in DOMAIN frames : n = Len(frames) /\ e.last + Window < frames[n].when

(* A first sighting of a packet that has not been seen since is in the     *)
(* table, unless it is too old.                                            *)
Newest(m) == frames[m].packet # NotIp /\ \A p \in (m + 1)..Len(frames) : ~SamePacket(m, p)
SightingsKept ==
    InOrder =>
        \A m \in DOMAIN frames :
            ~Marked(m) /\ Newest(m) =>
                \E e \in whole.seen :
                    /\ e.key = frames[m].packet /\ e.links = {frames[m].link}
                    /\ e.last = frames[m].when

(* What is left out is too old for what comes at this time.               *)
OnlyPruned(kept, all, now) == kept \subseteq all /\ \A e \in all \ kept : ~(now <= e.last + Window)

(* What the pass forgot it would not have used. *)
OnlyOldForgotten(kept, all) == kept \subseteq all /\ \A e \in all \ kept : Old(e)
Forgets ==
    InOrder =>
        /\ marks.of = whole.of
        /\ OnlyOldForgotten(marks.seen, whole.seen)
        /\ OnlyOldForgotten(marks.nat, whole.nat)

Scanned ==
    /\ ScanTypes /\ SeenBacked /\ NatBacked /\ SightingsKept /\ Forgets
    /\ CopiesAreRepeats /\ EveryRepeatIsMarked

----------------------------------------------------------------------------
(* What one line does to the tables. *)

(* Nothing to compare; a copy as it was; a copy NAT rewrote; or a first    *)
(* sighting.                                                               *)
Skips(t, f, r) ==
    /\ f.packet = NotIp
    /\ r.of = Append(t.of, NoMark) /\ r.seen = t.seen /\ r.nat = t.nat
Repeats(t, f, r, e) ==
    /\ f.packet # NotIp
    /\ e \in Recent(t.seen, f.packet, f)
    /\ r.of = Append(t.of, [first |-> e.first, nat |-> FALSE])
    /\ r.seen = Replaced(t.seen, e.key, {Again(e, f)}) /\ r.nat = t.nat
Moves(t, f, r, e) ==
    /\ f.packet # NotIp
    /\ Recent(t.seen, f.packet, f) = {}
    /\ e \in Recent(t.nat, NatKey[f.packet.body], f) /\ Translates(e, f.packet)
    /\ r.of = Append(t.of, [first |-> e.first, nat |-> TRUE])
    /\ r.nat = Replaced(t.nat, e.key, {Again(e, f)}) /\ r.seen = t.seen
Begins(t, f, r) ==
    /\ f.packet # NotIp
    /\ Recent(t.seen, f.packet, f) = {}
    /\ r.of = Append(t.of, NoMark)
    /\ r.seen = Replaced(t.seen, f.packet, {Instance(f.packet, f, Len(t.of) + 1)})
    /\ r.nat = IF NatKey[f.packet.body] = NoKey THEN t.nat
               ELSE Replaced(t.nat, NatKey[f.packet.body],
                             {Instance(NatKey[f.packet.body], f, Len(t.of) + 1)})

LEMMA JudgedCases ==
    ASSUME NEW t \in Tables, NEW f
    PROVE  LET r == Judged(t, f)
           IN  \/ Skips(t, f, r)
               \/ \E e \in t.seen : Repeats(t, f, r, e)
               \/ \E e \in t.nat : Moves(t, f, r, e)
               \/ Begins(t, f, r)
<1> DEFINE r == Judged(t, f)
           natKey == NatKey[f.packet.body]
           same == Recent(t.seen, f.packet, f)
           moved == {e \in Recent(t.nat, natKey, f) : Translates(e, f.packet)}
<1>1. t = [of |-> t.of, seen |-> t.seen, nat |-> t.nat]
  BY DEF Tables
<1>2. CASE f.packet = NotIp
  BY <1>1, <1>2 DEF Judged, Skips
<1>3. CASE f.packet # NotIp /\ same # {}
  <2> DEFINE e == CHOOSE e \in same : TRUE
  <2>1. e \in same BY <1>3
  <2>2. e \in t.seen BY <2>1 DEF Recent
  <2>3. r = [t EXCEPT !.of = Append(@, [first |-> e.first, nat |-> FALSE]),
                      !.seen = Replaced(@, e.key, {Again(e, f)})]
    BY <1>3 DEF Judged
  <2> HIDE DEF e
  <2>4. /\ r.of = Append(t.of, [first |-> e.first, nat |-> FALSE])
        /\ r.seen = Replaced(t.seen, e.key, {Again(e, f)}) /\ r.nat = t.nat
    BY <1>1, <2>3
  <2>5. Repeats(t, f, r, e) BY <1>3, <2>1, <2>4 DEF Repeats
  <2>6. QED BY <2>2, <2>5
<1>4. CASE f.packet # NotIp /\ same = {} /\ moved # {}
  <2> DEFINE e == CHOOSE e \in moved : TRUE
  <2>1. e \in moved BY <1>4
  <2>2. e \in t.nat BY <2>1 DEF Recent
  <2>3. r = [t EXCEPT !.of = Append(@, [first |-> e.first, nat |-> TRUE]),
                      !.nat = Replaced(@, e.key, {Again(e, f)})]
    BY <1>4 DEF Judged
  <2> HIDE DEF e
  <2>4. /\ r.of = Append(t.of, [first |-> e.first, nat |-> TRUE])
        /\ r.nat = Replaced(t.nat, e.key, {Again(e, f)}) /\ r.seen = t.seen
    BY <1>1, <2>3
  <2>5. Moves(t, f, r, e) BY <1>4, <2>1, <2>4 DEF Moves
  <2>6. QED BY <2>2, <2>5
<1>5. CASE f.packet # NotIp /\ same = {} /\ moved = {}
  <2> DEFINE n == Len(t.of) + 1
  <2>1. r = [t EXCEPT !.of = Append(@, NoMark),
                      !.seen = Replaced(@, f.packet, {Instance(f.packet, f, n)}),
                      !.nat = IF natKey = NoKey THEN @
                              ELSE Replaced(@, natKey, {Instance(natKey, f, n)})]
    BY <1>5 DEF Judged
  <2> HIDE DEF natKey, n
  <2>2. /\ r.of = Append(t.of, NoMark)
        /\ r.seen = Replaced(t.seen, f.packet, {Instance(f.packet, f, n)})
        /\ r.nat = IF natKey = NoKey THEN t.nat
                   ELSE Replaced(t.nat, natKey, {Instance(natKey, f, n)})
    BY <1>1, <2>1
  <2>3. Begins(t, f, r) BY <1>5, <2>2 DEF Begins, natKey, n
  <2>4. QED BY <2>3
<1>6. QED BY <1>2, <1>3, <1>4, <1>5

(* Of entries some are kept, and what is new is new.                       *)
LEMMA ReplacedIs ==
    ASSUME NEW entries, NEW key, NEW new, NEW e \in Replaced(entries, key, {new})
    PROVE  e = new \/ (e \in entries /\ e.key # key)
BY DEF Replaced

LEMMA AgainIs ==
    ASSUME NEW keys, NEW e \in TableEntry(keys), NEW f \in Frame
    PROVE  /\ Again(e, f) \in TableEntry(keys)
           /\ Again(e, f).key = e.key /\ Again(e, f).first = e.first
           /\ Again(e, f).src = e.src /\ Again(e, f).dst = e.dst
           /\ Again(e, f).last = f.when /\ Again(e, f).links = e.links \union {f.link}
BY DEF Again, TableEntry, Frame

LEMMA InstanceIs ==
    ASSUME NEW keys, NEW key \in keys, NEW f \in Frame, f.packet # NotIp, NEW n \in Nat \ {0}
    PROVE  Instance(key, f, n) \in TableEntry(keys)
BY DEF Instance, TableEntry, Frame, Sources, Targets

LEMMA JudgedTyped ==
    ASSUME NEW t \in Tables, NEW f \in Frame
    PROVE  LET r == Judged(t, f)
           IN  /\ r.of \in Seq(Mark) /\ r.seen \subseteq TableEntry(Packets) /\ r.nat \subseteq TableEntry(NatKeys)
               /\ Len(r.of) = Len(t.of) + 1
               /\ \A i \in 1..Len(t.of) : r.of[i] = t.of[i]
<1> DEFINE r == Judged(t, f)
<1>1. /\ t.of \in Seq(Mark) /\ t.seen \subseteq TableEntry(Packets) /\ t.nat \subseteq TableEntry(NatKeys)
      /\ Len(t.of) + 1 \in Nat \ {0}
  BY DEF Tables
<1>2. \A x \in Mark : /\ Append(t.of, x) \in Seq(Mark)
                      /\ Len(Append(t.of, x)) = Len(t.of) + 1
                      /\ \A i \in 1..Len(t.of) : Append(t.of, x)[i] = t.of[i]
  BY <1>1
<1>3. NoMark \in Mark BY DEF Mark
<1>4. CASE Skips(t, f, r) BY <1>1, <1>2, <1>3, <1>4 DEF Skips
<1>5. CASE \E e \in t.seen : Repeats(t, f, r, e)
  <2>1. PICK e \in t.seen : Repeats(t, f, r, e) BY <1>5
  <2>2. Again(e, f) \in TableEntry(Packets) BY <1>1, AgainIs
  <2>3. [first |-> e.first, nat |-> FALSE] \in Mark BY <1>1 DEF TableEntry, Mark
  <2>4. r.seen \subseteq TableEntry(Packets) BY <1>1, <2>1, <2>2 DEF Repeats, Replaced
  <2>5. QED BY <1>1, <1>2, <2>1, <2>3, <2>4 DEF Repeats
<1>6. CASE \E e \in t.nat : Moves(t, f, r, e)
  <2>1. PICK e \in t.nat : Moves(t, f, r, e) BY <1>6
  <2>2. Again(e, f) \in TableEntry(NatKeys) BY <1>1, AgainIs
  <2>3. [first |-> e.first, nat |-> TRUE] \in Mark BY <1>1 DEF TableEntry, Mark
  <2>4. r.nat \subseteq TableEntry(NatKeys) BY <1>1, <2>1, <2>2 DEF Moves, Replaced
  <2>5. QED BY <1>1, <1>2, <2>1, <2>3, <2>4 DEF Moves
<1>7. CASE Begins(t, f, r)
  <2>1. f.packet # NotIp /\ f.packet \in Packets BY <1>7 DEF Begins, Frame
  <2>2. NatKey[f.packet.body] \in NatKeys BY <2>1 DEF NatKeys
  <2>3. /\ Instance(f.packet, f, Len(t.of) + 1) \in TableEntry(Packets)
        /\ Instance(NatKey[f.packet.body], f, Len(t.of) + 1) \in TableEntry(NatKeys)
    BY <1>1, <2>1, <2>2, InstanceIs
  <2>4. r.seen \subseteq TableEntry(Packets) BY <1>1, <1>7, <2>3 DEF Begins, Replaced
  <2>5. r.nat \subseteq TableEntry(NatKeys) BY <1>1, <1>7, <2>3 DEF Begins, Replaced
  <2>6. QED BY <1>1, <1>2, <1>3, <1>7, <2>4, <2>5 DEF Begins
<1>8. QED BY <1>4, <1>5, <1>6, <1>7, JudgedCases

(* Whatever the line, three tables come out. *)
LEMMA JudgedRecord ==
    ASSUME NEW t \in Tables, NEW f
    PROVE  \E x, y, z : Judged(t, f) = [of |-> x, seen |-> y, nat |-> z]
<1>1. t = [of |-> t.of, seen |-> t.seen, nat |-> t.nat] BY DEF Tables
<1>2. QED BY <1>1 DEF Judged

LEMMA JudgedInTables ==
    ASSUME NEW t \in Tables, NEW f \in Frame
    PROVE  Judged(t, f) \in Tables
<1>1. PICK x, y, z : Judged(t, f) = [of |-> x, seen |-> y, nat |-> z] BY JudgedRecord
<1>2. x \in Seq(Mark) /\ y \subseteq TableEntry(Packets) /\ z \subseteq TableEntry(NatKeys)
  BY <1>1, JudgedTyped
<1>3. QED BY <1>1, <1>2 DEF Tables

----------------------------------------------------------------------------
(* One frame more. *)

LEMMA Grown ==
    ASSUME ScanTypes, NEW f \in Frame, frames' = Append(frames, f)
    PROVE  /\ Len(frames) \in Nat /\ Len(frames') = Len(frames) + 1
           /\ DOMAIN frames = 1..Len(frames) /\ DOMAIN frames' = 1..(Len(frames) + 1)
           /\ \A i \in DOMAIN frames : frames'[i] = frames[i]
           /\ frames'[Len(frames) + 1] = f
           /\ frames' \in Seq(Frame)
           /\ \A i \in DOMAIN frames : frames[i] \in Frame
BY DEF ScanTypes

LEMMA StillInOrder ==
    ASSUME ScanTypes, NEW f \in Frame, frames' = Append(frames, f), InOrder'
    PROVE  /\ InOrder
           /\ \A n \in DOMAIN frames : n = Len(frames) => frames[n].when <= f.when
<1>1. /\ Len(frames) \in Nat
      /\ DOMAIN frames = 1..Len(frames) /\ DOMAIN frames' = 1..(Len(frames) + 1)
      /\ \A i \in DOMAIN frames : frames'[i] = frames[i]
      /\ frames'[Len(frames) + 1] = f
  BY Grown
<1>2. \A n \in 1..(Len(frames) + 1) : n > 1 => frames'[n - 1].when <= frames'[n].when
  BY <1>1 DEF InOrder
<1>3. ASSUME NEW n \in DOMAIN frames, n > 1 PROVE frames[n - 1].when <= frames[n].when
  <2>1. n \in 1..(Len(frames) + 1) /\ n - 1 \in DOMAIN frames BY <1>1, <1>3
  <2>2. QED BY <1>1, <1>2, <1>3, <2>1
<1>4. ASSUME NEW n \in DOMAIN frames, n = Len(frames) PROVE frames[n].when <= f.when
  <2>1. n + 1 \in 1..(Len(frames) + 1) /\ n + 1 > 1 /\ n + 1 - 1 = n BY <1>1, <1>4
  <2>2. QED BY <1>1, <1>2, <1>4, <2>1
<1>5. QED BY <1>3, <1>4 DEF InOrder

(* What the tables lose beside what a line replaces is too old for it.     *)
LEMMA Sighted ==
    ASSUME ScanTypes, NEW f \in Frame, Sight(f)
    PROVE  /\ frames' = Append(frames, f)
           /\ whole' = Judged(whole, f)
           /\ marks' \in Tables /\ whole' \in Tables
           /\ marks'.of = Judged(marks, f).of
           /\ OnlyPruned(marks'.seen, Judged(marks, f).seen, f.when)
           /\ OnlyPruned(marks'.nat, Judged(marks, f).nat, f.when)
<1> DEFINE r == Judged(marks, f)
<1>1. marks \in Tables /\ whole \in Tables BY DEF ScanTypes
<1>2. r \in Tables /\ Judged(whole, f) \in Tables BY <1>1, JudgedInTables
<1>3. frames' = Append(frames, f) /\ whole' = Judged(whole, f) BY DEF Sight
<1>4. marks' = r \/ marks' = Pruned(r, f.when) BY DEF Sight
<1> HIDE DEF r
<1>5. CASE marks' = r BY <1>2, <1>3, <1>5 DEF OnlyPruned, r
<1>6. CASE marks' = Pruned(r, f.when)
  <2>1. /\ marks'.of = r.of
        /\ marks'.seen = {e \in r.seen : f.when <= e.last + Window}
        /\ marks'.nat = {e \in r.nat : f.when <= e.last + Window}
        /\ marks' \in Tables
    BY <1>2, <1>6 DEF Pruned, Tables
  <2>2. QED BY <1>2, <1>3, <2>1 DEF OnlyPruned, r
<1>7. QED BY <1>4, <1>5, <1>6

LEMMA TypeKept ==
    ASSUME ScanTypes, NEW f \in Frame, Sight(f)
    PROVE  /\ ScanTypes'
           /\ Len(marks'.of) = Len(marks.of) + 1
           /\ \A i \in 1..Len(marks.of) : marks'.of[i] = marks.of[i]
<1>1. marks \in Tables /\ whole \in Tables BY DEF ScanTypes
<1>2. /\ Len(Judged(marks, f).of) = Len(marks.of) + 1
      /\ \A i \in 1..Len(marks.of) : Judged(marks, f).of[i] = marks.of[i]
      /\ Len(Judged(whole, f).of) = Len(whole.of) + 1
  BY <1>1, JudgedTyped
<1>3. QED BY <1>2, Sighted, Grown DEF ScanTypes

----------------------------------------------------------------------------
(* CopiesAreRepeats. *)

(* What is said of frame m stays said of it. *)
LEMMA PastStays ==
    ASSUME ScanTypes, NEW f \in Frame, Sight(f), NEW m \in DOMAIN frames
    PROVE  /\ m \in DOMAIN frames' /\ frames'[m] = frames[m] /\ marks'.of[m] = marks.of[m]
           /\ Marked(m)' <=> Marked(m)
           /\ m \in Nat /\ m <= Len(frames) /\ Len(frames) \in Nat /\ Len(frames') = Len(frames) + 1
<1>1. frames' = Append(frames, f) BY Sighted
<1>2. /\ Len(frames) \in Nat /\ Len(frames') = Len(frames) + 1
      /\ DOMAIN frames = 1..Len(frames) /\ DOMAIN frames' = 1..(Len(frames) + 1)
      /\ \A i \in DOMAIN frames : frames'[i] = frames[i]
  BY <1>1, Grown
<1>3. Len(marks.of) = Len(frames) BY DEF ScanTypes
<1>4. marks'.of[m] = marks.of[m] BY <1>2, <1>3, TypeKept
<1>5. QED BY <1>2, <1>4 DEF Marked

LEMMA BackedStays ==
    ASSUME ScanTypes, NEW f \in Frame, Sight(f), NEW e, Backed(e)
    PROVE  Backed(e)'
<1>1. e.first \in DOMAIN frames BY DEF Backed
<1>2. /\ e.first \in DOMAIN frames' /\ frames'[e.first] = frames[e.first]
      /\ Marked(e.first)' <=> Marked(e.first)
  BY <1>1, PastStays
<1>3. PICK p \in e.first..Len(frames) :
         /\ p = e.first \/ marks.of[p].first = e.first
         /\ frames[p].when = e.last
  BY DEF Backed
<1>4. p \in DOMAIN frames /\ p \in e.first..Len(frames')
  BY <1>1, <1>3, PastStays, Grown, Sighted
<1>5. frames'[p] = frames[p] /\ marks'.of[p] = marks.of[p] BY <1>4, PastStays
<1>6. QED BY <1>2, <1>3, <1>4, <1>5 DEF Backed

(* A copy renews its instance. *)
LEMMA BackedAgain ==
    ASSUME ScanTypes, NEW f \in Frame, Sight(f), NEW keys, NEW e \in TableEntry(keys), Backed(e),
           marks'.of[Len(frames) + 1].first = e.first
    PROVE  Backed(Again(e, f))'
<1> DEFINE a == Again(e, f)
           n == Len(frames) + 1
<1>1. a.first = e.first /\ a.last = f.when /\ a.links = e.links \union {f.link}
  BY AgainIs
<1>2. Backed(e)' BY BackedStays
<1>3. n \in e.first..Len(frames') /\ frames'[n] = f
  <2>1. e.first \in DOMAIN frames BY DEF Backed
  <2>2. QED BY <2>1, PastStays, Grown, Sighted
<1> HIDE DEF a, n
<1>4. \E p \in a.first..Len(frames') :
         /\ p = a.first \/ marks'.of[p].first = a.first
         /\ frames'[p].when = a.last
  BY <1>1, <1>3 DEF n
<1>5. Backed(a)' BY <1>1, <1>2, <1>4 DEF Backed
<1>6. QED BY <1>5 DEF a

(* A first sighting stands for itself. *)
LEMMA BackedNew ==
    ASSUME ScanTypes, NEW f \in Frame, Sight(f), f.packet # NotIp,
           NEW n, n = Len(frames) + 1, marks'.of[n] = NoMark,
           NEW key, NEW e, e = Instance(key, f, n)
    PROVE  Backed(e)'
<1>1. e.first = n /\ e.last = f.when /\ e.links = {f.link} BY DEF Instance
<1>2. n \in DOMAIN frames' /\ frames'[n] = f /\ n \in n..Len(frames') BY Sighted, Grown
<1>3. ~Marked(n)' BY DEF Marked
<1>4. QED BY <1>1, <1>2, <1>3 DEF Backed

(* The line that is new, and its mark. *)
LEMMA LastMark ==
    ASSUME ScanTypes, NEW f \in Frame, Sight(f)
    PROVE  LET r == Judged(marks, f)
           IN  /\ \A x : r.of = Append(marks.of, x) => marks'.of[Len(frames) + 1] = x
               /\ Len(marks.of) = Len(frames)
<1>1. marks.of \in Seq(Mark) /\ Len(marks.of) = Len(frames) BY DEF ScanTypes, Tables
<1>2. \A x : Append(marks.of, x)[Len(marks.of) + 1] = x BY <1>1
<1>3. QED BY <1>1, <1>2, Sighted

LEMMA SeenBackedKept ==
    ASSUME ScanTypes, SeenBacked, NEW f \in Frame, Sight(f)
    PROVE  SeenBacked'
<1> DEFINE r == Judged(marks, f)
           n == Len(frames) + 1
<1> SUFFICES ASSUME NEW e \in marks'.seen PROVE Backed(e)' /\ e.key = frames'[e.first].packet
  BY DEF SeenBacked
<1>1. e \in r.seen BY Sighted DEF OnlyPruned
<1>2. marks \in Tables /\ marks.seen \subseteq TableEntry(Packets) BY DEF ScanTypes, Tables
<1>3. ASSUME NEW x \in marks.seen PROVE Backed(x)' /\ x.key = frames'[x.first].packet
  <2>1. Backed(x) /\ x.key = frames[x.first].packet BY DEF SeenBacked
  <2>2. x.first \in DOMAIN frames BY <2>1 DEF Backed
  <2>3. QED BY <2>1, <2>2, BackedStays, PastStays
<1>4. CASE e \in marks.seen BY <1>3, <1>4
<1>5. CASE e \notin marks.seen
  <2>1. \/ \E x \in marks.seen : Repeats(marks, f, r, x) /\ e = Again(x, f)
        \/ Begins(marks, f, r) /\ e = Instance(f.packet, f, Len(marks.of) + 1)
    <3>1. CASE Skips(marks, f, r) BY <1>1, <1>5, <3>1 DEF Skips
    <3>2. CASE \E x \in marks.seen : Repeats(marks, f, r, x)
      <4>1. PICK x \in marks.seen : Repeats(marks, f, r, x) BY <3>2
      <4>2. e = Again(x, f) BY <1>1, <1>5, <4>1 DEF Repeats, Replaced
      <4>3. QED BY <4>1, <4>2
    <3>3. CASE \E x \in marks.nat : Moves(marks, f, r, x) BY <1>1, <1>5, <3>3 DEF Moves
    <3>4. CASE Begins(marks, f, r) BY <1>1, <1>5, <3>4 DEF Begins, Replaced
    <3>5. QED BY <1>2, <3>1, <3>2, <3>3, <3>4, JudgedCases
  <2>2. CASE \E x \in marks.seen : Repeats(marks, f, r, x) /\ e = Again(x, f)
    <3>1. PICK x \in marks.seen : Repeats(marks, f, r, x) /\ e = Again(x, f) BY <2>2
    <3>2. marks'.of[n] = [first |-> x.first, nat |-> FALSE] BY <3>1, LastMark DEF Repeats
    <3>3. x \in TableEntry(Packets) /\ Backed(x) BY <1>2 DEF SeenBacked
    <3>4. Backed(e)' BY <3>1, <3>2, <3>3, BackedAgain
    <3>5. e.key = x.key /\ e.first = x.first BY <3>1, <3>3, AgainIs
    <3>6. QED BY <1>3, <3>4, <3>5
  <2>3. CASE Begins(marks, f, r) /\ e = Instance(f.packet, f, Len(marks.of) + 1)
    <3>1. marks'.of[n] = NoMark /\ f.packet # NotIp BY <2>3, LastMark DEF Begins
    <3>2. e = Instance(f.packet, f, n) BY <2>3, LastMark
    <3>3. Backed(e)' BY <3>1, <3>2, BackedNew
    <3>4. e.key = f.packet /\ e.first = n BY <3>2 DEF Instance
    <3>5. frames'[n] = f BY Sighted, Grown
    <3>6. QED BY <3>3, <3>4, <3>5
  <2>4. QED BY <2>1, <2>2, <2>3
<1>6. QED BY <1>4, <1>5

LEMMA NatBackedKept ==
    ASSUME ScanTypes, NatBacked, NEW f \in Frame, Sight(f)
    PROVE  NatBacked'
<1> DEFINE r == Judged(marks, f)
           n == Len(frames) + 1
<1> SUFFICES ASSUME NEW e \in marks'.nat
             PROVE  /\ Backed(e)'
                    /\ e.key = NatKey[frames'[e.first].packet.body] /\ e.key # NoKey
                    /\ e.src = frames'[e.first].packet.src /\ e.dst = frames'[e.first].packet.dst
  BY DEF NatBacked
<1>1. e \in r.nat BY Sighted DEF OnlyPruned
<1>2. marks \in Tables /\ marks.nat \subseteq TableEntry(NatKeys) BY DEF ScanTypes, Tables
<1>3. ASSUME NEW x \in marks.nat
      PROVE  /\ Backed(x)'
             /\ x.key = NatKey[frames'[x.first].packet.body] /\ x.key # NoKey
             /\ x.src = frames'[x.first].packet.src /\ x.dst = frames'[x.first].packet.dst
  <2>1. Backed(x) BY DEF NatBacked
  <2>2. x.first \in DOMAIN frames BY <2>1 DEF Backed
  <2>3. Backed(x)' /\ frames'[x.first] = frames[x.first] BY <2>1, <2>2, BackedStays, PastStays
  <2>4. QED BY <2>3 DEF NatBacked
<1>4. CASE e \in marks.nat BY <1>3, <1>4
<1>5. CASE e \notin marks.nat
  <2>1. \/ \E x \in marks.nat : Moves(marks, f, r, x) /\ e = Again(x, f)
        \/ /\ Begins(marks, f, r) /\ NatKey[f.packet.body] # NoKey
           /\ e = Instance(NatKey[f.packet.body], f, Len(marks.of) + 1)
    <3>1. CASE Skips(marks, f, r) BY <1>1, <1>5, <3>1 DEF Skips
    <3>2. CASE \E x \in marks.seen : Repeats(marks, f, r, x) BY <1>1, <1>5, <3>2 DEF Repeats
    <3>3. CASE \E x \in marks.nat : Moves(marks, f, r, x)
      <4>1. PICK x \in marks.nat : Moves(marks, f, r, x) BY <3>3
      <4>2. e = Again(x, f) BY <1>1, <1>5, <4>1 DEF Moves, Replaced
      <4>3. QED BY <4>1, <4>2
    <3>4. CASE Begins(marks, f, r) BY <1>1, <1>5, <3>4 DEF Begins, Replaced
    <3>5. QED BY <1>2, <3>1, <3>2, <3>3, <3>4, JudgedCases
  <2>2. CASE \E x \in marks.nat : Moves(marks, f, r, x) /\ e = Again(x, f)
    <3>1. PICK x \in marks.nat : Moves(marks, f, r, x) /\ e = Again(x, f) BY <2>2
    <3>2. marks'.of[n] = [first |-> x.first, nat |-> TRUE] BY <3>1, LastMark DEF Moves
    <3>3. x \in TableEntry(NatKeys) /\ Backed(x) BY <1>2 DEF NatBacked
    <3>4. Backed(e)' BY <3>1, <3>2, <3>3, BackedAgain
    <3>5. e.key = x.key /\ e.first = x.first /\ e.src = x.src /\ e.dst = x.dst
      BY <3>1, <3>3, AgainIs
    <3>6. QED BY <1>3, <3>4, <3>5
  <2>3. CASE /\ Begins(marks, f, r) /\ NatKey[f.packet.body] # NoKey
             /\ e = Instance(NatKey[f.packet.body], f, Len(marks.of) + 1)
    <3>1. marks'.of[n] = NoMark /\ f.packet # NotIp BY <2>3, LastMark DEF Begins
    <3>2. e = Instance(NatKey[f.packet.body], f, n) BY <2>3, LastMark
    <3>3. Backed(e)' BY <3>1, <3>2, BackedNew
    <3>4. e.key = NatKey[f.packet.body] /\ e.first = n /\ e.src = f.packet.src /\ e.dst = f.packet.dst
      BY <3>2 DEF Instance
    <3>5. frames'[n] = f BY Sighted, Grown
    <3>6. QED BY <2>3, <3>3, <3>4, <3>5
  <2>4. QED BY <2>1, <2>2, <2>3
<1>6. QED BY <1>4, <1>5

(* What CopiesAreRepeats says of one mark. *)
IsRepeat(n) ==
    LET m == marks.of[n].first IN
    /\ m < n /\ ~Marked(m)
    /\ frames[m].link # frames[n].link
    /\ IF marks.of[n].nat
       THEN /\ NatKey[frames[m].packet.body] = NatKey[frames[n].packet.body]
            /\ NatKey[frames[n].packet.body] # NoKey
            /\ (frames[m].packet.src = frames[n].packet.src)
                 # (frames[m].packet.dst = frames[n].packet.dst)
       ELSE SamePacket(m, n)
    /\ \E p \in m..(n - 1) :
           /\ p = m \/ marks.of[p].first = m
           /\ frames[n].when <= frames[p].when + Window

LEMMA RepeatsStated == CopiesAreRepeats <=> \A n \in DOMAIN marks.of : Marked(n) => IsRepeat(n)
BY DEF CopiesAreRepeats, IsRepeat

(* An entry's instance is of frames that are there, and its link is not    *)
(* the new frame's.                                                        *)
LEMMA RecentRepeat ==
    ASSUME ScanTypes, NEW f \in Frame, Sight(f), NEW entries, NEW key, NEW e \in Recent(entries, key, f),
           Backed(e), NEW n, n = Len(frames) + 1, marks'.of[n].first = e.first
    PROVE  LET m == e.first
           IN  /\ m \in DOMAIN frames /\ m < n /\ ~Marked(m)'
               /\ frames'[m] = frames[m] /\ frames'[m].link # f.link
               /\ \E p \in m..(n - 1) :
                      /\ p = m \/ marks'.of[p].first = m
                      /\ f.when <= frames'[p].when + Window
<1>1. e.key = key /\ f.when <= e.last + Window /\ f.link \notin e.links BY DEF Recent
<1>2. /\ e.first \in DOMAIN frames /\ ~Marked(e.first) /\ frames[e.first].link \in e.links
  BY DEF Backed
<1>3. PICK p \in e.first..Len(frames) :
          /\ p = e.first \/ marks.of[p].first = e.first
          /\ frames[p].when = e.last
  BY DEF Backed
<1>4. /\ e.first \in Nat /\ e.first <= Len(frames) /\ Len(frames) \in Nat
      /\ frames'[e.first] = frames[e.first] /\ ~Marked(e.first)'
  BY <1>2, PastStays
<1>5. p \in DOMAIN frames BY <1>2, <1>3, Grown, Sighted
<1>6. frames'[p] = frames[p] /\ marks'.of[p] = marks.of[p] BY <1>5, PastStays
<1>7. p \in e.first..(n - 1) BY <1>3, <1>4
<1>8. QED BY <1>1, <1>2, <1>3, <1>4, <1>6, <1>7

LEMMA CopiesKept ==
    ASSUME ScanTypes, SeenBacked, NatBacked, CopiesAreRepeats, NEW f \in Frame, Sight(f)
    PROVE  CopiesAreRepeats'
<1> DEFINE r == Judged(marks, f)
<1>1. marks \in Tables /\ Len(marks.of) = Len(frames) /\ Len(marks'.of) = Len(frames) + 1
      /\ DOMAIN marks'.of = 1..(Len(frames) + 1) /\ DOMAIN marks.of = 1..Len(frames)
      /\ Len(frames) \in Nat /\ DOMAIN frames = 1..Len(frames)
  <2>1. ScanTypes' /\ Len(marks'.of) = Len(marks.of) + 1 BY TypeKept
  <2>2. marks'.of \in Seq(Mark) /\ marks.of \in Seq(Mark) BY <2>1 DEF ScanTypes, Tables
  <2>3. Len(frames) \in Nat /\ DOMAIN frames = 1..Len(frames) BY Sighted, Grown
  <2>4. QED BY <2>1, <2>2, <2>3 DEF ScanTypes
<1>2. ASSUME NEW n \in DOMAIN marks.of, Marked(n)' PROVE IsRepeat(n)'
  <2>0. PICK m : m = marks.of[n].first OBVIOUS
  <2>1. n \in DOMAIN frames BY <1>1
  <2>2. /\ marks'.of[n] = marks.of[n] /\ frames'[n] = frames[n] /\ Marked(n)
        /\ n \in Nat /\ n <= Len(frames)
    BY <1>2, <2>1, PastStays
  <2>3. IsRepeat(n) BY <2>2, RepeatsStated
  <2>4. m \in DOMAIN frames /\ m \in Nat
    <3>1. marks.of[n] \in Mark /\ marks.of[n] # NoMark BY <1>1, <2>2 DEF Tables, Marked
    <3>2. m \in Nat \ {0} BY <2>0, <3>1 DEF Mark
    <3>3. m < n BY <2>0, <2>3 DEF IsRepeat
    <3>4. QED BY <1>1, <2>2, <3>2, <3>3
  <2>5. frames'[m] = frames[m] /\ ~Marked(m)'
    <3>1. ~Marked(m) BY <2>0, <2>3 DEF IsRepeat
    <3>2. QED BY <2>4, <3>1, PastStays
  <2>6. PICK p \in m..(n - 1) :
            /\ p = m \/ marks.of[p].first = m
            /\ frames[n].when <= frames[p].when + Window
    BY <2>0, <2>3 DEF IsRepeat
  <2>7. p \in DOMAIN frames BY <1>1, <2>1, <2>2, <2>4, <2>6
  <2>8. frames'[p] = frames[p] /\ marks'.of[p] = marks.of[p] BY <2>7, PastStays
  <2>9. QED BY <2>0, <2>2, <2>3, <2>5, <2>6, <2>8 DEF IsRepeat, SamePacket
<1>3. ASSUME NEW n, n = Len(frames) + 1, Marked(n)' PROVE IsRepeat(n)'
  <2>1. frames'[n] = f BY <1>3, Sighted, Grown
  <2>2. CASE \E e \in marks.seen : Repeats(marks, f, r, e)
    <3>1. PICK e \in marks.seen : Repeats(marks, f, r, e) BY <2>2
    <3>2. marks'.of[n] = [first |-> e.first, nat |-> FALSE] BY <1>3, <3>1, LastMark DEF Repeats
    <3>3. marks'.of[n].first = e.first /\ ~marks'.of[n].nat BY <3>2
    <3>4. e \in Recent(marks.seen, f.packet, f) BY <3>1 DEF Repeats
    <3>5. Backed(e) /\ e.key = frames[e.first].packet BY DEF SeenBacked
    <3>6. e.key = f.packet BY <3>4 DEF Recent
    <3>7. /\ e.first \in DOMAIN frames /\ e.first < n /\ ~Marked(e.first)'
          /\ frames'[e.first] = frames[e.first] /\ frames'[e.first].link # f.link
          /\ \E p \in e.first..(n - 1) :
                 /\ p = e.first \/ marks'.of[p].first = e.first
                 /\ f.when <= frames'[p].when + Window
      BY <1>3, <3>3, <3>4, <3>5, RecentRepeat
    <3>8. QED BY <2>1, <3>3, <3>5, <3>6, <3>7 DEF IsRepeat, SamePacket
  <2>3. CASE \E e \in marks.nat : Moves(marks, f, r, e)
    <3>1. PICK e \in marks.nat : Moves(marks, f, r, e) BY <2>3
    <3>2. marks'.of[n] = [first |-> e.first, nat |-> TRUE] BY <1>3, <3>1, LastMark DEF Moves
    <3>3. marks'.of[n].first = e.first /\ marks'.of[n].nat BY <3>2
    <3>4. e \in Recent(marks.nat, NatKey[f.packet.body], f) /\ Translates(e, f.packet)
      BY <3>1 DEF Moves
    <3>5. /\ Backed(e) /\ e.key = NatKey[frames[e.first].packet.body] /\ e.key # NoKey
          /\ e.src = frames[e.first].packet.src /\ e.dst = frames[e.first].packet.dst
      BY DEF NatBacked
    <3>6. e.key = NatKey[f.packet.body] BY <3>4 DEF Recent
    <3>7. /\ e.first \in DOMAIN frames /\ e.first < n /\ ~Marked(e.first)'
          /\ frames'[e.first] = frames[e.first] /\ frames'[e.first].link # f.link
          /\ \E p \in e.first..(n - 1) :
                 /\ p = e.first \/ marks'.of[p].first = e.first
                 /\ f.when <= frames'[p].when + Window
      BY <1>3, <3>3, <3>4, <3>5, RecentRepeat
    <3>8. (e.src = f.packet.src) # (e.dst = f.packet.dst) BY <3>4 DEF Translates
    <3>9. (frames'[e.first].packet.src = frames'[n].packet.src)
             # (frames'[e.first].packet.dst = frames'[n].packet.dst)
      BY <2>1, <3>5, <3>7, <3>8
    <3>10. /\ NatKey[frames'[e.first].packet.body] = NatKey[frames'[n].packet.body]
           /\ NatKey[frames'[n].packet.body] # NoKey
      BY <2>1, <3>5, <3>6, <3>7
    <3>11. QED BY <2>1, <3>3, <3>7, <3>9, <3>10 DEF IsRepeat
  <2>4. CASE Skips(marks, f, r) \/ Begins(marks, f, r)
    <3>1. marks'.of[n] = NoMark BY <1>3, <2>4, LastMark DEF Skips, Begins
    <3>2. QED BY <1>3, <3>1 DEF Marked
  <2>5. QED BY <1>1, <2>2, <2>3, <2>4, JudgedCases
<1>4. ASSUME NEW n \in DOMAIN marks'.of, Marked(n)' PROVE IsRepeat(n)'
  <2>1. n \in DOMAIN marks.of \/ n = Len(frames) + 1 BY <1>1
  <2>2. QED BY <1>2, <1>3, <1>4, <2>1
<1>5. QED BY <1>4 DEF CopiesAreRepeats, IsRepeat

----------------------------------------------------------------------------
(* ForgettingChangesNothing. *)

(* What is too old for a frame is not recent for it. *)
LEMMA SameRecent ==
    ASSUME NEW f, NEW kept, NEW all, OnlyPruned(kept, all, f.when), NEW key
    PROVE  Recent(kept, key, f) = Recent(all, key, f)
BY DEF OnlyPruned, Recent

LEMMA ReplacedPruned ==
    ASSUME NEW now, NEW kept, NEW all, OnlyPruned(kept, all, now), NEW key, NEW new
    PROVE  OnlyPruned(Replaced(kept, key, new), Replaced(all, key, new), now)
BY DEF OnlyPruned, Replaced

(* A line is judged alike by two passes of which one forgot only what is   *)
(* too old for it, and that stays so.                                      *)
LEMMA JudgedAlike ==
    ASSUME NEW t \in Tables, NEW u \in Tables, NEW f, t.of = u.of,
           OnlyPruned(t.seen, u.seen, f.when), OnlyPruned(t.nat, u.nat, f.when)
    PROVE  LET r == Judged(t, f)
               s == Judged(u, f)
           IN  /\ r.of = s.of
               /\ OnlyPruned(r.seen, s.seen, f.when) /\ OnlyPruned(r.nat, s.nat, f.when)
<1> DEFINE r == Judged(t, f)
           s == Judged(u, f)
           n == Len(t.of) + 1
           natKey == NatKey[f.packet.body]
           same == Recent(t.seen, f.packet, f)
           moved == {e \in Recent(t.nat, natKey, f) : Translates(e, f.packet)}
<1>1. /\ t = [of |-> t.of, seen |-> t.seen, nat |-> t.nat]
      /\ u = [of |-> u.of, seen |-> u.seen, nat |-> u.nat]
  BY DEF Tables
<1>2. same = Recent(u.seen, f.packet, f)
      /\ Recent(t.nat, natKey, f) = Recent(u.nat, natKey, f)
  BY SameRecent
<1>3. CASE f.packet = NotIp
  <2>1. /\ r = [t EXCEPT !.of = Append(@, NoMark)]
        /\ s = [u EXCEPT !.of = Append(@, NoMark)]
    BY <1>3 DEF Judged
  <2>2. /\ r.of = Append(t.of, NoMark) /\ r.seen = t.seen /\ r.nat = t.nat
        /\ s.of = Append(u.of, NoMark) /\ s.seen = u.seen /\ s.nat = u.nat
    BY <1>1, <2>1
  <2> HIDE DEF r, s
  <2>3. QED BY <2>2 DEF r, s
<1>4. CASE f.packet # NotIp /\ same # {}
  <2> DEFINE e == CHOOSE e \in same : TRUE
             mark == [first |-> e.first, nat |-> FALSE]
             new == {Again(e, f)}
  <2>1. r = [t EXCEPT !.of = Append(@, mark), !.seen = Replaced(@, e.key, new)]
    BY <1>4 DEF Judged
  <2>2. s = [u EXCEPT !.of = Append(@, mark), !.seen = Replaced(@, e.key, new)]
    BY <1>2, <1>4 DEF Judged
  <2> HIDE DEF mark, new, e, r, s
  <2>3. /\ r.of = Append(t.of, mark) /\ r.seen = Replaced(t.seen, e.key, new) /\ r.nat = t.nat
        /\ s.of = Append(u.of, mark) /\ s.seen = Replaced(u.seen, e.key, new) /\ s.nat = u.nat
    BY <1>1, <2>1, <2>2
  <2>4. OnlyPruned(r.seen, s.seen, f.when) BY <2>3, ReplacedPruned
  <2>5. QED BY <2>3, <2>4 DEF r, s
<1>5. CASE f.packet # NotIp /\ same = {} /\ moved # {}
  <2> DEFINE e == CHOOSE e \in moved : TRUE
             mark == [first |-> e.first, nat |-> TRUE]
             new == {Again(e, f)}
  <2>1. r = [t EXCEPT !.of = Append(@, mark), !.nat = Replaced(@, e.key, new)]
    BY <1>5 DEF Judged
  <2>2. s = [u EXCEPT !.of = Append(@, mark), !.nat = Replaced(@, e.key, new)]
    BY <1>2, <1>5 DEF Judged
  <2> HIDE DEF mark, new, e, r, s
  <2>3. /\ r.of = Append(t.of, mark) /\ r.nat = Replaced(t.nat, e.key, new) /\ r.seen = t.seen
        /\ s.of = Append(u.of, mark) /\ s.nat = Replaced(u.nat, e.key, new) /\ s.seen = u.seen
    BY <1>1, <2>1, <2>2
  <2>4. OnlyPruned(r.nat, s.nat, f.when) BY <2>3, ReplacedPruned
  <2>5. QED BY <2>3, <2>4 DEF r, s
<1>6. CASE f.packet # NotIp /\ same = {} /\ moved = {}
  <2> DEFINE new == {Instance(f.packet, f, n)}
             newNat == {Instance(natKey, f, n)}
  <2>1. r = [t EXCEPT !.of = Append(@, NoMark), !.seen = Replaced(@, f.packet, new),
                      !.nat = IF natKey = NoKey THEN @ ELSE Replaced(@, natKey, newNat)]
    BY <1>6 DEF Judged
  <2>2. s = [u EXCEPT !.of = Append(@, NoMark), !.seen = Replaced(@, f.packet, new),
                      !.nat = IF natKey = NoKey THEN @ ELSE Replaced(@, natKey, newNat)]
    BY <1>2, <1>6 DEF Judged
  <2> HIDE DEF new, newNat, natKey, r, s
  <2>3. /\ r.of = Append(t.of, NoMark) /\ r.seen = Replaced(t.seen, f.packet, new)
        /\ s.of = Append(u.of, NoMark) /\ s.seen = Replaced(u.seen, f.packet, new)
        /\ r.nat = IF natKey = NoKey THEN t.nat ELSE Replaced(t.nat, natKey, newNat)
        /\ s.nat = IF natKey = NoKey THEN u.nat ELSE Replaced(u.nat, natKey, newNat)
    BY <1>1, <2>1, <2>2
  <2>4. OnlyPruned(r.seen, s.seen, f.when) BY <2>3, ReplacedPruned
  <2>5. OnlyPruned(r.nat, s.nat, f.when) BY <2>3, ReplacedPruned
  <2>6. QED BY <2>3, <2>4, <2>5 DEF r, s
<1>7. QED BY <1>3, <1>4, <1>5, <1>6

(* Old entries are too old for what comes after. *)
LEMMA OldIsPruned ==
    ASSUME ScanTypes, NEW f \in Frame, \A n \in DOMAIN frames : n = Len(frames) => frames[n].when <= f.when,
           NEW keys, NEW all \in SUBSET TableEntry(keys), NEW kept, OnlyOldForgotten(kept, all)
    PROVE  OnlyPruned(kept, all, f.when)
<1> SUFFICES ASSUME NEW e \in all \ kept PROVE ~(f.when <= e.last + Window)
  BY DEF OnlyPruned, OnlyOldForgotten
<1>1. PICK n \in DOMAIN frames : n = Len(frames) /\ e.last + Window < frames[n].when
  BY DEF OnlyOldForgotten, Old
<1>2. e.last \in Nat /\ Window \in Nat BY NumbersAssumption DEF TableEntry
<1>3. frames[n].when \in Nat /\ f.when \in Nat
  <2>1. frames[n] \in Frame BY <1>1 DEF ScanTypes
  <2>2. QED BY <2>1, NumbersAssumption DEF Frame
<1>4. QED BY <1>1, <1>2, <1>3

LEMMA PrunedIsOld ==
    ASSUME ScanTypes, NEW f \in Frame, frames' = Append(frames, f),
           NEW keys, NEW e \in TableEntry(keys), ~(f.when <= e.last + Window)
    PROVE  Old(e)'
<1>1. e.last \in Nat /\ Window \in Nat /\ f.when \in Nat BY NumbersAssumption DEF TableEntry, Frame
<1>2. e.last + Window < f.when BY <1>1
<1>3. Len(frames') \in DOMAIN frames' /\ frames'[Len(frames')] = f BY Grown
<1>4. QED BY <1>2, <1>3 DEF Old

LEMMA ForgetsKept ==
    ASSUME ScanTypes, Forgets, NEW f \in Frame, Sight(f)
    PROVE  Forgets'
<1> SUFFICES ASSUME InOrder'
             PROVE  /\ marks'.of = whole'.of
                    /\ marks'.seen \subseteq whole'.seen /\ \A e \in whole'.seen \ marks'.seen : Old(e)'
                    /\ marks'.nat \subseteq whole'.nat /\ \A e \in whole'.nat \ marks'.nat : Old(e)'
  BY DEF Forgets, OnlyOldForgotten
<1>1. /\ frames' = Append(frames, f) /\ whole' = Judged(whole, f)
      /\ marks'.of = Judged(marks, f).of
      /\ OnlyPruned(marks'.seen, Judged(marks, f).seen, f.when)
      /\ OnlyPruned(marks'.nat, Judged(marks, f).nat, f.when)
      /\ whole' \in Tables
  BY Sighted
<1>2. InOrder /\ \A n \in DOMAIN frames : n = Len(frames) => frames[n].when <= f.when
  BY <1>1, StillInOrder
<1>3. /\ marks.of = whole.of
      /\ OnlyOldForgotten(marks.seen, whole.seen) /\ OnlyOldForgotten(marks.nat, whole.nat)
  BY <1>2 DEF Forgets
<1>4. /\ marks \in Tables /\ whole \in Tables
      /\ whole.seen \in SUBSET TableEntry(Packets) /\ whole.nat \in SUBSET TableEntry(NatKeys)
      /\ whole'.seen \in SUBSET TableEntry(Packets) /\ whole'.nat \in SUBSET TableEntry(NatKeys)
  BY <1>1 DEF ScanTypes, Tables
<1>5. OnlyPruned(marks.seen, whole.seen, f.when) /\ OnlyPruned(marks.nat, whole.nat, f.when)
  BY <1>2, <1>3, <1>4, OldIsPruned
<1>6. /\ Judged(marks, f).of = Judged(whole, f).of
      /\ OnlyPruned(Judged(marks, f).seen, Judged(whole, f).seen, f.when)
      /\ OnlyPruned(Judged(marks, f).nat, Judged(whole, f).nat, f.when)
  BY <1>3, <1>4, <1>5, JudgedAlike
<1>7. marks'.seen \subseteq whole'.seen /\ \A e \in whole'.seen \ marks'.seen : Old(e)'
  <2>1. marks'.seen \subseteq whole'.seen BY <1>1, <1>6 DEF OnlyPruned
  <2>2. ASSUME NEW e \in whole'.seen \ marks'.seen PROVE Old(e)'
    <3>1. ~(f.when <= e.last + Window) BY <1>1, <1>6 DEF OnlyPruned
    <3>2. e \in TableEntry(Packets) BY <1>4
    <3>3. QED BY <1>1, <3>1, <3>2, PrunedIsOld
  <2>3. QED BY <2>1, <2>2
<1>8. marks'.nat \subseteq whole'.nat /\ \A e \in whole'.nat \ marks'.nat : Old(e)'
  <2>1. marks'.nat \subseteq whole'.nat BY <1>1, <1>6 DEF OnlyPruned
  <2>2. ASSUME NEW e \in whole'.nat \ marks'.nat PROVE Old(e)'
    <3>1. ~(f.when <= e.last + Window) BY <1>1, <1>6 DEF OnlyPruned
    <3>2. e \in TableEntry(NatKeys) BY <1>4
    <3>3. QED BY <1>1, <3>1, <3>2, PrunedIsOld
  <2>3. QED BY <2>1, <2>2
<1>9. QED BY <1>1, <1>6, <1>7, <1>8

----------------------------------------------------------------------------
(* EveryRepeatIsMarked. *)

(* What SightingsKept says of one frame. *)
IsKept(m) ==
    \E e \in whole.seen :
        e.key = frames[m].packet /\ e.links = {frames[m].link} /\ e.last = frames[m].when

(* A first sighting stays in the table until its packet comes again.       *)
LEMMA KeptStays ==
    ASSUME ScanTypes, NEW f \in Frame, Sight(f),
           NEW m \in DOMAIN frames, IsKept(m), frames[m].packet # f.packet
    PROVE  IsKept(m)'
<1> DEFINE r == Judged(whole, f)
<1>1. whole' = r /\ frames'[m] = frames[m] BY Sighted, PastStays
<1>2. PICK e \in whole.seen :
          e.key = frames[m].packet /\ e.links = {frames[m].link} /\ e.last = frames[m].when
  BY DEF IsKept
<1>3. whole \in Tables BY DEF ScanTypes
<1>4. e \in r.seen
  <2>1. CASE Skips(whole, f, r) BY <2>1 DEF Skips
  <2>2. CASE \E x \in whole.seen : Repeats(whole, f, r, x)
    <3>1. PICK x \in whole.seen : Repeats(whole, f, r, x) BY <2>2
    <3>2. x.key = f.packet BY <3>1 DEF Repeats, Recent
    <3>3. QED BY <1>2, <3>1, <3>2 DEF Repeats, Replaced
  <2>3. CASE \E x \in whole.nat : Moves(whole, f, r, x) BY <2>3 DEF Moves
  <2>4. CASE Begins(whole, f, r) BY <1>2, <2>4 DEF Begins, Replaced
  <2>5. QED BY <1>3, <2>1, <2>2, <2>3, <2>4, JudgedCases
<1>5. QED BY <1>1, <1>2, <1>4 DEF IsKept

(* A mark names a frame, so a line without one was skipped or begins.      *)
LEMMA UnmarkedBegins ==
    ASSUME NEW t \in Tables, NEW f \in Frame, f.packet # NotIp,
           Judged(t, f).of[Len(t.of) + 1] = NoMark
    PROVE  Begins(t, f, Judged(t, f))
<1> DEFINE r == Judged(t, f)
<1>1. /\ t.of \in Seq(Mark) /\ t.seen \subseteq TableEntry(Packets) /\ t.nat \subseteq TableEntry(NatKeys)
  BY DEF Tables
<1>2. \A x : Append(t.of, x)[Len(t.of) + 1] = x BY <1>1
<1>3. ~\E e \in t.seen : Repeats(t, f, r, e)
  <2>1. SUFFICES ASSUME NEW e \in t.seen, Repeats(t, f, r, e) PROVE FALSE OBVIOUS
  <2>2. [first |-> e.first, nat |-> FALSE] = NoMark BY <1>2, <2>1 DEF Repeats
  <2>3. e.first \in Nat \ {0} BY <1>1 DEF TableEntry
  <2>4. e.first = 0 BY <2>2 DEF NoMark
  <2>5. QED BY <2>3, <2>4
<1>4. ~\E e \in t.nat : Moves(t, f, r, e)
  <2>1. SUFFICES ASSUME NEW e \in t.nat, Moves(t, f, r, e) PROVE FALSE OBVIOUS
  <2>2. [first |-> e.first, nat |-> TRUE] = NoMark BY <1>2, <2>1 DEF Moves
  <2>3. QED BY <2>2 DEF NoMark
<1>5. ~Skips(t, f, r) BY DEF Skips
<1>6. QED BY <1>3, <1>4, <1>5, JudgedCases

LEMMA SightingsStay ==
    ASSUME ScanTypes, Forgets, SightingsKept, NEW f \in Frame, Sight(f)
    PROVE  SightingsKept'
<1> DEFINE n == Len(frames) + 1
<1>1. SUFFICES ASSUME InOrder', NEW m \in DOMAIN frames', ~Marked(m)', Newest(m)'
               PROVE  IsKept(m)'
  BY DEF SightingsKept, IsKept
<1>2. /\ Len(frames) \in Nat /\ Len(frames') = n
      /\ DOMAIN frames = 1..Len(frames) /\ DOMAIN frames' = 1..n
      /\ frames'[n] = f
  BY Sighted, Grown
<1>3. InOrder BY <1>1, Sighted, StillInOrder
<1>4. CASE m \in DOMAIN frames
  <2>1. frames'[m] = frames[m] /\ ~Marked(m) BY <1>1, <1>4, PastStays
  <2>2. ASSUME NEW p \in (m + 1)..n PROVE frames'[m].packet # frames'[p].packet
    BY <1>1, <1>2 DEF Newest, SamePacket
  <2>3. frames[m].packet # f.packet
    <3>1. n \in (m + 1)..n BY <1>2, <1>4
    <3>2. QED BY <1>2, <2>1, <2>2, <3>1
  <2>4. ASSUME NEW p \in (m + 1)..Len(frames) PROVE frames[m].packet # frames[p].packet
    <3>1. p \in (m + 1)..n /\ p \in DOMAIN frames BY <1>2, <1>4
    <3>2. frames'[p] = frames[p] BY <3>1, PastStays
    <3>3. QED BY <2>1, <2>2, <3>1, <3>2
  <2>5. frames[m].packet # NotIp BY <1>1, <2>1 DEF Newest
  <2>6. Newest(m) BY <2>4, <2>5 DEF Newest, SamePacket
  <2>7. IsKept(m) BY <1>3, <1>4, <2>1, <2>6 DEF SightingsKept, IsKept
  <2>8. QED BY <1>4, <2>3, <2>7, KeptStays
<1>5. CASE m = n
  <2>1. f.packet # NotIp BY <1>1, <1>2, <1>5 DEF Newest
  <2>2. marks'.of = whole'.of BY <1>1, ForgetsKept DEF Forgets
  <2>3. whole'.of[n] = NoMark BY <1>1, <1>5, <2>2 DEF Marked
  <2>4. whole \in Tables /\ Len(whole.of) = Len(frames) BY DEF ScanTypes
  <2>5. whole' = Judged(whole, f) BY Sighted
  <2>6. Begins(whole, f, whole') BY <2>1, <2>3, <2>4, <2>5, UnmarkedBegins
  <2>7. Instance(f.packet, f, n) \in whole'.seen BY <2>4, <2>6 DEF Begins, Replaced
  <2>8. QED BY <1>2, <1>5, <2>7 DEF IsKept, Instance
<1>6. QED BY <1>1, <1>2, <1>4, <1>5

(* What EveryRepeatIsMarked asks of two frames. *)
IsNext(m, n) ==
    /\ m < n /\ ~Marked(m) /\ frames[m].packet # NotIp /\ SamePacket(m, n)
    /\ frames[m].link # frames[n].link
    /\ frames[n].when <= frames[m].when + Window
    /\ \A p \in (m + 1)..(n - 1) : ~SamePacket(m, p)

LEMMA NextStated ==
    EveryRepeatIsMarked <=> (InOrder => \A m, n \in DOMAIN marks.of : IsNext(m, n) => Marked(n))
BY DEF EveryRepeatIsMarked, IsNext

(* What comes next after a first sighting finds it in the table.           *)
LEMMA NextIsMarked ==
    ASSUME ScanTypes, Forgets, SightingsKept, NEW f \in Frame, Sight(f), InOrder',
           NEW m \in DOMAIN frames, NEW n, n = Len(frames) + 1, IsNext(m, n)'
    PROVE  Marked(n)'
<1> DEFINE r == Judged(marks, f)
<1>1. /\ Len(frames) \in Nat /\ DOMAIN frames = 1..Len(frames) /\ frames'[n] = f
  BY Sighted, Grown
<1>2. frames'[m] = frames[m] /\ ~Marked(m) /\ m \in Nat /\ m <= Len(frames)
  BY PastStays DEF IsNext
<1>3. /\ frames[m].packet # NotIp /\ frames[m].packet = f.packet
      /\ frames[m].link # f.link /\ f.when <= frames[m].when + Window
  BY <1>1, <1>2 DEF IsNext, SamePacket
<1>4. InOrder /\ \A k \in DOMAIN frames : k = Len(frames) => frames[k].when <= f.when
  BY Sighted, StillInOrder
<1>5. Newest(m)
  <2>1. ASSUME NEW p \in (m + 1)..Len(frames) PROVE frames[m].packet # frames[p].packet
    <3>1. p \in (m + 1)..(n - 1) /\ p \in DOMAIN frames BY <1>1, <1>2
    <3>2. frames'[p] = frames[p] BY <3>1, PastStays
    <3>3. frames'[m].packet # frames'[p].packet BY <3>1 DEF IsNext, SamePacket
    <3>4. QED BY <1>2, <3>2, <3>3
  <2>2. QED BY <1>3, <2>1 DEF Newest, SamePacket
<1>6. IsKept(m) BY <1>2, <1>4, <1>5 DEF SightingsKept, IsKept
<1>7. PICK e \in whole.seen :
          e.key = frames[m].packet /\ e.links = {frames[m].link} /\ e.last = frames[m].when
  BY <1>6 DEF IsKept
<1>8. ~Old(e)
  <2>1. SUFFICES ASSUME NEW k \in DOMAIN frames, k = Len(frames), e.last + Window < frames[k].when
                 PROVE  FALSE
    BY DEF Old
  <2>2. frames[k].when <= f.when /\ f.when <= e.last + Window BY <1>3, <1>4, <1>7, <2>1
  <2>3. frames[k] \in Frame /\ frames[m] \in Frame BY <2>1 DEF ScanTypes
  <2>4. frames[k].when \in Nat /\ f.when \in Nat /\ e.last \in Nat /\ Window \in Nat
    BY <1>7, <2>3, NumbersAssumption DEF Frame
  <2>5. QED BY <2>1, <2>2, <2>4
<1>9. e \in marks.seen BY <1>4, <1>7, <1>8 DEF Forgets, OnlyOldForgotten
<1>10. e \in Recent(marks.seen, f.packet, f) BY <1>3, <1>7, <1>9 DEF Recent
<1>11. marks \in Tables /\ Len(marks.of) = Len(frames) BY DEF ScanTypes
<1>12. ~Begins(marks, f, r) BY <1>10 DEF Begins
<1>13. r.of[n] # NoMark BY <1>3, <1>11, <1>12, UnmarkedBegins
<1>14. QED BY <1>13, Sighted DEF Marked

LEMMA EveryKept ==
    ASSUME ScanTypes, Forgets, SightingsKept, EveryRepeatIsMarked, NEW f \in Frame, Sight(f)
    PROVE  EveryRepeatIsMarked'
<1>1. /\ Len(frames) \in Nat /\ DOMAIN frames = 1..Len(frames)
      /\ DOMAIN marks.of = 1..Len(frames) /\ DOMAIN marks'.of = 1..(Len(frames) + 1)
  <2>1. Len(frames) \in Nat /\ DOMAIN frames = 1..Len(frames) BY Sighted, Grown
  <2>2. ScanTypes' /\ Len(marks'.of) = Len(marks.of) + 1 BY TypeKept
  <2>3. marks'.of \in Seq(Mark) /\ marks.of \in Seq(Mark) BY <2>2 DEF ScanTypes, Tables
  <2>4. QED BY <2>1, <2>2, <2>3 DEF ScanTypes
<1>2. ASSUME InOrder', NEW m \in DOMAIN marks'.of, NEW n \in DOMAIN marks'.of, IsNext(m, n)'
      PROVE  Marked(n)'
  <2>1. m < n BY <1>2 DEF IsNext
  <2>2. m \in DOMAIN frames BY <1>1, <2>1
  <2>3. CASE n = Len(frames) + 1 BY <1>2, <2>2, <2>3, NextIsMarked
  <2>4. CASE n \in DOMAIN frames
    <3>1. /\ frames'[m] = frames[m] /\ ~Marked(m)
          /\ frames'[n] = frames[n] /\ (Marked(n)' <=> Marked(n))
      BY <1>2, <2>2, <2>4, PastStays DEF IsNext
    <3>2. ASSUME NEW p \in (m + 1)..(n - 1) PROVE ~SamePacket(m, p)
      <4>1. p \in DOMAIN frames BY <1>1, <2>2, <2>4
      <4>2. frames'[p] = frames[p] BY <4>1, PastStays
      <4>3. frames'[m].packet # frames'[p].packet BY <1>2 DEF IsNext, SamePacket
      <4>4. QED BY <3>1, <4>2, <4>3 DEF SamePacket
    <3>3. IsNext(m, n) BY <1>2, <3>1, <3>2 DEF IsNext, SamePacket
    <3>4. InOrder BY <1>2, Sighted, StillInOrder
    <3>5. QED BY <1>1, <2>2, <2>4, <3>1, <3>3, <3>4, NextStated
  <2>5. QED BY <1>1, <2>3, <2>4
<1>3. QED BY <1>2 DEF EveryRepeatIsMarked, IsNext

----------------------------------------------------------------------------
(* The theorems. *)

LEMMA StartsScanned == ScanInit => Scanned
<1> SUFFICES ASSUME ScanInit PROVE Scanned OBVIOUS
<1>1. frames = <<>> /\ marks = NoTables /\ whole = NoTables BY DEF ScanInit
<1>2. /\ DOMAIN frames = {} /\ DOMAIN marks.of = {} /\ marks.seen = {} /\ marks.nat = {}
      /\ marks.of = whole.of /\ whole.seen = {} /\ whole.nat = {}
  BY <1>1 DEF NoTables
<1>3. ScanTypes BY <1>1 DEF ScanTypes, Tables, NoTables
<1>4. SeenBacked /\ NatBacked BY <1>2 DEF SeenBacked, NatBacked
<1>5. SightingsKept /\ Forgets BY <1>2 DEF SightingsKept, Forgets, OnlyOldForgotten
<1>6. CopiesAreRepeats /\ EveryRepeatIsMarked BY <1>2 DEF CopiesAreRepeats, EveryRepeatIsMarked
<1>7. QED BY <1>3, <1>4, <1>5, <1>6 DEF Scanned

(* What only reads the capture and the tables leaves all of it as it is.   *)
LEMMA ReadingChangesNothing ==
    ASSUME Scanned, UNCHANGED <<frames, marks, whole>>
    PROVE  Scanned'
<1>1. frames' = frames /\ marks' = marks /\ whole' = whole OBVIOUS
<1>2. ScanTypes' BY <1>1 DEF Scanned, ScanTypes
<1>3. SeenBacked' BY <1>1 DEF Scanned, SeenBacked, Backed, Marked
<1>4. NatBacked' BY <1>1 DEF Scanned, NatBacked, Backed, Marked
<1>5. SightingsKept'
  BY <1>1 DEF Scanned, SightingsKept, Newest, InOrder, Marked, SamePacket
<1>6. Forgets' BY <1>1 DEF Scanned, Forgets, OnlyOldForgotten, Old, InOrder
<1>7. CopiesAreRepeats' BY <1>1 DEF Scanned, CopiesAreRepeats, Marked, SamePacket
<1>8. EveryRepeatIsMarked'
  BY <1>1 DEF Scanned, EveryRepeatIsMarked, InOrder, Marked, SamePacket
<1>9. QED BY <1>2, <1>3, <1>4, <1>5, <1>6, <1>7, <1>8 DEF Scanned

(* What a scan rests on: each table's entries stand for the first sighting *)
(* they name, a first sighting is in the table until its packet is seen    *)
(* again, and what was forgotten is too old for anything still to come.    *)
THEOREM ScannedInvariant == ScanSpec => []Scanned
<1>1. ScanInit => Scanned BY StartsScanned
<1>2. Scanned /\ [ScanNext]_scanVars => Scanned'
  <2> SUFFICES ASSUME Scanned, [ScanNext]_scanVars PROVE Scanned' OBVIOUS
  <2>1. CASE \E f \in Frame : Sight(f)
    <3>1. PICK f \in Frame : Sight(f) BY <2>1
    <3>2. /\ ScanTypes /\ SeenBacked /\ NatBacked /\ SightingsKept /\ Forgets
          /\ CopiesAreRepeats /\ EveryRepeatIsMarked
      BY DEF Scanned
    <3>3. ScanTypes' BY <3>1, <3>2, TypeKept
    <3>4. SeenBacked' /\ NatBacked' BY <3>1, <3>2, SeenBackedKept, NatBackedKept
    <3>5. SightingsKept' BY <3>1, <3>2, SightingsStay
    <3>6. Forgets' BY <3>1, <3>2, ForgetsKept
    <3>7. CopiesAreRepeats' BY <3>1, <3>2, CopiesKept
    <3>8. EveryRepeatIsMarked' BY <3>1, <3>2, EveryKept
    <3>9. QED BY <3>3, <3>4, <3>5, <3>6, <3>7, <3>8 DEF Scanned
  <2>2. CASE PassFails BY <2>2, ReadingChangesNothing DEF PassFails
  <2>3. CASE PassEnds BY <2>3, ReadingChangesNothing DEF PassEnds
  <2>4. CASE LinksFail BY <2>4, ReadingChangesNothing DEF LinksFail
  <2>5. CASE \E l \in Links, k \in 0..MaxFrames : ReadLink(l, k)
    BY <2>5, ReadingChangesNothing DEF ReadLink
  <2>6. CASE UNCHANGED scanVars BY <2>6, ReadingChangesNothing DEF scanVars
  <2>7. QED BY <2>1, <2>2, <2>3, <2>4, <2>5, <2>6 DEF ScanNext
<1>3. QED BY <1>1, <1>2, PTL DEF ScanSpec

(* A mark names an earlier first sighting of the same packet on another    *)
(* link, or one address away from it, seen within the window               *)
(* (find_interface_copies).                                                *)
THEOREM CopiesAreRepeatsHolds == ScanSpec => []CopiesAreRepeats
<1>1. Scanned => CopiesAreRepeats BY DEF Scanned
<1>2. QED BY <1>1, ScannedInvariant, PTL

(* The next sighting of a packet on another link within the window is      *)
(* marked, when times do not go back (find_interface_copies).              *)
THEOREM EveryRepeatIsMarkedHolds == ScanSpec => []EveryRepeatIsMarked
<1>1. Scanned => EveryRepeatIsMarked BY DEF Scanned
<1>2. QED BY <1>1, ScannedInvariant, PTL

(* Dropping old entries every _COPY_PRUNE_EVERY lines changes no mark,     *)
(* whatever that number is.                                                *)
THEOREM ForgettingChangesNothingHolds == ScanSpec => []ForgettingChangesNothing
<1>1. Scanned => ForgettingChangesNothing BY DEF Scanned, Forgets, ForgettingChangesNothing
<1>2. QED BY <1>1, ScannedInvariant, PTL
=============================================================================
