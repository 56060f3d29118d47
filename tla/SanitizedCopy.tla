--------------------------- MODULE SanitizedCopy ---------------------------
(***************************************************************************)
(* Sanitized downloads of one capture (backend/sanitizer.py and the        *)
(* routes of backend/main.py): the frame reader and a tshark pass over the *)
(* same bytes, kept in step by frame number; the pipes and the feeder      *)
(* between them (backend/packet_parser.py spawn_tool, reap_tool); and the  *)
(* summary a browser asks for under its ticket afterwards.                 *)
(*                                                                         *)
(* A frame is its number.  tshark selects some; what it reports of one is  *)
(* found where it says it is, or it is not.  Where addresses are and how a *)
(* frame is rewritten is FrameWalk, what replaces an address AddressMap.   *)
(***************************************************************************)
EXTENDS Naturals, Sequences, FiniteSets, SequencesExt

CONSTANTS
    Downloads,   \* requests for a sanitized copy
    Nobody,      \* stands for any other request
    Tickets,     \* what a browser may name its summary
    Crowd,       \* the tickets of downloads that are not followed further
    NoTicket,    \* a download whose summary nobody asks for
    Frames,      \* frames in the capture
    Pipe,        \* frames a pipe holds before its writer waits
    Limit        \* _SANITIZE_SUMMARY_LIMIT

ASSUME TicketAssumption == NoTicket \notin Tickets \union Crowd /\ Nobody \notin Downloads
ASSUME SizesAssumption == Frames \in Nat /\ Pipe \in Nat \ {0} /\ Limit \in Nat \ {0}

VARIABLES
    selected,   \* frames tshark's display filter selects
    elsewhere,  \* those of which a field's bytes are not in the frame
    pc,         \* where each download's request is
    ending,     \* how a download that is closing will have ended
    ticket,     \* the ticket it was given
    index,      \* frames rewritten
    masked,     \* frames rewritten with what tshark reported of them
    unplaced,   \* frames the summary counts as having a field not placed
    feeder,     \* the task that writes the capture to tshark's stdin
    fed,        \* frames written
    tool,       \* the tshark process
    read,       \* frames it has read
    taken,      \* last frame whose packet was taken off its stdout
    pending,    \* the packet held back for a later frame; 0 = none
    exhausted,  \* its stdout has ended
    summaries,  \* _sanitize_summaries, oldest first
    expired     \* how many of them are older than the time they are kept

streams == <<index, masked, unplaced, feeder, fed, tool, read, taken, pending, exhausted>>
vars == <<selected, elsewhere, pc, ending, ticket, streams, summaries, expired>>

All == 1..Frames

(* The display filter of tshark_plan, made of the rules and the text the   *)
(* user gave, selects any frames.                                          *)
Selections == SUBSET All
Over == {"ended", "failed", "cut", "dropped"}
Exited == {"clean", "failed", "torn", "reaped"}

(* Packets printed and not yet taken. *)
Printed(d) == {f \in selected : taken[d] < f /\ f <= read[d]}

----------------------------------------------------------------------------
(* _remember_sanitize_summary: what is too old goes, then the oldest if    *)
(* there is no room; an entry that is there already becomes the newest.    *)

Fresh == SubSeq(summaries, expired + 1, Len(summaries))

Remembered(t, e) ==
    LET known == {i \in DOMAIN Fresh : Fresh[i].ticket = t}
        others == IF known # {} THEN RemoveAt(Fresh, CHOOSE i \in known : TRUE)
                  ELSE IF Len(Fresh) >= Limit THEN Tail(Fresh) ELSE Fresh
    IN  Append(others, e)

RememberSummary(d, t, state) ==
    IF t = NoTicket THEN UNCHANGED <<summaries, expired>>
    ELSE /\ summaries' = Remembered(t, [ticket |-> t, of |-> d, state |-> state])
         /\ expired' = 0

----------------------------------------------------------------------------
(* The request. *)

(* download_sanitized_capture, once every check has passed: the response   *)
(* is returned, its body not yet asked for.                                *)
Request(d, t) ==
    /\ pc[d] = "idle"
    /\ pc' = [pc EXCEPT ![d] = "prepared"]
    /\ ticket' = [ticket EXCEPT ![d] = t]
    /\ RememberSummary(d, t, "running")
    /\ UNCHANGED <<selected, elsewhere, ending, streams>>

(* The client is gone before the first byte: body() never runs. *)
Dropped(d) ==
    /\ pc[d] = "prepared"
    /\ pc' = [pc EXCEPT ![d] = "dropped"]
    /\ UNCHANGED <<selected, elsewhere, ending, ticket, streams, summaries, expired>>

(* stream_sanitized_pcap up to its loop.  There is no tshark pass when the *)
(* payload is stripped or nothing is left for it to find.                  *)
Start(d) ==
    /\ pc[d] = "prepared"
    /\ pc' = [pc EXCEPT ![d] = "streaming"]
    /\ \E pass \in BOOLEAN :
          /\ pass \/ selected = {}
          /\ tool' = [tool EXCEPT ![d] = IF pass THEN "running" ELSE "none"]
          /\ feeder' = [feeder EXCEPT ![d] = IF pass THEN "feeding" ELSE "none"]
    /\ UNCHANGED <<selected, elsewhere, ending, ticket, index, masked, unplaced, fed, read, taken,
                   pending, exhausted, summaries, expired>>

(* An error or a cancellation leaves the loop; so does its end. *)
Leave(d, how) ==
    /\ pc' = [pc EXCEPT ![d] = "closing"]
    /\ ending' = [ending EXCEPT ![d] = how]
    /\ UNCHANGED <<selected, elsewhere, ticket, summaries, expired>>

(* The header is bad, tshark cannot be started, or the source fails the    *)
(* reader; or the client disconnects at any await.                         *)
Interrupted(d) ==
    /\ pc[d] = "streaming"
    /\ \E how \in {"failed", "cut"} : Leave(d, how)
    /\ UNCHANGED streams

(* Mutant: nothing is remembered of a download that was interrupted. *)
CloseWithoutOutcome(d) ==
    /\ pc[d] = "closing"
    /\ pc' = [pc EXCEPT ![d] = ending[d]]
    /\ feeder' = [feeder EXCEPT ![d] = IF @ = "feeding" THEN "closed" ELSE @]
    /\ tool' = [tool EXCEPT ![d] = IF @ = "running" THEN "reaped" ELSE @]
    /\ IF ending[d] = "cut" THEN UNCHANGED <<summaries, expired>>
       ELSE RememberSummary(d, ticket[d], IF ending[d] = "ended" THEN "summary" ELSE "error")
    /\ UNCHANGED <<selected, elsewhere, ending, ticket, index, masked, unplaced, fed, read, taken,
                   pending, exhausted>>

(* The finally clauses: feeder and tool are ended (reap_tool), then body() *)
(* remembers how it went.                                                  *)
Close(d) ==
    /\ pc[d] = "closing"
    /\ pc' = [pc EXCEPT ![d] = ending[d]]
    /\ feeder' = [feeder EXCEPT ![d] = IF @ = "feeding" THEN "closed" ELSE @]
    /\ tool' = [tool EXCEPT ![d] = IF @ = "running" THEN "reaped" ELSE @]
    /\ RememberSummary(d, ticket[d], IF ending[d] = "ended" THEN "summary" ELSE "error")
    /\ UNCHANGED <<selected, elsewhere, ending, ticket, index, masked, unplaced, fed, read, taken,
                   pending, exhausted>>

----------------------------------------------------------------------------
(* The feeder and tshark. *)

ToolOnly == UNCHANGED <<selected, elsewhere, pc, ending, ticket, index, masked, unplaced, taken,
                        pending, exhausted, summaries, expired>>

Feed(d) ==
    /\ feeder[d] = "feeding"
    /\ fed[d] < Frames
    /\ fed[d] - read[d] < Pipe
    /\ fed' = [fed EXCEPT ![d] = @ + 1]
    /\ ToolOnly /\ UNCHANGED <<feeder, tool, read>>

(* Mutant: the writing end is closed only once the tool is gone. *)
FeedEndsLast(d) ==
    /\ feeder[d] = "feeding"
    /\ tool[d] \in Exited
    /\ feeder' = [feeder EXCEPT ![d] = "closed"]
    /\ ToolOnly /\ UNCHANGED <<fed, tool, read>>

(* Everything is written, or the tool is gone: the pipe is closed. *)
FeedEnds(d) ==
    /\ feeder[d] = "feeding"
    /\ fed[d] = Frames \/ tool[d] \in Exited
    /\ feeder' = [feeder EXCEPT ![d] = "closed"]
    /\ ToolOnly /\ UNCHANGED <<fed, tool, read>>

(* The source fails under the feeder, which ends with that error, after a  *)
(* whole record or within one: the pipe is closed all the same.  Of an     *)
(* empty input tshark complains.                                           *)
FeedBreaks(d) ==
    /\ feeder[d] = "feeding"
    /\ fed[d] < Frames
    /\ \E how \in IF fed[d] > 0 THEN {"short", "ragged"} ELSE {"ragged"} :
          feeder' = [feeder EXCEPT ![d] = how]
    /\ ToolOnly /\ UNCHANGED <<fed, tool, read>>

(* tshark reads a frame and prints it when it is selected and there is     *)
(* room on its stdout.                                                     *)
ToolReads(d) ==
    /\ tool[d] = "running"
    /\ read[d] < fed[d]
    /\ read[d] + 1 \in selected => Cardinality(Printed(d)) < Pipe
    /\ read' = [read EXCEPT ![d] = @ + 1]
    /\ ToolOnly /\ UNCHANGED <<feeder, fed, tool>>

(* At the end of its input; a capture cut within a record is an error. *)
ToolExits(d) ==
    /\ tool[d] = "running"
    /\ read[d] = fed[d]
    /\ feeder[d] \in {"closed", "short", "ragged"}
    /\ tool' = [tool EXCEPT ![d] = IF feeder[d] = "ragged" THEN "failed" ELSE "clean"]
    /\ ToolOnly /\ UNCHANGED <<feeder, fed, read>>

(* It is killed or crashes, between two packets or within one. *)
ToolDies(d) ==
    /\ tool[d] = "running"
    /\ \E how \in {"failed", "torn"} : tool' = [tool EXCEPT ![d] = how]
    /\ ToolOnly /\ UNCHANGED <<feeder, fed, read>>

----------------------------------------------------------------------------
(* The reader, and what it asks tshark. *)

(* _advance: the next packet, the end of the output, or an output that     *)
(* ends within a packet.  Needed before a frame is rewritten, and at the   *)
(* end, unless a packet is held back.                                      *)
Advance(d) ==
    /\ pc[d] = "streaming"
    /\ tool[d] # "none" /\ pending[d] = 0 /\ ~exhausted[d]
    /\ \/ /\ Printed(d) # {}
          /\ pending' = [pending EXCEPT ![d] = Min(Printed(d))]
          /\ taken' = [taken EXCEPT ![d] = Min(Printed(d))]
          /\ UNCHANGED <<selected, elsewhere, pc, ending, ticket, exhausted, summaries, expired>>
       \/ /\ Printed(d) = {} /\ tool[d] \in Exited \ {"torn"}
          /\ exhausted' = [exhausted EXCEPT ![d] = TRUE]
          /\ UNCHANGED <<selected, elsewhere, pc, ending, ticket, pending, taken, summaries, expired>>
       \/ /\ Printed(d) = {} /\ tool[d] = "torn"
          /\ Leave(d, "failed")
          /\ UNCHANGED <<pending, taken, exhausted>>
    /\ UNCHANGED <<index, masked, unplaced, feeder, fed, tool, read>>

(* tshark has answered for the frame after the last one. *)
Answered(d) == tool[d] = "none" \/ pending[d] # 0 \/ exhausted[d]

(* What the packet held back says is in frame i: _apply_rule masks a field *)
(* where its bytes are found (_locate), else it is counted and left.       *)
Masks(d, i) == pending[d] = i /\ i \notin elsewhere
Misses(d, i) == pending[d] = i /\ i \in elsewhere

(* One record: packet_for, then rewrite. *)
RewriteFrame(d) ==
    LET i == index[d] + 1
    IN  /\ pc[d] = "streaming"
        /\ index[d] < Frames
        /\ Answered(d)
        /\ IF pending[d] # 0 /\ pending[d] < i
             THEN Leave(d, "failed") /\ UNCHANGED <<index, masked, unplaced, pending>>
             ELSE /\ index' = [index EXCEPT ![d] = i]
                  /\ pending' = [pending EXCEPT ![d] = IF @ = i THEN 0 ELSE @]
                  /\ masked' = [masked EXCEPT ![d] = IF Masks(d, i) THEN @ \union {i} ELSE @]
                  /\ unplaced' = [unplaced EXCEPT ![d] = IF Misses(d, i) THEN @ \union {i} ELSE @]
                  /\ UNCHANGED <<selected, elsewhere, pc, ending, ticket, summaries, expired>>
        /\ UNCHANGED <<feeder, fed, tool, read, taken, exhausted>>

(* Mutant: nobody asks how tshark ended. *)
FinishAnyway(d) ==
    /\ pc[d] = "streaming"
    /\ index[d] = Frames
    /\ Answered(d)
    /\ IF pending[d] # 0 THEN Leave(d, "failed") ELSE Leave(d, "ended")
    /\ UNCHANGED streams

(* finish(): no more packets, and tshark exited cleanly. *)
Finish(d) ==
    /\ pc[d] = "streaming"
    /\ index[d] = Frames
    /\ Answered(d)
    /\ \/ pending[d] # 0 /\ Leave(d, "failed")
       \/ pending[d] = 0 /\ tool[d] \in {"none", "clean"} /\ Leave(d, "ended")
       \/ pending[d] = 0 /\ tool[d] \in Exited \ {"clean"} /\ Leave(d, "failed")
    /\ UNCHANGED streams

----------------------------------------------------------------------------
(* The browser and the clock. *)

(* sanitized_download_summary: a finished summary is handed out once. *)
AskSummary(t) ==
    /\ \E i \in DOMAIN summaries :
          /\ summaries[i].ticket = t
          /\ summaries[i].state # "running"
          /\ summaries' = RemoveAt(summaries, i)
          /\ expired' = IF i <= expired THEN expired - 1 ELSE expired
    /\ UNCHANGED <<selected, elsewhere, pc, ending, ticket, streams>>

(* The oldest summary that has not expired does. *)
TimePasses ==
    /\ expired < Len(summaries)
    /\ expired' = expired + 1
    /\ UNCHANGED <<selected, elsewhere, pc, ending, ticket, streams, summaries>>

(* Another request's download begins or ends. *)
CrowdRemembers(t) ==
    /\ \E state \in {"running", "summary"} : RememberSummary(Nobody, t, state)
    /\ UNCHANGED <<selected, elsewhere, pc, ending, ticket, streams>>

Init ==
    /\ selected \in Selections
    /\ elsewhere \in SUBSET selected
    /\ pc = [d \in Downloads |-> "idle"]
    /\ ending = [d \in Downloads |-> "cut"]
    /\ ticket = [d \in Downloads |-> NoTicket]
    /\ index = [d \in Downloads |-> 0]
    /\ masked = [d \in Downloads |-> {}]
    /\ unplaced = [d \in Downloads |-> {}]
    /\ feeder = [d \in Downloads |-> "none"]
    /\ fed = [d \in Downloads |-> 0]
    /\ tool = [d \in Downloads |-> "none"]
    /\ read = [d \in Downloads |-> 0]
    /\ taken = [d \in Downloads |-> 0]
    /\ pending = [d \in Downloads |-> 0]
    /\ exhausted = [d \in Downloads |-> FALSE]
    /\ summaries = <<>>
    /\ expired = 0

Body(d) == Advance(d) \/ RewriteFrame(d) \/ Finish(d) \/ Close(d)
Tool(d) == Feed(d) \/ FeedEnds(d) \/ ToolReads(d) \/ ToolExits(d)

Next ==
    \/ \E d \in Downloads :
          \/ \E t \in Tickets \union {NoTicket} : Request(d, t)
          \/ Dropped(d) \/ Start(d) \/ Interrupted(d)
          \/ Body(d) \/ Tool(d) \/ FeedBreaks(d) \/ ToolDies(d)
    \/ \E t \in Tickets \union Crowd : AskSummary(t)
    \/ \E t \in Crowd : CrowdRemembers(t)
    \/ TimePasses

Spec == Init /\ [][Next]_vars

(* The event loop resumes what can go on and the tool and its feeder run;  *)
(* clients, failures and the clock owe nothing.                            *)
Fairness == \A d \in Downloads : WF_vars(Body(d)) /\ WF_vars(Tool(d))
FairSpec == Spec /\ Fairness

----------------------------------------------------------------------------
(* Properties. *)

(* A download that ends without an error went through tshark in full: of   *)
(* every frame that carries something to mask, that was masked or is       *)
(* counted as not placed.  tshark may die at any moment, and only finish() *)
(* finds out, after frames were rewritten without it.  It does not find    *)
(* out that the feeder's source ended early, between two records.          *)
CleanMeansMasked ==
    \A d \in Downloads :
        pc[d] = "ended" => feeder[d] = "short" \/ selected = masked[d] \union unplaced[d]

(* The summary kept under a ticket is the truth about its download: an     *)
(* error unless the copy went out whole, "not done" only while the body    *)
(* can still say more, or when it never began.                             *)
SummaryIsTrue ==
    \A i \in DOMAIN summaries :
        LET s == summaries[i]
        IN  s.of # Nobody =>
              /\ s.state = "summary" <=> pc[s.of] = "ended"
              /\ s.state = "error" <=> pc[s.of] \in {"failed", "cut"}

(* A client that disconnects leaves neither the tool nor its feeder        *)
(* running (reap_tool).                                                    *)
NothingLeftRunning ==
    \A d \in Downloads : pc[d] \in Over => tool[d] # "running" /\ feeder[d] # "feeding"

(* Pipes that fill up on either side never leave a download waiting for    *)
(* good: feeder, tshark and reader always go on to an end.                 *)
DownloadsEnd == \A d \in Downloads : pc[d] = "streaming" ~> pc[d] \in Over

----------------------------------------------------------------------------
(* What a comment of the code says and the code does not do. *)

(* "The capture could not be sanitized. Never a partial success"           *)
(* (SanitizeError): nobody awaits a feeder that failed (finish).           *)
EndsMasked ==
    \A d \in Downloads : pc[d] = "ended" => selected = masked[d] \union unplaced[d]
=============================================================================
