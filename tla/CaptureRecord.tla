--------------------------- MODULE CaptureRecord ---------------------------
(***************************************************************************)
(* What the record of a capture promises, whoever is writing it            *)
(* (models.py CaptureStatus, capture.py): the status a user is shown only  *)
(* moves forward, the row kept for the next start of the process is always *)
(* one of its statuses, and a removed capture never comes back completed.  *)
(***************************************************************************)
CONSTANT Captures

VARIABLES
    fresh,  \* ids no start has used yet
    rec,    \* the record shown, "absent" when there is none
    saved   \* the stored row, "absent" when there is none

vars == <<fresh, rec, saved>>

Active   == {"running", "stopping", "transferring"}
Terminal == {"completed", "failed"}
Status   == Active \union Terminal

(* The statuses that may follow each one.                                  *)
After(s) ==
    CASE s = "running"      -> {"stopping", "transferring", "failed"}
      [] s = "stopping"     -> {"transferring", "failed"}
      [] s = "transferring" -> {"completed", "failed"}
      [] OTHER              -> {}

Init ==
    /\ fresh = Captures
    /\ rec = [c \in Captures |-> "absent"]
    /\ saved = [c \in Captures |-> "absent"]

Register(c) ==
    /\ c \in fresh
    /\ fresh' = fresh \ {c}
    /\ rec' = [rec EXCEPT ![c] = "running"]
    /\ saved' = [saved EXCEPT ![c] = "running"]

(* The status moves on; the row follows now or later.                      *)
Advance(c) ==
    /\ \E s \in After(rec[c]) :
           /\ rec' = [rec EXCEPT ![c] = s]
           /\ \E r \in {saved[c], s} : saved' = [saved EXCEPT ![c] = r]
    /\ UNCHANGED fresh

Save(c) ==
    /\ rec[c] # "absent"
    /\ saved' = [saved EXCEPT ![c] = rec[c]]
    /\ UNCHANGED <<fresh, rec>>

Remove(c) ==
    /\ c \notin fresh
    /\ rec' = [rec EXCEPT ![c] = "absent"]
    /\ saved' = [saved EXCEPT ![c] = "absent"]
    /\ UNCHANGED fresh

(* A coroutine that outlives the record it works for may still write its   *)
(* row, but never as completed.                                            *)
LateWrite(c) ==
    /\ c \notin fresh
    /\ rec[c] = "absent"
    /\ \E s \in Status \ {"completed"} : saved' = [saved EXCEPT ![c] = s]
    /\ UNCHANGED <<fresh, rec>>

(* A new process knows the rows, and that what was live is over.           *)
Restart ==
    /\ saved' = [c \in Captures |-> IF saved[c] \in Active THEN "failed"
                                    ELSE saved[c]]
    /\ rec' = saved'
    /\ UNCHANGED fresh

Next ==
    \/ \E c \in Captures :
           Register(c) \/ Advance(c) \/ Save(c) \/ Remove(c) \/ LateWrite(c)
    \/ Restart

Spec == Init /\ [][Next]_vars
=============================================================================
