------------------------------ MODULE MediaLife ------------------------------
(***************************************************************************)
(* What the rest of the system may believe of a media asset, without the   *)
(* queue, the store, the workers and their crashes: a row that is shown as  *)
(* processing is owed a result, only what is owed is ever reported, nothing *)
(* owed is settled while the row still waits, and a deleted row is final.   *)
(***************************************************************************)
CONSTANT Media

VARIABLES status, deleted,
          key,   \* which object the row names, the uploaded or the derived one
          owed,  \* media a result is still to come for
          lost   \* media whose result was given up, to be retried by a user

vars == <<status, deleted, key, owed, lost>>

Visible(m) == status[m] # "absent" /\ ~deleted[m]
Waits(m)   == Visible(m) /\ status[m] = "processing"

Init ==
    /\ status = [m \in Media |-> "absent"] /\ deleted = [m \in Media |-> FALSE]
    /\ key = [m \in Media |-> "orig"] /\ owed = {} /\ lost = {}

Becomes(m, s) == status' = [status EXCEPT ![m] = s]

Create(m) ==
    /\ status[m] = "absent" /\ Becomes(m, "uploading")
    /\ \E k \in {"orig", "derived"} : key' = [key EXCEPT ![m] = k]
    /\ UNCHANGED <<deleted, owed, lost>>

(* A finished upload or a retry is accepted, ...                            *)
Accept(m) ==
    /\ Visible(m) /\ Becomes(m, "processing") /\ owed' = owed \cup {m}
    /\ lost' = lost \ {m} /\ UNCHANGED <<deleted, key>>
(* ... or can be shown as it is.                                            *)
Serve(m) == Visible(m) /\ Becomes(m, "ready") /\ UNCHANGED <<deleted, key, owed, lost>>

Report(m) ==
    /\ m \in owed /\ Visible(m) /\ \E s \in {"processing", "ready", "failed"} : Becomes(m, s)
    /\ key' \in {key, [key EXCEPT ![m] = "derived"]}
    /\ UNCHANGED <<deleted, owed, lost>>

Settle(m) ==
    /\ m \in owed /\ (Waits(m) => m \in lost) /\ owed' = owed \ {m}
    /\ UNCHANGED <<status, deleted, key, lost>>

Lose(m) ==
    /\ m \in owed /\ lost' = lost \cup {m} /\ owed' \in {owed, owed \ {m}}
    /\ UNCHANGED <<status, deleted, key>>

Delete(m) ==
    /\ Visible(m) /\ deleted' = [deleted EXCEPT ![m] = TRUE]
    /\ UNCHANGED <<status, key, owed, lost>>

Next == \E m \in Media :
    Create(m) \/ Accept(m) \/ Serve(m) \/ Report(m) \/ Settle(m) \/ Lose(m) \/ Delete(m)

Spec == Init /\ [][Next]_vars
=============================================================================
