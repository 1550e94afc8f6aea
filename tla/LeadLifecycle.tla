--------------------------- MODULE LeadLifecycle ---------------------------
(***************************************************************************)
(* What the dispatcher promises about one lead row, with no queues, locks  *)
(* or failures in sight: at most one worker owns the row at a time, only   *)
(* its owner turns it into a call, a row is dialled into PROCESSING once,  *)
(* and FINISHED is the end.                                                *)
(***************************************************************************)
CONSTANTS Leads, Workers, Nobody

VARIABLES status, owner

vars == <<status, owner>>

SetStatus(l, s) == status' = [status EXCEPT ![l] = s]
SetOwner(l, o) == owner' = [owner EXCEPT ![l] = o]

Init ==
    /\ status = [l \in Leads |-> "NEW"]
    /\ owner = [l \in Leads |-> Nobody]

Arrive(l) == status[l] = "NEW" /\ SetStatus(l, "BACKLOG") /\ UNCHANGED owner

Claim(l, w) ==
    /\ status[l] = "BACKLOG" /\ owner[l] = Nobody
    /\ SetOwner(l, w) /\ UNCHANGED status

\* The call is on the line and the row says so.  An owner that was not told
\* lets go later.
Place(l) ==
    /\ status[l] = "BACKLOG" /\ owner[l] # Nobody
    /\ SetStatus(l, "PROCESSING")
    /\ SetOwner(l, Nobody) \/ UNCHANGED owner

\* The owner ends the row, or somebody aborts it under the owner.
Close(l) == status[l] = "BACKLOG" /\ SetStatus(l, "FINISHED") /\ UNCHANGED owner

LetGo(l) == owner[l] # Nobody /\ SetOwner(l, Nobody) /\ UNCHANGED status

End(l) ==
    /\ status[l] = "PROCESSING" /\ SetStatus(l, "FINISHED") /\ UNCHANGED owner

Next ==
    \E l \in Leads :
        \/ Arrive(l) \/ Place(l) \/ Close(l) \/ LetGo(l) \/ End(l)
        \/ \E w \in Workers : Claim(l, w)

Spec == Init /\ [][Next]_vars
=============================================================================
