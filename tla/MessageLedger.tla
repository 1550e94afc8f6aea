---------------------------- MODULE MessageLedger ----------------------------
(***************************************************************************)
(* What the manifest promises of a message, whoever dispatches it.  Each   *)
(* claim spends one of a bounded number of attempts and may put one copy,  *)
(* once, into the customer's hands, even after its lease has ended.  The   *)
(* last claim alone may report, and once; the row then carries the id of   *)
(* that claim's copy, or none.  An accepted row only climbs the ladder, or *)
(* fails before delivery; a refused or dead one stays so.                  *)
(***************************************************************************)
EXTENDS Naturals

CONSTANTS Messages, Ceiling

VARIABLES
    state,      \* message -> absent is "none"
    attempt,    \* message -> claims so far
    copies,     \* message -> attempts whose copy went out
    id          \* message -> the attempt whose copy the row names, 0 for none

Rung == [accepted |-> 1, sent |-> 2, delivered |-> 3, read |-> 4]
Requeued(m) == IF attempt[m] < Ceiling THEN "queued" ELSE "dead"

Init ==
    /\ state = [m \in Messages |-> "none"]
    /\ attempt = [m \in Messages |-> 0]
    /\ copies = [m \in Messages |-> {}]
    /\ id = [m \in Messages |-> 0]

Queue(m) ==
    /\ state[m] = "none"
    /\ state' = [state EXCEPT ![m] = "queued"]
    /\ UNCHANGED <<attempt, copies, id>>

Claim(S) ==
    /\ \A m \in S : state[m] = "queued" /\ attempt[m] < Ceiling
    /\ state' = [m \in Messages |-> IF m \in S THEN "sending" ELSE state[m]]
    /\ attempt' = [m \in Messages |-> IF m \in S THEN attempt[m] + 1 ELSE attempt[m]]
    /\ UNCHANGED <<copies, id>>

\* The leases of some claims end: nobody knows whether a copy went out.
Expire(S) ==
    /\ \A m \in S : state[m] = "sending"
    /\ state' = [m \in Messages |-> IF m \in S THEN Requeued(m) ELSE state[m]]
    /\ UNCHANGED <<attempt, copies, id>>

\* No claim sends twice, and none once it has reported.
Send(m, a) ==
    /\ a \in (1..attempt[m]) \ copies[m]
    /\ a = attempt[m] => state[m] \in {"sending", "queued", "dead"}
    /\ copies' = [copies EXCEPT ![m] = @ \cup {a}]
    /\ UNCHANGED <<state, attempt, id>>

Accept(m, i) ==
    /\ state[m] = "sending"
    /\ attempt[m] \in copies[m] /\ i \in {0, attempt[m]}
    /\ state' = [state EXCEPT ![m] = "accepted"]
    /\ id' = [id EXCEPT ![m] = i]
    /\ UNCHANGED <<attempt, copies>>

\* A refusal says that no copy of this attempt went out; a retry does not.
Refuse(m, s) ==
    /\ state[m] = "sending" /\ attempt[m] \notin copies[m]
    /\ s \in {"blocked", "failed"}
    /\ state' = [state EXCEPT ![m] = s]
    /\ UNCHANGED <<attempt, copies, id>>

Climb(m, s) ==
    /\ id[m] # 0 /\ state[m] \in DOMAIN Rung /\ s \in DOMAIN Rung
    /\ Rung[state[m]] < Rung[s]
    /\ state' = [state EXCEPT ![m] = s]
    /\ UNCHANGED <<attempt, copies, id>>

Fail(m) ==
    /\ id[m] # 0 /\ state[m] \in {"accepted", "sent"}
    /\ state' = [state EXCEPT ![m] = "failed"]
    /\ UNCHANGED <<attempt, copies, id>>

MessageStep(m) ==
    \/ Queue(m) \/ Fail(m)
    \/ \E a \in 1..attempt[m] : Send(m, a) \/ Accept(m, a)
    \/ Accept(m, 0)
    \/ \E s \in {"blocked", "failed"} : Refuse(m, s)
    \/ \E s \in DOMAIN Rung : Climb(m, s)

Next ==
    \/ \E m \in Messages : MessageStep(m)
    \/ \E S \in SUBSET Messages : Claim(S) \/ Expire(S)

Spec == Init /\ [][Next]_<<state, attempt, copies, id>>
=============================================================================
