------------------------ MODULE OutboundMessageProps ------------------------
(***************************************************************************)
(* What must hold of the manifest modelled in OutboundMessage.             *)
(***************************************************************************)
EXTENDS OutboundMessage

Accepted == {"accepted", "sent", "delivered", "read"}

\* Every variable keeps its shape; a dispatcher has a message exactly while it
\* works on one row of its batch.
TypeOK ==
    /\ status \in [Messages -> Statuses]
    /\ attempt \in [Messages -> Nat]
    /\ due \in [Messages -> BOOLEAN] /\ stale \in [Messages -> BOOLEAN]
    /\ providerId \in [Messages -> Nat]
    /\ marks \in [Messages -> SUBSET Marks]
    /\ pc \in [Dispatchers -> PCs]
    /\ job \in [Dispatchers -> Messages \cup {NoMessage}]
    /\ \A w \in Dispatchers :
        job[w] = NoMessage <=> pc[w] \in {"idle", "swept", "rows"}
    /\ batch \in [Dispatchers -> SUBSET Messages]
    /\ claim \in [Dispatchers -> [Messages -> Nat]]
    /\ plan \in [Dispatchers -> Statuses]
    /\ earlyOnes \in [Dispatchers -> SUBSET ReceiptStates]
    /\ letters \in [Messages -> SUBSET (Nat \X ReceiptStates)]
    /\ pending \in [Messages -> SUBSET (Nat \X ReceiptStates)]
    /\ copies \in [Messages -> SUBSET Nat] /\ lost \in [Messages -> Nat]
    /\ faults \in Nat /\ overruns \in Nat

\* No message is sent more than CRM_DISPATCH_MAX_ATTEMPTS times, whatever
\* died or was swept: the claim spends the attempt, and both the retry policy
\* and the sweep stop at the ceiling (neither the claim nor send() asks).
AttemptsBounded ==
    \A m \in Messages :
        /\ attempt[m] <= MaxAttempts
        /\ copies[m] \subseteq 1..attempt[m]

\* The row carries the id of the copy its last claim sent: the late outcome of
\* an expired claim never lands on a row that a newer claim holds or settled.
LastClaimWins ==
    \A m \in Messages : providerId[m] # 0 =>
        /\ providerId[m] = attempt[m] /\ providerId[m] \in copies[m]
        /\ status[m] \in Accepted \cup {"failed"}

\* While no lease ended under a dispatcher at work, a customer gets a second
\* copy only when the outcome of an earlier one was lost (deadline, crash,
\* failed write): sweep, retries and several dispatchers duplicate nothing.
NoNeedlessCopy ==
    overruns = 0 => \A m \in Messages : Cardinality(copies[m]) <= lost[m] + 1

\* Whatever the order of receipts, and however often each is applied, status
\* and timestamps tell one story: an unfailed row stands on the highest rung
\* any of its receipts reached.
StatusIsHighestMark ==
    \A m \in Messages : status[m] # "failed" =>
        /\ "read" \in marks[m] <=> status[m] = "read"
        /\ "delivered" \in marks[m] <=> status[m] \in {"delivered", "read"}
        /\ "sent" \in marks[m] <=> status[m] \in Accepted

\* A receipt of the recorded copy that was filed and consumed is on its row,
\* even when it was consumed before the row knew the provider's id: the
\* consumer and the dispatcher's read-back cannot both miss it.
NoReceiptLost ==
    faults = 0 => \A m \in Messages : \A s \in ReceiptStates :
        LET a == providerId[m]
            owed == \E w \in Dispatchers :
                      job[w] = m /\ (pc[w] = "readBack" \/ s \in earlyOnes[w]) IN
        a # 0 /\ <<a, s>> \in letters[m] \ pending[m] /\ ~owed =>
            IF s = "failed" THEN status[m] \in {"failed", "delivered", "read"}
            ELSE s \in marks[m]

\* Nothing moves a row down the ladder or out of a refusal: an accepted row is
\* never queued again, a delivered one never fails, and blocked, failed and
\* dead rows stay so.
LadderOnlyClimbs ==
    [][\A m \in Messages :
        /\ status[m] \in Accepted =>
            \/ status'[m] \in Accepted /\ Rank[status'[m]] >= Rank[status[m]]
            \/ status'[m] = "failed" /\ status[m] \in {"accepted", "sent"}
        /\ status[m] \in {"blocked", "failed", "dead"} =>
            status'[m] = status[m]]_vars

\* No message is forgotten: every queued row gets its last word.
EveryMessageSettles ==
    \A m \in Messages :
        (status[m] = "queued") ~> (status[m] \notin {"queued", "sending"})

Ledger == INSTANCE MessageLedger WITH
    state <- status, id <- providerId, Ceiling <- MaxAttempts

\* The manifest with its leases, batches, sweeps, read-backs and dying
\* dispatchers keeps what MessageLedger promises of each message.
ImplementsLedger == Ledger!Spec
=============================================================================
