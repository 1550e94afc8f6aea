--------------------------- MODULE OutboundMessage ---------------------------
(***************************************************************************)
(* The CRM manifest (crm_message): how a queued message is claimed by a    *)
(* dispatcher under a lease, sent, and stamped with what became of it, and *)
(* how the provider's delivery receipts, which arrive in any order, more   *)
(* than once, and possibly before the stamp, move it along the ladder.     *)
(*                                                                         *)
(* The provider's id of a copy is the attempt that sent it: every attempt  *)
(* is one claim of one dispatcher.  A letter <<a, s>> is a receipt of      *)
(* state s for the copy of attempt a.  Time is `due` (next_attempt_at has  *)
(* come) and `stale` (claimed_at is older than the lease).                 *)
(***************************************************************************)
EXTENDS Naturals, FiniteSets

CONSTANTS
    Messages,       \* the ids of the manifest rows
    Dispatchers,    \* the dispatcher loops of all pods
    NoMessage,      \* the message of a dispatcher between two of them
    Batch,          \* CRM_DISPATCH_BATCH
    MaxAttempts,    \* CRM_DISPATCH_MAX_ATTEMPTS
    MaxFaults,      \* bound: lost replies, failed writes, stopped dispatchers
    MaxOverruns,    \* bound: leases that end under a dispatcher at work
    MaxLetters      \* bound: letters the provider files for one message

ASSUME NoMessageAssumption == NoMessage \notin Messages
ASSUME LimitsAssumption ==
    /\ Batch \in Nat \ {0} /\ MaxAttempts \in Nat \ {0}
    /\ MaxFaults \in Nat /\ MaxOverruns \in Nat /\ MaxLetters \in Nat

VARIABLES
    status,      \* crm_message.status; "none" before the row exists
    attempt,     \* crm_message.attempt
    due,         \* next_attempt_at <= now
    stale,       \* claimed_at < now - CRM_DISPATCH_STALE_MINUTES
    providerId,  \* provider_message_id: the attempt it names, 0 for NULL
    marks,       \* which of sent_at, delivered_at, read_at are set
    pc, job,     \* where each dispatcher is, and with which message
    batch,       \* the rows it claimed and has not come to
    claim,       \* the attempt its claim returned for each row
    plan,        \* the status it is about to write
    earlyOnes,   \* the states it read back and has not applied
    letters,     \* receipts filed on the spine
    pending,     \* those the event worker has not consumed
    copies,      \* history: attempts whose copy the provider took
    lost,        \* history: copies whose acceptance will not be recorded
    faults, overruns

rowVars == <<status, attempt, due, stale, providerId, marks>>
loopVars == <<pc, job, batch, claim, plan, earlyOnes>>
spineVars == <<letters, pending>>
ghostVars == <<copies, lost>>
budgets == <<faults, overruns>>
vars == <<rowVars, loopVars, spineVars, ghostVars, budgets>>

Rank == [none |-> 0, queued |-> 0, sending |-> 0, blocked |-> 0, failed |-> 0,
         dead |-> 0, accepted |-> 1, sent |-> 2, delivered |-> 3, read |-> 4]
Statuses == DOMAIN Rank
ReceiptStates == {"sent", "delivered", "read", "failed"}
Marks == {"sent", "delivered", "read"}
PCs == {"idle", "swept", "rows", "gate", "send", "outcome", "readBack", "apply"}

Fault == faults < MaxFaults /\ faults' = faults + 1
NoFault == UNCHANGED faults
Goto(w, where) == pc' = [pc EXCEPT ![w] = where]
Lose(m) == lost' = [lost EXCEPT ![m] = @ + 1]

\* A dispatcher still answers for the row under the row's current claim.
WorksOn(w, m) ==
    /\ claim[w][m] = attempt[m]
    /\ m \in batch[w] \/ job[w] = m

-----------------------------------------------------------------------------
(* The conditions of the UPDATEs.                                          *)

\* Mutants of the next definitions.
ourClaim_ByStatus(w) == status[job[w]] = "sending"
climbs_AnyOrder(m, s) == status[m] \notin {"failed", "dead"}
readsBack_Never(id) == FALSE
claimable_InFlight(m) == status[m] \in {"queued", "sending"} /\ due[m]
isStale_WithAttempts(m) ==
    status[m] = "sending" /\ stale[m] /\ attempt[m] < MaxAttempts

\* requeue_stale_claims
isStale(m) == status[m] = "sending" /\ stale[m]

sweptTo(m) == IF attempt[m] >= MaxAttempts THEN "dead" ELSE "queued"

\* claim_queued_messages
claimable(m) == status[m] = "queued" /\ due[m]

\* apply_outcome: the claim's generation is the attempt.
ourClaim(w) ==
    status[job[w]] = "sending" /\ attempt[job[w]] = claim[w][job[w]]

\* apply_receipt: along the ladder, never back; failed only before delivery.
climbs(m, s) == status[m] \notin {"failed", "dead"} /\ Rank[s] > Rank[status[m]]

fails(m, s) == s = "failed" /\ status[m] \in {"accepted", "sent"}

\* The row learns its provider's id: its early receipts are read back.
readsBack(id) == id # 0

\* plan_for_outcome, on an outcome that may be retried.
retryPlan(m, a) == IF a >= MaxAttempts THEN "dead" ELSE "queued"

apply_receipt(m, a, s) ==
    IF providerId[m] = a
    THEN /\ status' = [status EXCEPT ![m] =
                IF fails(m, s) THEN "failed"
                ELSE IF s # "failed" /\ climbs(m, s) THEN s ELSE @]
         /\ marks' = [marks EXCEPT ![m] = @ \cup
                CASE s = "failed" -> {}
                  [] s = "sent" -> {"sent"}
                  [] s = "delivered" -> {"sent", "delivered"}
                  [] s = "read" -> Marks]
    ELSE UNCHANGED <<status, marks>>

-----------------------------------------------------------------------------
Init ==
    /\ status = [m \in Messages |-> "none"]
    /\ attempt = [m \in Messages |-> 0]
    /\ due = [m \in Messages |-> FALSE] /\ stale = [m \in Messages |-> FALSE]
    /\ providerId = [m \in Messages |-> 0] /\ marks = [m \in Messages |-> {}]
    /\ pc = [w \in Dispatchers |-> "idle"]
    /\ job = [w \in Dispatchers |-> NoMessage]
    /\ batch = [w \in Dispatchers |-> {}]
    /\ claim = [w \in Dispatchers |-> [m \in Messages |-> 0]]
    /\ plan = [w \in Dispatchers |-> "none"]
    /\ earlyOnes = [w \in Dispatchers |-> {}]
    /\ letters = [m \in Messages |-> {}] /\ pending = [m \in Messages |-> {}]
    /\ copies = [m \in Messages |-> {}] /\ lost = [m \in Messages |-> 0]
    /\ faults = 0 /\ overruns = 0

\* queue_message; the dedupe unique absorbs the producer's second call.
QueueMessage(m) ==
    /\ status[m] = "none"
    /\ status' = [status EXCEPT ![m] = "queued"]
    /\ due' = [due EXCEPT ![m] = TRUE]
    /\ UNCHANGED <<attempt, stale, providerId, marks, loopVars, spineVars,
                   ghostVars, budgets>>

BecomeDue(m) ==
    /\ status[m] = "queued" /\ ~due[m]
    /\ due' = [due EXCEPT ![m] = TRUE]
    /\ UNCHANGED <<status, attempt, stale, providerId, marks, loopVars,
                   spineVars, ghostVars, budgets>>

\* CRM_DISPATCH_STALE_MINUTES pass.  A batch is bounded so as to finish inside
\* them; one that does not is an overrun.
LeaseEnds(m) ==
    /\ status[m] = "sending" /\ ~stale[m]
    /\ \/ (\A w \in Dispatchers : ~WorksOn(w, m)) /\ UNCHANGED overruns
       \/ overruns < MaxOverruns /\ overruns' = overruns + 1
    /\ stale' = [stale EXCEPT ![m] = TRUE]
    /\ UNCHANGED <<status, attempt, due, providerId, marks, loopVars,
                   spineVars, ghostVars, faults>>

-----------------------------------------------------------------------------
(* A dispatcher's pass: sweep, claim, then each row in turn.               *)

SweepStaleClaims(w) ==
    /\ pc[w] = "idle"
    /\ status' = [m \in Messages |-> IF isStale(m) THEN sweptTo(m) ELSE status[m]]
    /\ stale' = [m \in Messages |-> stale[m] /\ ~isStale(m)]
    /\ Goto(w, "swept")
    /\ UNCHANGED <<attempt, due, providerId, marks, job, batch, claim, plan,
                   earlyOnes, spineVars, ghostVars, budgets>>

\* FOR UPDATE SKIP LOCKED may leave some rows to the others.
ClaimBatch(w) ==
    /\ pc[w] = "swept"
    /\ \E S \in SUBSET {m \in Messages : claimable(m)} :
        /\ Cardinality(S) <= Batch
        /\ S = {} => \A m \in Messages : ~claimable(m)
        /\ status' = [m \in Messages |-> IF m \in S THEN "sending" ELSE status[m]]
        /\ attempt' = [m \in Messages |->
                        IF m \in S THEN attempt[m] + 1 ELSE attempt[m]]
        /\ claim' = [claim EXCEPT ![w] = [m \in Messages |->
                        IF m \in S THEN attempt[m] + 1 ELSE @[m]]]
        /\ batch' = [batch EXCEPT ![w] = S]
    /\ Goto(w, "rows")
    /\ UNCHANGED <<due, stale, providerId, marks, job, plan, earlyOnes,
                   spineVars, ghostVars, budgets>>

NextRow(w) ==
    /\ pc[w] = "rows"
    /\ \/ \E m \in batch[w] :
            /\ batch' = [batch EXCEPT ![w] = @ \ {m}]
            /\ job' = [job EXCEPT ![w] = m]
            /\ Goto(w, "gate")
       \/ batch[w] = {} /\ Goto(w, "idle") /\ UNCHANGED <<batch, job>>
    /\ UNCHANGED <<rowVars, claim, plan, earlyOnes, spineVars, ghostVars, budgets>>

\* gate(): suppressed, or the probe failed.
AskGate(w) ==
    /\ pc[w] = "gate"
    /\ \/ plan' = [plan EXCEPT ![w] = "blocked"] /\ Goto(w, "outcome")
       \/ UNCHANGED plan /\ Goto(w, "send")
    /\ UNCHANGED <<rowVars, job, batch, claim, earlyOnes, spineVars, ghostVars,
                   budgets>>

\* The provider takes the copy: its reply is read, or lost to the deadline.
SendCopy(w) ==
    /\ pc[w] = "send"
    /\ LET m == job[w] IN
        /\ copies' = [copies EXCEPT ![m] = @ \cup {claim[w][m]}]
        /\ \/ plan' = [plan EXCEPT ![w] = "accepted"] /\ NoFault /\ UNCHANGED lost
           \/ /\ plan' = [plan EXCEPT ![w] = retryPlan(m, claim[w][m])]
              /\ Fault /\ Lose(m)
    /\ Goto(w, "outcome")
    /\ UNCHANGED <<rowVars, job, batch, claim, earlyOnes, spineVars, overruns>>

\* No route, a refusal for good, or one that may be retried.
SendNothing(w) ==
    /\ pc[w] = "send"
    /\ \E p \in {"blocked", "failed", retryPlan(job[w], claim[w][job[w]])} :
        plan' = [plan EXCEPT ![w] = p]
    /\ Goto(w, "outcome")
    /\ UNCHANGED <<rowVars, job, batch, claim, earlyOnes, spineVars, ghostVars,
                   budgets>>

Done(w) ==
    /\ Goto(w, "rows")
    /\ job' = [job EXCEPT ![w] = NoMessage]
    /\ plan' = [plan EXCEPT ![w] = "none"]

\* apply_outcome on the row of this claim.  An accepting reply may carry no id.
StampOutcome(w) ==
    /\ pc[w] = "outcome" /\ ourClaim(w)
    /\ LET m == job[w] IN
        /\ status' = [status EXCEPT ![m] = plan[w]]
        /\ stale' = [stale EXCEPT ![m] = FALSE]
        /\ due' = [due EXCEPT ![m] = @ /\ plan[w] # "queued"]
        /\ marks' = [marks EXCEPT ![m] =
                        IF plan[w] = "accepted" THEN @ \cup {"sent"} ELSE @]
        /\ \E id \in IF plan[w] = "accepted" THEN {0, claim[w][m]} ELSE {0} :
            /\ providerId' = [providerId EXCEPT ![m] = IF id = 0 THEN @ ELSE id]
            /\ \/ /\ readsBack(id) /\ NoFault
                  /\ Goto(w, "readBack") /\ UNCHANGED <<job, plan>>
               \/ ((~readsBack(id) /\ NoFault) \/ Fault) /\ Done(w)
    /\ UNCHANGED <<attempt, batch, claim, earlyOnes, spineVars, ghostVars,
                   overruns>>

\* The row belongs to a newer claim, or the write raised and the row is left to
\* the sweep.
MissOutcome(w) ==
    /\ pc[w] = "outcome"
    /\ (~ourClaim(w) /\ NoFault) \/ Fault
    /\ IF plan[w] = "accepted" THEN Lose(job[w]) ELSE UNCHANGED lost
    /\ Done(w)
    /\ UNCHANGED <<rowVars, batch, claim, earlyOnes, spineVars, copies, overruns>>

\* backfill_early_receipts: the letters filed for the id it has just stamped.
ReadBack(w) ==
    /\ pc[w] = "readBack"
    /\ LET filed == {s \in ReceiptStates : <<claim[w][job[w]], s>> \in letters[job[w]]} IN
       \/ filed # {} /\ earlyOnes' = [earlyOnes EXCEPT ![w] = filed]
          /\ Goto(w, "apply") /\ UNCHANGED <<job, plan>>
       \/ filed = {} /\ Done(w) /\ UNCHANGED earlyOnes
    /\ UNCHANGED <<rowVars, batch, claim, spineVars, ghostVars, budgets>>

\* It never raises: what fails half way is logged, the rest left unapplied.
GiveUpReadBack(w) ==
    /\ pc[w] \in {"readBack", "apply"} /\ Fault
    /\ Done(w)
    /\ earlyOnes' = [earlyOnes EXCEPT ![w] = {}]
    /\ UNCHANGED <<rowVars, batch, claim, spineVars, ghostVars, overruns>>

\* LADDER: failed comes last.
ladder == [sent |-> 0, delivered |-> 1, read |-> 2, failed |-> 3]

ApplyEarlyOne(w) ==
    /\ pc[w] = "apply"
    /\ \E s \in earlyOnes[w] :
        /\ \A t \in earlyOnes[w] : ladder[s] <= ladder[t]
        /\ apply_receipt(job[w], claim[w][job[w]], s)
        /\ earlyOnes' = [earlyOnes EXCEPT ![w] = @ \ {s}]
    /\ IF earlyOnes'[w] = {} THEN Done(w) ELSE UNCHANGED <<pc, job, plan>>
    /\ UNCHANGED <<attempt, due, stale, providerId, batch, claim, spineVars,
                   ghostVars, budgets>>

\* Shut down between rows, cancelled ten seconds later, or killed: the rest of
\* the batch stays claimed.  The pod's replacement starts afresh.
StopDispatcher(w) ==
    /\ pc[w] # "idle" /\ Fault
    /\ IF pc[w] = "outcome" /\ plan[w] = "accepted"
       THEN Lose(job[w]) ELSE UNCHANGED lost
    /\ Goto(w, "idle")
    /\ job' = [job EXCEPT ![w] = NoMessage]
    /\ batch' = [batch EXCEPT ![w] = {}]
    /\ plan' = [plan EXCEPT ![w] = "none"]
    /\ earlyOnes' = [earlyOnes EXCEPT ![w] = {}]
    /\ UNCHANGED <<rowVars, claim, spineVars, copies, overruns>>

-----------------------------------------------------------------------------
(* The receipts: filed by the ingress door, consumed by the event worker.  *)

\* One letter per id and state: the spine dedupes by external id.
FileLetter(m, a, s) ==
    /\ a \in copies[m] /\ <<a, s>> \notin letters[m]
    /\ Cardinality(letters[m]) < MaxLetters
    /\ letters' = [letters EXCEPT ![m] = @ \cup {<<a, s>>}]
    /\ pending' = [pending EXCEPT ![m] = @ \cup {<<a, s>>}]
    /\ UNCHANGED <<rowVars, loopVars, ghostVars, budgets>>

\* consume_status_event commits by itself: when the pass that called it rolls
\* back, the letter stays pending and is consumed again.
ConsumeLetter(m, a, s) ==
    /\ <<a, s>> \in pending[m]
    /\ apply_receipt(m, a, s)
    /\ \/ pending' = [pending EXCEPT ![m] = @ \ {<<a, s>>}] /\ NoFault
       \/ UNCHANGED pending /\ Fault
    /\ UNCHANGED <<attempt, due, stale, providerId, loopVars, letters,
                   ghostVars, overruns>>

-----------------------------------------------------------------------------
DispatcherStep(w) ==
    \/ SweepStaleClaims(w) \/ ClaimBatch(w) \/ NextRow(w) \/ AskGate(w)
    \/ SendCopy(w) \/ SendNothing(w) \/ StampOutcome(w) \/ MissOutcome(w)
    \/ ReadBack(w) \/ GiveUpReadBack(w) \/ ApplyEarlyOne(w)

MessageStep(m) ==
    \/ QueueMessage(m) \/ BecomeDue(m) \/ LeaseEnds(m)
    \/ \E a \in 1..MaxAttempts, s \in ReceiptStates :
        FileLetter(m, a, s) \/ ConsumeLetter(m, a, s)

Next ==
    \/ \E w \in Dispatchers : DispatcherStep(w) \/ StopDispatcher(w)
    \/ \E m \in Messages : MessageStep(m)

Spec == Init /\ [][Next]_vars

\* The dispatcher loops keep running and time passes; producers, the provider
\* and failures need not act.
Fairness ==
    /\ \A w \in Dispatchers : WF_vars(DispatcherStep(w))
    /\ \A m \in Messages : WF_vars(BecomeDue(m)) /\ WF_vars(LeaseEnds(m))

FairSpec == Spec /\ Fairness
=============================================================================
