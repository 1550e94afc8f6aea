------------------------- MODULE LeadDispatchProps -------------------------
(***************************************************************************)
(* What must hold of the dispatcher modelled in LeadDispatch.              *)
(***************************************************************************)
EXTENDS LeadDispatch

\* Every variable keeps its shape; a worker with a lead to work on has one.
TypeOK ==
    /\ status \in [Leads -> Statuses]
    /\ isLocked \in [Leads -> BOOLEAN] /\ due \in [Leads -> BOOLEAN]
    /\ callId \in [Leads -> BOOLEAN]
    /\ schedule \in SUBSET Leads /\ ready \in Seq(Leads)
    /\ processing \in [Workers -> [Leads -> Nat]]
    /\ heartbeat \in [Workers -> BOOLEAN]
    /\ pc \in [Workers -> PCs] /\ job \in [Workers -> Leads \cup {NoLead}]
    /\ \A w \in Workers : job[w] = NoLead <=> pc[w] \in {"idle", "dead"}
    /\ followUps \in SUBSET ({"schedule", "cancel"} \X Leads)
    /\ scan \in [Leads -> Scans] /\ reaping \in SUBSET (Workers \X Leads)
    /\ rings \in [Leads -> Nat] /\ lost \in [Leads -> Nat]
    /\ faults \in Nat /\ takeovers \in Nat

-----------------------------------------------------------------------------
\* While no lock was taken from under a running worker, at most one worker is
\* between the row lock and its release for any lead: every unlock by id
\* (release, defer, sweep, stale-lock cleaning) hits its own lock.
ExclusiveDispatch ==
    takeovers = 0 =>
        \A v, w \in Workers : \A l \in Leads :
            Holds(v, l) /\ Holds(w, l) => v = w

\* A customer is rung again for the same row only after a ring whose record
\* was lost (worker died or was cancelled with the reply in hand, the reply
\* or the recording UPDATE was lost): redis copies, reconcilers, reaper and
\* dispatch-now never ring twice by themselves.
RingOnce ==
    takeovers = 0 => \A l \in Leads : rings[l] <= lost[l] + 1

\* Whatever happened to the lock (stale-lock cleaning and a cancelled deferral
\* can take it from under a running worker), a row records at most one of the
\* calls placed for it: every other one is in a worker's hands or counted lost.
OneRecordedCall ==
    \A l \in Leads :
        rings[l] = lost[l] + (IF callId[l] THEN 1 ELSE 0)
                   + Cardinality({w \in Workers :
                                    pc[w] = "answered" /\ job[w] = l})

\* A row with a call on the line has its call_id, was rung exactly once more
\* than the calls it lost, and no worker is still on the way to dial it (one
\* that was not told of the record may still be about to unlock it).
LiveCallIsSettled ==
    takeovers = 0 =>
        \A l \in Leads : status[l] = "PROCESSING" =>
            /\ callId[l] /\ rings[l] = lost[l] + 1
            /\ \A w \in Workers : Holds(w, l) => pc[w] \in {"orphaned", "release"}

\* A worker never takes a lead through the gates before its next_attempt_at:
\* a stale copy left in Redis by the reconciler, by dispatch-now or by a
\* failed mirror of a deferral is put back.
NeverEarly ==
    takeovers = 0 =>
        \A w \in Workers :
            pc[w] \in {"locked", "dialing", "answered"} => due[job[w]]

-----------------------------------------------------------------------------
\* A FINISHED row (aborted, refused by a gate, or ended) is never reopened and
\* a placed call never falls back to the backlog, whoever still works on it.
StatusOnlyAdvances ==
    [][\A l \in Leads :
        /\ status[l] = "FINISHED" => status'[l] = "FINISHED"
        /\ status[l] = "PROCESSING" => status'[l] \in {"PROCESSING", "FINISHED"}
        /\ callId[l] => callId'[l]]_vars

\* The dispatcher implements the promise of LeadLifecycle.
owner == [l \in Leads |->
            IF Held(l) THEN CHOOSE w \in Workers : Holds(w, l) ELSE NoLead]

Lifecycle == INSTANCE LeadLifecycle WITH Nobody <- NoLead
ImplementsLifecycle == Lifecycle!Spec

-----------------------------------------------------------------------------
\* No lead is forgotten: a due BACKLOG row is eventually locked by a worker
\* or leaves the backlog, whatever ZADD, tracking entry or worker was lost.
BacklogServed ==
    \A l \in Leads :
        (status[l] = "BACKLOG" /\ due[l]) ~> (Held(l) \/ status[l] # "BACKLOG")

\* The copies of a finished lead drain from Redis: once it is FINISHED the
\* queues, the scan and the reaper stop handing it to workers for good, and no
\* entry of it stays in the processing set of a worker that died.
FinishedDrains ==
    \A l \in Leads :
        <>[](status[l] = "FINISHED" =>
                l \notin schedule /\ ~InReady(l) /\ \A w \in Workers :
                    job[w] # l /\ (~heartbeat[w] => processing[w][l] = 0))
=============================================================================
