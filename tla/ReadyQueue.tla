------------------------------ MODULE ReadyQueue ------------------------------
(***************************************************************************)
(* What the dispatch workers rely on of the ready leads: a first-in         *)
(* first-out queue that leads join in batches.                             *)
(***************************************************************************)
CONSTANT Leads

VARIABLES
    waiting,    \* the leads in the queue
    before      \* <<l, k>>: l is ahead of k

Init == waiting = {} /\ before = {}

\* A batch joins behind everyone, in an order of its own.
Join(batch, order) ==
    /\ batch \cap waiting = {}
    /\ \A l, k \in batch : l # k => (<<l, k>> \in order <=> <<k, l>> \notin order)
    /\ waiting' = waiting \cup batch
    /\ before' = before \cup order \cup (waiting \X batch)

\* Only the first lead leaves.
Leave(l) ==
    /\ l \in waiting /\ \A k \in waiting : <<k, l>> \notin before
    /\ waiting' = waiting \ {l}
    /\ before' = {pair \in before : pair[1] # l /\ pair[2] # l}

Next ==
    \/ \E batch \in SUBSET Leads : \E order \in SUBSET (batch \X batch) :
            Join(batch, order)
    \/ \E l \in Leads : Leave(l)

Spec == Init /\ [][Next]_<<waiting, before>>
=============================================================================
