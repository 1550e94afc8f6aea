---------------------------- MODULE PromoterProps ----------------------------
(***************************************************************************)
(* What must hold of the promoter and its lease modelled in Promoter.      *)
(***************************************************************************)
EXTENDS Promoter

\* Every variable keeps its shape; a pod promotes and asks for the lease only
\* while its loops run, and believes it leads only while it lives.
TypeOK ==
    /\ schedule \in [Leads -> Nat] /\ ready \in [Leads -> Nat]
    /\ lease \in Pods \cup {NoPod, Gone} /\ leads \in [Pods -> BOOLEAN]
    /\ life \in [Pods -> {"down", "running", "stopping", "releasing"}]
    /\ beat \in [Pods -> {"none", "yes", "no"}]
    /\ tick \in [Pods -> {"idle", "leader", "script"}] /\ stamp \in [Pods -> Nat]
    /\ paused \in BOOLEAN /\ now \in Nat
    /\ adds \in Nat /\ stops \in Nat /\ faults \in Nat
    /\ \A p \in Pods :
        /\ tick[p] # "idle" => up(p)
        /\ leads[p] \/ lease = p \/ beat[p] # "none" => life[p] # "down"

\* The ready set is a first-in first-out queue: a lead promoted later never
\* overtakes one that waits, whichever pod promotes it, by whatever clock, and
\* however late its script runs.
Fifo == INSTANCE ReadyQueue WITH
            waiting <- members(ready),
            before <- {pair \in members(ready) \X members(ready) :
                            ready[pair[1]] < ready[pair[2]]}
ReadyIsFifo == Fifo!Spec

\* Two pods believe they lead only after something failed: shutting down,
\* starting and handing the lease over never makes two leaders.
OneLeader ==
    faults = 0 => \A p, q \in Pods : leads[p] /\ leads[q] /\ up(p) /\ up(q) => p = q

\* A pod that renews its lease keeps it: what another pod does, one that
\* believes it still leads included, never takes it.
LeaseIsKept ==
    [][\A p \in Pods : lease = p /\ renews(p) /\ lease' # p =>
            life'[p] = "down" \/ faults' # faults]_vars

\* Every scheduled lead is promoted or cancelled, after crashes, lost replies and
\* leases nobody answers for.
LeadsPromoted == \A l \in Leads : schedule[l] # 0 ~> schedule[l] = 0
=============================================================================
