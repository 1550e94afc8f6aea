------------------------------- MODULE Promoter -------------------------------
(***************************************************************************)
(* The promoter of the outbound dispatcher and the lease that elects it    *)
(* (dispatch/promoter.py, dispatch/leader.py).  Every pod runs both loops: *)
(* one keeps asking Redis for the lease, the other moves due leads from    *)
(* the schedule to the ready set while the pod believes it leads.          *)
(*                                                                         *)
(* `lease` is the value of bb:promoter:leader as Redis has it; `leads` is  *)
(* what a pod believes, set when the reply of its last call comes in.  A   *)
(* pod that starts again has a new instance id: the lease it left behind   *)
(* is then nobody's (`Gone`) until it expires.                             *)
(***************************************************************************)
EXTENDS Naturals, FiniteSets

CONSTANTS
    Leads, Pods,
    NoPod, Gone,    \* the lease is free; a pod that is no more holds it
    Ahead,          \* how far each pod's clock is ahead of the slowest
    Scale,          \* ready scores per tick of the clock (1000 per ms)
    Batch,          \* BB_PROMOTER_BATCH
    Dues,           \* the times for which leads are scheduled
    MaxTime,        \* bound: the slowest clock stops there
    MaxAdds,        \* bound: calls of schedule_lead and the reconciler's ZADDs
    MaxStops,       \* bound: pods that shut down in order
    MaxFaults       \* bound: failed calls, stalls past the TTL, crashes, pauses

ASSUME PodsAssumption == NoPod \notin Pods /\ Gone \notin Pods /\ NoPod # Gone
ASSUME ClocksAssumption ==
    Ahead \in [Pods -> Nat] /\ Scale \in Nat /\ Batch \in Nat
    /\ Dues \subseteq Nat \ {0}

VARIABLES
    schedule, ready,    \* lead -> its score, 0 when it is not a member
    lease, leads,
    life,               \* pod -> down, running, stopping, releasing
    beat,               \* pod -> what the call of its leader loop returned
    tick, stamp,        \* pod -> where _tick_once is, and the now_ms it read
    paused,             \* bb:promoter:paused exists
    now, adds, stops, faults

queueVars == <<schedule, ready>>
leaseVars == <<lease, leads, life, beat>>
tickVars == <<tick, stamp>>
boundVars == <<adds, stops, faults>>
vars == <<queueVars, leaseVars, tickVars, paused, now, boundVars>>

Fault == faults < MaxFaults /\ faults' = faults + 1 /\ UNCHANGED <<adds, stops>>

up(p) == life[p] \in {"running", "stopping"}
members(zset) == {l \in Leads : zset[l] # 0}

-----------------------------------------------------------------------------
(* The leader loop.  A call that fails is one that returned False; Redis    *)
(* may have carried it out.                                                *)

\* Mutant of the next definition.
TryAcquire_Steals(p) ==
    /\ up(p) /\ beat[p] = "none" /\ ~leads[p]
    /\ lease' = p /\ beat' = [beat EXCEPT ![p] = "yes"]
    /\ UNCHANGED <<queueVars, leads, life, tickVars, paused, now, boundVars>>

\* _try_acquire: SET NX EX.
TryAcquire(p) ==
    /\ up(p) /\ beat[p] = "none" /\ ~leads[p]
    /\ \/ /\ lease = NoPod /\ lease' = p
          /\ \/ beat' = [beat EXCEPT ![p] = "yes"] /\ UNCHANGED boundVars
             \/ beat' = [beat EXCEPT ![p] = "no"] /\ Fault
       \/ /\ UNCHANGED lease
          /\ beat' = [beat EXCEPT ![p] = "no"]
          /\ IF lease = NoPod THEN Fault ELSE UNCHANGED boundVars
    /\ UNCHANGED <<queueVars, leads, life, tickVars, paused, now>>

\* _try_renew: EXPIRE if the value is still ours.
TryRenew(p) ==
    /\ up(p) /\ beat[p] = "none" /\ leads[p]
    /\ \/ /\ beat' = [beat EXCEPT ![p] = IF lease = p THEN "yes" ELSE "no"]
          /\ UNCHANGED boundVars
       \/ beat' = [beat EXCEPT ![p] = "no"] /\ Fault
    /\ UNCHANGED <<queueVars, lease, leads, life, tickVars, paused, now>>

Answered(p) ==
    /\ beat[p] # "none"
    /\ leads' = [leads EXCEPT ![p] = beat[p] = "yes"]
    /\ beat' = [beat EXCEPT ![p] = "none"]
    /\ UNCHANGED <<queueVars, lease, life, tickVars, paused, now, boundVars>>

renews(p) == up(p) /\ (leads[p] \/ beat[p] = "yes")

\* Mutant of the next definition.
Lapse_OfRenewed ==
    /\ \E p \in Pods : lease = p /\ renews(p)
    /\ lease' = NoPod /\ Fault
    /\ UNCHANGED <<queueVars, leads, life, beat, tickVars, paused, now>>

\* The TTL runs out: of a pod that renews, only when it stalls that long.
Lapse ==
    /\ lease # NoPod /\ lease' = NoPod
    /\ IF \E p \in Pods : lease = p /\ renews(p) THEN Fault ELSE UNCHANGED boundVars
    /\ UNCHANGED <<queueVars, leads, life, beat, tickVars, paused, now>>

-----------------------------------------------------------------------------
(* The promoter loop.                                                      *)

CheckLeader(p) ==
    /\ life[p] = "running" /\ tick[p] = "idle" /\ leads[p]
    /\ tick' = [tick EXCEPT ![p] = "leader"]
    /\ UNCHANGED <<queueVars, leaseVars, stamp, paused, now, boundVars>>

\* _is_paused, which answers False when Redis fails; now_ms is read after it.
CheckPaused(p) ==
    /\ up(p) /\ tick[p] = "leader"
    /\ \/ /\ paused /\ tick' = [tick EXCEPT ![p] = "idle"]
          /\ UNCHANGED <<stamp, boundVars>>
       \/ /\ tick' = [tick EXCEPT ![p] = "script"]
          /\ stamp' = [stamp EXCEPT ![p] = now + Ahead[p]]
          /\ IF paused THEN Fault ELSE UNCHANGED boundVars
    /\ UNCHANGED <<queueVars, leaseVars, paused, now>>

\* Mutant of the next definition.
floors_NoTail(p) == {stamp[p] * Scale}

\* The batch is numbered from the largest of these.
floors(p) == {stamp[p] * Scale} \cup {ready[l] : l \in Leads}

\* One script moves the first due leads; a lead already in ready keeps its
\* place.  Equal scores come in the order of the ids, which is any.
Promote(p) ==
    LET due == {l \in members(schedule) : schedule[l] <= stamp[p]} IN
    \E batch \in SUBSET due :
      /\ Cardinality(batch) <= Batch /\ (batch = due \/ Cardinality(batch) = Batch)
      /\ \A l \in batch, k \in due \ batch : schedule[l] <= schedule[k]
      /\ \E base \in floors(p), place \in [batch -> 1 .. Cardinality(batch)] :
          /\ \A floor \in floors(p) : floor <= base
          /\ \A l, k \in batch :
                /\ schedule[l] < schedule[k] => place[l] < place[k]
                /\ place[l] = place[k] => l = k
          /\ ready' = [l \in Leads |-> IF l \in batch /\ ready[l] = 0
                                       THEN base + place[l] ELSE ready[l]]
          /\ schedule' = [l \in Leads |-> IF l \in batch THEN 0 ELSE schedule[l]]

RunScript(p) ==
    /\ up(p) /\ tick[p] = "script"
    /\ \/ Promote(p) /\ UNCHANGED boundVars
       \/ Fault /\ UNCHANGED queueVars
    /\ tick' = [tick EXCEPT ![p] = "idle"]
    /\ UNCHANGED <<leaseVars, stamp, paused, now>>

-----------------------------------------------------------------------------
(* A pod's life.                                                           *)

Start(p) ==
    /\ life[p] = "down" /\ life' = [life EXCEPT ![p] = "running"]
    /\ UNCHANGED <<queueVars, lease, leads, beat, tickVars, paused, now, boundVars>>

\* Promoter.stop: no new tick, and 5 s for the one under way.
Stop(p) ==
    /\ life[p] = "running" /\ stops < MaxStops
    /\ stops' = stops + 1 /\ life' = [life EXCEPT ![p] = "stopping"]
    /\ UNCHANGED <<queueVars, lease, leads, beat, tickVars, paused, now, adds, faults>>

\* LeaderElection.stop, once the tick is over or cancelled: no new call.
StopLeader(p) ==
    /\ life[p] = "stopping" /\ life' = [life EXCEPT ![p] = "releasing"]
    /\ tick' = [tick EXCEPT ![p] = "idle"]
    /\ IF tick[p] # "idle" THEN Fault ELSE UNCHANGED boundVars
    /\ UNCHANGED <<queueVars, lease, leads, beat, stamp, paused, now>>

Left(p) == IF lease = p THEN Gone ELSE lease

\* Mutant of the next definition.
Released_Blind(p) == IF leads[p] THEN NoPod ELSE Left(p)

\* _release: DEL if the value is still ours.
Released(p) == IF leads[p] /\ lease = p THEN NoPod ELSE Left(p)

\* A call under way has TTL + 1 s to come back before it is cancelled.
Release(p) ==
    /\ life[p] = "releasing"
    /\ \/ beat[p] = "none" /\ lease' = Released(p) /\ UNCHANGED boundVars
       \/ beat[p] # "none" /\ lease' = Released(p) /\ Fault
       \/ leads[p] /\ lease' = Left(p) /\ Fault
    /\ life' = [life EXCEPT ![p] = "down"] /\ leads' = [leads EXCEPT ![p] = FALSE]
    /\ beat' = [beat EXCEPT ![p] = "none"]
    /\ UNCHANGED <<queueVars, tickVars, paused, now>>

Crash(p) ==
    /\ life[p] # "down" /\ Fault
    /\ lease' = Left(p) /\ leads' = [leads EXCEPT ![p] = FALSE]
    /\ life' = [life EXCEPT ![p] = "down"] /\ beat' = [beat EXCEPT ![p] = "none"]
    /\ tick' = [tick EXCEPT ![p] = "idle"]
    /\ UNCHANGED <<queueVars, stamp, paused, now>>

-----------------------------------------------------------------------------
(* Everyone else.                                                          *)

\* schedule_lead, and the reconciler's ZADD, which may find the lead in ready.
Schedule(l) ==
    /\ adds < MaxAdds /\ adds' = adds + 1
    /\ \E due \in Dues : schedule' = [schedule EXCEPT ![l] = due]
    /\ UNCHANGED <<ready, leaseVars, tickVars, paused, now, stops, faults>>

\* cancel_scheduled_lead.
Cancel(l) ==
    /\ schedule[l] # 0 /\ schedule' = [schedule EXCEPT ![l] = 0]
    /\ UNCHANGED <<ready, leaseVars, tickVars, paused, now, boundVars>>

\* BZPOPMIN of a worker.
PopReady(l) ==
    /\ ready[l] # 0 /\ \A k \in members(ready) : ready[l] <= ready[k]
    /\ ready' = [ready EXCEPT ![l] = 0]
    /\ UNCHANGED <<schedule, leaseVars, tickVars, paused, now, boundVars>>

Pause ==
    /\ ~paused /\ paused' = TRUE /\ Fault
    /\ UNCHANGED <<queueVars, leaseVars, tickVars, now>>

Unpause ==
    /\ paused /\ paused' = FALSE
    /\ UNCHANGED <<queueVars, leaseVars, tickVars, now, boundVars>>

Clock ==
    /\ now < MaxTime /\ now' = now + 1
    /\ UNCHANGED <<queueVars, leaseVars, tickVars, paused, boundVars>>

-----------------------------------------------------------------------------
Init ==
    /\ schedule = [l \in Leads |-> 0] /\ ready = [l \in Leads |-> 0]
    /\ lease = NoPod /\ leads = [p \in Pods |-> FALSE]
    /\ life = [p \in Pods |-> "down"] /\ beat = [p \in Pods |-> "none"]
    /\ tick = [p \in Pods |-> "idle"] /\ stamp = [p \in Pods |-> 0]
    /\ paused = FALSE /\ now = 0 /\ adds = 0 /\ stops = 0 /\ faults = 0

LeaderLoop(p) == TryAcquire(p) \/ TryRenew(p) \/ Answered(p)
TickOnce(p) == CheckLeader(p) \/ CheckPaused(p) \/ RunScript(p)
Ending(p) == StopLeader(p) \/ Release(p)

Next ==
    \/ \E p \in Pods : \/ LeaderLoop(p) \/ TickOnce(p) \/ Ending(p)
                       \/ Start(p) \/ Stop(p) \/ Crash(p)
    \/ \E l \in Leads : Schedule(l) \/ Cancel(l) \/ PopReady(l)
    \/ Lapse \/ Pause \/ Unpause \/ Clock

Spec == Init /\ [][Next]_vars

\* Both loops keep turning, dead pods are started again, TTLs run out, clocks
\* advance and a pause ends.  Nobody has to pop a lead.
FairSpec ==
    /\ Spec /\ WF_vars(Lapse) /\ WF_vars(Unpause) /\ WF_vars(Clock)
    /\ \A p \in Pods : WF_vars(LeaderLoop(p)) /\ WF_vars(TickOnce(p))
                       /\ WF_vars(Ending(p)) /\ WF_vars(Start(p))
=============================================================================
