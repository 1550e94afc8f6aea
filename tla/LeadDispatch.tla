---------------------------- MODULE LeadDispatch ----------------------------
(***************************************************************************)
(* The outbound dispatcher of Breeze Buddy: how one lead row of            *)
(* lead_call_tracker travels from the API through the Redis schedule and   *)
(* ready ZSETs to a dispatch worker, and what happens to it when a worker, *)
(* the database or Redis lets go half way.                                 *)
(*                                                                         *)
(* Abstractions.  A ZSET score is kept as membership plus order: an entry  *)
(* of the schedule may be promoted at any time after it is added (its      *)
(* score is then reached), and ready is the sequence of its members by     *)
(* score.  next_attempt_at is kept as `due` (not later than now plus the   *)
(* schedule jitter).  All gates between the lock and the dial are one step *)
(* with every outcome they can have; the capacity they take is the subject *)
(* of CallCapacity.                                                        *)
(***************************************************************************)
EXTENDS Naturals, Sequences, FiniteSets

CONSTANTS
    Leads,          \* the ids of the lead rows
    Workers,        \* the uuids of the dispatch workers of all pods
    NoLead,         \* the job of a worker that has none
    MaxCrashes,     \* bound: workers that die without running their finally
    MaxFaults,      \* bound: failed Redis or database calls, paused resellers,
                    \*   cancelled dispatches, lapsed heartbeats
    MaxTakeovers    \* bound: locks taken from under a worker that still runs,
                    \*   or given up by a worker that will unlock once more

ASSUME NoLeadAssumption == NoLead \notin Leads \cup Workers
ASSUME WorkersAssumption == IsFiniteSet(Workers)
ASSUME BoundsAssumption ==
    MaxCrashes \in Nat /\ MaxFaults \in Nat /\ MaxTakeovers \in Nat

VARIABLES
    status,      \* lead_call_tracker.status; "NEW" before the row exists
    isLocked,    \* lead_call_tracker.is_locked
    due,         \* next_attempt_at <= now + jitter
    callId,      \* lead_call_tracker.call_id is set
    schedule,    \* bb:schedule:leads
    ready,       \* bb:ready:leads:z, by score
    processing,  \* bb:processing:leads:{uuid}: entries of each lead
    heartbeat,   \* bb:worker:heartbeat:{uuid} exists
    pc, job,     \* where each worker is in _dispatch, and with which lead
    followUps,   \* Redis calls an API handler still owes after its UPDATE
    scan,        \* reconcile_backlog_to_zset: its next Redis call per lead
    reaping,     \* <<w, l>> the reaper saw BACKLOG and will re-add
    rings,       \* history: phone calls the provider placed for the row
    lost,        \* history: placed calls whose call_id will not be stored
    faults, takeovers

dbVars == <<status, isLocked, due, callId>>
queueVars == <<schedule, ready, processing, heartbeat>>
workerVars == <<pc, job>>
sideVars == <<followUps, scan, reaping>>
ghostVars == <<rings, lost>>
budgets == <<faults, takeovers>>
vars == <<dbVars, queueVars, workerVars, sideVars, ghostVars, budgets>>

Statuses == {"NEW", "BACKLOG", "PROCESSING", "FINISHED"}

\* Between the lock and its release; "mirror" is after the deferring UPDATE,
\* which has already unlocked the row.  "orphaned": a call was placed and the
\* worker was not told that the row has it.
Holding == {"notDue", "locked", "dialing", "answered", "orphaned",
            "deferring", "release"}
PCs == Holding \cup {"idle", "popped", "tracked", "loaded", "mirror",
                     "untrack", "dead"}

Scans == {"none", "schedule", "ready", "add"}

InReady(l) == \E i \in 1..Len(ready) : ready[i] = l
Holds(w, l) == pc[w] \in Holding /\ job[w] = l
Held(l) == \E w \in Workers : Holds(w, l)
Goto(w, where) == pc' = [pc EXCEPT ![w] = where]

Fault == faults < MaxFaults /\ faults' = faults + 1
NoFault == UNCHANGED faults

\* A best-effort ZADD onto the schedule: it may fail, and nobody retries it.
schedule_lead(l) ==
    \/ schedule' = schedule \cup {l} /\ NoFault
    \/ Fault /\ UNCHANGED schedule

\* RPUSH and LREM 1 on a worker's list.
Push(w, l) == processing' = [processing EXCEPT ![w][l] = @ + 1]
Remove(w, l) ==
    processing' = [processing EXCEPT ![w][l] = IF @ > 0 THEN @ - 1 ELSE 0]

-----------------------------------------------------------------------------
(* The WHERE clauses of the conditional UPDATEs and of the scan.           *)

\* Mutants of the next definitions: the guard a careless edit would drop.
acquirable_NoCas(l) == status[l] = "BACKLOG"
acquirable_AnyStatus(l) == ~isLocked[l]
recordable_ById(l) == TRUE
staleLock_Processing(l) == isLocked[l] /\ status[l] = "PROCESSING"
unscheduled_AnyStatus(l) == status[l] # "NEW" /\ ~isLocked[l]
tooEarly_Ignored(l) == FALSE

\* acquire_lock_on_lead_by_id(expected_status=BACKLOG)
acquirable(l) == status[l] = "BACKLOG" /\ ~isLocked[l]

\* update_lead_call_details
recordable(l) == status[l] = "BACKLOG"

\* clean_stale_bb_locks; ten minutes without an UPDATE may always pass.
staleLock(l) == isLocked[l] /\ status[l] = "BACKLOG"

\* get_unscheduled_backlog_leads
unscheduled(l) == status[l] = "BACKLOG" /\ ~isLocked[l]

\* The worker's check of the row its lock returned.
tooEarly(l) == ~due[l]

-----------------------------------------------------------------------------
Init ==
    /\ status = [l \in Leads |-> "NEW"]
    /\ isLocked = [l \in Leads |-> FALSE]
    /\ due = [l \in Leads |-> FALSE]
    /\ callId = [l \in Leads |-> FALSE]
    /\ schedule = {} /\ ready = <<>>
    /\ processing = [w \in Workers |-> [l \in Leads |-> 0]]
    /\ heartbeat = [w \in Workers |-> TRUE]
    /\ pc = [w \in Workers |-> "idle"]
    /\ job = [w \in Workers |-> NoLead]
    /\ followUps = {}
    /\ scan = [l \in Leads |-> "none"]
    /\ reaping = {}
    /\ rings = [l \in Leads |-> 0]
    /\ lost = [l \in Leads |-> 0]
    /\ faults = 0 /\ takeovers = 0

-----------------------------------------------------------------------------
(* The API: push, abort, dispatch-now.  Each commits its UPDATE and then   *)
(* owes Redis one call, which a crash of the pod can swallow.              *)

\* POST /leads, and _retry_call, which inserts a new row for every attempt.
PushLead(l) ==
    /\ status[l] = "NEW"
    /\ status' = [status EXCEPT ![l] = "BACKLOG"]
    /\ \E d \in BOOLEAN : due' = [due EXCEPT ![l] = d]
    /\ followUps' = followUps \cup {<<"schedule", l>>}
    /\ UNCHANGED <<isLocked, callId, queueVars, workerVars, scan, reaping,
                   ghostVars, budgets>>

\* The UPDATE asks for BACKLOG and no outcome; it does not ask for the lock.
AbortLead(l) ==
    /\ status[l] = "BACKLOG"
    /\ status' = [status EXCEPT ![l] = "FINISHED"]
    /\ followUps' = followUps \cup {<<"cancel", l>>}
    /\ UNCHANGED <<isLocked, due, callId, queueVars, workerVars, scan,
                   reaping, ghostVars, budgets>>

DispatchNow(l) ==
    /\ status[l] = "BACKLOG" /\ ~isLocked[l]
    /\ due' = [due EXCEPT ![l] = TRUE]
    /\ followUps' = followUps \cup {<<"schedule", l>>}
    /\ UNCHANGED <<status, isLocked, callId, queueVars, workerVars, scan,
                   reaping, ghostVars, budgets>>

FollowUpSchedule(l) ==
    /\ <<"schedule", l>> \in followUps
    /\ followUps' = followUps \ {<<"schedule", l>>}
    /\ schedule_lead(l)
    /\ UNCHANGED <<dbVars, ready, processing, heartbeat, workerVars, scan,
                   reaping, ghostVars, takeovers>>

FollowUpCancel(l) ==
    /\ <<"cancel", l>> \in followUps
    /\ followUps' = followUps \ {<<"cancel", l>>}
    /\ \/ schedule' = schedule \ {l} /\ NoFault
       \/ Fault /\ UNCHANGED schedule
    /\ UNCHANGED <<dbVars, ready, processing, heartbeat, workerVars, scan,
                   reaping, ghostVars, takeovers>>

\* Time passes next_attempt_at.
BecomeDue(l) ==
    /\ status[l] = "BACKLOG" /\ ~due[l]
    /\ due' = [due EXCEPT ![l] = TRUE]
    /\ UNCHANGED <<status, isLocked, callId, queueVars, workerVars, sideVars,
                   ghostVars, budgets>>

-----------------------------------------------------------------------------
(* The promoter's Lua: ZREM from the schedule, ZADD NX behind the tail of  *)
(* ready.  A batch is a run of these steps.                                *)
Promote(l) ==
    /\ l \in schedule
    /\ schedule' = schedule \ {l}
    /\ ready' = IF InReady(l) THEN ready ELSE Append(ready, l)
    /\ UNCHANGED <<dbVars, processing, heartbeat, workerVars, sideVars,
                   ghostVars, budgets>>

-----------------------------------------------------------------------------
(* A worker's iteration: pop, track, dispatch, untrack.                    *)

\* BZPOPMIN, the kill switch being on.
PopReady(w) ==
    /\ pc[w] = "idle" /\ ready # <<>>
    /\ job' = [job EXCEPT ![w] = Head(ready)]
    /\ ready' = Tail(ready)
    /\ Goto(w, "popped")
    /\ UNCHANGED <<dbVars, schedule, processing, heartbeat, sideVars,
                   ghostVars, budgets>>

TrackProcessing(w) ==
    /\ pc[w] = "popped"
    /\ \/ NoFault
          /\ Push(w, job[w])
       \/ Fault /\ UNCHANGED processing
    /\ Goto(w, "tracked")
    /\ UNCHANGED <<dbVars, schedule, ready, heartbeat, job, sideVars,
                   ghostVars, takeovers>>

\* The unlocked read: a row that left BACKLOG is dropped, a paused reseller's
\* row is put back for 30 seconds.
LoadLead(w) ==
    /\ pc[w] = "tracked"
    /\ \/ status[job[w]] # "BACKLOG" /\ Goto(w, "untrack")
          /\ UNCHANGED <<schedule, faults>>
       \/ status[job[w]] = "BACKLOG" /\ Goto(w, "loaded")
          /\ UNCHANGED <<schedule, faults>>
       \/ status[job[w]] = "BACKLOG" /\ Goto(w, "untrack") /\ Fault
          /\ schedule' \in {schedule, schedule \cup {job[w]}}
    /\ UNCHANGED <<dbVars, ready, processing, heartbeat, job, sideVars,
                   ghostVars, takeovers>>

\* The row lock, then the due check on the row it returned.  A lost reply may
\* leave the row locked by nobody.
LockLead(w) ==
    /\ pc[w] = "loaded"
    /\ LET l == job[w]
           lock == isLocked' = [isLocked EXCEPT ![l] = TRUE] IN
       \/ /\ acquirable(l) /\ lock /\ NoFault
          /\ Goto(w, IF tooEarly(l) THEN "notDue" ELSE "locked")
       \/ ~acquirable(l) /\ Goto(w, "untrack") /\ NoFault /\ UNCHANGED isLocked
       \/ /\ Goto(w, "untrack") /\ Fault
          /\ (acquirable(l) /\ lock) \/ UNCHANGED isLocked
    /\ UNCHANGED <<status, due, callId, queueVars, job, sideVars, ghostVars,
                   takeovers>>

\* A stale turn: put the lead back for its real time, then unlock.
DropStaleTurn(w) ==
    /\ pc[w] = "notDue"
    /\ schedule_lead(job[w])
    /\ Goto(w, "release")
    /\ UNCHANGED <<dbVars, ready, processing, heartbeat, job, sideVars,
                   ghostVars, takeovers>>

\* The gates end the lead (no config, blacklisted, pre-check abort, merchant
\* call limit, no number, account refused, invalid phone): the completion
\* UPDATE names the row by id alone.
GateFinish(w) ==
    /\ pc[w] = "locked"
    /\ \/ status' = [status EXCEPT ![job[w]] = "FINISHED"] /\ NoFault
       \/ Fault /\ UNCHANGED status
    /\ Goto(w, "release")
    /\ UNCHANGED <<isLocked, due, callId, queueVars, job, sideVars, ghostVars,
                   takeovers>>

\* The gates let the lead through, send it to a later time, or (calling
\* disabled, or an exception that reaches the finally) just unlock it.
GatePass(w) ==
    /\ pc[w] = "locked"
    /\ \E next \in {"dialing", "deferring", "release"} : Goto(w, next)
    /\ UNCHANGED <<dbVars, queueVars, job, sideVars, ghostVars, budgets>>

\* provider.make_call: the phone rings, or the provider placed nothing.
MakeCall(w) ==
    /\ pc[w] = "dialing"
    /\ \/ rings' = [rings EXCEPT ![job[w]] = @ + 1] /\ Goto(w, "answered")
       \/ UNCHANGED rings /\ Goto(w, "deferring")
    /\ UNCHANGED <<dbVars, queueVars, job, sideVars, lost, budgets>>

\* The call was placed, but the reply was lost or carried no sid.
LoseReply(w) ==
    /\ pc[w] = "answered" /\ Fault
    /\ lost' = [lost EXCEPT ![job[w]] = @ + 1]
    /\ Goto(w, "deferring")
    /\ UNCHANGED <<dbVars, queueVars, job, sideVars, rings, takeovers>>

\* update_lead_call_details: PROCESSING and call_id if the row is BACKLOG.
\* The accessor answers None alike for a lost CAS, a failed UPDATE and a reply
\* lost after the commit.
RecordCall(w) ==
    /\ pc[w] = "answered"
    /\ LET l == job[w] IN
       \/ /\ recordable(l)
          /\ status' = [status EXCEPT ![l] = "PROCESSING"]
          /\ callId' = [callId EXCEPT ![l] = TRUE]
          /\ UNCHANGED lost
          /\ (Goto(w, "untrack") /\ NoFault) \/ (Goto(w, "orphaned") /\ Fault)
       \/ /\ (~recordable(l) /\ NoFault) \/ Fault
          /\ lost' = [lost EXCEPT ![l] = @ + 1]
          /\ Goto(w, "orphaned") /\ UNCHANGED <<status, callId>>
    /\ UNCHANGED <<isLocked, due, queueVars, job, sideVars, rings, takeovers>>

\* The "CAS lost" exit: the resources go back and the row is unlocked.
GiveUpOrphan(w) ==
    /\ pc[w] = "orphaned" /\ Goto(w, "release")
    /\ UNCHANGED <<dbVars, queueVars, job, sideVars, ghostVars, budgets>>

\* _defer_and_release: one UPDATE by id moves next_attempt_at and unlocks;
\* when it fails the row is only unlocked.
DeferLead_Reopens(w) ==
    /\ pc[w] = "deferring"
    /\ due' = [due EXCEPT ![job[w]] = FALSE]
    /\ isLocked' = [isLocked EXCEPT ![job[w]] = FALSE]
    /\ status' = [status EXCEPT ![job[w]] = "BACKLOG"]
    /\ Goto(w, "mirror")
    /\ UNCHANGED <<callId, queueVars, job, sideVars, ghostVars, budgets>>

DeferLead(w) ==
    /\ pc[w] = "deferring"
    /\ \/ /\ due' = [due EXCEPT ![job[w]] = FALSE]
          /\ isLocked' = [isLocked EXCEPT ![job[w]] = FALSE]
          /\ Goto(w, "mirror") /\ NoFault
       \/ Goto(w, "release") /\ Fault /\ UNCHANGED <<due, isLocked>>
    /\ UNCHANGED <<status, callId, queueVars, job, sideVars, ghostVars,
                   takeovers>>

MirrorDefer(w) ==
    /\ pc[w] = "mirror"
    /\ schedule_lead(job[w])
    /\ Goto(w, "untrack")
    /\ UNCHANGED <<dbVars, ready, processing, heartbeat, job, sideVars,
                   ghostVars, takeovers>>

\* release_lock_on_lead_by_id: by id alone, whoever holds the lock now.
ReleaseLock(w) ==
    /\ pc[w] = "release"
    /\ \/ isLocked' = [isLocked EXCEPT ![job[w]] = FALSE] /\ NoFault
       \/ Fault /\ UNCHANGED isLocked
    /\ Goto(w, "untrack")
    /\ UNCHANGED <<status, due, callId, queueVars, job, sideVars, ghostVars,
                   takeovers>>

UntrackProcessing(w) ==
    /\ pc[w] = "untrack"
    /\ \/ NoFault /\ Remove(w, job[w])
       \/ Fault /\ UNCHANGED processing
    /\ job' = [job EXCEPT ![w] = NoLead]
    /\ Goto(w, "idle")
    /\ UNCHANGED <<dbVars, schedule, ready, heartbeat, sideVars, ghostVars,
                   takeovers>>

\* A dispatch cancelled by Worker.stop runs its finally blocks: it unlocks what
\* it locked and untracks.  The pod's replacement works on under the same name.
CancelDispatch(w) ==
    /\ pc[w] \in (Holding \ {"release"}) \cup {"tracked", "loaded"} /\ Fault
    /\ lost' = IF pc[w] = "answered"
               THEN [lost EXCEPT ![job[w]] = @ + 1] ELSE lost
    /\ Goto(w, IF pc[w] \in Holding THEN "release" ELSE "untrack")
    /\ UNCHANGED <<dbVars, queueVars, job, sideVars, rings, takeovers>>

\* The finally unlocks a row this worker no longer holds: it was cancelled
\* after the deferring or the unlocking UPDATE had committed, or the reply to
\* the deferring UPDATE was lost.
UnlockTwice(w) ==
    /\ takeovers < MaxTakeovers /\ takeovers' = takeovers + 1
    /\ \/ pc[w] = "mirror" /\ UNCHANGED <<due, isLocked>>
       \/ /\ pc[w] = "release" /\ UNCHANGED due
          /\ isLocked' = [isLocked EXCEPT ![job[w]] = FALSE]
       \/ /\ pc[w] = "deferring"
          /\ due' = [due EXCEPT ![job[w]] = FALSE]
          /\ isLocked' = [isLocked EXCEPT ![job[w]] = FALSE]
    /\ Goto(w, "release")
    /\ UNCHANGED <<status, callId, queueVars, job, sideVars, ghostVars, faults>>

\* The process dies: no finally runs.
CrashWorker(w) ==
    /\ pc[w] # "dead"
    /\ Cardinality({v \in Workers : pc[v] = "dead"}) < MaxCrashes
    /\ lost' = IF pc[w] = "answered"
               THEN [lost EXCEPT ![job[w]] = @ + 1] ELSE lost
    /\ Goto(w, "dead")
    /\ job' = [job EXCEPT ![w] = NoLead]
    /\ UNCHANGED <<dbVars, queueVars, sideVars, rings, budgets>>

\* The heartbeat key expires: the worker is dead, or Redis did not hear it.
ExpireHeartbeat(w) ==
    /\ heartbeat[w]
    /\ (pc[w] = "dead" /\ NoFault) \/ Fault
    /\ heartbeat' = [heartbeat EXCEPT ![w] = FALSE]
    /\ UNCHANGED <<dbVars, schedule, ready, processing, workerVars, sideVars,
                   ghostVars, takeovers>>

RefreshHeartbeat(w) ==
    /\ ~heartbeat[w] /\ pc[w] # "dead"
    /\ heartbeat' = [heartbeat EXCEPT ![w] = TRUE]
    /\ UNCHANGED <<dbVars, schedule, ready, processing, workerVars, sideVars,
                   ghostVars, budgets>>

-----------------------------------------------------------------------------
(* The call ends.  Which handler ends it, and what it releases, is the     *)
(* subject of CallCapacity.                                                *)

\* handle_call_completion and handle_unanswered_calls leave is_locked alone.
WebhookEndsCall(l) ==
    /\ status[l] = "PROCESSING"
    /\ status' = [status EXCEPT ![l] = "FINISHED"]
    /\ UNCHANGED <<isLocked, due, callId, queueVars, workerVars, sideVars,
                   ghostVars, budgets>>

\* reconcile_stuck_processing_leads and reconcile_completed_call take the lock
\* by force and unlock when done.
SweepEndsCall(l) ==
    /\ status[l] = "PROCESSING"
    /\ status' = [status EXCEPT ![l] = "FINISHED"]
    /\ isLocked' = [isLocked EXCEPT ![l] = FALSE]
    /\ UNCHANGED <<due, callId, queueVars, workerVars, sideVars, ghostVars,
                   budgets>>

-----------------------------------------------------------------------------
(* The reconcilers.  reconcile_backlog_to_zset: the rows, then for each of  *)
(* them a look at the schedule, a look at ready, and the ZADD.              *)

ScanBacklog(l) ==
    /\ scan[l] = "none" /\ unscheduled(l)
    /\ scan' = [scan EXCEPT ![l] = "schedule"]
    /\ UNCHANGED <<dbVars, queueVars, workerVars, followUps, reaping,
                   ghostVars, budgets>>

ScanSchedule(l) ==
    /\ scan[l] = "schedule"
    /\ scan' = [scan EXCEPT ![l] = IF l \in schedule THEN "none" ELSE "ready"]
    /\ UNCHANGED <<dbVars, queueVars, workerVars, followUps, reaping,
                   ghostVars, budgets>>

ScanReady(l) ==
    /\ scan[l] = "ready"
    /\ scan' = [scan EXCEPT ![l] = IF InReady(l) THEN "none" ELSE "add"]
    /\ UNCHANGED <<dbVars, queueVars, workerVars, followUps, reaping,
                   ghostVars, budgets>>

ScanAdd(l) ==
    /\ scan[l] = "add"
    /\ scan' = [scan EXCEPT ![l] = "none"]
    /\ schedule_lead(l)
    /\ UNCHANGED <<dbVars, ready, processing, heartbeat, workerVars,
                   followUps, reaping, ghostVars, takeovers>>

\* reap_stuck_processing_lists: an entry whose row left BACKLOG is removed,
\* one still BACKLOG is re-added first.  The heartbeat check is taken together
\* with the read of the row.
ReapEntry(w, l) ==
    /\ ~heartbeat[w] /\ processing[w][l] > 0 /\ <<w, l>> \notin reaping
    /\ IF status[l] = "BACKLOG"
       THEN reaping' = reaping \cup {<<w, l>>} /\ UNCHANGED processing
       ELSE Remove(w, l) /\ UNCHANGED reaping
    /\ UNCHANGED <<dbVars, schedule, ready, heartbeat, workerVars, followUps,
                   scan, ghostVars, budgets>>

ReapReschedule(w, l) ==
    /\ <<w, l>> \in reaping
    /\ reaping' = reaping \ {<<w, l>>}
    /\ schedule_lead(l)
    /\ Remove(w, l)
    /\ UNCHANGED <<dbVars, ready, heartbeat, workerVars, followUps, scan,
                   ghostVars, takeovers>>

\* Nobody holds the row, or a worker's dispatch outlasted the ten minutes.
CleanStaleLock(l) ==
    /\ staleLock(l)
    /\ isLocked' = [isLocked EXCEPT ![l] = FALSE]
    /\ \/ ~Held(l) /\ UNCHANGED takeovers
       \/ takeovers < MaxTakeovers /\ takeovers' = takeovers + 1
    /\ UNCHANGED <<status, due, callId, queueVars, workerVars, sideVars,
                   ghostVars, faults>>

-----------------------------------------------------------------------------
WorkerStep(w) ==
    \/ PopReady(w) \/ TrackProcessing(w) \/ LoadLead(w) \/ LockLead(w)
    \/ DropStaleTurn(w) \/ GateFinish(w) \/ GatePass(w) \/ MakeCall(w)
    \/ LoseReply(w) \/ RecordCall(w) \/ GiveUpOrphan(w) \/ DeferLead(w)
    \/ MirrorDefer(w) \/ ReleaseLock(w) \/ UntrackProcessing(w)

WorkerFailure(w) ==
    \/ CancelDispatch(w) \/ UnlockTwice(w) \/ CrashWorker(w)
    \/ ExpireHeartbeat(w) \/ RefreshHeartbeat(w)

LeadStep(l) ==
    \/ PushLead(l) \/ AbortLead(l) \/ DispatchNow(l) \/ BecomeDue(l)
    \/ FollowUpSchedule(l) \/ FollowUpCancel(l) \/ Promote(l)
    \/ WebhookEndsCall(l) \/ SweepEndsCall(l)
    \/ ScanBacklog(l) \/ ScanSchedule(l) \/ ScanReady(l) \/ ScanAdd(l)
    \/ CleanStaleLock(l)

ReapStep(w) == \E l \in Leads : ReapEntry(w, l) \/ ReapReschedule(w, l)

Next ==
    \/ \E w \in Workers : WorkerStep(w) \/ WorkerFailure(w) \/ ReapStep(w)
    \/ \E l \in Leads : LeadStep(l)

Spec == Init /\ [][Next]_vars

\* The promoter, the worker loops, the clock and the four scheduled
\* reconcilers keep running; API calls, calls ending and failures need not
\* happen.  An API handler's pod may die before its follow-up.
Fairness ==
    /\ \A w \in Workers : /\ WF_vars(WorkerStep(w))
                           /\ WF_vars(ReapStep(w))
                           /\ WF_vars(pc[w] = "dead" /\ ExpireHeartbeat(w))
    /\ \A l \in Leads : /\ WF_vars(Promote(l)) /\ WF_vars(BecomeDue(l))
                         /\ WF_vars(ScanBacklog(l) \/ ScanSchedule(l)
                                    \/ ScanReady(l) \/ ScanAdd(l))
                         /\ WF_vars(CleanStaleLock(l))

FairSpec == Spec /\ Fairness
=============================================================================
