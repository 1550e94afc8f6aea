----------------------- MODULE LeadDispatchRefinement -----------------------
(***************************************************************************)
(* LeadDispatch implements LeadLifecycle when no lock is taken from under  *)
(* a running worker, for any number of leads, workers, crashes and faults. *)
(***************************************************************************)
EXTENDS LeadDispatchProofs

TInv == IInv /\ takeovers = 0

LEMMA OwnerIs ==
    ASSUME TInv, NEW w \in Workers, NEW l \in Leads, Holds(w, l)
    PROVE  owner[l] = w
<1>1. \A v \in Workers : Holds(v, l) => v = w
  BY DEF TInv, IInv, ExclusiveDispatch
<1> QED
  BY <1>1 DEF owner, Held

LEMMA NoOwner ==
    ASSUME NEW l \in Leads, ~Held(l)
    PROVE  owner[l] = NoLead
  BY DEF owner

LEMMA OwnerOfHeld ==
    ASSUME TInv, NEW l \in Leads, Held(l)
    PROVE  owner[l] # NoLead
  BY OwnerIs, NoLeadAssumption DEF Held

\* The same two facts of the next state.
LEMMA NextOwnerIs ==
    ASSUME TInv', NEW w \in Workers, NEW l \in Leads, Holds(w, l)'
    PROVE  owner'[l] = w
<1>1. \A v \in Workers : Holds(v, l)' => v = w
  BY DEF TInv, IInv, ExclusiveDispatch
<1> QED
  BY <1>1 DEF owner, Held

LEMMA NextNoOwner ==
    ASSUME NEW l \in Leads, ~Held(l)'
    PROVE  owner'[l] = NoLead
  BY DEF owner

LEMMA OwnerKept ==
    ASSUME TInv, TInv', NEW l \in Leads,
           \A w \in Workers : Holds(w, l)' <=> Holds(w, l)
    PROVE  owner'[l] = owner[l]
<1>1. CASE Held(l)
  <2>1. PICK w \in Workers : Holds(w, l) /\ Holds(w, l)'
    BY <1>1 DEF Held
  <2> QED
    BY <2>1, OwnerIs, NextOwnerIs
<1>2. CASE ~Held(l)
  <2>1. ~Held(l)'
    BY <1>2 DEF Held
  <2> QED
    BY <1>2, <2>1, NoOwner, NextNoOwner
<1> QED
  BY <1>1, <1>2

\* A step that changes who holds l and no other row changes owner at l alone.
LEMMA OwnerSet ==
    ASSUME TInv, TInv', NEW l \in Leads,
           \A k \in Leads, w \in Workers :
               k # l => (Holds(w, k)' <=> Holds(w, k))
    PROVE  owner' = [owner EXCEPT ![l] = owner'[l]]
<1>1. \A k \in Leads : k # l => owner'[k] = owner[k]
  BY OwnerKept
<1>2. owner = [k \in Leads |-> owner[k]] /\ owner' = [k \in Leads |-> owner'[k]]
  BY DEF owner
<1> QED
  BY <1>1, <1>2

LEMMA OwnersKept ==
    ASSUME TInv, TInv',
           \A l \in Leads, w \in Workers : Holds(w, l)' <=> Holds(w, l)
    PROVE  owner' = owner
<1>1. \A l \in Leads : owner'[l] = owner[l]
  BY OwnerKept
<1>2. owner = [k \in Leads |-> owner[k]] /\ owner' = [k \in Leads |-> owner'[k]]
  BY DEF owner
<1> QED
  BY <1>1, <1>2

-----------------------------------------------------------------------------
(* Each kind of step of the dispatcher, and the step of the lifecycle.     *)

Abstract == [Lifecycle!Next]_(Lifecycle!vars)

LEMMA Stutter ==
    ASSUME TInv, TInv', status' = status,
           \A l \in Leads, w \in Workers : Holds(w, l)' <=> Holds(w, l)
    PROVE  Abstract
  BY OwnersKept DEF Abstract, Lifecycle!vars

\* The row moves and nobody takes or leaves it.
LEMMA MoveStatus ==
    ASSUME TInv, TInv', NEW l \in Leads, NEW s \in Statuses,
           status' = [status EXCEPT ![l] = s],
           \/ status[l] = "NEW" /\ s = "BACKLOG"
           \/ status[l] \in {"BACKLOG", "PROCESSING", "FINISHED"} /\ s = "FINISHED",
           \A k \in Leads, w \in Workers : Holds(w, k)' <=> Holds(w, k)
    PROVE  Abstract
<1>1. owner' = owner
  BY OwnersKept
<1>2. CASE status[l] = s
  <2>1. status' = status
    BY <1>2 DEF TInv, IInv, TypeOK
  <2> QED
    BY <1>1, <2>1 DEF Abstract, Lifecycle!vars
<1>3. CASE status[l] # s
  <2>1. Lifecycle!Arrive(l) \/ Lifecycle!Close(l) \/ Lifecycle!End(l)
    BY <1>1, <1>3
    DEF Lifecycle!Arrive, Lifecycle!Close, Lifecycle!End, Lifecycle!SetStatus
  <2> QED
    BY <2>1 DEF Abstract, Lifecycle!Next
<1> QED
  BY <1>2, <1>3

\* w, the holder of l, lets go.
LEMMA LetGoStep ==
    ASSUME TInv, TInv', NEW l \in Leads, NEW w \in Workers, Holds(w, l),
           status' = status, \A v \in Workers : ~Holds(v, l)',
           \A k \in Leads, v \in Workers : k # l => (Holds(v, k)' <=> Holds(v, k))
    PROVE  Abstract
<1>1. owner[l] # NoLead
  BY OwnerOfHeld DEF Held
<1>2. owner'[l] = NoLead
  BY NextNoOwner DEF Held
<1>3. owner' = [owner EXCEPT ![l] = NoLead]
  BY <1>2, OwnerSet
<1>4. Lifecycle!LetGo(l)
  BY <1>1, <1>3 DEF Lifecycle!LetGo, Lifecycle!SetOwner
<1> QED
  BY <1>4 DEF Abstract, Lifecycle!Next

\* w takes the row nobody holds.
LEMMA ClaimStep ==
    ASSUME TInv, TInv', NEW l \in Leads, NEW w \in Workers, ~Held(l),
           Holds(w, l)', status' = status, status[l] = "BACKLOG",
           \A k \in Leads, v \in Workers : k # l => (Holds(v, k)' <=> Holds(v, k))
    PROVE  Abstract
<1>1. owner[l] = NoLead /\ owner'[l] = w
  BY NoOwner, NextOwnerIs
<1>2. owner' = [owner EXCEPT ![l] = w]
  BY <1>1, OwnerSet
<1>3. Lifecycle!Claim(l, w)
  BY <1>1, <1>2 DEF Lifecycle!Claim, Lifecycle!SetOwner
<1> QED
  BY <1>3 DEF Abstract, Lifecycle!Next

\* w records the call of the row it holds, and knows of it or not.
LEMMA PlaceStep ==
    ASSUME TInv, TInv', NEW l \in Leads, NEW w \in Workers, Holds(w, l),
           status[l] = "BACKLOG", status' = [status EXCEPT ![l] = "PROCESSING"],
           Holds(w, l)' \/ \A v \in Workers : ~Holds(v, l)',
           \A k \in Leads, v \in Workers : k # l => (Holds(v, k)' <=> Holds(v, k))
    PROVE  Abstract
<1>1. owner[l] = w /\ owner[l] # NoLead
  BY OwnerIs, OwnerOfHeld DEF Held
<1>2. owner'[l] \in {w, NoLead}
  BY NextOwnerIs, NextNoOwner DEF Held
<1>3. owner' = [owner EXCEPT ![l] = NoLead] \/ owner' = owner
  <2>1. owner = [k \in Leads |-> owner[k]]
    BY DEF owner
  <2>2. owner' = [owner EXCEPT ![l] = owner'[l]]
    BY OwnerSet
  <2> QED
    BY <1>1, <1>2, <2>1, <2>2
<1>4. Lifecycle!Place(l)
  BY <1>1, <1>3 DEF Lifecycle!Place, Lifecycle!SetStatus, Lifecycle!SetOwner
<1> QED
  BY <1>4 DEF Abstract, Lifecycle!Next

-----------------------------------------------------------------------------
\* A step of w changes what w holds, if anything.
LEMMA Others ==
    ASSUME TypeOK, NEW w \in Workers, WorkerStep(w) \/ WorkerFailure(w)
    PROVE  /\ \A v \in Workers, k \in Leads :
                v # w => (Holds(v, k)' <=> Holds(v, k))
           /\ \A k \in Leads : k # job[w] => (Holds(w, k)' <=> Holds(w, k))
<1>0. pc \in [Workers -> PCs] /\ job \in [Workers -> Leads \cup {NoLead}]
  BY DEF TypeOK
<1>1. \A v \in Workers : v # w => pc'[v] = pc[v] /\ job'[v] = job[v]
  BY <1>0
  DEF WorkerStep, PopReady, TrackProcessing, LoadLead, LockLead, DropStaleTurn,
      GateFinish, GatePass, MakeCall, LoseReply, RecordCall, GiveUpOrphan,
      DeferLead, MirrorDefer, ReleaseLock, UntrackProcessing, WorkerFailure,
      CancelDispatch, UnlockTwice, CrashWorker, ExpireHeartbeat,
      RefreshHeartbeat, Goto, workerVars
<1>2. job'[w] = job[w] \/ pc'[w] \in {"idle", "dead", "popped"}
  BY <1>0
  DEF WorkerStep, PopReady, TrackProcessing, LoadLead, LockLead, DropStaleTurn,
      GateFinish, GatePass, MakeCall, LoseReply, RecordCall, GiveUpOrphan,
      DeferLead, MirrorDefer, ReleaseLock, UntrackProcessing, WorkerFailure,
      CancelDispatch, UnlockTwice, CrashWorker, ExpireHeartbeat,
      RefreshHeartbeat, Goto, workerVars
<1> QED
  BY <1>1, <1>2 DEF Holds, Holding

LEMMA WorkerStepRefines ==
    ASSUME TInv, TInv', NEW w \in Workers, WorkerStep(w)
    PROVE  Abstract
<1> USE DEF dbVars, workerVars
<1>0. /\ TypeOK /\ pc \in [Workers -> PCs] /\ takeovers = 0
      /\ job \in [Workers -> Leads \cup {NoLead}]
  BY DEF TInv, IInv, TypeOK
<1>a. pc[w] \notin {"idle", "dead"} => job[w] \in Leads
  BY <1>0, BusyHasJob, TypeParts
<1>b. /\ \A v \in Workers, k \in Leads :
           v # w => (Holds(v, k)' <=> Holds(v, k))
      /\ \A k \in Leads : k # job[w] => (Holds(w, k)' <=> Holds(w, k))
  BY <1>0, Others
<1>1. ASSUME NEW l \in Leads, job[w] = l, LockLead(w) PROVE Abstract
  <2>1. CASE pc'[w] = "untrack"
    BY <1>0, <1>b, <1>1, <2>1, Stutter DEF LockLead, Holds, Holding
  <2>2. CASE pc'[w] # "untrack"
    <3>1. acquirable(l) /\ status' = status /\ Holds(w, l)'
      BY <1>0, <1>1, <2>2 DEF LockLead, Goto, Holds, Holding
    <3>2. ~Held(l)
      BY <3>1 DEF acquirable, Held, TInv, IInv, LockCovers
    <3> QED
      BY <1>b, <1>1, <3>1, <3>2, ClaimStep DEF acquirable
  <2> QED
    BY <2>1, <2>2
<1>2. ASSUME NEW l \in Leads, job[w] = l, GateFinish(w) PROVE Abstract
  <2>1. \A k \in Leads : Holds(w, k)' <=> Holds(w, k)
    BY <1>0, <1>2 DEF GateFinish, Goto, Holds, Holding
  <2>2. CASE status' = status
    BY <1>b, <2>1, <2>2, Stutter
  <2>3. CASE status' = [status EXCEPT ![l] = "FINISHED"]
    <3>1. status[l] \in Statuses
      BY DEF TInv, IInv, TypeOK
    <3>2. status[l] # "NEW"
      BY <1>2 DEF TInv, IInv, NewIsUnknown
    <3> QED
      BY <1>b, <2>1, <2>3, <3>1, <3>2, MoveStatus DEF Statuses
  <2> QED
    BY <1>2, <2>2, <2>3 DEF GateFinish
<1>3. ASSUME NEW l \in Leads, job[w] = l, RecordCall(w) PROVE Abstract
  <2>1. /\ Holds(w, l) /\ pc'[w] \in {"orphaned", "untrack"}
        /\ pc'[w] = "orphaned" => Holds(w, l)'
        /\ pc'[w] = "untrack" => ~Holds(w, l)'
    BY <1>0, <1>3 DEF RecordCall, Goto, Holds, Holding
  <2>2. CASE UNCHANGED status
    <3>1. CASE pc'[w] = "orphaned"
      BY <1>b, <1>3, <2>1, <2>2, <3>1, Stutter
    <3>2. CASE pc'[w] = "untrack"
      <4>1. FALSE
        BY <1>0, <1>3, <2>2, <3>2
        DEF RecordCall, recordable, Goto, TInv, IInv, TypeOK
      <4> QED
        BY <4>1
    <3> QED
      BY <2>1, <3>1, <3>2
  <2>3. CASE recordable(l) /\ status' = [status EXCEPT ![l] = "PROCESSING"]
    <3>1. \A v \in Workers : v # w => ~Holds(v, l)'
      BY <1>0, <1>b, <2>1 DEF TInv, IInv, ExclusiveDispatch
    <3>2. Holds(w, l)' \/ \A v \in Workers : ~Holds(v, l)'
      BY <2>1, <3>1
    <3>3. \A k \in Leads, v \in Workers :
             k # l => (Holds(v, k)' <=> Holds(v, k))
      BY <1>b, <1>3
    <3> QED
      BY <2>1, <2>3, <3>2, <3>3, PlaceStep DEF recordable
  <2> QED
    BY <1>3, <2>2, <2>3 DEF RecordCall
<1>4. ASSUME NEW l \in Leads, job[w] = l, DeferLead(w) \/ ReleaseLock(w)
      PROVE  Abstract
  <2>1. Holds(w, l) /\ status' = status
    BY <1>0, <1>4 DEF DeferLead, ReleaseLock, Holds, Holding
  <2>2. CASE Holds(w, l)'
    BY <1>b, <1>4, <2>1, <2>2, Stutter
  <2>3. CASE ~Holds(w, l)'
    <3>1. \A v \in Workers : ~Holds(v, l)'
      BY <1>0, <1>b, <2>1, <2>3 DEF TInv, IInv, ExclusiveDispatch
    <3> QED
      BY <1>b, <1>4, <2>1, <3>1, LetGoStep
  <2> QED
    BY <2>2, <2>3
<1>5. CASE /\ UNCHANGED status
           /\ \A l \in Leads : Holds(w, l)' <=> Holds(w, l)
  BY <1>b, <1>5, Stutter
<1>6. CASE \/ PopReady(w) \/ TrackProcessing(w) \/ LoadLead(w)
           \/ MirrorDefer(w) \/ UntrackProcessing(w)
  BY <1>0, <1>5, <1>6
  DEF PopReady, TrackProcessing, LoadLead, MirrorDefer, UntrackProcessing,
      Goto, Holds, Holding
<1>7. CASE \/ DropStaleTurn(w) \/ GatePass(w) \/ MakeCall(w) \/ LoseReply(w)
           \/ GiveUpOrphan(w)
  BY <1>0, <1>5, <1>7
  DEF DropStaleTurn, GatePass, MakeCall, LoseReply, GiveUpOrphan, Goto, Holds,
      Holding
<1>8. \/ LockLead(w) \/ GateFinish(w) \/ RecordCall(w) \/ DeferLead(w)
      \/ ReleaseLock(w)
      => job[w] \in Leads
  BY <1>a DEF LockLead, GateFinish, RecordCall, DeferLead, ReleaseLock
<1> QED
  BY <1>1, <1>2, <1>3, <1>4, <1>6, <1>7, <1>8 DEF WorkerStep

LEMMA WorkerFailureRefines ==
    ASSUME TInv, TInv', NEW w \in Workers, WorkerFailure(w)
    PROVE  Abstract
<1> USE DEF dbVars, workerVars
<1>0. /\ TypeOK /\ pc \in [Workers -> PCs] /\ takeovers = 0 /\ takeovers' = 0
      /\ job \in [Workers -> Leads \cup {NoLead}]
  BY DEF TInv, IInv, TypeOK
<1>b. /\ \A v \in Workers, k \in Leads :
           v # w => (Holds(v, k)' <=> Holds(v, k))
      /\ \A k \in Leads : k # job[w] => (Holds(w, k)' <=> Holds(w, k))
  BY <1>0, Others
<1>1. CASE CrashWorker(w)
  <2>1. status' = status /\ \A k \in Leads : ~Holds(w, k)'
    BY <1>0, <1>1 DEF CrashWorker, Goto, Holds, Holding
  <2>2. CASE \E l \in Leads : Holds(w, l)
    <3>1. PICK l \in Leads : Holds(w, l)
      BY <2>2
    <3>2. \A v \in Workers : ~Holds(v, l)'
      BY <1>b, <2>1, <3>1 DEF TInv, IInv, ExclusiveDispatch
    <3> QED
      BY <1>b, <2>1, <3>1, <3>2, LetGoStep DEF Holds
  <2>3. CASE \A l \in Leads : ~Holds(w, l)
    BY <1>b, <2>1, <2>3, Stutter
  <2> QED
    BY <2>2, <2>3
<1>2. CASE CancelDispatch(w) \/ ExpireHeartbeat(w) \/ RefreshHeartbeat(w)
  <2>1. status' = status /\ \A k \in Leads : Holds(w, k)' <=> Holds(w, k)
    BY <1>0, <1>2
    DEF CancelDispatch, ExpireHeartbeat, RefreshHeartbeat, Goto, Holds, Holding
  <2> QED
    BY <1>b, <2>1, Stutter
<1>3. ~UnlockTwice(w)
  BY <1>0 DEF UnlockTwice
<1> QED
  BY <1>1, <1>2, <1>3 DEF WorkerFailure

LEMMA LeadStepRefines ==
    ASSUME TInv, TInv', NEW l \in Leads, LeadStep(l)
    PROVE  Abstract
<1> USE DEF dbVars
<1>1. \A k \in Leads, w \in Workers : Holds(w, k)' <=> Holds(w, k)
  BY DEF workerVars, Holds, LeadStep, PushLead, AbortLead, DispatchNow,
       BecomeDue, FollowUpSchedule, FollowUpCancel, Promote, WebhookEndsCall,
       SweepEndsCall, ScanBacklog, ScanSchedule, ScanReady, ScanAdd,
       CleanStaleLock
<1>2. CASE \/ PushLead(l) \/ AbortLead(l) \/ WebhookEndsCall(l)
           \/ SweepEndsCall(l)
  BY <1>1, <1>2, MoveStatus
  DEF PushLead, AbortLead, WebhookEndsCall, SweepEndsCall, Statuses
<1>3. CASE status' = status
  BY <1>1, <1>3, Stutter
<1> QED
  BY <1>2, <1>3
  DEF LeadStep, DispatchNow, BecomeDue, FollowUpSchedule, FollowUpCancel,
      Promote, ScanBacklog, ScanSchedule, ScanReady, ScanAdd, CleanStaleLock

LEMMA StepRefines ==
    ASSUME TInv, TInv', [Next]_vars
    PROVE  Abstract
<1>1. CASE Next
  <2>1. ASSUME NEW w \in Workers, ReapStep(w) PROVE Abstract
    <3>1. /\ status' = status
          /\ \A l \in Leads, v \in Workers : Holds(v, l)' <=> Holds(v, l)
      BY <2>1 DEF ReapStep, ReapEntry, ReapReschedule, Holds, dbVars, workerVars
    <3> QED
      BY <3>1, Stutter
  <2> QED
    BY <1>1, <2>1, WorkerStepRefines, WorkerFailureRefines, LeadStepRefines
    DEF Next
<1>2. CASE UNCHANGED vars
  BY <1>2, Stutter DEF vars, dbVars, workerVars, Holds
<1> QED
  BY <1>1, <1>2

\* The dispatcher keeps the promise of LeadLifecycle: every behaviour without
\* a takeover maps, by "who is between lock and release", to one of its own.
THEOREM Refinement ==
    ASSUME MaxTakeovers = 0
    PROVE  Spec => ImplementsLifecycle
<1>1. Init => TInv
  BY InvInit DEF TInv, Init
<1>2. TInv /\ [Next]_vars => TInv'
  <2> SUFFICES ASSUME TInv, [Next]_vars PROVE takeovers' = 0
    BY InvStep DEF TInv
  <2>1. ASSUME NEW w \in Workers, WorkerStep(w) PROVE takeovers' = 0
    BY <2>1 DEF TInv, budgets, WorkerStep, PopReady, TrackProcessing, LoadLead,
         LockLead, DropStaleTurn, GateFinish, GatePass, MakeCall, LoseReply,
         RecordCall, GiveUpOrphan, DeferLead, MirrorDefer, ReleaseLock,
         UntrackProcessing
  <2>2. ASSUME NEW w \in Workers, WorkerFailure(w) \/ ReapStep(w)
        PROVE  takeovers' = 0
    <3>1. ~UnlockTwice(w)
      BY DEF TInv, UnlockTwice
    <3> QED
      BY <2>2, <3>1 DEF TInv, budgets, WorkerFailure, CancelDispatch,
         CrashWorker, ExpireHeartbeat, RefreshHeartbeat, ReapStep, ReapEntry,
         ReapReschedule
  <2>3. ASSUME NEW l \in Leads, LeadStep(l) PROVE takeovers' = 0
    BY <2>3 DEF TInv, budgets, LeadStep, PushLead, AbortLead, DispatchNow,
         BecomeDue, FollowUpSchedule, FollowUpCancel, Promote, WebhookEndsCall,
         SweepEndsCall, ScanBacklog, ScanSchedule, ScanReady, ScanAdd,
         CleanStaleLock
  <2>4. CASE UNCHANGED vars
    BY <2>4 DEF TInv, vars, budgets
  <2> QED
    BY <2>1, <2>2, <2>3, <2>4 DEF Next
<1>3. Init => Lifecycle!Init
  <2> SUFFICES ASSUME Init PROVE Lifecycle!Init
    OBVIOUS
  <2>1. \A l \in Leads : ~Held(l)
    BY DEF Init, Held, Holds, Holding
  <2> QED
    BY <2>1 DEF Init, Lifecycle!Init, owner
<1>4. TInv /\ TInv' /\ [Next]_vars => [Lifecycle!Next]_(Lifecycle!vars)
  BY StepRefines DEF Abstract
<1> QED
  BY <1>1, <1>2, <1>3, <1>4, PTL DEF Spec, ImplementsLifecycle, Lifecycle!Spec
=============================================================================
