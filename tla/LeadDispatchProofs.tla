------------------------- MODULE LeadDispatchProofs -------------------------
(***************************************************************************)
(* What TLAPS proves of LeadDispatch, for any number of leads, workers,    *)
(* crashes, faults and takeovers.                                          *)
(***************************************************************************)
EXTENDS LeadDispatchProps, FiniteSetTheorems, TLAPS

-----------------------------------------------------------------------------
(* The shape of the variables, in the parts that the actions disturb.      *)

RowTypes ==
    /\ status \in [Leads -> Statuses] /\ isLocked \in [Leads -> BOOLEAN]
    /\ due \in [Leads -> BOOLEAN] /\ callId \in [Leads -> BOOLEAN]

QueueTypes == schedule \in SUBSET Leads /\ ready \in Seq(Leads)

ListTypes ==
    /\ processing \in [Workers -> [Leads -> Nat]]
    /\ heartbeat \in [Workers -> BOOLEAN]

WorkerTypes ==
    /\ pc \in [Workers -> PCs] /\ job \in [Workers -> Leads \cup {NoLead}]
    /\ \A w \in Workers : job[w] = NoLead <=> pc[w] \in {"idle", "dead"}

SideTypes ==
    /\ followUps \in SUBSET ({"schedule", "cancel"} \X Leads)
    /\ scan \in [Leads -> Scans] /\ reaping \in SUBSET (Workers \X Leads)

CountTypes ==
    /\ rings \in [Leads -> Nat] /\ lost \in [Leads -> Nat]
    /\ faults \in Nat /\ takeovers \in Nat

LEMMA TypeParts ==
    TypeOK <=> /\ RowTypes /\ QueueTypes /\ ListTypes
               /\ WorkerTypes /\ SideTypes /\ CountTypes
  BY DEF TypeOK, RowTypes, QueueTypes, ListTypes, WorkerTypes, SideTypes,
         CountTypes

\* A worker that is neither idle nor dead has a lead.
LEMMA BusyHasJob ==
    ASSUME WorkerTypes, NEW w \in Workers, pc[w] \notin {"idle", "dead"}
    PROVE  job[w] \in Leads
  BY DEF WorkerTypes

LEMMA TypeInit == Init => TypeOK
  BY NoLeadAssumption DEF Init, TypeOK, Statuses, PCs, Holding, Scans

\* The actions that move one worker and keep its lead.
LEMMA MoveTypes ==
    ASSUME WorkerTypes, NEW w \in Workers, pc[w] \notin {"idle", "dead"},
           NEW where \in PCs \ {"idle", "dead"}, Goto(w, where), job' = job
    PROVE  WorkerTypes'
  BY DEF WorkerTypes, Goto

LEMMA RowTypesStep ==
    ASSUME TypeOK, Next
    PROVE  RowTypes'
<1> USE DEF RowTypes, dbVars, Statuses
<1>0. RowTypes
  BY TypeParts
<1>1. ASSUME NEW w \in Workers, WorkerStep(w) PROVE RowTypes'
  <2>1. CASE LockLead(w)
    BY <1>0, <2>1 DEF LockLead
  <2>2. CASE GateFinish(w) \/ RecordCall(w)
    BY <1>0, <2>2 DEF GateFinish, RecordCall
  <2>3. CASE DeferLead(w) \/ ReleaseLock(w)
    BY <1>0, <2>3 DEF DeferLead, ReleaseLock
  <2>4. CASE UNCHANGED dbVars
    BY <1>0, <2>4
  <2> QED
    BY <1>1, <2>1, <2>2, <2>3, <2>4
    DEF WorkerStep, PopReady, TrackProcessing, LoadLead, DropStaleTurn,
        GatePass, MakeCall, LoseReply, GiveUpOrphan, MirrorDefer,
        UntrackProcessing
<1>2. ASSUME NEW w \in Workers, WorkerFailure(w) \/ ReapStep(w) PROVE RowTypes'
  BY <1>0, <1>2 DEF WorkerFailure, ReapStep, CancelDispatch, UnlockTwice,
       CrashWorker, ExpireHeartbeat, RefreshHeartbeat, ReapEntry,
       ReapReschedule
<1>3. ASSUME NEW l \in Leads, LeadStep(l) PROVE RowTypes'
  BY <1>0, <1>3 DEF LeadStep, PushLead, AbortLead, DispatchNow, BecomeDue,
       FollowUpSchedule, FollowUpCancel, Promote, WebhookEndsCall,
       SweepEndsCall, ScanBacklog, ScanSchedule, ScanReady, ScanAdd,
       CleanStaleLock
<1> QED
  BY <1>1, <1>2, <1>3 DEF Next

LEMMA QueueTypesStep ==
    ASSUME TypeOK, Next
    PROVE  QueueTypes'
<1> USE DEF QueueTypes, queueVars
<1>0. QueueTypes /\ WorkerTypes
  BY TypeParts
<1>1. ASSUME NEW w \in Workers, WorkerStep(w) PROVE QueueTypes'
  <2>1. CASE PopReady(w)
    BY <1>0, <2>1 DEF PopReady
  <2>2. CASE LoadLead(w) \/ DropStaleTurn(w) \/ MirrorDefer(w)
    <3>1. job[w] \in Leads
      BY <1>0, <2>2, BusyHasJob DEF LoadLead, DropStaleTurn, MirrorDefer
    <3> QED
      BY <1>0, <2>2, <3>1 DEF LoadLead, DropStaleTurn, MirrorDefer,
         schedule_lead
  <2>3. CASE UNCHANGED <<schedule, ready>>
    BY <1>0, <2>3
  <2> QED
    BY <1>1, <2>1, <2>2, <2>3
    DEF WorkerStep, TrackProcessing, LockLead, GateFinish, GatePass, MakeCall,
        LoseReply, RecordCall, GiveUpOrphan, DeferLead, ReleaseLock,
        UntrackProcessing
<1>2. ASSUME NEW w \in Workers, WorkerFailure(w) \/ ReapStep(w)
      PROVE QueueTypes'
  BY <1>0, <1>2 DEF WorkerFailure, ReapStep, CancelDispatch, UnlockTwice,
       CrashWorker, ExpireHeartbeat, RefreshHeartbeat, ReapEntry,
       ReapReschedule, schedule_lead
<1>3. ASSUME NEW l \in Leads, LeadStep(l) PROVE QueueTypes'
  <2>1. CASE DispatchNow(l) \/ FollowUpSchedule(l) \/ FollowUpCancel(l)
    BY <1>0, <2>1 DEF DispatchNow, FollowUpSchedule, FollowUpCancel, schedule_lead
  <2>2. CASE Promote(l)
    BY <1>0, <2>2 DEF Promote
  <2>3. CASE ScanAdd(l)
    BY <1>0, <2>3 DEF ScanAdd, schedule_lead
  <2>4. CASE UNCHANGED <<schedule, ready>>
    BY <1>0, <2>4
  <2> QED
    BY <1>3, <2>1, <2>2, <2>3, <2>4
    DEF LeadStep, PushLead, AbortLead, BecomeDue, WebhookEndsCall,
        SweepEndsCall, ScanBacklog, ScanSchedule, ScanReady, CleanStaleLock
<1> QED
  BY <1>1, <1>2, <1>3 DEF Next

LEMMA ListTypesStep ==
    ASSUME TypeOK, Next
    PROVE  ListTypes'
<1> USE DEF ListTypes, queueVars
<1>0. ListTypes /\ WorkerTypes
  BY TypeParts
<1>a. ASSUME NEW w \in Workers, NEW l \in Leads, Push(w, l) \/ Remove(w, l)
      PROVE  processing' \in [Workers -> [Leads -> Nat]]
  BY <1>0, <1>a DEF Push, Remove
<1>1. ASSUME NEW w \in Workers, WorkerStep(w) PROVE ListTypes'
  <2>1. CASE TrackProcessing(w) \/ UntrackProcessing(w)
    <3>1. job[w] \in Leads /\ UNCHANGED heartbeat
      BY <1>0, <2>1, BusyHasJob DEF TrackProcessing, UntrackProcessing
    <3>2. processing' \in [Workers -> [Leads -> Nat]]
      <4>1. CASE UNCHANGED processing
        BY <1>0, <4>1
      <4> QED
        BY <2>1, <3>1, <4>1, <1>a DEF TrackProcessing, UntrackProcessing
    <3> QED
      BY <1>0, <3>1, <3>2
  <2>2. CASE UNCHANGED <<processing, heartbeat>>
    BY <1>0, <2>2
  <2> QED
    BY <1>1, <2>1, <2>2
    DEF WorkerStep, PopReady, LoadLead, LockLead, DropStaleTurn, GateFinish,
        GatePass, MakeCall, LoseReply, RecordCall, GiveUpOrphan, DeferLead,
        MirrorDefer, ReleaseLock
<1>2. ASSUME NEW w \in Workers, WorkerFailure(w) PROVE ListTypes'
  BY <1>0, <1>2 DEF WorkerFailure, CancelDispatch, UnlockTwice, CrashWorker,
       ExpireHeartbeat, RefreshHeartbeat
<1>3. ASSUME NEW w \in Workers, ReapStep(w) PROVE ListTypes'
  <2>1. PICK l \in Leads : ReapEntry(w, l) \/ ReapReschedule(w, l)
    BY <1>3 DEF ReapStep
  <2>2. UNCHANGED heartbeat /\ (Remove(w, l) \/ UNCHANGED processing)
    BY <2>1 DEF ReapEntry, ReapReschedule
  <2> QED
    BY <1>0, <2>2, <1>a
<1>4. ASSUME NEW l \in Leads, LeadStep(l) PROVE ListTypes'
  BY <1>0, <1>4 DEF LeadStep, PushLead, AbortLead, DispatchNow, BecomeDue,
       FollowUpSchedule, FollowUpCancel, Promote, WebhookEndsCall,
       SweepEndsCall, ScanBacklog, ScanSchedule, ScanReady, ScanAdd,
       CleanStaleLock
<1> QED
  BY <1>1, <1>2, <1>3, <1>4 DEF Next

LEMMA WorkerTypesStep ==
    ASSUME TypeOK, Next
    PROVE  WorkerTypes'
<1>0. WorkerTypes /\ QueueTypes
  BY TypeParts
<1>1. ASSUME NEW w \in Workers, WorkerStep(w) PROVE WorkerTypes'
  <2>1. CASE PopReady(w)
    <3>1. Head(ready) \in Leads
      BY <1>0, <2>1 DEF PopReady, QueueTypes
    <3> QED
      BY <1>0, <2>1, <3>1, NoLeadAssumption
      DEF PopReady, WorkerTypes, Goto, PCs
  <2>2. CASE UntrackProcessing(w)
    BY <1>0, <2>2 DEF UntrackProcessing, WorkerTypes, Goto, PCs
  <2>3. CASE /\ ~PopReady(w) /\ ~UntrackProcessing(w)
    <3>1. /\ pc[w] \notin {"idle", "dead"} /\ job' = job
          /\ \E where \in PCs \ {"idle", "dead"} : Goto(w, where)
      BY <1>1, <2>3
      DEF WorkerStep, TrackProcessing, LoadLead, LockLead, DropStaleTurn,
          GateFinish, GatePass, MakeCall, LoseReply, RecordCall, GiveUpOrphan,
          DeferLead, MirrorDefer, ReleaseLock, PCs, Holding
    <3> QED
      BY <1>0, <3>1, MoveTypes
  <2> QED
    BY <2>1, <2>2, <2>3
<1>2. ASSUME NEW w \in Workers, WorkerFailure(w) PROVE WorkerTypes'
  <2>1. CASE CrashWorker(w)
    BY <1>0, <2>1 DEF CrashWorker, WorkerTypes, Goto, PCs
  <2>2. CASE CancelDispatch(w) \/ UnlockTwice(w)
    <3>1. /\ pc[w] \notin {"idle", "dead"} /\ job' = job
          /\ \E where \in PCs \ {"idle", "dead"} : Goto(w, where)
      BY <2>2 DEF CancelDispatch, UnlockTwice, PCs, Holding
    <3> QED
      BY <1>0, <3>1, MoveTypes
  <2>3. CASE ExpireHeartbeat(w) \/ RefreshHeartbeat(w)
    BY <1>0, <2>3 DEF ExpireHeartbeat, RefreshHeartbeat, WorkerTypes,
         workerVars
  <2> QED
    BY <1>2, <2>1, <2>2, <2>3 DEF WorkerFailure
<1>3. ASSUME NEW w \in Workers, ReapStep(w) PROVE WorkerTypes'
  BY <1>0, <1>3 DEF ReapStep, ReapEntry, ReapReschedule, WorkerTypes,
       workerVars
<1>4. ASSUME NEW l \in Leads, LeadStep(l) PROVE WorkerTypes'
  BY <1>0, <1>4 DEF WorkerTypes, workerVars, LeadStep, PushLead, AbortLead,
       DispatchNow, BecomeDue, FollowUpSchedule, FollowUpCancel, Promote,
       WebhookEndsCall, SweepEndsCall, ScanBacklog, ScanSchedule, ScanReady,
       ScanAdd, CleanStaleLock
<1> QED
  BY <1>1, <1>2, <1>3, <1>4 DEF Next

LEMMA SideTypesStep ==
    ASSUME TypeOK, Next
    PROVE  SideTypes'
<1> USE DEF SideTypes, sideVars, Scans
<1>0. SideTypes
  BY TypeParts
<1>1. ASSUME NEW w \in Workers, WorkerStep(w) \/ WorkerFailure(w)
      PROVE  SideTypes'
  BY <1>0, <1>1
  DEF WorkerStep, PopReady, TrackProcessing, LoadLead, LockLead, DropStaleTurn,
      GateFinish, GatePass, MakeCall, LoseReply, RecordCall, GiveUpOrphan,
      DeferLead, MirrorDefer, ReleaseLock, UntrackProcessing, WorkerFailure,
      CancelDispatch, UnlockTwice, CrashWorker, ExpireHeartbeat,
      RefreshHeartbeat
<1>2. ASSUME NEW w \in Workers, ReapStep(w) PROVE SideTypes'
  BY <1>0, <1>2 DEF ReapStep, ReapEntry, ReapReschedule
<1>3. ASSUME NEW l \in Leads, LeadStep(l) PROVE SideTypes'
  BY <1>0, <1>3 DEF LeadStep, PushLead, AbortLead, DispatchNow, BecomeDue,
       FollowUpSchedule, FollowUpCancel, Promote, WebhookEndsCall,
       SweepEndsCall, ScanBacklog, ScanSchedule, ScanReady, ScanAdd,
       CleanStaleLock
<1> QED
  BY <1>1, <1>2, <1>3 DEF Next

LEMMA CountTypesStep ==
    ASSUME TypeOK, Next
    PROVE  CountTypes'
<1> USE DEF CountTypes, ghostVars, budgets, Fault, NoFault
<1>0. CountTypes /\ WorkerTypes
  BY TypeParts
<1>1. ASSUME NEW w \in Workers, WorkerStep(w) PROVE CountTypes'
  <2>1. CASE MakeCall(w) \/ LoseReply(w) \/ RecordCall(w)
    <3>1. job[w] \in Leads
      BY <1>0, <2>1, BusyHasJob DEF MakeCall, LoseReply, RecordCall
    <3> QED
      BY <1>0, <2>1, <3>1 DEF MakeCall, LoseReply, RecordCall
  <2>2. CASE UNCHANGED <<ghostVars, takeovers>>
    BY <1>0, <1>1, <2>2
    DEF WorkerStep, PopReady, TrackProcessing, LoadLead, LockLead,
        DropStaleTurn, GateFinish, GatePass, MakeCall, LoseReply, RecordCall,
        GiveUpOrphan, DeferLead, MirrorDefer, ReleaseLock, UntrackProcessing,
        schedule_lead
  <2> QED
    BY <1>1, <2>1, <2>2
    DEF WorkerStep, PopReady, TrackProcessing, LoadLead, LockLead,
        DropStaleTurn, GateFinish, GatePass, GiveUpOrphan, DeferLead,
        MirrorDefer, ReleaseLock, UntrackProcessing
<1>2. ASSUME NEW w \in Workers, WorkerFailure(w) PROVE CountTypes'
  <2>1. CASE CancelDispatch(w) \/ CrashWorker(w)
    <3>1. pc[w] = "answered" => job[w] \in Leads
      BY <1>0, BusyHasJob
    <3> QED
      BY <1>0, <2>1, <3>1 DEF CancelDispatch, CrashWorker
  <2>2. CASE UnlockTwice(w) \/ ExpireHeartbeat(w) \/ RefreshHeartbeat(w)
    BY <1>0, <2>2 DEF UnlockTwice, ExpireHeartbeat, RefreshHeartbeat
  <2> QED
    BY <1>2, <2>1, <2>2 DEF WorkerFailure
<1>3. ASSUME NEW w \in Workers, ReapStep(w) PROVE CountTypes'
  BY <1>0, <1>3 DEF ReapStep, ReapEntry, ReapReschedule, schedule_lead
<1>4. ASSUME NEW l \in Leads, LeadStep(l) PROVE CountTypes'
  BY <1>0, <1>4 DEF LeadStep, PushLead, AbortLead, DispatchNow, BecomeDue,
       FollowUpSchedule, FollowUpCancel, Promote, WebhookEndsCall,
       SweepEndsCall, ScanBacklog, ScanSchedule, ScanReady, ScanAdd,
       CleanStaleLock, schedule_lead
<1> QED
  BY <1>1, <1>2, <1>3, <1>4 DEF Next

\* Every variable keeps its shape, whatever fails.
THEOREM TypeCorrect == Spec => []TypeOK
<1>1. TypeOK /\ [Next]_vars => TypeOK'
  <2> SUFFICES ASSUME TypeOK, [Next]_vars PROVE TypeOK'
    OBVIOUS
  <2>1. CASE Next
    <3> HIDE DEF Next
    <3>1. /\ RowTypes' /\ QueueTypes' /\ ListTypes'
          /\ WorkerTypes' /\ SideTypes' /\ CountTypes'
      BY <2>1, RowTypesStep, QueueTypesStep, ListTypesStep, WorkerTypesStep,
         SideTypesStep, CountTypesStep
    <3> QED
      BY <3>1 DEF TypeOK, RowTypes, QueueTypes, ListTypes, WorkerTypes,
                  SideTypes, CountTypes
  <2>2. CASE UNCHANGED vars
    BY <2>2 DEF TypeOK, vars, dbVars, queueVars, workerVars, sideVars,
                ghostVars, budgets
  <2> QED
    BY <2>1, <2>2
<1> QED
  BY TypeInit, <1>1, PTL DEF Spec

-----------------------------------------------------------------------------
(* The inductive invariant behind the safety properties.                   *)

\* A row that does not exist yet is known to no queue, worker or reconciler.
NewIsUnknown ==
    \A l \in Leads : status[l] = "NEW" =>
        /\ l \notin schedule /\ ~InReady(l) /\ \A w \in Workers : job[w] # l
        /\ <<"schedule", l>> \notin followUps /\ scan[l] = "none"
        /\ \A w \in Workers : <<w, l>> \notin reaping

\* The call_id says whether a call of the row was recorded.
CallIdTells ==
    \A l \in Leads : /\ status[l] \in {"NEW", "BACKLOG"} => ~callId[l]
                     /\ status[l] = "PROCESSING" => callId[l]

\* A worker between the lock and its release has the lock of a BACKLOG row.
LockCovers ==
    takeovers = 0 =>
        \A w \in Workers, l \in Leads :
            Holds(w, l) /\ status[l] = "BACKLOG" => isLocked[l]

\* A worker that has not recorded yet works on a row without a recorded call.
Undecided == {"notDue", "locked", "dialing", "answered", "deferring"}
UndecidedHasNoCall ==
    takeovers = 0 =>
        \A w \in Workers, l \in Leads :
            job[w] = l /\ pc[w] \in Undecided => ~callId[l]

IInv ==
    /\ TypeOK /\ NewIsUnknown /\ CallIdTells /\ ExclusiveDispatch /\ LockCovers
    /\ UndecidedHasNoCall /\ NeverEarly /\ OneRecordedCall

-----------------------------------------------------------------------------
LEMMA StatusLeavesNew ==
    ASSUME TypeOK, Next, NEW l \in Leads, status'[l] = "NEW"
    PROVE  status[l] = "NEW"
<1>0. status \in [Leads -> Statuses]
  BY DEF TypeOK
<1>1. ASSUME NEW w \in Workers, WorkerStep(w) \/ WorkerFailure(w) \/ ReapStep(w)
      PROVE  status[l] = "NEW"
  BY <1>0, <1>1
  DEF dbVars, WorkerStep, PopReady, TrackProcessing, LoadLead, LockLead,
      DropStaleTurn, GateFinish, GatePass, MakeCall, LoseReply, RecordCall,
      GiveUpOrphan, DeferLead, MirrorDefer, ReleaseLock, UntrackProcessing,
      WorkerFailure, CancelDispatch, UnlockTwice, CrashWorker,
      ExpireHeartbeat, RefreshHeartbeat, ReapStep, ReapEntry, ReapReschedule
<1>2. ASSUME NEW k \in Leads, LeadStep(k) PROVE status[l] = "NEW"
  BY <1>0, <1>2
  DEF dbVars, LeadStep, PushLead, AbortLead, DispatchNow, BecomeDue,
      FollowUpSchedule, FollowUpCancel, Promote, WebhookEndsCall,
      SweepEndsCall, ScanBacklog, ScanSchedule, ScanReady, ScanAdd,
      CleanStaleLock
<1> QED
  BY <1>1, <1>2 DEF Next

LEMMA PopAnother ==
    ASSUME ready \in Seq(Leads), ready # <<>>, NEW l \in Leads, ~InReady(l),
           ready' = Tail(ready)
    PROVE  Head(ready) # l /\ ~InReady(l)'
  BY DEF InReady

LEMMA PromoteAnother ==
    ASSUME ready \in Seq(Leads), NEW l \in Leads, ~InReady(l),
           NEW k \in Leads, k # l, ready' = Append(ready, k)
    PROVE  ~InReady(l)'
  BY DEF InReady

LEMMA NewIsUnknownStep ==
    ASSUME TypeOK, NewIsUnknown, Next
    PROVE  NewIsUnknown'
<1> SUFFICES ASSUME NEW l \in Leads, status'[l] = "NEW"
             PROVE  /\ l \notin schedule' /\ ~InReady(l)'
                    /\ \A w \in Workers : job'[w] # l
                    /\ <<"schedule", l>> \notin followUps'
                    /\ scan'[l] = "none"
                    /\ \A w \in Workers : <<w, l>> \notin reaping'
  BY DEF NewIsUnknown
<1>0. /\ status[l] = "NEW" /\ l \notin schedule /\ ~InReady(l)
      /\ \A w \in Workers : job[w] # l
      /\ <<"schedule", l>> \notin followUps /\ scan[l] = "none"
      /\ \A w \in Workers : <<w, l>> \notin reaping
  BY StatusLeavesNew DEF NewIsUnknown
<1>a. job \in [Workers -> Leads \cup {NoLead}] /\ ready \in Seq(Leads)
      /\ status \in [Leads -> Statuses] /\ scan \in [Leads -> Scans]
  BY DEF TypeOK
<1> USE DEF queueVars, workerVars, sideVars
<1>1. ASSUME NEW w \in Workers, PopReady(w)
      PROVE  ~InReady(l)' /\ \A v \in Workers : job'[v] # l
  BY <1>0, <1>1, <1>a, PopAnother DEF PopReady
<1>2. ASSUME NEW w \in Workers, WorkerStep(w) \/ WorkerFailure(w), ~PopReady(w)
      PROVE  /\ ready' = ready /\ \A v \in Workers : job'[v] # l
  BY <1>0, <1>2, <1>a, NoLeadAssumption
  DEF WorkerStep, TrackProcessing, LoadLead, LockLead,
      DropStaleTurn, GateFinish, GatePass, MakeCall, LoseReply, RecordCall,
      GiveUpOrphan, DeferLead, MirrorDefer, ReleaseLock, UntrackProcessing,
      WorkerFailure, CancelDispatch, UnlockTwice, CrashWorker,
      ExpireHeartbeat, RefreshHeartbeat
<1>3. ASSUME NEW w \in Workers, WorkerStep(w) \/ WorkerFailure(w)
      PROVE  l \notin schedule' /\ UNCHANGED sideVars
  BY <1>0, <1>3
  DEF WorkerStep, PopReady, TrackProcessing, LoadLead, LockLead,
      DropStaleTurn, GateFinish, GatePass, MakeCall, LoseReply, RecordCall,
      GiveUpOrphan, DeferLead, MirrorDefer, ReleaseLock, UntrackProcessing,
      WorkerFailure, CancelDispatch, UnlockTwice, CrashWorker,
      ExpireHeartbeat, RefreshHeartbeat, schedule_lead
<1>4. ASSUME NEW w \in Workers, ReapStep(w)
      PROVE  /\ l \notin schedule' /\ UNCHANGED <<ready, job, followUps, scan>>
             /\ \A v \in Workers : <<v, l>> \notin reaping'
  BY <1>0, <1>4 DEF ReapStep, ReapEntry, ReapReschedule, schedule_lead
<1>5. ASSUME NEW k \in Leads, LeadStep(k)
      PROVE  /\ l \notin schedule' /\ ~InReady(l)' /\ UNCHANGED <<job, reaping>>
             /\ <<"schedule", l>> \notin followUps' /\ scan'[l] = "none"
  <2>1. CASE Promote(k)
    <3>1. k # l
      BY <1>0, <2>1 DEF Promote
    <3> QED
      BY <1>0, <1>a, <2>1, <3>1, PromoteAnother DEF Promote, InReady
  <2>2. CASE PushLead(k) \/ DispatchNow(k) \/ AbortLead(k)
    BY <1>0, <1>a, <2>2 DEF PushLead, DispatchNow, AbortLead, InReady
  <2>3. CASE FollowUpSchedule(k) \/ FollowUpCancel(k)
    BY <1>0, <2>3 DEF FollowUpSchedule, FollowUpCancel, InReady, schedule_lead
  <2>4. CASE ScanBacklog(k) \/ ScanSchedule(k) \/ ScanReady(k) \/ ScanAdd(k)
    BY <1>0, <1>a, <2>4
    DEF ScanBacklog, ScanSchedule, ScanReady, ScanAdd, InReady, schedule_lead,
        unscheduled
  <2>5. CASE BecomeDue(k) \/ WebhookEndsCall(k) \/ SweepEndsCall(k)
             \/ CleanStaleLock(k)
    BY <1>0, <2>5
    DEF BecomeDue, WebhookEndsCall, SweepEndsCall, CleanStaleLock, InReady
  <2> QED
    BY <1>5, <2>1, <2>2, <2>3, <2>4, <2>5 DEF LeadStep
<1> QED
  BY <1>0, <1>1, <1>2, <1>3, <1>4, <1>5 DEF Next, InReady

\* How one step may move a row and its call_id.
RowAdvances(l) ==
    /\ status'[l] = "NEW" => status[l] = "NEW"
    /\ status'[l] = "BACKLOG" => status[l] \in {"NEW", "BACKLOG"}
    /\ status[l] = "FINISHED" => status'[l] = "FINISHED"
    /\ status[l] = "PROCESSING" => status'[l] \in {"PROCESSING", "FINISHED"}
    /\ \/ callId'[l] = callId[l] /\ (status'[l] = "PROCESSING" => status[l] = "PROCESSING")
       \/ status[l] = "BACKLOG" /\ status'[l] = "PROCESSING" /\ callId'[l]

LEMMA RowAdvancesStep ==
    ASSUME TypeOK, Next, NEW l \in Leads
    PROVE  RowAdvances(l)
<1> USE DEF RowAdvances, dbVars
<1>0. status \in [Leads -> Statuses] /\ callId \in [Leads -> BOOLEAN]
  BY DEF TypeOK
<1>1. ASSUME NEW w \in Workers, WorkerStep(w) PROVE RowAdvances(l)
  <2>1. CASE RecordCall(w)
    <3>1. CASE status' = status /\ callId' = callId
      BY <1>0, <3>1
    <3>2. CASE /\ status[job[w]] = "BACKLOG"
               /\ status' = [status EXCEPT ![job[w]] = "PROCESSING"]
               /\ callId' = [callId EXCEPT ![job[w]] = TRUE]
      BY <1>0, <3>2 DEF Statuses
    <3> QED
      BY <2>1, <3>1, <3>2 DEF RecordCall, recordable
  <2>2. CASE GateFinish(w)
    BY <1>0, <2>2 DEF GateFinish, Statuses
  <2>3. CASE status' = status /\ callId' = callId
    BY <1>0, <2>3
  <2> QED
    BY <1>1, <2>1, <2>2, <2>3
    DEF WorkerStep, PopReady, TrackProcessing, LoadLead, LockLead,
        DropStaleTurn, GatePass, MakeCall, LoseReply, GiveUpOrphan, DeferLead,
        MirrorDefer, ReleaseLock, UntrackProcessing
<1>2. ASSUME NEW w \in Workers, WorkerFailure(w) \/ ReapStep(w)
      PROVE  RowAdvances(l)
  BY <1>0, <1>2
  DEF WorkerFailure, CancelDispatch, UnlockTwice, CrashWorker, ExpireHeartbeat,
      RefreshHeartbeat, ReapStep, ReapEntry, ReapReschedule
<1>3. ASSUME NEW k \in Leads, LeadStep(k) PROVE RowAdvances(l)
  <2>1. CASE \/ PushLead(k) \/ AbortLead(k) \/ WebhookEndsCall(k)
             \/ SweepEndsCall(k)
    BY <1>0, <2>1
    DEF PushLead, AbortLead, WebhookEndsCall, SweepEndsCall, Statuses
  <2>2. CASE status' = status /\ callId' = callId
    BY <1>0, <2>2
  <2> QED
    BY <1>3, <2>1, <2>2
    DEF LeadStep, DispatchNow, BecomeDue, FollowUpSchedule, FollowUpCancel,
        Promote, ScanBacklog, ScanSchedule, ScanReady, ScanAdd, CleanStaleLock
<1> QED
  BY <1>1, <1>2, <1>3 DEF Next

LEMMA CallIdTellsStep ==
    ASSUME TypeOK, CallIdTells, Next
    PROVE  CallIdTells'
<1> SUFFICES ASSUME NEW l \in Leads
             PROVE  /\ status'[l] \in {"NEW", "BACKLOG"} => ~callId'[l]
                    /\ status'[l] = "PROCESSING" => callId'[l]
  BY DEF CallIdTells
<1>1. RowAdvances(l)
  BY RowAdvancesStep
<1> QED
  BY <1>1 DEF RowAdvances, CallIdTells

\* No row is reopened and no recorded call is forgotten, by any step.
THEOREM StatusAdvances == Spec => StatusOnlyAdvances
<1>1. ASSUME TypeOK, [Next]_vars
      PROVE  [\A l \in Leads :
                /\ status[l] = "FINISHED" => status'[l] = "FINISHED"
                /\ status[l] = "PROCESSING"
                     => status'[l] \in {"PROCESSING", "FINISHED"}
                /\ callId[l] => callId'[l]]_vars
  <2>1. CASE Next
    <3>1. \A l \in Leads : RowAdvances(l)
      BY <2>1, <1>1, RowAdvancesStep
    <3> QED
      BY <3>1 DEF RowAdvances
  <2>2. CASE UNCHANGED vars
    BY <2>2
  <2> QED
    BY <1>1, <2>1, <2>2
<1> QED
  BY TypeCorrect, <1>1, PTL DEF Spec, StatusOnlyAdvances

-----------------------------------------------------------------------------
(* Who holds a row after a step, and who may unlock it.                    *)

Gated == {"locked", "dialing", "answered"}

\* The step in which v takes the row lock of l.
JustLocked(v, l) ==
    /\ job[v] = l /\ status[l] = "BACKLOG" /\ ~isLocked[l]
    /\ isLocked'[l] /\ status'[l] = status[l]
    /\ pc'[v] \in Gated => due'[l]
    /\ \A u \in Workers : u # v => pc'[u] = pc[u] /\ job'[u] = job[u]

\* The step in which v keeps l: it goes no way back.
Keeps(v, l) ==
    /\ Holds(v, l)
    /\ pc'[v] \in Undecided => pc[v] \in Undecided
    /\ pc'[v] \in Gated => pc[v] \in Gated

LEMMA HolderStep ==
    ASSUME TypeOK, Next, takeovers' = 0,
           NEW v \in Workers, NEW l \in Leads, Holds(v, l)'
    PROVE  JustLocked(v, l) \/ Keeps(v, l)
<1> USE DEF Holds, Holding, Gated, Undecided, workerVars
<1>0. /\ pc \in [Workers -> PCs] /\ job \in [Workers -> Leads \cup {NoLead}]
      /\ status \in [Leads -> Statuses] /\ isLocked \in [Leads -> BOOLEAN]
      /\ due \in [Leads -> BOOLEAN]
  BY DEF TypeOK
<1>1. ASSUME NEW w \in Workers, WorkerStep(w)
      PROVE  JustLocked(v, l) \/ Keeps(v, l)
  <2>1. CASE LockLead(w)
    <3>1. CASE w = v
      BY <1>0, <2>1, <3>1
      DEF LockLead, Goto, JustLocked, acquirable, tooEarly
    <3>2. CASE w # v
      BY <1>0, <2>1, <3>2 DEF LockLead, Goto, Keeps
    <3> QED
      BY <3>1, <3>2
  <2>2. CASE PopReady(w) \/ TrackProcessing(w) \/ LoadLead(w)
    BY <1>0, <2>2 DEF PopReady, TrackProcessing, LoadLead, Goto, Keeps
  <2>3. CASE DropStaleTurn(w) \/ GateFinish(w) \/ GatePass(w) \/ MakeCall(w)
    BY <1>0, <2>3 DEF DropStaleTurn, GateFinish, GatePass, MakeCall, Goto, Keeps
  <2>4. CASE LoseReply(w) \/ RecordCall(w) \/ GiveUpOrphan(w) \/ DeferLead(w)
    BY <1>0, <2>4
    DEF LoseReply, RecordCall, GiveUpOrphan, DeferLead, Goto, Keeps
  <2>5. CASE MirrorDefer(w) \/ ReleaseLock(w) \/ UntrackProcessing(w)
    BY <1>0, <2>5 DEF MirrorDefer, ReleaseLock, UntrackProcessing, Goto, Keeps
  <2> QED
    BY <1>1, <2>1, <2>2, <2>3, <2>4, <2>5 DEF WorkerStep
<1>2. ASSUME NEW w \in Workers, WorkerFailure(w) PROVE Keeps(v, l)
  <2>1. ~UnlockTwice(w)
    BY DEF UnlockTwice, TypeOK
  <2>2. CASE CancelDispatch(w)
    BY <1>0, <2>2 DEF CancelDispatch, Goto, Keeps
  <2>3. CASE CrashWorker(w) \/ ExpireHeartbeat(w) \/ RefreshHeartbeat(w)
    BY <1>0, <2>3
    DEF CrashWorker, ExpireHeartbeat, RefreshHeartbeat, Goto, Keeps
  <2> QED
    BY <1>2, <2>1, <2>2, <2>3 DEF WorkerFailure
<1>3. ASSUME NEW w \in Workers, ReapStep(w) PROVE Keeps(v, l)
  BY <1>3 DEF ReapStep, ReapEntry, ReapReschedule, Keeps
<1>4. ASSUME NEW k \in Leads, LeadStep(k) PROVE Keeps(v, l)
  BY <1>4
  DEF LeadStep, PushLead, AbortLead, DispatchNow, BecomeDue, FollowUpSchedule,
      FollowUpCancel, Promote, WebhookEndsCall, SweepEndsCall, ScanBacklog,
      ScanSchedule, ScanReady, ScanAdd, CleanStaleLock, Keeps
<1> QED
  BY <1>1, <1>2, <1>3, <1>4 DEF Next

\* With no takeover, a lock goes when its call ended, when its holder lets go,
\* or when nobody holds the row.
LEMMA UnlockStep ==
    ASSUME TypeOK, Next, takeovers' = 0,
           NEW l \in Leads, isLocked[l], ~isLocked'[l]
    PROVE  \/ status[l] = "PROCESSING"
           \/ ~Held(l)
           \/ \E u \in Workers : Holds(u, l) /\ ~Holds(u, l)'
<1> USE DEF dbVars
<1>0. /\ pc \in [Workers -> PCs] /\ job \in [Workers -> Leads \cup {NoLead}]
      /\ isLocked \in [Leads -> BOOLEAN] /\ takeovers \in Nat
  BY DEF TypeOK
<1>1. ASSUME NEW w \in Workers, WorkerStep(w) \/ WorkerFailure(w)
      PROVE  Holds(w, l) /\ ~Holds(w, l)'
  <2>1. CASE DeferLead(w) \/ ReleaseLock(w)
    BY <1>0, <2>1 DEF DeferLead, ReleaseLock, Goto, Holds, Holding
  <2>2. ~UnlockTwice(w)
    BY <1>0 DEF UnlockTwice
  <2>3. ~LockLead(w)
    BY <1>0 DEF LockLead
  <2> QED
    BY <1>1, <2>1, <2>2, <2>3
    DEF WorkerStep, PopReady, TrackProcessing, LoadLead, DropStaleTurn,
        GateFinish, GatePass, MakeCall, LoseReply, RecordCall, GiveUpOrphan,
        MirrorDefer, UntrackProcessing, WorkerFailure, CancelDispatch,
        CrashWorker, ExpireHeartbeat, RefreshHeartbeat
<1>2. ASSUME NEW w \in Workers PROVE ~ReapStep(w)
  BY DEF ReapStep, ReapEntry, ReapReschedule
<1>3. ASSUME NEW k \in Leads, LeadStep(k)
      PROVE  status[l] = "PROCESSING" \/ ~Held(l)
  <2>1. CASE SweepEndsCall(k)
    BY <1>0, <2>1 DEF SweepEndsCall
  <2>2. CASE CleanStaleLock(k)
    BY <1>0, <2>2 DEF CleanStaleLock
  <2> QED
    BY <1>3, <2>1, <2>2
    DEF LeadStep, PushLead, AbortLead, DispatchNow, BecomeDue,
        FollowUpSchedule, FollowUpCancel, Promote, WebhookEndsCall,
        ScanBacklog, ScanSchedule, ScanReady, ScanAdd
<1> QED
  BY <1>1, <1>2, <1>3 DEF Next

\* A call_id is written by a holder who has then decided.
LEMMA RecordStep ==
    ASSUME TypeOK, Next, NEW l \in Leads, ~callId[l], callId'[l]
    PROVE  \E u \in Workers : Holds(u, l) /\ pc'[u] \notin Undecided
<1> USE DEF dbVars
<1>0. /\ pc \in [Workers -> PCs] /\ callId \in [Leads -> BOOLEAN]
  BY DEF TypeOK
<1>1. ASSUME NEW w \in Workers, WorkerStep(w)
      PROVE  Holds(w, l) /\ pc'[w] \notin Undecided
  <2>1. CASE RecordCall(w)
    BY <1>0, <2>1 DEF RecordCall, Goto, Holds, Holding, Undecided
  <2> QED
    BY <1>1, <2>1
    DEF WorkerStep, PopReady, TrackProcessing, LoadLead, LockLead,
        DropStaleTurn, GateFinish, GatePass, MakeCall, LoseReply, GiveUpOrphan,
        DeferLead, MirrorDefer, ReleaseLock, UntrackProcessing
<1>2. ASSUME NEW w \in Workers PROVE ~WorkerFailure(w) /\ ~ReapStep(w)
  BY DEF WorkerFailure, CancelDispatch, UnlockTwice, CrashWorker,
         ExpireHeartbeat, RefreshHeartbeat, ReapStep, ReapEntry, ReapReschedule
<1>3. ASSUME NEW k \in Leads PROVE ~LeadStep(k)
  BY DEF LeadStep, PushLead, AbortLead, DispatchNow, BecomeDue,
         FollowUpSchedule, FollowUpCancel, Promote, WebhookEndsCall,
         SweepEndsCall, ScanBacklog, ScanSchedule, ScanReady, ScanAdd,
         CleanStaleLock
<1> QED
  BY <1>1, <1>2, <1>3 DEF Next

\* A due time moves away only when the row is inserted or its holder defers it.
LEMMA DueStep ==
    ASSUME TypeOK, Next, takeovers' = 0, NEW l \in Leads, due[l], ~due'[l]
    PROVE  \/ status[l] = "NEW"
           \/ \E u \in Workers : Holds(u, l) /\ ~Holds(u, l)'
<1> USE DEF dbVars
<1>0. /\ pc \in [Workers -> PCs] /\ due \in [Leads -> BOOLEAN]
      /\ takeovers \in Nat
  BY DEF TypeOK
<1>1. ASSUME NEW w \in Workers, WorkerStep(w) \/ WorkerFailure(w)
      PROVE  Holds(w, l) /\ ~Holds(w, l)'
  <2>1. CASE DeferLead(w)
    BY <1>0, <2>1 DEF DeferLead, Goto, Holds, Holding
  <2>2. ~UnlockTwice(w)
    BY <1>0 DEF UnlockTwice
  <2> QED
    BY <1>1, <2>1, <2>2
    DEF WorkerStep, PopReady, TrackProcessing, LoadLead, LockLead,
        DropStaleTurn, GateFinish, GatePass, MakeCall, LoseReply, RecordCall,
        GiveUpOrphan, MirrorDefer, ReleaseLock, UntrackProcessing,
        WorkerFailure, CancelDispatch, CrashWorker, ExpireHeartbeat,
        RefreshHeartbeat
<1>2. ASSUME NEW w \in Workers PROVE ~ReapStep(w)
  BY DEF ReapStep, ReapEntry, ReapReschedule
<1>3. ASSUME NEW k \in Leads, LeadStep(k) PROVE status[l] = "NEW"
  BY <1>0, <1>3
  DEF LeadStep, PushLead, AbortLead, DispatchNow, BecomeDue, FollowUpSchedule,
      FollowUpCancel, Promote, WebhookEndsCall, SweepEndsCall, ScanBacklog,
      ScanSchedule, ScanReady, ScanAdd, CleanStaleLock
<1> QED
  BY <1>1, <1>2, <1>3 DEF Next

LEMMA TakeoversGrow ==
    ASSUME TypeOK, Next, takeovers' = 0
    PROVE  takeovers = 0
<1>0. takeovers \in Nat
  BY DEF TypeOK
<1>1. ASSUME NEW w \in Workers, WorkerStep(w) PROVE takeovers = 0
  BY <1>1
  DEF budgets, WorkerStep, PopReady, TrackProcessing, LoadLead, LockLead,
      DropStaleTurn, GateFinish, GatePass, MakeCall, LoseReply, RecordCall,
      GiveUpOrphan, DeferLead, MirrorDefer, ReleaseLock, UntrackProcessing
<1>2. ASSUME NEW w \in Workers, WorkerFailure(w) \/ ReapStep(w)
      PROVE  takeovers = 0
  <2>1. ~UnlockTwice(w)
    BY <1>0 DEF UnlockTwice
  <2> QED
    BY <1>2, <2>1
    DEF budgets, WorkerFailure, CancelDispatch, CrashWorker, ExpireHeartbeat,
        RefreshHeartbeat, ReapStep, ReapEntry, ReapReschedule
<1>3. ASSUME NEW k \in Leads, LeadStep(k) PROVE takeovers = 0
  BY <1>0, <1>3
  DEF budgets, LeadStep, PushLead, AbortLead, DispatchNow, BecomeDue,
      FollowUpSchedule, FollowUpCancel, Promote, WebhookEndsCall,
      SweepEndsCall, ScanBacklog, ScanSchedule, ScanReady, ScanAdd,
      CleanStaleLock
<1> QED
  BY <1>1, <1>2, <1>3 DEF Next

-----------------------------------------------------------------------------
(* The parts of IInv that speak of holders are kept by every step.         *)

LEMMA ExclusiveStep ==
    ASSUME TypeOK, ExclusiveDispatch, LockCovers, Next
    PROVE  ExclusiveDispatch'
<1> SUFFICES ASSUME takeovers' = 0,
                    NEW v \in Workers, NEW w \in Workers, NEW l \in Leads,
                    Holds(v, l)', Holds(w, l)', v # w
             PROVE  FALSE
  BY DEF ExclusiveDispatch
<1>1. takeovers = 0
  BY TakeoversGrow
<1>2. ASSUME NEW a \in Workers, NEW b \in Workers, a # b,
             JustLocked(a, l), Holds(b, l)'
      PROVE  FALSE
  <2>1. Holds(b, l)
    BY <1>2 DEF JustLocked, Holds
  <2>2. isLocked[l]
    BY <2>1, <1>1, <1>2 DEF LockCovers, JustLocked
  <2> QED
    BY <2>2, <1>2 DEF JustLocked
<1>3. Holds(v, l) /\ Holds(w, l)
  BY <1>2, HolderStep DEF Keeps
<1> QED
  BY <1>1, <1>3 DEF ExclusiveDispatch

LEMMA LockCoversStep ==
    ASSUME TypeOK, NewIsUnknown, ExclusiveDispatch, LockCovers, Next
    PROVE  LockCovers'
<1> SUFFICES ASSUME takeovers' = 0, NEW w \in Workers, NEW l \in Leads,
                    Holds(w, l)', status'[l] = "BACKLOG"
             PROVE  isLocked'[l]
  BY DEF LockCovers
<1>1. takeovers = 0
  BY TakeoversGrow
<1>2. CASE JustLocked(w, l)
  BY <1>2 DEF JustLocked
<1>3. CASE Holds(w, l)
  <2>1. status[l] = "BACKLOG"
    BY <1>3, RowAdvancesStep DEF RowAdvances, NewIsUnknown, Holds
  <2>2. isLocked[l]
    BY <1>1, <1>3, <2>1 DEF LockCovers
  <2>3. \A u \in Workers : Holds(u, l) => Holds(u, l)'
    BY <1>1, <1>3 DEF ExclusiveDispatch
  <2> QED
    BY <1>3, <2>1, <2>2, <2>3, UnlockStep DEF Held
<1> QED
  BY <1>2, <1>3, HolderStep DEF Keeps

LEMMA UndecidedStep ==
    ASSUME TypeOK, CallIdTells, ExclusiveDispatch, UndecidedHasNoCall, Next
    PROVE  UndecidedHasNoCall'
<1> SUFFICES ASSUME takeovers' = 0, NEW w \in Workers, NEW l \in Leads,
                    job'[w] = l, pc'[w] \in Undecided, callId'[l]
             PROVE  FALSE
  BY DEF UndecidedHasNoCall
<1>1. takeovers = 0
  BY TakeoversGrow
<1>2. Holds(w, l)'
  BY DEF Holds, Holding, Undecided
<1>3. CASE JustLocked(w, l)
  BY <1>3, CallIdTellsStep DEF JustLocked, CallIdTells
<1>4. CASE Keeps(w, l)
  <2>1. ~callId[l]
    BY <1>1, <1>4 DEF UndecidedHasNoCall, Keeps, Holds
  <2>2. PICK u \in Workers : Holds(u, l) /\ pc'[u] \notin Undecided
    BY <2>1, RecordStep
  <2>3. u = w
    BY <1>1, <1>4, <2>2 DEF ExclusiveDispatch, Keeps
  <2> QED
    BY <2>2, <2>3
<1> QED
  BY <1>2, <1>3, <1>4, HolderStep

LEMMA NeverEarlyStep ==
    ASSUME TypeOK, NewIsUnknown, ExclusiveDispatch, NeverEarly, Next
    PROVE  NeverEarly'
<1> SUFFICES ASSUME takeovers' = 0, NEW w \in Workers, pc'[w] \in Gated,
                    NEW l \in Leads, job'[w] = l
             PROVE  due'[l]
  BY WorkerTypesStep DEF NeverEarly, Gated, WorkerTypes
<1>1. takeovers = 0
  BY TakeoversGrow
<1>2. Holds(w, l)'
  BY DEF Holds, Holding, Gated
<1>3. CASE JustLocked(w, l)
  BY <1>3 DEF JustLocked
<1>4. CASE Keeps(w, l)
  <2>1. due[l] /\ job[w] = l
    BY <1>1, <1>4 DEF NeverEarly, Keeps, Holds, Gated
  <2>2. status[l] # "NEW"
    BY <2>1 DEF NewIsUnknown
  <2>3. \A u \in Workers : Holds(u, l) => Holds(u, l)'
    BY <1>1, <1>2, <1>4 DEF ExclusiveDispatch, Keeps
  <2> QED
    BY <2>1, <2>2, <2>3, DueStep
<1> QED
  BY <1>2, <1>3, <1>4, HolderStep

-----------------------------------------------------------------------------
(* The phone calls of a row, counted.                                      *)

Answered(l) == {w \in Workers : pc[w] = "answered" /\ job[w] = l}

Rings(l, r) == rings'[l] = rings[l] + r
Loses(l, n) == lost'[l] = lost[l] + n

\* What one step does to the calls of a row: nothing, one more rings, or one
\* that rang is lost or recorded.
NoCall(l) ==
    Answered(l)' = Answered(l) /\ Rings(l, 0) /\ Loses(l, 0) /\ callId'[l] = callId[l]
NewCall(l) ==
    \E w \in Workers \ Answered(l) :
        /\ Answered(l)' = Answered(l) \cup {w} /\ Rings(l, 1) /\ Loses(l, 0)
        /\ callId'[l] = callId[l]
SettledCall(l) ==
    \E w \in Answered(l) :
        /\ Answered(l)' = Answered(l) \ {w} /\ Rings(l, 0)
        /\ \/ Loses(l, 1) /\ callId'[l] = callId[l]
           \/ Loses(l, 0) /\ ~callId[l] /\ callId'[l]

LEMMA CallStep ==
    ASSUME TypeOK, CallIdTells, Next, NEW l \in Leads
    PROVE  NoCall(l) \/ NewCall(l) \/ SettledCall(l)
<1> USE DEF Rings, Loses, dbVars, ghostVars, workerVars
<1>0. /\ pc \in [Workers -> PCs] /\ job \in [Workers -> Leads \cup {NoLead}]
      /\ rings \in [Leads -> Nat] /\ lost \in [Leads -> Nat]
      /\ callId \in [Leads -> BOOLEAN]
  BY DEF TypeOK
\* A step that neither starts nor ends "answered" changes no call.
<1>a. ASSUME NEW w \in Workers, UNCHANGED <<rings, lost, callId>>,
             \A v \in Workers : v # w => pc'[v] = pc[v] /\ job'[v] = job[v],
             pc[w] # "answered", pc'[w] # "answered"
      PROVE  NoCall(l)
  BY <1>0, <1>a DEF NoCall, Answered
<1>b. ASSUME UNCHANGED <<rings, lost, callId, pc, job>> PROVE NoCall(l)
  BY <1>0, <1>b DEF NoCall, Answered
\* w leaves "answered" with its lead.
<1>c. ASSUME NEW w \in Workers, pc[w] = "answered", job[w] = l,
             pc'[w] # "answered",
             \A v \in Workers : v # w => pc'[v] = pc[v] /\ job'[v] = job[v]
      PROVE  w \in Answered(l) /\ Answered(l)' = Answered(l) \ {w}
  BY <1>c DEF Answered
<1>d. ASSUME NEW w \in Workers, pc[w] = "answered", job[w] # l,
             pc'[w] # "answered", UNCHANGED rings,
             lost'[l] = lost[l], callId'[l] = callId[l],
             \A v \in Workers : v # w => pc'[v] = pc[v] /\ job'[v] = job[v]
      PROVE  NoCall(l)
  BY <1>0, <1>d DEF NoCall, Answered
<1>1. ASSUME NEW w \in Workers, MakeCall(w)
      PROVE  NoCall(l) \/ NewCall(l)
  <2>1. CASE pc'[w] = "answered" /\ job[w] = l
    <3>1. w \notin Answered(l) /\ Answered(l)' = Answered(l) \cup {w}
      BY <1>0, <1>1, <2>1 DEF MakeCall, Goto, Answered
    <3>2. Rings(l, 1) /\ Loses(l, 0) /\ callId'[l] = callId[l]
      BY <1>0, <1>1, <2>1 DEF MakeCall, Goto
    <3> QED
      BY <3>1, <3>2 DEF NewCall
  <2>2. CASE pc'[w] = "answered" /\ job[w] # l
    BY <1>0, <1>1, <2>2 DEF MakeCall, Goto, NoCall, Answered
  <2>3. CASE pc'[w] # "answered"
    BY <1>0, <1>1, <2>3, <1>a DEF MakeCall, Goto
  <2> QED
    BY <2>1, <2>2, <2>3
<1>2. ASSUME NEW w \in Workers,
             \/ LoseReply(w) \/ RecordCall(w)
             \/ (CancelDispatch(w) \/ CrashWorker(w)) /\ pc[w] = "answered"
      PROVE  NoCall(l) \/ SettledCall(l)
  <2>1. /\ pc[w] = "answered" /\ pc'[w] # "answered" /\ UNCHANGED rings
        /\ \A v \in Workers : v # w => pc'[v] = pc[v] /\ job'[v] = job[v]
    BY <1>0, <1>2
    DEF LoseReply, RecordCall, CancelDispatch, CrashWorker, Goto
  <2>2. job[w] \in Leads
    BY <2>1, BusyHasJob, TypeParts
  <2>3. \/ lost' = [lost EXCEPT ![job[w]] = @ + 1] /\ UNCHANGED callId
        \/ /\ status[job[w]] = "BACKLOG" /\ UNCHANGED lost
           /\ callId' = [callId EXCEPT ![job[w]] = TRUE]
    BY <1>2, <2>1
    DEF LoseReply, RecordCall, recordable, CancelDispatch, CrashWorker
  <2>4. CASE job[w] = l
    <3>1. w \in Answered(l) /\ Answered(l)' = Answered(l) \ {w}
      BY <2>1, <2>4, <1>c
    <3>2. \/ Loses(l, 1) /\ callId'[l] = callId[l]
          \/ Loses(l, 0) /\ ~callId[l] /\ callId'[l]
      BY <1>0, <2>3, <2>4 DEF CallIdTells
    <3>3. Rings(l, 0)
      BY <1>0, <2>1
    <3> QED
      BY <3>1, <3>2, <3>3 DEF SettledCall
  <2>5. CASE job[w] # l
    <3>1. lost'[l] = lost[l] /\ callId'[l] = callId[l]
      BY <1>0, <2>3, <2>5
    <3> QED
      BY <2>1, <2>5, <3>1, <1>d
  <2> QED
    BY <2>4, <2>5
<1>3. ASSUME NEW w \in Workers, WorkerStep(w),
             ~MakeCall(w), ~LoseReply(w), ~RecordCall(w)
      PROVE  NoCall(l)
  <2>1. /\ UNCHANGED <<rings, lost, callId>>
        /\ \A v \in Workers : v # w => pc'[v] = pc[v] /\ job'[v] = job[v]
        /\ pc[w] # "answered" /\ pc'[w] # "answered"
    BY <1>0, <1>3
    DEF WorkerStep, PopReady, TrackProcessing, LoadLead, LockLead,
        DropStaleTurn, GateFinish, GatePass, GiveUpOrphan, DeferLead,
        MirrorDefer, ReleaseLock, UntrackProcessing, Goto
  <2> QED
    BY <2>1, <1>a
<1>4. ASSUME NEW w \in Workers, WorkerFailure(w),
             ~((CancelDispatch(w) \/ CrashWorker(w)) /\ pc[w] = "answered")
      PROVE  NoCall(l)
  <2>1. CASE ExpireHeartbeat(w) \/ RefreshHeartbeat(w)
    BY <2>1, <1>b DEF ExpireHeartbeat, RefreshHeartbeat
  <2>2. CASE CancelDispatch(w) \/ CrashWorker(w) \/ UnlockTwice(w)
    <3>1. /\ UNCHANGED <<rings, lost, callId>>
          /\ \A v \in Workers : v # w => pc'[v] = pc[v] /\ job'[v] = job[v]
          /\ pc[w] # "answered" /\ pc'[w] # "answered"
      BY <1>0, <1>4, <2>2 DEF CancelDispatch, CrashWorker, UnlockTwice, Goto
    <3> QED
      BY <3>1, <1>a
  <2> QED
    BY <1>4, <2>1, <2>2 DEF WorkerFailure
<1>5. ASSUME NEW w \in Workers, ReapStep(w) PROVE NoCall(l)
  BY <1>5, <1>b DEF ReapStep, ReapEntry, ReapReschedule
<1>6. ASSUME NEW k \in Leads, LeadStep(k) PROVE NoCall(l)
  BY <1>6, <1>b
  DEF LeadStep, PushLead, AbortLead, DispatchNow, BecomeDue, FollowUpSchedule,
      FollowUpCancel, Promote, WebhookEndsCall, SweepEndsCall, ScanBacklog,
      ScanSchedule, ScanReady, ScanAdd, CleanStaleLock
<1> QED
  BY <1>1, <1>2, <1>3, <1>4, <1>5, <1>6 DEF Next

LEMMA AnsweredFinite ==
    ASSUME NEW l \in Leads
    PROVE  IsFiniteSet(Answered(l)) /\ Cardinality(Answered(l)) \in Nat
<1>1. IsFiniteSet(Answered(l))
  BY WorkersAssumption, FS_Subset DEF Answered
<1> QED
  BY <1>1, FS_CardinalityType

Recorded(l) == IF callId[l] THEN 1 ELSE 0

LEMMA OneRecordedStep ==
    ASSUME TypeOK, CallIdTells, OneRecordedCall, Next
    PROVE  OneRecordedCall'
<1> SUFFICES ASSUME NEW l \in Leads
             PROVE  rings'[l] = lost'[l] + Recorded(l)'
                                + Cardinality(Answered(l)')
  BY DEF OneRecordedCall, Answered, Recorded
<1> DEFINE n == Cardinality(Answered(l))
<1>1. n \in Nat /\ IsFiniteSet(Answered(l))
  BY AnsweredFinite
<1>2. rings[l] = lost[l] + Recorded(l) + n
  BY DEF OneRecordedCall, Answered, Recorded
<1>3. /\ rings[l] \in Nat /\ lost[l] \in Nat
      /\ callId[l] \in BOOLEAN /\ callId'[l] \in BOOLEAN
  BY RowTypesStep DEF TypeOK, RowTypes
<1> HIDE DEF n
<1>4. CASE NoCall(l)
  BY <1>1, <1>2, <1>3, <1>4 DEF NoCall, Rings, Loses, Recorded, n
<1>5. CASE NewCall(l)
  <2>1. PICK w \in Workers \ Answered(l) :
           /\ Answered(l)' = Answered(l) \cup {w} /\ Rings(l, 1) /\ Loses(l, 0)
           /\ callId'[l] = callId[l]
    BY <1>5 DEF NewCall
  <2>2. Cardinality(Answered(l)') = n + 1
    BY <1>1, <2>1, FS_AddElement DEF n
  <2> QED
    BY <1>1, <1>2, <1>3, <2>1, <2>2 DEF Rings, Loses, Recorded
<1>6. CASE SettledCall(l)
  <2>1. PICK w \in Answered(l) :
           /\ Answered(l)' = Answered(l) \ {w} /\ Rings(l, 0)
           /\ \/ Loses(l, 1) /\ callId'[l] = callId[l]
              \/ Loses(l, 0) /\ ~callId[l] /\ callId'[l]
    BY <1>6 DEF SettledCall
  <2>2. Cardinality(Answered(l)') = n - 1
    BY <1>1, <2>1, FS_RemoveElement DEF n
  <2> QED
    BY <1>1, <1>2, <1>3, <2>1, <2>2 DEF Rings, Loses, Recorded
<1> QED
  BY <1>4, <1>5, <1>6, CallStep

-----------------------------------------------------------------------------
(* The invariant, and what follows from it.                                *)

LEMMA InvInit == Init => IInv
<1> SUFFICES ASSUME Init PROVE IInv
  OBVIOUS
<1>1. TypeOK
  BY TypeInit
<1>2. NewIsUnknown /\ CallIdTells
  BY NoLeadAssumption DEF Init, NewIsUnknown, CallIdTells, InReady
<1>3. \A w \in Workers : pc[w] = "idle"
  BY DEF Init
<1>4. /\ ExclusiveDispatch /\ LockCovers /\ UndecidedHasNoCall /\ NeverEarly
  BY <1>3 DEF ExclusiveDispatch, LockCovers, UndecidedHasNoCall, NeverEarly,
              Holds, Holding, Undecided
<1>5. OneRecordedCall
  <2>1. ASSUME NEW l \in Leads
        PROVE  {w \in Workers : pc[w] = "answered" /\ job[w] = l} = {}
    BY <1>3
  <2> QED
    BY <2>1, FS_EmptySet DEF OneRecordedCall, Init
<1> QED
  BY <1>1, <1>2, <1>4, <1>5 DEF IInv

LEMMA InvStep == IInv /\ [Next]_vars => IInv'
<1> SUFFICES ASSUME IInv, [Next]_vars PROVE IInv'
  OBVIOUS
<1> USE DEF IInv
<1>1. CASE Next
  <2>1. TypeOK'
    BY <1>1, RowTypesStep, QueueTypesStep, ListTypesStep, WorkerTypesStep,
       SideTypesStep, CountTypesStep
    DEF TypeOK, RowTypes, QueueTypes, ListTypes, WorkerTypes, SideTypes,
        CountTypes
  <2>2. NewIsUnknown' /\ CallIdTells'
    BY <1>1, NewIsUnknownStep, CallIdTellsStep
  <2>3. ExclusiveDispatch' /\ LockCovers'
    BY <1>1, ExclusiveStep, LockCoversStep
  <2>4. UndecidedHasNoCall' /\ NeverEarly'
    BY <1>1, UndecidedStep, NeverEarlyStep
  <2>5. OneRecordedCall'
    BY <1>1, OneRecordedStep
  <2> QED
    BY <2>1, <2>2, <2>3, <2>4, <2>5
<1>2. CASE UNCHANGED vars
  <2> USE <1>2 DEF vars, dbVars, queueVars, workerVars, sideVars, ghostVars,
                   budgets
  <2>1. TypeOK'
    BY DEF TypeOK
  <2>2. NewIsUnknown' /\ CallIdTells'
    BY DEF NewIsUnknown, CallIdTells, InReady
  <2>3. ExclusiveDispatch' /\ LockCovers'
    BY DEF ExclusiveDispatch, LockCovers, Holds
  <2>4. UndecidedHasNoCall' /\ NeverEarly'
    BY DEF UndecidedHasNoCall, NeverEarly
  <2>5. OneRecordedCall'
    BY DEF OneRecordedCall
  <2> QED
    BY <2>1, <2>2, <2>3, <2>4, <2>5
<1> QED
  BY <1>1, <1>2

LEMMA Invariance == Spec => []IInv
  BY InvInit, InvStep, PTL DEF Spec

\* No two workers are between the lock and its release of one row, as long as
\* no lock is taken from under a running worker.
THEOREM Exclusion == Spec => []ExclusiveDispatch
<1>1. IInv => ExclusiveDispatch
  BY DEF IInv
<1> QED
  BY Invariance, <1>1, PTL

\* No lead is taken through the gates before its time.
THEOREM OnTime == Spec => []NeverEarly
<1>1. IInv => NeverEarly
  BY DEF IInv
<1> QED
  BY Invariance, <1>1, PTL

\* Of all calls placed for a row at most one is recorded and the others are in
\* a worker's hands or lost, whoever took whose lock.
THEOREM RecordedOnce == Spec => []OneRecordedCall
<1>1. IInv => OneRecordedCall
  BY DEF IInv
<1> QED
  BY Invariance, <1>1, PTL

\* While its lock was never taken, a row has one call in hand or recorded.
LEMMA OneCallAtATime ==
    ASSUME IInv, takeovers = 0, NEW l \in Leads
    PROVE  /\ rings[l] = lost[l] + Recorded(l) + Cardinality(Answered(l))
           /\ Cardinality(Answered(l)) \in {0, 1}
           /\ callId[l] => Cardinality(Answered(l)) = 0
<1> USE DEF IInv
<1>1. rings[l] = lost[l] + Recorded(l) + Cardinality(Answered(l))
  BY DEF OneRecordedCall, Recorded, Answered
<1>2. CASE Answered(l) = {}
  BY <1>1, <1>2, FS_EmptySet
<1>3. ASSUME NEW w \in Answered(l)
      PROVE  Cardinality(Answered(l)) = 1 /\ ~callId[l]
  <2>1. w \in Workers /\ Holds(w, l) /\ pc[w] \in Undecided /\ job[w] = l
    BY DEF Answered, Holds, Holding, Undecided
  <2>2. Answered(l) = {w}
    BY <2>1 DEF Answered, ExclusiveDispatch, Holds, Holding
  <2> QED
    BY <2>1, <2>2, FS_Singleton DEF UndecidedHasNoCall
<1> QED
  BY <1>1, <1>2, <1>3

\* A row is rung once more than the calls it lost, at most.
THEOREM RungOnce == Spec => []RingOnce
<1>1. IInv => RingOnce
  <2> SUFFICES ASSUME IInv, takeovers = 0, NEW l \in Leads
               PROVE  rings[l] <= lost[l] + 1
    BY DEF RingOnce
  <2>1. lost[l] \in Nat /\ callId[l] \in BOOLEAN
    BY DEF IInv, TypeOK
  <2> QED
    BY <2>1, OneCallAtATime DEF Recorded
<1> QED
  BY Invariance, <1>1, PTL

\* A row with a call on the line was rung for it once, and nobody still dials.
THEOREM LiveCall == Spec => []LiveCallIsSettled
<1>1. IInv => LiveCallIsSettled
  <2> SUFFICES ASSUME IInv, takeovers = 0, NEW l \in Leads,
                      status[l] = "PROCESSING"
               PROVE  /\ callId[l] /\ rings[l] = lost[l] + 1
                      /\ \A w \in Workers :
                           Holds(w, l) => pc[w] \in {"orphaned", "release"}
    BY DEF LiveCallIsSettled
  <2>1. callId[l]
    BY DEF IInv, CallIdTells
  <2>2. rings[l] = lost[l] + 1
    <3>1. lost[l] \in Nat
      BY DEF IInv, TypeOK
    <3> QED
      BY <2>1, <3>1, OneCallAtATime DEF Recorded
  <2>3. ASSUME NEW w \in Workers, Holds(w, l)
        PROVE  pc[w] \in {"orphaned", "release"}
    BY <2>1, <2>3 DEF IInv, UndecidedHasNoCall, Holds, Holding, Undecided
  <2> QED
    BY <2>1, <2>2, <2>3
<1> QED
  BY Invariance, <1>1, PTL
=============================================================================
