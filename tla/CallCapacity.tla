---------------------------- MODULE CallCapacity ----------------------------
(***************************************************************************)
(* The channels of one Plivo or Vobiz number: the Redis token list that    *)
(* paces the dispatch workers, the channels column that admits outbound    *)
(* and inbound calls, the rows that are PROCESSING, the handlers that end  *)
(* a call and give its channel back, and the reconciler of the token list. *)
(*                                                                         *)
(* Every outbound call is one dial of one lead by the worker that has its  *)
(* row lock (LeadDispatch); a retry is another call.  A handler is the     *)
(* list of database and Redis calls it still has to make: other handlers,  *)
(* workers and the reconciler run between any two of them.                 *)
(***************************************************************************)
EXTENDS Naturals, Sequences, FiniteSets

CONSTANTS
    Outbound, Inbound,  \* the calls of the number
    Handlers,           \* call-end handlers that can run at the same time
    Nothing,            \* the call of a handler that is not running
    Maximum,            \* telephony_number.maximum_channels
    Reconciling,        \* reconcile_channel_tokens is scheduled
    Timely,             \* endings come one at a time, each after its grace
    MaxDuplicates,      \* bound: callbacks delivered a second time
    MaxFaults           \* bound: failed Redis or database calls, pods that die

Calls == Outbound \cup Inbound

ASSUME CallsAssumption == Outbound \cap Inbound = {} /\ Nothing \notin Calls
ASSUME NumbersAssumption ==
    /\ Maximum \in Nat /\ MaxDuplicates \in Nat /\ MaxFaults \in Nat
    /\ Reconciling \in BOOLEAN /\ Timely \in BOOLEAN
ASSUME FinitenessAssumption == IsFiniteSet(Calls) /\ IsFiniteSet(Handlers)

VARIABLES
    tokens,    \* LLEN of the number's channel list
    channels,  \* telephony_number.channels
    row,       \* status of the lead row, "NONE" until it is PROCESSING
    pc,        \* the worker's dispatch of the call, or its answer webhook
    onLine,    \* the call occupies a line at the provider
    sent,      \* callbacks delivered for the call
    kind, call, todo, seen,   \* each handler: what it is, its call, the steps
                              \*   it has left, the row as it read it
    retries,   \* history: retry rows inserted for the call
    rec,       \* reconcile_channel_tokens: its next step and its snapshot
    dups, faults

numberVars == <<tokens, channels>>
callVars == <<row, pc, onLine>>
handlerVars == <<sent, kind, call, todo, seen, retries, dups>>
vars == <<numberVars, callVars, handlerVars, rec, faults>>

Rows == {"NONE", "PROCESSING", "FINISHED"}
OutboundPCs == {"ready", "token", "line", "returnLine", "returnToken",
                "placed", "orphan", "orphanToken", "done", "gone"}
InboundPCs == {"ready", "admitted", "done", "gone"}

\* Mutants of Plan: orders a careless edit would give the handlers.
Plan_FinishFirst == [
    completion |-> <<"finish", "read", "line", "token", "retry">>,
    unanswered |-> <<"read", "line", "token", "skip", "finish", "retry">>,
    completed  |-> <<"read", "skip", "claim", "finish", "line", "token", "retry">>,
    sweep      |-> <<"claim", "finish", "line", "token", "retry">>,
    ivrBlock   |-> <<"read", "win", "line">>]
Plan_TokenFirst == [Plan_FinishFirst EXCEPT
    !.completion = <<"read", "token", "line", "finish", "retry">>]
Plan_Unguarded == [Plan_FinishFirst EXCEPT
    !.completed = <<"read", "finish", "line", "token", "retry">>]

\* The steps of each handler, in the order of its code.
Plan == [
    completion |-> <<"read", "line", "token", "finish", "retry">>,
    unanswered |-> <<"read", "line", "token", "skip", "finish", "retry">>,
    completed  |-> <<"read", "skip", "claim", "finish", "line", "token", "retry">>,
    sweep      |-> <<"claim", "finish", "line", "token", "retry">>,
    ivrBlock   |-> <<"read", "win", "line">>]

Fault == faults < MaxFaults /\ faults' = faults + 1
NoFault == UNCHANGED faults

Goto(c, where) == pc' = [pc EXCEPT ![c] = where]
Processing == {c \in Calls : row[c] = "PROCESSING"}
larger(m, n) == IF m > n THEN m ELSE n
minus(m, n) == IF m > n THEN m - n ELSE 0

\* decrement_telephony_number_channels; its accessor swallows a failure.
decrement ==
    \/ channels' = minus(channels, 1) /\ NoFault
    \/ Fault /\ UNCHANGED channels

\* increment_telephony_number_channels, and whether a row came back.
hasFreeChannel_OffByOne == channels <= Maximum
hasFreeChannel == channels < Maximum

\* release_channel_token
release_channel_token ==
    \/ tokens' = tokens + 1 /\ NoFault
    \/ Fault /\ UNCHANGED tokens

IdleRec == [at |-> "idle", channels |-> 0, busy |-> 0, listed |-> 0]

Init ==
    /\ tokens = IF Reconciling THEN 0 ELSE Maximum
    /\ channels = 0
    /\ row = [c \in Calls |-> "NONE"]
    /\ pc = [c \in Calls |-> "ready"]
    /\ onLine = [c \in Calls |-> FALSE]
    /\ sent = [c \in Calls |-> {}]
    /\ kind = [h \in Handlers |-> "none"]
    /\ call = [h \in Handlers |-> Nothing]
    /\ todo = [h \in Handlers |-> <<>>]
    /\ seen = [h \in Handlers |-> "NONE"]
    /\ retries = [c \in Calls |-> 0]
    /\ rec = IdleRec
    /\ dups = 0 /\ faults = 0

-----------------------------------------------------------------------------
(* The worker: token, line, dial, record.                                  *)

AcquireToken(c) ==
    /\ c \in Outbound /\ pc[c] = "ready" /\ tokens > 0
    /\ tokens' = tokens - 1
    /\ Goto(c, "token")
    /\ UNCHANGED <<channels, row, onLine, handlerVars, rec, faults>>

\* FULL drops the token, ERROR gives it back; both defer the lead.
AcquireNumber(c) ==
    /\ pc[c] = "token"
    /\ \/ /\ hasFreeChannel /\ channels' = channels + 1
          /\ Goto(c, "line") /\ NoFault
       \/ ~hasFreeChannel /\ Goto(c, "ready") /\ NoFault /\ UNCHANGED channels
       \/ Fault /\ Goto(c, "returnToken") /\ UNCHANGED channels
    /\ UNCHANGED <<tokens, row, onLine, handlerVars, rec>>

\* Refused by a later gate, cancelled in the pre-warm, or not placed by the
\* provider: _return_capacity, the database first.
Dial(c) ==
    /\ pc[c] = "line"
    /\ \/ Goto(c, "placed") /\ onLine' = [onLine EXCEPT ![c] = TRUE]
       \/ Goto(c, "returnLine") /\ UNCHANGED onLine
    /\ UNCHANGED <<numberVars, row, handlerVars, rec, faults>>

ReturnLine(c) ==
    /\ pc[c] \in {"returnLine", "orphan"}
    /\ decrement
    /\ Goto(c, IF pc[c] = "orphan" THEN "orphanToken" ELSE "returnToken")
    /\ UNCHANGED <<tokens, row, onLine, handlerVars, rec>>

ReturnToken(c) ==
    /\ pc[c] \in {"returnToken", "orphanToken"}
    /\ release_channel_token
    /\ Goto(c, IF pc[c] = "orphanToken" THEN "gone" ELSE "ready")
    /\ UNCHANGED <<channels, row, onLine, handlerVars, rec>>

\* update_lead_call_details: the row is PROCESSING, or it had left BACKLOG, or
\* the UPDATE failed, or only its reply was lost.
RecordCall(c) ==
    /\ pc[c] = "placed"
    /\ \/ /\ row' = [row EXCEPT ![c] = "PROCESSING"]
          /\ (Goto(c, "done") /\ NoFault) \/ (Goto(c, "orphan") /\ Fault)
       \/ Fault /\ Goto(c, "orphan") /\ UNCHANGED row
    /\ UNCHANGED <<numberVars, onLine, handlerVars, rec>>

\* Killed, or cancelled outside the pre-warm: nothing gives the capacity back.
LoseWorker(c) ==
    /\ pc[c] \in {"token", "line", "returnLine", "returnToken", "placed"}
    /\ Fault
    /\ Goto(c, "gone")
    /\ UNCHANGED <<numberVars, row, onLine, handlerVars, rec>>

-----------------------------------------------------------------------------
(* The answer webhook of an inbound call: the gate, then the PROCESSING    *)
(* row, from the webhook itself or later from the websocket.               *)

AdmitInbound(c) ==
    /\ c \in Inbound /\ pc[c] = "ready"
    /\ \/ /\ hasFreeChannel /\ channels' = channels + 1 /\ Goto(c, "admitted")
          /\ onLine' = [onLine EXCEPT ![c] = TRUE] /\ NoFault
       \/ /\ (~hasFreeChannel /\ NoFault) \/ Fault
          /\ Goto(c, "gone") /\ UNCHANGED <<channels, onLine>>
    /\ UNCHANGED <<tokens, row, handlerVars, rec>>

\* The insert failed and the caller hung up before the stream opened: leaked.
CreateInboundLead(c) ==
    /\ pc[c] = "admitted"
    /\ \/ /\ row' = [row EXCEPT ![c] = "PROCESSING"]
          /\ Goto(c, "done") /\ NoFault /\ UNCHANGED onLine
       \/ /\ Fault /\ Goto(c, "gone")
          /\ onLine' = [onLine EXCEPT ![c] = FALSE] /\ UNCHANGED row
    /\ UNCHANGED <<numberVars, handlerVars, rec>>

HangUp(c) ==
    /\ onLine[c] /\ onLine' = [onLine EXCEPT ![c] = FALSE]
    /\ UNCHANGED <<numberVars, row, pc, handlerVars, rec, faults>>

-----------------------------------------------------------------------------
(* The handlers that end a call.                                           *)

AtWorkOn(c) == {h \in Handlers : call[h] = c}

\* BB_STUCK_CALL_STALE_MINUTES "must outlast the longest real call": an outbound
\* row that old is of a call that is down.  An inbound row has no grace of its
\* own, the filter that should spare a live caller ends in `and False`.
GraceOver(c) == c \in Outbound => ~onLine[c]

\* How endings come when each grace is long enough: one at a time, one terminal
\* status of the provider's and that when the line is down, an outbound call's
\* first from the agent or from a dial nobody answered.  The agent's may come while
\* the call goes on: it is written before the EndFrame, and by a warm transfer that
\* stays on the trunk.
InTime(k, c) ==
    /\ AtWorkOn(c) = {}
    /\ k \in {"unanswered", "completed"} => ~onLine[c]
    /\ k = "sweep" => GraceOver(c)
    /\ k = "unanswered" \/ (k = "completion" /\ c \in Outbound) => sent[c] = {}
    /\ "unanswered" \in sent[c] => k = "sweep"

Begin(h, k, c) ==
    /\ todo[h] = <<>>
    /\ Timely => InTime(k, c)
    /\ kind' = [kind EXCEPT ![h] = k]
    /\ call' = [call EXCEPT ![h] = c]
    /\ todo' = [todo EXCEPT ![h] = Plan[k]]
    /\ sent' = [sent EXCEPT ![c] = @ \cup {k}]

\* A callback for a call whose id is on its row: from the voice agent, from
\* the provider's status webhook, from the keypad menu.
Deliver(h, k, c) ==
    /\ row[c] # "NONE" /\ Begin(h, k, c)
    /\ k = "ivrBlock" => c \in Inbound /\ row[c] = "PROCESSING" /\ onLine[c]
    /\ \/ k \notin sent[c] /\ UNCHANGED dups
       \/ k \in sent[c] /\ dups < MaxDuplicates /\ dups' = dups + 1
    /\ UNCHANGED <<numberVars, callVars, seen, retries, rec, faults>>

\* Mutant of StartSweep: the scan leaves out locked rows, as it does by default.
StartSweep_SkipsLocked(h, c) ==
    /\ c \in Inbound /\ row[c] = "PROCESSING"
    /\ Begin(h, "sweep", c)
    /\ UNCHANGED <<numberVars, callVars, seen, retries, dups, rec, faults>>

\* reconcile_stuck_processing_leads, one at a time, row after row: half an hour
\* (BB_STUCK_CALL_STALE_MINUTES) may have passed since any call began.
StartSweep(h, c) ==
    /\ row[c] = "PROCESSING"
    /\ \A g \in Handlers : kind[g] # "sweep"
    /\ Begin(h, "sweep", c)
    /\ UNCHANGED <<numberVars, callVars, seen, retries, dups, rec, faults>>

At(h, step) == todo[h] # <<>> /\ Head(todo[h]) = step

\* The handler's next call is its last when it stops or has no step left.
Leave(h) ==
    /\ todo' = [todo EXCEPT ![h] = <<>>]
    /\ kind' = [kind EXCEPT ![h] = "none"]
    /\ call' = [call EXCEPT ![h] = Nothing]
    /\ seen' = [seen EXCEPT ![h] = "NONE"]

Advance(h) ==
    IF Len(todo[h]) = 1 THEN Leave(h)
    ELSE todo' = [todo EXCEPT ![h] = Tail(@)] /\ UNCHANGED <<kind, call, seen>>

Remember(h, s) ==
    /\ todo' = [todo EXCEPT ![h] = Tail(@)]
    /\ seen' = [seen EXCEPT ![h] = s]
    /\ UNCHANGED <<kind, call>>

\* get_lead_by_call_id
ReadLead(h) ==
    /\ At(h, "read") /\ Remember(h, row[call[h]])
    /\ UNCHANGED <<numberVars, callVars, sent, retries, dups, rec, faults>>

\* The row, as the handler read it, is already closed.
SkipFinished(h) ==
    /\ At(h, "skip")
    /\ IF seen[h] = "FINISHED" THEN Leave(h) ELSE Advance(h)
    /\ UNCHANGED <<numberVars, callVars, sent, retries, dups, rec, faults>>

\* acquire_lock_on_lead_by_id(PROCESSING, force): the row stays PROCESSING.  A
\* row whose pipeline left an outcome is left to the reaper.
ClaimLead(h) ==
    /\ At(h, "claim")
    /\ \/ row[call[h]] = "PROCESSING" /\ Remember(h, "PROCESSING")
       \/ (row[call[h]] # "PROCESSING" \/ kind[h] = "completed") /\ Leave(h)
    /\ UNCHANGED <<numberVars, callVars, sent, retries, dups, rec, faults>>

\* The completion UPDATE with expected_status=PROCESSING.
WinLead(h) ==
    /\ At(h, "win")
    /\ IF row[call[h]] = "PROCESSING"
       THEN Advance(h) /\ row' = [row EXCEPT ![call[h]] = "FINISHED"]
       ELSE Leave(h) /\ UNCHANGED row
    /\ UNCHANGED <<numberVars, pc, onLine, sent, retries, dups, rec, faults>>

\* update_lead_call_completion_details by id alone.  Its accessor swallows a
\* failure; without its config a callback stops short of it.
FinishLead(h) ==
    /\ At(h, "finish")
    /\ \/ /\ row' = [row EXCEPT ![call[h]] = "FINISHED"]
          /\ Advance(h) /\ NoFault
       \/ Fault /\ UNCHANGED row /\ (Advance(h) \/ Leave(h))
    /\ UNCHANGED <<numberVars, pc, onLine, sent, retries, dups, rec>>

\* Mutant of owesChannel: every ending gives the channel back.
owesChannel_Always(h) == TRUE

\* _releases_capacity: an inbound row is the receipt only while PROCESSING.
owesChannel(h) == call[h] \in Inbound => seen[h] = "PROCESSING"

ReleaseLine(h) ==
    /\ At(h, "line") /\ Advance(h)
    /\ IF owesChannel(h) THEN decrement ELSE UNCHANGED <<channels, faults>>
    /\ UNCHANGED <<tokens, callVars, sent, retries, dups, rec>>

ReleaseToken(h) ==
    /\ At(h, "token") /\ Advance(h)
    /\ IF call[h] \in Outbound THEN release_channel_token
       ELSE UNCHANGED <<tokens, faults>>
    /\ UNCHANGED <<channels, callVars, sent, retries, dups, rec>>

\* _retry_call, unless the outcome, the mode or the attempts say no.
RetryCall(h) ==
    /\ At(h, "retry") /\ Leave(h)
    /\ \/ UNCHANGED retries
       \/ /\ call[h] \in Outbound
          /\ retries' = [retries EXCEPT ![call[h]] = @ + 1]
    /\ UNCHANGED <<numberVars, callVars, sent, dups, rec, faults>>

\* The pod dies with the handler half way.
LoseHandler(h) ==
    /\ todo[h] # <<>> /\ Fault /\ Leave(h)
    /\ UNCHANGED <<numberVars, callVars, sent, retries, dups, rec>>

-----------------------------------------------------------------------------
(* reconcile_channel_tokens: three reads, then one correction.             *)

ReadNumbers ==
    /\ Reconciling /\ rec.at = "idle"
    /\ rec' = [rec EXCEPT !.at = "count", !.channels = channels]
    /\ UNCHANGED <<numberVars, callVars, handlerVars, faults>>

CountProcessing ==
    /\ rec.at = "count"
    /\ rec' = [rec EXCEPT !.at = "list", !.busy = Cardinality(Processing)]
    /\ UNCHANGED <<numberVars, callVars, handlerVars, faults>>

ReadList ==
    /\ rec.at = "list"
    /\ rec' = [rec EXCEPT !.at = "act", !.listed = tokens]
    /\ UNCHANGED <<numberVars, callVars, handlerVars, faults>>

expectedFree_ByRows == minus(Maximum, rec.busy)
expectedFree == minus(Maximum, larger(rec.busy, rec.channels))

\* Redis keeps no empty list, so a list seen empty does not exist: it is
\* rebuilt (DEL and RPUSH) unless nothing is free.
Correct ==
    /\ rec.at = "act"
    /\ \/ /\ rec.listed = 0 /\ rec' = IdleRec
          /\ tokens' = IF expectedFree > 0 THEN expectedFree ELSE tokens
       \/ /\ rec.listed > 0 /\ rec.listed <= expectedFree /\ rec' = IdleRec
          /\ tokens' = tokens + (expectedFree - rec.listed)
       \/ /\ rec.listed > expectedFree
          /\ rec' = [IdleRec EXCEPT !.at = "trim",
                                    !.listed = rec.listed - expectedFree]
          /\ UNCHANGED tokens
    /\ UNCHANGED <<channels, callVars, handlerVars, faults>>

\* trim_channel_tokens: one LPOP at a time, until the list is empty.
Trim ==
    /\ rec.at = "trim"
    /\ IF rec.listed > 0 /\ tokens > 0
       THEN tokens' = tokens - 1 /\ rec' = [rec EXCEPT !.listed = @ - 1]
       ELSE rec' = IdleRec /\ UNCHANGED tokens
    /\ UNCHANGED <<channels, callVars, handlerVars, faults>>

-----------------------------------------------------------------------------
DispatchStep(c) ==
    \/ AcquireToken(c) \/ AcquireNumber(c) \/ Dial(c) \/ ReturnLine(c)
    \/ ReturnToken(c) \/ RecordCall(c) \/ CreateInboundLead(c)

CallEvent(c) == AdmitInbound(c) \/ HangUp(c) \/ LoseWorker(c)

HandlerStep(h) ==
    \/ ReadLead(h) \/ SkipFinished(h) \/ ClaimLead(h) \/ WinLead(h)
    \/ FinishLead(h) \/ ReleaseLine(h) \/ ReleaseToken(h) \/ RetryCall(h)

Callbacks == {"completion", "unanswered", "completed", "ivrBlock"}

Reconcile == ReadNumbers \/ CountProcessing \/ ReadList \/ Correct \/ Trim

Next ==
    \/ \E c \in Calls : DispatchStep(c) \/ CallEvent(c)
    \/ \E h \in Handlers, c \in Calls :
        StartSweep(h, c) \/ \E k \in Callbacks : Deliver(h, k, c)
    \/ \E h \in Handlers : HandlerStep(h) \/ LoseHandler(h)
    \/ Reconcile

Spec == Init /\ [][Next]_vars

\* Workers, handlers and the scheduled reconcilers keep running, calls end and
\* time passes; callbacks, new calls and failures need not come.
Fairness ==
    /\ \A c \in Calls : /\ WF_vars(DispatchStep(c)) /\ WF_vars(HangUp(c))
                         /\ SF_vars(\E h \in Handlers : StartSweep(h, c))
    /\ \A h \in Handlers : WF_vars(HandlerStep(h))
    /\ WF_vars(Reconcile)

FairSpec == Spec /\ Fairness
=============================================================================
