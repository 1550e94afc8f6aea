-------------------------- MODULE CallCapacityProofs --------------------------
(***************************************************************************)
(* What TLAPS proves of CallCapacity, for any calls, handlers and channels, *)
(* any number of duplicates and failures, with the reconciler or without:  *)
(* whoever still has a channel to give back is counted in the column.      *)
(***************************************************************************)
EXTENDS CallCapacityProps, FiniteSetTheorems, TLAPS

-----------------------------------------------------------------------------
(* The plans of the handlers, and where each can be in its own.            *)

Kinds == Callbacks \cup {"sweep"}
Steps == {"read", "line", "token", "skip", "claim", "win", "finish", "retry"}

\* What a handler can have left to do.
Suffixes == [
    completion |-> {<<"read", "line", "token", "finish", "retry">>,
                    <<"line", "token", "finish", "retry">>,
                    <<"token", "finish", "retry">>, <<"finish", "retry">>, <<"retry">>},
    unanswered |-> {<<"read", "line", "token", "skip", "finish", "retry">>,
                    <<"line", "token", "skip", "finish", "retry">>,
                    <<"token", "skip", "finish", "retry">>,
                    <<"skip", "finish", "retry">>, <<"finish", "retry">>, <<"retry">>},
    completed  |-> {<<"read", "skip", "claim", "finish", "line", "token", "retry">>,
                    <<"skip", "claim", "finish", "line", "token", "retry">>,
                    <<"claim", "finish", "line", "token", "retry">>,
                    <<"finish", "line", "token", "retry">>,
                    <<"line", "token", "retry">>, <<"token", "retry">>, <<"retry">>},
    sweep      |-> {<<"claim", "finish", "line", "token", "retry">>,
                    <<"finish", "line", "token", "retry">>,
                    <<"line", "token", "retry">>, <<"token", "retry">>, <<"retry">>},
    ivrBlock   |-> {<<"read", "win", "line">>, <<"win", "line">>, <<"line">>}]

\* One step and the next.
Follows == [
    completion |-> {<<"read", "line">>, <<"line", "token">>, <<"token", "finish">>,
                    <<"finish", "retry">>},
    unanswered |-> {<<"read", "line">>, <<"line", "token">>, <<"token", "skip">>,
                    <<"skip", "finish">>, <<"finish", "retry">>},
    completed  |-> {<<"read", "skip">>, <<"skip", "claim">>, <<"claim", "finish">>,
                    <<"finish", "line">>, <<"line", "token">>, <<"token", "retry">>},
    sweep      |-> {<<"claim", "finish">>, <<"finish", "line">>, <<"line", "token">>,
                    <<"token", "retry">>},
    ivrBlock   |-> {<<"read", "win">>, <<"win", "line">>}]

\* The steps from which a handler still comes to the line; to the end of the row.
LineAhead == [
    completion |-> {"read", "line"},
    unanswered |-> {"read", "line"},
    completed  |-> {"read", "skip", "claim", "finish", "line"},
    sweep      |-> {"claim", "finish", "line"},
    ivrBlock   |-> {"read", "win", "line"}]
FinishAhead == [
    completion |-> {"read", "line", "token", "finish"},
    unanswered |-> {"read", "line", "token", "skip", "finish"},
    completed  |-> {"read", "skip", "claim", "finish"},
    sweep      |-> {"claim", "finish"},
    ivrBlock   |-> {"read", "win"}]

Facts(k, s) ==
    /\ s \in Seq(Steps) /\ s # <<>> /\ Head(s) \in Steps
    /\ (\E i \in 1 .. Len(s) : s[i] = "line") <=> Head(s) \in LineAhead[k]
    /\ Head(s) = "skip" => k \in {"unanswered", "completed"}
    /\ Head(s) = "claim" => k \in {"completed", "sweep"}
    /\ Head(s) = "win" => k = "ivrBlock"
    /\ Len(s) = 1 <=> Head(s) = "retry" \/ (k = "ivrBlock" /\ Head(s) = "line")
    /\ Len(s) # 1 => Tail(s) \in Suffixes[k] /\ <<Head(s), Head(Tail(s))>> \in Follows[k]

LEMMA CompletionPath == \A s \in Suffixes["completion"] : Facts("completion", s)
<1> SUFFICES ASSUME NEW s \in Suffixes["completion"] PROVE Facts("completion", s)
  OBVIOUS
<1>1. CASE s = <<"read", "line", "token", "finish", "retry">>
  BY <1>1 DEF Suffixes, Facts, LineAhead, Steps, Follows
<1>2. CASE s = <<"line", "token", "finish", "retry">>
  BY <1>2 DEF Suffixes, Facts, LineAhead, Steps, Follows
<1>3. CASE s = <<"token", "finish", "retry">>
  BY <1>3 DEF Suffixes, Facts, LineAhead, Steps, Follows
<1>4. CASE s = <<"finish", "retry">>
  BY <1>4 DEF Suffixes, Facts, LineAhead, Steps, Follows
<1>5. CASE s = <<"retry">>
  BY <1>5 DEF Suffixes, Facts, LineAhead, Steps, Follows
<1> QED
  BY <1>1, <1>2, <1>3, <1>4, <1>5 DEF Suffixes

LEMMA UnansweredPath == \A s \in Suffixes["unanswered"] : Facts("unanswered", s)
<1> SUFFICES ASSUME NEW s \in Suffixes["unanswered"] PROVE Facts("unanswered", s)
  OBVIOUS
<1>1. CASE s = <<"read", "line", "token", "skip", "finish", "retry">>
  BY <1>1 DEF Suffixes, Facts, LineAhead, Steps, Follows
<1>2. CASE s = <<"line", "token", "skip", "finish", "retry">>
  BY <1>2 DEF Suffixes, Facts, LineAhead, Steps, Follows
<1>3. CASE s = <<"token", "skip", "finish", "retry">>
  BY <1>3 DEF Suffixes, Facts, LineAhead, Steps, Follows
<1>4. CASE s = <<"skip", "finish", "retry">>
  BY <1>4 DEF Suffixes, Facts, LineAhead, Steps, Follows
<1>5. CASE s = <<"finish", "retry">>
  BY <1>5 DEF Suffixes, Facts, LineAhead, Steps, Follows
<1>6. CASE s = <<"retry">>
  BY <1>6 DEF Suffixes, Facts, LineAhead, Steps, Follows
<1> QED
  BY <1>1, <1>2, <1>3, <1>4, <1>5, <1>6 DEF Suffixes

LEMMA CompletedPath == \A s \in Suffixes["completed"] : Facts("completed", s)
<1> SUFFICES ASSUME NEW s \in Suffixes["completed"] PROVE Facts("completed", s)
  OBVIOUS
<1>1. CASE s = <<"read", "skip", "claim", "finish", "line", "token", "retry">>
  BY <1>1 DEF Suffixes, Facts, LineAhead, Steps, Follows
<1>2. CASE s = <<"skip", "claim", "finish", "line", "token", "retry">>
  BY <1>2 DEF Suffixes, Facts, LineAhead, Steps, Follows
<1>3. CASE s = <<"claim", "finish", "line", "token", "retry">>
  BY <1>3 DEF Suffixes, Facts, LineAhead, Steps, Follows
<1>4. CASE s = <<"finish", "line", "token", "retry">>
  BY <1>4 DEF Suffixes, Facts, LineAhead, Steps, Follows
<1>5. CASE s = <<"line", "token", "retry">>
  BY <1>5 DEF Suffixes, Facts, LineAhead, Steps, Follows
<1>6. CASE s = <<"token", "retry">>
  BY <1>6 DEF Suffixes, Facts, LineAhead, Steps, Follows
<1>7. CASE s = <<"retry">>
  BY <1>7 DEF Suffixes, Facts, LineAhead, Steps, Follows
<1> QED
  BY <1>1, <1>2, <1>3, <1>4, <1>5, <1>6, <1>7 DEF Suffixes

LEMMA SweepPath == \A s \in Suffixes["sweep"] : Facts("sweep", s)
<1> SUFFICES ASSUME NEW s \in Suffixes["sweep"] PROVE Facts("sweep", s)
  OBVIOUS
<1>1. CASE s = <<"claim", "finish", "line", "token", "retry">>
  BY <1>1 DEF Suffixes, Facts, LineAhead, Steps, Follows
<1>2. CASE s = <<"finish", "line", "token", "retry">>
  BY <1>2 DEF Suffixes, Facts, LineAhead, Steps, Follows
<1>3. CASE s = <<"line", "token", "retry">>
  BY <1>3 DEF Suffixes, Facts, LineAhead, Steps, Follows
<1>4. CASE s = <<"token", "retry">>
  BY <1>4 DEF Suffixes, Facts, LineAhead, Steps, Follows
<1>5. CASE s = <<"retry">>
  BY <1>5 DEF Suffixes, Facts, LineAhead, Steps, Follows
<1> QED
  BY <1>1, <1>2, <1>3, <1>4, <1>5 DEF Suffixes

LEMMA IvrBlockPath == \A s \in Suffixes["ivrBlock"] : Facts("ivrBlock", s)
<1> SUFFICES ASSUME NEW s \in Suffixes["ivrBlock"] PROVE Facts("ivrBlock", s)
  OBVIOUS
<1>1. CASE s = <<"read", "win", "line">>
  BY <1>1 DEF Suffixes, Facts, LineAhead, Steps, Follows
<1>2. CASE s = <<"win", "line">>
  BY <1>2 DEF Suffixes, Facts, LineAhead, Steps, Follows
<1>3. CASE s = <<"line">>
  BY <1>3 DEF Suffixes, Facts, LineAhead, Steps, Follows
<1> QED
  BY <1>1, <1>2, <1>3 DEF Suffixes
LEMMA PlanFacts ==
    ASSUME NEW k \in Kinds, NEW s \in Suffixes[k]
    PROVE  Facts(k, s)
  BY CompletionPath, UnansweredPath, CompletedPath, SweepPath, IvrBlockPath
     DEF Kinds, Callbacks

LEMMA PlanStarts ==
    ASSUME NEW k \in Kinds
    PROVE  Plan[k] \in Suffixes[k] /\ Head(Plan[k]) = IF k = "sweep" THEN "claim" ELSE "read"
  BY DEF Kinds, Callbacks, Plan, Suffixes

-----------------------------------------------------------------------------
(* The shape of the variables.                                             *)

NumberTypes ==
    /\ tokens \in Nat /\ channels \in 0 .. Maximum
    /\ rec \in [at : {"idle", "count", "list", "act", "trim"},
                channels : Nat, busy : Nat, listed : Nat]
    /\ ~Reconciling => rec.at = "idle"
    /\ faults \in 0 .. MaxFaults
CallTypes ==
    /\ row \in [Calls -> Rows] /\ onLine \in [Calls -> BOOLEAN]
    /\ pc \in [Calls -> OutboundPCs \cup InboundPCs]
    /\ \A c \in Outbound : pc[c] \in OutboundPCs
    /\ \A c \in Inbound : pc[c] \in InboundPCs
HandlerTypes ==
    /\ sent \in [Calls -> SUBSET Kinds]
    /\ kind \in [Handlers -> Kinds \cup {"none"}]
    /\ call \in [Handlers -> Calls \cup {Nothing}]
    /\ seen \in [Handlers -> Rows]
    /\ todo \in [Handlers -> Seq(Steps)]
    /\ retries \in [Calls -> Nat] /\ dups \in 0 .. MaxDuplicates

\* A handler that runs has a call, and the rest of its plan; the others nothing.
InPlan ==
    \A h \in Handlers :
        /\ todo[h] # <<>> => /\ call[h] \in Calls /\ kind[h] \in Kinds
                              /\ todo[h] \in Suffixes[kind[h]]
        /\ todo[h] = <<>> => call[h] = Nothing /\ kind[h] = "none" /\ seen[h] = "NONE"
Types == NumberTypes /\ CallTypes /\ HandlerTypes /\ InPlan

LEMMA TypesAreRight == Types => TypeOK
  BY DEF Types, NumberTypes, CallTypes, HandlerTypes, TypeOK, Kinds, Callbacks

LEMMA TypesInit == Init => Types
<1> SUFFICES ASSUME Init PROVE Types
  OBVIOUS
<1>1. NumberTypes
  BY NumbersAssumption DEF Init, NumberTypes, IdleRec
<1>2. CallTypes
  BY DEF Init, CallTypes, Calls, Rows, OutboundPCs, InboundPCs
<1>3. HandlerTypes
  BY NumbersAssumption DEF Init, HandlerTypes, Rows
<1>4. InPlan
  BY DEF Init, InPlan
<1> QED
  BY <1>1, <1>2, <1>3, <1>4 DEF Types

\* How a handler's step leaves it: at the next step of its plan, or idle.
Onward(h) ==
    /\ todo'[h] # <<>> /\ todo'[h] \in Suffixes[kind[h]]
    /\ <<Head(todo[h]), Head(todo'[h])>> \in Follows[kind[h]]
Others(h) ==
    \A g \in Handlers \ {h} : /\ todo'[g] = todo[g] /\ kind'[g] = kind[g]
                              /\ call'[g] = call[g] /\ seen'[g] = seen[g]
Moved(h, s) ==
    /\ Onward(h) /\ kind'[h] = kind[h] /\ call'[h] = call[h] /\ seen'[h] = s
Ended(h) ==
    todo'[h] = <<>> /\ kind'[h] = "none" /\ call'[h] = Nothing /\ seen'[h] = "NONE"
Started(h, k, c) ==
    /\ todo[h] = <<>> /\ todo'[h] = Plan[k]
    /\ kind'[h] = k /\ call'[h] = c /\ seen'[h] = seen[h]

FourTypes ==
    /\ kind' \in [Handlers -> Kinds \cup {"none"}]
    /\ call' \in [Handlers -> Calls \cup {Nothing}]
    /\ seen' \in [Handlers -> Rows]
    /\ todo' \in [Handlers -> Seq(Steps)]

LEMMA LeaveEnds ==
    ASSUME Types, NEW h \in Handlers, Leave(h)
    PROVE  Ended(h) /\ Others(h) /\ FourTypes /\ InPlan'
<1>1. Ended(h) /\ Others(h)
  BY DEF Leave, Ended, Others, Types, HandlerTypes
<1>2. FourTypes
  BY DEF Leave, FourTypes, Types, HandlerTypes, Rows
<1>3. InPlan'
  BY <1>1 DEF Ended, Others, Types, InPlan
<1> QED
  BY <1>1, <1>2, <1>3

LEMMA TailMoves ==
    ASSUME Types, NEW h \in Handlers, todo[h] # <<>>, Len(todo[h]) # 1, NEW s \in Rows,
           todo' = [todo EXCEPT ![h] = Tail(@)], seen' = [seen EXCEPT ![h] = s],
           UNCHANGED <<kind, call>>
    PROVE  Moved(h, s) /\ Others(h) /\ FourTypes /\ InPlan'
<1>1. Facts(kind[h], todo[h])
  BY PlanFacts DEF Types, InPlan
<1>2. kind[h] \in Kinds /\ todo'[h] = Tail(todo[h])
  BY DEF Types, HandlerTypes, InPlan
<1>3. Tail(todo[h]) \in Suffixes[kind[h]]
  BY <1>1 DEF Facts
<1>4. Facts(kind[h], Tail(todo[h]))
  BY <1>2, <1>3, PlanFacts
<1>5. Onward(h)
  BY <1>1, <1>2, <1>3, <1>4 DEF Onward, Facts
<1>6. Moved(h, s) /\ Others(h)
  BY <1>5 DEF Moved, Others, Types, HandlerTypes
<1>7. FourTypes
  BY <1>2, <1>4 DEF Facts, FourTypes, Types, HandlerTypes
<1>8. InPlan'
  BY <1>2, <1>5, <1>6 DEF Moved, Onward, Others, Types, InPlan
<1> QED
  BY <1>6, <1>7, <1>8

LEMMA AdvanceMoves ==
    ASSUME Types, NEW h \in Handlers, todo[h] # <<>>, Advance(h)
    PROVE  /\ \/ Moved(h, seen[h])
              \/ /\ Ended(h)
                 /\ Head(todo[h]) = "retry" \/ (kind[h] = "ivrBlock" /\ Head(todo[h]) = "line")
           /\ Others(h) /\ FourTypes /\ InPlan'
<1>1. CASE Len(todo[h]) = 1
  <2>1. Facts(kind[h], todo[h])
    BY PlanFacts DEF Types, InPlan
  <2>2. Head(todo[h]) = "retry" \/ (kind[h] = "ivrBlock" /\ Head(todo[h]) = "line")
    BY <1>1, <2>1 DEF Facts
  <2> QED
    BY <1>1, <2>2, LeaveEnds DEF Advance
<1>2. CASE Len(todo[h]) # 1
  <2>1. seen' = [seen EXCEPT ![h] = seen[h]] /\ seen[h] \in Rows
    BY <1>2 DEF Advance, Types, HandlerTypes
  <2> QED
    BY <1>2, <2>1, TailMoves DEF Advance
<1> QED
  BY <1>1, <1>2

\* Only the last step of a plan is the only one left.
LEMMA NotTheLast ==
    ASSUME Types, NEW h \in Handlers, NEW x \in {"read", "skip", "claim", "win", "finish"},
           At(h, x)
    PROVE  Len(todo[h]) # 1
<1>1. Facts(kind[h], todo[h])
  BY PlanFacts DEF Types, InPlan, At
<1> QED
  BY <1>1 DEF Facts, At

LEMMA BeginStarts ==
    ASSUME Types, NEW h \in Handlers, NEW k \in Kinds, NEW c \in Calls, Begin(h, k, c),
           UNCHANGED seen
    PROVE  /\ Started(h, k, c) /\ Others(h) /\ FourTypes /\ InPlan'
           /\ sent' \in [Calls -> SUBSET Kinds]
<1>1. Started(h, k, c) /\ Others(h)
  BY DEF Begin, Started, Others, Types, HandlerTypes
<1>2. Facts(k, Plan[k]) /\ Plan[k] \in Suffixes[k]
  BY PlanStarts, PlanFacts
<1>3. FourTypes
  BY <1>2 DEF Begin, Facts, FourTypes, Types, HandlerTypes
<1>4. InPlan'
  <2>1. Plan[k] # <<>>
    BY <1>2 DEF Facts
  <2> QED
    BY <1>1, <1>2, <2>1 DEF Started, Others, Types, InPlan
<1>5. sent' \in [Calls -> SUBSET Kinds]
  BY DEF Begin, Types, HandlerTypes
<1> QED
  BY <1>1, <1>3, <1>4, <1>5

-----------------------------------------------------------------------------
(* Every step keeps the shape.                                             *)

LEMMA FaultCounts ==
    ASSUME Types, Fault \/ NoFault
    PROVE  /\ faults' \in 0 .. MaxFaults
           /\ Fault => faults' = faults + 1
           /\ NoFault => faults' = faults
  BY NumbersAssumption DEF Fault, NoFault, Types, NumberTypes

LEMMA DecrementBounds ==
    ASSUME Types, decrement
    PROVE  /\ channels' \in 0 .. Maximum /\ faults' \in 0 .. MaxFaults
           /\ \/ channels' = minus(channels, 1) /\ faults' = faults
              \/ channels' = channels /\ faults' = faults + 1
<1>1. faults' \in 0 .. MaxFaults
  BY FaultCounts DEF decrement
<1> QED
  BY <1>1, NumbersAssumption DEF decrement, minus, Fault, NoFault, Types, NumberTypes

LEMMA ReleaseBounds ==
    ASSUME Types, release_channel_token
    PROVE  /\ tokens' \in Nat /\ faults' \in 0 .. MaxFaults
           /\ \/ tokens' = tokens + 1 /\ faults' = faults
              \/ tokens' = tokens /\ faults' = faults + 1
<1>1. faults' \in 0 .. MaxFaults
  BY FaultCounts DEF release_channel_token
<1> QED
  BY <1>1 DEF release_channel_token, Fault, NoFault, Types, NumberTypes

LEMMA WorkersKeepTypes ==
    ASSUME Types, NEW c \in Calls, DispatchStep(c) \/ CallEvent(c)
    PROVE  Types'
<1> USE DEF Types
<1>1. HandlerTypes' /\ InPlan'
  <2>1. UNCHANGED handlerVars
    BY DEF DispatchStep, CallEvent, AcquireToken, AcquireNumber, Dial, ReturnLine,
       ReturnToken, RecordCall, CreateInboundLead, AdmitInbound, HangUp, LoseWorker
  <2> QED
    BY <2>1 DEF handlerVars, HandlerTypes, InPlan
<1>2. NumberTypes' /\ CallTypes'
  <2>1. c \in Outbound => pc[c] \in OutboundPCs /\ c \notin Inbound
    BY CallsAssumption DEF CallTypes
  <2>2. c \in Inbound => pc[c] \in InboundPCs /\ c \notin Outbound
    BY CallsAssumption DEF CallTypes
  <2>3. CASE AcquireToken(c)
    BY <2>3, <2>1, <2>2 DEF AcquireToken, Goto, NumberTypes, CallTypes, OutboundPCs,
       InboundPCs, Calls
  <2>4. CASE AcquireNumber(c)
    <3>1. faults' \in 0 .. MaxFaults
      BY <2>4, FaultCounts DEF AcquireNumber
    <3>2. channels' \in 0 .. Maximum
      BY <2>4, NumbersAssumption DEF AcquireNumber, hasFreeChannel, NumberTypes
    <3> QED
      BY <2>4, <2>1, <2>2, <3>1, <3>2 DEF AcquireNumber, Goto, NumberTypes, CallTypes,
         OutboundPCs, InboundPCs, Calls
  <2>5. CASE Dial(c)
    BY <2>5, <2>1, <2>2 DEF Dial, Goto, numberVars, NumberTypes, CallTypes, OutboundPCs,
       InboundPCs, Calls
  <2>6. CASE ReturnLine(c)
    <3>1. channels' \in 0 .. Maximum /\ faults' \in 0 .. MaxFaults
      BY <2>6, DecrementBounds DEF ReturnLine
    <3> QED
      BY <2>6, <2>1, <2>2, <3>1 DEF ReturnLine, Goto, NumberTypes, CallTypes,
         OutboundPCs, InboundPCs, Calls
  <2>7. CASE ReturnToken(c)
    <3>1. tokens' \in Nat /\ faults' \in 0 .. MaxFaults
      BY <2>7, ReleaseBounds DEF ReturnToken
    <3> QED
      BY <2>7, <2>1, <2>2, <3>1 DEF ReturnToken, Goto, NumberTypes, CallTypes,
         OutboundPCs, InboundPCs, Calls
  <2>8. CASE RecordCall(c)
    <3>1. faults' \in 0 .. MaxFaults
      BY <2>8, FaultCounts DEF RecordCall
    <3> QED
      BY <2>8, <2>1, <2>2, <3>1 DEF RecordCall, Goto, numberVars, NumberTypes, CallTypes,
         OutboundPCs, InboundPCs, Calls, Rows
  <2>9. CASE CreateInboundLead(c)
    <3>1. faults' \in 0 .. MaxFaults
      BY <2>9, FaultCounts DEF CreateInboundLead
    <3>2. NumberTypes'
      BY <2>9, <3>1 DEF CreateInboundLead, numberVars, NumberTypes
    <3>3. c \notin Outbound /\ "done" \in InboundPCs /\ "gone" \in InboundPCs
      BY <2>9, <2>1 DEF CreateInboundLead, OutboundPCs, InboundPCs
    <3>4. CASE /\ row' = [row EXCEPT ![c] = "PROCESSING"]
               /\ pc' = [pc EXCEPT ![c] = "done"] /\ UNCHANGED onLine
      BY <3>2, <3>3, <3>4 DEF CallTypes, Calls, Rows
    <3>5. CASE /\ pc' = [pc EXCEPT ![c] = "gone"]
               /\ onLine' = [onLine EXCEPT ![c] = FALSE] /\ UNCHANGED row
      BY <3>2, <3>3, <3>5 DEF CallTypes, Calls
    <3> QED
      BY <2>9, <3>2, <3>4, <3>5 DEF CreateInboundLead, Goto
  <2>10. CASE AdmitInbound(c)
    <3>1. faults' \in 0 .. MaxFaults
      BY <2>10, FaultCounts DEF AdmitInbound
    <3>2. channels' \in 0 .. Maximum
      BY <2>10, NumbersAssumption DEF AdmitInbound, hasFreeChannel, NumberTypes
    <3> QED
      BY <2>10, <2>1, <2>2, <3>1, <3>2 DEF AdmitInbound, Goto, NumberTypes, CallTypes,
         OutboundPCs, InboundPCs, Calls
  <2>11. CASE HangUp(c)
    BY <2>11 DEF HangUp, numberVars, NumberTypes, CallTypes
  <2>12. CASE LoseWorker(c)
    <3>1. faults' \in 0 .. MaxFaults
      BY <2>12, FaultCounts DEF LoseWorker
    <3> QED
      BY <2>12, <2>1, <2>2, <3>1 DEF LoseWorker, Goto, numberVars, NumberTypes, CallTypes,
         OutboundPCs, InboundPCs, Calls
  <2> QED
    BY <2>3, <2>4, <2>5, <2>6, <2>7, <2>8, <2>9, <2>10, <2>11, <2>12
       DEF DispatchStep, CallEvent
<1> QED
  BY <1>1, <1>2

LEMMA StartsKeepTypes ==
    ASSUME Types, NEW h \in Handlers, NEW c \in Calls,
           StartSweep(h, c) \/ \E k \in Callbacks : Deliver(h, k, c)
    PROVE  Types'
<1>1. PICK k \in Kinds : Begin(h, k, c)
  BY DEF StartSweep, Deliver, Kinds
<1>2. UNCHANGED <<numberVars, callVars, seen, retries, rec, faults>>
  BY DEF StartSweep, Deliver
<1>3. dups' \in 0 .. MaxDuplicates
  BY NumbersAssumption DEF StartSweep, Deliver, Types, HandlerTypes
<1>4. FourTypes /\ InPlan' /\ sent' \in [Calls -> SUBSET Kinds]
  BY <1>1, <1>2, BeginStarts
<1>5. NumberTypes' /\ CallTypes'
  BY <1>2 DEF numberVars, callVars, Types, NumberTypes, CallTypes
<1>6. HandlerTypes'
  BY <1>2, <1>3, <1>4 DEF FourTypes, Types, HandlerTypes
<1> QED
  BY <1>4, <1>5, <1>6 DEF Types

LEMMA HandlersKeepTypes ==
    ASSUME Types, NEW h \in Handlers, HandlerStep(h) \/ LoseHandler(h)
    PROVE  Types'
<1>1. todo[h] # <<>> /\ call[h] \in Calls
  BY DEF HandlerStep, LoseHandler, At, ReadLead, SkipFinished, ClaimLead, WinLead,
     FinishLead, ReleaseLine, ReleaseToken, RetryCall, Types, InPlan
<1>2. FourTypes /\ InPlan'
  <2>1. CASE Leave(h) \/ Advance(h)
    BY <1>1, <2>1, LeaveEnds, AdvanceMoves
  <2>2. CASE ReadLead(h)
    BY <1>1, <2>2, NotTheLast, TailMoves DEF ReadLead, Remember, At, Types, CallTypes
  <2>3. CASE ClaimLead(h) /\ Remember(h, "PROCESSING")
    <3>1. "PROCESSING" \in Rows
      BY DEF Rows
    <3> QED
      BY <1>1, <2>3, <3>1, NotTheLast, TailMoves DEF ClaimLead, Remember, At
  <2> QED
    BY <2>1, <2>2, <2>3 DEF HandlerStep, LoseHandler, SkipFinished, ClaimLead, WinLead,
       FinishLead, ReleaseLine, ReleaseToken, RetryCall
<1>3. faults' \in 0 .. MaxFaults /\ channels' \in 0 .. Maximum /\ tokens' \in Nat
  BY FaultCounts, DecrementBounds, ReleaseBounds DEF HandlerStep, LoseHandler, ReadLead,
     SkipFinished, ClaimLead, WinLead, FinishLead, ReleaseLine, ReleaseToken, RetryCall,
     numberVars, Types, NumberTypes
<1>4. UNCHANGED <<pc, onLine, sent, dups, rec>>
  BY DEF HandlerStep, LoseHandler, ReadLead, SkipFinished, ClaimLead, WinLead, FinishLead,
     ReleaseLine, ReleaseToken, RetryCall, callVars
<1>5. row' \in [Calls -> Rows]
  <2>1. UNCHANGED row \/ row' = [row EXCEPT ![call[h]] = "FINISHED"]
    BY DEF HandlerStep, LoseHandler, ReadLead, SkipFinished, ClaimLead, WinLead,
       FinishLead, ReleaseLine, ReleaseToken, RetryCall, callVars
  <2> QED
    BY <2>1 DEF Types, CallTypes, Rows
<1>6. retries' \in [Calls -> Nat]
  <2>1. \/ UNCHANGED retries
        \/ retries' = [retries EXCEPT ![call[h]] = @ + 1]
    BY DEF HandlerStep, LoseHandler, ReadLead, SkipFinished, ClaimLead, WinLead,
       FinishLead, ReleaseLine, ReleaseToken, RetryCall
  <2>2. retries \in [Calls -> Nat] /\ retries[call[h]] + 1 \in Nat
    BY <1>1 DEF Types, HandlerTypes
  <2> QED
    BY <2>1, <2>2
<1> QED
  BY <1>2, <1>3, <1>4, <1>5, <1>6 DEF FourTypes, Types, NumberTypes, CallTypes, HandlerTypes

LEMMA ReconcilerKeepsTypes ==
    ASSUME Types, Reconcile
    PROVE  /\ Types'
           /\ UNCHANGED <<channels, callVars, handlerVars, faults>>
           /\ ~Reconciling => rec.at # "idle"
<1>1. UNCHANGED <<channels, callVars, handlerVars, faults>>
  BY DEF Reconcile, ReadNumbers, CountProcessing, ReadList, Correct, Trim, numberVars
<1>2. ~Reconciling => rec.at # "idle"
  BY DEF Reconcile, ReadNumbers, CountProcessing, ReadList, Correct, Trim
<1>3. expectedFree \in Nat
  BY NumbersAssumption DEF expectedFree, minus, larger, Types, NumberTypes
<1>4. Cardinality(Processing) \in Nat
  BY FinitenessAssumption, FS_Subset, FS_CardinalityType DEF Processing
<1>5. NumberTypes'
  <2>1. CASE ReadNumbers
    <3>1. channels \in Nat
      BY NumbersAssumption DEF Types, NumberTypes
    <3> QED
      BY <2>1, <3>1, <1>1 DEF ReadNumbers, numberVars, Types, NumberTypes
  <2>2. CASE CountProcessing
    BY <2>2, <1>1, <1>4 DEF CountProcessing, numberVars, Types, NumberTypes
  <2>3. CASE ReadList
    BY <2>3, <1>1 DEF ReadList, numberVars, Types, NumberTypes
  <2>4. CASE Correct
    <3>1. rec.listed \in Nat /\ tokens \in Nat /\ faults \in 0 .. MaxFaults
      BY DEF Types, NumberTypes
    <3>2. CASE rec.listed <= expectedFree
      BY <2>4, <3>1, <3>2, <1>1, <1>3 DEF Correct, IdleRec, Types, NumberTypes
    <3>3. CASE rec.listed > expectedFree
      <4>1. rec.listed - expectedFree \in Nat
        BY <3>1, <3>3, <1>3
      <4>2. CASE rec' = IdleRec
        BY <2>4, <4>2, <3>1, <1>1, <1>3 DEF Correct, IdleRec, Types, NumberTypes
      <4>3. CASE /\ rec' = [IdleRec EXCEPT !.at = "trim",
                                           !.listed = rec.listed - expectedFree]
                 /\ UNCHANGED tokens
        BY <2>4, <4>1, <4>3, <3>1, <1>1 DEF Correct, IdleRec, Types, NumberTypes
      <4> QED
        BY <2>4, <4>2, <4>3 DEF Correct
    <3> QED
      BY <3>1, <3>2, <3>3, <1>3
  <2>5. CASE Trim
    BY <2>5, <1>1 DEF Trim, IdleRec, Types, NumberTypes
  <2> QED
    BY <2>1, <2>2, <2>3, <2>4, <2>5 DEF Reconcile
<1> QED
  BY <1>1, <1>2, <1>5 DEF callVars, handlerVars, Types, CallTypes, HandlerTypes, InPlan

LEMMA TypesStep == Types /\ [Next]_vars => Types'
<1> SUFFICES ASSUME Types, [Next]_vars PROVE Types'
  OBVIOUS
<1>1. CASE UNCHANGED vars
  BY <1>1 DEF vars, numberVars, callVars, handlerVars, Types, NumberTypes, CallTypes,
     HandlerTypes, InPlan
<1> QED
  BY <1>1, WorkersKeepTypes, StartsKeepTypes, HandlersKeepTypes, ReconcilerKeepsTypes
     DEF Next

\* Every variable keeps its shape, and the two conditional UPDATEs keep the
\* channels column between zero and the number's limit, at any rate of failure
\* and duplication.
THEOREM TypeCorrect == Spec => []TypeOK
<1>1. Init => Types
  BY TypesInit
<1>2. Types /\ [Next]_vars => Types'
  BY TypesStep
<1>3. Types => TypeOK
  BY TypesAreRight
<1> QED
  BY <1>1, <1>2, <1>3, PTL DEF Spec

-----------------------------------------------------------------------------
(* What is known of a call and of the handler at work on it, when every     *)
(* grace period is long enough.                                            *)

at(h) == Head(todo[h])
Busy == {h \in Handlers : todo[h] # <<>>}

\* What the handler read is what the row still says, until it writes the row.
HandlerOK(h) ==
    /\ kind[h] \in sent[call[h]] /\ row[call[h]] # "NONE"
    /\ at(h) = "read" => seen[h] = "NONE"
    /\ at(h) = "claim" => seen[h] = IF kind[h] = "sweep" THEN "NONE" ELSE "PROCESSING"
    /\ at(h) \notin {"read", "claim"} =>
        /\ seen[h] # "NONE"
        /\ at(h) \in FinishAhead[kind[h]] => seen[h] = row[call[h]]
    /\ kind[h] \in {"completed", "sweep"} =>
        /\ at(h) \in {"finish", "line"} => seen[h] = "PROCESSING"
        /\ at(h) \in {"claim", "finish"} => row[call[h]] = "PROCESSING"
    /\ kind[h] = "ivrBlock" =>
        /\ call[h] \in Inbound
        /\ at(h) = "line" => row[call[h]] = "FINISHED" /\ seen[h] = "PROCESSING"
        /\ at(h) # "line" => row[call[h]] = "PROCESSING"
    /\ kind[h] \in {"completion", "unanswered"} /\ call[h] \in Outbound =>
        /\ at(h) \in FinishAhead[kind[h]] => row[call[h]] = "PROCESSING"
        /\ at(h) = "line" => seen[h] = "PROCESSING"
    /\ faults = 0 /\ at(h) \notin FinishAhead[kind[h]] => row[call[h]] = "FINISHED"
    /\ faults = 0 /\ retries[call[h]] > 0 => kind[h] = "completed" /\ at(h) \in {"read", "skip"}

\* No two handlers work on one call.
Alone == \A g, h \in Busy : call[g] = call[h] => g = h

\* The endings that do not wait for the line.
Early(c) == {"completion", "ivrBlock"} \cup {k \in {"sweep"} : c \in Inbound}

\* A row is written after its dial, and closed by a callback or the sweep.
CallOK(c) ==
    /\ pc[c] \in {"ready", "token", "line", "returnLine", "returnToken", "placed",
                  "admitted"} => row[c] = "NONE"
    /\ row[c] = "NONE" => sent[c] = {}
    /\ c \in Outbound => "ivrBlock" \notin sent[c]
    /\ c \in Outbound /\ row[c] = "FINISHED" => sent[c] # {}
    /\ pc[c] \in {"orphan", "orphanToken"} => faults > 0
    /\ pc[c] = "gone" /\ c \in Outbound => faults > 0
    /\ faults = 0 /\ onLine[c] /\ sent[c] = {} =>
        pc[c] \in {"placed", "admitted"} \/ row[c] = "PROCESSING"
    /\ onLine[c] => sent[c] \subseteq Early(c)
    /\ faults = 0 /\ retries[c] > 0 =>
        c \in Outbound /\ row[c] = "FINISHED" /\ retries[c] = 1

Settled == (\A h \in Busy : HandlerOK(h)) /\ Alone /\ \A c \in Calls : CallOK(c)

LEMMA SettledInit == Init => Settled
  BY DEF Init, Settled, Busy, Alone, CallOK

\* Nothing a handler relies on has changed.
LEMMA HandlerUntouched ==
    ASSUME NEW h \in Handlers, HandlerOK(h), UNCHANGED <<todo[h], kind[h], call[h], seen[h]>>,
           UNCHANGED <<row[call[h]], sent[call[h]], retries[call[h]]>>,
           faults' = 0 => faults = 0
    PROVE  HandlerOK(h)'
  BY DEF HandlerOK, at

LEMMA CallUntouched ==
    ASSUME NEW c \in Calls, CallOK(c), UNCHANGED <<pc[c], row[c], sent[c], retries[c]>>,
           onLine'[c] => onLine[c], faults' = 0 => faults = 0, Types, Types'
    PROVE  CallOK(c)'
  BY NumbersAssumption DEF CallOK, Early, Types, NumberTypes

LEMMA WorkersSettle ==
    ASSUME Types, Types', Settled, NEW c \in Calls, DispatchStep(c) \/ CallEvent(c)
    PROVE  Settled'
<1>1. UNCHANGED handlerVars
  BY DEF DispatchStep, CallEvent, AcquireToken, AcquireNumber, Dial, ReturnLine,
     ReturnToken, RecordCall, CreateInboundLead, AdmitInbound, HangUp, LoseWorker
<1>2. faults' = 0 => faults = 0
  BY FaultCounts, DecrementBounds, ReleaseBounds, NumbersAssumption
     DEF DispatchStep, CallEvent, AcquireToken, AcquireNumber, Dial, ReturnLine,
     ReturnToken, RecordCall, CreateInboundLead, AdmitInbound, HangUp, LoseWorker,
     Types, NumberTypes
<1>3. \A d \in Calls \ {c} : UNCHANGED <<pc[d], row[d], onLine[d]>>
  BY DEF DispatchStep, CallEvent, AcquireToken, AcquireNumber, Dial, ReturnLine,
     ReturnToken, RecordCall, CreateInboundLead, AdmitInbound, HangUp, LoseWorker, Goto,
     Types, CallTypes
<1>4. row[c] # "NONE" => UNCHANGED row
  BY DEF DispatchStep, CallEvent, AcquireToken, AcquireNumber, Dial, ReturnLine,
     ReturnToken, RecordCall, CreateInboundLead, AdmitInbound, HangUp, LoseWorker, Goto,
     Types, CallTypes, Settled, CallOK
<1>5. ASSUME NEW h \in Busy' PROVE HandlerOK(h)'
  <2>1. h \in Busy /\ h \in Handlers /\ HandlerOK(h) /\ call[h] \in Calls
    BY <1>1 DEF Busy, handlerVars, Settled, Types, InPlan
  <2>2. UNCHANGED row[call[h]]
    BY <1>1, <1>3, <1>4, <2>1 DEF HandlerOK, handlerVars
  <2> QED
    BY <1>1, <1>2, <2>1, <2>2, HandlerUntouched DEF handlerVars
<1>6. Alone'
  BY <1>1 DEF Alone, Busy, handlerVars, Settled
<1>7. ASSUME NEW d \in Calls \ {c} PROVE CallOK(d)'
  BY <1>1, <1>2, <1>3, CallUntouched DEF Settled, handlerVars
<1>8. CallOK(c)'
  <2>0. /\ c \in Calls /\ CallOK(c) /\ UNCHANGED <<sent, retries>> /\ faults \in Nat
        /\ faults' \in Nat
    BY <1>1, NumbersAssumption DEF Settled, handlerVars, Types, NumberTypes
  <2>1. CASE AcquireToken(c)
    BY <2>0, <2>1 DEF AcquireToken, Goto, CallOK, Types, CallTypes
  <2>2. CASE AcquireNumber(c)
    BY <2>0, <2>2 DEF AcquireNumber, Goto, CallOK, Types, CallTypes, Fault, NoFault
  <2>3. CASE Dial(c)
    BY <2>0, <2>3 DEF Dial, Goto, CallOK, Types, CallTypes
  <2>4. CASE ReturnLine(c)
    BY <2>0, <2>4, <1>2, DecrementBounds DEF ReturnLine, Goto, CallOK, Types, CallTypes
  <2>5. CASE ReturnToken(c)
    BY <2>0, <2>5, <1>2, ReleaseBounds DEF ReturnToken, Goto, CallOK, Types, CallTypes
  <2>6. CASE RecordCall(c)
    BY <2>0, <2>6 DEF RecordCall, Goto, CallOK, Types, CallTypes, Fault, NoFault
  <2>7. CASE CreateInboundLead(c)
    BY <2>0, <2>7, CallsAssumption DEF CreateInboundLead, Goto, CallOK, Types, CallTypes,
       Fault, NoFault, OutboundPCs
  <2>8. CASE AdmitInbound(c)
    BY <2>0, <2>8, CallsAssumption DEF AdmitInbound, Goto, CallOK, Types, CallTypes, Fault,
       NoFault
  <2>9. CASE HangUp(c)
    BY <2>0, <2>9 DEF HangUp, CallOK, Early, Types, CallTypes
  <2>10. CASE LoseWorker(c)
    BY <2>0, <2>10 DEF LoseWorker, Goto, CallOK, Types, CallTypes, Fault
  <2> QED
    BY <2>1, <2>2, <2>3, <2>4, <2>5, <2>6, <2>7, <2>8, <2>9, <2>10
       DEF DispatchStep, CallEvent
<1> QED
  BY <1>5, <1>6, <1>7, <1>8 DEF Settled

LEMMA StartsSettle ==
    ASSUME Timely, Types, Types', Settled, NEW h \in Handlers, NEW c \in Calls,
           StartSweep(h, c) \/ \E k \in Callbacks : Deliver(h, k, c)
    PROVE  Settled'
<1>1. PICK k \in Kinds :
        /\ Begin(h, k, c) /\ row[c] # "NONE"
        /\ k = "ivrBlock" => c \in Inbound /\ row[c] = "PROCESSING" /\ onLine[c]
        /\ k = "sweep" => row[c] = "PROCESSING"
  BY DEF StartSweep, Deliver, Kinds, Callbacks
<1>2. UNCHANGED <<numberVars, callVars, seen, retries, rec, faults>>
  BY DEF StartSweep, Deliver
<1>3. Started(h, k, c) /\ Others(h) /\ Head(Plan[k]) = IF k = "sweep" THEN "claim" ELSE "read"
  BY <1>1, <1>2, BeginStarts, PlanStarts
<1>4. InTime(k, c)
  BY <1>1 DEF Begin
<1>5. /\ \A d \in Calls \ {c} : sent'[d] = sent[d]
      /\ sent'[c] = sent[c] \cup {k}
  BY <1>1 DEF Begin, Types, HandlerTypes
<1>6. \A g \in Busy : g # h /\ call[g] \in Calls \ {c}
  BY <1>3, <1>4 DEF Started, Busy, InTime, AtWorkOn, Types, InPlan
<1>7. \A g \in Busy' : g = h \/ g \in Busy
  BY <1>3 DEF Busy, Others
<1>8. ASSUME NEW g \in Busy PROVE HandlerOK(g)'
  BY <1>2, <1>3, <1>5, <1>6, HandlerUntouched DEF Others, Busy, Settled, callVars
<1>9. HandlerOK(h)'
  <2>1. /\ todo'[h] = Plan[k] /\ kind'[h] = k /\ call'[h] = c /\ seen'[h] = "NONE"
        /\ UNCHANGED <<row, onLine, retries, faults>>
    BY <1>2, <1>3 DEF Started, callVars, Types, InPlan
  <2>2. CallOK(c) /\ row[c] \in Rows
    BY DEF Settled, Types, CallTypes
  <2>3. k \in {"completion", "unanswered"} /\ c \in Outbound => row[c] = "PROCESSING"
    BY <1>1, <1>4, <2>2 DEF InTime, CallOK, Rows, Types, HandlerTypes
  <2>4. Head(Plan[k]) \in FinishAhead[k]
    BY <1>3 DEF FinishAhead, Kinds, Callbacks
  <2>5. faults = 0 /\ retries[c] > 0 => k = "completed"
    BY <1>1, <1>4, <2>2, CallsAssumption DEF InTime, CallOK, Kinds, Callbacks
  <2> QED
    BY <1>1, <1>3, <1>5, <2>1, <2>3, <2>4, <2>5 DEF HandlerOK, at
<1>10. Alone'
  BY <1>3, <1>6, <1>7 DEF Started, Others, Alone, Busy, Settled
<1>11. ASSUME NEW d \in Calls \ {c} PROVE CallOK(d)'
  BY <1>2, <1>5, CallUntouched DEF callVars, Settled
<1>12. CallOK(c)'
  <2>1. CallOK(c) /\ UNCHANGED <<pc, row, onLine, retries, faults>>
    BY <1>2 DEF Settled, callVars
  <2>2. c \in Outbound => k # "ivrBlock"
    BY <1>1, CallsAssumption
  <2>3. onLine[c] => k \in Early(c)
    BY <1>4 DEF InTime, GraceOver, Early, Kinds, Callbacks, Calls
  <2>4. onLine[c] => sent'[c] \subseteq Early(c)
    BY <1>5, <2>1, <2>3 DEF CallOK
  <2> QED
    BY <1>1, <1>5, <2>1, <2>2, <2>4 DEF CallOK, Early
<1> QED
  BY <1>7, <1>8, <1>9, <1>10, <1>11, <1>12 DEF Settled

\* The same as tables.
FollowTable(k, x, y) ==
    /\ x = "read" => \/ k \in {"completion", "unanswered"} /\ y = "line"
                     \/ k = "completed" /\ y = "skip"
                     \/ k = "ivrBlock" /\ y = "win"
    /\ x = "skip" => \/ k = "unanswered" /\ y = "finish"
                     \/ k = "completed" /\ y = "claim"
    /\ x = "claim" => k \in {"completed", "sweep"} /\ y = "finish"
    /\ x = "win" => k = "ivrBlock" /\ y = "line"
    /\ x = "finish" => \/ k \in {"completion", "unanswered"} /\ y = "retry"
                       \/ k \in {"completed", "sweep"} /\ y = "line"
    /\ x = "line" => k # "ivrBlock" /\ y = "token"
    /\ x = "token" => \/ k = "completion" /\ y = "finish"
                      \/ k = "unanswered" /\ y = "skip"
                      \/ k \in {"completed", "sweep"} /\ y = "retry"
    /\ x # "retry"
AheadTable(k, x) ==
    /\ x \in FinishAhead[k] <=>
         \/ x = "read" /\ k # "sweep"
         \/ x = "finish" /\ k # "ivrBlock"
         \/ x \in {"line", "token"} /\ k \in {"completion", "unanswered"}
         \/ x = "skip" /\ k \in {"unanswered", "completed"}
         \/ x = "claim" /\ k \in {"completed", "sweep"}
         \/ x = "win" /\ k = "ivrBlock"
    /\ x \in LineAhead[k] <=>
         \/ x = "read" /\ k # "sweep"
         \/ x = "line"
         \/ x = "skip" /\ k = "completed"
         \/ x \in {"claim", "finish"} /\ k \in {"completed", "sweep"}
         \/ x = "win" /\ k = "ivrBlock"

LEMMA WhatFollows ==
    ASSUME NEW k \in Kinds, NEW x, NEW y, <<x, y>> \in Follows[k]
    PROVE  FollowTable(k, x, y)
<1>1. k \in {"completion", "unanswered", "completed", "sweep", "ivrBlock"}
  BY DEF Kinds, Callbacks
<1>2. CASE k = "completion"
  BY <1>2 DEF Follows, FollowTable
<1>3. CASE k = "unanswered"
  BY <1>3 DEF Follows, FollowTable
<1>4. CASE k = "completed"
  BY <1>4 DEF Follows, FollowTable
<1>5. CASE k = "sweep"
  BY <1>5 DEF Follows, FollowTable
<1>6. CASE k = "ivrBlock"
  BY <1>6 DEF Follows, FollowTable
<1> QED
  BY <1>1, <1>2, <1>3, <1>4, <1>5, <1>6

LEMMA WhatIsAhead ==
    ASSUME NEW k \in Kinds, NEW x
    PROVE  AheadTable(k, x)
<1>1. k \in {"completion", "unanswered", "completed", "sweep", "ivrBlock"}
  BY DEF Kinds, Callbacks
<1>2. CASE k = "completion"
  BY <1>2 DEF FinishAhead, LineAhead, AheadTable
<1>3. CASE k = "unanswered"
  BY <1>3 DEF FinishAhead, LineAhead, AheadTable
<1>4. CASE k = "completed"
  BY <1>4 DEF FinishAhead, LineAhead, AheadTable
<1>5. CASE k = "sweep"
  BY <1>5 DEF FinishAhead, LineAhead, AheadTable
<1>6. CASE k = "ivrBlock"
  BY <1>6 DEF FinishAhead, LineAhead, AheadTable
<1> QED
  BY <1>1, <1>2, <1>3, <1>4, <1>5, <1>6

\* What every step of a handler leaves alone.
LEMMA HandlerMoves ==
    ASSUME Types, NEW h \in Handlers, HandlerStep(h) \/ LoseHandler(h)
    PROVE  /\ todo[h] # <<>> /\ call[h] \in Calls /\ kind[h] \in Kinds /\ seen[h] \in Rows
           /\ Others(h) /\ UNCHANGED <<pc, onLine, sent, dups, rec>>
           /\ Ended(h) \/ \E s \in Rows : Moved(h, s)
           /\ \A c \in Calls \ {call[h]} : UNCHANGED <<row[c], retries[c]>>
           /\ row'[call[h]] \in {row[call[h]], "FINISHED"}
           /\ faults' \in {faults, faults + 1}
<1>1. /\ todo[h] # <<>> /\ call[h] \in Calls /\ kind[h] \in Kinds /\ seen[h] \in Rows
      /\ row[call[h]] \in Rows /\ "PROCESSING" \in Rows
  BY DEF HandlerStep, LoseHandler, At, ReadLead, SkipFinished, ClaimLead, WinLead,
     FinishLead, ReleaseLine, ReleaseToken, RetryCall, Types, InPlan, HandlerTypes,
     CallTypes, Rows
<1>2. Others(h) /\ (Ended(h) \/ \E s \in Rows : Moved(h, s))
  <2>1. CASE Leave(h) \/ Advance(h)
    BY <1>1, <2>1, LeaveEnds, AdvanceMoves
  <2>2. CASE ReadLead(h)
    BY <1>1, <2>2, NotTheLast, TailMoves DEF ReadLead, Remember, At
  <2>3. CASE ClaimLead(h) /\ Remember(h, "PROCESSING")
    BY <1>1, <2>3, NotTheLast, TailMoves DEF ClaimLead, Remember, At
  <2> QED
    BY <2>1, <2>2, <2>3 DEF HandlerStep, LoseHandler, SkipFinished, ClaimLead, WinLead,
       FinishLead, ReleaseLine, ReleaseToken, RetryCall
<1>3. UNCHANGED <<pc, onLine, sent, dups, rec>>
  BY DEF HandlerStep, LoseHandler, ReadLead, SkipFinished, ClaimLead, WinLead, FinishLead,
     ReleaseLine, ReleaseToken, RetryCall, callVars
<1>4. UNCHANGED row \/ row' = [row EXCEPT ![call[h]] = "FINISHED"]
  BY DEF HandlerStep, LoseHandler, ReadLead, SkipFinished, ClaimLead, WinLead, FinishLead,
     ReleaseLine, ReleaseToken, RetryCall, callVars
<1>5. UNCHANGED retries \/ retries' = [retries EXCEPT ![call[h]] = @ + 1]
  BY DEF HandlerStep, LoseHandler, ReadLead, SkipFinished, ClaimLead, WinLead, FinishLead,
     ReleaseLine, ReleaseToken, RetryCall
<1>6. faults' \in {faults, faults + 1}
  BY DEF HandlerStep, LoseHandler, ReadLead, SkipFinished, ClaimLead, WinLead, FinishLead,
     ReleaseLine, ReleaseToken, RetryCall, decrement, release_channel_token, Fault, NoFault
<1>7. \A c \in Calls \ {call[h]} : UNCHANGED <<row[c], retries[c]>>
  BY <1>4, <1>5 DEF Types, CallTypes, HandlerTypes
<1>8. row'[call[h]] \in {row[call[h]], "FINISHED"}
  BY <1>1, <1>4 DEF Types, CallTypes
<1> QED
  BY <1>1, <1>2, <1>3, <1>6, <1>7, <1>8

LEMMA HandlersSettle ==
    ASSUME Types, Types', Settled, NEW h \in Handlers, HandlerStep(h) \/ LoseHandler(h)
    PROVE  Settled'
<1>0. PICK c \in Calls, k \in Kinds : c = call[h] /\ k = kind[h]
  BY HandlerMoves
<1>1. /\ todo[h] # <<>> /\ c \in Calls /\ k \in Kinds /\ HandlerOK(h) /\ CallOK(c)
      /\ row[c] \in Rows /\ seen[h] \in Rows /\ row'[c] \in {row[c], "FINISHED"}
      /\ Others(h) /\ UNCHANGED <<pc, onLine, sent, dups, rec>>
      /\ \A d \in Calls \ {c} : UNCHANGED <<row[d], retries[d]>>
      /\ faults \in Nat /\ faults' \in {faults, faults + 1}
  BY <1>0, HandlerMoves, NumbersAssumption DEF Settled, Busy, Types, CallTypes, NumberTypes
<1>2. \A g \in Busy \ {h} : call[g] \in Calls \ {c}
  BY <1>0, <1>1 DEF Settled, Alone, Busy, Types, InPlan
<1>3. faults' = 0 => faults = 0
  BY <1>1
<1>4. \A g \in Busy' \ {h} : g \in Busy
  BY <1>1 DEF Busy, Others
<1>5. ASSUME NEW g \in Busy' \ {h} PROVE HandlerOK(g)'
  <2>1. g \in Busy \ {h} /\ g \in Handlers /\ HandlerOK(g) /\ call[g] \in Calls \ {c}
    BY <1>2, <1>4 DEF Busy, Settled
  <2>2. UNCHANGED <<todo[g], kind[g], call[g], seen[g]>>
    BY <1>1, <2>1 DEF Others
  <2> QED
    BY <1>1, <1>3, <2>1, <2>2, HandlerUntouched
<1>6. ASSUME h \in Busy' PROVE HandlerOK(h)'
  <2>1. PICK s \in Rows : Moved(h, s)
    BY <1>6, HandlerMoves DEF Ended, Busy
  <2>2. /\ kind'[h] = k /\ call'[h] = c /\ seen'[h] = s
        /\ <<at(h), at(h)'>> \in Follows[k]
    BY <1>0, <2>1 DEF Moved, Onward, at
  <2>3. ~Leave(h) /\ ~Ended(h)
    BY <1>6, LeaveEnds DEF Ended, Busy
  <2>4. Advance(h) => s = seen[h]
    BY <1>1, <2>2, <2>3, AdvanceMoves DEF Moved
  <2> USE <1>0, <1>1, <1>3, <2>2, WhatFollows, WhatIsAhead DEF FollowTable, AheadTable
  <2>5. CASE ReadLead(h)
    <3>1. at(h) = "read" /\ s = row[c] /\ UNCHANGED <<row, retries, faults>>
      BY <2>5 DEF ReadLead, At, at, Remember, callVars, Types, HandlerTypes
    <3> QED
      BY <3>1 DEF HandlerOK
  <2>6. CASE SkipFinished(h)
    <3>1. /\ at(h) = "skip" /\ seen[h] # "FINISHED" /\ s = seen[h]
          /\ UNCHANGED <<row, retries, faults>>
      BY <2>3, <2>4, <2>6 DEF SkipFinished, At, at, callVars
    <3>2. row[c] = "PROCESSING" /\ s = "PROCESSING"
      BY <3>1 DEF HandlerOK, Rows
    <3>3. CASE k = "unanswered" /\ at(h)' = "finish"
      BY <3>1, <3>2, <3>3 DEF HandlerOK
    <3>4. CASE k = "completed" /\ at(h)' = "claim"
      BY <3>1, <3>2, <3>4 DEF HandlerOK, CallOK
    <3> QED
      BY <3>1, <3>3, <3>4
  <2>7. CASE ClaimLead(h)
    <3>1. /\ at(h) = "claim" /\ row[c] = "PROCESSING" /\ s = "PROCESSING"
          /\ UNCHANGED <<row, retries, faults>>
      BY <2>3, <2>7 DEF ClaimLead, At, at, Remember, callVars, Types, HandlerTypes
    <3> QED
      BY <3>1 DEF HandlerOK
  <2>8. CASE WinLead(h)
    <3>1. /\ at(h) = "win" /\ row[c] = "PROCESSING" /\ s = seen[h]
          /\ row'[c] = "FINISHED" /\ UNCHANGED <<retries, faults>>
      BY <2>3, <2>4, <2>8 DEF WinLead, At, at, Types, CallTypes
    <3> QED
      BY <3>1 DEF HandlerOK
  <2>9. CASE FinishLead(h)
    <3>1. /\ at(h) = "finish" /\ s = seen[h] /\ UNCHANGED retries
          /\ row'[c] = "FINISHED" \/ (UNCHANGED row /\ faults' # 0)
      BY <2>3, <2>4, <2>9 DEF FinishLead, At, at, Types, CallTypes, Fault
    <3> QED
      BY <3>1 DEF HandlerOK
  <2>10. CASE ReleaseLine(h)
    <3>1. at(h) = "line" /\ s = seen[h] /\ UNCHANGED <<row, retries>>
      BY <2>4, <2>10 DEF ReleaseLine, At, at, callVars
    <3> QED
      BY <3>1 DEF HandlerOK
  <2>11. CASE ReleaseToken(h)
    <3>1. at(h) = "token" /\ s = seen[h] /\ UNCHANGED <<row, retries>>
      BY <2>4, <2>11 DEF ReleaseToken, At, at, callVars
    <3> QED
      BY <3>1 DEF HandlerOK
  <2> QED
    BY <2>3, <2>5, <2>6, <2>7, <2>8, <2>9, <2>10, <2>11 DEF HandlerStep, RetryCall,
       LoseHandler
<1>7. Alone'
  <2>1. Ended(h) \/ call'[h] = c
    BY <1>0, HandlerMoves DEF Moved
  <2> QED
    BY <1>1, <1>2, <1>4, <2>1 DEF Alone, Busy, Others, Ended, Settled
<1>8. ASSUME NEW d \in Calls \ {c} PROVE CallOK(d)'
  BY <1>1, <1>3, CallUntouched DEF Settled
<1>9. CallOK(c)'
  <2>1. retries'[c] = retries[c] \/ (RetryCall(h) /\ c \in Outbound /\ retries'[c] = retries[c] + 1)
    BY <1>0, <1>1 DEF HandlerStep, LoseHandler, ReadLead, SkipFinished, ClaimLead, WinLead,
       FinishLead, ReleaseLine, ReleaseToken, RetryCall, Types, HandlerTypes
  <2>2. retries[c] \in Nat
    BY <1>1 DEF Types, HandlerTypes
  <2>3. RetryCall(h) => at(h) = "retry" /\ UNCHANGED <<row, faults>>
    BY DEF RetryCall, At, at, callVars
  <2>4. RetryCall(h) /\ faults = 0 => row[c] = "FINISHED" /\ retries[c] = 0
    BY <1>0, <1>1, <2>2, <2>3, WhatIsAhead DEF HandlerOK, AheadTable
  <2>5. row'[c] # row[c] => row'[c] = "FINISHED"
    BY <1>1
  <2>6. row[c] # "NONE" /\ row'[c] # "NONE" /\ sent[c] # {}
    BY <1>0, <1>1 DEF HandlerOK
  <2>7. faults' = 0 /\ retries'[c] > 0 => c \in Outbound /\ row'[c] = "FINISHED" /\ retries'[c] = 1
    BY <1>1, <1>3, <2>1, <2>2, <2>3, <2>4, <2>5 DEF CallOK
  <2>8. faults' > 0 \/ faults = 0
    BY <1>1
  <2> QED
    BY <1>1, <1>3, <2>5, <2>6, <2>7, <2>8 DEF CallOK
<1> QED
  BY <1>4, <1>5, <1>6, <1>7, <1>8, <1>9 DEF Settled

LEMMA SettledStep ==
    ASSUME Timely
    PROVE  Types /\ Settled /\ [Next]_vars => Settled'
<1> SUFFICES ASSUME Types, Settled, [Next]_vars PROVE Settled'
  OBVIOUS
<1>1. Types'
  BY TypesStep
<1>2. CASE Reconcile \/ UNCHANGED vars
  <2>1. UNCHANGED <<callVars, handlerVars, faults>>
    BY <1>2, ReconcilerKeepsTypes DEF vars
  <2> QED
    BY <2>1 DEF callVars, handlerVars, Settled, Busy, HandlerOK, Alone, CallOK, at
<1> QED
  BY <1>1, <1>2, WorkersSettle, StartsSettle, HandlersSettle DEF Next

\* While nothing fails, no order of callbacks and sweeps inserts a second retry
\* row for one call: the handler that inserts it has closed the row.
THEOREM RetriesOnce ==
    ASSUME Timely
    PROVE  Spec => []RetriedOnce
<1>1. Init => Types /\ Settled
  BY TypesInit, SettledInit
<1>2. Types /\ Settled /\ [Next]_vars => Types' /\ Settled'
  BY TypesStep, SettledStep
<1>3. Types /\ Settled => RetriedOnce
  BY DEF Settled, CallOK, RetriedOnce, Types, HandlerTypes
<1> QED
  BY <1>1, <1>2, <1>3, PTL DEF Spec

-----------------------------------------------------------------------------
(* Who holds a channel, and what is owed.                                  *)

AtWorker == {c \in Calls : pc[c] \in {"line", "returnLine", "placed", "orphan", "admitted"}}
AtRow == {c \in Calls :
    \/ row[c] = "PROCESSING" /\ \A h \in AtWorkOn(c) : WillRelease(h)
    \/ /\ row[c] = "FINISHED"
       /\ \E h \in AtWorkOn(c) : WillRelease(h) /\ seen[h] = "PROCESSING"}

\* Handlers whose UPDATE of the row failed: the sweep will end the call again.
Unfinished == {h \in Busy : at(h) \notin FinishAhead[kind[h]] /\ row[call[h]] = "PROCESSING"}

\* Outbound calls whose token is in a worker's or a handler's hand alone.
InHand == {c \in Outbound : pc[c] \in {"token", "returnToken"}}
Between == {h \in Busy : at(h) = "token" /\ call[h] \in Outbound}

\* A failure costs a call at most one channel: none is lost...
Counted == channels <= Cardinality(AtWorker \cup AtRow) + faults

\* ...and none given twice, by the rows that will be ended again included.
Backed ==
    Cardinality(AtWorker) + Cardinality(AtRow) + Cardinality(Unfinished) <= channels + faults

\* The tokens, wherever they are, fit beside the lines of outbound calls.
Paired ==
    ~Reconciling /\ faults = 0 =>
        tokens + Cardinality(InHand) + Cardinality(AtWorker \cap Outbound)
            + Cardinality(AtRow \cap Outbound) + Cardinality(Between) <= Maximum

LEMMA Holders == ASSUME NEW c \in Calls PROVE HoldsChannel(c) <=> c \in AtWorker \cup AtRow
  BY DEF HoldsChannel, AtWorker, AtRow

\* A row read as r by a handler that read it as s is good for one channel.
Owed(r, s) == r = "PROCESSING" \/ (r = "FINISHED" /\ s = "PROCESSING")

\* What a row holds, by the place of the one handler at work on it.
RowsSeen ==
    \A c \in Calls :
        /\ (\A h \in Busy : call[h] # c) => (c \in AtRow <=> row[c] = "PROCESSING")
        /\ \A h \in Busy : call[h] = c =>
            (c \in AtRow <=> /\ at(h) \in LineAhead[kind[h]]
                             /\ Owed(row[c], seen[h]))

LEMMA RowsAreSeen == Types /\ Settled => RowsSeen
<1> SUFFICES ASSUME Types, Settled, NEW c \in Calls
             PROVE  /\ (\A h \in Busy : call[h] # c) => (c \in AtRow <=> row[c] = "PROCESSING")
                    /\ \A h \in Busy : call[h] = c =>
                        (c \in AtRow <=> /\ at(h) \in LineAhead[kind[h]]
                                         /\ Owed(row[c], seen[h]))
  BY DEF RowsSeen
<1>1. AtWorkOn(c) = {h \in Busy : call[h] = c}
  BY CallsAssumption DEF AtWorkOn, Busy, Types, InPlan
<1>2. \A h \in Busy : WillRelease(h) <=> at(h) \in LineAhead[kind[h]]
  <2>1. \A h \in Busy : Facts(kind[h], todo[h])
    BY PlanFacts DEF Busy, Types, InPlan
  <2> QED
    BY <2>1 DEF Facts, WillRelease, at
<1>3. ASSUME \A h \in Busy : call[h] # c PROVE c \in AtRow <=> row[c] = "PROCESSING"
  BY <1>1, <1>3 DEF AtRow
<1>4. ASSUME NEW h \in Busy, call[h] = c
      PROVE  c \in AtRow <=> /\ at(h) \in LineAhead[kind[h]]
                             /\ Owed(row[c], seen[h])
  <2>1. AtWorkOn(c) = {h}
    BY <1>1, <1>4 DEF Settled, Alone
  <2> QED
    BY <1>2, <1>4, <2>1 DEF AtRow, Owed
<1> QED
  BY <1>3, <1>4

bit(b) == IF b THEN 1 ELSE 0

LEMMA Flip ==
    ASSUME NEW S, NEW T, NEW x, IsFiniteSet(S), IsFiniteSet(T), S \ {x} = T \ {x}
    PROVE  /\ Cardinality(S) \in Nat /\ Cardinality(T) \in Nat
           /\ Cardinality(T) + bit(x \in S) = Cardinality(S) + bit(x \in T)
<1>1. Cardinality(S) \in Nat /\ Cardinality(T) \in Nat
  BY FS_CardinalityType
<1>2. Cardinality(S \ {x}) = Cardinality(S) - bit(x \in S)
  BY <1>1, FS_RemoveElement DEF bit
<1>3. Cardinality(T \ {x}) = Cardinality(T) - bit(x \in T)
  BY <1>1, FS_RemoveElement DEF bit
<1>4. bit(x \in S) \in Nat /\ bit(x \in T) \in Nat
  BY DEF bit
<1>5. Cardinality(S \ {x}) = Cardinality(T \ {x})
  OBVIOUS
<1> QED
  BY <1>1, <1>2, <1>3, <1>4, <1>5

AllFinite ==
    /\ IsFiniteSet(AtWorker) /\ IsFiniteSet(AtRow) /\ IsFiniteSet(Unfinished)
    /\ IsFiniteSet(AtWorker \cup AtRow) /\ IsFiniteSet(InHand) /\ IsFiniteSet(Between)
    /\ IsFiniteSet(AtWorker \cap Outbound) /\ IsFiniteSet(AtRow \cap Outbound)

LEMMA AllAreFinite == AllFinite /\ AllFinite'
<1>1. IsFiniteSet(Calls) /\ IsFiniteSet(Handlers)
  BY FinitenessAssumption
<1>2. AllFinite
  <2>1. /\ AtWorker \subseteq Calls /\ AtRow \subseteq Calls /\ InHand \subseteq Calls
        /\ Unfinished \subseteq Handlers /\ Between \subseteq Handlers
    BY DEF AtWorker, AtRow, InHand, Unfinished, Between, Busy, Calls
  <2> QED
    BY <1>1, <2>1, FS_Subset DEF AllFinite
<1>3. AllFinite'
  <2>1. /\ AtWorker' \subseteq Calls /\ AtRow' \subseteq Calls /\ InHand' \subseteq Calls
        /\ Unfinished' \subseteq Handlers /\ Between' \subseteq Handlers
    BY DEF AtWorker, AtRow, InHand, Unfinished, Between, Busy, Calls
  <2> QED
    BY <1>1, <2>1, FS_Subset DEF AllFinite
<1> QED
  BY <1>2, <1>3

\* A step that touches one call and one handler, and what it does to each.
Touches(c, h) ==
    /\ AtWorker' \ {c} = AtWorker \ {c} /\ AtRow' \ {c} = AtRow \ {c}
    /\ InHand' \ {c} = InHand \ {c}
    /\ Unfinished' \ {h} = Unfinished \ {h} /\ Between' \ {h} = Between \ {h}
KeepsCounted(c) ==
    \/ channels' = 0
    \/ channels' + faults + bit(c \in AtWorker \cup AtRow)
          <= channels + faults' + bit(c \in AtWorker' \cup AtRow')
KeepsBacked(c, h) ==
    channels + faults + bit(c \in AtWorker') + bit(c \in AtRow') + bit(h \in Unfinished')
        <= channels' + faults' + bit(c \in AtWorker) + bit(c \in AtRow) + bit(h \in Unfinished)
KeepsPaired(c, h) ==
    ~Reconciling /\ faults' = 0 =>
        /\ faults = 0
        /\ c \in Outbound =>
            tokens' + bit(c \in InHand') + bit(c \in AtWorker') + bit(c \in AtRow')
                    + bit(h \in Between')
                <= tokens + bit(c \in InHand) + bit(c \in AtWorker) + bit(c \in AtRow)
                        + bit(h \in Between)
        /\ c \in Inbound => tokens' = tokens /\ (h \in Between <=> h \in Between')

LEMMA CountsCarry ==
    ASSUME Types, Types', Counted, Backed, Paired, NEW c \in Calls, NEW h, Touches(c, h),
           KeepsCounted(c), KeepsBacked(c, h), KeepsPaired(c, h)
    PROVE  Counted' /\ Backed' /\ Paired'
<1>1. /\ channels \in Nat /\ channels' \in Nat /\ faults \in Nat /\ faults' \in Nat
      /\ tokens \in Nat /\ tokens' \in Nat /\ Maximum \in Nat
  BY NumbersAssumption DEF Types, NumberTypes
<1>2. \A b : bit(b) \in {0, 1}
  BY DEF bit
<1>3. Counted'
  <2>1. (AtWorker \cup AtRow)' \ {c} = (AtWorker \cup AtRow) \ {c}
    BY DEF Touches
  <2>2. /\ Cardinality(AtWorker \cup AtRow) \in Nat
        /\ Cardinality((AtWorker \cup AtRow)') \in Nat
        /\ Cardinality((AtWorker \cup AtRow)') + bit(c \in AtWorker \cup AtRow)
             = Cardinality(AtWorker \cup AtRow) + bit(c \in (AtWorker \cup AtRow)')
    BY <2>1, AllAreFinite, Flip DEF AllFinite
  <2> QED
    BY <1>1, <1>2, <2>2 DEF Counted, KeepsCounted
<1>4. /\ Cardinality(AtWorker) \in Nat /\ Cardinality(AtWorker') \in Nat
      /\ Cardinality(AtWorker') + bit(c \in AtWorker) = Cardinality(AtWorker) + bit(c \in AtWorker')
  BY AllAreFinite, Flip DEF AllFinite, Touches
<1>5. /\ Cardinality(AtRow) \in Nat /\ Cardinality(AtRow') \in Nat
      /\ Cardinality(AtRow') + bit(c \in AtRow) = Cardinality(AtRow) + bit(c \in AtRow')
  BY AllAreFinite, Flip DEF AllFinite, Touches
<1>6. /\ Cardinality(Unfinished) \in Nat /\ Cardinality(Unfinished') \in Nat
      /\ Cardinality(Unfinished') + bit(h \in Unfinished)
           = Cardinality(Unfinished) + bit(h \in Unfinished')
  BY AllAreFinite, Flip DEF AllFinite, Touches
<1>7. Backed'
  BY <1>1, <1>2, <1>4, <1>5, <1>6 DEF Backed, KeepsBacked
<1>8. Paired'
  <2>1. SUFFICES ASSUME ~Reconciling, faults' = 0
                 PROVE  tokens' + Cardinality(InHand') + Cardinality((AtWorker \cap Outbound)')
                          + Cardinality((AtRow \cap Outbound)') + Cardinality(Between') <= Maximum
    BY DEF Paired
  <2>2. /\ Cardinality(InHand) \in Nat /\ Cardinality(InHand') \in Nat
        /\ Cardinality(InHand') + bit(c \in InHand) = Cardinality(InHand) + bit(c \in InHand')
    BY AllAreFinite, Flip DEF AllFinite, Touches
  <2>3. /\ Cardinality(Between) \in Nat /\ Cardinality(Between') \in Nat
        /\ Cardinality(Between') + bit(h \in Between) = Cardinality(Between) + bit(h \in Between')
    BY AllAreFinite, Flip DEF AllFinite, Touches
  <2>4. /\ (AtWorker \cap Outbound)' \ {c} = (AtWorker \cap Outbound) \ {c}
        /\ (AtRow \cap Outbound)' \ {c} = (AtRow \cap Outbound) \ {c}
    BY DEF Touches
  <2>5. /\ Cardinality(AtWorker \cap Outbound) \in Nat
        /\ Cardinality((AtWorker \cap Outbound)') \in Nat
        /\ Cardinality((AtWorker \cap Outbound)') + bit(c \in AtWorker \cap Outbound)
             = Cardinality(AtWorker \cap Outbound) + bit(c \in (AtWorker \cap Outbound)')
    BY <2>4, AllAreFinite, Flip DEF AllFinite
  <2>6. /\ Cardinality(AtRow \cap Outbound) \in Nat
        /\ Cardinality((AtRow \cap Outbound)') \in Nat
        /\ Cardinality((AtRow \cap Outbound)') + bit(c \in AtRow \cap Outbound)
             = Cardinality(AtRow \cap Outbound) + bit(c \in (AtRow \cap Outbound)')
    BY <2>4, AllAreFinite, Flip DEF AllFinite
  <2>7. /\ faults = 0
        /\ tokens + Cardinality(InHand) + Cardinality(AtWorker \cap Outbound)
            + Cardinality(AtRow \cap Outbound) + Cardinality(Between) <= Maximum
    BY <2>1 DEF Paired, KeepsPaired
  <2>8. CASE c \in Outbound
    <3>1. /\ bit(c \in AtWorker \cap Outbound) = bit(c \in AtWorker)
          /\ bit(c \in (AtWorker \cap Outbound)') = bit(c \in AtWorker')
          /\ bit(c \in AtRow \cap Outbound) = bit(c \in AtRow)
          /\ bit(c \in (AtRow \cap Outbound)') = bit(c \in AtRow')
      BY <2>8 DEF bit
    <3>2. tokens' + bit(c \in InHand') + bit(c \in AtWorker') + bit(c \in AtRow')
                  + bit(h \in Between')
            <= tokens + bit(c \in InHand) + bit(c \in AtWorker) + bit(c \in AtRow)
                      + bit(h \in Between)
      BY <2>1, <2>8 DEF KeepsPaired
    <3> QED
      BY <1>1, <1>2, <2>2, <2>3, <2>5, <2>6, <2>7, <3>1, <3>2
  <2>9. CASE c \in Inbound
    <3>1. c \notin Outbound
      BY <2>9, CallsAssumption
    <3>2. /\ bit(c \in AtWorker \cap Outbound) = 0 /\ bit(c \in (AtWorker \cap Outbound)') = 0
          /\ bit(c \in AtRow \cap Outbound) = 0 /\ bit(c \in (AtRow \cap Outbound)') = 0
          /\ bit(c \in InHand) = 0 /\ bit(c \in InHand') = 0
      BY <3>1 DEF bit, InHand
    <3>3. tokens' = tokens /\ bit(h \in Between) = bit(h \in Between')
      BY <2>1, <2>9 DEF KeepsPaired, bit
    <3> QED
      BY <1>1, <2>2, <2>3, <2>5, <2>6, <2>7, <3>2, <3>3, <1>2
  <2> QED
    BY <2>8, <2>9 DEF Calls
<1> QED
  BY <1>3, <1>7, <1>8

-----------------------------------------------------------------------------
(* Every step keeps the count.                                             *)

LEMMA WorkersCount ==
    ASSUME Types, Types', Settled, Settled', NEW c \in Calls,
           DispatchStep(c) \/ CallEvent(c)
    PROVE  Touches(c, c) /\ KeepsCounted(c) /\ KeepsBacked(c, c) /\ KeepsPaired(c, c)
<1>1. UNCHANGED handlerVars
  BY DEF DispatchStep, CallEvent, AcquireToken, AcquireNumber, Dial, ReturnLine,
     ReturnToken, RecordCall, CreateInboundLead, AdmitInbound, HangUp, LoseWorker
<1>2. \A d \in Calls \ {c} : pc'[d] = pc[d] /\ row'[d] = row[d]
  BY DEF DispatchStep, CallEvent, AcquireToken, AcquireNumber, Dial, ReturnLine,
     ReturnToken, RecordCall, CreateInboundLead, AdmitInbound, HangUp, LoseWorker, Goto,
     Types, CallTypes
<1>3. UNCHANGED row \/ (row[c] = "NONE" /\ row'[c] = "PROCESSING")
  BY DEF DispatchStep, CallEvent, AcquireToken, AcquireNumber, Dial, ReturnLine,
     ReturnToken, RecordCall, CreateInboundLead, AdmitInbound, HangUp, LoseWorker,
     Types, CallTypes, Settled, CallOK
<1>4. Busy' = Busy /\ \A h \in Busy : row'[call[h]] = row[call[h]]
  <2>1. \A h \in Busy : call[h] \in Calls /\ row[call[h]] # "NONE"
    BY DEF Busy, Settled, HandlerOK, Types, InPlan
  <2> QED
    BY <1>1, <1>2, <1>3, <2>1 DEF Busy, handlerVars
<1>5. Unfinished' = Unfinished /\ Between' = Between
  BY <1>1, <1>4 DEF Unfinished, Between, at, handlerVars, Busy
<1>6. AtRow' \ {c} = AtRow \ {c}
  BY <1>1, <1>2 DEF AtRow, AtWorkOn, WillRelease, handlerVars
<1>7. UNCHANGED row => (c \in AtRow' <=> c \in AtRow)
  BY <1>1 DEF AtRow, AtWorkOn, WillRelease, handlerVars
<1>8. row[c] = "NONE" => c \notin AtRow
  BY DEF AtRow
<1>9. row[c] = "NONE" /\ row'[c] = "PROCESSING" => c \in AtRow'
  <2>1. RowsSeen'
    BY RowsAreSeen, PTL
  <2>2. row[c] = "NONE" => \A h \in Busy' : call'[h] # c
    BY <1>1, <1>4 DEF Busy, Settled, HandlerOK, handlerVars
  <2> QED
    BY <2>1, <2>2 DEF RowsSeen
<1>10. Touches(c, c)
  BY <1>2, <1>5, <1>6 DEF Touches, AtWorker, InHand, Calls
<1>11. KeepsCounted(c) /\ KeepsBacked(c, c) /\ KeepsPaired(c, c)
  <2>1. /\ c \in AtWorker <=> pc[c] \in {"line", "returnLine", "placed", "orphan", "admitted"}
        /\ c \in AtWorker' <=> pc'[c] \in {"line", "returnLine", "placed", "orphan", "admitted"}
        /\ c \in InHand <=> c \in Outbound /\ pc[c] \in {"token", "returnToken"}
        /\ c \in InHand' <=> c \in Outbound /\ pc'[c] \in {"token", "returnToken"}
    BY DEF AtWorker, InHand
  <2>2. /\ channels \in Nat /\ channels' \in Nat /\ faults \in Nat /\ faults' \in Nat
        /\ tokens \in Nat /\ tokens' \in Nat /\ CallOK(c)
        /\ c \in Inbound => pc[c] \in InboundPCs /\ c \notin Outbound
    BY NumbersAssumption, CallsAssumption DEF Types, NumberTypes, CallTypes, Settled
  <2> DEFINE Kept == KeepsCounted(c) /\ KeepsBacked(c, c) /\ KeepsPaired(c, c)
  <2> USE <2>1, <2>2
  <2>3. ASSUME UNCHANGED <<row, channels, tokens>>, faults' \in {faults, faults + 1},
               c \in AtWorker <=> c \in AtWorker', c \in InHand' => c \in InHand
        PROVE  Kept
    <3>1. (c \in AtRow' <=> c \in AtRow) /\ (c \in AtWorker' <=> c \in AtWorker)
      BY <1>7, <2>3
    <3>2. /\ bit(c \in AtRow') = bit(c \in AtRow)
          /\ bit(c \in AtWorker') = bit(c \in AtWorker)
          /\ bit(c \in AtWorker' \cup AtRow') = bit(c \in AtWorker \cup AtRow)
          /\ bit(c \in Unfinished') = bit(c \in Unfinished)
      BY <1>5, <3>1 DEF bit
    <3>3. /\ bit(c \in AtRow) \in Nat /\ bit(c \in AtWorker) \in Nat
          /\ bit(c \in AtWorker \cup AtRow) \in Nat /\ bit(c \in Unfinished) \in Nat
      BY DEF bit
    <3>4. channels' = channels /\ faults <= faults'
      BY <2>3
    <3>5. KeepsCounted(c)
      BY <3>2, <3>3, <3>4 DEF KeepsCounted
    <3>6. KeepsBacked(c, c)
      BY <3>2, <3>3, <3>4 DEF KeepsBacked
    <3>7. KeepsPaired(c, c)
      BY <1>5, <2>3, <3>1 DEF KeepsPaired, bit
    <3> QED
      BY <3>5, <3>6, <3>7
  <2>4. ASSUME UNCHANGED <<row, channels, tokens>>, faults' = faults + 1
        PROVE  Kept
    BY <1>5, <1>7, <2>4 DEF KeepsCounted, KeepsBacked, KeepsPaired, bit
  <2>5. CASE AcquireToken(c)
    <3>1. /\ UNCHANGED <<row, channels, faults>> /\ tokens' = tokens - 1 /\ c \in Outbound
          /\ c \notin AtWorker /\ c \notin AtWorker' /\ c \notin InHand /\ c \in InHand'
      BY <2>5, CallsAssumption DEF AcquireToken, Goto, Types, CallTypes
    <3> QED
      BY <1>5, <1>7, <3>1 DEF KeepsCounted, KeepsBacked, KeepsPaired, bit
  <2>6. CASE AcquireNumber(c)
    <3>1. /\ UNCHANGED <<row, tokens>> /\ c \in Outbound
          /\ c \notin AtWorker /\ c \notin AtRow /\ c \in InHand
      BY <2>6, <1>8 DEF AcquireNumber, InboundPCs, Calls, CallOK
    <3>2. \/ channels' = channels + 1 /\ c \in AtWorker' /\ c \notin InHand' /\ faults' = faults
          \/ channels' = channels /\ c \notin AtWorker' /\ faults' \in {faults, faults + 1}
      BY <2>6 DEF AcquireNumber, Goto, Fault, NoFault, Types, CallTypes
    <3>3. CASE /\ channels' = channels + 1 /\ c \in AtWorker' /\ c \notin InHand'
               /\ faults' = faults
      BY <1>5, <1>7, <3>1, <3>3 DEF KeepsCounted, KeepsBacked, KeepsPaired, bit
    <3> QED
      BY <2>3, <3>1, <3>2, <3>3
  <2>7. CASE Dial(c)
    <3>1. /\ UNCHANGED <<row, channels, tokens, faults>> /\ c \in AtWorker
          /\ c \in AtWorker' /\ c \notin InHand'
      BY <2>7 DEF Dial, Goto, numberVars, Types, CallTypes
    <3> QED
      BY <2>3, <3>1
  <2>8. CASE ReturnLine(c)
    <3>1. \/ channels' = minus(channels, 1) /\ faults' = faults
          \/ channels' = channels /\ faults' = faults + 1
      BY <2>8, DecrementBounds DEF ReturnLine
    <3>2. UNCHANGED <<tokens, row>> /\ pc[c] \in {"returnLine", "orphan"} /\ c \in Outbound
      BY <2>8 DEF ReturnLine, InboundPCs, Calls
    <3>3. pc'[c] = IF pc[c] = "orphan" THEN "orphanToken" ELSE "returnToken"
      BY <2>8 DEF ReturnLine, Goto, Types, CallTypes
    <3>4. /\ c \in AtWorker /\ c \notin AtWorker' /\ c \notin InHand
          /\ faults = 0 \/ c \in InHand' \/ c \notin InHand'
      BY <3>2, <3>3
    <3>5. CASE channels' = channels /\ faults' = faults + 1
      BY <2>4, <3>2, <3>5
    <3>6. CASE channels' = minus(channels, 1) /\ faults' = faults
      BY <1>5, <1>7, <3>2, <3>4, <3>6 DEF minus, KeepsCounted, KeepsBacked, KeepsPaired, bit
    <3> QED
      BY <3>1, <3>5, <3>6
  <2>9. CASE ReturnToken(c)
    <3>1. \/ tokens' = tokens + 1 /\ faults' = faults
          \/ tokens' = tokens /\ faults' = faults + 1
      BY <2>9, ReleaseBounds DEF ReturnToken
    <3>2. /\ UNCHANGED <<channels, row>> /\ pc[c] \in {"returnToken", "orphanToken"}
          /\ c \in Outbound
      BY <2>9 DEF ReturnToken, InboundPCs, Calls
    <3>3. pc'[c] = IF pc[c] = "orphanToken" THEN "gone" ELSE "ready"
      BY <2>9 DEF ReturnToken, Goto, Types, CallTypes
    <3>4. /\ c \notin AtWorker /\ c \notin AtWorker' /\ c \notin InHand'
          /\ faults = 0 => c \in InHand
      BY <3>2, <3>3 DEF CallOK
    <3>5. CASE tokens' = tokens /\ faults' = faults + 1
      BY <2>4, <3>2, <3>5
    <3>6. CASE tokens' = tokens + 1 /\ faults' = faults
      BY <1>5, <1>7, <3>2, <3>4, <3>6, CallsAssumption DEF KeepsCounted, KeepsBacked,
         KeepsPaired, bit
    <3> QED
      BY <3>1, <3>5, <3>6
  <2>10. ASSUME UNCHANGED <<tokens, channels>>, row[c] = "NONE", row'[c] = "PROCESSING",
                c \in AtWorker, c \notin InHand',
                \/ faults' = faults /\ c \notin AtWorker'
                \/ faults' = faults + 1
         PROVE  Kept
    <3>1. c \notin AtRow /\ c \in AtRow'
      BY <1>8, <1>9, <2>10
    <3>2. CASE faults' = faults /\ c \notin AtWorker'
      BY <1>5, <2>10, <3>1, <3>2 DEF KeepsCounted, KeepsBacked, KeepsPaired, bit
    <3>3. CASE faults' = faults + 1
      BY <1>5, <2>10, <3>1, <3>3 DEF KeepsCounted, KeepsBacked, KeepsPaired, bit
    <3> QED
      BY <2>10, <3>2, <3>3
  <2>11. CASE RecordCall(c)
    <3>1. UNCHANGED <<tokens, channels>> /\ pc[c] = "placed" /\ row[c] = "NONE"
      BY <2>11 DEF RecordCall, numberVars, CallOK
    <3>2. \/ row'[c] = "PROCESSING" /\ pc'[c] = "done" /\ faults' = faults
          \/ row'[c] = "PROCESSING" /\ pc'[c] = "orphan" /\ faults' = faults + 1
          \/ UNCHANGED row /\ pc'[c] = "orphan" /\ faults' = faults + 1
      BY <2>11 DEF RecordCall, Goto, Fault, NoFault, Types, CallTypes
    <3> QED
      BY <2>4, <2>10, <3>1, <3>2
  <2>12. CASE CreateInboundLead(c)
    <3>1. UNCHANGED <<tokens, channels>> /\ pc[c] = "admitted" /\ row[c] = "NONE"
      BY <2>12 DEF CreateInboundLead, numberVars, CallOK
    <3>2. \/ row'[c] = "PROCESSING" /\ pc'[c] = "done" /\ faults' = faults
          \/ UNCHANGED row /\ pc'[c] = "gone" /\ faults' = faults + 1
      BY <2>12 DEF CreateInboundLead, Goto, Fault, NoFault, Types, CallTypes
    <3> QED
      BY <2>4, <2>10, <3>1, <3>2
  <2>13. CASE AdmitInbound(c)
    <3>1. /\ UNCHANGED <<tokens, row>> /\ pc[c] = "ready" /\ c \in Inbound
          /\ c \notin AtWorker /\ c \notin AtRow /\ c \notin InHand /\ c \notin InHand'
      BY <2>13, <1>8 DEF AdmitInbound, CallOK
    <3>2. \/ channels' = channels + 1 /\ c \in AtWorker' /\ faults' = faults
          \/ channels' = channels /\ c \notin AtWorker' /\ faults' \in {faults, faults + 1}
      BY <2>13 DEF AdmitInbound, Goto, Fault, NoFault, Types, CallTypes
    <3>3. CASE channels' = channels + 1 /\ c \in AtWorker' /\ faults' = faults
      BY <1>5, <1>7, <3>1, <3>3, CallsAssumption DEF KeepsCounted, KeepsBacked, KeepsPaired,
         bit
    <3> QED
      BY <2>3, <3>1, <3>2, <3>3
  <2>14. CASE HangUp(c)
    <3>1. UNCHANGED <<row, channels, tokens, faults, pc>>
      BY <2>14 DEF HangUp, numberVars
    <3> QED
      BY <2>3, <3>1
  <2>15. CASE LoseWorker(c)
    <3>1. UNCHANGED <<tokens, channels, row>> /\ faults' = faults + 1
      BY <2>15 DEF LoseWorker, numberVars, Fault
    <3> QED
      BY <2>4, <3>1
  <2> QED
    BY <2>5, <2>6, <2>7, <2>8, <2>9, <2>11, <2>12, <2>13, <2>14, <2>15
       DEF DispatchStep, CallEvent
<1> QED
  BY <1>10, <1>11

LEMMA StartsCount ==
    ASSUME Timely, Types, Types', Settled, Settled', NEW h \in Handlers, NEW c \in Calls,
           StartSweep(h, c) \/ \E k \in Callbacks : Deliver(h, k, c)
    PROVE  Touches(c, h) /\ KeepsCounted(c) /\ KeepsBacked(c, h) /\ KeepsPaired(c, h)
<1>1. PICK k \in Kinds : Begin(h, k, c) /\ row[c] # "NONE"
  BY DEF StartSweep, Deliver, Kinds, Callbacks
<1>2. UNCHANGED <<numberVars, callVars, seen, retries, rec, faults>>
  BY DEF StartSweep, Deliver
<1>3. Started(h, k, c) /\ Others(h) /\ Head(Plan[k]) = IF k = "sweep" THEN "claim" ELSE "read"
  BY <1>1, <1>2, BeginStarts, PlanStarts
<1>4. Plan[k] # <<>>
  BY PlanStarts, PlanFacts DEF Facts
<1>5. /\ Busy' = Busy \cup {h} /\ h \notin Busy /\ call'[h] = c
      /\ \A g \in Busy : call'[g] = call[g] /\ call[g] # c
  BY <1>1, <1>3, <1>4 DEF Started, Others, Busy, Begin, InTime, AtWorkOn
<1>6. RowsSeen /\ RowsSeen'
  BY RowsAreSeen, PTL
<1>7. c \in AtRow <=> row[c] = "PROCESSING"
  BY <1>5, <1>6 DEF RowsSeen
<1>8. at(h)' \in LineAhead[k] /\ at(h)' \in FinishAhead[k] /\ at(h)' # "token" /\ kind'[h] = k
  BY <1>3, WhatIsAhead DEF Started, at, AheadTable
<1>9. seen'[h] = "NONE" /\ row' = row
  BY <1>2, <1>3 DEF Started, callVars, Types, InPlan
<1>10. c \in AtRow' <=> row[c] = "PROCESSING"
  BY <1>5, <1>6, <1>8, <1>9 DEF RowsSeen, Owed
<1>11. AtRow' \ {c} = AtRow \ {c}
  <2>1. \A d \in Calls \ {c} : AtWorkOn(d)' = AtWorkOn(d) /\ h \notin AtWorkOn(d)
    BY <1>3, CallsAssumption DEF AtWorkOn, Started, Others, Types, InPlan
  <2>2. \A g \in Handlers \ {h} : UNCHANGED <<todo[g], seen[g]>>
    BY <1>3 DEF Others
  <2> QED
    BY <1>9, <2>1, <2>2 DEF AtRow, WillRelease, AtWorkOn
<1>12. Unfinished' \ {h} = Unfinished \ {h} /\ Between' \ {h} = Between \ {h}
  BY <1>3, <1>5, <1>9 DEF Unfinished, Between, Others, at, Busy
<1>13. h \notin Unfinished /\ h \notin Unfinished' /\ h \notin Between /\ h \notin Between'
  BY <1>5, <1>8 DEF Unfinished, Between
<1>14. AtWorker' = AtWorker /\ InHand' = InHand
  BY <1>2 DEF AtWorker, InHand, callVars
<1> QED
  BY <1>2, <1>7, <1>10, <1>11, <1>12, <1>13, <1>14, NumbersAssumption
     DEF Touches, KeepsCounted, KeepsBacked, KeepsPaired, bit, numberVars, Types, NumberTypes

\* What a handler's step does to its call, by its place in the plan.
LEMMA HandlerPlaces ==
    ASSUME Types, Types', Settled, Settled', NEW h \in Handlers, NEW c \in Calls, c = call[h],
           HandlerStep(h) \/ LoseHandler(h)
    PROVE  /\ Touches(c, h) /\ UNCHANGED <<pc, onLine, sent>>
           /\ h \in Busy /\ HandlerOK(h) /\ row[c] \in Rows /\ kind[h] \in Kinds
           /\ c \in AtRow <=> /\ at(h) \in LineAhead[kind[h]]
                              /\ Owed(row[c], seen[h])
           /\ h \in Unfinished <=> at(h) \notin FinishAhead[kind[h]] /\ row[c] = "PROCESSING"
           /\ h \in Between <=> at(h) = "token" /\ c \in Outbound
           /\ \/ /\ Ended(h) /\ (c \in AtRow' <=> row'[c] = "PROCESSING")
                 /\ h \notin Unfinished' /\ h \notin Between'
              \/ /\ ~Ended(h) /\ <<at(h), at(h)'>> \in Follows[kind[h]]
                 /\ c \in AtRow' <=> /\ at(h)' \in LineAhead[kind[h]]
                                     /\ Owed(row'[c], seen'[h])
                 /\ h \in Unfinished' <=> at(h)' \notin FinishAhead[kind[h]] /\ row'[c] = "PROCESSING"
                 /\ h \in Between' <=> at(h)' = "token" /\ c \in Outbound
<1>1. /\ todo[h] # <<>> /\ kind[h] \in Kinds /\ Others(h) /\ UNCHANGED <<pc, onLine, sent>>
      /\ \A d \in Calls \ {c} : row'[d] = row[d]
  BY HandlerMoves
<1>2. h \in Busy /\ HandlerOK(h) /\ row[c] \in Rows
  BY <1>1 DEF Busy, Settled, Types, CallTypes
<1>3. RowsSeen /\ RowsSeen'
  BY RowsAreSeen, PTL
<1>4. c \in AtRow <=> /\ at(h) \in LineAhead[kind[h]]
                      /\ Owed(row[c], seen[h])
  BY <1>2, <1>3 DEF RowsSeen
<1>5. /\ h \in Unfinished <=> at(h) \notin FinishAhead[kind[h]] /\ row[c] = "PROCESSING"
      /\ h \in Between <=> at(h) = "token" /\ c \in Outbound
  BY <1>2 DEF Unfinished, Between
<1>6. \A g \in Busy \ {h} : g \in Busy' /\ call'[g] = call[g] /\ call[g] \in Calls \ {c}
  BY <1>1, <1>2 DEF Busy, Others, Settled, Alone, Types, InPlan
<1>7. \A g \in Busy' \ {h} : g \in Busy
  BY <1>1 DEF Busy, Others
<1>8. Ended(h) \/ (~Ended(h) /\ h \in Busy' /\ call'[h] = c /\ kind'[h] = kind[h]
                     /\ <<at(h), at(h)'>> \in Follows[kind[h]])
  <2>1. Ended(h) \/ \E s \in Rows : Moved(h, s)
    BY HandlerMoves
  <2> QED
    BY <2>1 DEF Ended, Moved, Onward, Busy, at
<1>9. Touches(c, h)
  <2>1. AtWorker' = AtWorker /\ InHand' = InHand
    BY <1>1 DEF AtWorker, InHand
  <2>2. Unfinished' \ {h} = Unfinished \ {h} /\ Between' \ {h} = Between \ {h}
    BY <1>1, <1>6, <1>7 DEF Unfinished, Between, Others, at, Busy
  <2>3. AtRow' \ {c} = AtRow \ {c}
    <3>1. call'[h] \in {c, Nothing}
      BY <1>8 DEF Ended
    <3>2. \A d \in Calls \ {c} : AtWorkOn(d)' = AtWorkOn(d) /\ h \notin AtWorkOn(d)
      BY <1>1, <3>1, CallsAssumption DEF AtWorkOn, Others
    <3>3. \A g \in Handlers \ {h} : todo'[g] = todo[g] /\ seen'[g] = seen[g]
      BY <1>1 DEF Others
    <3> QED
      BY <1>1, <3>2, <3>3 DEF AtRow, WillRelease, AtWorkOn
  <2> QED
    BY <2>1, <2>2, <2>3 DEF Touches
<1>10. CASE Ended(h)
  <2>1. h \notin Busy' /\ \A g \in Busy' : call'[g] # c
    BY <1>6, <1>7, <1>10 DEF Ended, Busy
  <2>2. c \in AtRow' <=> row'[c] = "PROCESSING"
    BY <1>3, <2>1 DEF RowsSeen
  <2>3. h \notin Unfinished' /\ h \notin Between'
    BY <2>1 DEF Unfinished, Between
  <2> QED
    BY <1>1, <1>2, <1>4, <1>5, <1>9, <1>10, <2>2, <2>3
<1>11. CASE ~Ended(h)
  <2>1. /\ h \in Busy' /\ call'[h] = c /\ kind'[h] = kind[h]
        /\ <<at(h), at(h)'>> \in Follows[kind[h]]
    BY <1>8, <1>11
  <2>2. c \in AtRow' <=> /\ at(h)' \in LineAhead[kind[h]]
                         /\ Owed(row'[c], seen'[h])
    BY <1>3, <2>1 DEF RowsSeen
  <2>3. /\ h \in Unfinished' <=> at(h)' \notin FinishAhead[kind[h]] /\ row'[c] = "PROCESSING"
        /\ h \in Between' <=> at(h)' = "token" /\ c \in Outbound
    BY <2>1 DEF Unfinished, Between
  <2> QED
    BY <1>1, <1>2, <1>4, <1>5, <1>9, <1>11, <2>1, <2>2, <2>3
<1> QED
  BY <1>10, <1>11

LEMMA HandlersCount ==
    ASSUME Types, Types', Settled, Settled', NEW h \in Handlers, NEW c \in Calls, c = call[h],
           HandlerStep(h) \/ LoseHandler(h)
    PROVE  Touches(c, h) /\ KeepsCounted(c) /\ KeepsBacked(c, h) /\ KeepsPaired(c, h)
<1> DEFINE Kept == KeepsCounted(c) /\ KeepsBacked(c, h) /\ KeepsPaired(c, h)
<1>1. /\ Touches(c, h) /\ h \in Busy /\ HandlerOK(h) /\ row[c] \in Rows /\ kind[h] \in Kinds
      /\ UNCHANGED <<pc, onLine, sent>>
  BY HandlerPlaces
<1>2. AtWorker' = AtWorker /\ InHand' = InHand
  BY <1>1 DEF AtWorker, InHand
<1>3. /\ channels \in Nat /\ channels' \in Nat /\ faults \in Nat /\ faults' \in Nat
      /\ tokens \in Nat /\ tokens' \in Nat /\ seen[h] \in Rows
      /\ (c \in Inbound <=> c \notin Outbound)
  BY NumbersAssumption, CallsAssumption DEF Types, NumberTypes, HandlerTypes, Calls
<1> USE <1>2, <1>3
<1>4. /\ bit(c \in AtWorker) \in {0, 1} /\ bit(c \in AtRow) \in {0, 1}
      /\ bit(c \in AtRow') \in {0, 1}
      /\ bit(c \in AtWorker \cup AtRow) \in {0, 1}
      /\ bit(c \in AtWorker' \cup AtRow') \in {0, 1}
      /\ bit(c \in InHand) \in {0, 1} /\ bit(h \in Unfinished) \in {0, 1}
      /\ bit(h \in Unfinished') \in {0, 1} /\ bit(h \in Between) \in {0, 1}
      /\ bit(h \in Between') \in {0, 1}
  BY DEF bit
\* A step that holds nothing back and gives nothing.
<1>5. ASSUME UNCHANGED <<channels, tokens, faults>>, h \in Between <=> h \in Between',
             \/ (c \in AtRow <=> c \in AtRow') /\ (h \in Unfinished' => h \in Unfinished)
             \/ /\ c \notin AtRow /\ c \in AtRow' /\ h \in Unfinished /\ h \notin Unfinished'
                /\ faults > 0
      PROVE  Kept
  <2>1. /\ bit(c \in AtWorker') = bit(c \in AtWorker)
        /\ bit(c \in InHand') = bit(c \in InHand)
        /\ bit(h \in Between') = bit(h \in Between)
        /\ bit(c \in AtWorker \cup AtRow) <= bit(c \in AtWorker' \cup AtRow')
        /\ bit(c \in AtRow') + bit(h \in Unfinished') <= bit(c \in AtRow) + bit(h \in Unfinished)
        /\ faults = 0 => bit(c \in AtRow') = bit(c \in AtRow)
    BY <1>5 DEF bit
  <2>2. KeepsCounted(c)
    BY <1>4, <1>5, <2>1 DEF KeepsCounted
  <2>3. KeepsBacked(c, h)
    BY <1>4, <1>5, <2>1 DEF KeepsBacked
  <2>4. KeepsPaired(c, h)
    BY <1>4, <1>5, <2>1 DEF KeepsPaired
  <2> QED
    BY <2>2, <2>3, <2>4
\* A failed one.
<1>6. ASSUME UNCHANGED <<channels, tokens>>, faults' = faults + 1,
             \/ h \in Unfinished' => h \in Unfinished
             \/ c \in AtRow' => c \in AtRow
      PROVE  Kept
  <2>1. /\ bit(c \in AtWorker') = bit(c \in AtWorker)
        /\ bit(c \in AtRow') + bit(h \in Unfinished') <= bit(c \in AtRow) + bit(h \in Unfinished) + 1
    BY <1>6 DEF bit
  <2> QED
    BY <1>4, <1>6, <2>1 DEF KeepsCounted, KeepsBacked, KeepsPaired
<1> HIDE DEF Kept
<1>7. Advance(h) => \/ ~Ended(h) /\ seen'[h] = seen[h]
                    \/ /\ Ended(h)
                       /\ at(h) = "retry" \/ (kind[h] = "ivrBlock" /\ at(h) = "line")
  BY <1>1, AdvanceMoves DEF Busy, at, Moved, Onward, Ended
<1>8. Leave(h) => Ended(h)
  BY LeaveEnds
<1>9. PICK k \in Kinds, x \in Steps : k = kind[h] /\ x = at(h)
  BY <1>1, PlanFacts DEF Facts, at, Busy, Types, InPlan
<1>10. PICK y : y = at(h)'
  OBVIOUS
<1>11. /\ c \in AtRow <=> x \in LineAhead[k] /\ Owed(row[c], seen[h])
       /\ h \in Unfinished <=> x \notin FinishAhead[k] /\ row[c] = "PROCESSING"
       /\ h \in Between <=> x = "token" /\ c \in Outbound
  BY <1>9, HandlerPlaces
<1>12. Ended(h) => /\ c \in AtRow' <=> row'[c] = "PROCESSING"
                   /\ h \notin Unfinished' /\ h \notin Between'
  BY HandlerPlaces
<1>13. ~Ended(h) =>
        /\ <<x, y>> \in Follows[k]
        /\ c \in AtRow' <=> y \in LineAhead[k] /\ Owed(row'[c], seen'[h])
        /\ h \in Unfinished' <=> y \notin FinishAhead[k] /\ row'[c] = "PROCESSING"
        /\ h \in Between' <=> y = "token" /\ c \in Outbound
  BY <1>9, <1>10, HandlerPlaces
<1>14. /\ x = "skip" => k \in {"unanswered", "completed"}
       /\ x = "claim" => k \in {"completed", "sweep"}
       /\ x = "win" => k = "ivrBlock"
  <2>1. Facts(kind[h], todo[h])
    BY <1>1, PlanFacts DEF Busy, Types, InPlan
  <2> QED
    BY <1>9, <2>1 DEF Facts, at
<1>15. AheadTable(k, x) /\ AheadTable(k, y)
  BY <1>9, <1>10, WhatIsAhead
<1>16. ~Ended(h) => FollowTable(k, x, y)
  BY <1>9, <1>10, <1>13, WhatFollows
<1> USE <1>1, <1>9, <1>10, <1>11, <1>12, <1>13, <1>14, <1>15, <1>16
    DEF FollowTable, AheadTable, Owed
<1>17. CASE ReadLead(h)
  <2>1. x = "read" /\ UNCHANGED <<channels, tokens, row, faults>>
    BY <1>17 DEF ReadLead, At, at, numberVars, callVars
  <2>2. ~Ended(h) /\ seen'[h] = row[c]
    <3>1. Moved(h, row[c])
      BY <1>17, NotTheLast, TailMoves DEF ReadLead, Remember, At
    <3> QED
      BY <3>1 DEF Moved, Onward, Ended
  <2>3. c \in AtRow <=> c \in AtRow'
    BY <2>1, <2>2 DEF HandlerOK, Rows
  <2>4. h \notin Unfinished' /\ h \notin Between /\ h \notin Between'
    BY <2>1, <2>2
  <2> QED
    BY <1>5, <2>1, <2>3, <2>4 DEF Kept
<1>18. CASE SkipFinished(h)
  <2>1. x = "skip" /\ UNCHANGED <<channels, tokens, row, faults>> /\ seen[h] = row[c]
    BY <1>18 DEF SkipFinished, At, at, numberVars, callVars, HandlerOK
  <2>2. \/ Ended(h) /\ row[c] = "FINISHED"
        \/ ~Ended(h) /\ seen'[h] = seen[h]
    BY <1>7, <1>8, <1>18, <2>1 DEF SkipFinished
  <2>3. c \in AtRow <=> c \in AtRow'
    BY <2>1, <2>2 DEF HandlerOK, Rows
  <2>4. h \notin Unfinished' /\ h \notin Between /\ h \notin Between'
    BY <2>1, <2>2
  <2> QED
    BY <1>5, <2>1, <2>3, <2>4 DEF Kept
<1>19. CASE ClaimLead(h)
  <2>1. x = "claim" /\ UNCHANGED <<channels, tokens, row, faults>> /\ row[c] = "PROCESSING"
    BY <1>19 DEF ClaimLead, At, at, numberVars, callVars, HandlerOK
  <2>2. \/ Ended(h)
        \/ ~Ended(h) /\ y = "finish"
    BY <2>1
  <2>3. c \in AtRow /\ c \in AtRow'
    BY <2>1, <2>2
  <2>4. h \notin Unfinished' /\ h \notin Between /\ h \notin Between'
    BY <2>1, <2>2
  <2> QED
    BY <1>5, <2>1, <2>3, <2>4 DEF Kept
<1>20. CASE WinLead(h)
  <2>1. /\ x = "win" /\ UNCHANGED <<channels, tokens, faults>> /\ row[c] = "PROCESSING"
        /\ row'[c] = "FINISHED" /\ Advance(h) /\ seen[h] = "PROCESSING"
    BY <1>20 DEF WinLead, At, at, numberVars, HandlerOK, Types, CallTypes
  <2>2. ~Ended(h) /\ y = "line" /\ seen'[h] = "PROCESSING"
    BY <1>7, <2>1
  <2>3. c \in AtRow /\ c \in AtRow'
    BY <2>1, <2>2
  <2>4. h \notin Unfinished' /\ h \notin Between /\ h \notin Between'
    BY <2>1, <2>2
  <2> QED
    BY <1>5, <2>1, <2>3, <2>4 DEF Kept
<1>21. CASE FinishLead(h)
  <2>1. x = "finish" /\ UNCHANGED <<channels, tokens>>
    BY <1>21 DEF FinishLead, At, at, numberVars
  <2>2. CASE row' = [row EXCEPT ![c] = "FINISHED"] /\ Advance(h) /\ NoFault
    <3>1. row'[c] = "FINISHED" /\ faults' = faults /\ ~Ended(h) /\ seen'[h] = seen[h]
      BY <1>7, <2>1, <2>2 DEF NoFault, Types, CallTypes
    <3>2. c \in AtRow <=> c \in AtRow'
      BY <2>1, <3>1 DEF HandlerOK
    <3>3. h \notin Unfinished' /\ h \notin Between /\ h \notin Between'
      BY <2>1, <3>1
    <3> QED
      BY <1>5, <2>1, <3>1, <3>2, <3>3 DEF Kept
  <2>3. CASE Fault /\ UNCHANGED row /\ (Advance(h) \/ Leave(h))
    <3>1. faults' = faults + 1
      BY <2>3 DEF Fault
    <3>2. Ended(h) \/ (~Ended(h) /\ seen'[h] = seen[h])
      BY <1>7, <1>8, <2>3
    <3>3. CASE Ended(h)
      BY <1>6, <2>1, <3>1, <3>3 DEF Kept
    <3>4. CASE ~Ended(h) /\ seen'[h] = seen[h]
      <4>1. c \in AtRow' => c \in AtRow
        BY <2>1, <2>3, <3>4
      <4> QED
        BY <1>6, <2>1, <3>1, <4>1 DEF Kept
    <3> QED
      BY <3>2, <3>3, <3>4
  <2> QED
    BY <1>21, <2>2, <2>3 DEF FinishLead
<1>22. CASE ReleaseLine(h)
  <2>1. x = "line" /\ UNCHANGED <<tokens, row>> /\ Advance(h)
    BY <1>22 DEF ReleaseLine, At, at, callVars
  <2>2. c \notin AtRow' /\ (h \in Unfinished' => h \in Unfinished)
    BY <1>7, <2>1 DEF HandlerOK
  <2>3. h \notin Between /\ (h \in Between' => c \in Outbound)
    BY <1>7, <2>1
  <2>4. CASE ~owesChannel(h)
    <3>1. UNCHANGED <<channels, faults>> /\ c \in Inbound /\ seen[h] # "PROCESSING"
      BY <1>22, <2>4 DEF ReleaseLine, owesChannel
    <3>2. c \notin AtRow
      BY <2>1, <3>1 DEF HandlerOK, Kinds, Callbacks
    <3> QED
      BY <1>5, <2>1, <2>2, <2>3, <3>1, <3>2 DEF Kept
  <2>5. CASE owesChannel(h)
    <3>1. \/ channels' = minus(channels, 1) /\ faults' = faults
          \/ channels' = channels /\ faults' = faults + 1
      BY <1>22, <2>5, DecrementBounds DEF ReleaseLine
    <3>2. c \in AtRow
      <4>1. seen[h] = "PROCESSING"
        BY <2>1, <2>5 DEF owesChannel, HandlerOK, Kinds, Callbacks
      <4> QED
        BY <2>1, <4>1 DEF HandlerOK, Rows
    <3>3. CASE channels' = channels /\ faults' = faults + 1
      BY <1>6, <2>1, <2>2, <3>3 DEF Kept
    <3>4. CASE channels' = minus(channels, 1) /\ faults' = faults
      <4>1. /\ bit(c \in AtWorker') = bit(c \in AtWorker)
            /\ bit(c \in InHand') = bit(c \in InHand)
            /\ bit(c \in AtWorker \cup AtRow) = 1 /\ bit(c \in AtRow) = 1
            /\ bit(c \in AtRow') = 0
            /\ bit(h \in Unfinished') <= bit(h \in Unfinished) /\ bit(h \in Between) = 0
        BY <2>2, <2>3, <3>2 DEF bit
      <4>2. channels' = 0 \/ channels' + 1 = channels
        BY <3>4 DEF minus
      <4>3. channels <= channels' + 1
        BY <3>4 DEF minus
      <4>4. KeepsCounted(c)
        BY <1>4, <3>4, <4>1, <4>2 DEF KeepsCounted
      <4>5. KeepsBacked(c, h)
        BY <1>4, <3>4, <4>1, <4>3 DEF KeepsBacked
      <4>6. KeepsPaired(c, h)
        BY <1>4, <2>1, <2>3, <3>4, <4>1 DEF KeepsPaired
      <4> QED
        BY <4>4, <4>5, <4>6 DEF Kept
    <3> QED
      BY <3>1, <3>3, <3>4
  <2> QED
    BY <2>4, <2>5
<1>23. CASE ReleaseToken(h)
  <2>1. x = "token" /\ UNCHANGED <<channels, row>> /\ Advance(h)
    BY <1>23 DEF ReleaseToken, At, at, callVars
  <2>2. /\ ~Ended(h) /\ c \notin AtRow /\ c \notin AtRow'
        /\ (h \in Unfinished' <=> h \in Unfinished)
    BY <1>7, <2>1
  <2>3. (h \in Between <=> c \in Outbound) /\ h \notin Between'
    BY <1>7, <2>1
  <2>4. CASE c \notin Outbound
    <3>1. UNCHANGED <<tokens, faults>>
      BY <1>23, <2>4 DEF ReleaseToken
    <3> QED
      BY <1>5, <2>1, <2>2, <2>3, <2>4, <3>1 DEF Kept
  <2>5. CASE c \in Outbound
    <3>1. \/ tokens' = tokens + 1 /\ faults' = faults
          \/ tokens' = tokens /\ faults' = faults + 1
      BY <1>23, <2>5, ReleaseBounds DEF ReleaseToken
    <3>2. CASE tokens' = tokens /\ faults' = faults + 1
      BY <1>6, <2>1, <2>2, <3>2 DEF Kept
    <3>3. CASE tokens' = tokens + 1 /\ faults' = faults
      <4>1. /\ bit(c \in AtWorker') = bit(c \in AtWorker)
            /\ bit(c \in InHand') = bit(c \in InHand)
            /\ bit(c \in AtWorker' \cup AtRow') = bit(c \in AtWorker \cup AtRow)
            /\ bit(c \in AtRow') = bit(c \in AtRow)
            /\ bit(h \in Unfinished') = bit(h \in Unfinished)
            /\ bit(h \in Between) = 1 /\ bit(h \in Between') = 0
        BY <2>2, <2>3, <2>5 DEF bit
      <4>2. KeepsCounted(c)
        BY <1>4, <2>1, <3>3, <4>1 DEF KeepsCounted
      <4>3. KeepsBacked(c, h)
        BY <1>4, <2>1, <3>3, <4>1 DEF KeepsBacked
      <4>4. KeepsPaired(c, h)
        BY <1>4, <2>5, <3>3, <4>1 DEF KeepsPaired
      <4> QED
        BY <4>2, <4>3, <4>4 DEF Kept
    <3> QED
      BY <3>1, <3>2, <3>3
  <2> QED
    BY <2>4, <2>5
<1>24. CASE RetryCall(h)
  <2>1. x = "retry" /\ UNCHANGED <<channels, tokens, row, faults>> /\ Ended(h)
    BY <1>8, <1>24 DEF RetryCall, At, at, numberVars, callVars
  <2>2. c \notin AtRow /\ (h \in Unfinished <=> row[c] = "PROCESSING")
    BY <2>1
  <2>3. faults = 0 => row[c] = "FINISHED"
    BY <2>1 DEF HandlerOK
  <2>4. /\ (c \in AtRow' <=> row[c] = "PROCESSING") /\ h \notin Unfinished'
        /\ h \notin Between' /\ h \notin Between
    BY <2>1
  <2> QED
    BY <1>5, <2>1, <2>2, <2>3, <2>4 DEF Kept
<1>25. CASE LoseHandler(h)
  <2>1. UNCHANGED <<channels, tokens>> /\ faults' = faults + 1 /\ Ended(h)
    BY <1>8, <1>25 DEF LoseHandler, numberVars, Fault
  <2> QED
    BY <1>6, <2>1 DEF Kept
<1> QED
  BY <1>17, <1>18, <1>19, <1>20, <1>21, <1>22, <1>23, <1>24, <1>25 DEF HandlerStep, Kept

Accounts == Counted /\ Backed /\ Paired
IInv == Types /\ Settled /\ Accounts

LEMMA AccountsInit == Init => Accounts
<1> SUFFICES ASSUME Init PROVE Accounts
  OBVIOUS
<1>1. AtWorker = {} /\ AtRow = {} /\ Unfinished = {} /\ InHand = {} /\ Between = {}
  BY DEF Init, AtWorker, AtRow, Unfinished, InHand, Between, Busy, Calls
<1>2. Cardinality({}) = 0
  BY FS_EmptySet
<1>3. /\ AtWorker \cup AtRow = {} /\ AtWorker \cap Outbound = {} /\ AtRow \cap Outbound = {}
  BY <1>1
<1> QED
  BY <1>1, <1>2, <1>3, NumbersAssumption DEF Init, Accounts, Counted, Backed, Paired

LEMMA IInvStep ==
    ASSUME Timely
    PROVE  IInv /\ [Next]_vars => IInv'
<1> SUFFICES ASSUME Types, Settled, Accounts, [Next]_vars
             PROVE  Types' /\ Settled' /\ Accounts'
  BY DEF IInv
<1>1. Types' /\ Settled'
  BY TypesStep, SettledStep
<1>2. ASSUME NEW c \in Calls, DispatchStep(c) \/ CallEvent(c) PROVE Accounts'
  BY <1>1, <1>2, WorkersCount, CountsCarry DEF Accounts
<1>3. ASSUME NEW h \in Handlers, NEW c \in Calls,
             StartSweep(h, c) \/ \E k \in Callbacks : Deliver(h, k, c)
      PROVE  Accounts'
  BY <1>1, <1>3, StartsCount, CountsCarry DEF Accounts
<1>4. ASSUME NEW h \in Handlers, HandlerStep(h) \/ LoseHandler(h) PROVE Accounts'
  <2>1. call[h] \in Calls
    BY <1>4, HandlerMoves
  <2> QED
    BY <1>1, <1>4, <2>1, HandlersCount, CountsCarry DEF Accounts
<1>5. CASE Reconcile \/ UNCHANGED vars
  <2>1. UNCHANGED <<channels, callVars, handlerVars, faults>>
    BY <1>5, ReconcilerKeepsTypes DEF vars, numberVars
  <2>2. /\ AtWorker' = AtWorker /\ AtRow' = AtRow /\ Unfinished' = Unfinished
        /\ InHand' = InHand /\ Between' = Between
    BY <2>1 DEF callVars, handlerVars, AtWorker, AtRow, AtWorkOn, WillRelease, Unfinished,
       InHand, Between, Busy, at
  <2>3. ~Reconciling => UNCHANGED tokens
    BY <1>5, ReconcilerKeepsTypes DEF vars, numberVars, Types, NumberTypes
  <2>4. Counted'
    BY <2>1, <2>2 DEF Accounts, Counted
  <2>5. Backed'
    BY <2>1, <2>2 DEF Accounts, Backed
  <2>6. Paired'
    BY <2>1, <2>2, <2>3 DEF Accounts, Paired
  <2> QED
    BY <1>1, <2>4, <2>5, <2>6 DEF Accounts
<1> QED
  BY <1>1, <1>2, <1>3, <1>4, <1>5 DEF Next

LEMMA Invariant ==
    ASSUME Timely
    PROVE  Spec => []IInv
<1>1. Init => IInv
  BY TypesInit, SettledInit, AccountsInit DEF IInv
<1>2. IInv /\ [Next]_vars => IInv'
  BY IInvStep
<1> QED
  BY <1>1, <1>2, PTL DEF Spec

LEMMA UnionIsLess ==
    ASSUME NEW S, NEW T, IsFiniteSet(S), IsFiniteSet(T)
    PROVE  /\ Cardinality(S) \in Nat /\ Cardinality(T) \in Nat
           /\ IsFiniteSet(S \cup T) /\ Cardinality(S \cup T) \in Nat
           /\ Cardinality(S \cup T) <= Cardinality(S) + Cardinality(T)
<1>1. /\ Cardinality(S) \in Nat /\ Cardinality(T) \in Nat
      /\ IsFiniteSet(S \cup T)
      /\ Cardinality(S \cup T) = Cardinality(S) + Cardinality(T) - Cardinality(S \cap T)
  BY FS_Union, FS_CardinalityType
<1>2. IsFiniteSet(S \cap T)
  BY FS_Subset
<1>3. Cardinality(S \cap T) \in Nat /\ Cardinality(S \cup T) \in Nat
  BY <1>1, <1>2, FS_CardinalityType
<1> QED
  BY <1>1, <1>3

\* With endings in time, whatever their order and however many come twice: the
\* channels column counts the calls that still have a channel to give back, and
\* each failed call, dead worker or dead handler puts it out by one at most.
THEOREM ChannelsCounted ==
    ASSUME Timely
    PROVE  Spec => []OneFaultOneChannel
<1>1. IInv => OneFaultOneChannel
  <2> SUFFICES ASSUME IInv PROVE OneFaultOneChannel
    OBVIOUS
  <2>1. {c \in Calls : HoldsChannel(c)} = AtWorker \cup AtRow
    BY DEF HoldsChannel, AtWorker, AtRow
  <2>2. /\ Cardinality(AtWorker \cup AtRow) \in Nat
        /\ Cardinality(AtWorker) \in Nat /\ Cardinality(AtRow) \in Nat
        /\ Cardinality(AtWorker \cup AtRow) <= Cardinality(AtWorker) + Cardinality(AtRow)
    BY AllAreFinite, UnionIsLess DEF AllFinite
  <2>3. Cardinality(Unfinished) \in Nat /\ channels \in Nat /\ faults \in Nat
    BY AllAreFinite, FS_CardinalityType, NumbersAssumption DEF AllFinite, IInv, Types,
       NumberTypes
  <2>4. /\ channels <= Cardinality(AtWorker \cup AtRow) + faults
        /\ Cardinality(AtWorker) + Cardinality(AtRow) + Cardinality(Unfinished) <= channels + faults
    BY DEF IInv, Accounts, Counted, Backed
  <2> DEFINE holding == Cardinality({c \in Calls : HoldsChannel(c)})
  <2>5. holding = Cardinality(AtWorker \cup AtRow)
    BY <2>1
  <2> HIDE DEF holding
  <2>6. channels <= holding + faults /\ holding <= channels + faults
    BY <2>2, <2>3, <2>4, <2>5
  <2> QED
    BY <2>6 DEF OneFaultOneChannel, holding
<1> QED
  BY <1>1, Invariant, PTL

\* While nothing fails, the calls on the trunk exceed the number's channels by no
\* more than those that an ending closed before the line was down: every other
\* live call, whatever endings it had, still has its channel in the column.
THEOREM TrunkIsEnough ==
    ASSUME Timely
    PROVE  Spec => []LiveCallsFit
<1>1. IInv => LiveCallsFit
  <2> DEFINE OnLine == {c \in Calls : onLine[c] /\ ~GivenBackEarly(c)}
  <2> SUFFICES ASSUME IInv, faults = 0 PROVE Cardinality(OnLine) <= Maximum
    BY DEF LiveCallsFit
  <2>1. RowsSeen
    BY RowsAreSeen DEF IInv
  <2>2. ASSUME NEW c \in OnLine PROVE c \in AtWorker \cup AtRow
    <3>1. CASE HoldsChannel(c)
      BY <2>2, <3>1 DEF HoldsChannel, AtWorker, AtRow
    <3>2. CASE ~HoldsChannel(c)
      <4>1. CallOK(c) /\ onLine[c] /\ sent[c] \subseteq Early(c)
        BY <2>2 DEF IInv, Settled, CallOK
      <4>2. sent[c] = {}
        BY <2>2, <3>2, <4>1 DEF GivenBackEarly, Early
      <4>3. pc[c] \in {"placed", "admitted"} \/ row[c] = "PROCESSING"
        BY <4>1, <4>2 DEF CallOK
      <4>4. \A h \in Busy : call[h] # c
        BY <4>2 DEF IInv, Settled, HandlerOK
      <4> QED
        BY <2>1, <2>2, <4>3, <4>4 DEF RowsSeen, AtWorker
    <3> QED
      BY <3>1, <3>2
  <2>3. Cardinality(OnLine) <= Cardinality(AtWorker \cup AtRow) /\ Cardinality(OnLine) \in Nat
    BY <2>2, AllAreFinite, FS_Subset, FS_CardinalityType DEF AllFinite
  <2>4. /\ Cardinality(AtWorker \cup AtRow) \in Nat
        /\ Cardinality(AtWorker) \in Nat /\ Cardinality(AtRow) \in Nat
        /\ Cardinality(AtWorker \cup AtRow) <= Cardinality(AtWorker) + Cardinality(AtRow)
    BY AllAreFinite, UnionIsLess DEF AllFinite
  <2>5. Cardinality(Unfinished) \in Nat /\ channels \in 0 .. Maximum
    BY AllAreFinite, FS_CardinalityType DEF AllFinite, IInv, Types, NumberTypes
  <2>6. Cardinality(AtWorker) + Cardinality(AtRow) + Cardinality(Unfinished) <= channels
    BY <2>5, NumbersAssumption DEF IInv, Accounts, Backed
  <2> QED
    BY <2>3, <2>4, <2>5, <2>6, NumbersAssumption
<1> QED
  BY <1>1, Invariant, PTL

\* While nothing fails and the reconciler is off, the tokens that can be taken
\* or are in workers' hands fit beside the lines outbound calls hold.
THEOREM TokensHaveLines ==
    ASSUME Timely, ~Reconciling
    PROVE  Spec => []TokenHasLine
<1>1. IInv => TokenHasLine
  <2> DEFINE InToken == {c \in Calls : pc[c] = "token"}
             Holding == {c \in Outbound : HoldsChannel(c)}
  <2> SUFFICES ASSUME IInv, faults = 0
               PROVE  tokens + Cardinality(InToken) + Cardinality(Holding) <= Maximum
    BY DEF TokenHasLine
  <2>1. InToken \subseteq InHand
    BY DEF InHand, Calls, IInv, Types, CallTypes, InboundPCs
  <2>2. /\ Cardinality(InToken) <= Cardinality(InHand) /\ Cardinality(InToken) \in Nat
        /\ Cardinality(InHand) \in Nat
    BY <2>1, AllAreFinite, FS_Subset, FS_CardinalityType DEF AllFinite
  <2>3. Holding = (AtWorker \cap Outbound) \cup (AtRow \cap Outbound)
    BY DEF HoldsChannel, AtWorker, AtRow, Calls
  <2>4. /\ Cardinality(Holding) \in Nat
        /\ Cardinality(AtWorker \cap Outbound) \in Nat
        /\ Cardinality(AtRow \cap Outbound) \in Nat
        /\ Cardinality(Holding) <= Cardinality(AtWorker \cap Outbound) + Cardinality(AtRow \cap Outbound)
    BY <2>3, AllAreFinite, UnionIsLess DEF AllFinite
  <2>5. Cardinality(Between) \in Nat /\ tokens \in Nat
    BY AllAreFinite, FS_CardinalityType DEF AllFinite, IInv, Types, NumberTypes
  <2>6. tokens + Cardinality(InHand) + Cardinality(AtWorker \cap Outbound)
          + Cardinality(AtRow \cap Outbound) + Cardinality(Between) <= Maximum
    BY DEF IInv, Accounts, Paired
  <2> QED
    BY <2>2, <2>4, <2>5, <2>6, NumbersAssumption
<1> QED
  BY <1>1, Invariant, PTL

=============================================================================
