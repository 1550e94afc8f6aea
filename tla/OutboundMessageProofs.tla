------------------------ MODULE OutboundMessageProofs ------------------------
(***************************************************************************)
(* What TLAPS proves of OutboundMessage, for any number of messages,       *)
(* dispatchers, attempts, faults, overruns and letters.                    *)
(***************************************************************************)
EXTENDS OutboundMessageProps, FiniteSetTheorems, TLAPS

-----------------------------------------------------------------------------
(* The shape of the variables.                                             *)

RowTypes ==
    /\ status \in [Messages -> Statuses]
    /\ attempt \in [Messages -> Nat]
    /\ due \in [Messages -> BOOLEAN] /\ stale \in [Messages -> BOOLEAN]
    /\ providerId \in [Messages -> Nat]
    /\ marks \in [Messages -> SUBSET Marks]

LoopTypes ==
    /\ pc \in [Dispatchers -> PCs]
    /\ job \in [Dispatchers -> Messages \cup {NoMessage}]
    /\ \A w \in Dispatchers :
        job[w] = NoMessage <=> pc[w] \in {"idle", "swept", "rows"}
    /\ batch \in [Dispatchers -> SUBSET Messages]
    /\ claim \in [Dispatchers -> [Messages -> Nat]]
    /\ plan \in [Dispatchers -> Statuses]
    /\ earlyOnes \in [Dispatchers -> SUBSET ReceiptStates]

SideTypes ==
    /\ letters \in [Messages -> SUBSET (Nat \X ReceiptStates)]
    /\ pending \in [Messages -> SUBSET (Nat \X ReceiptStates)]
    /\ copies \in [Messages -> SUBSET Nat] /\ lost \in [Messages -> Nat]
    /\ faults \in Nat /\ overruns \in Nat

LEMMA TypeParts == TypeOK <=> RowTypes /\ LoopTypes /\ SideTypes
  BY DEF TypeOK, RowTypes, LoopTypes, SideTypes

LEMMA StatusesAre ==
    Statuses = {"none", "queued", "sending", "blocked", "failed", "dead",
                "accepted", "sent", "delivered", "read"}
  BY DEF Statuses, Rank

LEMMA RanksAre ==
    /\ Rank["none"] = 0 /\ Rank["queued"] = 0 /\ Rank["sending"] = 0
    /\ Rank["blocked"] = 0 /\ Rank["failed"] = 0 /\ Rank["dead"] = 0
    /\ Rank["accepted"] = 1 /\ Rank["sent"] = 2 /\ Rank["delivered"] = 3
    /\ Rank["read"] = 4
  BY DEF Rank

\* A dispatcher that is past NextRow has a message.
LEMMA BusyHasMessage ==
    ASSUME LoopTypes, NEW w \in Dispatchers,
           pc[w] \notin {"idle", "swept", "rows"}
    PROVE  job[w] \in Messages /\ claim[w][job[w]] \in Nat
  BY DEF LoopTypes

LEMMA TypeInit == Init => TypeOK
  BY StatusesAre DEF Init, TypeOK, PCs

\* What a receipt leaves behind has the shape of what it found.
LEMMA ReceiptTypes ==
    ASSUME RowTypes, NEW m \in Messages, NEW a, NEW s \in ReceiptStates,
           apply_receipt(m, a, s)
    PROVE  status' \in [Messages -> Statuses] /\ marks' \in [Messages -> SUBSET Marks]
  BY StatusesAre DEF RowTypes, apply_receipt, ReceiptStates, Marks

LEMMA RowTypesStep ==
    ASSUME TypeOK, Next
    PROVE  RowTypes'
<1>0. RowTypes /\ LoopTypes
  BY TypeParts
<1>1. ASSUME NEW w \in Dispatchers, DispatcherStep(w) PROVE RowTypes'
  <2>1. CASE SweepStaleClaims(w)
    BY <1>0, <2>1, StatusesAre DEF SweepStaleClaims, RowTypes, sweptTo, isStale
  <2>2. CASE ClaimBatch(w)
    BY <1>0, <2>2, StatusesAre DEF ClaimBatch, RowTypes
  <2>3. CASE StampOutcome(w)
    <3>1. job[w] \in Messages /\ claim[w][job[w]] \in Nat /\ plan[w] \in Statuses
      BY <1>0, <2>3, BusyHasMessage DEF StampOutcome, LoopTypes
    <3> QED
      BY <1>0, <2>3, <3>1 DEF StampOutcome, RowTypes, Marks
  <2>4. CASE ApplyEarlyOne(w)
    <3>1. job[w] \in Messages /\ earlyOnes[w] \subseteq ReceiptStates
      BY <1>0, <2>4, BusyHasMessage DEF ApplyEarlyOne, LoopTypes
    <3>2. PICK s \in ReceiptStates : apply_receipt(job[w], claim[w][job[w]], s)
      BY <2>4, <3>1 DEF ApplyEarlyOne
    <3> QED
      BY <1>0, <2>4, <3>1, <3>2, ReceiptTypes DEF ApplyEarlyOne, RowTypes
  <2>5. CASE UNCHANGED rowVars
    BY <1>0, <2>5 DEF RowTypes, rowVars
  <2> QED
    BY <1>1, <2>1, <2>2, <2>3, <2>4, <2>5
    DEF DispatcherStep, NextRow, AskGate, SendCopy, SendNothing, MissOutcome,
        ReadBack, GiveUpReadBack
<1>2. ASSUME NEW w \in Dispatchers, StopDispatcher(w) PROVE RowTypes'
  BY <1>0, <1>2 DEF StopDispatcher, RowTypes, rowVars
<1>3. ASSUME NEW m \in Messages, MessageStep(m) PROVE RowTypes'
  <2>1. CASE QueueMessage(m) \/ BecomeDue(m) \/ LeaseEnds(m)
    BY <1>0, <2>1, StatusesAre DEF QueueMessage, BecomeDue, LeaseEnds, RowTypes
  <2>2. ASSUME NEW a \in 1..MaxAttempts, NEW s \in ReceiptStates,
               FileLetter(m, a, s) \/ ConsumeLetter(m, a, s)
        PROVE  RowTypes'
    BY <1>0, <2>2, ReceiptTypes DEF FileLetter, ConsumeLetter, RowTypes, rowVars
  <2> QED
    BY <1>3, <2>1, <2>2 DEF MessageStep
<1> QED
  BY <1>1, <1>2, <1>3 DEF Next

\* A dispatcher that moves on with its message, or is done with it.
LEMMA LoopMoves ==
    ASSUME LoopTypes, NEW w \in Dispatchers,
           NEW where \in {"outcome", "readBack", "apply"},
           pc[w] \notin {"idle", "swept", "rows"}, Goto(w, where),
           plan' \in [Dispatchers -> Statuses],
           earlyOnes' \in [Dispatchers -> SUBSET ReceiptStates],
           UNCHANGED <<job, batch, claim>>
    PROVE  LoopTypes'
<1>1. /\ pc' \in [Dispatchers -> PCs]
      /\ \A v \in Dispatchers :
           pc'[v] \in {"idle", "swept", "rows"}
           <=> pc[v] \in {"idle", "swept", "rows"}
  BY DEF LoopTypes, Goto, PCs
<1> QED
  BY <1>1 DEF LoopTypes

LEMMA LoopDone ==
    ASSUME LoopTypes, NEW w \in Dispatchers, Done(w),
           earlyOnes' \in [Dispatchers -> SUBSET ReceiptStates],
           UNCHANGED <<batch, claim>>
    PROVE  LoopTypes'
<1>1. pc' \in [Dispatchers -> PCs] /\ plan' \in [Dispatchers -> Statuses]
  BY StatusesAre DEF LoopTypes, Done, Goto, PCs
<1>2. /\ job' \in [Dispatchers -> Messages \cup {NoMessage}]
      /\ \A v \in Dispatchers :
           job'[v] = NoMessage <=> pc'[v] \in {"idle", "swept", "rows"}
  BY NoMessageAssumption DEF LoopTypes, Done, Goto, PCs
<1> QED
  BY <1>1, <1>2 DEF LoopTypes

LEMMA LoopTypesStep ==
    ASSUME TypeOK, Next
    PROVE  LoopTypes'
<1> USE NoMessageAssumption, StatusesAre
<1>0. RowTypes /\ LoopTypes
  BY TypeParts
<1>1. ASSUME NEW w \in Dispatchers, DispatcherStep(w) PROVE LoopTypes'
  <2>1. CASE SweepStaleClaims(w)
    BY <1>0, <2>1 DEF SweepStaleClaims, LoopTypes, PCs, Goto
  <2>2. CASE ClaimBatch(w)
    <3>1. PICK S \in SUBSET Messages :
            /\ claim' = [claim EXCEPT ![w] = [m \in Messages |->
                           IF m \in S THEN attempt[m] + 1 ELSE @[m]]]
            /\ batch' = [batch EXCEPT ![w] = S]
      BY <2>2 DEF ClaimBatch
    <3>2. batch' \in [Dispatchers -> SUBSET Messages]
      BY <1>0, <3>1 DEF LoopTypes
    <3>3. claim' \in [Dispatchers -> [Messages -> Nat]]
      BY <1>0, <3>1 DEF RowTypes, LoopTypes
    <3> QED
      BY <1>0, <2>2, <3>2, <3>3 DEF ClaimBatch, LoopTypes, PCs, Goto
  <2>3. CASE NextRow(w)
    <3>1. CASE batch[w] = {} /\ Goto(w, "idle") /\ UNCHANGED <<batch, job>>
      BY <1>0, <2>3, <3>1 DEF NextRow, LoopTypes, PCs, Goto
    <3>2. ASSUME NEW m \in batch[w], batch' = [batch EXCEPT ![w] = @ \ {m}],
                 job' = [job EXCEPT ![w] = m], Goto(w, "gate")
          PROVE  LoopTypes'
      <4>1. m \in Messages
        BY <1>0, <3>2 DEF LoopTypes
      <4> QED
        BY <1>0, <2>3, <3>2, <4>1 DEF NextRow, LoopTypes, PCs, Goto
    <3> QED
      BY <2>3, <3>1, <3>2 DEF NextRow
  <2>4. CASE AskGate(w)
    BY <1>0, <2>4 DEF AskGate, LoopTypes, PCs, Goto
  <2>5. CASE SendCopy(w) \/ SendNothing(w)
    <3>1. PICK p \in Statuses : plan' = [plan EXCEPT ![w] = p]
      <4>1. CASE SendCopy(w)
        BY <4>1 DEF SendCopy, retryPlan
      <4>2. CASE SendNothing(w)
        BY <4>2 DEF SendNothing, retryPlan
      <4> QED
        BY <2>5, <4>1, <4>2
    <3>2. /\ pc[w] = "send" /\ Goto(w, "outcome")
          /\ UNCHANGED <<job, batch, claim, earlyOnes>>
      BY <2>5 DEF SendCopy, SendNothing
    <3>3. /\ plan' \in [Dispatchers -> Statuses]
          /\ earlyOnes' \in [Dispatchers -> SUBSET ReceiptStates]
      BY <1>0, <3>1, <3>2 DEF LoopTypes
    <3> QED
      BY <1>0, <3>2, <3>3, LoopMoves
  <2>6. CASE StampOutcome(w) \/ MissOutcome(w)
    <3>1. pc[w] = "outcome" /\ UNCHANGED <<batch, claim, earlyOnes>>
      BY <2>6 DEF StampOutcome, MissOutcome
    <3>2. Done(w) \/ (Goto(w, "readBack") /\ UNCHANGED <<job, plan>>)
      BY <2>6 DEF StampOutcome, MissOutcome
    <3>3. /\ plan \in [Dispatchers -> Statuses]
          /\ earlyOnes' \in [Dispatchers -> SUBSET ReceiptStates]
      BY <1>0, <3>1 DEF LoopTypes
    <3>4. CASE Done(w)
      BY <1>0, <3>1, <3>3, <3>4, LoopDone
    <3>5. CASE Goto(w, "readBack") /\ UNCHANGED <<job, plan>>
      BY <1>0, <3>1, <3>3, <3>5, LoopMoves
    <3> QED
      BY <3>2, <3>4, <3>5
  <2>7. CASE ReadBack(w)
    <3>1. pc[w] = "readBack" /\ UNCHANGED <<batch, claim>>
      BY <2>7 DEF ReadBack
    <3>2. earlyOnes' \in [Dispatchers -> SUBSET ReceiptStates]
      <4>1. PICK E \in SUBSET ReceiptStates :
              earlyOnes' = earlyOnes \/ earlyOnes' = [earlyOnes EXCEPT ![w] = E]
        BY <2>7, Zenon DEF ReadBack
      <4> QED
        BY <1>0, <4>1 DEF LoopTypes
    <3>3. Done(w) \/ (Goto(w, "apply") /\ UNCHANGED <<job, plan>>)
      BY <2>7 DEF ReadBack
    <3>4. plan \in [Dispatchers -> Statuses]
      BY <1>0 DEF LoopTypes
    <3>5. CASE Done(w)
      BY <1>0, <3>1, <3>2, <3>5, LoopDone
    <3>6. CASE Goto(w, "apply") /\ UNCHANGED <<job, plan>>
      BY <1>0, <3>1, <3>2, <3>4, <3>6, LoopMoves
    <3> QED
      BY <3>3, <3>5, <3>6
  <2>8. CASE GiveUpReadBack(w)
    <3>1. Done(w) /\ UNCHANGED <<batch, claim>>
      BY <2>8 DEF GiveUpReadBack
    <3>2. earlyOnes' \in [Dispatchers -> SUBSET ReceiptStates]
      BY <1>0, <2>8 DEF GiveUpReadBack, LoopTypes
    <3> QED
      BY <1>0, <3>1, <3>2, LoopDone
  <2>9. CASE ApplyEarlyOne(w)
    <3>1. UNCHANGED <<batch, claim>>
      BY <2>9 DEF ApplyEarlyOne
    <3>2. earlyOnes' \in [Dispatchers -> SUBSET ReceiptStates]
      BY <1>0, <2>9 DEF ApplyEarlyOne, LoopTypes
    <3>3. Done(w) \/ UNCHANGED <<pc, job, plan>>
      BY <2>9 DEF ApplyEarlyOne
    <3>4. CASE UNCHANGED <<pc, job, plan>>
      BY <1>0, <3>1, <3>2, <3>4 DEF LoopTypes
    <3> QED
      BY <1>0, <3>1, <3>2, <3>3, <3>4, LoopDone
  <2> QED
    BY <1>1, <2>1, <2>2, <2>3, <2>4, <2>5, <2>6, <2>7, <2>8, <2>9
    DEF DispatcherStep
<1>2. ASSUME NEW w \in Dispatchers, StopDispatcher(w) PROVE LoopTypes'
  BY <1>0, <1>2 DEF StopDispatcher, LoopTypes, PCs, Goto
<1>3. ASSUME NEW m \in Messages, MessageStep(m) PROVE LoopTypes'
  BY <1>0, <1>3 DEF MessageStep, QueueMessage, BecomeDue, LeaseEnds,
     FileLetter, ConsumeLetter, loopVars, LoopTypes
<1> QED
  BY <1>1, <1>2, <1>3 DEF Next

LEMMA SideTypesStep ==
    ASSUME TypeOK, Next
    PROVE  SideTypes'
<1> USE DEF SideTypes, spineVars, ghostVars, budgets, Fault, NoFault, Lose
<1>0. LoopTypes /\ SideTypes
  BY TypeParts
<1>1. ASSUME NEW w \in Dispatchers, DispatcherStep(w) PROVE SideTypes'
  <2>1. CASE SendCopy(w) \/ MissOutcome(w)
    <3>1. job[w] \in Messages /\ claim[w][job[w]] \in Nat
      BY <1>0, <2>1, BusyHasMessage DEF SendCopy, MissOutcome
    <3> QED
      BY <1>0, <2>1, <3>1 DEF SendCopy, MissOutcome
  <2>2. CASE StampOutcome(w) \/ ReadBack(w) \/ GiveUpReadBack(w)
    BY <1>0, <2>2 DEF StampOutcome, ReadBack, GiveUpReadBack
  <2>3. CASE UNCHANGED <<spineVars, ghostVars, budgets>>
    BY <1>0, <2>3
  <2> QED
    BY <1>1, <2>1, <2>2, <2>3
    DEF DispatcherStep, SweepStaleClaims, ClaimBatch, NextRow, AskGate,
        SendNothing, ApplyEarlyOne
<1>2. ASSUME NEW w \in Dispatchers, StopDispatcher(w) PROVE SideTypes'
  <2>1. pc[w] = "outcome" => job[w] \in Messages
    BY <1>0, BusyHasMessage
  <2> QED
    BY <1>0, <1>2, <2>1 DEF StopDispatcher
<1>3. ASSUME NEW m \in Messages, MessageStep(m) PROVE SideTypes'
  <2>1. CASE QueueMessage(m) \/ BecomeDue(m) \/ LeaseEnds(m)
    BY <1>0, <2>1 DEF QueueMessage, BecomeDue, LeaseEnds
  <2>2. ASSUME NEW a \in 1..MaxAttempts, NEW s \in ReceiptStates,
               FileLetter(m, a, s) \/ ConsumeLetter(m, a, s)
        PROVE  SideTypes'
    <3>1. <<a, s>> \in Nat \X ReceiptStates
      BY LimitsAssumption
    <3> QED
      BY <1>0, <2>2, <3>1 DEF FileLetter, ConsumeLetter
  <2> QED
    BY <1>3, <2>1, <2>2 DEF MessageStep
<1> QED
  BY <1>1, <1>2, <1>3 DEF Next

LEMMA TypeStep == TypeOK /\ [Next]_vars => TypeOK'
<1> SUFFICES ASSUME TypeOK, [Next]_vars PROVE TypeOK'
  OBVIOUS
<1>1. CASE Next
  <2>1. RowTypes' /\ LoopTypes' /\ SideTypes'
    BY <1>1, RowTypesStep, LoopTypesStep, SideTypesStep
  <2> QED
    BY <2>1 DEF TypeOK, RowTypes, LoopTypes, SideTypes
<1>2. CASE UNCHANGED vars
  BY <1>2 DEF TypeOK, vars, rowVars, loopVars, spineVars, ghostVars, budgets
<1> QED
  BY <1>1, <1>2

\* Every variable of the manifest keeps its shape.
THEOREM TypeCorrect == Spec => []TypeOK
  BY TypeInit, TypeStep, PTL DEF Spec
-----------------------------------------------------------------------------
(* The claims and their attempts.                                          *)

Plans == {"accepted", "blocked", "failed", "dead", "queued"}

\* What a dispatcher has claimed it claimed with an attempt of its own, no
\* later than the row's last.
ClaimsCounted ==
    \A w \in Dispatchers : \A m \in Messages :
        /\ claim[w][m] <= attempt[m]
        /\ job[w] = m \/ m \in batch[w] => claim[w][m] >= 1

\* A row that can still be claimed has an attempt left.
AttemptLeft ==
    \A m \in Messages :
        /\ status[m] \in {"none", "queued"} => attempt[m] < MaxAttempts
        /\ attempt[m] <= MaxAttempts

\* A dispatcher about to requeue a row leaves it an attempt, one about to bury
\* it leaves it none, one about to accept it has sent the copy.
PlanFits ==
    \A w \in Dispatchers : pc[w] = "outcome" =>
        /\ plan[w] \in Plans
        /\ plan[w] = "queued" => claim[w][job[w]] < MaxAttempts
        /\ plan[w] = "dead" => claim[w][job[w]] >= MaxAttempts
        /\ plan[w] = "accepted" => claim[w][job[w]] \in copies[job[w]]

\* Only a claim that was made sent a copy.
CopiesClaimed == \A m \in Messages : copies[m] \subseteq 1..attempt[m]

\* The inductive invariant.
MInv ==
    /\ TypeOK /\ ClaimsCounted /\ AttemptLeft /\ PlanFits /\ CopiesClaimed
    /\ LastClaimWins /\ StatusIsHighestMark

LEMMA MInvInit == Init => MInv
<1> SUFFICES ASSUME Init PROVE MInv
  OBVIOUS
<1>1. TypeOK
  BY TypeInit
<1>2. ClaimsCounted /\ AttemptLeft /\ PlanFits /\ CopiesClaimed /\ LastClaimWins
  BY NoMessageAssumption, LimitsAssumption
  DEF Init, ClaimsCounted, AttemptLeft, PlanFits, CopiesClaimed, LastClaimWins
<1>3. StatusIsHighestMark
  BY DEF Init, StatusIsHighestMark, Accepted
<1> QED
  BY <1>1, <1>2, <1>3 DEF MInv

LEMMA ClaimsCountedStep ==
    ASSUME MInv, Next
    PROVE  ClaimsCounted'
<1> USE DEF ClaimsCounted
<1>0. TypeOK /\ RowTypes /\ LoopTypes /\ ClaimsCounted
  BY TypeParts DEF MInv
<1>1. ASSUME NEW w \in Dispatchers, DispatcherStep(w) PROVE ClaimsCounted'
  <2>1. CASE ClaimBatch(w)
    <3>1. PICK S \in SUBSET {m \in Messages : claimable(m)} :
            /\ attempt' = [m \in Messages |->
                            IF m \in S THEN attempt[m] + 1 ELSE attempt[m]]
            /\ claim' = [claim EXCEPT ![w] = [m \in Messages |->
                            IF m \in S THEN attempt[m] + 1 ELSE @[m]]]
            /\ batch' = [batch EXCEPT ![w] = S]
      BY <2>1 DEF ClaimBatch
    <3>2. job' = job /\ job[w] = NoMessage
      BY <1>0, <2>1 DEF ClaimBatch, LoopTypes
    <3>3. ASSUME NEW v \in Dispatchers, NEW m \in Messages
          PROVE  /\ claim'[v][m] <= attempt'[m]
                 /\ job'[v] = m \/ m \in batch'[v] => claim'[v][m] >= 1
      <4>1. /\ attempt[m] \in Nat /\ claim[v][m] \in Nat
            /\ attempt'[m] = IF m \in S THEN attempt[m] + 1 ELSE attempt[m]
        BY <1>0, <3>1 DEF RowTypes, LoopTypes
      <4>2. CASE v = w
        <5>1. /\ claim'[v][m] = IF m \in S THEN attempt[m] + 1 ELSE claim[v][m]
              /\ batch'[v] = S
          BY <1>0, <3>1, <4>2 DEF LoopTypes
        <5> QED
          BY <1>0, <3>2, <4>1, <4>2, <5>1, NoMessageAssumption
      <4>3. CASE v # w
        <5>1. claim'[v] = claim[v] /\ batch'[v] = batch[v]
          BY <1>0, <3>1, <4>3 DEF LoopTypes
        <5> QED
          BY <1>0, <3>2, <4>1, <5>1
      <4> QED
        BY <4>2, <4>3
    <3> QED
      BY <3>3
  <2>2. CASE NextRow(w)
    <3>1. UNCHANGED <<attempt, claim>>
      BY <2>2 DEF NextRow, rowVars
    <3>2. ASSUME NEW v \in Dispatchers, NEW m \in Messages,
                 job'[v] = m \/ m \in batch'[v]
          PROVE  job[v] = m \/ m \in batch[v]
      BY <1>0, <2>2, <3>2 DEF NextRow, LoopTypes
    <3> QED
      BY <1>0, <3>1, <3>2
  <2>3. CASE UNCHANGED <<attempt, claim, batch, job>>
    BY <1>0, <2>3
  <2>4. CASE UNCHANGED <<attempt, claim, batch>> /\ Done(w)
    <3>1. \A v \in Dispatchers, m \in Messages : job'[v] = m => job[v] = m
      BY <1>0, <2>4, NoMessageAssumption DEF Done, LoopTypes
    <3> QED
      BY <1>0, <2>4, <3>1
  <2> QED
    BY <1>1, <2>1, <2>2, <2>3, <2>4
    DEF DispatcherStep, SweepStaleClaims, AskGate, SendCopy, SendNothing,
        StampOutcome, MissOutcome, ReadBack, GiveUpReadBack, ApplyEarlyOne, rowVars
<1>2. ASSUME NEW w \in Dispatchers, StopDispatcher(w) PROVE ClaimsCounted'
  BY <1>0, <1>2, NoMessageAssumption DEF StopDispatcher, LoopTypes, rowVars
<1>3. ASSUME NEW m \in Messages, MessageStep(m) PROVE ClaimsCounted'
  BY <1>0, <1>3 DEF MessageStep, QueueMessage, BecomeDue, LeaseEnds,
     FileLetter, ConsumeLetter, loopVars, rowVars
<1> QED
  BY <1>1, <1>2, <1>3 DEF Next

LEMMA AttemptLeftStep ==
    ASSUME MInv, Next
    PROVE  AttemptLeft'
<1> USE DEF AttemptLeft
<1>0. /\ TypeOK /\ RowTypes /\ LoopTypes /\ AttemptLeft /\ PlanFits
      /\ LastClaimWins
  BY TypeParts DEF MInv
<1>a. ASSUME NEW m \in Messages, NEW a \in Nat \ {0}, NEW s \in ReceiptStates,
             apply_receipt(m, a, s), attempt' = attempt
      PROVE  AttemptLeft'
  BY <1>0, <1>a DEF apply_receipt, ReceiptStates, RowTypes
<1>1. ASSUME NEW w \in Dispatchers, DispatcherStep(w) PROVE AttemptLeft'
  <2>1. CASE SweepStaleClaims(w)
    BY <1>0, <2>1, LimitsAssumption
    DEF SweepStaleClaims, sweptTo, RowTypes
  <2>2. CASE ClaimBatch(w)
    BY <1>0, <2>2, LimitsAssumption DEF ClaimBatch, claimable, RowTypes
  <2>3. CASE StampOutcome(w)
    <3>1. job[w] \in Messages /\ attempt' = attempt
      BY <1>0, <2>3, BusyHasMessage DEF StampOutcome
    <3>2. /\ plan[w] \in Plans /\ status' = [status EXCEPT ![job[w]] = plan[w]]
          /\ plan[w] = "queued" => attempt[job[w]] < MaxAttempts
      BY <1>0, <2>3 DEF StampOutcome, ourClaim, PlanFits
    <3> QED
      BY <1>0, <3>1, <3>2 DEF RowTypes, Plans
  <2>4. CASE ApplyEarlyOne(w)
    <3>1. job[w] \in Messages /\ earlyOnes[w] \subseteq ReceiptStates
      BY <1>0, <2>4, BusyHasMessage DEF ApplyEarlyOne, LoopTypes
    <3>2. PICK s \in ReceiptStates : apply_receipt(job[w], claim[w][job[w]], s)
      BY <2>4, <3>1 DEF ApplyEarlyOne
    <3> QED
      BY <1>0, <2>4, <3>1, <3>2
      DEF ApplyEarlyOne, apply_receipt, ReceiptStates, RowTypes
  <2>5. CASE UNCHANGED <<status, attempt>>
    BY <1>0, <2>5
  <2> QED
    BY <1>1, <2>1, <2>2, <2>3, <2>4, <2>5
    DEF DispatcherStep, NextRow, AskGate, SendCopy, SendNothing, MissOutcome,
        ReadBack, GiveUpReadBack, rowVars
<1>2. ASSUME NEW w \in Dispatchers, StopDispatcher(w) PROVE AttemptLeft'
  BY <1>0, <1>2 DEF StopDispatcher, rowVars
<1>3. ASSUME NEW m \in Messages, MessageStep(m) PROVE AttemptLeft'
  <2>1. CASE QueueMessage(m)
    BY <1>0, <2>1 DEF QueueMessage, RowTypes
  <2>2. CASE BecomeDue(m) \/ LeaseEnds(m)
    BY <1>0, <2>2 DEF BecomeDue, LeaseEnds
  <2>3. ASSUME NEW a \in 1..MaxAttempts, NEW s \in ReceiptStates,
               FileLetter(m, a, s) \/ ConsumeLetter(m, a, s)
        PROVE  AttemptLeft'
    <3>1. a \in Nat \ {0}
      BY LimitsAssumption
    <3> QED
      BY <1>0, <1>a, <2>3, <3>1 DEF FileLetter, ConsumeLetter, rowVars
  <2> QED
    BY <1>3, <2>1, <2>2, <2>3 DEF MessageStep
<1> QED
  BY <1>1, <1>2, <1>3 DEF Next

LEMMA PlanFitsStep ==
    ASSUME MInv, Next
    PROVE  PlanFits'
<1> USE DEF PlanFits
<1>0. /\ TypeOK /\ RowTypes /\ LoopTypes /\ PlanFits /\ ClaimsCounted
      /\ AttemptLeft /\ SideTypes
  BY TypeParts DEF MInv
<1>a. ASSUME NEW v \in Dispatchers, pc[v] = "outcome",
             UNCHANGED <<plan, claim, job>>,
             \A m \in Messages : copies[m] \subseteq copies'[m]
      PROVE  /\ plan'[v] \in Plans
             /\ plan'[v] = "queued" => claim'[v][job'[v]] < MaxAttempts
             /\ plan'[v] = "dead" => claim'[v][job'[v]] >= MaxAttempts
             /\ plan'[v] = "accepted" => claim'[v][job'[v]] \in copies'[job'[v]]
  BY <1>0, <1>a, BusyHasMessage
<1>1. ASSUME NEW w \in Dispatchers, DispatcherStep(w) PROVE PlanFits'
  <2>1. CASE ClaimBatch(w)
    <3>1. PICK S \in SUBSET Messages :
            claim' = [claim EXCEPT ![w] = [m \in Messages |->
                        IF m \in S THEN attempt[m] + 1 ELSE @[m]]]
      BY <2>1 DEF ClaimBatch
    <3>2. \A v \in Dispatchers : v # w => claim'[v] = claim[v]
      BY <1>0, <3>1 DEF LoopTypes
    <3>3. \A v \in Dispatchers : pc'[v] = "outcome" => v # w /\ pc[v] = "outcome"
      BY <1>0, <2>1 DEF ClaimBatch, Goto, LoopTypes
    <3> QED
      BY <1>0, <2>1, <3>2, <3>3 DEF ClaimBatch, ghostVars
  <2>2. CASE AskGate(w)
    BY <1>0, <2>2 DEF AskGate, Goto, LoopTypes, Plans, ghostVars
  <2>3. CASE SendCopy(w)
    <3>1. job[w] \in Messages /\ claim[w][job[w]] \in Nat
      BY <1>0, <2>3, BusyHasMessage DEF SendCopy
    <3>2. /\ copies' = [copies EXCEPT ![job[w]] = @ \cup {claim[w][job[w]]}]
          /\ \A m \in Messages : copies[m] \subseteq copies'[m]
          /\ claim[w][job[w]] \in copies'[job[w]]
      BY <1>0, <2>3, <3>1 DEF SendCopy, SideTypes
    <3>3. /\ plan' \in {[plan EXCEPT ![w] = "accepted"],
                        [plan EXCEPT ![w] = retryPlan(job[w], claim[w][job[w]])]}
          /\ UNCHANGED <<job, claim>> /\ Goto(w, "outcome")
      BY <2>3 DEF SendCopy
    <3>4. retryPlan(job[w], claim[w][job[w]]) \in {"dead", "queued"}
          /\ (retryPlan(job[w], claim[w][job[w]]) = "queued"
                => claim[w][job[w]] < MaxAttempts)
          /\ (retryPlan(job[w], claim[w][job[w]]) = "dead"
                => claim[w][job[w]] >= MaxAttempts)
      BY <3>1, LimitsAssumption DEF retryPlan
    <3>5. ASSUME NEW v \in Dispatchers, pc'[v] = "outcome"
          PROVE  /\ plan'[v] \in Plans
                 /\ plan'[v] = "queued" => claim'[v][job'[v]] < MaxAttempts
                 /\ plan'[v] = "dead" => claim'[v][job'[v]] >= MaxAttempts
                 /\ plan'[v] = "accepted" => claim'[v][job'[v]] \in copies'[job'[v]]
      <4>1. CASE v = w
        BY <1>0, <3>2, <3>3, <3>4, <4>1 DEF Plans, LoopTypes
      <4>2. CASE v # w
        <5>1. pc[v] = "outcome" /\ plan'[v] = plan[v] /\ job[v] \in Messages
          BY <1>0, <3>3, <3>5, <4>2, BusyHasMessage DEF Goto, LoopTypes
        <5> QED
          BY <1>0, <3>2, <3>3, <5>1
      <4> QED
        BY <4>1, <4>2
    <3> QED
      BY <3>5
  <2>4. CASE SendNothing(w)
    <3>1. job[w] \in Messages /\ claim[w][job[w]] \in Nat
      BY <1>0, <2>4, BusyHasMessage DEF SendNothing
    <3> QED
      BY <1>0, <2>4, <3>1, LimitsAssumption
      DEF SendNothing, retryPlan, Goto, LoopTypes, Plans, ghostVars
  <2>5. CASE Done(w) /\ UNCHANGED <<claim, copies>>
    BY <1>0, <2>5 DEF Done, Goto, LoopTypes
  <2>6. CASE UNCHANGED <<plan, claim, job, copies>>
             /\ \E where \in {"swept", "idle", "gate", "rows", "readBack", "apply"} :
                  Goto(w, where) \/ UNCHANGED pc
    BY <1>0, <2>6 DEF Goto, LoopTypes
  <2>7. CASE SweepStaleClaims(w) \/ ReadBack(w) \/ GiveUpReadBack(w)
    BY <1>0, <2>5, <2>6, <2>7 DEF SweepStaleClaims, ReadBack, GiveUpReadBack, ghostVars
  <2>8. CASE NextRow(w)
    BY <1>0, <2>8 DEF NextRow, Goto, LoopTypes, ghostVars
  <2>9. CASE ApplyEarlyOne(w) \/ MissOutcome(w)
    BY <1>0, <2>5, <2>6, <2>9 DEF ApplyEarlyOne, MissOutcome, ghostVars
  <2>10. CASE StampOutcome(w)
    BY <1>0, <2>5, <2>6, <2>10 DEF StampOutcome, ghostVars
  <2> QED
    BY <1>1, <2>1, <2>2, <2>3, <2>4, <2>7, <2>8, <2>9, <2>10 DEF DispatcherStep
<1>2. ASSUME NEW w \in Dispatchers, StopDispatcher(w) PROVE PlanFits'
  BY <1>0, <1>2 DEF StopDispatcher, Goto, LoopTypes
<1>3. ASSUME NEW m \in Messages, MessageStep(m) PROVE PlanFits'
  BY <1>0, <1>3 DEF MessageStep, QueueMessage, BecomeDue, LeaseEnds,
     FileLetter, ConsumeLetter, loopVars, ghostVars
<1> QED
  BY <1>1, <1>2, <1>3 DEF Next

LEMMA CopiesClaimedStep ==
    ASSUME MInv, Next
    PROVE  CopiesClaimed'
<1> USE DEF CopiesClaimed
<1>0. /\ TypeOK /\ RowTypes /\ LoopTypes /\ SideTypes /\ CopiesClaimed
      /\ ClaimsCounted
  BY TypeParts DEF MInv
<1>1. ASSUME NEW w \in Dispatchers, DispatcherStep(w) PROVE CopiesClaimed'
  <2>1. CASE ClaimBatch(w)
    <3>1. \A m \in Messages : attempt[m] \in Nat /\ attempt'[m] \in Nat
                              /\ attempt[m] <= attempt'[m]
      BY <1>0, <2>1 DEF ClaimBatch, RowTypes
    <3> QED
      BY <1>0, <2>1, <3>1 DEF ClaimBatch, ghostVars
  <2>2. CASE SendCopy(w)
    <3>1. /\ job[w] \in Messages /\ claim[w][job[w]] \in Nat
          /\ attempt[job[w]] \in Nat
      BY <1>0, <2>2, BusyHasMessage DEF SendCopy, RowTypes
    <3>2. claim[w][job[w]] \in 1..attempt[job[w]]
      BY <1>0, <3>1 DEF ClaimsCounted
    <3> QED
      BY <1>0, <2>2, <3>1, <3>2 DEF SendCopy, SideTypes, rowVars
  <2>3. CASE UNCHANGED <<attempt, copies>>
    BY <1>0, <2>3
  <2> QED
    BY <1>1, <2>1, <2>2, <2>3
    DEF DispatcherStep, SweepStaleClaims, NextRow, AskGate, SendNothing,
        StampOutcome, MissOutcome, ReadBack, GiveUpReadBack, ApplyEarlyOne, rowVars, ghostVars
<1>2. ASSUME NEW w \in Dispatchers, StopDispatcher(w) PROVE CopiesClaimed'
  BY <1>0, <1>2 DEF StopDispatcher, rowVars
<1>3. ASSUME NEW m \in Messages, MessageStep(m) PROVE CopiesClaimed'
  BY <1>0, <1>3 DEF MessageStep, QueueMessage, BecomeDue, LeaseEnds,
     FileLetter, ConsumeLetter, ghostVars, rowVars
<1> QED
  BY <1>1, <1>2, <1>3 DEF Next

-----------------------------------------------------------------------------
(* The row: its id, its place on the ladder, its timestamps.               *)

\* What one receipt does to the row whose id it names.
LEMMA ReceiptOnRow ==
    ASSUME MInv, NEW m \in Messages, NEW a \in Nat \ {0},
           NEW s \in ReceiptStates, apply_receipt(m, a, s),
           UNCHANGED <<attempt, providerId, copies>>
    PROVE  LastClaimWins' /\ StatusIsHighestMark' /\
           \A n \in Messages :
              /\ status[n] \in Accepted =>
                    \/ status'[n] \in Accepted /\ Rank[status'[n]] >= Rank[status[n]]
                    \/ status'[n] = "failed" /\ status[n] \in {"accepted", "sent"}
              /\ status[n] \in {"blocked", "failed", "dead"} => status'[n] = status[n]
<1>0. /\ RowTypes /\ LastClaimWins /\ StatusIsHighestMark
      /\ status[m] \in Statuses /\ marks[m] \subseteq Marks
  BY TypeParts DEF MInv, RowTypes
<1>r. \A n \in Messages : Rank[status[n]] \in Nat
  BY <1>0, StatusesAre, RanksAre DEF RowTypes
<1>1. CASE providerId[m] # a
  BY <1>0, <1>1, <1>r DEF apply_receipt, LastClaimWins, StatusIsHighestMark
<1>2. CASE providerId[m] = a
  <2>1. status[m] \in Accepted \cup {"failed"}
    BY <1>0, <1>2 DEF LastClaimWins
  <2>2. /\ \A n \in Messages \ {m} : status'[n] = status[n] /\ marks'[n] = marks[n]
        /\ status'[m] = IF fails(m, s) THEN "failed"
                        ELSE IF s # "failed" /\ climbs(m, s) THEN s ELSE status[m]
        /\ s = "failed" => marks'[m] = marks[m]
        /\ s = "sent" => marks'[m] = marks[m] \cup {"sent"}
        /\ s = "delivered" => marks'[m] = marks[m] \cup {"sent", "delivered"}
        /\ s = "read" => marks'[m] = Marks
    BY <1>0, <1>2 DEF apply_receipt, RowTypes, Marks
  <2>3. /\ status'[m] \in Accepted \cup {"failed"}
        /\ status[m] = "failed" => status'[m] = "failed"
        /\ status[m] \in Accepted =>
              \/ status'[m] \in Accepted /\ Rank[status'[m]] >= Rank[status[m]]
              \/ status'[m] = "failed" /\ status[m] \in {"accepted", "sent"}
    BY <2>1, <2>2, RanksAre
    DEF fails, climbs, Accepted, ReceiptStates
  <2>4. status'[m] # "failed" =>
          /\ "read" \in marks'[m] <=> status'[m] = "read"
          /\ "delivered" \in marks'[m] <=> status'[m] \in {"delivered", "read"}
          /\ "sent" \in marks'[m] <=> status'[m] \in Accepted
    BY <1>0, <2>1, <2>2, RanksAre
    DEF fails, climbs, Accepted, ReceiptStates, Marks, StatusIsHighestMark
  <2>5. LastClaimWins'
    BY <1>0, <2>2, <2>3 DEF LastClaimWins
  <2>6. StatusIsHighestMark'
    BY <1>0, <2>2, <2>4 DEF StatusIsHighestMark
  <2>7. ASSUME NEW n \in Messages \ {m}
        PROVE  status'[n] = status[n] /\ Rank[status'[n]] >= Rank[status[n]]
    BY <1>r, <2>2
  <2> QED
    BY <2>1, <2>3, <2>5, <2>6, <2>7 DEF Accepted
<1> QED
  BY <1>1, <1>2

\* What a step does to the rows, whoever takes it.
LEMMA RowStep ==
    ASSUME MInv, Next
    PROVE  LastClaimWins' /\ StatusIsHighestMark' /\
           \A n \in Messages :
              /\ status[n] \in Accepted =>
                    \/ status'[n] \in Accepted /\ Rank[status'[n]] >= Rank[status[n]]
                    \/ status'[n] = "failed" /\ status[n] \in {"accepted", "sent"}
              /\ status[n] \in {"blocked", "failed", "dead"} => status'[n] = status[n]
<1> DEFINE Goal ==
      LastClaimWins' /\ StatusIsHighestMark' /\
      \A n \in Messages :
        /\ status[n] \in Accepted =>
              \/ status'[n] \in Accepted /\ Rank[status'[n]] >= Rank[status[n]]
              \/ status'[n] = "failed" /\ status[n] \in {"accepted", "sent"}
        /\ status[n] \in {"blocked", "failed", "dead"} => status'[n] = status[n]
<1>0. /\ RowTypes /\ LoopTypes /\ SideTypes /\ LastClaimWins
      /\ StatusIsHighestMark /\ PlanFits /\ ClaimsCounted
  BY TypeParts DEF MInv
<1>r. \A n \in Messages : Rank[status[n]] \in Nat
  BY <1>0, StatusesAre, RanksAre DEF RowTypes
\* A row that no claim has stamped has neither id nor timestamps.
<1>u. ASSUME NEW n \in Messages, status[n] \notin Accepted \cup {"failed"}
      PROVE  providerId[n] = 0 /\ marks[n] = {}
  BY <1>0, <1>u DEF RowTypes, LastClaimWins, StatusIsHighestMark, Marks, Accepted
<1>s. CASE UNCHANGED <<status, attempt, providerId, marks>>
           /\ \A n \in Messages : copies[n] \subseteq copies'[n]
  BY <1>0, <1>r, <1>s DEF LastClaimWins, StatusIsHighestMark
<1>1. ASSUME NEW w \in Dispatchers, DispatcherStep(w) PROVE Goal
  <2>1. CASE SweepStaleClaims(w)
    <3>1. /\ UNCHANGED <<attempt, providerId, marks, copies>>
          /\ \A n \in Messages : status'[n] # status[n] =>
                status[n] = "sending" /\ status'[n] \in {"dead", "queued"}
      BY <1>0, <2>1
      DEF SweepStaleClaims, isStale, sweptTo, RowTypes, ghostVars
    <3>2. LastClaimWins'
      BY <1>0, <1>u, <3>1 DEF LastClaimWins, Accepted
    <3>3. StatusIsHighestMark'
      <4>1. ASSUME NEW n \in Messages, status'[n] # status[n]
            PROVE  marks'[n] = {} /\ status'[n] \in {"dead", "queued"}
        BY <1>u, <3>1, <4>1 DEF Accepted
      <4> QED
        BY <1>0, <3>1, <4>1 DEF StatusIsHighestMark, Accepted
    <3> QED
      BY <1>r, <3>1, <3>2, <3>3 DEF Accepted
  <2>2. CASE ClaimBatch(w)
    <3>1. /\ UNCHANGED <<providerId, marks, copies>>
          /\ \A n \in Messages :
                \/ status'[n] = status[n] /\ attempt'[n] = attempt[n]
                \/ status[n] = "queued" /\ status'[n] = "sending"
      BY <1>0, <2>2 DEF ClaimBatch, claimable, RowTypes, ghostVars
    <3>2. LastClaimWins'
      BY <1>0, <1>u, <3>1 DEF LastClaimWins, Accepted
    <3>3. StatusIsHighestMark'
      <4>1. ASSUME NEW n \in Messages, status'[n] # status[n]
            PROVE  marks'[n] = {} /\ status'[n] = "sending"
        BY <1>u, <3>1, <4>1 DEF Accepted
      <4> QED
        BY <1>0, <3>1, <4>1 DEF StatusIsHighestMark, Accepted
    <3> QED
      BY <1>r, <3>1, <3>2, <3>3 DEF Accepted
  <2>3. CASE StampOutcome(w)
    <3> DEFINE m == job[w]
    <3>1. /\ m \in Messages /\ claim[w][m] = attempt[m]
          /\ status[m] = "sending" /\ plan[w] \in Plans
          /\ plan[w] = "accepted" => claim[w][m] \in copies[m]
          /\ UNCHANGED <<attempt, copies>>
      BY <1>0, <2>3, BusyHasMessage
      DEF StampOutcome, ourClaim, PlanFits, ghostVars
    <3>2. providerId[m] = 0 /\ marks[m] = {}
      BY <1>u, <3>1 DEF Accepted
    <3>3. /\ \A n \in Messages \ {m} : /\ status'[n] = status[n]
                                      /\ marks'[n] = marks[n]
                                      /\ providerId'[n] = providerId[n]
          /\ status'[m] = plan[w]
          /\ marks'[m] = IF plan[w] = "accepted" THEN {"sent"} ELSE {}
          /\ \/ providerId'[m] = 0
             \/ plan[w] = "accepted" /\ providerId'[m] = claim[w][m]
      <4>1. PICK id \in IF plan[w] = "accepted" THEN {0, claim[w][m]} ELSE {0} :
               providerId' = [providerId EXCEPT ![m] = IF id = 0 THEN @ ELSE id]
        BY <2>3 DEF StampOutcome
      <4>2. /\ status' = [status EXCEPT ![m] = plan[w]]
            /\ marks' = [marks EXCEPT ![m] =
                  IF plan[w] = "accepted" THEN @ \cup {"sent"} ELSE @]
        BY <2>3 DEF StampOutcome
      <4>3. \A n \in Messages \ {m} : providerId'[n] = providerId[n]
        BY <1>0, <4>1 DEF RowTypes
      <4>4. \/ providerId'[m] = 0
            \/ plan[w] = "accepted" /\ providerId'[m] = claim[w][m]
        BY <1>0, <3>1, <3>2, <4>1 DEF RowTypes
      <4>5. /\ \A n \in Messages \ {m} : /\ status'[n] = status[n]
                                        /\ marks'[n] = marks[n]
            /\ status'[m] = plan[w]
        BY <1>0, <3>1, <4>2 DEF RowTypes
      <4>6. marks'[m] = IF plan[w] = "accepted" THEN {"sent"} ELSE {}
        BY <1>0, <3>1, <3>2, <4>2 DEF RowTypes
      <4> QED
        BY <4>3, <4>4, <4>5, <4>6
    <3>4. LastClaimWins'
      BY <1>0, <3>1, <3>3 DEF LastClaimWins, Accepted
    <3>5. StatusIsHighestMark'
      BY <1>0, <3>1, <3>3 DEF StatusIsHighestMark, Accepted, Plans
    <3> QED
      BY <1>r, <3>1, <3>3, <3>4, <3>5 DEF Accepted
  <2>4. CASE ApplyEarlyOne(w)
    <3>1. /\ job[w] \in Messages /\ earlyOnes[w] \subseteq ReceiptStates
          /\ claim[w][job[w]] \in Nat \ {0}
      BY <1>0, <2>4, BusyHasMessage DEF ApplyEarlyOne, LoopTypes, ClaimsCounted
    <3>2. PICK s \in ReceiptStates : apply_receipt(job[w], claim[w][job[w]], s)
      BY <2>4, <3>1 DEF ApplyEarlyOne
    <3>3. UNCHANGED <<attempt, providerId, copies>>
      BY <2>4 DEF ApplyEarlyOne, ghostVars
    <3> QED
      BY <3>1, <3>2, <3>3, ReceiptOnRow
  <2>5. CASE SendCopy(w)
    <3>1. job[w] \in Messages
      BY <1>0, <2>5, BusyHasMessage DEF SendCopy
    <3> QED
      BY <1>0, <1>s, <2>5, <3>1 DEF SendCopy, SideTypes, rowVars
  <2> QED
    BY <1>1, <1>s, <2>1, <2>2, <2>3, <2>4, <2>5
    DEF DispatcherStep, NextRow, AskGate, SendNothing, MissOutcome, ReadBack,
        GiveUpReadBack,
        rowVars, ghostVars
<1>2. ASSUME NEW w \in Dispatchers, StopDispatcher(w) PROVE Goal
  BY <1>s, <1>2 DEF StopDispatcher, rowVars
<1>3. ASSUME NEW m \in Messages, MessageStep(m) PROVE Goal
  <2>1. CASE QueueMessage(m)
    <3>1. /\ UNCHANGED <<attempt, providerId, marks, copies>>
          /\ status[m] = "none" /\ status'[m] = "queued"
          /\ \A n \in Messages \ {m} : status'[n] = status[n]
      BY <1>0, <2>1 DEF QueueMessage, RowTypes, ghostVars
    <3>2. providerId[m] = 0 /\ marks[m] = {}
      BY <1>u, <3>1 DEF Accepted
    <3>3. LastClaimWins' /\ StatusIsHighestMark'
      BY <1>0, <3>1, <3>2 DEF LastClaimWins, StatusIsHighestMark, Accepted
    <3> QED
      BY <1>r, <3>1, <3>3 DEF Accepted
  <2>2. CASE BecomeDue(m) \/ LeaseEnds(m)
    BY <1>s, <2>2 DEF BecomeDue, LeaseEnds, ghostVars
  <2>3. ASSUME NEW a \in 1..MaxAttempts, NEW s \in ReceiptStates,
               FileLetter(m, a, s) \/ ConsumeLetter(m, a, s)
        PROVE  Goal
    <3>1. a \in Nat \ {0}
      BY LimitsAssumption
    <3>2. CASE FileLetter(m, a, s)
      BY <1>s, <3>2 DEF FileLetter, rowVars, ghostVars
    <3>3. CASE ConsumeLetter(m, a, s)
      BY <3>1, <3>3, ReceiptOnRow DEF ConsumeLetter, ghostVars
    <3> QED
      BY <2>3, <3>2, <3>3
  <2> QED
    BY <1>3, <2>1, <2>2, <2>3 DEF MessageStep
<1> QED
  BY <1>1, <1>2, <1>3 DEF Next

LEMMA MInvStep == MInv /\ [Next]_vars => MInv'
<1> SUFFICES ASSUME MInv, [Next]_vars PROVE MInv'
  OBVIOUS
<1>1. CASE Next
  <2>1. TypeOK'
    BY TypeStep DEF MInv
  <2> QED
    BY <1>1, <2>1, ClaimsCountedStep, AttemptLeftStep, PlanFitsStep,
       CopiesClaimedStep, RowStep DEF MInv
<1>2. CASE UNCHANGED vars
  BY <1>2 DEF MInv, TypeOK, ClaimsCounted, AttemptLeft, PlanFits,
     CopiesClaimed, LastClaimWins, StatusIsHighestMark,
     vars, rowVars, loopVars, spineVars, ghostVars, budgets
<1> QED
  BY <1>1, <1>2

THEOREM MInvAlways == Spec => []MInv
  BY MInvInit, MInvStep, PTL DEF Spec

\* No message is sent more often than the code's ceiling, whatever died.
THEOREM Bounded == Spec => []AttemptsBounded
<1>1. MInv => AttemptsBounded
  BY DEF MInv, AttemptLeft, CopiesClaimed, AttemptsBounded
<1> QED
  BY <1>1, MInvAlways, PTL

\* The row carries the id of the copy that its last claim sent.
THEOREM LastClaim == Spec => []LastClaimWins
<1>1. MInv => LastClaimWins
  BY DEF MInv
<1> QED
  BY <1>1, MInvAlways, PTL

\* Status and timestamps tell one story, in whatever order receipts come.
THEOREM HighestMark == Spec => []StatusIsHighestMark
<1>1. MInv => StatusIsHighestMark
  BY DEF MInv
<1> QED
  BY <1>1, MInvAlways, PTL

\* No step of anybody moves a row down the ladder or out of a refusal.
THEOREM OnlyClimbs == Spec => LadderOnlyClimbs
<1> DEFINE Climbs ==
      \A m \in Messages :
        /\ status[m] \in Accepted =>
            \/ status'[m] \in Accepted /\ Rank[status'[m]] >= Rank[status[m]]
            \/ status'[m] = "failed" /\ status[m] \in {"accepted", "sent"}
        /\ status[m] \in {"blocked", "failed", "dead"} => status'[m] = status[m]
<1>1. MInv /\ [Next]_vars => [Climbs]_vars
  BY RowStep
<1> QED
  BY <1>1, MInvAlways, PTL DEF Spec, LadderOnlyClimbs

-----------------------------------------------------------------------------
(* Copies: no second one unless an outcome was lost.                       *)

\* The row waits for what this dispatcher will make of it.
Holds(w, m) ==
    m \in batch[w] \/ (job[w] = m /\ pc[w] \in {"gate", "send", "outcome"})

\* A copy went out and its outcome is about to be recorded.
Vouches(w, m) == job[w] = m /\ pc[w] = "outcome" /\ plan[w] = "accepted"

\* While no lease was overrun, a row has one holder, whose claim is the row's
\* and under whom no sweep takes it away.
OneHolder ==
    \A w \in Dispatchers : \A m \in Messages : Holds(w, m) =>
        /\ status[m] = "sending" /\ ~stale[m] /\ claim[w][m] = attempt[m]
        /\ \A v \in Dispatchers : Holds(v, m) => v = w

\* The copies of a row that may be sent again were all lost, unless one of
\* them is vouched for.
CopiesLost ==
    \A m \in Messages :
        /\ Cardinality(copies[m]) <= lost[m] + 1
        /\ status[m] \in {"none", "queued", "sending"} =>
            \/ Cardinality(copies[m]) <= lost[m]
            \/ \E w \in Dispatchers : Vouches(w, m)

\* A row is off its dispatcher's list once it is its job, and only a claimed
\* row has a lease to end.
Single ==
    /\ \A w \in Dispatchers : job[w] \notin batch[w]
    /\ \A m \in Messages : stale[m] => status[m] = "sending"

LEMMA SingleStep ==
    ASSUME MInv, Single, Next
    PROVE  Single'
<1> USE DEF Single
<1>0. TypeOK /\ RowTypes /\ LoopTypes /\ LastClaimWins /\ ClaimsCounted
  BY TypeParts DEF MInv
<1>n. \A w \in Dispatchers : NoMessage \notin batch[w]
  BY <1>0, NoMessageAssumption DEF LoopTypes
\* A receipt moves no row that is still on its way.
<1>r. ASSUME NEW m \in Messages, NEW a \in Nat \ {0}, NEW s \in ReceiptStates,
             apply_receipt(m, a, s)
      PROVE  \A n \in Messages : status[n] = "sending" => status'[n] = "sending"
  BY <1>0, <1>r DEF apply_receipt, RowTypes, LastClaimWins, Accepted
<1>1. ASSUME NEW w \in Dispatchers, DispatcherStep(w) PROVE Single'
  <2>1. CASE SweepStaleClaims(w)
    BY <1>0, <2>1 DEF SweepStaleClaims, isStale, RowTypes, LoopTypes
  <2>2. CASE ClaimBatch(w)
    <3>1. PICK S \in SUBSET {m \in Messages : claimable(m)} :
            /\ status' = [m \in Messages |-> IF m \in S THEN "sending" ELSE status[m]]
            /\ batch' = [batch EXCEPT ![w] = S]
      BY <2>2 DEF ClaimBatch
    <3>2. job' = job /\ stale' = stale /\ job[w] = NoMessage /\ NoMessage \notin S
      BY <1>0, <2>2, NoMessageAssumption DEF ClaimBatch, LoopTypes
    <3> QED
      BY <1>0, <3>1, <3>2 DEF LoopTypes, RowTypes
  <2>3. CASE NextRow(w)
    BY <1>0, <2>3 DEF NextRow, LoopTypes, rowVars
  <2>4. CASE StampOutcome(w)
    <3>1. job[w] \in Messages
      BY <1>0, <2>4, BusyHasMessage DEF StampOutcome
    <3>2. \A m \in Messages : stale'[m] => status'[m] = "sending"
      BY <1>0, <2>4, <3>1 DEF StampOutcome, RowTypes
    <3>3. /\ batch' = batch
          /\ \A v \in Dispatchers : job'[v] = job[v] \/ job'[v] = NoMessage
      BY <1>0, <2>4 DEF StampOutcome, Done, LoopTypes
    <3> QED
      BY <1>n, <3>2, <3>3
  <2>5. CASE ApplyEarlyOne(w)
    <3>1. PICK s \in ReceiptStates : apply_receipt(job[w], claim[w][job[w]], s)
      BY <1>0, <2>5 DEF ApplyEarlyOne, LoopTypes
    <3>2. job[w] \in Messages /\ claim[w][job[w]] \in Nat \ {0}
      BY <1>0, <2>5, BusyHasMessage DEF ApplyEarlyOne, ClaimsCounted
    <3>3. \A n \in Messages : status[n] = "sending" => status'[n] = "sending"
      BY <1>r, <3>1, <3>2
    <3>4. /\ batch' = batch /\ stale' = stale
          /\ \A v \in Dispatchers : job'[v] = job[v] \/ job'[v] = NoMessage
      BY <1>0, <2>5 DEF ApplyEarlyOne, Done, LoopTypes
    <3> QED
      BY <1>n, <3>3, <3>4
  <2>6. CASE UNCHANGED <<status, stale, batch>>
             /\ (UNCHANGED job \/ job' = [job EXCEPT ![w] = NoMessage])
    BY <1>0, <1>n, <2>6 DEF LoopTypes
  <2> QED
    BY <1>1, <2>1, <2>2, <2>3, <2>4, <2>5, <2>6
    DEF DispatcherStep, AskGate, SendCopy, SendNothing, MissOutcome, ReadBack,
        GiveUpReadBack, Done, rowVars
<1>2. ASSUME NEW w \in Dispatchers, StopDispatcher(w) PROVE Single'
  BY <1>0, <1>2 DEF StopDispatcher, LoopTypes, rowVars
<1>3. ASSUME NEW m \in Messages, MessageStep(m) PROVE Single'
  <2>1. CASE QueueMessage(m) \/ BecomeDue(m) \/ LeaseEnds(m)
    BY <1>0, <2>1 DEF QueueMessage, BecomeDue, LeaseEnds, loopVars, RowTypes
  <2>2. ASSUME NEW a \in 1..MaxAttempts, NEW s \in ReceiptStates,
               FileLetter(m, a, s) \/ ConsumeLetter(m, a, s)
        PROVE  Single'
    BY <1>r, <2>2, LimitsAssumption DEF FileLetter, ConsumeLetter, loopVars, rowVars
  <2> QED
    BY <1>3, <2>1, <2>2 DEF MessageStep
<1> QED
  BY <1>1, <1>2, <1>3 DEF Next

\* Nobody becomes a holder but by a claim.
LEMMA HoldersFrom ==
    ASSUME MInv, Single, NEW w \in Dispatchers, DispatcherStep(w) \/ StopDispatcher(w),
           ~ClaimBatch(w)
    PROVE  /\ UNCHANGED <<attempt, claim>>
           /\ \A v \in Dispatchers : \A m \in Messages : Holds(v, m)' => Holds(v, m)
<1> USE DEF Holds
<1>0. LoopTypes
  BY TypeParts DEF MInv
<1>1. UNCHANGED <<attempt, claim>>
  BY DEF DispatcherStep, SweepStaleClaims, NextRow, AskGate, SendCopy,
     SendNothing, StampOutcome, MissOutcome, ReadBack, GiveUpReadBack,
     ApplyEarlyOne, StopDispatcher, rowVars
<1>2. CASE NextRow(w)
  <2>1. CASE batch[w] = {} /\ Goto(w, "idle") /\ UNCHANGED <<batch, job>>
    BY <1>0, <1>1, <2>1 DEF Goto, LoopTypes
  <2>2. ASSUME NEW m \in batch[w], batch' = [batch EXCEPT ![w] = @ \ {m}],
               job' = [job EXCEPT ![w] = m], Goto(w, "gate")
        PROVE  \A v \in Dispatchers : \A n \in Messages : Holds(v, n)' => Holds(v, n)
    BY <1>0, <2>2 DEF Goto, LoopTypes
  <2> QED
    BY <1>1, <1>2, <2>1, <2>2 DEF NextRow
<1>3. CASE StopDispatcher(w)
  BY <1>0, <1>1, <1>3, NoMessageAssumption DEF StopDispatcher, Goto, LoopTypes
<1>4. CASE AskGate(w) \/ SendCopy(w) \/ SendNothing(w)
  BY <1>0, <1>1, <1>4 DEF AskGate, SendCopy, SendNothing, Goto, LoopTypes
<1>5. CASE Done(w) /\ UNCHANGED batch
  BY <1>0, <1>1, <1>5 DEF Done, Goto, LoopTypes
<1>6. CASE UNCHANGED <<batch, job>> /\
           (UNCHANGED pc \/ \E where \in {"swept", "readBack", "apply"} : Goto(w, where))
  BY <1>0, <1>1, <1>6 DEF Goto, LoopTypes
<1> QED
  BY <1>2, <1>3, <1>4, <1>5, <1>6
  DEF DispatcherStep, SweepStaleClaims, StampOutcome, MissOutcome, ReadBack,
      GiveUpReadBack, ApplyEarlyOne

LEMMA OneHolderStep ==
    ASSUME MInv, Single, OneHolder, Next, overruns' = 0
    PROVE  OneHolder'
<1>0. /\ TypeOK /\ RowTypes /\ LoopTypes /\ SideTypes /\ LastClaimWins
      /\ ClaimsCounted
  BY TypeParts DEF MInv
\* Who holds on, holds a row that stays as it was.
<1>h. ASSUME UNCHANGED <<attempt, claim>>,
             \A v \in Dispatchers : \A m \in Messages : Holds(v, m)' =>
                /\ Holds(v, m)
                /\ status[m] = "sending" => status'[m] = "sending"
                /\ status[m] = "sending" /\ ~stale[m] => ~stale'[m]
      PROVE  OneHolder'
  BY <1>h DEF OneHolder
<1>r. ASSUME NEW m \in Messages, NEW a \in Nat \ {0}, NEW s \in ReceiptStates,
             apply_receipt(m, a, s)
      PROVE  \A n \in Messages : status[n] = "sending" => status'[n] = "sending"
  BY <1>0, <1>r DEF apply_receipt, RowTypes, LastClaimWins, Accepted
<1>1. ASSUME NEW w \in Dispatchers, DispatcherStep(w) \/ StopDispatcher(w)
      PROVE  OneHolder'
  <2>1. CASE ClaimBatch(w)
    <3>1. PICK S \in SUBSET {m \in Messages : claimable(m)} :
            /\ status' = [m \in Messages |-> IF m \in S THEN "sending" ELSE status[m]]
            /\ attempt' = [m \in Messages |->
                            IF m \in S THEN attempt[m] + 1 ELSE attempt[m]]
            /\ claim' = [claim EXCEPT ![w] = [m \in Messages |->
                            IF m \in S THEN attempt[m] + 1 ELSE @[m]]]
            /\ batch' = [batch EXCEPT ![w] = S]
      BY <2>1 DEF ClaimBatch
    <3>2. /\ stale' = stale /\ job' = job /\ Goto(w, "rows") /\ job[w] = NoMessage
      BY <1>0, <2>1 DEF ClaimBatch, LoopTypes
    <3>3. ASSUME NEW v \in Dispatchers, NEW m \in Messages, Holds(v, m)'
          PROVE  IF m \in S THEN v = w ELSE v # w /\ Holds(v, m)
      <4>1. v = w => batch'[v] = S /\ pc'[v] = "rows"
        BY <1>0, <3>1, <3>2 DEF LoopTypes, Goto
      <4>2. v # w => batch'[v] = batch[v] /\ pc'[v] = pc[v]
        BY <1>0, <3>1, <3>2 DEF LoopTypes, Goto
      <4>3. Holds(v, m) => status[m] = "sending"
        BY DEF OneHolder
      <4>4. m \in S => status[m] = "queued"
        BY DEF claimable
      <4> QED
        BY <3>2, <3>3, <4>1, <4>2, <4>3, <4>4 DEF Holds
    <3>4. ASSUME NEW v \in Dispatchers, NEW m \in Messages, Holds(v, m)'
          PROVE  status'[m] = "sending" /\ ~stale'[m] /\ claim'[v][m] = attempt'[m]
      <4>1. CASE m \in S
        <5>1. status[m] = "queued" /\ v = w
          BY <3>3, <3>4, <4>1 DEF claimable
        <5>2. claim'[v][m] = attempt[m] + 1 /\ attempt'[m] = attempt[m] + 1
          BY <1>0, <3>1, <4>1, <5>1 DEF LoopTypes
        <5> QED
          BY <3>1, <3>2, <4>1, <5>1, <5>2 DEF Single
      <4>2. CASE m \notin S
        <5>1. Holds(v, m) /\ v # w
          BY <3>3, <3>4, <4>2
        <5>2. claim'[v][m] = claim[v][m] /\ attempt'[m] = attempt[m]
          BY <1>0, <3>1, <4>2, <5>1 DEF LoopTypes
        <5> QED
          BY <3>1, <3>2, <4>2, <5>1, <5>2 DEF OneHolder
      <4> QED
        BY <4>1, <4>2
    <3>5. ASSUME NEW v \in Dispatchers, NEW u \in Dispatchers, NEW m \in Messages,
                 Holds(v, m)', Holds(u, m)'
          PROVE  u = v
      BY <3>3, <3>5 DEF OneHolder
    <3> QED
      BY <3>4, <3>5 DEF OneHolder
  <2>2. CASE ~ClaimBatch(w)
    <3>h. /\ UNCHANGED <<attempt, claim>>
          /\ \A v \in Dispatchers : \A m \in Messages : Holds(v, m)' => Holds(v, m)
      BY <1>1, <2>2, HoldersFrom
    <3>1. CASE SweepStaleClaims(w)
      <4>1. \A m \in Messages : status[m] = "sending" /\ ~stale[m] =>
                status'[m] = "sending" /\ ~stale'[m]
        BY <1>0, <3>1 DEF SweepStaleClaims, isStale
      <4> QED
        BY <3>h, <4>1 DEF OneHolder
    <3>2. CASE StampOutcome(w)
      <4>1. PICK m \in Messages : m = job[w] /\ Holds(w, m)
        BY <1>0, <3>2, BusyHasMessage DEF StampOutcome, Holds
      <4>2. ~Holds(w, m)'
        <5>1. pc'[w] \in {"readBack", "rows"} /\ batch' = batch
          BY <1>0, <3>2 DEF StampOutcome, Done, Goto, LoopTypes
        <5> QED
          BY <4>1, <5>1 DEF Holds, Single
      <4>3. \A v \in Dispatchers : ~Holds(v, m)'
        BY <3>h, <4>1, <4>2 DEF OneHolder
      <4>4. \A n \in Messages \ {m} : status'[n] = status[n] /\ stale'[n] = stale[n]
        BY <1>0, <3>2, <4>1 DEF StampOutcome, RowTypes
      <4>5. \A v \in Dispatchers : \A n \in Messages : Holds(v, n)' => n # m
        BY <4>3
      <4> QED
        BY <1>h, <3>h, <4>4, <4>5
    <3>3. CASE ApplyEarlyOne(w)
      <4>1. PICK s \in ReceiptStates : apply_receipt(job[w], claim[w][job[w]], s)
        BY <1>0, <3>3 DEF ApplyEarlyOne, LoopTypes
      <4>2. job[w] \in Messages /\ claim[w][job[w]] \in Nat \ {0}
        BY <1>0, <3>3, BusyHasMessage DEF ApplyEarlyOne, ClaimsCounted
      <4>3. stale' = stale
        BY <3>3 DEF ApplyEarlyOne
      <4> QED
        BY <1>h, <1>r, <3>h, <4>1, <4>2, <4>3
    <3>4. CASE UNCHANGED <<status, stale>>
      BY <1>h, <3>h, <3>4
    <3> QED
      BY <1>1, <2>2, <3>1, <3>2, <3>3, <3>4
      DEF DispatcherStep, NextRow, AskGate, SendCopy, SendNothing, MissOutcome,
          ReadBack, GiveUpReadBack, StopDispatcher, rowVars
  <2> QED
    BY <2>1, <2>2
<1>2. ASSUME NEW m \in Messages, MessageStep(m) PROVE OneHolder'
  <2>h. /\ UNCHANGED <<attempt, claim>>
        /\ \A v \in Dispatchers : \A n \in Messages : Holds(v, n)' = Holds(v, n)
    BY <1>2 DEF MessageStep, QueueMessage, BecomeDue, LeaseEnds, FileLetter,
       ConsumeLetter, loopVars, rowVars, Holds
  <2>1. CASE QueueMessage(m) \/ BecomeDue(m)
    BY <1>0, <1>h, <2>h, <2>1 DEF QueueMessage, BecomeDue, RowTypes
  <2>2. CASE LeaseEnds(m)
    <3>1. \A w \in Dispatchers : ~WorksOn(w, m)
      BY <1>0, <2>2 DEF LeaseEnds, SideTypes
    <3>2. \A w \in Dispatchers : ~Holds(w, m)
      BY <3>1 DEF WorksOn, Holds, OneHolder
    <3>3. \A n \in Messages \ {m} : stale'[n] = stale[n]
      BY <1>0, <2>2 DEF LeaseEnds, RowTypes
    <3>4. status' = status
      BY <2>2 DEF LeaseEnds
    <3> QED
      BY <1>h, <2>h, <3>2, <3>3, <3>4
  <2>3. ASSUME NEW a \in 1..MaxAttempts, NEW s \in ReceiptStates,
               FileLetter(m, a, s) \/ ConsumeLetter(m, a, s)
        PROVE  OneHolder'
    <3>1. a \in Nat \ {0} /\ stale' = stale
      BY <2>3, LimitsAssumption DEF FileLetter, ConsumeLetter, rowVars
    <3>2. status' = status \/ apply_receipt(m, a, s)
      BY <2>3 DEF FileLetter, ConsumeLetter, rowVars
    <3> QED
      BY <1>h, <1>r, <2>h, <3>1, <3>2
  <2> QED
    BY <1>2, <2>1, <2>2, <2>3 DEF MessageStep
<1> QED
  BY <1>1, <1>2 DEF Next

\* One more copy, or one more loss.
LEMMA CountCopies ==
    ASSUME MInv, NEW m \in Messages, NEW a
    PROVE  /\ Cardinality(copies[m]) \in Nat
           /\ Cardinality(copies[m] \cup {a}) \in Nat
           /\ Cardinality(copies[m] \cup {a}) <= Cardinality(copies[m]) + 1
<1>1. attempt[m] \in Nat /\ copies[m] \subseteq 1..attempt[m]
  BY TypeParts DEF MInv, RowTypes, CopiesClaimed
<1>2. IsFiniteSet(1..attempt[m])
  BY <1>1, FS_Interval
<1>3. IsFiniteSet(copies[m])
  BY <1>1, <1>2, FS_Subset
<1>4. /\ IsFiniteSet(copies[m] \cup {a})
      /\ \/ Cardinality(copies[m] \cup {a}) = Cardinality(copies[m])
         \/ Cardinality(copies[m] \cup {a}) = Cardinality(copies[m]) + 1
  BY <1>3, FS_AddElement
<1>5. Cardinality(copies[m]) \in Nat /\ Cardinality(copies[m] \cup {a}) \in Nat
  BY <1>3, <1>4, FS_CardinalityType
<1> QED
  BY <1>4, <1>5

LEMMA CopiesLostStep ==
    ASSUME MInv, Single, OneHolder, CopiesLost, Next, overruns' = 0
    PROVE  CopiesLost'
<1>0. /\ TypeOK /\ RowTypes /\ LoopTypes /\ SideTypes /\ LastClaimWins
      /\ ClaimsCounted
  BY TypeParts DEF MInv
<1>c. \A m \in Messages : Cardinality(copies[m]) \in Nat /\ lost[m] \in Nat
  BY <1>0, CountCopies DEF SideTypes
\* Who vouches holds the row, alone.
<1>v. ASSUME NEW w \in Dispatchers, NEW m \in Messages, Vouches(w, m)
      PROVE  /\ status[m] = "sending" /\ ~stale[m]
             /\ \A v \in Dispatchers : Holds(v, m) => v = w
  BY <1>v DEF Vouches, Holds, OneHolder
\* A step that leaves copies and losses alone.
<1>s. ASSUME UNCHANGED <<copies, lost>>,
             \A m \in Messages :
                /\ status'[m] \in {"none", "queued", "sending"} =>
                        status[m] \in {"none", "queued", "sending"}
                /\ status'[m] \in {"none", "queued", "sending"} =>
                    \A w \in Dispatchers : Vouches(w, m) => Vouches(w, m)'
      PROVE  CopiesLost'
  BY <1>s DEF CopiesLost
<1>r. ASSUME NEW m \in Messages, NEW a \in Nat \ {0}, NEW s \in ReceiptStates,
             apply_receipt(m, a, s)
      PROVE  \A n \in Messages : status'[n] \in {"none", "queued", "sending"} =>
                status[n] \in {"none", "queued", "sending"}
  BY <1>0, <1>r DEF apply_receipt, RowTypes, LastClaimWins, Accepted, ReceiptStates
\* A dispatcher drops its job with the copy it vouched for, if any.
<1>d. ASSUME NEW w \in Dispatchers, UNCHANGED <<copies, status>>,
             IF pc[w] = "outcome" /\ plan[w] = "accepted"
             THEN Lose(job[w]) ELSE UNCHANGED lost,
             \A v \in Dispatchers \ {w} : /\ pc'[v] = pc[v] /\ job'[v] = job[v]
                                          /\ plan'[v] = plan[v]
      PROVE  CopiesLost'
  <2>1. CASE pc[w] = "outcome" /\ plan[w] = "accepted"
    <3>1. job[w] \in Messages
      BY <1>0, <2>1, BusyHasMessage
    <3>2. /\ lost'[job[w]] = lost[job[w]] + 1
          /\ \A m \in Messages \ {job[w]} : lost'[m] = lost[m]
      BY <1>0, <1>d, <2>1, <3>1 DEF Lose, SideTypes
    <3>3. ASSUME NEW m \in Messages
          PROVE  /\ Cardinality(copies'[m]) <= lost'[m] + 1
                 /\ status'[m] \in {"none", "queued", "sending"} =>
                      \/ Cardinality(copies'[m]) <= lost'[m]
                      \/ \E v \in Dispatchers : Vouches(v, m)'
      <4>1. CASE m = job[w]
        BY <1>c, <1>d, <3>2, <4>1 DEF CopiesLost
      <4>2. CASE m # job[w]
        <5>1. \A v \in Dispatchers : Vouches(v, m) => Vouches(v, m)'
          BY <1>d, <4>2 DEF Vouches
        <5> QED
          BY <1>c, <1>d, <3>2, <4>2, <5>1 DEF CopiesLost
      <4> QED
        BY <4>1, <4>2
    <3> QED
      BY <3>3 DEF CopiesLost
  <2>2. CASE ~(pc[w] = "outcome" /\ plan[w] = "accepted")
    <3>1. \A v \in Dispatchers : \A m \in Messages : Vouches(v, m) => Vouches(v, m)'
      BY <1>d, <2>2 DEF Vouches
    <3> QED
      BY <1>d, <1>s, <2>2, <3>1
  <2> QED
    BY <2>1, <2>2
<1>1. ASSUME NEW w \in Dispatchers, DispatcherStep(w) PROVE CopiesLost'
  <2>1. CASE SweepStaleClaims(w)
    <3>1. \A m \in Messages :
            /\ status'[m] \in {"none", "queued", "sending"} =>
                  status[m] \in {"none", "queued", "sending"}
      BY <1>0, <2>1 DEF SweepStaleClaims, isStale, sweptTo
    <3>2. \A v \in Dispatchers : \A m \in Messages : Vouches(v, m) => Vouches(v, m)'
      BY <1>0, <2>1 DEF SweepStaleClaims, Vouches, Goto, LoopTypes
    <3>3. UNCHANGED <<copies, lost>>
      BY <2>1 DEF SweepStaleClaims, ghostVars
    <3> QED
      BY <1>s, <3>1, <3>2, <3>3
  <2>2. CASE ClaimBatch(w)
    <3>1. \A m \in Messages :
            /\ status'[m] \in {"none", "queued", "sending"} =>
                  status[m] \in {"none", "queued", "sending"}
      BY <1>0, <2>2 DEF ClaimBatch, claimable
    <3>2. \A v \in Dispatchers : \A m \in Messages : Vouches(v, m) => Vouches(v, m)'
      BY <1>0, <2>2 DEF ClaimBatch, Vouches, Goto, LoopTypes
    <3>3. UNCHANGED <<copies, lost>>
      BY <2>2 DEF ClaimBatch, ghostVars
    <3> QED
      BY <1>s, <3>1, <3>2, <3>3
  <2>3. CASE NextRow(w) \/ AskGate(w) \/ SendNothing(w)
    <3>1. \A v \in Dispatchers : \A m \in Messages : Vouches(v, m) => Vouches(v, m)'
      BY <1>0, <2>3 DEF NextRow, AskGate, SendNothing, Vouches, Goto, LoopTypes
    <3>2. UNCHANGED <<copies, lost, status>>
      BY <2>3 DEF NextRow, AskGate, SendNothing, ghostVars, rowVars
    <3> QED
      BY <1>s, <3>1, <3>2
  <2>4. CASE SendCopy(w)
    <3>1. PICK m \in Messages : m = job[w] /\ Holds(w, m) /\ claim[w][m] \in Nat
      BY <1>0, <2>4, BusyHasMessage DEF SendCopy, Holds
    <3>2. \A v \in Dispatchers : ~Vouches(v, m)
      BY <1>v, <2>4, <3>1 DEF SendCopy, Vouches
    <3>3. Cardinality(copies[m]) <= lost[m]
      BY <3>1, <3>2 DEF CopiesLost, OneHolder
    <3>4. /\ copies'[m] = copies[m] \cup {claim[w][m]}
          /\ \A n \in Messages \ {m} : copies'[n] = copies[n] /\ lost'[n] = lost[n]
          /\ \/ lost'[m] = lost[m] /\ Vouches(w, m)'
             \/ lost'[m] = lost[m] + 1
          /\ status' = status
      BY <1>0, <2>4, <3>1 DEF SendCopy, SideTypes, LoopTypes, Lose, Goto, Vouches, rowVars
    <3>5. \A v \in Dispatchers : \A n \in Messages \ {m} : Vouches(v, n) => Vouches(v, n)'
      BY <1>0, <2>4, <3>1 DEF SendCopy, Vouches, Goto, LoopTypes
    <3>6. /\ Cardinality(copies'[m]) <= Cardinality(copies[m]) + 1
          /\ Cardinality(copies'[m]) \in Nat
      BY <3>4, CountCopies
    <3>7. /\ Cardinality(copies'[m]) <= lost'[m] + 1
          /\ Cardinality(copies'[m]) <= lost'[m] \/ Vouches(w, m)'
      BY <1>c, <3>3, <3>4, <3>6
    <3>8. ASSUME NEW n \in Messages
          PROVE  /\ Cardinality(copies'[n]) <= lost'[n] + 1
                 /\ status'[n] \in {"none", "queued", "sending"} =>
                      \/ Cardinality(copies'[n]) <= lost'[n]
                      \/ \E v \in Dispatchers : Vouches(v, n)'
      <4>1. CASE n = m
        BY <3>7, <4>1 DEF Vouches
      <4>2. CASE n # m
        BY <3>4, <3>5, <4>2 DEF CopiesLost
      <4> QED
        BY <4>1, <4>2
    <3> QED
      BY <3>8 DEF CopiesLost
  <2>5. CASE StampOutcome(w)
    <3>1. PICK m \in Messages : m = job[w] /\ Holds(w, m)
      BY <1>0, <2>5, BusyHasMessage DEF StampOutcome, Holds
    <3>2. /\ status'[m] = plan[w]
          /\ \A n \in Messages \ {m} : status'[n] = status[n]
          /\ UNCHANGED <<copies, lost>>
      BY <1>0, <2>5, <3>1 DEF StampOutcome, RowTypes, ghostVars
    <3>3. plan[w] \in {"none", "queued", "sending"} =>
            /\ \A v \in Dispatchers : ~Vouches(v, m)
            /\ status[m] = "sending"
      BY <1>v, <3>1 DEF Vouches, OneHolder
    <3>4. \A v \in Dispatchers : \A n \in Messages \ {m} : Vouches(v, n) => Vouches(v, n)'
      BY <1>0, <2>5, <3>1 DEF StampOutcome, Done, Vouches, Goto, LoopTypes
    <3> QED
      BY <1>s, <3>2, <3>3, <3>4
  <2>6. CASE MissOutcome(w)
    <3>1. \A v \in Dispatchers \ {w} : pc'[v] = pc[v] /\ job'[v] = job[v] /\ plan'[v] = plan[v]
      BY <1>0, <2>6 DEF MissOutcome, Done, Goto, LoopTypes
    <3>2. /\ UNCHANGED <<copies, status>>
          /\ IF pc[w] = "outcome" /\ plan[w] = "accepted"
             THEN Lose(job[w]) ELSE UNCHANGED lost
      BY <2>6 DEF MissOutcome, rowVars
    <3> QED
      BY <1>d, <3>1, <3>2
  <2>7. CASE ReadBack(w) \/ GiveUpReadBack(w) \/ ApplyEarlyOne(w)
    <3>1. \A v \in Dispatchers : \A m \in Messages : Vouches(v, m) => Vouches(v, m)'
      <4>1. /\ pc[w] \in {"readBack", "apply"}
            /\ \A v \in Dispatchers \ {w} :
                  pc'[v] = pc[v] /\ job'[v] = job[v] /\ plan'[v] = plan[v]
        BY <1>0, <2>7 DEF ReadBack, GiveUpReadBack, ApplyEarlyOne, Done, Goto, LoopTypes
      <4> QED
        BY <4>1 DEF Vouches
    <3>2. UNCHANGED <<copies, lost>>
      BY <2>7 DEF ReadBack, GiveUpReadBack, ApplyEarlyOne, ghostVars
    <3>3. \A n \in Messages : status'[n] \in {"none", "queued", "sending"} =>
                status[n] \in {"none", "queued", "sending"}
      <4>1. CASE ApplyEarlyOne(w)
        <5>1. PICK s \in ReceiptStates : apply_receipt(job[w], claim[w][job[w]], s)
          BY <1>0, <4>1 DEF ApplyEarlyOne, LoopTypes
        <5>2. job[w] \in Messages /\ claim[w][job[w]] \in Nat \ {0}
          BY <1>0, <4>1, BusyHasMessage DEF ApplyEarlyOne, ClaimsCounted
        <5> QED
          BY <1>r, <5>1, <5>2
      <4> QED
        BY <2>7, <4>1 DEF ReadBack, GiveUpReadBack, rowVars
    <3> QED
      BY <1>s, <3>1, <3>2, <3>3
  <2> QED
    BY <1>1, <2>1, <2>2, <2>3, <2>4, <2>5, <2>6, <2>7 DEF DispatcherStep
<1>2. ASSUME NEW w \in Dispatchers, StopDispatcher(w) PROVE CopiesLost'
  <2>1. \A v \in Dispatchers \ {w} : pc'[v] = pc[v] /\ job'[v] = job[v] /\ plan'[v] = plan[v]
    BY <1>0, <1>2 DEF StopDispatcher, Goto, LoopTypes
  <2>2. /\ UNCHANGED <<copies, status>>
        /\ IF pc[w] = "outcome" /\ plan[w] = "accepted"
           THEN Lose(job[w]) ELSE UNCHANGED lost
    BY <1>2 DEF StopDispatcher, rowVars
  <2> QED
    BY <1>d, <2>1, <2>2
<1>3. ASSUME NEW m \in Messages, MessageStep(m) PROVE CopiesLost'
  <2>1. \A v \in Dispatchers : \A n \in Messages : Vouches(v, n) => Vouches(v, n)'
    BY <1>3 DEF MessageStep, QueueMessage, BecomeDue, LeaseEnds, FileLetter,
       ConsumeLetter, loopVars, Vouches
  <2>2. UNCHANGED <<copies, lost>>
    BY <1>3 DEF MessageStep, QueueMessage, BecomeDue, LeaseEnds, FileLetter,
       ConsumeLetter, ghostVars
  <2>3. \A n \in Messages : status'[n] \in {"none", "queued", "sending"} =>
                status[n] \in {"none", "queued", "sending"}
    <3>1. CASE QueueMessage(m) \/ BecomeDue(m) \/ LeaseEnds(m)
      BY <1>0, <3>1 DEF QueueMessage, BecomeDue, LeaseEnds, RowTypes
    <3>2. ASSUME NEW a \in 1..MaxAttempts, NEW s \in ReceiptStates,
                 FileLetter(m, a, s) \/ ConsumeLetter(m, a, s)
          PROVE  status' = status \/ apply_receipt(m, a, s)
      BY <3>2 DEF FileLetter, ConsumeLetter, rowVars
    <3> QED
      BY <1>3, <1>r, <3>1, <3>2, LimitsAssumption DEF MessageStep
  <2> QED
    BY <1>s, <2>1, <2>2, <2>3
<1> QED
  BY <1>1, <1>2, <1>3 DEF Next

LEMMA OverrunsGrow ==
    ASSUME TypeOK, [Next]_vars, overruns' = 0
    PROVE  overruns = 0
<1>1. overruns \in Nat
  BY DEF TypeOK
<1>2. overruns' = overruns \/ overruns' = overruns + 1
  BY DEF Next, DispatcherStep, SweepStaleClaims, ClaimBatch, NextRow, AskGate,
     SendCopy, SendNothing, StampOutcome, MissOutcome, ReadBack, GiveUpReadBack,
     ApplyEarlyOne, StopDispatcher, MessageStep, QueueMessage, BecomeDue,
     LeaseEnds, FileLetter, ConsumeLetter, vars, budgets
<1> QED
  BY <1>1, <1>2

CopiesInv == MInv /\ Single /\ (overruns = 0 => OneHolder /\ CopiesLost)

LEMMA CopiesInvStep == CopiesInv /\ [Next]_vars => CopiesInv'
<1> SUFFICES ASSUME CopiesInv, [Next]_vars PROVE CopiesInv'
  OBVIOUS
<1>0. MInv /\ MInv' /\ TypeOK
  BY MInvStep DEF CopiesInv, MInv
<1>1. CASE Next
  BY <1>0, <1>1, SingleStep, OneHolderStep, CopiesLostStep, OverrunsGrow DEF CopiesInv
<1>2. CASE UNCHANGED vars
  BY <1>0, <1>2 DEF CopiesInv, Single, OneHolder, CopiesLost, Holds, Vouches,
     vars, rowVars, loopVars, ghostVars, budgets
<1> QED
  BY <1>1, <1>2

LEMMA CopiesInvInit == Init => CopiesInv
<1> SUFFICES ASSUME Init PROVE CopiesInv
  OBVIOUS
<1>1. MInv
  BY MInvInit
<1>2. Single /\ OneHolder
  BY NoMessageAssumption DEF Init, Single, OneHolder, Holds
<1>3. CopiesLost
  BY FS_EmptySet DEF Init, CopiesLost
<1> QED
  BY <1>1, <1>2, <1>3 DEF CopiesInv

\* However many dispatchers claim, sweep, retry and die: a second copy means
\* that an outcome was lost.
THEOREM CopiesNeeded == Spec => []NoNeedlessCopy
<1>1. CopiesInv => NoNeedlessCopy
  BY DEF CopiesInv, CopiesLost, NoNeedlessCopy
<1> QED
  BY <1>1, CopiesInvInit, CopiesInvStep, PTL DEF Spec

-----------------------------------------------------------------------------
(* Receipts: the consumer and the read-back cannot both miss one.          *)

\* The row shows what the receipt said; somebody is about to apply it.
Applied(m, s) ==
    IF s = "failed" THEN status[m] \in {"failed", "delivered", "read"} ELSE s \in marks[m]
Owes(w, m, s) == job[w] = m /\ (pc[w] = "readBack" \/ s \in earlyOnes[w])

\* A dispatcher reads back receipts for the id it stamped.
ReadsOwn ==
    \A w \in Dispatchers :
        /\ pc[w] \in {"readBack", "apply"} => providerId[job[w]] = claim[w][job[w]]
        /\ earlyOnes[w] # {} => pc[w] = "apply"

ReceiptsKept ==
    \A m \in Messages : \A s \in ReceiptStates :
        providerId[m] # 0 /\ <<providerId[m], s>> \in letters[m] \ pending[m] =>
            Applied(m, s) \/ \E w \in Dispatchers : Owes(w, m, s)

\* A row keeps the id it learned, and learns it from a stamp.
LEMMA IdStep ==
    ASSUME MInv, Next, NEW m \in Messages
    PROVE  \/ providerId'[m] = providerId[m]
           \/ /\ providerId[m] = 0
              /\ \E w \in Dispatchers :
                    /\ StampOutcome(w) /\ job[w] = m /\ providerId'[m] = claim[w][m]
                    /\ providerId'[m] # 0 /\ plan[w] = "accepted"
<1>0. RowTypes /\ LoopTypes /\ LastClaimWins
  BY TypeParts DEF MInv
<1>1. ASSUME NEW w \in Dispatchers, StampOutcome(w), providerId'[m] # providerId[m]
      PROVE  /\ job[w] = m /\ providerId'[m] = claim[w][m] /\ plan[w] = "accepted"
             /\ providerId[m] = 0 /\ providerId'[m] # 0
  <2>1. PICK id \in IF plan[w] = "accepted" THEN {0, claim[w][job[w]]} ELSE {0} :
           providerId' = [providerId EXCEPT ![job[w]] = IF id = 0 THEN @ ELSE id]
    BY <1>1 DEF StampOutcome
  <2>2. job[w] = m /\ id # 0
    BY <1>0, <1>1, <2>1 DEF RowTypes
  <2>3. status[m] = "sending"
    BY <1>1, <2>2 DEF StampOutcome, ourClaim
  <2> QED
    BY <1>0, <1>1, <2>1, <2>2, <2>3 DEF RowTypes, LastClaimWins, Accepted
<1>2. UNCHANGED providerId \/ \E w \in Dispatchers : StampOutcome(w)
  BY DEF Next, DispatcherStep, SweepStaleClaims, ClaimBatch, NextRow, AskGate,
     SendCopy, SendNothing, MissOutcome, ReadBack, GiveUpReadBack, ApplyEarlyOne,
     StopDispatcher, MessageStep, QueueMessage, BecomeDue, LeaseEnds, FileLetter,
     ConsumeLetter, rowVars
<1> QED
  BY <1>1, <1>2

LEMMA ReadsOwnStep ==
    ASSUME MInv, ReadsOwn, Next
    PROVE  ReadsOwn'
<1>0. RowTypes /\ LoopTypes /\ LastClaimWins /\ ClaimsCounted
  BY TypeParts DEF MInv
\* Who goes on reading back what it stamped.
<1>t. ASSUME NEW v \in Dispatchers, job'[v] = job[v], claim'[v] = claim[v],
             pc[v] \in {"readBack", "apply"}
      PROVE  providerId'[job'[v]] = claim'[v][job'[v]]
  <2>1. PICK m \in Messages : m = job[v]
    BY <1>0, <1>t, BusyHasMessage
  <2>2. providerId[m] = claim[v][m] /\ claim[v][m] # 0
    BY <1>0, <1>t, <2>1 DEF ReadsOwn, ClaimsCounted, LoopTypes
  <2> QED
    BY <1>t, <2>1, <2>2, IdStep
\* Only w moves.
<1>m. ASSUME NEW w \in Dispatchers,
             \A v \in Dispatchers \ {w} :
                /\ pc'[v] = pc[v] /\ job'[v] = job[v] /\ claim'[v] = claim[v]
                /\ earlyOnes'[v] = earlyOnes[v],
             pc'[w] \in {"readBack", "apply"} =>
                providerId'[job'[w]] = claim'[w][job'[w]],
             earlyOnes'[w] # {} => pc'[w] = "apply"
      PROVE  ReadsOwn'
  BY <1>m, <1>t DEF ReadsOwn
<1>1. ASSUME NEW w \in Dispatchers, DispatcherStep(w) \/ StopDispatcher(w)
      PROVE  ReadsOwn'
  <2>o. \A v \in Dispatchers \ {w} :
                /\ pc'[v] = pc[v] /\ job'[v] = job[v] /\ claim'[v] = claim[v]
                /\ earlyOnes'[v] = earlyOnes[v]
    <3>1. CASE SweepStaleClaims(w) \/ ClaimBatch(w) \/ NextRow(w) \/ AskGate(w)
               \/ SendCopy(w) \/ SendNothing(w)
      BY <1>0, <3>1 DEF SweepStaleClaims, ClaimBatch, NextRow, AskGate, SendCopy,
         SendNothing, Goto, LoopTypes
    <3>2. CASE StampOutcome(w) \/ MissOutcome(w) \/ ReadBack(w) \/ GiveUpReadBack(w)
               \/ ApplyEarlyOne(w) \/ StopDispatcher(w)
      BY <1>0, <3>2 DEF StampOutcome, MissOutcome, ReadBack, GiveUpReadBack,
         ApplyEarlyOne, StopDispatcher, Done, Goto, LoopTypes
    <3> QED
      BY <1>1, <3>1, <3>2 DEF DispatcherStep
  <2>1. CASE pc'[w] \notin {"readBack", "apply"} /\ earlyOnes'[w] = {}
    BY <1>m, <2>o, <2>1
  <2>2. CASE SweepStaleClaims(w) \/ ClaimBatch(w) \/ NextRow(w) \/ AskGate(w)
             \/ SendCopy(w) \/ SendNothing(w) \/ MissOutcome(w) \/ StopDispatcher(w)
    <3>1. pc'[w] \notin {"readBack", "apply"}
      BY <1>0, <2>2 DEF SweepStaleClaims, ClaimBatch, NextRow, AskGate, SendCopy,
         SendNothing, MissOutcome, StopDispatcher, Done, Goto, LoopTypes
    <3>2. earlyOnes'[w] = {}
      BY <1>0, <2>2 DEF SweepStaleClaims, ClaimBatch, NextRow, AskGate, SendCopy,
         SendNothing, MissOutcome, StopDispatcher, LoopTypes, ReadsOwn
    <3> QED
      BY <2>1, <3>1, <3>2
  <2>3. CASE StampOutcome(w)
    <3>1. PICK m \in Messages : m = job[w]
      BY <1>0, <2>3, BusyHasMessage DEF StampOutcome
    <3>2. claim' = claim /\ earlyOnes'[w] = {}
      BY <2>3 DEF StampOutcome, ReadsOwn
    <3>3. PICK id \in IF plan[w] = "accepted" THEN {0, claim[w][m]} ELSE {0} :
            /\ providerId' = [providerId EXCEPT ![m] = IF id = 0 THEN @ ELSE id]
            /\ \/ id # 0 /\ Goto(w, "readBack") /\ UNCHANGED job
               \/ Done(w)
      BY <2>3, <3>1 DEF StampOutcome, readsBack
    <3>4. CASE id # 0 /\ Goto(w, "readBack") /\ UNCHANGED job
      <4>1. id = claim[w][m]
        BY <3>3, <3>4
      <4>2. providerId'[m] = claim[w][m]
        BY <1>0, <3>3, <3>4, <4>1 DEF RowTypes
      <4>3. pc'[w] = "readBack"
        BY <1>0, <3>4 DEF Goto, LoopTypes
      <4>4. job'[w] = m
        BY <3>1, <3>4
      <4>5. providerId'[job'[w]] = claim'[w][job'[w]]
        BY <3>2, <4>2, <4>4
      <4> QED
        BY <1>m, <2>o, <3>2, <4>5
    <3>5. CASE Done(w)
      BY <1>0, <2>1, <3>2, <3>5 DEF Done, Goto, LoopTypes
    <3> QED
      BY <3>3, <3>4, <3>5
  <2>4. CASE Done(w) /\ (ReadBack(w) \/ GiveUpReadBack(w) \/ ApplyEarlyOne(w))
    <3>1. pc'[w] = "rows"
      BY <1>0, <2>4 DEF Done, Goto, LoopTypes
    <3>2. earlyOnes'[w] = {}
      <4>1. CASE GiveUpReadBack(w)
        BY <1>0, <4>1 DEF GiveUpReadBack, LoopTypes
      <4>2. CASE ReadBack(w)
        BY <1>0, <3>1, <4>2 DEF ReadBack, ReadsOwn, Goto, LoopTypes
      <4>3. CASE ApplyEarlyOne(w)
        BY <3>1, <4>3 DEF ApplyEarlyOne
      <4> QED
        BY <2>4, <4>1, <4>2, <4>3
    <3> QED
      BY <2>1, <3>1, <3>2
  <2>5. CASE ~Done(w) /\ ReadBack(w)
    <3>1. /\ pc[w] = "readBack" /\ Goto(w, "apply") /\ UNCHANGED <<job, claim>>
      BY <2>5 DEF ReadBack
    <3>2. pc'[w] = "apply"
      BY <1>0, <3>1 DEF Goto, LoopTypes
    <3>3. providerId'[job'[w]] = claim'[w][job'[w]]
      BY <1>t, <3>1
    <3> QED
      BY <1>m, <2>o, <3>2, <3>3
  <2>6. CASE ~Done(w) /\ ApplyEarlyOne(w)
    <3>1. pc[w] = "apply" /\ UNCHANGED <<pc, job, claim>>
      BY <2>6 DEF ApplyEarlyOne
    <3>2. providerId'[job'[w]] = claim'[w][job'[w]]
      BY <1>t, <3>1
    <3> QED
      BY <1>m, <2>o, <3>1, <3>2
  <2>7. ~(~Done(w) /\ GiveUpReadBack(w))
    BY DEF GiveUpReadBack
  <2> QED
    BY <1>1, <2>2, <2>3, <2>4, <2>5, <2>6, <2>7 DEF DispatcherStep
<1>2. ASSUME NEW m \in Messages, MessageStep(m) PROVE ReadsOwn'
  <2>1. UNCHANGED loopVars
    BY <1>2 DEF MessageStep, QueueMessage, BecomeDue, LeaseEnds, FileLetter,
       ConsumeLetter
  <2> QED
    BY <1>t, <2>1 DEF ReadsOwn, loopVars
<1> QED
  BY <1>1, <1>2 DEF Next

LEMMA ReceiptApplied ==
    ASSUME MInv, NEW m \in Messages, NEW a \in Nat \ {0}, NEW s \in ReceiptStates,
           providerId[m] = a, apply_receipt(m, a, s)
    PROVE  Applied(m, s)'
<1>1. RowTypes /\ status[m] \in Accepted \cup {"failed"} /\ marks[m] \in SUBSET Marks
  BY TypeParts DEF MInv, RowTypes, LastClaimWins
<1>2. /\ status'[m] = IF fails(m, s) THEN "failed"
                      ELSE IF s # "failed" /\ climbs(m, s) THEN s ELSE status[m]
      /\ s = "sent" => marks'[m] = marks[m] \cup {"sent"}
      /\ s = "delivered" => marks'[m] = marks[m] \cup {"sent", "delivered"}
      /\ s = "read" => marks'[m] = marks[m] \cup Marks
  BY <1>1 DEF apply_receipt, RowTypes
<1> QED
  BY <1>1, <1>2 DEF Applied, fails, Accepted, ReceiptStates, Marks

LEMMA AppliedStays ==
    ASSUME MInv, Next, NEW m \in Messages, NEW s \in ReceiptStates, Applied(m, s),
           providerId[m] # 0
    PROVE  Applied(m, s)'
<1>0. RowTypes /\ LoopTypes /\ status[m] \in Accepted \cup {"failed"}
  BY TypeParts DEF MInv, LastClaimWins
<1>1. CASE s = "failed"
  <2>1. status[m] \in {"failed", "delivered", "read"}
    BY <1>1 DEF Applied
  <2>2. /\ status[m] = "failed" => status'[m] = "failed"
        /\ status[m] \in {"delivered", "read"} =>
              status'[m] \in Accepted /\ Rank[status'[m]] >= Rank[status[m]]
    BY RowStep DEF Accepted
  <2> QED
    BY <1>1, <2>1, <2>2, RanksAre DEF Applied, Accepted
<1>2. CASE s # "failed"
  <2>1. ASSUME NEW n \in Messages, NEW a, NEW t \in ReceiptStates, apply_receipt(n, a, t)
        PROVE  marks[m] \subseteq marks'[m]
    BY <1>0, <2>1 DEF apply_receipt, RowTypes, ReceiptStates
  <2>2. ASSUME NEW w \in Dispatchers, DispatcherStep(w)
        PROVE  marks[m] \subseteq marks'[m]
    <3>1. CASE StampOutcome(w)
      BY <1>0, <3>1 DEF StampOutcome, RowTypes
    <3>2. CASE ApplyEarlyOne(w)
      <4>1. PICK t \in ReceiptStates : apply_receipt(job[w], claim[w][job[w]], t)
        BY <1>0, <3>2 DEF ApplyEarlyOne, LoopTypes
      <4> QED
        BY <1>0, <2>1, <3>2, <4>1, BusyHasMessage DEF ApplyEarlyOne
    <3> QED
      BY <2>2, <3>1, <3>2 DEF DispatcherStep, SweepStaleClaims, ClaimBatch, NextRow,
         AskGate, SendCopy, SendNothing, MissOutcome, ReadBack, GiveUpReadBack, rowVars
  <2>3. ASSUME NEW n \in Messages, MessageStep(n)
        PROVE  marks[m] \subseteq marks'[m]
    BY <2>1, <2>3 DEF MessageStep, QueueMessage, BecomeDue, LeaseEnds, FileLetter,
       ConsumeLetter, rowVars
  <2>4. marks[m] \subseteq marks'[m]
    BY <2>2, <2>3 DEF Next, StopDispatcher, rowVars
  <2> QED
    BY <1>2, <2>4 DEF Applied
<1> QED
  BY <1>1, <1>2

\* What a dispatcher owes a row it goes on owing, until it applied it.
LEMMA OwedStays ==
    ASSUME MInv, ReadsOwn, Next, faults' = 0, NEW m \in Messages,
           NEW s \in ReceiptStates, <<providerId[m], s>> \in letters[m],
           NEW w \in Dispatchers, Owes(w, m, s)
    PROVE  Owes(w, m, s)' \/ Applied(m, s)'
<1>0. RowTypes /\ LoopTypes /\ SideTypes /\ ClaimsCounted
  BY TypeParts DEF MInv
<1>w. /\ pc[w] \in {"readBack", "apply"} /\ job[w] = m
      /\ pc[w] = "readBack" \/ s \in earlyOnes[w]
      /\ providerId[m] = claim[w][m] /\ claim[w][m] \in Nat \ {0}
  BY <1>0 DEF Owes, ReadsOwn, LoopTypes, ClaimsCounted
<1>f. ~Fault
  BY <1>0 DEF Fault, SideTypes
<1>1. CASE pc'[w] = pc[w] /\ job'[w] = job[w] /\ earlyOnes'[w] = earlyOnes[w]
  BY <1>1 DEF Owes
<1>2. CASE ReadBack(w)
  <2>1. s \in {t \in ReceiptStates : <<claim[w][job[w]], t>> \in letters[job[w]]}
    BY <1>w
  <2>2. /\ earlyOnes' = [earlyOnes EXCEPT ![w] =
              {t \in ReceiptStates : <<claim[w][job[w]], t>> \in letters[job[w]]}]
        /\ UNCHANGED job
    BY <1>2, <2>1 DEF ReadBack
  <2>3. s \in earlyOnes'[w] /\ job'[w] = m
    BY <1>0, <1>w, <2>1, <2>2 DEF LoopTypes
  <2> QED
    BY <2>3 DEF Owes
<1>3. CASE ApplyEarlyOne(w)
  <2>1. PICK t \in ReceiptStates : /\ apply_receipt(m, claim[w][m], t)
                                   /\ earlyOnes' = [earlyOnes EXCEPT ![w] = @ \ {t}]
    BY <1>0, <1>3, <1>w DEF ApplyEarlyOne, LoopTypes
  <2>2. CASE t = s
    BY <1>w, <2>1, <2>2, ReceiptApplied
  <2>3. CASE t # s
    <3>1. s \in earlyOnes'[w]
      BY <1>0, <1>3, <1>w, <2>1, <2>3 DEF ApplyEarlyOne, LoopTypes
    <3>2. UNCHANGED job
      BY <1>3, <3>1 DEF ApplyEarlyOne
    <3> QED
      BY <1>w, <3>1, <3>2 DEF Owes
  <2> QED
    BY <2>2, <2>3
<1>4. ASSUME NEW v \in Dispatchers \ {w}, DispatcherStep(v) \/ StopDispatcher(v)
      PROVE  pc'[w] = pc[w] /\ job'[w] = job[w] /\ earlyOnes'[w] = earlyOnes[w]
  <2>1. CASE SweepStaleClaims(v) \/ ClaimBatch(v) \/ NextRow(v) \/ AskGate(v)
             \/ SendCopy(v) \/ SendNothing(v)
    BY <1>0, <2>1 DEF SweepStaleClaims, ClaimBatch, NextRow, AskGate, SendCopy,
       SendNothing, Goto, LoopTypes
  <2>2. CASE StampOutcome(v) \/ MissOutcome(v) \/ ReadBack(v) \/ GiveUpReadBack(v)
             \/ ApplyEarlyOne(v) \/ StopDispatcher(v)
    BY <1>0, <2>2 DEF StampOutcome, MissOutcome, ReadBack, GiveUpReadBack,
       ApplyEarlyOne, StopDispatcher, Done, Goto, LoopTypes
  <2> QED
    BY <1>4, <2>1, <2>2 DEF DispatcherStep
<1>5. ASSUME DispatcherStep(w) \/ StopDispatcher(w)
      PROVE  ReadBack(w) \/ ApplyEarlyOne(w)
  BY <1>5, <1>f, <1>w DEF DispatcherStep, SweepStaleClaims, ClaimBatch, NextRow, AskGate,
     SendCopy, SendNothing, StampOutcome, MissOutcome, GiveUpReadBack, StopDispatcher
<1>6. ASSUME NEW n \in Messages, MessageStep(n)
      PROVE  pc'[w] = pc[w] /\ job'[w] = job[w] /\ earlyOnes'[w] = earlyOnes[w]
  BY <1>6 DEF MessageStep, QueueMessage, BecomeDue, LeaseEnds, FileLetter,
     ConsumeLetter, loopVars
<1> QED
  BY <1>1, <1>2, <1>3, <1>4, <1>5, <1>6 DEF Next

LEMMA ReceiptsKeptStep ==
    ASSUME MInv, ReadsOwn, ReceiptsKept, Next, faults' = 0
    PROVE  ReceiptsKept'
<1>0. RowTypes /\ LoopTypes /\ SideTypes
  BY TypeParts DEF MInv
<1>f. ~Fault
  BY <1>0 DEF Fault, SideTypes
<1> SUFFICES ASSUME NEW m \in Messages, NEW s \in ReceiptStates, providerId'[m] # 0,
                    <<providerId'[m], s>> \in letters'[m] \ pending'[m]
             PROVE  Applied(m, s)' \/ \E w \in Dispatchers : Owes(w, m, s)'
  BY DEF ReceiptsKept
<1>1. CASE providerId'[m] # providerId[m]
  <2>1. PICK w \in Dispatchers : StampOutcome(w) /\ job[w] = m
    BY <1>1, IdStep
  <2>2. PICK id \in IF plan[w] = "accepted" THEN {0, claim[w][m]} ELSE {0} :
          /\ providerId' = [providerId EXCEPT ![m] = IF id = 0 THEN @ ELSE id]
          /\ \/ Goto(w, "readBack") /\ UNCHANGED job
             \/ (~readsBack(id) /\ NoFault) /\ Done(w)
    BY <1>f, <2>1 DEF StampOutcome
  <2>3. id # 0
    BY <1>0, <1>1, <2>2 DEF RowTypes
  <2>4. Goto(w, "readBack") /\ UNCHANGED job
    BY <2>2, <2>3 DEF readsBack
  <2>5. Owes(w, m, s)'
    BY <1>0, <2>1, <2>4 DEF Owes, Goto, LoopTypes
  <2> QED
    BY <2>5
<1>2. CASE providerId'[m] = providerId[m]
  <2>a. PICK a \in Nat \ {0} : a = providerId[m]
    BY <1>0, <1>2 DEF RowTypes
  <2>1. CASE <<a, s>> \in letters[m] \ pending[m]
    <3>1. Applied(m, s) \/ \E w \in Dispatchers : Owes(w, m, s)
      BY <2>a, <2>1 DEF ReceiptsKept
    <3> QED
      BY <2>a, <2>1, <3>1, AppliedStays, OwedStays
  <2>2. CASE <<a, s>> \notin letters[m] \ pending[m]
    <3>1. <<a, s>> \in letters'[m] /\ <<a, s>> \notin pending'[m]
      BY <1>2, <2>a
    <3>2. PICK n \in Messages, b \in 1..MaxAttempts, t \in ReceiptStates :
              FileLetter(n, b, t) \/ ConsumeLetter(n, b, t)
      BY <2>2, <3>1 DEF Next, DispatcherStep, SweepStaleClaims, ClaimBatch, NextRow,
         AskGate, SendCopy, SendNothing, StampOutcome, MissOutcome, ReadBack,
         GiveUpReadBack, ApplyEarlyOne, StopDispatcher, MessageStep, QueueMessage,
         BecomeDue, LeaseEnds, spineVars
    <3>3. ~FileLetter(n, b, t)
      BY <1>0, <2>2, <3>1 DEF FileLetter, SideTypes
    <3>4. /\ apply_receipt(n, b, t) /\ letters' = letters
          /\ pending' = [pending EXCEPT ![n] = @ \ {<<b, t>>}] \/ pending' = pending
      BY <3>2, <3>3 DEF ConsumeLetter
    <3>5. n = m /\ b = a /\ t = s
      BY <1>0, <2>2, <3>1, <3>4 DEF SideTypes
    <3> QED
      BY <2>a, <3>4, <3>5, ReceiptApplied
  <2> QED
    BY <2>1, <2>2
<1> QED
  BY <1>1, <1>2

ReceiptsInv == MInv /\ ReadsOwn /\ (faults = 0 => ReceiptsKept)

LEMMA ReceiptsInvStep == ReceiptsInv /\ [Next]_vars => ReceiptsInv'
<1> SUFFICES ASSUME ReceiptsInv, [Next]_vars PROVE ReceiptsInv'
  OBVIOUS
<1>0. MInv /\ MInv' /\ faults \in Nat
  BY MInvStep DEF ReceiptsInv, MInv, TypeOK
<1>1. CASE Next
  <2>1. faults' = 0 => faults = 0
    <3>1. ASSUME NEW w \in Dispatchers, DispatcherStep(w) \/ StopDispatcher(w)
          PROVE  faults' = faults \/ faults' = faults + 1
      <4>1. CASE SweepStaleClaims(w) \/ ClaimBatch(w) \/ NextRow(w) \/ AskGate(w)
        BY <4>1 DEF SweepStaleClaims, ClaimBatch, NextRow, AskGate, Fault, NoFault,
           budgets
      <4>2. CASE SendCopy(w) \/ SendNothing(w) \/ StampOutcome(w) \/ MissOutcome(w)
        BY <4>2 DEF SendCopy, SendNothing, StampOutcome, MissOutcome, Fault, NoFault,
           budgets
      <4>3. CASE ReadBack(w) \/ GiveUpReadBack(w) \/ ApplyEarlyOne(w)
                 \/ StopDispatcher(w)
        BY <4>3 DEF ReadBack, GiveUpReadBack, ApplyEarlyOne, StopDispatcher, Fault,
           NoFault, budgets
      <4> QED
        BY <3>1, <4>1, <4>2, <4>3 DEF DispatcherStep
    <3>2. ASSUME NEW m \in Messages, MessageStep(m)
          PROVE  faults' = faults \/ faults' = faults + 1
      BY <3>2 DEF MessageStep, QueueMessage, BecomeDue, LeaseEnds, FileLetter,
         ConsumeLetter, Fault, NoFault, budgets
    <3> QED
      BY <1>0, <1>1, <3>1, <3>2 DEF Next
  <2> QED
    BY <1>0, <1>1, <2>1, ReadsOwnStep, ReceiptsKeptStep DEF ReceiptsInv
<1>2. CASE UNCHANGED vars
  BY <1>0, <1>2 DEF ReceiptsInv, ReadsOwn, ReceiptsKept, Applied, Owes, vars,
     rowVars, loopVars, spineVars, budgets
<1> QED
  BY <1>1, <1>2

\* While no write failed and nobody died, no receipt of a recorded copy falls
\* between the consumer and the read-back.
THEOREM ReceiptsLand == Spec => []NoReceiptLost
<1>1. Init => ReceiptsInv
  BY MInvInit DEF Init, ReceiptsInv, ReadsOwn, ReceiptsKept
<1>2. ReceiptsInv => NoReceiptLost
  BY DEF ReceiptsInv, ReceiptsKept, NoReceiptLost, Applied, Owes
<1> QED
  BY <1>1, <1>2, ReceiptsInvStep, PTL DEF Spec

-----------------------------------------------------------------------------
(* The manifest implements MessageLedger.                                  *)

\* The dispatcher's claim may still put its copy out.
ToSend(w, m) == m \in batch[w] \/ (job[w] = m /\ pc[w] \in {"gate", "send"})

\* No two dispatchers have the same attempt of a row.
ClaimsDistinct ==
    \A w, v \in Dispatchers : \A m \in Messages :
        claim[w][m] # 0 /\ claim[w][m] = claim[v][m] => w = v

\* A claim sends once: what is still to be sent was not, and what is about to
\* be refused was not either.
SentOnce ==
    \A w \in Dispatchers : \A m \in Messages :
        /\ ToSend(w, m) => claim[w][m] \notin copies[m]
        /\ job[w] = m /\ pc[w] = "outcome" /\ plan[w] \in {"blocked", "failed"} =>
                claim[w][m] \notin copies[m]

\* Nobody has reported for a claim that is still to send.
Unreported ==
    \A w \in Dispatchers : \A m \in Messages :
        ToSend(w, m) /\ claim[w][m] = attempt[m] =>
            status[m] \in {"sending", "queued", "dead"}

LedgerInv == MInv /\ Single /\ ClaimsDistinct /\ SentOnce /\ Unreported

LEMMA LedgerInvInit == Init => LedgerInv
<1> SUFFICES ASSUME Init PROVE LedgerInv
  OBVIOUS
<1>1. MInv
  BY MInvInit
<1>2. \A w \in Dispatchers : \A m \in Messages :
        ~ToSend(w, m) /\ pc[w] # "outcome" /\ claim[w][m] = 0
  BY NoMessageAssumption DEF Init, ToSend
<1>3. Single
  BY DEF Init, Single
<1> QED
  BY <1>1, <1>2, <1>3 DEF LedgerInv, ClaimsDistinct, SentOnce, Unreported

\* Whose turn to send it is changes by a claim; a claim is used up by its copy.
LEMMA SendersFrom ==
    ASSUME MInv, Single, Next
    PROVE  \/ \E w \in Dispatchers : ClaimBatch(w)
           \/ /\ UNCHANGED <<attempt, claim>>
              /\ \A v \in Dispatchers : \A m \in Messages :
                    ToSend(v, m)' => ToSend(v, m)
              /\ \/ UNCHANGED copies
                 \/ \E w \in Dispatchers : SendCopy(w) /\ ~ToSend(w, job[w])'
<1> DEFINE Kept == \A v \in Dispatchers : \A m \in Messages :
                      ToSend(v, m)' => ToSend(v, m)
<1>0. LoopTypes /\ Single
  BY TypeParts DEF MInv
<1>1. ASSUME NEW w \in Dispatchers, DispatcherStep(w) \/ StopDispatcher(w),
             ~ClaimBatch(w), ~SendCopy(w)
      PROVE  UNCHANGED <<attempt, claim, copies>> /\ Kept
  <2>1. UNCHANGED <<attempt, claim, copies>>
    BY <1>1 DEF DispatcherStep, SweepStaleClaims, NextRow, AskGate,
       SendNothing, StampOutcome, MissOutcome, ReadBack, GiveUpReadBack,
       ApplyEarlyOne, StopDispatcher, rowVars, ghostVars
  <2>2. CASE NextRow(w)
    <3>1. CASE batch[w] = {} /\ Goto(w, "idle") /\ UNCHANGED <<batch, job>>
      <4>1. \A v \in Dispatchers : pc'[v] \in {"gate", "send"} => pc'[v] = pc[v]
        BY <1>0, <3>1 DEF Goto, LoopTypes
      <4> QED
        BY <2>1, <3>1, <4>1 DEF ToSend
    <3>2. ASSUME NEW m \in batch[w], batch' = [batch EXCEPT ![w] = @ \ {m}],
                 job' = [job EXCEPT ![w] = m], Goto(w, "gate")
          PROVE  Kept
      BY <1>0, <3>2 DEF Goto, LoopTypes, ToSend
    <3> QED
      BY <2>1, <2>2, <3>1, <3>2 DEF NextRow
  <2>3. CASE StopDispatcher(w)
    BY <1>0, <2>1, <2>3, NoMessageAssumption DEF StopDispatcher, Goto, LoopTypes, ToSend
  <2>4. CASE AskGate(w) \/ SendNothing(w)
    BY <1>0, <2>1, <2>4 DEF AskGate, SendNothing, Goto, LoopTypes, ToSend
  <2>5. CASE Done(w) /\ UNCHANGED batch
    BY <1>0, <2>1, <2>5 DEF Done, Goto, LoopTypes, ToSend
  <2>6. CASE UNCHANGED <<batch, job>> /\
             (UNCHANGED pc \/ \E where \in {"swept", "readBack", "apply"} : Goto(w, where))
    BY <1>0, <2>1, <2>6 DEF Goto, LoopTypes, ToSend
  <2> QED
    BY <1>1, <2>1, <2>2, <2>3, <2>4, <2>5, <2>6
    DEF DispatcherStep, SweepStaleClaims, StampOutcome, MissOutcome, ReadBack,
        GiveUpReadBack, ApplyEarlyOne
<1>2. ASSUME NEW w \in Dispatchers, SendCopy(w)
      PROVE  UNCHANGED <<attempt, claim>> /\ Kept /\ ~ToSend(w, job[w])'
  BY <1>0, <1>2 DEF SendCopy, Goto, LoopTypes, ToSend, Single, rowVars
<1>3. ASSUME NEW m \in Messages, MessageStep(m)
      PROVE  UNCHANGED <<attempt, claim, copies>> /\ Kept
  BY <1>3 DEF MessageStep, QueueMessage, BecomeDue, LeaseEnds,
     FileLetter, ConsumeLetter, loopVars, rowVars, ghostVars, ToSend
<1> QED
  BY <1>1, <1>2, <1>3 DEF Next

\* What a claim gives the dispatcher that made it.
LEMMA ClaimGives ==
    ASSUME MInv, NEW w \in Dispatchers, ClaimBatch(w)
    PROVE  \E S \in SUBSET Messages :
              /\ \A m \in S : status[m] = "queued" /\ attempt[m] < MaxAttempts
              /\ status' = [m \in Messages |-> IF m \in S THEN "sending" ELSE status[m]]
              /\ attempt' = [m \in Messages |->
                                IF m \in S THEN attempt[m] + 1 ELSE attempt[m]]
              /\ \A m \in Messages :
                    /\ claim'[w][m] = IF m \in S THEN attempt[m] + 1 ELSE claim[w][m]
                    /\ ToSend(w, m)' <=> m \in S
              /\ pc'[w] = "rows" /\ UNCHANGED <<copies, providerId, plan, job>>
              /\ \A v \in Dispatchers \ {w} :
                    /\ claim'[v] = claim[v] /\ pc'[v] = pc[v]
                    /\ \A m \in Messages : ToSend(v, m)' <=> ToSend(v, m)
<1>0. LoopTypes /\ RowTypes /\ AttemptLeft
  BY TypeParts DEF MInv
<1>1. PICK S \in SUBSET {m \in Messages : claimable(m)} :
        /\ status' = [m \in Messages |-> IF m \in S THEN "sending" ELSE status[m]]
        /\ attempt' = [m \in Messages |->
                        IF m \in S THEN attempt[m] + 1 ELSE attempt[m]]
        /\ claim' = [claim EXCEPT ![w] = [m \in Messages |->
                        IF m \in S THEN attempt[m] + 1 ELSE @[m]]]
        /\ batch' = [batch EXCEPT ![w] = S]
  BY DEF ClaimBatch
<1>2. /\ pc[w] = "swept" /\ Goto(w, "rows") /\ job[w] = NoMessage
      /\ UNCHANGED <<copies, providerId, plan, job>>
  BY <1>0 DEF ClaimBatch, LoopTypes, ghostVars
<1>3. \A m \in S : status[m] = "queued" /\ attempt[m] < MaxAttempts
  BY <1>0, <1>1 DEF claimable, AttemptLeft
<1>4. \A m \in Messages :
        /\ claim'[w][m] = IF m \in S THEN attempt[m] + 1 ELSE claim[w][m]
        /\ ToSend(w, m)' <=> m \in S
  BY <1>0, <1>1, <1>2, NoMessageAssumption DEF LoopTypes, ToSend, Goto
<1>5. \A v \in Dispatchers \ {w} :
        /\ claim'[v] = claim[v] /\ pc'[v] = pc[v]
        /\ \A m \in Messages : ToSend(v, m)' <=> ToSend(v, m)
  BY <1>0, <1>1, <1>2 DEF LoopTypes, ToSend, Goto
<1>6. pc'[w] = "rows"
  BY <1>0, <1>2 DEF LoopTypes, Goto
<1> QED
  BY <1>1, <1>2, <1>3, <1>4, <1>5, <1>6

LEMMA ClaimsDistinctStep ==
    ASSUME LedgerInv, Next
    PROVE  ClaimsDistinct'
<1> USE DEF ClaimsDistinct
<1>0. /\ MInv /\ Single /\ ClaimsDistinct /\ ClaimsCounted
      /\ \A m \in Messages : attempt[m] \in Nat
      /\ \A v \in Dispatchers : \A m \in Messages : claim[v][m] \in Nat
  BY TypeParts DEF LedgerInv, MInv, LoopTypes, RowTypes
<1>1. ASSUME NEW w \in Dispatchers, ClaimBatch(w) PROVE ClaimsDistinct'
  <2>1. PICK S \in SUBSET Messages :
          /\ \A m \in Messages :
               claim'[w][m] = IF m \in S THEN attempt[m] + 1 ELSE claim[w][m]
          /\ \A v \in Dispatchers \ {w} : claim'[v] = claim[v]
    BY <1>0, <1>1, ClaimGives
  <2>2. \A v \in Dispatchers : \A m \in Messages : claim[v][m] < attempt[m] + 1
    BY <1>0 DEF ClaimsCounted
  <2> QED
    BY <1>0, <2>1, <2>2
<1> QED
  BY <1>0, <1>1, SendersFrom

LEMMA SentOnceStep ==
    ASSUME LedgerInv, Next
    PROVE  SentOnce'
<1>0. /\ MInv /\ Single /\ ClaimsDistinct /\ ClaimsCounted /\ SentOnce
      /\ CopiesClaimed /\ LoopTypes /\ SideTypes
      /\ \A m \in Messages : attempt[m] \in Nat
      /\ \A v \in Dispatchers : \A m \in Messages : claim[v][m] \in Nat
  BY TypeParts DEF LedgerInv, MInv, LoopTypes, RowTypes
<1>1. ASSUME NEW w \in Dispatchers, ClaimBatch(w) PROVE SentOnce'
  <2>1. PICK S \in SUBSET Messages :
          /\ \A m \in Messages :
               /\ claim'[w][m] = IF m \in S THEN attempt[m] + 1 ELSE claim[w][m]
               /\ ToSend(w, m)' <=> m \in S
          /\ pc'[w] = "rows" /\ UNCHANGED <<copies, plan, job>>
          /\ \A v \in Dispatchers \ {w} :
                /\ claim'[v] = claim[v] /\ pc'[v] = pc[v]
                /\ \A m \in Messages : ToSend(v, m)' <=> ToSend(v, m)
    BY <1>0, <1>1, ClaimGives
  <2>2. \A m \in Messages : attempt[m] + 1 \notin copies[m]
    BY <1>0 DEF CopiesClaimed
  <2> QED
    BY <1>0, <2>1, <2>2 DEF SentOnce
<1>2. CASE ~\E w \in Dispatchers : ClaimBatch(w)
  <2>1. /\ UNCHANGED <<attempt, claim>>
        /\ \A v \in Dispatchers : \A m \in Messages : ToSend(v, m)' => ToSend(v, m)
        /\ \/ UNCHANGED copies
           \/ \E w \in Dispatchers : SendCopy(w) /\ ~ToSend(w, job[w])'
    BY <1>0, <1>2, SendersFrom
  \* A refusal is decided by a dispatcher that was still to send.
  <2>2. ASSUME NEW v \in Dispatchers, NEW m \in Messages,
               job'[v] = m, pc'[v] = "outcome", plan'[v] \in {"blocked", "failed"}
        PROVE  \/ ToSend(v, m) /\ ~SendCopy(v)
               \/ job[v] = m /\ pc[v] = "outcome" /\ plan[v] \in {"blocked", "failed"}
    <3> DEFINE Was == \/ ToSend(v, m)
                      \/ job[v] = m /\ pc[v] = "outcome" /\ plan[v] \in {"blocked", "failed"}
    <3>1. ASSUME NEW w \in Dispatchers, DispatcherStep(w) \/ StopDispatcher(w)
          PROVE  Was
      <4>1. CASE SendCopy(w)
        BY <1>0, <2>2, <4>1 DEF SendCopy, Goto, LoopTypes, retryPlan
      <4>2. CASE AskGate(w) \/ SendNothing(w)
        <5>1. /\ pc[w] \in {"gate", "send"} /\ job' = job
              /\ v # w => pc'[v] = pc[v] /\ plan'[v] = plan[v]
          BY <1>0, <4>2 DEF AskGate, SendNothing, Goto, LoopTypes
        <5> QED
          BY <2>2, <5>1 DEF ToSend
      <4>3. CASE NextRow(w)
        BY <1>0, <2>2, <4>3 DEF NextRow, Goto, LoopTypes
      <4>4. CASE StopDispatcher(w)
        BY <1>0, <2>2, <4>4 DEF StopDispatcher, Goto, LoopTypes
      <4>5. CASE Done(w)
        BY <1>0, <2>2, <4>5 DEF Done, Goto, LoopTypes
      <4>6. CASE UNCHANGED <<job, plan>> /\
                 (UNCHANGED pc \/ \E where \in {"swept", "readBack", "apply"} : Goto(w, where))
        BY <1>0, <2>2, <4>6 DEF Goto, LoopTypes
      <4>7. CASE SweepStaleClaims(w) \/ StampOutcome(w) \/ MissOutcome(w)
                 \/ ReadBack(w) \/ GiveUpReadBack(w) \/ ApplyEarlyOne(w)
        BY <4>5, <4>6, <4>7 DEF SweepStaleClaims, StampOutcome, MissOutcome,
           ReadBack, GiveUpReadBack, ApplyEarlyOne
      <4> QED
        BY <1>2, <3>1, <4>1, <4>2, <4>3, <4>4, <4>7 DEF DispatcherStep
    <3>2. ASSUME NEW n \in Messages, MessageStep(n)
          PROVE  Was
      BY <2>2, <3>2 DEF MessageStep, QueueMessage, BecomeDue, LeaseEnds,
         FileLetter, ConsumeLetter, loopVars
    <3>3. SendCopy(v) => plan'[v] \in {"accepted", "dead", "queued"}
      BY <1>0 DEF SendCopy, LoopTypes, retryPlan
    <3>4. SendCopy(v) => pc[v] = "send"
      BY DEF SendCopy
    <3> QED
      BY <2>2, <3>1, <3>2, <3>3, <3>4 DEF Next
  <2>3. CASE UNCHANGED copies
    BY <1>0, <2>1, <2>2, <2>3 DEF SentOnce
  <2>4. ASSUME NEW w \in Dispatchers, SendCopy(w), ~ToSend(w, job[w])'
        PROVE  SentOnce'
    <3>1. PICK n \in Messages : n = job[w]
      BY <1>0, <2>4, BusyHasMessage DEF SendCopy
    <3>2. /\ claim[w][n] # 0
          /\ \A m \in Messages \ {n} : copies'[m] = copies[m]
          /\ copies'[n] = copies[n] \cup {claim[w][n]}
      BY <1>0, <2>4, <3>1 DEF SendCopy, SideTypes, ClaimsCounted
    <3>3. \A v \in Dispatchers : claim[v][n] = claim[w][n] => v = w
      BY <1>0, <3>1, <3>2 DEF ClaimsDistinct
    <3>4. ASSUME NEW v \in Dispatchers, NEW m \in Messages, ToSend(v, m)'
          PROVE  claim'[v][m] \notin copies'[m]
      <4>1. claim[v][m] \notin copies[m] /\ claim'[v][m] = claim[v][m]
        BY <1>0, <2>1, <3>4 DEF SentOnce
      <4>2. m = n => v # w
        BY <2>4, <3>1, <3>4 DEF SendCopy
      <4> QED
        BY <3>2, <3>3, <4>1, <4>2
    <3>5. ASSUME NEW v \in Dispatchers, NEW m \in Messages,
                 job'[v] = m, pc'[v] = "outcome", plan'[v] \in {"blocked", "failed"}
          PROVE  claim'[v][m] \notin copies'[m]
      <4>1. claim[v][m] \notin copies[m] /\ claim'[v][m] = claim[v][m]
        BY <1>0, <2>1, <2>2, <3>5 DEF SentOnce
      <4>2. v # w
        BY <2>2, <2>4, <3>5 DEF SendCopy
      <4> QED
        BY <3>2, <3>3, <4>1, <4>2
    <3> QED
      BY <3>4, <3>5 DEF SentOnce
  <2> QED
    BY <2>1, <2>3, <2>4
<1> QED
  BY <1>1, <1>2

LEMMA UnreportedStep ==
    ASSUME LedgerInv, Next
    PROVE  Unreported'
<1>0. /\ MInv /\ Single /\ ClaimsDistinct /\ ClaimsCounted /\ Unreported
      /\ LastClaimWins /\ LoopTypes /\ RowTypes
      /\ \A m \in Messages : attempt[m] \in Nat
      /\ \A v \in Dispatchers : \A m \in Messages : claim[v][m] \in Nat
  BY TypeParts DEF LedgerInv, MInv, LoopTypes, RowTypes
<1>1. ASSUME NEW w \in Dispatchers, ClaimBatch(w) PROVE Unreported'
  <2>1. PICK S \in SUBSET Messages :
          /\ status' = [m \in Messages |-> IF m \in S THEN "sending" ELSE status[m]]
          /\ attempt' = [m \in Messages |->
                            IF m \in S THEN attempt[m] + 1 ELSE attempt[m]]
          /\ \A m \in Messages : ToSend(w, m)' <=> m \in S
          /\ \A v \in Dispatchers \ {w} :
                /\ claim'[v] = claim[v]
                /\ \A m \in Messages : ToSend(v, m)' <=> ToSend(v, m)
    BY <1>0, <1>1, ClaimGives
  <2> QED
    BY <1>0, <2>1 DEF Unreported
<1>2. CASE ~\E w \in Dispatchers : ClaimBatch(w)
  <2>1. /\ UNCHANGED <<attempt, claim>>
        /\ \A v \in Dispatchers : \A m \in Messages : ToSend(v, m)' => ToSend(v, m)
    BY <1>0, <1>2, SendersFrom
  <2> SUFFICES ASSUME NEW v \in Dispatchers, NEW m \in Messages, ToSend(v, m),
                      claim[v][m] = attempt[m],
                      status'[m] \notin {"sending", "queued", "dead"}
               PROVE  FALSE
    BY <2>1 DEF Unreported
  <2>2. status[m] \in {"sending", "queued", "dead"} /\ claim[v][m] # 0
    BY <1>0 DEF Unreported, ToSend, ClaimsCounted
  <2>3. providerId[m] = 0
    BY <1>0, <2>2 DEF LastClaimWins, Accepted, RowTypes
  <2>a. ASSUME NEW n \in Messages, NEW a \in Nat \ {0}, NEW s \in ReceiptStates,
               apply_receipt(n, a, s)
        PROVE  FALSE
    BY <1>0, <2>2, <2>3, <2>a DEF apply_receipt, RowTypes
  <2>4. ASSUME NEW w \in Dispatchers, DispatcherStep(w) \/ StopDispatcher(w)
        PROVE  FALSE
    <3>1. CASE SweepStaleClaims(w)
      BY <2>2, <3>1 DEF SweepStaleClaims, sweptTo
    <3>2. CASE StampOutcome(w)
      <4>1. job[w] \in Messages /\ claim[w][job[w]] = attempt[job[w]]
            /\ pc[w] = "outcome"
        BY <1>0, <3>2, BusyHasMessage DEF StampOutcome, ourClaim
      <4>2. job[w] = m
        BY <1>0, <2>2, <3>2, <4>1 DEF StampOutcome, RowTypes
      <4>3. v = w
        BY <1>0, <2>2, <4>1, <4>2 DEF ClaimsDistinct
      <4> QED
        BY <1>0, <4>1, <4>2, <4>3 DEF ToSend, Single
    <3>3. CASE ApplyEarlyOne(w)
      <4>1. /\ job[w] \in Messages /\ earlyOnes[w] \subseteq ReceiptStates
            /\ claim[w][job[w]] \in Nat \ {0}
        BY <1>0, <3>3, BusyHasMessage DEF ApplyEarlyOne, LoopTypes, ClaimsCounted
      <4> QED
        BY <2>a, <3>3, <4>1 DEF ApplyEarlyOne
    <3>4. CASE UNCHANGED status
      BY <2>2, <3>4
    <3> QED
      BY <1>2, <2>4, <3>1, <3>2, <3>3, <3>4
      DEF DispatcherStep, NextRow, AskGate, SendCopy, SendNothing, MissOutcome,
          ReadBack, GiveUpReadBack, StopDispatcher, rowVars
  <2>5. ASSUME NEW n \in Messages, MessageStep(n) PROVE FALSE
    <3>1. CASE QueueMessage(n) \/ BecomeDue(n) \/ LeaseEnds(n)
      BY <1>0, <2>2, <3>1 DEF QueueMessage, BecomeDue, LeaseEnds, RowTypes
    <3>2. ASSUME NEW a \in 1..MaxAttempts, NEW s \in ReceiptStates,
                 FileLetter(n, a, s) \/ ConsumeLetter(n, a, s)
          PROVE  FALSE
      <4>1. a \in Nat \ {0}
        BY LimitsAssumption
      <4> QED
        BY <2>a, <2>2, <3>2, <4>1 DEF FileLetter, ConsumeLetter, rowVars
    <3> QED
      BY <2>5, <3>1, <3>2 DEF MessageStep
  <2> QED
    BY <2>4, <2>5 DEF Next
<1> QED
  BY <1>1, <1>2

LEMMA LedgerInvStep == LedgerInv /\ [Next]_vars => LedgerInv'
<1> SUFFICES ASSUME LedgerInv, [Next]_vars PROVE LedgerInv'
  OBVIOUS
<1>1. MInv'
  BY MInvStep DEF LedgerInv
<1>2. CASE Next
  BY <1>1, <1>2, SingleStep, ClaimsDistinctStep, SentOnceStep, UnreportedStep
  DEF LedgerInv
<1>3. CASE UNCHANGED vars
  BY <1>1, <1>3 DEF LedgerInv, Single, ClaimsDistinct, SentOnce, Unreported,
     ToSend, vars, rowVars, loopVars, spineVars, ghostVars
<1> QED
  BY <1>2, <1>3

\* A receipt lets the row it names climb, or fail before delivery.
LEMMA ReceiptClimbs ==
    ASSUME MInv, NEW m \in Messages, NEW a \in Nat \ {0},
           NEW s \in ReceiptStates, apply_receipt(m, a, s),
           UNCHANGED <<attempt, copies, providerId>>
    PROVE  \/ Ledger!Fail(m) \/ \E t \in DOMAIN Ledger!Rung : Ledger!Climb(m, t)
           \/ UNCHANGED status
<1>0. RowTypes /\ LastClaimWins
  BY TypeParts DEF MInv
<1>1. CASE providerId[m] # a
  BY <1>1 DEF apply_receipt
<1>2. CASE providerId[m] = a
  <2>1. /\ status[m] \in Accepted \cup {"failed"}
        /\ status' = [status EXCEPT ![m] =
                IF fails(m, s) THEN "failed"
                ELSE IF s # "failed" /\ climbs(m, s) THEN s ELSE @]
    BY <1>0, <1>2 DEF apply_receipt, LastClaimWins
  <2>2. CASE fails(m, s)
    BY <1>2, <2>1, <2>2 DEF fails, Ledger!Fail
  <2>3. CASE ~fails(m, s) /\ s # "failed" /\ climbs(m, s)
    <3>1. /\ s \in {"sent", "delivered", "read"} /\ Rank[status[m]] < Rank[s]
          /\ status[m] \in Accepted
      BY <2>1, <2>3, RanksAre DEF climbs, ReceiptStates, Accepted
    <3>2. /\ DOMAIN Ledger!Rung = Accepted
          /\ \A t \in Accepted : Ledger!Rung[t] = Rank[t]
      BY RanksAre DEF Ledger!Rung, Accepted
    <3>3. s \in Accepted
      BY <3>1 DEF Accepted
    <3>4. status' = [status EXCEPT ![m] = s]
      BY <2>1, <2>3
    <3>5. Ledger!Climb(m, s)
      BY <1>2, <3>1, <3>2, <3>3, <3>4 DEF Ledger!Climb
    <3> QED
      BY <3>2, <3>3, <3>5
  <2>4. CASE ~fails(m, s) /\ ~(s # "failed" /\ climbs(m, s))
    BY <1>0, <2>1, <2>4 DEF RowTypes
  <2> QED
    BY <2>2, <2>3, <2>4
<1> QED
  BY <1>1, <1>2

\* A sweep ends the leases of the rows it finds stale.
LEMMA SweepExpires ==
    ASSUME MInv, NEW w \in Dispatchers, SweepStaleClaims(w)
    PROVE  \E S \in SUBSET Messages : Ledger!Expire(S)
<1>0. RowTypes /\ AttemptLeft
  BY TypeParts DEF MInv
<1>1. \A m \in Messages : sweptTo(m) = Ledger!Requeued(m)
  BY <1>0, LimitsAssumption DEF sweptTo, Ledger!Requeued, RowTypes
<1>2. Ledger!Expire({m \in Messages : isStale(m)})
  BY <1>1 DEF SweepStaleClaims, isStale, Ledger!Expire, ghostVars
<1> QED
  BY <1>2

LEMMA BatchClaims ==
    ASSUME MInv, NEW w \in Dispatchers, ClaimBatch(w)
    PROVE  \E S \in SUBSET Messages : Ledger!Claim(S)
<1>1. PICK S \in SUBSET Messages :
        /\ \A m \in S : status[m] = "queued" /\ attempt[m] < MaxAttempts
        /\ status' = [m \in Messages |-> IF m \in S THEN "sending" ELSE status[m]]
        /\ attempt' = [m \in Messages |->
                          IF m \in S THEN attempt[m] + 1 ELSE attempt[m]]
        /\ UNCHANGED <<copies, providerId>>
  BY ClaimGives
<1>2. Ledger!Claim(S)
  BY <1>1 DEF Ledger!Claim
<1> QED
  BY <1>2

LEMMA CopySends ==
    ASSUME LedgerInv, NEW w \in Dispatchers, SendCopy(w)
    PROVE  \E m \in Messages : \E a \in 1..attempt[m] : Ledger!Send(m, a)
<1>0. /\ LoopTypes /\ RowTypes /\ ClaimsCounted /\ SentOnce /\ Unreported
  BY TypeParts DEF LedgerInv, MInv
<1>1. job[w] \in Messages /\ claim[w][job[w]] \in Nat
  BY <1>0, BusyHasMessage DEF SendCopy
<1>2. ToSend(w, job[w])
  BY DEF SendCopy, ToSend
<1>3. /\ claim[w][job[w]] \in (1..attempt[job[w]]) \ copies[job[w]]
      /\ claim[w][job[w]] = attempt[job[w]] =>
            status[job[w]] \in {"sending", "queued", "dead"}
  BY <1>0, <1>1, <1>2 DEF ClaimsCounted, SentOnce, Unreported, RowTypes
<1>4. Ledger!Send(job[w], claim[w][job[w]])
  BY <1>3 DEF SendCopy, Ledger!Send, rowVars
<1> QED
  BY <1>1, <1>3, <1>4

\* The outcome that lands is the last claim's: accepted, refused, or given back.
LEMMA StampReports ==
    ASSUME LedgerInv, NEW w \in Dispatchers, StampOutcome(w)
    PROVE  Ledger!Next
<1>0. /\ LoopTypes /\ RowTypes /\ ClaimsCounted /\ SentOnce /\ PlanFits
      /\ AttemptLeft /\ LastClaimWins
  BY TypeParts DEF LedgerInv, MInv
<1>1. PICK m \in Messages : m = job[w]
  BY <1>0, BusyHasMessage DEF StampOutcome
<1>2. /\ pc[w] = "outcome" /\ status[m] = "sending" /\ claim[w][m] = attempt[m]
      /\ plan[w] \in Plans
      /\ status' = [status EXCEPT ![m] = plan[w]]
      /\ UNCHANGED <<attempt, copies>>
  BY <1>0, <1>1 DEF StampOutcome, ourClaim, PlanFits, ghostVars
<1>3. PICK id \in IF plan[w] = "accepted" THEN {0, claim[w][m]} ELSE {0} :
        providerId' = [providerId EXCEPT ![m] = IF id = 0 THEN @ ELSE id]
  BY <1>1 DEF StampOutcome
<1>4. providerId[m] = 0 /\ attempt[m] \in Nat /\ 1 <= attempt[m]
  BY <1>0, <1>1, <1>2 DEF RowTypes, LastClaimWins, ClaimsCounted, Accepted
<1>5. CASE plan[w] = "accepted"
  <2>1. attempt[m] \in copies[m] /\ id \in {0, attempt[m]}
    BY <1>0, <1>1, <1>2, <1>3, <1>5 DEF PlanFits
  <2>2. providerId' = [providerId EXCEPT ![m] = id]
    BY <1>0, <1>3, <1>4 DEF RowTypes
  <2>3. Ledger!Accept(m, id)
    BY <1>2, <1>5, <2>1, <2>2 DEF Ledger!Accept
  <2>4. id = 0 \/ id \in 1..attempt[m]
    BY <1>4, <2>1
  <2> QED
    BY <2>3, <2>4 DEF Ledger!Next, Ledger!MessageStep
<1>6. CASE plan[w] # "accepted"
  <2>1. UNCHANGED providerId
    BY <1>0, <1>3, <1>6 DEF RowTypes
  <2>2. CASE plan[w] \in {"blocked", "failed"}
    <3>1. attempt[m] \notin copies[m]
      BY <1>0, <1>1, <1>2, <2>2 DEF SentOnce
    <3>2. Ledger!Refuse(m, plan[w])
      BY <1>2, <2>1, <2>2, <3>1 DEF Ledger!Refuse
    <3> QED
      BY <2>2, <3>2 DEF Ledger!Next, Ledger!MessageStep
  <2>3. CASE plan[w] \in {"queued", "dead"}
    <3>1. plan[w] = Ledger!Requeued(m)
      BY <1>0, <1>1, <1>2, <1>4, <2>3, LimitsAssumption DEF PlanFits, AttemptLeft, Ledger!Requeued
    <3>2. status' = [n \in Messages |-> IF n \in {m} THEN Ledger!Requeued(n) ELSE status[n]]
      BY <1>0, <1>2, <3>1 DEF RowTypes
    <3>3. Ledger!Expire({m})
      BY <1>2, <2>1, <3>2 DEF Ledger!Expire
    <3> QED
      BY <3>3 DEF Ledger!Next
  <2> QED
    BY <1>2, <1>6, <2>2, <2>3 DEF Plans
<1> QED
  BY <1>5, <1>6

LEMMA LedgerInitial == Init => Ledger!Init
  BY DEF Init, Ledger!Init

LEMMA LedgerStep ==
    ASSUME LedgerInv, [Next]_vars
    PROVE  Ledger!Next \/ UNCHANGED <<status, attempt, copies, providerId>>
<1> DEFINE Goal == Ledger!Next \/ UNCHANGED <<status, attempt, copies, providerId>>
<1>0. MInv /\ LoopTypes /\ RowTypes /\ ClaimsCounted
  BY TypeParts DEF LedgerInv, MInv
<1>r. ASSUME NEW m \in Messages, NEW a \in Nat \ {0}, NEW s \in ReceiptStates,
             apply_receipt(m, a, s), UNCHANGED <<attempt, copies, providerId>>
      PROVE  Goal
  BY <1>0, <1>r, ReceiptClimbs DEF Ledger!Next, Ledger!MessageStep
<1>1. ASSUME NEW w \in Dispatchers, DispatcherStep(w) \/ StopDispatcher(w) PROVE Goal
  <2>1. CASE SweepStaleClaims(w)
    BY <1>0, <2>1, SweepExpires DEF Ledger!Next
  <2>2. CASE ClaimBatch(w)
    BY <1>0, <2>2, BatchClaims DEF Ledger!Next
  <2>3. CASE SendCopy(w)
    BY <2>3, CopySends DEF Ledger!Next, Ledger!MessageStep
  <2>4. CASE StampOutcome(w)
    BY <2>4, StampReports
  <2>5. CASE ApplyEarlyOne(w)
    <3>1. /\ job[w] \in Messages /\ earlyOnes[w] \subseteq ReceiptStates
          /\ claim[w][job[w]] \in Nat \ {0}
      BY <1>0, <2>5, BusyHasMessage DEF ApplyEarlyOne, LoopTypes, ClaimsCounted
    <3> QED
      BY <1>r, <2>5, <3>1 DEF ApplyEarlyOne, ghostVars
  <2>6. CASE UNCHANGED <<status, attempt, copies, providerId>>
    BY <2>6
  <2> QED
    BY <1>1, <2>1, <2>2, <2>3, <2>4, <2>5, <2>6
    DEF DispatcherStep, NextRow, AskGate, SendNothing, MissOutcome, ReadBack,
        GiveUpReadBack, StopDispatcher, rowVars, ghostVars
<1>2. ASSUME NEW m \in Messages, MessageStep(m) PROVE Goal
  <2>1. CASE QueueMessage(m)
    BY <2>1 DEF QueueMessage, Ledger!Queue, Ledger!MessageStep, Ledger!Next, ghostVars
  <2>2. CASE BecomeDue(m) \/ LeaseEnds(m)
    BY <2>2 DEF BecomeDue, LeaseEnds, ghostVars
  <2>3. ASSUME NEW a \in 1..MaxAttempts, NEW s \in ReceiptStates,
               FileLetter(m, a, s) \/ ConsumeLetter(m, a, s)
        PROVE  Goal
    <3>1. a \in Nat \ {0}
      BY LimitsAssumption
    <3> QED
      BY <1>r, <2>3, <3>1 DEF FileLetter, ConsumeLetter, rowVars, ghostVars
  <2> QED
    BY <1>2, <2>1, <2>2, <2>3 DEF MessageStep
<1>3. CASE UNCHANGED vars
  BY <1>3 DEF vars, rowVars, ghostVars
<1> QED
  BY <1>1, <1>2, <1>3 DEF Next

\* Leases, batches, sweeps, read-backs and dying dispatchers are invisible: a
\* claim sends one copy at most, none after its report, and the last claim alone
\* reports.
THEOREM ManifestIsLedger == Spec => ImplementsLedger
<1>1. LedgerInv /\ [Next]_vars =>
        [Ledger!Next]_<<status, attempt, copies, providerId>>
  BY LedgerStep
<1>2. Spec => []LedgerInv
  BY LedgerInvInit, LedgerInvStep, PTL DEF Spec
<1> QED
  BY <1>1, <1>2, LedgerInitial, PTL DEF Spec, ImplementsLedger, Ledger!Spec
==============================================================================
