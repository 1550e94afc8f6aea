----------------------------- MODULE ChatSession -----------------------------
(***************************************************************************)
(* One chat session of Breeze Buddy: the Redis lock that every turn takes, *)
(* the approvals a turn leaves behind when the model asks for a gated      *)
(* tool, the person's decisions on them, the end of the session, and the   *)
(* voice bot that may be attached to it.                                   *)
(*                                                                         *)
(* A task is an HTTP request (or the idle sweeper's visit) or a voice bot. *)
(* A request's channel pre-check is made before the lock and not repeated  *)
(* under it; the session starts on CHAT, so a request that passed it may   *)
(* reach the lock on either channel, and the pre-check is no guard here.   *)
(* Every attachment of a session reuses one voice lead, so the lead in     *)
(* flip_chat_session_to_chat's WHERE clause always matches.  The text of a *)
(* turn, its ungated tools, their results and agent_state are left out.    *)
(***************************************************************************)
EXTENDS Naturals, FiniteSets

CONSTANTS
    Requests,      \* HTTP requests and sweeper visits under way at once
    Bots,          \* Daily voice bots, each started at most once at a time
    Calls,         \* gated tool calls the model may make (tool_call_id)
    NoTask, NoCall,
    MaxTroubles    \* bound: locks that expire under a live holder, pods that die
                   \*        and calls to the database or Redis that fail

Tasks == Requests \cup Bots

ASSUME TasksAssumption ==
    Requests \cap Bots = {} /\ NoTask \notin Tasks /\ NoCall \notin Calls
ASSUME TroublesAssumption == MaxTroubles \in Nat

ApprovalStatuses ==
    {"NONE", "PENDING", "APPROVED", "DENIED", "EXPIRED", "SUPERSEDED"}
Turns == {"message", "aside", "intent"}
Ops == Turns \cup {"approve", "end", "sweep", "connect", "detach"}
Words == {"yes", "no", "late"}

VARIABLES
    session,    \* chat_session.status
    channel,    \* chat_session.current_channel
    lock,       \* chat:session:{id}:lock, named by the task whose token it holds
    status,     \* tool_approvals.status of each call
    overdue,    \* pending calls past their expires_at
    answers,    \* call -> tool_result rows in chat_message
    pc, job,    \* each task, and what it holds in memory
    adrift,     \* calls whose result row a shielded write is still inserting
    asked,      \* history: calls the model has made
    ran,        \* history: call -> executions of its tool
    unsure,     \* history: calls whose insert landed and was reported failed
    attached,   \* history: the bot of the newest attachment nobody has ended
    outlived,   \* history: that attachment began while an older bot was on
    overruns, crashes, faults

approvals == <<status, overdue>>
history == <<answers, adrift, unsure>>
voice == <<channel, attached, outlived>>
budgets == <<overruns, crashes, faults>>
vars == <<session, lock, approvals, history, asked, ran, voice, pc, job, budgets>>

NoJob == [op |-> "message", call |-> NoCall, word |-> "no", calls |-> {}]

Pending == {c \in Calls : status[c] = "PENDING"}
Room == overruns + crashes + faults < MaxTroubles
Fault == Room /\ faults' = faults + 1 /\ UNCHANGED <<overruns, crashes>>
Go(t, where) == pc' = [pc EXCEPT ![t] = where]
At(t, where) == pc[t] = where
Note(t, field) == job' = [job EXCEPT ![t] = field]

\* A step of t from one place to another that keeps what it remembers.
Walk(t, from, to) == At(t, from) /\ Go(t, to) /\ UNCHANGED job

-----------------------------------------------------------------------------
(* The session lock.                                                       *)

\* Mutants of the next definitions.
Take_SweepBarges(t, op) ==
    /\ lock = NoTask \/ op = "sweep"
    /\ lock' = IF lock = NoTask THEN t ELSE lock
Take_DetachBarges(t, op) ==
    /\ lock = NoTask \/ op = "detach"
    /\ lock' = IF lock = NoTask THEN t ELSE lock

\* SET key token NX EX ttl.  A task that finds the lock taken is answered 409
\* (the sweeper and the voice bridge skip), which changes nothing.
Take(t, op) == lock = NoTask /\ lock' = t

\* What a task reads first under the lock.  The voice bridge's decision goes
\* straight to the claim.
first(t, op) ==
    CASE op \in {"end", "sweep"} -> "end"
      [] op = "approve" /\ t \in Bots -> "look"
      [] OTHER -> "check"

Acquire(t) ==
    /\ At(t, "idle")
    /\ \E op \in IF t \in Bots THEN {"message", "approve"} ELSE Ops,
          c \in Calls \cup {NoCall}, word \in {"yes", "no"} :
        /\ op = "approve" <=> c # NoCall
        /\ c # NoCall => c \in asked
        /\ c = NoCall => word = "no"
        /\ Take(t, op)
        /\ Go(t, first(t, op))
        /\ Note(t, [NoJob EXCEPT !.op = op, !.call = c, !.word = word])
    /\ UNCHANGED <<session, approvals, history, asked, ran, voice, budgets>>

\* Compare-and-delete: a holder whose lock expired deletes nobody else's.
Leave(t) ==
    /\ At(t, "leave")
    /\ lock' = IF lock = t THEN NoTask ELSE lock
    /\ Go(t, "idle") /\ Note(t, NoJob)
    /\ UNCHANGED <<session, approvals, history, asked, ran, voice, budgets>>

\* The TTL runs out: of a holder that is gone, or, an overrun, of one at work.
LockExpires ==
    /\ lock # NoTask /\ lock' = NoTask
    /\ IF pc[lock] \in {"idle", "off"} THEN UNCHANGED budgets
       ELSE /\ Room /\ overruns' = overruns + 1
            /\ UNCHANGED <<crashes, faults>>
    /\ UNCHANGED <<session, approvals, history, asked, ran, voice, pc, job>>

-----------------------------------------------------------------------------
(* A turn.                                                                 *)

\* The session row, read under the lock: an ended session refuses a turn, a
\* decision and a voice attachment, a voice attachment a session on VOICE.
Check(t) ==
    /\ At(t, "check")
    /\ LET op == job[t].op IN
       Go(t, IF op # "detach" /\ session = "ENDED" THEN "leave"
             ELSE CASE op = "message" -> "supersede"
                    [] op \in {"aside", "intent"} -> "say"
                    [] op = "approve" -> "look"
                    [] op = "connect" -> IF channel = "CHAT" THEN "attach" ELSE "leave"
                    [] op = "detach" -> IF channel = "VOICE" THEN "detach" ELSE "leave")
    /\ UNCHANGED <<session, lock, approvals, history, asked, ran, voice, job, budgets>>

\* UPDATE tool_approvals SET status .. WHERE status = 'PENDING' [AND overdue].
claim_pending(t, claimed, verdict, otherwise) ==
    /\ status' = [c \in Calls |-> IF c \in claimed THEN verdict ELSE status[c]]
    /\ overdue' = overdue \ claimed
    /\ Go(t, IF claimed = {} THEN otherwise ELSE "fill")
    /\ Note(t, [job[t] EXCEPT !.calls = claimed])
    /\ UNCHANGED <<session, lock, history, asked, ran, voice, budgets>>

\* Where a task goes on after the claimed calls have their synthetic answer.
filled(t) ==
    CASE job[t].op = "message" -> "say"
      [] job[t].op = "approve" -> "siblings"
      [] OTHER -> "leave"

Supersede(t) ==
    At(t, "supersede") /\ claim_pending(t, Pending, "SUPERSEDED", filled(t))

\* One user row answers the claimed calls.
answer(cs) ==
    answers' = [c \in Calls |-> answers[c] + IF c \in cs THEN 1 ELSE 0]
Fill(t) ==
    /\ At(t, "fill")
    /\ answer(job[t].calls)
    /\ Go(t, filled(t)) /\ Note(t, [job[t] EXCEPT !.calls = {}])
    /\ UNCHANGED <<session, lock, approvals, adrift, unsure, asked, ran, voice, budgets>>

\* The user's row; a merchant without credit gets no further.
Say(t) ==
    /\ At(t, "say")
    /\ Go(t, "think") \/ (job[t].op = "message" /\ Go(t, "leave"))
    /\ UNCHANGED <<session, lock, approvals, history, asked, ran, voice, job, budgets>>

\* The model's last row of the turn.
Reply(t) ==
    /\ Walk(t, "think", "leave")
    /\ UNCHANGED <<session, lock, approvals, history, asked, ran, voice, budgets>>

\* The model's row with gated calls in it; a direct intent asks no model.
Ask(t) ==
    /\ At(t, "think") /\ job[t].op # "intent"
    /\ \E cs \in SUBSET (Calls \ asked) \ {{}} :
        /\ asked' = asked \cup cs
        /\ Note(t, [job[t] EXCEPT !.calls = cs])
    /\ Go(t, "request")
    /\ UNCHANGED <<session, lock, approvals, history, ran, voice, budgets>>

\* Each gated call gets its PENDING row; the turn ends with the last.
Request(t) ==
    /\ At(t, "request")
    /\ \E c \in job[t].calls :
        /\ status' = [status EXCEPT ![c] = "PENDING"]
        /\ Note(t, [job[t] EXCEPT !.calls = @ \ {c}])
        /\ Go(t, IF job[t].calls = {c} THEN "leave" ELSE "request")
    /\ UNCHANGED <<session, lock, overdue, history, asked, ran, voice, budgets>>

-----------------------------------------------------------------------------
(* A decision on an approval.                                              *)

verdict(word) ==
    CASE word = "yes" -> "APPROVED" [] word = "no" -> "DENIED" [] OTHER -> "EXPIRED"

\* Mutants of the next definitions.
Decide_Unclaimed(t) ==
    /\ At(t, "decide")
    /\ LET word == job[t].word IN
        /\ status' = [status EXCEPT ![job[t].call] = verdict(word)]
        /\ overdue' = overdue \ {job[t].call}
        /\ Go(t, IF word = "yes" THEN "expire" ELSE "refuse")
    /\ UNCHANGED <<session, lock, history, asked, ran, voice, job, budgets>>
undecided_Unexpired == Pending \ overdue

Look(t) ==
    /\ At(t, "look")
    /\ LET c == job[t].call IN
        /\ Go(t, IF status[c] = "PENDING" THEN "decide" ELSE "leave")
        /\ Note(t, [job[t] EXCEPT !.word = IF c \in overdue THEN "late" ELSE @])
    /\ UNCHANGED <<session, lock, approvals, history, asked, ran, voice, budgets>>

\* UPDATE .. SET status = verdict WHERE status = 'PENDING': one of two wins.
Decide(t) ==
    /\ At(t, "decide")
    /\ LET c == job[t].call  word == job[t].word IN
       IF status[c] # "PENDING" THEN Go(t, "leave") /\ UNCHANGED approvals
       ELSE /\ status' = [status EXCEPT ![c] = verdict(word)]
            /\ overdue' = overdue \ {c}
            /\ Go(t, IF word = "yes" THEN "expire" ELSE "refuse")
    /\ UNCHANGED <<session, lock, history, asked, ran, voice, job, budgets>>

\* The answer of a call that will not run.
Refuse(t) ==
    /\ Walk(t, "refuse", "expire")
    /\ answer({job[t].call})
    /\ UNCHANGED <<session, lock, approvals, adrift, unsure, asked, ran, voice, budgets>>

Expire(t) ==
    /\ At(t, "expire")
    /\ claim_pending(t, Pending \cap overdue, "EXPIRED", filled(t))

\* Every undecided call, the ones that expired since the last step included.
undecided == Pending
Siblings(t) ==
    /\ At(t, "siblings")
    /\ Go(t, "resume") /\ Note(t, [job[t] EXCEPT !.calls = undecided])
    /\ UNCHANGED <<session, lock, approvals, history, asked, ran, voice, budgets>>

\* The model goes on when no sibling still waits for its decision.
after(t) == IF job[t].calls = {} THEN "think" ELSE "leave"

Resume(t) ==
    /\ At(t, "resume")
    /\ Go(t, IF session = "ENDED" THEN "leave"
             ELSE IF job[t].word = "yes" THEN "run" ELSE after(t))
    /\ UNCHANGED <<session, lock, approvals, history, asked, ran, voice, job, budgets>>

\* The tool runs, with the arguments the person approved.
Run(t) ==
    /\ Walk(t, "run", "note")
    /\ ran' = [ran EXCEPT ![job[t].call] = @ + 1]
    /\ UNCHANGED <<session, lock, approvals, history, asked, voice, budgets>>

\* Its result row.
Record(t) ==
    /\ At(t, "note") /\ Go(t, after(t)) /\ UNCHANGED job
    /\ answer({job[t].call})
    /\ UNCHANGED <<session, lock, approvals, adrift, unsure, asked, ran, voice, budgets>>

-----------------------------------------------------------------------------
(* Stop, a client that disconnects, a barge-in: CancelledError in a turn.  *)

\* The places where a cancel finds the task: a request's stream, and all of a
\* bot's turn.  A request's claim is made before its stream opens.
streaming(t) ==
    IF t \in Bots THEN pc[t] \notin {"idle", "off", "leave", "run", "note", "broken"}
    ELSE \/ job[t].op \in Turns /\ pc[t] \in {"supersede", "fill", "say"}
         \/ pc[t] \in {"resume", "think", "request"}

Interrupt(t) ==
    /\ streaming(t) /\ Go(t, "leave")
    /\ UNCHANGED <<session, lock, approvals, history, asked, ran, voice, job, budgets>>

\* In the tool, whose effect may have happened.
InterruptRun(t) ==
    /\ Walk(t, "run", "broken")
    /\ \E times \in 0 .. 1 : ran' = [ran EXCEPT ![job[t].call] = @ + times]
    /\ UNCHANGED <<session, lock, approvals, history, asked, voice, budgets>>

\* Mutants of the next definitions.
InterruptNote_Leaves(t) ==
    /\ Walk(t, "note", "leave")
    /\ UNCHANGED <<session, lock, approvals, history, asked, ran, voice, budgets>>
InterruptNote_Rewrites(t) ==
    /\ Walk(t, "note", "broken")
    /\ answer({job[t].call})
    /\ UNCHANGED <<session, lock, approvals, adrift, unsure, asked, ran, voice, budgets>>

\* In the insert of the result: the turn waits for it, unless a second cancel
\* sends it home while the shielded insert goes on, and writes an error row in
\* its place when it fails, whether or not it had landed.
InterruptNote(t) ==
    LET c == job[t].call IN
    /\ \/ /\ Walk(t, "note", "leave") /\ answer({c})
          /\ UNCHANGED <<adrift, unsure, budgets>>
       \/ /\ Walk(t, "note", "leave") /\ adrift' = adrift \cup {c}
          /\ UNCHANGED <<answers, unsure, budgets>>
       \/ /\ Walk(t, "note", "broken") /\ Fault /\ UNCHANGED history
       \/ /\ Walk(t, "note", "broken") /\ Fault
          /\ answer({c}) /\ unsure' = unsure \cup {c} /\ UNCHANGED adrift
    /\ UNCHANGED <<session, lock, approvals, asked, ran, voice>>

\* The error row of an interrupted execution, under a shield of its own.
Excuse(t) ==
    LET c == job[t].call IN
    /\ Walk(t, "broken", "leave")
    /\ \/ answer({c}) /\ UNCHANGED adrift
       \/ adrift' = adrift \cup {c} /\ UNCHANGED answers
    /\ UNCHANGED <<session, lock, approvals, unsure, asked, ran, voice, budgets>>

Land(c) ==
    /\ c \in adrift /\ adrift' = adrift \ {c}
    /\ \/ answer({c}) /\ UNCHANGED budgets
       \/ Fault /\ UNCHANGED answers
    /\ UNCHANGED <<session, lock, approvals, unsure, asked, ran, voice, pc, job>>

-----------------------------------------------------------------------------
(* The end of the session.                                                 *)

\* UPDATE .. SET status = 'ENDED' WHERE status <> 'ENDED', by POST /end and by
\* the sweeper, whose list of idle sessions may be older than the last turn.
\* The sweeper alone goes on to the approvals.
End(t) ==
    /\ At(t, "end")
    /\ session' = "ENDED"
    /\ Go(t, IF job[t].op = "sweep" THEN "terminate" ELSE "leave")
    /\ UNCHANGED <<lock, approvals, history, asked, ran, voice, job, budgets>>

Terminate(t) == At(t, "terminate") /\ claim_pending(t, Pending, "EXPIRED", filled(t))

-----------------------------------------------------------------------------
(* The voice attachment.                                                   *)

on(b) == pc[b] # "off"
to_chat == channel' = IF channel = "VOICE" THEN "CHAT" ELSE channel

\* /voice/connect: the row goes CHAT -> VOICE ..
Attach(t) ==
    /\ At(t, "attach")
    /\ IF channel = "VOICE" THEN Go(t, "leave") /\ UNCHANGED voice
       ELSE /\ Go(t, "start") /\ channel' = "VOICE"
            /\ attached' = NoTask /\ outlived' = \E b \in Bots : on(b)
    /\ UNCHANGED <<session, lock, approvals, history, asked, ran, job, budgets>>

\* .. and the Daily room is started; if that fails the row goes back.
Start(t) ==
    /\ At(t, "start")
    /\ \/ \E b \in Bots :
            /\ ~on(b)
            /\ pc' = [pc EXCEPT ![t] = "leave", ![b] = "idle"]
            /\ attached' = b /\ UNCHANGED channel
       \/ Go(t, "leave") /\ to_chat /\ UNCHANGED attached
    /\ UNCHANGED <<session, lock, approvals, history, asked, ran, outlived, job,
                   budgets>>

\* /voice/end: the lead is written finished, which tells the bot nothing.
Detach(t) ==
    /\ Walk(t, "detach", "leave")
    /\ to_chat /\ attached' = NoTask /\ outlived' = FALSE
    /\ UNCHANGED <<session, lock, approvals, history, asked, ran, budgets>>

\* The call ends; the bot, its turn drained, flips the channel without the lock.
HangUp(b) ==
    /\ b \in Bots /\ At(b, "idle") /\ Go(b, "off")
    /\ \/ to_chat /\ UNCHANGED budgets
       \/ Fault /\ UNCHANGED channel
    /\ attached' = IF attached = b THEN NoTask ELSE attached
    /\ outlived' = (outlived /\ attached # b)
    /\ UNCHANGED <<session, lock, approvals, history, asked, ran, job>>

-----------------------------------------------------------------------------
(* Time and faults.                                                        *)

BecomeOverdue(c) ==
    /\ c \in Pending \ overdue /\ overdue' = overdue \cup {c}
    /\ UNCHANGED <<session, lock, status, history, asked, ran, voice, pc, job, budgets>>

\* A call to the database or Redis fails before it takes effect (one that fails
\* after it is the step itself and then this one).  The finally block lets go
\* of the lock, unless that is the call that failed.
Fail(t) ==
    /\ Fault
    /\ \/ pc[t] \notin {"idle", "off", "leave"} /\ Go(t, "leave") /\ UNCHANGED job
       \/ At(t, "leave") /\ Go(t, "idle") /\ Note(t, NoJob)
    /\ UNCHANGED <<session, lock, approvals, history, asked, ran, voice>>

\* A pod dies with what its tasks held; nobody releases their locks.
Crash(t) ==
    /\ pc[t] # IF t \in Bots THEN "off" ELSE "idle"
    /\ Room /\ crashes' = crashes + 1
    /\ Go(t, IF t \in Bots THEN "off" ELSE "idle") /\ Note(t, NoJob)
    /\ \E lost \in {{}, adrift} : adrift' = adrift \ lost
    /\ attached' = IF attached = t THEN NoTask ELSE attached
    /\ outlived' = (outlived /\ attached # t)
    /\ UNCHANGED <<session, channel, lock, approvals, answers, unsure, asked,
                   ran, overruns, faults>>

-----------------------------------------------------------------------------
Init ==
    /\ session = "ACTIVE" /\ channel = "CHAT" /\ lock = NoTask
    /\ status = [c \in Calls |-> "NONE"] /\ overdue = {}
    /\ answers = [c \in Calls |-> 0] /\ adrift = {} /\ unsure = {}
    /\ asked = {} /\ ran = [c \in Calls |-> 0]
    /\ attached = NoTask /\ outlived = FALSE
    /\ pc = [t \in Tasks |-> IF t \in Bots THEN "off" ELSE "idle"]
    /\ job = [t \in Tasks |-> NoJob]
    /\ overruns = 0 /\ crashes = 0 /\ faults = 0

Turn(t) == Supersede(t) \/ Fill(t) \/ Say(t) \/ Reply(t) \/ Ask(t) \/ Request(t)
Decision(t) ==
    \/ Look(t) \/ Decide(t) \/ Refuse(t) \/ Expire(t) \/ Siblings(t)
    \/ Resume(t) \/ Run(t) \/ Record(t)
Cancel(t) == Interrupt(t) \/ InterruptRun(t) \/ InterruptNote(t) \/ Excuse(t)
Ending(t) == End(t) \/ Terminate(t)
Voice(t) == Attach(t) \/ Start(t) \/ Detach(t) \/ HangUp(t)

Next ==
    \/ \E t \in Tasks :
        \/ Acquire(t) \/ Check(t) \/ Leave(t)
        \/ Turn(t) \/ Decision(t) \/ Cancel(t) \/ Ending(t) \/ Voice(t)
        \/ Fail(t) \/ Crash(t)
    \/ \E c \in Calls : BecomeOverdue(c) \/ Land(c)
    \/ LockExpires

Spec == Init /\ [][Next]_vars
=============================================================================
