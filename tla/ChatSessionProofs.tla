--------------------------- MODULE ChatSessionProofs ---------------------------
(***************************************************************************)
(* What TLAPS proves of ChatSession, for any requests, bots and calls and   *)
(* any number of troubles.                                                 *)
(***************************************************************************)
EXTENDS ChatSessionProps, TLAPS

-----------------------------------------------------------------------------
(* The shape of the variables.                                             *)

RowTypes ==
    /\ session \in {"ACTIVE", "ENDED"} /\ channel \in {"CHAT", "VOICE"}
    /\ lock \in Tasks \cup {NoTask}
    /\ status \in [Calls -> ApprovalStatuses] /\ overdue \subseteq Calls
    /\ answers \in [Calls -> Nat] /\ ran \in [Calls -> Nat]
    /\ adrift \subseteq Calls /\ unsure \subseteq Calls /\ asked \subseteq Calls
    /\ attached \in Bots \cup {NoTask} /\ outlived \in BOOLEAN
    /\ overruns \in Nat /\ crashes \in Nat /\ faults \in Nat
TaskTypes == pc \in [Tasks -> PCs] /\ job \in [Tasks -> Jobs]

\* What brought a task to where it is.
Shape ==
    \A t \in Tasks :
        /\ pc[t] = "check" => job[t].op \notin {"end", "sweep"}
        /\ job[t].op = "approve" => job[t].call \in Calls
        /\ pc[t] \in {"look", "decide", "refuse", "expire", "siblings", "resume",
                      "run", "note", "broken"} => job[t].op = "approve"
        /\ pc[t] \in {"run", "note", "broken"} => job[t].word = "yes"
        /\ pc[t] = "refuse" => job[t].word # "yes"
        /\ pc[t] = "supersede" => job[t].op = "message"
        /\ pc[t] = "terminate" => job[t].op = "sweep"
        /\ pc[t] = "say" => job[t].op \in Turns
        /\ t \in Bots => /\ job[t].op \in {"message", "approve"}
                         /\ pc[t] \notin {"attach", "start"}

LEMMA TypeInit == Init => TypeOK /\ Shape
<1> SUFFICES ASSUME Init PROVE RowTypes /\ TaskTypes /\ Shape
  BY DEF TypeOK, RowTypes, TaskTypes
<1>1. RowTypes
  BY DEF Init, RowTypes, ApprovalStatuses
<1>2. TaskTypes
  BY DEF Init, TaskTypes, PCs, Jobs, NoJob, Ops, Turns, Words
<1>3. Shape
  BY DEF Init, Shape, NoJob, Turns
<1> QED
  BY <1>1, <1>2, <1>3

LEMMA TypeStep == TypeOK /\ Shape /\ [Next]_vars => TypeOK'
<1> SUFFICES ASSUME RowTypes, TaskTypes, Shape, [Next]_vars PROVE RowTypes' /\ TaskTypes'
  BY DEF TypeOK, RowTypes, TaskTypes
<1>1. ASSUME NEW t \in Tasks, Acquire(t) PROVE RowTypes' /\ TaskTypes'
  <2>1. PICK op \in Ops, c \in Calls \cup {NoCall}, word \in {"yes", "no"} :
            /\ Take(t, op) /\ Go(t, first(t, op))
            /\ Note(t, [NoJob EXCEPT !.op = op, !.call = c, !.word = word])
    <3>1. (IF t \in Bots THEN {"message", "approve"} ELSE Ops) \subseteq Ops
      BY DEF Ops, Turns
    <3> QED
      BY <1>1, <3>1 DEF Acquire
  <2>2. first(t, op) \in PCs
    BY DEF first, PCs
  <2>3. [NoJob EXCEPT !.op = op, !.call = c, !.word = word] \in Jobs
    BY DEF NoJob, Jobs, Words
  <2> QED
    BY <1>1, <2>1, <2>2, <2>3 DEF Acquire, Take, Go, Note, approvals, history, voice,
       budgets, RowTypes, TaskTypes
<1>2. ASSUME NEW t \in Tasks, Check(t) PROVE RowTypes' /\ TaskTypes'
  <2>1. job[t].op \in (Turns \cup {"approve", "connect", "detach"})
    BY <1>2 DEF Check, At, Shape, TaskTypes, Jobs, Ops
  <2> QED
    BY <1>2, <2>1 DEF Check, Go, approvals, history, voice, budgets, RowTypes,
       TaskTypes, PCs, Turns
<1>3. ASSUME NEW t \in Tasks, Leave(t) PROVE RowTypes' /\ TaskTypes'
  BY <1>3, TasksAssumption DEF Leave, Note, NoJob, At, Go, approvals, history, voice,
     budgets, RowTypes, TaskTypes, PCs, Jobs, Ops, Turns, Words, ApprovalStatuses
<1>4. ASSUME NEW t \in Tasks, Supersede(t) PROVE RowTypes' /\ TaskTypes'
  BY <1>4, TasksAssumption DEF Supersede, claim_pending, filled, Pending, Note, At, Go,
     history, voice, budgets, RowTypes, TaskTypes, PCs, Jobs, Ops, Turns, Words,
     ApprovalStatuses
<1>5. ASSUME NEW t \in Tasks, Fill(t) PROVE RowTypes' /\ TaskTypes'
  BY <1>5, TasksAssumption DEF Fill, answer, filled, Note, At, Go, approvals, voice,
     budgets, RowTypes, TaskTypes, PCs, Jobs, Ops, Turns, Words, ApprovalStatuses
<1>6. ASSUME NEW t \in Tasks, Say(t) PROVE RowTypes' /\ TaskTypes'
  BY <1>6, TasksAssumption DEF Say, At, Go, approvals, history, voice, budgets,
     RowTypes, TaskTypes, PCs, Jobs, Ops, Turns, Words, ApprovalStatuses
<1>7. ASSUME NEW t \in Tasks, Reply(t) PROVE RowTypes' /\ TaskTypes'
  BY <1>7, TasksAssumption DEF Reply, Walk, At, Go, approvals, history, voice, budgets,
     RowTypes, TaskTypes, PCs, Jobs, Ops, Turns, Words, ApprovalStatuses
<1>8. ASSUME NEW t \in Tasks, Ask(t) PROVE RowTypes' /\ TaskTypes'
  BY <1>8, TasksAssumption DEF Ask, Note, At, Go, approvals, history, voice, budgets,
     RowTypes, TaskTypes, PCs, Jobs, Ops, Turns, Words, ApprovalStatuses
<1>9. ASSUME NEW t \in Tasks, Request(t) PROVE RowTypes' /\ TaskTypes'
  <2>1. RowTypes'
    BY <1>9 DEF Request, history, voice, budgets, RowTypes, ApprovalStatuses
  <2>2. TaskTypes'
    BY <1>9 DEF Request, Go, Note, TaskTypes, PCs, Jobs
  <2> QED
    BY <2>1, <2>2
<1>10. ASSUME NEW t \in Tasks, Look(t) PROVE RowTypes' /\ TaskTypes'
  BY <1>10, TasksAssumption DEF Look, Note, At, Go, approvals, history, voice, budgets,
     RowTypes, TaskTypes, PCs, Jobs, Ops, Turns, Words, ApprovalStatuses
<1>11. ASSUME NEW t \in Tasks, Decide(t) PROVE RowTypes' /\ TaskTypes'
  BY <1>11, TasksAssumption DEF Decide, verdict, At, Go, approvals, history, voice,
     budgets, RowTypes, TaskTypes, PCs, Jobs, Ops, Turns, Words, ApprovalStatuses
<1>12. ASSUME NEW t \in Tasks, Refuse(t) PROVE RowTypes' /\ TaskTypes'
  BY <1>12, TasksAssumption DEF Refuse, Walk, answer, At, Go, approvals, voice, budgets,
     RowTypes, TaskTypes, PCs, Jobs, Ops, Turns, Words, ApprovalStatuses
<1>13. ASSUME NEW t \in Tasks, Expire(t) PROVE RowTypes' /\ TaskTypes'
  BY <1>13, TasksAssumption DEF Expire, claim_pending, filled, Pending, Note, At, Go,
     history, voice, budgets, RowTypes, TaskTypes, PCs, Jobs, Ops, Turns, Words,
     ApprovalStatuses
<1>14. ASSUME NEW t \in Tasks, Siblings(t) PROVE RowTypes' /\ TaskTypes'
  BY <1>14, TasksAssumption DEF Siblings, undecided, Pending, Note, At, Go, approvals,
     history, voice, budgets, RowTypes, TaskTypes, PCs, Jobs, Ops, Turns, Words,
     ApprovalStatuses
<1>15. ASSUME NEW t \in Tasks, Resume(t) PROVE RowTypes' /\ TaskTypes'
  BY <1>15, TasksAssumption DEF Resume, after, At, Go, approvals, history, voice,
     budgets, RowTypes, TaskTypes, PCs, Jobs, Ops, Turns, Words, ApprovalStatuses
<1>16. ASSUME NEW t \in Tasks, Run(t) PROVE RowTypes' /\ TaskTypes'
  <2>1. pc[t] = "run" => job[t].call \in Calls
    BY DEF Shape
  <2> QED
    BY <1>16, <2>1 DEF Run, Walk, At, Go, approvals, history, voice, budgets, RowTypes,
       TaskTypes, PCs
<1>17. ASSUME NEW t \in Tasks, Record(t) PROVE RowTypes' /\ TaskTypes'
  BY <1>17, TasksAssumption DEF Record, answer, after, At, Go, approvals, voice,
     budgets, RowTypes, TaskTypes, PCs, Jobs, Ops, Turns, Words, ApprovalStatuses
<1>18. ASSUME NEW t \in Tasks, Interrupt(t) PROVE RowTypes' /\ TaskTypes'
  BY <1>18, TasksAssumption DEF Interrupt, streaming, Turns, Go, approvals, history,
     voice, budgets, RowTypes, TaskTypes, PCs, Jobs, Ops, Words, ApprovalStatuses
<1>19. ASSUME NEW t \in Tasks, InterruptRun(t) PROVE RowTypes' /\ TaskTypes'
  <2>1. pc[t] = "run" => job[t].call \in Calls
    BY DEF Shape
  <2> QED
    BY <1>19, <2>1 DEF InterruptRun, Walk, At, Go, approvals, history, voice, budgets,
       RowTypes, TaskTypes, PCs
<1>20. ASSUME NEW t \in Tasks, InterruptNote(t) PROVE RowTypes' /\ TaskTypes'
  <2>1. pc[t] = "note" => job[t].call \in Calls
    BY DEF Shape
  <2> QED
    BY <1>20, <2>1 DEF InterruptNote, Walk, answer, Fault, At, Go, approvals, history,
       voice, budgets, RowTypes, TaskTypes, PCs
<1>21. ASSUME NEW t \in Tasks, Excuse(t) PROVE RowTypes' /\ TaskTypes'
  <2>1. pc[t] = "broken" => job[t].call \in Calls
    BY DEF Shape
  <2> QED
    BY <1>21, <2>1 DEF Excuse, Walk, answer, At, Go, approvals, voice, budgets,
       RowTypes, TaskTypes, PCs
<1>22. ASSUME NEW t \in Tasks, End(t) PROVE RowTypes' /\ TaskTypes'
  BY <1>22, TasksAssumption DEF End, At, Go, approvals, history, voice, budgets,
     RowTypes, TaskTypes, PCs, Jobs, Ops, Turns, Words, ApprovalStatuses
<1>23. ASSUME NEW t \in Tasks, Terminate(t) PROVE RowTypes' /\ TaskTypes'
  <2>1. RowTypes'
    BY <1>23 DEF Terminate, claim_pending, Pending, history, voice, budgets, RowTypes,
       ApprovalStatuses
  <2>2. TaskTypes'
    BY <1>23 DEF Terminate, claim_pending, filled, Pending, Go, Note, TaskTypes, PCs,
       Jobs
  <2> QED
    BY <2>1, <2>2
<1>24. ASSUME NEW t \in Tasks, Attach(t) PROVE RowTypes' /\ TaskTypes'
  BY <1>24, TasksAssumption DEF Attach, on, At, Go, approvals, history, voice, budgets,
     RowTypes, TaskTypes, PCs, Jobs, Ops, Turns, Words, ApprovalStatuses
<1>25. ASSUME NEW t \in Tasks, Start(t) PROVE RowTypes' /\ TaskTypes'
  BY <1>25, TasksAssumption DEF Start, on, to_chat, At, Go, approvals, history, budgets,
     RowTypes, TaskTypes, PCs, Jobs, Ops, Turns, Words, ApprovalStatuses
<1>26. ASSUME NEW t \in Tasks, Detach(t) PROVE RowTypes' /\ TaskTypes'
  BY <1>26, TasksAssumption DEF Detach, Walk, to_chat, At, Go, approvals, history,
     budgets, RowTypes, TaskTypes, PCs, Jobs, Ops, Turns, Words, ApprovalStatuses
<1>27. ASSUME NEW t \in Tasks, HangUp(t) PROVE RowTypes' /\ TaskTypes'
  BY <1>27, TasksAssumption DEF HangUp, to_chat, Fault, At, Go, approvals, history,
     budgets, RowTypes, TaskTypes, PCs, Jobs, Ops, Turns, Words, ApprovalStatuses
<1>28. ASSUME NEW t \in Tasks, Fail(t) PROVE RowTypes' /\ TaskTypes'
  <2>1. RowTypes'
    BY <1>28 DEF Fail, Fault, approvals, history, voice, RowTypes
  <2>2. TaskTypes'
    BY <1>28 DEF Fail, Go, Note, NoJob, TaskTypes, PCs, Jobs, Ops, Turns, Words
  <2> QED
    BY <2>1, <2>2
<1>29. ASSUME NEW t \in Tasks, Crash(t) PROVE RowTypes' /\ TaskTypes'
  BY <1>29, TasksAssumption DEF Crash, Note, NoJob, Go, approvals, RowTypes, TaskTypes,
     PCs, Jobs, Ops, Turns, Words, ApprovalStatuses
<1>30. ASSUME NEW c \in Calls, BecomeOverdue(c) PROVE RowTypes' /\ TaskTypes'
  BY <1>30, TasksAssumption DEF BecomeOverdue, Pending, history, voice, budgets,
     RowTypes, TaskTypes, PCs, Jobs, Ops, Turns, Words, ApprovalStatuses
<1>31. ASSUME NEW c \in Calls, Land(c) PROVE RowTypes' /\ TaskTypes'
  BY <1>31, TasksAssumption DEF Land, answer, Fault, approvals, voice, budgets,
     RowTypes, TaskTypes, PCs, Jobs, Ops, Turns, Words, ApprovalStatuses
<1>32. ASSUME LockExpires PROVE RowTypes' /\ TaskTypes'
  BY <1>32, TasksAssumption DEF LockExpires, approvals, history, voice, budgets,
     RowTypes, TaskTypes, PCs, Jobs, Ops, Turns, Words, ApprovalStatuses
<1>33. CASE UNCHANGED vars
  BY <1>33 DEF vars, approvals, history, voice, budgets, RowTypes, TaskTypes, PCs, Jobs,
     Ops, Turns, Words, ApprovalStatuses
<1> QED
  BY <1>1, <1>2, <1>3, <1>4, <1>5, <1>6, <1>7, <1>8, <1>9, <1>10, <1>11, <1>12, <1>13,
     <1>14, <1>15, <1>16, <1>17, <1>18, <1>19, <1>20, <1>21, <1>22, <1>23, <1>24, <1>25,
     <1>26, <1>27, <1>28, <1>29, <1>30, <1>31, <1>32, <1>33 DEF Next, Turn, Decision,
     Cancel, Ending, Voice

-----------------------------------------------------------------------------
(* The calls of the model: each asked once, by one turn.                   *)

Asks ==
    /\ \A c \in Calls : status[c] # "NONE" => c \in asked
    /\ \A t \in Tasks : pc[t] = "request" =>
            \A c \in job[t].calls : c \in asked /\ status[c] = "NONE"
    /\ \A t, u \in Tasks : pc[t] = "request" /\ pc[u] = "request" /\ t # u =>
            job[t].calls \cap job[u].calls = {}

\* Where a task that reads the session row goes, and where it does not.
LEMMA CheckGoes ==
    ASSUME TaskTypes, Shape, NEW t \in Tasks, Check(t)
    PROVE  /\ pc[t] = "check" /\ UNCHANGED job
           /\ \A u \in Tasks \ {t} : pc'[u] = pc[u]
           /\ pc'[t] \in {"leave", "supersede", "say", "look", "attach", "detach"}
           /\ pc'[t] = "supersede" => job[t].op = "message"
           /\ pc'[t] = "look" => job[t].op = "approve"
           /\ pc'[t] = "attach" => job[t].op = "connect"
           /\ session = "ENDED" => pc'[t] \in {"leave", "detach"}
           /\ pc'[t] = "say" => job[t].op \in {"aside", "intent"}
<1>1. job[t].op \in Ops \ {"end", "sweep"}
  BY DEF Check, At, Shape, TaskTypes, Jobs
<1>2. job[t].op \in {"message", "aside", "intent", "approve", "connect", "detach"}
  BY <1>1 DEF Ops, Turns
<1>3. /\ pc[t] = "check" /\ UNCHANGED job
      /\ \A u \in Tasks \ {t} : pc'[u] = pc[u]
  BY DEF Check, At, Go, TaskTypes
<1>4. CASE job[t].op # "detach" /\ session = "ENDED"
  <2>1. pc'[t] = "leave"
    BY <1>4 DEF Check, Go, TaskTypes
  <2> QED
    BY <1>3, <2>1
<1>5. CASE job[t].op = "detach"
  <2>1. pc'[t] \in {"leave", "detach"}
    BY <1>5 DEF Check, Go, TaskTypes
  <2> QED
    BY <1>3, <2>1
<1>6. CASE job[t].op # "detach" /\ session # "ENDED"
  BY <1>2, <1>3, <1>6 DEF Check, Go, TaskTypes
<1> QED
  BY <1>4, <1>5, <1>6

\* Likewise a task that tries to take the channel.
LEMMA AttachGoes ==
    ASSUME TaskTypes, NEW t \in Tasks, Attach(t)
    PROVE  /\ pc[t] = "attach" /\ pc'[t] \in {"leave", "start"}
           /\ \A u \in Tasks \ {t} : pc'[u] = pc[u]
           /\ UNCHANGED <<session, lock, status, overdue, answers, adrift, unsure, asked,
                           ran, job, overruns, crashes, faults>>
<1>1. pc[t] = "attach"
  BY DEF Attach, At
<1>2. pc' = [pc EXCEPT ![t] = "leave"] \/ pc' = [pc EXCEPT ![t] = "start"]
  BY DEF Attach, Go
<1>3. UNCHANGED <<session, lock, status, overdue, answers, adrift, unsure, asked,
                  ran, job, overruns, crashes, faults>>
  BY DEF Attach, approvals, history, budgets
<1> QED
  BY <1>1, <1>2, <1>3 DEF TaskTypes

LEMMA ShapeStep == TypeOK /\ Shape /\ [Next]_vars => Shape'
<1> SUFFICES ASSUME TaskTypes, Shape, [Next]_vars PROVE Shape'
  BY DEF TypeOK, TaskTypes
<1>1. ASSUME NEW t \in Tasks, Acquire(t) PROVE Shape'
  BY <1>1, TasksAssumption DEF Acquire, Take, first, Note, NoJob, At, Go, approvals,
     history, voice, budgets, TaskTypes, PCs, Jobs, Shape, Turns, Tasks
<1>2. ASSUME NEW t \in Tasks, Check(t) PROVE Shape'
  BY <1>2, CheckGoes DEF Shape, Turns
<1>3. ASSUME NEW t \in Tasks, Leave(t) PROVE Shape'
  BY <1>3, TasksAssumption DEF Leave, Note, NoJob, At, Go, approvals, history, voice,
     budgets, TaskTypes, PCs, Jobs, Shape, Turns, Tasks
<1>4. ASSUME NEW t \in Tasks, Supersede(t) PROVE Shape'
  BY <1>4, TasksAssumption DEF Supersede, claim_pending, filled, Pending, Note, At, Go,
     history, voice, budgets, TaskTypes, PCs, Jobs, Shape, Turns, Tasks
<1>5. ASSUME NEW t \in Tasks, Fill(t) PROVE Shape'
  BY <1>5, TasksAssumption DEF Fill, answer, filled, Note, At, Go, approvals, voice,
     budgets, TaskTypes, PCs, Jobs, Shape, Turns, Tasks
<1>6. ASSUME NEW t \in Tasks, Say(t) PROVE Shape'
  BY <1>6, TasksAssumption DEF Say, At, Go, approvals, history, voice, budgets,
     TaskTypes, PCs, Jobs, Shape, Turns, Tasks
<1>7. ASSUME NEW t \in Tasks, Reply(t) PROVE Shape'
  BY <1>7, TasksAssumption DEF Reply, Walk, At, Go, approvals, history, voice, budgets,
     TaskTypes, PCs, Jobs, Shape, Turns, Tasks
<1>8. ASSUME NEW t \in Tasks, Ask(t) PROVE Shape'
  BY <1>8, TasksAssumption DEF Ask, Note, At, Go, approvals, history, voice, budgets,
     TaskTypes, PCs, Jobs, Shape, Turns, Tasks
<1>9. ASSUME NEW t \in Tasks, Request(t) PROVE Shape'
  BY <1>9, TasksAssumption DEF Request, Note, At, Go, history, voice, budgets,
     TaskTypes, PCs, Jobs, Shape, Turns, Tasks
<1>10. ASSUME NEW t \in Tasks, Look(t) PROVE Shape'
  BY <1>10, TasksAssumption DEF Look, Note, At, Go, approvals, history, voice, budgets,
     TaskTypes, PCs, Jobs, Shape, Turns, Tasks
<1>11. ASSUME NEW t \in Tasks, Decide(t) PROVE Shape'
  BY <1>11, TasksAssumption DEF Decide, verdict, At, Go, approvals, history, voice,
     budgets, TaskTypes, PCs, Jobs, Shape, Turns, Tasks
<1>12. ASSUME NEW t \in Tasks, Refuse(t) PROVE Shape'
  BY <1>12, TasksAssumption DEF Refuse, Walk, answer, At, Go, approvals, voice, budgets,
     TaskTypes, PCs, Jobs, Shape, Turns, Tasks
<1>13. ASSUME NEW t \in Tasks, Expire(t) PROVE Shape'
  BY <1>13, TasksAssumption DEF Expire, claim_pending, filled, Pending, Note, At, Go,
     history, voice, budgets, TaskTypes, PCs, Jobs, Shape, Turns, Tasks
<1>14. ASSUME NEW t \in Tasks, Siblings(t) PROVE Shape'
  BY <1>14, TasksAssumption DEF Siblings, undecided, Pending, Note, At, Go, approvals,
     history, voice, budgets, TaskTypes, PCs, Jobs, Shape, Turns, Tasks
<1>15. ASSUME NEW t \in Tasks, Resume(t) PROVE Shape'
  BY <1>15, TasksAssumption DEF Resume, after, At, Go, approvals, history, voice,
     budgets, TaskTypes, PCs, Jobs, Shape, Turns, Tasks
<1>16. ASSUME NEW t \in Tasks, Run(t) PROVE Shape'
  BY <1>16, TasksAssumption DEF Run, Walk, At, Go, approvals, history, voice, budgets,
     TaskTypes, PCs, Jobs, Shape, Turns, Tasks
<1>17. ASSUME NEW t \in Tasks, Record(t) PROVE Shape'
  BY <1>17, TasksAssumption DEF Record, answer, after, At, Go, approvals, voice,
     budgets, TaskTypes, PCs, Jobs, Shape, Turns, Tasks
<1>18. ASSUME NEW t \in Tasks, Interrupt(t) PROVE Shape'
  BY <1>18, TasksAssumption DEF Interrupt, streaming, Turns, Go, approvals, history,
     voice, budgets, TaskTypes, PCs, Jobs, Shape, Tasks
<1>19. ASSUME NEW t \in Tasks, InterruptRun(t) PROVE Shape'
  BY <1>19, TasksAssumption DEF InterruptRun, Walk, At, Go, approvals, history, voice,
     budgets, TaskTypes, PCs, Jobs, Shape, Turns, Tasks
<1>20. ASSUME NEW t \in Tasks, InterruptNote(t) PROVE Shape'
  BY <1>20, TasksAssumption DEF InterruptNote, Walk, answer, Fault, At, Go, approvals,
     history, voice, budgets, TaskTypes, PCs, Jobs, Shape, Turns, Tasks
<1>21. ASSUME NEW t \in Tasks, Excuse(t) PROVE Shape'
  BY <1>21, TasksAssumption DEF Excuse, Walk, answer, At, Go, approvals, voice, budgets,
     TaskTypes, PCs, Jobs, Shape, Turns, Tasks
<1>22. ASSUME NEW t \in Tasks, End(t) PROVE Shape'
  BY <1>22, TasksAssumption DEF End, At, Go, approvals, history, voice, budgets,
     TaskTypes, PCs, Jobs, Shape, Turns, Tasks
<1>23. ASSUME NEW t \in Tasks, Terminate(t) PROVE Shape'
  BY <1>23, TasksAssumption DEF Terminate, claim_pending, filled, Pending, Note, At, Go,
     history, voice, budgets, TaskTypes, PCs, Jobs, Shape, Turns, Tasks
<1>24. ASSUME NEW t \in Tasks, Attach(t) PROVE Shape'
  BY <1>24, AttachGoes DEF Shape
<1>25. ASSUME NEW t \in Tasks, Start(t) PROVE Shape'
  BY <1>25, TasksAssumption DEF Start, on, to_chat, At, Go, approvals, history, budgets,
     TaskTypes, PCs, Jobs, Shape, Turns, Tasks
<1>26. ASSUME NEW t \in Tasks, Detach(t) PROVE Shape'
  BY <1>26, TasksAssumption DEF Detach, Walk, to_chat, At, Go, approvals, history,
     budgets, TaskTypes, PCs, Jobs, Shape, Turns, Tasks
<1>27. ASSUME NEW t \in Tasks, HangUp(t) PROVE Shape'
  BY <1>27, TasksAssumption DEF HangUp, to_chat, Fault, At, Go, approvals, history,
     budgets, TaskTypes, PCs, Jobs, Shape, Turns, Tasks
<1>28. ASSUME NEW t \in Tasks, Fail(t) PROVE Shape'
  BY <1>28, TasksAssumption DEF Fail, Fault, Note, NoJob, At, Go, approvals, history,
     voice, TaskTypes, PCs, Jobs, Shape, Turns, Tasks
<1>29. ASSUME NEW t \in Tasks, Crash(t) PROVE Shape'
  BY <1>29, TasksAssumption DEF Crash, Note, NoJob, Go, approvals, TaskTypes, PCs, Jobs,
     Shape, Turns, Tasks
<1>30. ASSUME NEW c \in Calls, BecomeOverdue(c) PROVE Shape'
  BY <1>30, TasksAssumption DEF BecomeOverdue, Pending, history, voice, budgets,
     TaskTypes, PCs, Jobs, Shape, Turns, Tasks
<1>31. ASSUME NEW c \in Calls, Land(c) PROVE Shape'
  BY <1>31, TasksAssumption DEF Land, answer, Fault, approvals, voice, budgets,
     TaskTypes, PCs, Jobs, Shape, Turns, Tasks
<1>32. ASSUME LockExpires PROVE Shape'
  BY <1>32, TasksAssumption DEF LockExpires, approvals, history, voice, budgets,
     TaskTypes, PCs, Jobs, Shape, Turns, Tasks
<1>33. CASE UNCHANGED vars
  BY <1>33 DEF vars, approvals, history, voice, budgets, TaskTypes, PCs, Jobs, Shape,
     Turns, Tasks
<1> QED
  BY <1>1, <1>2, <1>3, <1>4, <1>5, <1>6, <1>7, <1>8, <1>9, <1>10, <1>11, <1>12, <1>13,
     <1>14, <1>15, <1>16, <1>17, <1>18, <1>19, <1>20, <1>21, <1>22, <1>23, <1>24, <1>25,
     <1>26, <1>27, <1>28, <1>29, <1>30, <1>31, <1>32, <1>33 DEF Next, Turn, Decision,
     Cancel, Ending, Voice

LEMMA AsksStep == TypeOK /\ Shape /\ Asks /\ [Next]_vars => Asks'
<1> SUFFICES ASSUME RowTypes, TaskTypes, Shape, Asks, [Next]_vars PROVE Asks'
  BY DEF TypeOK, RowTypes, TaskTypes
<1>1. ASSUME NEW t \in Tasks, Acquire(t) PROVE Asks'
  BY <1>1 DEF Acquire, Take, first, Note, NoJob, At, Go, approvals, history, voice,
     budgets, RowTypes, TaskTypes, Jobs, Asks
<1>2. ASSUME NEW t \in Tasks, Check(t) PROVE Asks'
  <2>1. UNCHANGED <<status, asked>>
    BY <1>2 DEF Check, approvals
  <2> QED
    BY <1>2, <2>1, CheckGoes DEF Asks
<1>3. ASSUME NEW t \in Tasks, Leave(t) PROVE Asks'
  BY <1>3 DEF Leave, Note, NoJob, At, Go, approvals, history, voice, budgets, RowTypes,
     TaskTypes, Jobs, Asks
<1>4. ASSUME NEW t \in Tasks, Supersede(t) PROVE Asks'
  BY <1>4 DEF Supersede, claim_pending, filled, Pending, Note, At, Go, history, voice,
     budgets, RowTypes, TaskTypes, Jobs, Asks
<1>5. ASSUME NEW t \in Tasks, Fill(t) PROVE Asks'
  BY <1>5 DEF Fill, answer, filled, Note, At, Go, approvals, voice, budgets, RowTypes,
     TaskTypes, Jobs, Asks
<1>6. ASSUME NEW t \in Tasks, Say(t) PROVE Asks'
  BY <1>6 DEF Say, At, Go, approvals, history, voice, budgets, RowTypes, TaskTypes,
     Jobs, Asks
<1>7. ASSUME NEW t \in Tasks, Reply(t) PROVE Asks'
  BY <1>7 DEF Reply, Walk, At, Go, approvals, history, voice, budgets, RowTypes,
     TaskTypes, Jobs, Asks
<1>8. ASSUME NEW t \in Tasks, Ask(t) PROVE Asks'
  BY <1>8 DEF Ask, Note, At, Go, approvals, history, voice, budgets, RowTypes,
     TaskTypes, Jobs, Asks
<1>9. ASSUME NEW t \in Tasks, Request(t) PROVE Asks'
  BY <1>9 DEF Request, Note, At, Go, history, voice, budgets, RowTypes, TaskTypes, Jobs,
     Asks
<1>10. ASSUME NEW t \in Tasks, Look(t) PROVE Asks'
  BY <1>10 DEF Look, Note, At, Go, approvals, history, voice, budgets, RowTypes,
     TaskTypes, Jobs, Asks
<1>11. ASSUME NEW t \in Tasks, Decide(t) PROVE Asks'
  BY <1>11 DEF Decide, verdict, At, Go, approvals, history, voice, budgets, RowTypes,
     TaskTypes, Jobs, Asks
<1>12. ASSUME NEW t \in Tasks, Refuse(t) PROVE Asks'
  BY <1>12 DEF Refuse, Walk, answer, At, Go, approvals, voice, budgets, RowTypes,
     TaskTypes, Jobs, Asks
<1>13. ASSUME NEW t \in Tasks, Expire(t) PROVE Asks'
  BY <1>13 DEF Expire, claim_pending, filled, Pending, Note, At, Go, history, voice,
     budgets, RowTypes, TaskTypes, Jobs, Asks
<1>14. ASSUME NEW t \in Tasks, Siblings(t) PROVE Asks'
  BY <1>14 DEF Siblings, undecided, Pending, Note, At, Go, approvals, history, voice,
     budgets, RowTypes, TaskTypes, Jobs, Asks
<1>15. ASSUME NEW t \in Tasks, Resume(t) PROVE Asks'
  BY <1>15 DEF Resume, after, At, Go, approvals, history, voice, budgets, RowTypes,
     TaskTypes, Jobs, Asks
<1>16. ASSUME NEW t \in Tasks, Run(t) PROVE Asks'
  BY <1>16 DEF Run, Walk, At, Go, approvals, history, voice, budgets, RowTypes,
     TaskTypes, Jobs, Asks
<1>17. ASSUME NEW t \in Tasks, Record(t) PROVE Asks'
  BY <1>17 DEF Record, answer, after, At, Go, approvals, voice, budgets, RowTypes,
     TaskTypes, Jobs, Asks
<1>18. ASSUME NEW t \in Tasks, Interrupt(t) PROVE Asks'
  BY <1>18 DEF Interrupt, streaming, Turns, Go, approvals, history, voice, budgets,
     RowTypes, TaskTypes, Jobs, Asks
<1>19. ASSUME NEW t \in Tasks, InterruptRun(t) PROVE Asks'
  BY <1>19 DEF InterruptRun, Walk, At, Go, approvals, history, voice, budgets, RowTypes,
     TaskTypes, Jobs, Asks
<1>20. ASSUME NEW t \in Tasks, InterruptNote(t) PROVE Asks'
  BY <1>20 DEF InterruptNote, Walk, answer, Fault, At, Go, approvals, history, voice,
     budgets, RowTypes, TaskTypes, Jobs, Asks
<1>21. ASSUME NEW t \in Tasks, Excuse(t) PROVE Asks'
  BY <1>21 DEF Excuse, Walk, answer, At, Go, approvals, voice, budgets, RowTypes,
     TaskTypes, Jobs, Asks
<1>22. ASSUME NEW t \in Tasks, End(t) PROVE Asks'
  BY <1>22 DEF End, At, Go, approvals, history, voice, budgets, RowTypes, TaskTypes,
     Jobs, Asks
<1>23. ASSUME NEW t \in Tasks, Terminate(t) PROVE Asks'
  BY <1>23 DEF Terminate, claim_pending, filled, Pending, Note, At, Go, history, voice,
     budgets, RowTypes, TaskTypes, Jobs, Asks
<1>24. ASSUME NEW t \in Tasks, Attach(t) PROVE Asks'
  BY <1>24, AttachGoes DEF Asks
<1>25. ASSUME NEW t \in Tasks, Start(t) PROVE Asks'
  BY <1>25 DEF Start, on, to_chat, At, Go, approvals, history, budgets, RowTypes,
     TaskTypes, Jobs, Asks
<1>26. ASSUME NEW t \in Tasks, Detach(t) PROVE Asks'
  BY <1>26 DEF Detach, Walk, to_chat, At, Go, approvals, history, budgets, RowTypes,
     TaskTypes, Jobs, Asks
<1>27. ASSUME NEW t \in Tasks, HangUp(t) PROVE Asks'
  BY <1>27 DEF HangUp, to_chat, Fault, At, Go, approvals, history, budgets, RowTypes,
     TaskTypes, Jobs, Asks
<1>28. ASSUME NEW t \in Tasks, Fail(t) PROVE Asks'
  BY <1>28 DEF Fail, Fault, Note, NoJob, At, Go, approvals, history, voice, RowTypes,
     TaskTypes, Jobs, Asks
<1>29. ASSUME NEW t \in Tasks, Crash(t) PROVE Asks'
  BY <1>29 DEF Crash, Note, NoJob, Go, approvals, RowTypes, TaskTypes, Jobs, Asks
<1>30. ASSUME NEW c \in Calls, BecomeOverdue(c) PROVE Asks'
  BY <1>30 DEF BecomeOverdue, Pending, history, voice, budgets, RowTypes, TaskTypes,
     Jobs, Asks
<1>31. ASSUME NEW c \in Calls, Land(c) PROVE Asks'
  BY <1>31 DEF Land, answer, Fault, approvals, voice, budgets, RowTypes, TaskTypes,
     Jobs, Asks
<1>32. ASSUME LockExpires PROVE Asks'
  BY <1>32 DEF LockExpires, approvals, history, voice, budgets, RowTypes, TaskTypes,
     Jobs, Asks
<1>33. CASE UNCHANGED vars
  BY <1>33 DEF vars, approvals, history, voice, budgets, RowTypes, TaskTypes, Jobs, Asks
<1> QED
  BY <1>1, <1>2, <1>3, <1>4, <1>5, <1>6, <1>7, <1>8, <1>9, <1>10, <1>11, <1>12, <1>13,
     <1>14, <1>15, <1>16, <1>17, <1>18, <1>19, <1>20, <1>21, <1>22, <1>23, <1>24, <1>25,
     <1>26, <1>27, <1>28, <1>29, <1>30, <1>31, <1>32, <1>33 DEF Next, Turn, Decision,
     Cancel, Ending, Voice

-----------------------------------------------------------------------------
(* The answers a task still owes, and the tools it is yet to run.          *)

Approves(t) == job[t].op = "approve" /\ job[t].word = "yes"
Owes(t) ==
    (IF pc[t] = "fill" THEN job[t].calls ELSE {})
    \cup (IF \/ pc[t] = "refuse"
             \/ /\ Approves(t)
                /\ pc[t] \in {"expire", "fill", "siblings", "resume", "run", "note",
                              "broken"}
          THEN {job[t].call} ELSE {})
Fresh(c) == status[c] \in {"NONE", "PENDING"}
Bound(c) == IF c \in unsure THEN 1 ELSE 0

\* One task, or the insert a cancelled turn left behind, answers a call.
Owed ==
    /\ \A c \in Calls : Fresh(c) =>
            answers[c] = 0 /\ ran[c] = 0 /\ c \notin adrift /\ c \notin unsure
    /\ \A t \in Tasks : \A c \in Owes(t) :
            /\ ~Fresh(c) /\ answers[c] <= Bound(c) /\ c \notin adrift
            /\ pc[t] # "broken" => c \notin unsure
    /\ \A c \in adrift : answers[c] <= Bound(c)
    /\ \A t, u \in Tasks : t # u => Owes(t) \cap Owes(u) = {}
    /\ \A t \in Tasks : pc[t] = "fill" /\ Approves(t) => job[t].call \notin job[t].calls

LEMMA OwesCalls ==
    ASSUME TaskTypes, Shape, NEW t \in Tasks
    PROVE  Owes(t) \subseteq Calls
  BY DEF TaskTypes, Jobs, Shape, Owes, Approves

\* A step of t leaves what the others owe.
LEMMA OthersOwe ==
    ASSUME NEW t \in Tasks,
           \A u \in Tasks \ {t} : pc'[u] = pc[u] /\ job'[u] = job[u]
    PROVE  \A u \in Tasks \ {t} : Owes(u)' = Owes(u) /\ (Approves(u)' <=> Approves(u))
  BY DEF Owes, Approves

\* A step of t that answers, sets adrift or reports only what t owed, and claims
\* only fresh calls.
LEMMA OwedFrom ==
    ASSUME RowTypes, TaskTypes, Shape, Shape', TaskTypes', Owed, AnsweredOnce,
           NEW t \in Tasks,
           \A u \in Tasks \ {t} : pc'[u] = pc[u] /\ job'[u] = job[u],
           \A c \in Calls : Fresh(c)' => Fresh(c),
           \A c \in Calls : ran'[c] # ran[c] => c \in Owes(t),
           \A c \in Calls \ Owes(t) : /\ answers'[c] = answers[c]
                                      /\ c \in unsure' <=> c \in unsure
                                      /\ c \in adrift' <=> c \in adrift,
           adrift' \subseteq Calls,
           \A c \in Owes(t) : /\ answers'[c] <= 1 + Bound(c)'
                              /\ c \in adrift' => answers'[c] <= Bound(c)',
           \A c \in Owes(t)' : /\ ~Fresh(c)' /\ answers'[c] <= Bound(c)' /\ c \notin adrift'
                               /\ pc'[t] # "broken" => c \notin unsure'
                               /\ c \in Owes(t) \/ Fresh(c),
           pc'[t] = "fill" /\ Approves(t)' => job'[t].call \notin job'[t].calls
    PROVE  Owed' /\ AnsweredOnce'
<1>1. Owes(t) \subseteq Calls /\ \A u \in Tasks \ {t} : Owes(u) \subseteq Calls
  BY OwesCalls
<1>2. \A u \in Tasks \ {t} : Owes(u)' = Owes(u) /\ (Approves(u)' <=> Approves(u))
  BY OthersOwe
<1>3. \A c \in Calls : Fresh(c)' =>
            answers'[c] = 0 /\ ran'[c] = 0 /\ c \notin adrift' /\ c \notin unsure'
  BY <1>1 DEF Owed
<1>4. \A u \in Tasks \ {t} : \A c \in Owes(u) :
            /\ ~Fresh(c)' /\ answers'[c] <= Bound(c)' /\ c \notin adrift'
            /\ pc[u] # "broken" => c \notin unsure'
  BY <1>1 DEF Owed, Bound
<1>5. \A c \in adrift' : answers'[c] <= Bound(c)'
  BY DEF Owed, Bound
<1>6. \A u, v \in Tasks : u # v => Owes(u)' \cap Owes(v)' = {}
  BY <1>2 DEF Owed
<1>7. AnsweredOnce'
  BY DEF AnsweredOnce, Bound
<1> QED
  BY <1>2, <1>3, <1>4, <1>5, <1>6, <1>7 DEF Owed

\* A step that answers nothing and after which nobody owes more.
LEMMA OwedLess ==
    ASSUME Owed, AnsweredOnce, UNCHANGED <<status, answers, ran, adrift, unsure>>,
           \A u \in Tasks : /\ Owes(u)' \subseteq Owes(u)
                            /\ Owes(u)' # {} => pc'[u] = pc[u] \/ pc[u] # "broken",
           \A u \in Tasks : pc'[u] = "fill" /\ Approves(u)' =>
                                pc[u] = "fill" /\ Approves(u) /\ job'[u] = job[u]
    PROVE  Owed' /\ AnsweredOnce'
  BY DEF Owed, AnsweredOnce, Fresh, Bound

LEMMA OwedStep ==
    TypeOK /\ Shape /\ Asks /\ Owed /\ AnsweredOnce /\ [Next]_vars
        => Owed' /\ AnsweredOnce'
<1> SUFFICES ASSUME RowTypes, TaskTypes, Shape, Asks, Owed, AnsweredOnce, [Next]_vars,
                    Shape', TaskTypes'
             PROVE  Owed' /\ AnsweredOnce'
  BY TypeStep, ShapeStep DEF TypeOK, RowTypes, TaskTypes
<1>1. ASSUME NEW t \in Tasks, Acquire(t) PROVE Owed' /\ AnsweredOnce'
  <2>1. UNCHANGED <<status, answers, ran, adrift, unsure>>
    BY <1>1 DEF Acquire, Take, first, Note, NoJob, approvals, history
  <2>2. \A u \in Tasks : /\ Owes(u)' \subseteq Owes(u)
                         /\ Owes(u)' # {} => pc'[u] = pc[u] \/ pc[u] # "broken"
    BY <1>1 DEF Acquire, Take, first, Note, NoJob, At, Go, TaskTypes, Owes, Approves
  <2>3. \A u \in Tasks : pc'[u] = "fill" /\ Approves(u)' =>
                            pc[u] = "fill" /\ Approves(u) /\ job'[u] = job[u]
    BY <1>1 DEF Acquire, Take, first, Note, NoJob, At, Go, TaskTypes, Approves
  <2> QED
    BY <2>1, <2>2, <2>3, OwedLess
<1>2. ASSUME NEW t \in Tasks, Check(t) PROVE Owed' /\ AnsweredOnce'
  <2>1. UNCHANGED <<status, answers, ran, adrift, unsure>>
    BY <1>2 DEF Check, approvals, history
  <2>2. \A u \in Tasks : /\ Owes(u)' \subseteq Owes(u)
                         /\ Owes(u)' # {} => pc'[u] = pc[u] \/ pc[u] # "broken"
    BY <1>2, CheckGoes DEF Owes, Approves
  <2>3. \A u \in Tasks : pc'[u] = "fill" /\ Approves(u)' =>
                            pc[u] = "fill" /\ Approves(u) /\ job'[u] = job[u]
    BY <1>2, CheckGoes DEF Approves
  <2> QED
    BY <2>1, <2>2, <2>3, OwedLess
<1>3. ASSUME NEW t \in Tasks, Leave(t) PROVE Owed' /\ AnsweredOnce'
  <2>1. UNCHANGED <<status, answers, ran, adrift, unsure>>
    BY <1>3 DEF Leave, Note, NoJob, approvals, history
  <2>2. \A u \in Tasks : /\ Owes(u)' \subseteq Owes(u)
                         /\ Owes(u)' # {} => pc'[u] = pc[u] \/ pc[u] # "broken"
    BY <1>3 DEF Leave, Note, NoJob, At, Go, TaskTypes, Owes, Approves
  <2>3. \A u \in Tasks : pc'[u] = "fill" /\ Approves(u)' =>
                            pc[u] = "fill" /\ Approves(u) /\ job'[u] = job[u]
    BY <1>3 DEF Leave, Note, NoJob, At, Go, TaskTypes, Approves
  <2> QED
    BY <2>1, <2>2, <2>3, OwedLess
<1>4. ASSUME NEW t \in Tasks, Supersede(t) PROVE Owed' /\ AnsweredOnce'
  <2>1. \A u \in Tasks \ {t} : pc'[u] = pc[u] /\ job'[u] = job[u]
    BY <1>4 DEF Supersede, filled, claim_pending, Pending, Note, At, Go, TaskTypes
  <2>2. Owes(t) = {}
    BY <1>4 DEF Supersede, filled, claim_pending, Pending, Note, At, Owes, Approves,
       Shape
  <2>3. Owes(t)' = Pending
    BY <1>4 DEF Supersede, filled, claim_pending, Pending, Note, At, Go, TaskTypes,
       Owes, Approves, Shape, Jobs, Words
  <2>4. \A c \in Calls : Fresh(c)' => Fresh(c)
    BY <1>4 DEF Supersede, filled, claim_pending, Pending, Note, At, Fresh, RowTypes
  <2>5. \A c \in Calls : ran'[c] # ran[c] => c \in Owes(t)
    BY <1>4, <2>2 DEF Supersede, filled, claim_pending, Pending, Note, RowTypes
  <2>6. adrift' \subseteq Calls
    BY <1>4 DEF Supersede, filled, claim_pending, Pending, Note, At, history, RowTypes,
       Shape
  <2>7. \A c \in Calls \ Owes(t) : /\ answers'[c] = answers[c]
                                   /\ c \in unsure' <=> c \in unsure
                                   /\ c \in adrift' <=> c \in adrift
    BY <1>4, <2>2 DEF Supersede, filled, claim_pending, Pending, Note, history, RowTypes
  <2>8. \A c \in Owes(t) : /\ answers'[c] <= 1 + Bound(c)'
                           /\ c \in adrift' => answers'[c] <= Bound(c)'
    BY <1>4, <2>2, OwesCalls DEF Supersede, filled, claim_pending, Pending, Note, At,
       history, RowTypes, Bound, Owed
  <2>9. \A c \in Owes(t)' : /\ ~Fresh(c)' /\ answers'[c] <= Bound(c)' /\ c \notin adrift'
                            /\ pc'[t] # "broken" => c \notin unsure'
                            /\ c \in Owes(t) \/ Fresh(c)
    <3> SUFFICES ASSUME NEW c \in Owes(t)'
                 PROVE  /\ ~Fresh(c)' /\ answers'[c] <= Bound(c)' /\ c \notin adrift'
                        /\ pc'[t] # "broken" => c \notin unsure'
                        /\ c \in Owes(t) \/ Fresh(c)
      OBVIOUS
    <3>1. c \in Calls
      BY Shape', TaskTypes' DEF TaskTypes, Jobs, Shape, Owes, Approves
    <3>2. c \in Owes(t) \/ Fresh(c)
      BY <1>4, <2>2, <2>3, <3>1 DEF Supersede, filled, claim_pending, Pending, Note, At,
         Go, TaskTypes, Fresh
    <3>3. ~Fresh(c)'
      BY <1>4, <2>2, <2>3, <3>1, <3>2 DEF Supersede, filled, claim_pending, Pending,
         Note, At, Go, TaskTypes, Fresh, RowTypes, Owed
    <3>4. /\ answers'[c] <= Bound(c)' /\ c \notin adrift'
          /\ pc'[t] # "broken" => c \notin unsure'
      BY <1>4, <2>2, <2>3, <3>1, <3>2 DEF Supersede, filled, claim_pending, Pending,
         Note, At, Go, TaskTypes, Bound, RowTypes, Owed, history
    <3> QED
      BY <3>2, <3>3, <3>4
  <2>10. pc'[t] = "fill" /\ Approves(t)' => job'[t].call \notin job'[t].calls
    BY <1>4, <2>2, OwesCalls DEF Supersede, filled, claim_pending, Pending, Note, At,
       Go, TaskTypes, Approves, Shape, Owed, Fresh
  <2> QED
    BY <2>1, <2>4, <2>5, <2>6, <2>7, <2>8, <2>9, <2>10, OwedFrom
<1>5. ASSUME NEW t \in Tasks, Fill(t) PROVE Owed' /\ AnsweredOnce'
  <2>1. \A u \in Tasks \ {t} : pc'[u] = pc[u] /\ job'[u] = job[u]
    BY <1>5 DEF Fill, answer, filled, Note, At, Go, TaskTypes
  <2>2. Owes(t) = job[t].calls \cup (IF Approves(t) THEN {job[t].call} ELSE {})
    BY <1>5 DEF Fill, answer, filled, Note, At, Owes, Approves, Shape
  <2>3. Owes(t)' = IF Approves(t) THEN {job[t].call} ELSE {}
    BY <1>5 DEF Fill, answer, filled, Note, At, Go, TaskTypes, Owes, Approves, Shape,
       Jobs, Words
  <2>4. \A c \in Calls : Fresh(c)' => Fresh(c)
    BY <1>5 DEF Fill, answer, filled, Note, At, approvals, Fresh, RowTypes
  <2>5. \A c \in Calls : ran'[c] # ran[c] => c \in Owes(t)
    BY <1>5, <2>2 DEF Fill, answer, filled, Note, RowTypes
  <2>6. adrift' \subseteq Calls
    BY <1>5 DEF Fill, answer, filled, Note, At, RowTypes, Shape
  <2>7. \A c \in Calls \ Owes(t) : /\ answers'[c] = answers[c]
                                   /\ c \in unsure' <=> c \in unsure
                                   /\ c \in adrift' <=> c \in adrift
    BY <1>5, <2>2 DEF Fill, answer, filled, Note, RowTypes
  <2>8. \A c \in Owes(t) : /\ answers'[c] <= 1 + Bound(c)'
                           /\ c \in adrift' => answers'[c] <= Bound(c)'
    BY <1>5, <2>2, OwesCalls DEF Fill, answer, filled, Note, At, RowTypes, Bound, Owed
  <2>9. \A c \in Owes(t)' : /\ ~Fresh(c)' /\ answers'[c] <= Bound(c)' /\ c \notin adrift'
                            /\ pc'[t] # "broken" => c \notin unsure'
                            /\ c \in Owes(t) \/ Fresh(c)
    <3> SUFFICES ASSUME NEW c \in Owes(t)'
                 PROVE  /\ ~Fresh(c)' /\ answers'[c] <= Bound(c)' /\ c \notin adrift'
                        /\ pc'[t] # "broken" => c \notin unsure'
                        /\ c \in Owes(t) \/ Fresh(c)
      OBVIOUS
    <3>1. c \in Calls
      BY Shape', TaskTypes' DEF TaskTypes, Jobs, Shape, Owes, Approves
    <3>2. c \in Owes(t) \/ Fresh(c)
      BY <1>5, <2>2, <2>3, <3>1 DEF Fill, answer, filled, Note, At, Go, TaskTypes, Fresh
    <3>3. ~Fresh(c)'
      BY <1>5, <2>2, <2>3, <3>1, <3>2 DEF Fill, answer, filled, Note, At, Go, TaskTypes,
         approvals, Fresh, RowTypes, Owed
    <3>4. /\ answers'[c] <= Bound(c)' /\ c \notin adrift'
          /\ pc'[t] # "broken" => c \notin unsure'
      BY <1>5, <2>2, <2>3, <3>1, <3>2 DEF Fill, answer, filled, Note, At, Go, TaskTypes,
         Bound, RowTypes, Owed
    <3> QED
      BY <3>2, <3>3, <3>4
  <2>10. pc'[t] = "fill" /\ Approves(t)' => job'[t].call \notin job'[t].calls
    BY <1>5, <2>2, OwesCalls DEF Fill, answer, filled, Note, At, Go, TaskTypes,
       Approves, Shape, Owed, Fresh
  <2> QED
    BY <2>1, <2>4, <2>5, <2>6, <2>7, <2>8, <2>9, <2>10, OwedFrom
<1>6. ASSUME NEW t \in Tasks, Say(t) PROVE Owed' /\ AnsweredOnce'
  <2>1. UNCHANGED <<status, answers, ran, adrift, unsure>>
    BY <1>6 DEF Say, approvals, history
  <2>2. \A u \in Tasks : /\ Owes(u)' \subseteq Owes(u)
                         /\ Owes(u)' # {} => pc'[u] = pc[u] \/ pc[u] # "broken"
    BY <1>6 DEF Say, At, Go, TaskTypes, Owes, Approves
  <2>3. \A u \in Tasks : pc'[u] = "fill" /\ Approves(u)' =>
                            pc[u] = "fill" /\ Approves(u) /\ job'[u] = job[u]
    BY <1>6 DEF Say, At, Go, TaskTypes, Approves
  <2> QED
    BY <2>1, <2>2, <2>3, OwedLess
<1>7. ASSUME NEW t \in Tasks, Reply(t) PROVE Owed' /\ AnsweredOnce'
  <2>1. UNCHANGED <<status, answers, ran, adrift, unsure>>
    BY <1>7 DEF Reply, Walk, approvals, history
  <2>2. \A u \in Tasks : /\ Owes(u)' \subseteq Owes(u)
                         /\ Owes(u)' # {} => pc'[u] = pc[u] \/ pc[u] # "broken"
    BY <1>7 DEF Reply, Walk, At, Go, TaskTypes, Owes, Approves
  <2>3. \A u \in Tasks : pc'[u] = "fill" /\ Approves(u)' =>
                            pc[u] = "fill" /\ Approves(u) /\ job'[u] = job[u]
    BY <1>7 DEF Reply, Walk, At, Go, TaskTypes, Approves
  <2> QED
    BY <2>1, <2>2, <2>3, OwedLess
<1>8. ASSUME NEW t \in Tasks, Ask(t) PROVE Owed' /\ AnsweredOnce'
  <2>1. UNCHANGED <<status, answers, ran, adrift, unsure>>
    BY <1>8 DEF Ask, Note, approvals, history
  <2>2. \A u \in Tasks : /\ Owes(u)' \subseteq Owes(u)
                         /\ Owes(u)' # {} => pc'[u] = pc[u] \/ pc[u] # "broken"
    BY <1>8 DEF Ask, Note, At, Go, TaskTypes, Owes, Approves
  <2>3. \A u \in Tasks : pc'[u] = "fill" /\ Approves(u)' =>
                            pc[u] = "fill" /\ Approves(u) /\ job'[u] = job[u]
    BY <1>8 DEF Ask, Note, At, Go, TaskTypes, Approves
  <2> QED
    BY <2>1, <2>2, <2>3, OwedLess
<1>9. ASSUME NEW t \in Tasks, Request(t) PROVE Owed' /\ AnsweredOnce'
  <2>1. \A u \in Tasks \ {t} : pc'[u] = pc[u] /\ job'[u] = job[u]
    BY <1>9 DEF Request, Note, Asks, At, Go, TaskTypes
  <2>2. Owes(t) = {}
    BY <1>9 DEF Request, Note, Asks, At, Owes, Approves, Shape
  <2>3. Owes(t)' = {}
    BY <1>9 DEF Request, Note, Asks, At, Go, TaskTypes, Owes, Approves, Shape, Jobs,
       Words
  <2>4. \A c \in Calls : Fresh(c)' => Fresh(c)
    BY <1>9 DEF Request, Note, Asks, At, Fresh, RowTypes
  <2>5. \A c \in Calls : ran'[c] # ran[c] => c \in Owes(t)
    BY <1>9, <2>2 DEF Request, Note, Asks, RowTypes
  <2>6. adrift' \subseteq Calls
    BY <1>9 DEF Request, Note, Asks, At, history, RowTypes, Shape
  <2>7. \A c \in Calls \ Owes(t) : /\ answers'[c] = answers[c]
                                   /\ c \in unsure' <=> c \in unsure
                                   /\ c \in adrift' <=> c \in adrift
    BY <1>9, <2>2 DEF Request, Note, Asks, history, RowTypes
  <2>8. \A c \in Owes(t) : /\ answers'[c] <= 1 + Bound(c)'
                           /\ c \in adrift' => answers'[c] <= Bound(c)'
    BY <1>9, <2>2, OwesCalls DEF Request, Note, Asks, At, history, RowTypes, Bound, Owed
  <2>9. \A c \in Owes(t)' : /\ ~Fresh(c)' /\ answers'[c] <= Bound(c)' /\ c \notin adrift'
                            /\ pc'[t] # "broken" => c \notin unsure'
                            /\ c \in Owes(t) \/ Fresh(c)
    <3> SUFFICES ASSUME NEW c \in Owes(t)'
                 PROVE  /\ ~Fresh(c)' /\ answers'[c] <= Bound(c)' /\ c \notin adrift'
                        /\ pc'[t] # "broken" => c \notin unsure'
                        /\ c \in Owes(t) \/ Fresh(c)
      OBVIOUS
    <3>1. c \in Calls
      BY Shape', TaskTypes' DEF TaskTypes, Jobs, Shape, Owes, Approves
    <3>2. c \in Owes(t) \/ Fresh(c)
      BY <1>9, <2>2, <2>3, <3>1 DEF Request, Note, Asks, At, Go, TaskTypes, Fresh
    <3>3. ~Fresh(c)'
      BY <1>9, <2>2, <2>3, <3>1, <3>2 DEF Request, Note, Asks, At, Go, TaskTypes, Fresh,
         RowTypes, Owed
    <3>4. /\ answers'[c] <= Bound(c)' /\ c \notin adrift'
          /\ pc'[t] # "broken" => c \notin unsure'
      BY <1>9, <2>2, <2>3, <3>1, <3>2 DEF Request, Note, Asks, At, Go, TaskTypes, Bound,
         RowTypes, Owed, history
    <3> QED
      BY <3>2, <3>3, <3>4
  <2>10. pc'[t] = "fill" /\ Approves(t)' => job'[t].call \notin job'[t].calls
    BY <1>9, <2>2, OwesCalls DEF Request, Note, Asks, At, Go, TaskTypes, Approves,
       Shape, Owed, Fresh
  <2> QED
    BY <2>1, <2>4, <2>5, <2>6, <2>7, <2>8, <2>9, <2>10, OwedFrom
<1>10. ASSUME NEW t \in Tasks, Look(t) PROVE Owed' /\ AnsweredOnce'
  <2>1. UNCHANGED <<status, answers, ran, adrift, unsure>>
    BY <1>10 DEF Look, Note, approvals, history
  <2>2. \A u \in Tasks : /\ Owes(u)' \subseteq Owes(u)
                         /\ Owes(u)' # {} => pc'[u] = pc[u] \/ pc[u] # "broken"
    BY <1>10 DEF Look, Note, At, Go, TaskTypes, Owes, Approves
  <2>3. \A u \in Tasks : pc'[u] = "fill" /\ Approves(u)' =>
                            pc[u] = "fill" /\ Approves(u) /\ job'[u] = job[u]
    BY <1>10 DEF Look, Note, At, Go, TaskTypes, Approves
  <2> QED
    BY <2>1, <2>2, <2>3, OwedLess
<1>11. ASSUME NEW t \in Tasks, Decide(t) PROVE Owed' /\ AnsweredOnce'
  <2>1. \A u \in Tasks \ {t} : pc'[u] = pc[u] /\ job'[u] = job[u]
    BY <1>11 DEF Decide, verdict, At, Go, TaskTypes
  <2>2. Owes(t) = {}
    BY <1>11 DEF Decide, verdict, At, Owes, Approves, Shape
  <2>3. Owes(t)' = IF pc'[t] = "leave" THEN {} ELSE {job[t].call}
    BY <1>11 DEF Decide, verdict, At, Go, TaskTypes, Owes, Approves, Shape, Jobs, Words
  <2>4. \A c \in Calls : Fresh(c)' => Fresh(c)
    BY <1>11 DEF Decide, verdict, At, approvals, Fresh, RowTypes
  <2>5. \A c \in Calls : ran'[c] # ran[c] => c \in Owes(t)
    BY <1>11, <2>2 DEF Decide, verdict, RowTypes
  <2>6. adrift' \subseteq Calls
    BY <1>11 DEF Decide, verdict, At, history, RowTypes, Shape
  <2>7. \A c \in Calls \ Owes(t) : /\ answers'[c] = answers[c]
                                   /\ c \in unsure' <=> c \in unsure
                                   /\ c \in adrift' <=> c \in adrift
    BY <1>11, <2>2 DEF Decide, verdict, history, RowTypes
  <2>8. \A c \in Owes(t) : /\ answers'[c] <= 1 + Bound(c)'
                           /\ c \in adrift' => answers'[c] <= Bound(c)'
    BY <1>11, <2>2, OwesCalls DEF Decide, verdict, At, history, RowTypes, Bound, Owed
  <2>9. \A c \in Owes(t)' : /\ ~Fresh(c)' /\ answers'[c] <= Bound(c)' /\ c \notin adrift'
                            /\ pc'[t] # "broken" => c \notin unsure'
                            /\ c \in Owes(t) \/ Fresh(c)
    <3> SUFFICES ASSUME NEW c \in Owes(t)'
                 PROVE  /\ ~Fresh(c)' /\ answers'[c] <= Bound(c)' /\ c \notin adrift'
                        /\ pc'[t] # "broken" => c \notin unsure'
                        /\ c \in Owes(t) \/ Fresh(c)
      OBVIOUS
    <3>1. c \in Calls
      BY Shape', TaskTypes' DEF TaskTypes, Jobs, Shape, Owes, Approves
    <3>2. c \in Owes(t) \/ Fresh(c)
      BY <1>11, <2>2, <2>3, <3>1 DEF Decide, verdict, At, Go, TaskTypes, Fresh
    <3>3. ~Fresh(c)'
      BY <1>11, <2>2, <2>3, <3>1, <3>2 DEF Decide, verdict, At, Go, TaskTypes,
         approvals, Fresh, RowTypes, Owed
    <3>4. /\ answers'[c] <= Bound(c)' /\ c \notin adrift'
          /\ pc'[t] # "broken" => c \notin unsure'
      BY <1>11, <2>2, <2>3, <3>1, <3>2 DEF Decide, verdict, At, Go, TaskTypes, Bound,
         RowTypes, Owed, history
    <3> QED
      BY <3>2, <3>3, <3>4
  <2>10. pc'[t] = "fill" /\ Approves(t)' => job'[t].call \notin job'[t].calls
    BY <1>11, <2>2, OwesCalls DEF Decide, verdict, At, Go, TaskTypes, Approves, Shape,
       Owed, Fresh
  <2> QED
    BY <2>1, <2>4, <2>5, <2>6, <2>7, <2>8, <2>9, <2>10, OwedFrom
<1>12. ASSUME NEW t \in Tasks, Refuse(t) PROVE Owed' /\ AnsweredOnce'
  <2>1. \A u \in Tasks \ {t} : pc'[u] = pc[u] /\ job'[u] = job[u]
    BY <1>12 DEF Refuse, Walk, answer, At, Go, TaskTypes
  <2>2. Owes(t) = {job[t].call}
    BY <1>12 DEF Refuse, Walk, answer, At, Owes, Approves, Shape
  <2>3. Owes(t)' = {}
    BY <1>12 DEF Refuse, Walk, answer, At, Go, TaskTypes, Owes, Approves, Shape, Jobs,
       Words
  <2>4. \A c \in Calls : Fresh(c)' => Fresh(c)
    BY <1>12 DEF Refuse, Walk, answer, At, approvals, Fresh, RowTypes
  <2>5. \A c \in Calls : ran'[c] # ran[c] => c \in Owes(t)
    BY <1>12, <2>2 DEF Refuse, Walk, answer, RowTypes
  <2>6. adrift' \subseteq Calls
    BY <1>12 DEF Refuse, Walk, answer, At, RowTypes, Shape
  <2>7. \A c \in Calls \ Owes(t) : /\ answers'[c] = answers[c]
                                   /\ c \in unsure' <=> c \in unsure
                                   /\ c \in adrift' <=> c \in adrift
    BY <1>12, <2>2 DEF Refuse, Walk, answer, RowTypes
  <2>8. \A c \in Owes(t) : /\ answers'[c] <= 1 + Bound(c)'
                           /\ c \in adrift' => answers'[c] <= Bound(c)'
    BY <1>12, <2>2, OwesCalls DEF Refuse, Walk, answer, At, RowTypes, Bound, Owed
  <2>9. \A c \in Owes(t)' : /\ ~Fresh(c)' /\ answers'[c] <= Bound(c)' /\ c \notin adrift'
                            /\ pc'[t] # "broken" => c \notin unsure'
                            /\ c \in Owes(t) \/ Fresh(c)
    <3> SUFFICES ASSUME NEW c \in Owes(t)'
                 PROVE  /\ ~Fresh(c)' /\ answers'[c] <= Bound(c)' /\ c \notin adrift'
                        /\ pc'[t] # "broken" => c \notin unsure'
                        /\ c \in Owes(t) \/ Fresh(c)
      OBVIOUS
    <3>1. c \in Calls
      BY Shape', TaskTypes' DEF TaskTypes, Jobs, Shape, Owes, Approves
    <3>2. c \in Owes(t) \/ Fresh(c)
      BY <1>12, <2>2, <2>3, <3>1 DEF Refuse, Walk, answer, At, Go, TaskTypes, Fresh
    <3>3. ~Fresh(c)'
      BY <1>12, <2>2, <2>3, <3>1, <3>2 DEF Refuse, Walk, answer, At, Go, TaskTypes,
         approvals, Fresh, RowTypes, Owed
    <3>4. /\ answers'[c] <= Bound(c)' /\ c \notin adrift'
          /\ pc'[t] # "broken" => c \notin unsure'
      BY <1>12, <2>2, <2>3, <3>1, <3>2 DEF Refuse, Walk, answer, At, Go, TaskTypes,
         Bound, RowTypes, Owed
    <3> QED
      BY <3>2, <3>3, <3>4
  <2>10. pc'[t] = "fill" /\ Approves(t)' => job'[t].call \notin job'[t].calls
    BY <1>12, <2>2, OwesCalls DEF Refuse, Walk, answer, At, Go, TaskTypes, Approves,
       Shape, Owed, Fresh
  <2> QED
    BY <2>1, <2>4, <2>5, <2>6, <2>7, <2>8, <2>9, <2>10, OwedFrom
<1>13. ASSUME NEW t \in Tasks, Expire(t) PROVE Owed' /\ AnsweredOnce'
  <2>1. \A u \in Tasks \ {t} : pc'[u] = pc[u] /\ job'[u] = job[u]
    BY <1>13 DEF Expire, filled, claim_pending, Pending, Note, At, Go, TaskTypes
  <2>2. Owes(t) = IF Approves(t) THEN {job[t].call} ELSE {}
    BY <1>13 DEF Expire, filled, claim_pending, Pending, Note, At, Owes, Approves, Shape
  <2>3. Owes(t)' = (Pending \cap overdue) \cup IF Approves(t) THEN {job[t].call} ELSE {}
    BY <1>13 DEF Expire, filled, claim_pending, Pending, Note, At, Go, TaskTypes, Owes,
       Approves, Shape, Jobs, Words
  <2>4. \A c \in Calls : Fresh(c)' => Fresh(c)
    BY <1>13 DEF Expire, filled, claim_pending, Pending, Note, At, Fresh, RowTypes
  <2>5. \A c \in Calls : ran'[c] # ran[c] => c \in Owes(t)
    BY <1>13, <2>2 DEF Expire, filled, claim_pending, Pending, Note, RowTypes
  <2>6. adrift' \subseteq Calls
    BY <1>13 DEF Expire, filled, claim_pending, Pending, Note, At, history, RowTypes,
       Shape
  <2>7. \A c \in Calls \ Owes(t) : /\ answers'[c] = answers[c]
                                   /\ c \in unsure' <=> c \in unsure
                                   /\ c \in adrift' <=> c \in adrift
    BY <1>13, <2>2 DEF Expire, filled, claim_pending, Pending, Note, history, RowTypes
  <2>8. \A c \in Owes(t) : /\ answers'[c] <= 1 + Bound(c)'
                           /\ c \in adrift' => answers'[c] <= Bound(c)'
    BY <1>13, <2>2, OwesCalls DEF Expire, filled, claim_pending, Pending, Note, At,
       history, RowTypes, Bound, Owed
  <2>9. \A c \in Owes(t)' : /\ ~Fresh(c)' /\ answers'[c] <= Bound(c)' /\ c \notin adrift'
                            /\ pc'[t] # "broken" => c \notin unsure'
                            /\ c \in Owes(t) \/ Fresh(c)
    <3> SUFFICES ASSUME NEW c \in Owes(t)'
                 PROVE  /\ ~Fresh(c)' /\ answers'[c] <= Bound(c)' /\ c \notin adrift'
                        /\ pc'[t] # "broken" => c \notin unsure'
                        /\ c \in Owes(t) \/ Fresh(c)
      OBVIOUS
    <3>1. c \in Calls
      BY Shape', TaskTypes' DEF TaskTypes, Jobs, Shape, Owes, Approves
    <3>2. c \in Owes(t) \/ Fresh(c)
      BY <1>13, <2>2, <2>3, <3>1 DEF Expire, filled, claim_pending, Pending, Note, At,
         Go, TaskTypes, Fresh
    <3>3. ~Fresh(c)'
      BY <1>13, <2>2, <2>3, <3>1, <3>2 DEF Expire, filled, claim_pending, Pending, Note,
         At, Go, TaskTypes, Fresh, RowTypes, Owed
    <3>4. /\ answers'[c] <= Bound(c)' /\ c \notin adrift'
          /\ pc'[t] # "broken" => c \notin unsure'
      BY <1>13, <2>2, <2>3, <3>1, <3>2 DEF Expire, filled, claim_pending, Pending, Note,
         At, Go, TaskTypes, Bound, RowTypes, Owed, history
    <3> QED
      BY <3>2, <3>3, <3>4
  <2>10. pc'[t] = "fill" /\ Approves(t)' => job'[t].call \notin job'[t].calls
    BY <1>13, <2>2, OwesCalls DEF Expire, filled, claim_pending, Pending, Note, At, Go,
       TaskTypes, Approves, Shape, Owed, Fresh
  <2> QED
    BY <2>1, <2>4, <2>5, <2>6, <2>7, <2>8, <2>9, <2>10, OwedFrom
<1>14. ASSUME NEW t \in Tasks, Siblings(t) PROVE Owed' /\ AnsweredOnce'
  <2>1. UNCHANGED <<status, answers, ran, adrift, unsure>>
    BY <1>14 DEF Siblings, undecided, Pending, Note, approvals, history
  <2>2. \A u \in Tasks : /\ Owes(u)' \subseteq Owes(u)
                         /\ Owes(u)' # {} => pc'[u] = pc[u] \/ pc[u] # "broken"
    BY <1>14 DEF Siblings, undecided, Pending, Note, At, Go, TaskTypes, Owes, Approves
  <2>3. \A u \in Tasks : pc'[u] = "fill" /\ Approves(u)' =>
                            pc[u] = "fill" /\ Approves(u) /\ job'[u] = job[u]
    BY <1>14 DEF Siblings, undecided, Pending, Note, At, Go, TaskTypes, Approves
  <2> QED
    BY <2>1, <2>2, <2>3, OwedLess
<1>15. ASSUME NEW t \in Tasks, Resume(t) PROVE Owed' /\ AnsweredOnce'
  <2>1. UNCHANGED <<status, answers, ran, adrift, unsure>>
    BY <1>15 DEF Resume, after, approvals, history
  <2>2. \A u \in Tasks : /\ Owes(u)' \subseteq Owes(u)
                         /\ Owes(u)' # {} => pc'[u] = pc[u] \/ pc[u] # "broken"
    BY <1>15 DEF Resume, after, At, Go, TaskTypes, Owes, Approves
  <2>3. \A u \in Tasks : pc'[u] = "fill" /\ Approves(u)' =>
                            pc[u] = "fill" /\ Approves(u) /\ job'[u] = job[u]
    BY <1>15 DEF Resume, after, At, Go, TaskTypes, Approves
  <2> QED
    BY <2>1, <2>2, <2>3, OwedLess
<1>16. ASSUME NEW t \in Tasks, Run(t) PROVE Owed' /\ AnsweredOnce'
  <2>1. \A u \in Tasks \ {t} : pc'[u] = pc[u] /\ job'[u] = job[u]
    BY <1>16 DEF Run, Walk, At, Go, TaskTypes
  <2>2. Owes(t) = {job[t].call}
    BY <1>16 DEF Run, Walk, At, Owes, Approves, Shape
  <2>3. Owes(t)' = {job[t].call}
    BY <1>16 DEF Run, Walk, At, Go, TaskTypes, Owes, Approves, Shape, Jobs, Words
  <2>4. \A c \in Calls : Fresh(c)' => Fresh(c)
    BY <1>16 DEF Run, Walk, At, approvals, Fresh, RowTypes
  <2>5. \A c \in Calls : ran'[c] # ran[c] => c \in Owes(t)
    BY <1>16, <2>2 DEF Run, Walk, RowTypes
  <2>6. adrift' \subseteq Calls
    BY <1>16 DEF Run, Walk, At, history, RowTypes, Shape
  <2>7. \A c \in Calls \ Owes(t) : /\ answers'[c] = answers[c]
                                   /\ c \in unsure' <=> c \in unsure
                                   /\ c \in adrift' <=> c \in adrift
    BY <1>16, <2>2 DEF Run, Walk, history, RowTypes
  <2>8. \A c \in Owes(t) : /\ answers'[c] <= 1 + Bound(c)'
                           /\ c \in adrift' => answers'[c] <= Bound(c)'
    BY <1>16, <2>2, OwesCalls DEF Run, Walk, At, history, RowTypes, Bound, Owed
  <2>9. \A c \in Owes(t)' : /\ ~Fresh(c)' /\ answers'[c] <= Bound(c)' /\ c \notin adrift'
                            /\ pc'[t] # "broken" => c \notin unsure'
                            /\ c \in Owes(t) \/ Fresh(c)
    <3> SUFFICES ASSUME NEW c \in Owes(t)'
                 PROVE  /\ ~Fresh(c)' /\ answers'[c] <= Bound(c)' /\ c \notin adrift'
                        /\ pc'[t] # "broken" => c \notin unsure'
                        /\ c \in Owes(t) \/ Fresh(c)
      OBVIOUS
    <3>1. c \in Calls
      BY Shape', TaskTypes' DEF TaskTypes, Jobs, Shape, Owes, Approves
    <3>2. c \in Owes(t) \/ Fresh(c)
      BY <1>16, <2>2, <2>3, <3>1 DEF Run, Walk, At, Go, TaskTypes, Fresh
    <3>3. ~Fresh(c)'
      BY <1>16, <2>2, <2>3, <3>1, <3>2 DEF Run, Walk, At, Go, TaskTypes, approvals,
         Fresh, RowTypes, Owed
    <3>4. /\ answers'[c] <= Bound(c)' /\ c \notin adrift'
          /\ pc'[t] # "broken" => c \notin unsure'
      BY <1>16, <2>2, <2>3, <3>1, <3>2 DEF Run, Walk, At, Go, TaskTypes, Bound,
         RowTypes, Owed, history
    <3> QED
      BY <3>2, <3>3, <3>4
  <2>10. pc'[t] = "fill" /\ Approves(t)' => job'[t].call \notin job'[t].calls
    BY <1>16, <2>2, OwesCalls DEF Run, Walk, At, Go, TaskTypes, Approves, Shape, Owed,
       Fresh
  <2> QED
    BY <2>1, <2>4, <2>5, <2>6, <2>7, <2>8, <2>9, <2>10, OwedFrom
<1>17. ASSUME NEW t \in Tasks, Record(t) PROVE Owed' /\ AnsweredOnce'
  <2>1. \A u \in Tasks \ {t} : pc'[u] = pc[u] /\ job'[u] = job[u]
    BY <1>17 DEF Record, answer, after, At, Go, TaskTypes
  <2>2. Owes(t) = {job[t].call}
    BY <1>17 DEF Record, answer, after, At, Owes, Approves, Shape
  <2>3. Owes(t)' = {}
    BY <1>17 DEF Record, answer, after, At, Go, TaskTypes, Owes, Approves, Shape, Jobs,
       Words
  <2>4. \A c \in Calls : Fresh(c)' => Fresh(c)
    BY <1>17 DEF Record, answer, after, At, approvals, Fresh, RowTypes
  <2>5. \A c \in Calls : ran'[c] # ran[c] => c \in Owes(t)
    BY <1>17, <2>2 DEF Record, answer, after, RowTypes
  <2>6. adrift' \subseteq Calls
    BY <1>17 DEF Record, answer, after, At, RowTypes, Shape
  <2>7. \A c \in Calls \ Owes(t) : /\ answers'[c] = answers[c]
                                   /\ c \in unsure' <=> c \in unsure
                                   /\ c \in adrift' <=> c \in adrift
    BY <1>17, <2>2 DEF Record, answer, after, RowTypes
  <2>8. \A c \in Owes(t) : /\ answers'[c] <= 1 + Bound(c)'
                           /\ c \in adrift' => answers'[c] <= Bound(c)'
    BY <1>17, <2>2, OwesCalls DEF Record, answer, after, At, RowTypes, Bound, Owed
  <2>9. \A c \in Owes(t)' : /\ ~Fresh(c)' /\ answers'[c] <= Bound(c)' /\ c \notin adrift'
                            /\ pc'[t] # "broken" => c \notin unsure'
                            /\ c \in Owes(t) \/ Fresh(c)
    <3> SUFFICES ASSUME NEW c \in Owes(t)'
                 PROVE  /\ ~Fresh(c)' /\ answers'[c] <= Bound(c)' /\ c \notin adrift'
                        /\ pc'[t] # "broken" => c \notin unsure'
                        /\ c \in Owes(t) \/ Fresh(c)
      OBVIOUS
    <3>1. c \in Calls
      BY Shape', TaskTypes' DEF TaskTypes, Jobs, Shape, Owes, Approves
    <3>2. c \in Owes(t) \/ Fresh(c)
      BY <1>17, <2>2, <2>3, <3>1 DEF Record, answer, after, At, Go, TaskTypes, Fresh
    <3>3. ~Fresh(c)'
      BY <1>17, <2>2, <2>3, <3>1, <3>2 DEF Record, answer, after, At, Go, TaskTypes,
         approvals, Fresh, RowTypes, Owed
    <3>4. /\ answers'[c] <= Bound(c)' /\ c \notin adrift'
          /\ pc'[t] # "broken" => c \notin unsure'
      BY <1>17, <2>2, <2>3, <3>1, <3>2 DEF Record, answer, after, At, Go, TaskTypes,
         Bound, RowTypes, Owed
    <3> QED
      BY <3>2, <3>3, <3>4
  <2>10. pc'[t] = "fill" /\ Approves(t)' => job'[t].call \notin job'[t].calls
    BY <1>17, <2>2, OwesCalls DEF Record, answer, after, At, Go, TaskTypes, Approves,
       Shape, Owed, Fresh
  <2> QED
    BY <2>1, <2>4, <2>5, <2>6, <2>7, <2>8, <2>9, <2>10, OwedFrom
<1>18. ASSUME NEW t \in Tasks, Interrupt(t) PROVE Owed' /\ AnsweredOnce'
  <2>1. UNCHANGED <<status, answers, ran, adrift, unsure>>
    BY <1>18 DEF Interrupt, streaming, Turns, approvals, history
  <2>2. \A u \in Tasks : /\ Owes(u)' \subseteq Owes(u)
                         /\ Owes(u)' # {} => pc'[u] = pc[u] \/ pc[u] # "broken"
    BY <1>18 DEF Interrupt, streaming, Turns, Go, TaskTypes, Owes, Approves
  <2>3. \A u \in Tasks : pc'[u] = "fill" /\ Approves(u)' =>
                            pc[u] = "fill" /\ Approves(u) /\ job'[u] = job[u]
    BY <1>18 DEF Interrupt, streaming, Turns, Go, TaskTypes, Approves
  <2> QED
    BY <2>1, <2>2, <2>3, OwedLess
<1>19. ASSUME NEW t \in Tasks, InterruptRun(t) PROVE Owed' /\ AnsweredOnce'
  <2>1. \A u \in Tasks \ {t} : pc'[u] = pc[u] /\ job'[u] = job[u]
    BY <1>19 DEF InterruptRun, Walk, At, Go, TaskTypes
  <2>2. Owes(t) = {job[t].call}
    BY <1>19 DEF InterruptRun, Walk, At, Owes, Approves, Shape
  <2>3. Owes(t)' = {job[t].call}
    BY <1>19 DEF InterruptRun, Walk, At, Go, TaskTypes, Owes, Approves, Shape, Jobs,
       Words
  <2>4. \A c \in Calls : Fresh(c)' => Fresh(c)
    BY <1>19 DEF InterruptRun, Walk, At, approvals, Fresh, RowTypes
  <2>5. \A c \in Calls : ran'[c] # ran[c] => c \in Owes(t)
    BY <1>19, <2>2 DEF InterruptRun, Walk, RowTypes
  <2>6. adrift' \subseteq Calls
    BY <1>19 DEF InterruptRun, Walk, At, history, RowTypes, Shape
  <2>7. \A c \in Calls \ Owes(t) : /\ answers'[c] = answers[c]
                                   /\ c \in unsure' <=> c \in unsure
                                   /\ c \in adrift' <=> c \in adrift
    BY <1>19, <2>2 DEF InterruptRun, Walk, history, RowTypes
  <2>8. \A c \in Owes(t) : /\ answers'[c] <= 1 + Bound(c)'
                           /\ c \in adrift' => answers'[c] <= Bound(c)'
    BY <1>19, <2>2, OwesCalls DEF InterruptRun, Walk, At, history, RowTypes, Bound, Owed
  <2>9. \A c \in Owes(t)' : /\ ~Fresh(c)' /\ answers'[c] <= Bound(c)' /\ c \notin adrift'
                            /\ pc'[t] # "broken" => c \notin unsure'
                            /\ c \in Owes(t) \/ Fresh(c)
    <3> SUFFICES ASSUME NEW c \in Owes(t)'
                 PROVE  /\ ~Fresh(c)' /\ answers'[c] <= Bound(c)' /\ c \notin adrift'
                        /\ pc'[t] # "broken" => c \notin unsure'
                        /\ c \in Owes(t) \/ Fresh(c)
      OBVIOUS
    <3>1. c \in Calls
      BY Shape', TaskTypes' DEF TaskTypes, Jobs, Shape, Owes, Approves
    <3>2. c \in Owes(t) \/ Fresh(c)
      BY <1>19, <2>2, <2>3, <3>1 DEF InterruptRun, Walk, At, Go, TaskTypes, Fresh
    <3>3. ~Fresh(c)'
      BY <1>19, <2>2, <2>3, <3>1, <3>2 DEF InterruptRun, Walk, At, Go, TaskTypes,
         approvals, Fresh, RowTypes, Owed
    <3>4. /\ answers'[c] <= Bound(c)' /\ c \notin adrift'
          /\ pc'[t] # "broken" => c \notin unsure'
      BY <1>19, <2>2, <2>3, <3>1, <3>2 DEF InterruptRun, Walk, At, Go, TaskTypes, Bound,
         RowTypes, Owed, history
    <3> QED
      BY <3>2, <3>3, <3>4
  <2>10. pc'[t] = "fill" /\ Approves(t)' => job'[t].call \notin job'[t].calls
    BY <1>19, <2>2, OwesCalls DEF InterruptRun, Walk, At, Go, TaskTypes, Approves,
       Shape, Owed, Fresh
  <2> QED
    BY <2>1, <2>4, <2>5, <2>6, <2>7, <2>8, <2>9, <2>10, OwedFrom
<1>20. ASSUME NEW t \in Tasks, InterruptNote(t) PROVE Owed' /\ AnsweredOnce'
  <2>1. \A u \in Tasks \ {t} : pc'[u] = pc[u] /\ job'[u] = job[u]
    BY <1>20 DEF InterruptNote, Walk, answer, Fault, At, Go, TaskTypes
  <2>2. Owes(t) = {job[t].call}
    BY <1>20 DEF InterruptNote, Walk, answer, Fault, At, Owes, Approves, Shape
  <2>3. Owes(t)' = IF pc'[t] = "leave" THEN {} ELSE {job[t].call}
    BY <1>20 DEF InterruptNote, Walk, answer, Fault, At, Go, TaskTypes, Owes, Approves,
       Shape, Jobs, Words
  <2>4. \A c \in Calls : Fresh(c)' => Fresh(c)
    BY <1>20 DEF InterruptNote, Walk, answer, Fault, At, approvals, Fresh, RowTypes
  <2>5. \A c \in Calls : ran'[c] # ran[c] => c \in Owes(t)
    BY <1>20, <2>2 DEF InterruptNote, Walk, answer, Fault, RowTypes
  <2>6. adrift' \subseteq Calls
    BY <1>20 DEF InterruptNote, Walk, answer, Fault, At, history, RowTypes, Shape
  <2>7. \A c \in Calls \ Owes(t) : /\ answers'[c] = answers[c]
                                   /\ c \in unsure' <=> c \in unsure
                                   /\ c \in adrift' <=> c \in adrift
    BY <1>20, <2>2 DEF InterruptNote, Walk, answer, Fault, history, RowTypes
  <2>8. \A c \in Owes(t) : /\ answers'[c] <= 1 + Bound(c)'
                           /\ c \in adrift' => answers'[c] <= Bound(c)'
    BY <1>20, <2>2, OwesCalls DEF InterruptNote, Walk, answer, Fault, At, history,
       RowTypes, Bound, Owed
  <2>9. \A c \in Owes(t)' : /\ ~Fresh(c)' /\ answers'[c] <= Bound(c)' /\ c \notin adrift'
                            /\ pc'[t] # "broken" => c \notin unsure'
                            /\ c \in Owes(t) \/ Fresh(c)
    <3> SUFFICES ASSUME NEW c \in Owes(t)'
                 PROVE  /\ ~Fresh(c)' /\ answers'[c] <= Bound(c)' /\ c \notin adrift'
                        /\ pc'[t] # "broken" => c \notin unsure'
                        /\ c \in Owes(t) \/ Fresh(c)
      OBVIOUS
    <3>1. c \in Calls
      BY Shape', TaskTypes' DEF TaskTypes, Jobs, Shape, Owes, Approves
    <3>2. c \in Owes(t) \/ Fresh(c)
      BY <1>20, <2>2, <2>3, <3>1 DEF InterruptNote, Walk, answer, Fault, At, Go,
         TaskTypes, Fresh
    <3>3. ~Fresh(c)'
      BY <1>20, <2>2, <2>3, <3>1, <3>2 DEF InterruptNote, Walk, answer, Fault, At, Go,
         TaskTypes, approvals, Fresh, RowTypes, Owed
    <3>4. /\ answers'[c] <= Bound(c)' /\ c \notin adrift'
          /\ pc'[t] # "broken" => c \notin unsure'
      BY <1>20, <2>2, <2>3, <3>1, <3>2 DEF InterruptNote, Walk, answer, Fault, At, Go,
         TaskTypes, Bound, RowTypes, Owed, history
    <3> QED
      BY <3>2, <3>3, <3>4
  <2>10. pc'[t] = "fill" /\ Approves(t)' => job'[t].call \notin job'[t].calls
    BY <1>20, <2>2, OwesCalls DEF InterruptNote, Walk, answer, Fault, At, Go, TaskTypes,
       Approves, Shape, Owed, Fresh
  <2> QED
    BY <2>1, <2>4, <2>5, <2>6, <2>7, <2>8, <2>9, <2>10, OwedFrom
<1>21. ASSUME NEW t \in Tasks, Excuse(t) PROVE Owed' /\ AnsweredOnce'
  <2>1. \A u \in Tasks \ {t} : pc'[u] = pc[u] /\ job'[u] = job[u]
    BY <1>21 DEF Excuse, Walk, answer, At, Go, TaskTypes
  <2>2. Owes(t) = {job[t].call}
    BY <1>21 DEF Excuse, Walk, answer, At, Owes, Approves, Shape
  <2>3. Owes(t)' = {}
    BY <1>21 DEF Excuse, Walk, answer, At, Go, TaskTypes, Owes, Approves, Shape, Jobs,
       Words
  <2>4. \A c \in Calls : Fresh(c)' => Fresh(c)
    BY <1>21 DEF Excuse, Walk, answer, At, approvals, Fresh, RowTypes
  <2>5. \A c \in Calls : ran'[c] # ran[c] => c \in Owes(t)
    BY <1>21, <2>2 DEF Excuse, Walk, answer, RowTypes
  <2>6. adrift' \subseteq Calls
    BY <1>21 DEF Excuse, Walk, answer, At, RowTypes, Shape
  <2>7. \A c \in Calls \ Owes(t) : /\ answers'[c] = answers[c]
                                   /\ c \in unsure' <=> c \in unsure
                                   /\ c \in adrift' <=> c \in adrift
    BY <1>21, <2>2 DEF Excuse, Walk, answer, RowTypes
  <2>8. \A c \in Owes(t) : /\ answers'[c] <= 1 + Bound(c)'
                           /\ c \in adrift' => answers'[c] <= Bound(c)'
    BY <1>21, <2>2, OwesCalls DEF Excuse, Walk, answer, At, RowTypes, Bound, Owed
  <2>9. \A c \in Owes(t)' : /\ ~Fresh(c)' /\ answers'[c] <= Bound(c)' /\ c \notin adrift'
                            /\ pc'[t] # "broken" => c \notin unsure'
                            /\ c \in Owes(t) \/ Fresh(c)
    <3> SUFFICES ASSUME NEW c \in Owes(t)'
                 PROVE  /\ ~Fresh(c)' /\ answers'[c] <= Bound(c)' /\ c \notin adrift'
                        /\ pc'[t] # "broken" => c \notin unsure'
                        /\ c \in Owes(t) \/ Fresh(c)
      OBVIOUS
    <3>1. c \in Calls
      BY Shape', TaskTypes' DEF TaskTypes, Jobs, Shape, Owes, Approves
    <3>2. c \in Owes(t) \/ Fresh(c)
      BY <1>21, <2>2, <2>3, <3>1 DEF Excuse, Walk, answer, At, Go, TaskTypes, Fresh
    <3>3. ~Fresh(c)'
      BY <1>21, <2>2, <2>3, <3>1, <3>2 DEF Excuse, Walk, answer, At, Go, TaskTypes,
         approvals, Fresh, RowTypes, Owed
    <3>4. /\ answers'[c] <= Bound(c)' /\ c \notin adrift'
          /\ pc'[t] # "broken" => c \notin unsure'
      BY <1>21, <2>2, <2>3, <3>1, <3>2 DEF Excuse, Walk, answer, At, Go, TaskTypes,
         Bound, RowTypes, Owed
    <3> QED
      BY <3>2, <3>3, <3>4
  <2>10. pc'[t] = "fill" /\ Approves(t)' => job'[t].call \notin job'[t].calls
    BY <1>21, <2>2, OwesCalls DEF Excuse, Walk, answer, At, Go, TaskTypes, Approves,
       Shape, Owed, Fresh
  <2> QED
    BY <2>1, <2>4, <2>5, <2>6, <2>7, <2>8, <2>9, <2>10, OwedFrom
<1>22. ASSUME NEW t \in Tasks, End(t) PROVE Owed' /\ AnsweredOnce'
  <2>1. UNCHANGED <<status, answers, ran, adrift, unsure>>
    BY <1>22 DEF End, approvals, history
  <2>2. \A u \in Tasks : /\ Owes(u)' \subseteq Owes(u)
                         /\ Owes(u)' # {} => pc'[u] = pc[u] \/ pc[u] # "broken"
    BY <1>22 DEF End, At, Go, TaskTypes, Owes, Approves
  <2>3. \A u \in Tasks : pc'[u] = "fill" /\ Approves(u)' =>
                            pc[u] = "fill" /\ Approves(u) /\ job'[u] = job[u]
    BY <1>22 DEF End, At, Go, TaskTypes, Approves
  <2> QED
    BY <2>1, <2>2, <2>3, OwedLess
<1>23. ASSUME NEW t \in Tasks, Terminate(t) PROVE Owed' /\ AnsweredOnce'
  <2>1. \A u \in Tasks \ {t} : pc'[u] = pc[u] /\ job'[u] = job[u]
    BY <1>23 DEF Terminate, filled, claim_pending, Pending, Note, At, Go, TaskTypes
  <2>2. Owes(t) = {}
    BY <1>23 DEF Terminate, filled, claim_pending, Pending, Note, At, Owes, Approves,
       Shape
  <2>3. Owes(t)' = Pending
    BY <1>23 DEF Terminate, filled, claim_pending, Pending, Note, At, Go, TaskTypes,
       Owes, Approves, Shape, Jobs, Words
  <2>4. \A c \in Calls : Fresh(c)' => Fresh(c)
    BY <1>23 DEF Terminate, filled, claim_pending, Pending, Note, At, Fresh, RowTypes
  <2>5. \A c \in Calls : ran'[c] # ran[c] => c \in Owes(t)
    BY <1>23, <2>2 DEF Terminate, filled, claim_pending, Pending, Note, RowTypes
  <2>6. adrift' \subseteq Calls
    BY <1>23 DEF Terminate, filled, claim_pending, Pending, Note, At, history, RowTypes,
       Shape
  <2>7. \A c \in Calls \ Owes(t) : /\ answers'[c] = answers[c]
                                   /\ c \in unsure' <=> c \in unsure
                                   /\ c \in adrift' <=> c \in adrift
    BY <1>23, <2>2 DEF Terminate, filled, claim_pending, Pending, Note, history,
       RowTypes
  <2>8. \A c \in Owes(t) : /\ answers'[c] <= 1 + Bound(c)'
                           /\ c \in adrift' => answers'[c] <= Bound(c)'
    BY <1>23, <2>2, OwesCalls DEF Terminate, filled, claim_pending, Pending, Note, At,
       history, RowTypes, Bound, Owed
  <2>9. \A c \in Owes(t)' : /\ ~Fresh(c)' /\ answers'[c] <= Bound(c)' /\ c \notin adrift'
                            /\ pc'[t] # "broken" => c \notin unsure'
                            /\ c \in Owes(t) \/ Fresh(c)
    <3> SUFFICES ASSUME NEW c \in Owes(t)'
                 PROVE  /\ ~Fresh(c)' /\ answers'[c] <= Bound(c)' /\ c \notin adrift'
                        /\ pc'[t] # "broken" => c \notin unsure'
                        /\ c \in Owes(t) \/ Fresh(c)
      OBVIOUS
    <3>1. c \in Calls
      BY Shape', TaskTypes' DEF TaskTypes, Jobs, Shape, Owes, Approves
    <3>2. c \in Owes(t) \/ Fresh(c)
      BY <1>23, <2>2, <2>3, <3>1 DEF Terminate, filled, claim_pending, Pending, Note,
         At, Go, TaskTypes, Fresh
    <3>3. ~Fresh(c)'
      BY <1>23, <2>2, <2>3, <3>1, <3>2 DEF Terminate, filled, claim_pending, Pending,
         Note, At, Go, TaskTypes, Fresh, RowTypes, Owed
    <3>4. /\ answers'[c] <= Bound(c)' /\ c \notin adrift'
          /\ pc'[t] # "broken" => c \notin unsure'
      BY <1>23, <2>2, <2>3, <3>1, <3>2 DEF Terminate, filled, claim_pending, Pending,
         Note, At, Go, TaskTypes, Bound, RowTypes, Owed, history
    <3> QED
      BY <3>2, <3>3, <3>4
  <2>10. pc'[t] = "fill" /\ Approves(t)' => job'[t].call \notin job'[t].calls
    BY <1>23, <2>2, OwesCalls DEF Terminate, filled, claim_pending, Pending, Note, At,
       Go, TaskTypes, Approves, Shape, Owed, Fresh
  <2> QED
    BY <2>1, <2>4, <2>5, <2>6, <2>7, <2>8, <2>9, <2>10, OwedFrom
<1>24. ASSUME NEW t \in Tasks, Attach(t) PROVE Owed' /\ AnsweredOnce'
  <2>1. \A u \in Tasks : Owes(u)' \subseteq Owes(u) /\ (Owes(u)' # {} => pc'[u] = pc[u])
    BY <1>24, AttachGoes DEF Owes, Approves
  <2> QED
    BY <1>24, <2>1, AttachGoes, OwedLess DEF Approves
<1>25. ASSUME NEW t \in Tasks, Start(t) PROVE Owed' /\ AnsweredOnce'
  <2>1. UNCHANGED <<status, answers, ran, adrift, unsure>>
    BY <1>25 DEF Start, on, to_chat, approvals, history
  <2>2. \A u \in Tasks : /\ Owes(u)' \subseteq Owes(u)
                         /\ Owes(u)' # {} => pc'[u] = pc[u] \/ pc[u] # "broken"
    BY <1>25 DEF Start, on, to_chat, At, Go, TaskTypes, Owes, Approves
  <2>3. \A u \in Tasks : pc'[u] = "fill" /\ Approves(u)' =>
                            pc[u] = "fill" /\ Approves(u) /\ job'[u] = job[u]
    BY <1>25 DEF Start, on, to_chat, At, Go, TaskTypes, Approves
  <2> QED
    BY <2>1, <2>2, <2>3, OwedLess
<1>26. ASSUME NEW t \in Tasks, Detach(t) PROVE Owed' /\ AnsweredOnce'
  <2>1. UNCHANGED <<status, answers, ran, adrift, unsure>>
    BY <1>26 DEF Detach, Walk, to_chat, approvals, history
  <2>2. \A u \in Tasks : /\ Owes(u)' \subseteq Owes(u)
                         /\ Owes(u)' # {} => pc'[u] = pc[u] \/ pc[u] # "broken"
    BY <1>26 DEF Detach, Walk, to_chat, At, Go, TaskTypes, Owes, Approves
  <2>3. \A u \in Tasks : pc'[u] = "fill" /\ Approves(u)' =>
                            pc[u] = "fill" /\ Approves(u) /\ job'[u] = job[u]
    BY <1>26 DEF Detach, Walk, to_chat, At, Go, TaskTypes, Approves
  <2> QED
    BY <2>1, <2>2, <2>3, OwedLess
<1>27. ASSUME NEW t \in Tasks, HangUp(t) PROVE Owed' /\ AnsweredOnce'
  <2>1. UNCHANGED <<status, answers, ran, adrift, unsure>>
    BY <1>27 DEF HangUp, to_chat, Fault, approvals, history
  <2>2. \A u \in Tasks : /\ Owes(u)' \subseteq Owes(u)
                         /\ Owes(u)' # {} => pc'[u] = pc[u] \/ pc[u] # "broken"
    BY <1>27 DEF HangUp, to_chat, Fault, At, Go, TaskTypes, Owes, Approves
  <2>3. \A u \in Tasks : pc'[u] = "fill" /\ Approves(u)' =>
                            pc[u] = "fill" /\ Approves(u) /\ job'[u] = job[u]
    BY <1>27 DEF HangUp, to_chat, Fault, At, Go, TaskTypes, Approves
  <2> QED
    BY <2>1, <2>2, <2>3, OwedLess
<1>28. ASSUME NEW t \in Tasks, Fail(t) PROVE Owed' /\ AnsweredOnce'
  <2>1. UNCHANGED <<status, answers, ran, adrift, unsure>>
    BY <1>28 DEF Fail, Fault, Note, NoJob, approvals, history
  <2>2. \A u \in Tasks : /\ Owes(u)' \subseteq Owes(u)
                         /\ Owes(u)' # {} => pc'[u] = pc[u] \/ pc[u] # "broken"
    BY <1>28 DEF Fail, Fault, Note, NoJob, At, Go, TaskTypes, Owes, Approves
  <2>3. \A u \in Tasks : pc'[u] = "fill" /\ Approves(u)' =>
                            pc[u] = "fill" /\ Approves(u) /\ job'[u] = job[u]
    BY <1>28 DEF Fail, Fault, Note, NoJob, At, Go, TaskTypes, Approves
  <2> QED
    BY <2>1, <2>2, <2>3, OwedLess
<1>29. ASSUME NEW t \in Tasks, Crash(t) PROVE Owed' /\ AnsweredOnce'
  <2>0. \E lost \in {{}, adrift} : adrift' = adrift \ lost
    BY <1>29 DEF Crash
  <2>1. UNCHANGED <<status, answers, ran, unsure>> /\ adrift' \subseteq adrift
    BY <1>29, <2>0 DEF Crash, approvals
  <2>2. /\ \A u \in Tasks \ {t} : pc'[u] = pc[u] /\ job'[u] = job[u]
        /\ pc'[t] \in {"idle", "off"}
    BY <1>29 DEF Crash, Go, Note, TaskTypes
  <2>3. /\ \A u \in Tasks \ {t} : Owes(u)' = Owes(u) /\ (Approves(u)' <=> Approves(u))
        /\ Owes(t)' = {}
    BY <2>2, OthersOwe DEF Owes
  <2> QED
    BY <2>1, <2>2, <2>3 DEF Owed, AnsweredOnce, Fresh, Bound, RowTypes
<1>30. ASSUME NEW c \in Calls, BecomeOverdue(c) PROVE Owed' /\ AnsweredOnce'
  <2>1. UNCHANGED <<status, answers, ran, adrift, unsure>>
    BY <1>30 DEF BecomeOverdue, Pending, history
  <2>2. \A u \in Tasks : /\ Owes(u)' \subseteq Owes(u)
                         /\ Owes(u)' # {} => pc'[u] = pc[u] \/ pc[u] # "broken"
    BY <1>30 DEF BecomeOverdue, Pending, TaskTypes, Owes, Approves
  <2>3. \A u \in Tasks : pc'[u] = "fill" /\ Approves(u)' =>
                            pc[u] = "fill" /\ Approves(u) /\ job'[u] = job[u]
    BY <1>30 DEF BecomeOverdue, Pending, TaskTypes, Approves
  <2> QED
    BY <2>1, <2>2, <2>3, OwedLess
<1>31. ASSUME NEW c \in Calls, Land(c) PROVE Owed' /\ AnsweredOnce'
  BY <1>31 DEF Land, answer, Fault, approvals, voice, budgets, RowTypes, TaskTypes,
     Jobs, Shape, Asks, Owed, Owes, Approves, Fresh, Bound, AnsweredOnce
<1>32. ASSUME LockExpires PROVE Owed' /\ AnsweredOnce'
  <2>1. UNCHANGED <<status, answers, ran, adrift, unsure>>
    BY <1>32 DEF LockExpires, approvals, history
  <2>2. \A u \in Tasks : /\ Owes(u)' \subseteq Owes(u)
                         /\ Owes(u)' # {} => pc'[u] = pc[u] \/ pc[u] # "broken"
    BY <1>32 DEF LockExpires, TaskTypes, Owes, Approves
  <2>3. \A u \in Tasks : pc'[u] = "fill" /\ Approves(u)' =>
                            pc[u] = "fill" /\ Approves(u) /\ job'[u] = job[u]
    BY <1>32 DEF LockExpires, TaskTypes, Approves
  <2> QED
    BY <2>1, <2>2, <2>3, OwedLess
<1>33. CASE UNCHANGED vars
  <2>1. UNCHANGED <<status, answers, ran, adrift, unsure, pc, job>>
    BY <1>33 DEF vars, approvals, history
  <2> QED
    BY <2>1, OwedLess DEF Owes, Approves

<1> QED
  BY <1>1, <1>2, <1>3, <1>4, <1>5, <1>6, <1>7, <1>8, <1>9, <1>10, <1>11, <1>12, <1>13,
     <1>14, <1>15, <1>16, <1>17, <1>18, <1>19, <1>20, <1>21, <1>22, <1>23, <1>24, <1>25,
     <1>26, <1>27, <1>28, <1>29, <1>30, <1>31, <1>32, <1>33 DEF Next, Turn, Decision,
     Cancel, Ending, Voice

-----------------------------------------------------------------------------
(* Runs.                                                                   *)

\* A task that claimed a call with a yes is the one that will run it.
Claimed == {"expire", "fill", "siblings", "resume", "run"}
Runs ==
    \A t \in Tasks :
        Approves(t) /\ pc[t] \in Claimed =>
            status[job[t].call] = "APPROVED" /\ ran[job[t].call] = 0

LEMMA RunsStep ==
    TypeOK /\ Shape /\ Asks /\ Owed /\ Runs /\ ApprovedRunsOnce /\ [Next]_vars
        => Runs' /\ ApprovedRunsOnce'
<1> SUFFICES ASSUME RowTypes, TaskTypes, Shape, Asks, Owed, Runs, ApprovedRunsOnce, [Next]_vars
             PROVE  Runs' /\ ApprovedRunsOnce'
  BY DEF TypeOK, RowTypes, TaskTypes
<1>1. ASSUME NEW t \in Tasks, Acquire(t) PROVE Runs' /\ ApprovedRunsOnce'
  BY <1>1 DEF Acquire, Take, first, Note, NoJob, At, Go, approvals, history, voice,
     budgets, RowTypes, TaskTypes, Jobs, Shape, Asks, Owed, Owes, Approves, Fresh,
     Claimed, Runs, ApprovedRunsOnce
<1>2. ASSUME NEW t \in Tasks, Check(t) PROVE Runs' /\ ApprovedRunsOnce'
  <2>1. UNCHANGED <<status, ran>>
    BY <1>2 DEF Check, approvals
  <2> QED
    BY <1>2, <2>1, CheckGoes DEF Runs, ApprovedRunsOnce, Approves, Claimed
<1>3. ASSUME NEW t \in Tasks, Leave(t) PROVE Runs' /\ ApprovedRunsOnce'
  BY <1>3 DEF Leave, Note, NoJob, At, Go, approvals, history, voice, budgets, RowTypes,
     TaskTypes, Jobs, Shape, Asks, Owed, Owes, Approves, Fresh, Claimed, Runs,
     ApprovedRunsOnce
<1>4. ASSUME NEW t \in Tasks, Supersede(t) PROVE Runs' /\ ApprovedRunsOnce'
  BY <1>4 DEF Supersede, claim_pending, filled, Pending, Note, At, Go, history, voice,
     budgets, RowTypes, TaskTypes, Jobs, Shape, Asks, Owed, Owes, Approves, Fresh,
     Claimed, Runs, ApprovedRunsOnce
<1>5. ASSUME NEW t \in Tasks, Fill(t) PROVE Runs' /\ ApprovedRunsOnce'
  BY <1>5 DEF Fill, answer, filled, Note, At, Go, approvals, voice, budgets, RowTypes,
     TaskTypes, Jobs, Shape, Asks, Owed, Owes, Approves, Fresh, Claimed, Runs,
     ApprovedRunsOnce
<1>6. ASSUME NEW t \in Tasks, Say(t) PROVE Runs' /\ ApprovedRunsOnce'
  <2>1. UNCHANGED <<status, ran>>
    BY <1>6 DEF Say, approvals, history
  <2>2. \A u \in Tasks : pc'[u] \in Claimed => pc[u] \in Claimed /\ job'[u] = job[u]
    BY <1>6 DEF Say, At, Go, TaskTypes, Claimed
  <2> QED
    BY <2>1, <2>2 DEF Runs, ApprovedRunsOnce, Approves
<1>7. ASSUME NEW t \in Tasks, Reply(t) PROVE Runs' /\ ApprovedRunsOnce'
  <2>1. UNCHANGED <<status, ran>>
    BY <1>7 DEF Reply, Walk, approvals, history
  <2>2. \A u \in Tasks : pc'[u] \in Claimed => pc[u] \in Claimed /\ job'[u] = job[u]
    BY <1>7 DEF Reply, Walk, At, Go, TaskTypes, Claimed
  <2> QED
    BY <2>1, <2>2 DEF Runs, ApprovedRunsOnce, Approves
<1>8. ASSUME NEW t \in Tasks, Ask(t) PROVE Runs' /\ ApprovedRunsOnce'
  <2>1. UNCHANGED <<status, ran>>
    BY <1>8 DEF Ask, Note, approvals, history
  <2>2. \A u \in Tasks : pc'[u] \in Claimed => pc[u] \in Claimed /\ job'[u] = job[u]
    BY <1>8 DEF Ask, Note, At, Go, TaskTypes, Claimed
  <2> QED
    BY <2>1, <2>2 DEF Runs, ApprovedRunsOnce, Approves
<1>9. ASSUME NEW t \in Tasks, Request(t) PROVE Runs' /\ ApprovedRunsOnce'
  BY <1>9 DEF Request, Note, At, Go, history, voice, budgets, RowTypes, TaskTypes, Jobs,
     Shape, Asks, Owed, Owes, Approves, Fresh, Claimed, Runs, ApprovedRunsOnce
<1>10. ASSUME NEW t \in Tasks, Look(t) PROVE Runs' /\ ApprovedRunsOnce'
  BY <1>10 DEF Look, Note, At, Go, approvals, history, voice, budgets, RowTypes,
     TaskTypes, Jobs, Shape, Asks, Owed, Owes, Approves, Fresh, Claimed, Runs,
     ApprovedRunsOnce
<1>11. ASSUME NEW t \in Tasks, Decide(t) PROVE Runs' /\ ApprovedRunsOnce'
  BY <1>11 DEF Decide, verdict, At, Go, approvals, history, voice, budgets, RowTypes,
     TaskTypes, Jobs, Shape, Asks, Owed, Owes, Approves, Fresh, Claimed, Runs,
     ApprovedRunsOnce
<1>12. ASSUME NEW t \in Tasks, Refuse(t) PROVE Runs' /\ ApprovedRunsOnce'
  BY <1>12 DEF Refuse, Walk, answer, At, Go, approvals, voice, budgets, RowTypes,
     TaskTypes, Jobs, Shape, Asks, Owed, Owes, Approves, Fresh, Claimed, Runs,
     ApprovedRunsOnce
<1>13. ASSUME NEW t \in Tasks, Expire(t) PROVE Runs' /\ ApprovedRunsOnce'
  BY <1>13 DEF Expire, claim_pending, filled, Pending, Note, At, Go, history, voice,
     budgets, RowTypes, TaskTypes, Jobs, Shape, Asks, Owed, Owes, Approves, Fresh,
     Claimed, Runs, ApprovedRunsOnce
<1>14. ASSUME NEW t \in Tasks, Siblings(t) PROVE Runs' /\ ApprovedRunsOnce'
  BY <1>14 DEF Siblings, undecided, Pending, Note, At, Go, approvals, history, voice,
     budgets, RowTypes, TaskTypes, Jobs, Shape, Asks, Owed, Owes, Approves, Fresh,
     Claimed, Runs, ApprovedRunsOnce
<1>15. ASSUME NEW t \in Tasks, Resume(t) PROVE Runs' /\ ApprovedRunsOnce'
  BY <1>15 DEF Resume, after, At, Go, approvals, history, voice, budgets, RowTypes,
     TaskTypes, Jobs, Shape, Asks, Owed, Owes, Approves, Fresh, Claimed, Runs,
     ApprovedRunsOnce
<1>16. ASSUME NEW t \in Tasks, Run(t) PROVE Runs' /\ ApprovedRunsOnce'
  <2>1. pc[t] = "run" /\ Approves(t) /\ job[t].call \in Calls
    BY <1>16 DEF Run, Walk, At, Shape, Approves
  <2>2. status[job[t].call] = "APPROVED" /\ ran[job[t].call] = 0
    BY <2>1 DEF Runs, Claimed
  <2>3. \A u \in Tasks \ {t} : Approves(u) /\ pc[u] \in Claimed => job[u].call # job[t].call
    BY <2>1 DEF Owed, Owes, Claimed
  <2>4. /\ status' = status /\ pc'[t] \notin Claimed /\ job' = job
        /\ \A u \in Tasks \ {t} : pc'[u] = pc[u]
    BY <1>16 DEF Run, Walk, Go, TaskTypes, approvals, Claimed
  <2>5. /\ ran'[job[t].call] \in 0 .. 1
        /\ \A c \in Calls \ {job[t].call} : ran'[c] = ran[c]
    BY <1>16, <2>1, <2>2 DEF Run, Walk, RowTypes
  <2>6. \A u \in Tasks \ {t} : Approves(u) => job[u].call \in Calls
    BY DEF Shape, Approves
  <2> QED
    BY <2>1, <2>2, <2>3, <2>4, <2>5, <2>6 DEF Runs, ApprovedRunsOnce, Approves
<1>17. ASSUME NEW t \in Tasks, Record(t) PROVE Runs' /\ ApprovedRunsOnce'
  BY <1>17 DEF Record, answer, after, At, Go, approvals, voice, budgets, RowTypes,
     TaskTypes, Jobs, Shape, Asks, Owed, Owes, Approves, Fresh, Claimed, Runs,
     ApprovedRunsOnce
<1>18. ASSUME NEW t \in Tasks, Interrupt(t) PROVE Runs' /\ ApprovedRunsOnce'
  <2>1. UNCHANGED <<status, ran>>
    BY <1>18 DEF Interrupt, streaming, Turns, approvals, history
  <2>2. \A u \in Tasks : pc'[u] \in Claimed => pc[u] \in Claimed /\ job'[u] = job[u]
    BY <1>18 DEF Interrupt, streaming, Turns, Go, TaskTypes, Claimed
  <2> QED
    BY <2>1, <2>2 DEF Runs, ApprovedRunsOnce, Approves
<1>19. ASSUME NEW t \in Tasks, InterruptRun(t) PROVE Runs' /\ ApprovedRunsOnce'
  <2>1. pc[t] = "run" /\ Approves(t) /\ job[t].call \in Calls
    BY <1>19 DEF InterruptRun, Walk, At, Shape, Approves
  <2>2. status[job[t].call] = "APPROVED" /\ ran[job[t].call] = 0
    BY <2>1 DEF Runs, Claimed
  <2>3. \A u \in Tasks \ {t} : Approves(u) /\ pc[u] \in Claimed => job[u].call # job[t].call
    BY <2>1 DEF Owed, Owes, Claimed
  <2>4. /\ status' = status /\ pc'[t] \notin Claimed /\ job' = job
        /\ \A u \in Tasks \ {t} : pc'[u] = pc[u]
    BY <1>19 DEF InterruptRun, Walk, Go, TaskTypes, approvals, Claimed
  <2>5. /\ ran'[job[t].call] \in 0 .. 1
        /\ \A c \in Calls \ {job[t].call} : ran'[c] = ran[c]
    BY <1>19, <2>1, <2>2 DEF InterruptRun, Walk, RowTypes
  <2>6. \A u \in Tasks \ {t} : Approves(u) => job[u].call \in Calls
    BY DEF Shape, Approves
  <2> QED
    BY <2>1, <2>2, <2>3, <2>4, <2>5, <2>6 DEF Runs, ApprovedRunsOnce, Approves
<1>20. ASSUME NEW t \in Tasks, InterruptNote(t) PROVE Runs' /\ ApprovedRunsOnce'
  BY <1>20 DEF InterruptNote, Walk, answer, Fault, At, Go, approvals, history, voice,
     budgets, RowTypes, TaskTypes, Jobs, Shape, Asks, Owed, Owes, Approves, Fresh,
     Claimed, Runs, ApprovedRunsOnce
<1>21. ASSUME NEW t \in Tasks, Excuse(t) PROVE Runs' /\ ApprovedRunsOnce'
  BY <1>21 DEF Excuse, Walk, answer, At, Go, approvals, voice, budgets, RowTypes,
     TaskTypes, Jobs, Shape, Asks, Owed, Owes, Approves, Fresh, Claimed, Runs,
     ApprovedRunsOnce
<1>22. ASSUME NEW t \in Tasks, End(t) PROVE Runs' /\ ApprovedRunsOnce'
  <2>1. UNCHANGED <<status, ran>>
    BY <1>22 DEF End, approvals, history
  <2>2. \A u \in Tasks : pc'[u] \in Claimed => pc[u] \in Claimed /\ job'[u] = job[u]
    BY <1>22 DEF End, At, Go, TaskTypes, Claimed
  <2> QED
    BY <2>1, <2>2 DEF Runs, ApprovedRunsOnce, Approves
<1>23. ASSUME NEW t \in Tasks, Terminate(t) PROVE Runs' /\ ApprovedRunsOnce'
  BY <1>23 DEF Terminate, claim_pending, filled, Pending, Note, At, Go, history, voice,
     budgets, RowTypes, TaskTypes, Jobs, Shape, Asks, Owed, Owes, Approves, Fresh,
     Claimed, Runs, ApprovedRunsOnce
<1>24. ASSUME NEW t \in Tasks, Attach(t) PROVE Runs' /\ ApprovedRunsOnce'
  BY <1>24, AttachGoes DEF Runs, ApprovedRunsOnce, Approves, Claimed
<1>25. ASSUME NEW t \in Tasks, Start(t) PROVE Runs' /\ ApprovedRunsOnce'
  <2>1. UNCHANGED <<status, ran>>
    BY <1>25 DEF Start, on, to_chat, approvals, history
  <2>2. \A u \in Tasks : pc'[u] \in Claimed => pc[u] \in Claimed /\ job'[u] = job[u]
    BY <1>25 DEF Start, on, to_chat, At, Go, TaskTypes, Claimed
  <2> QED
    BY <2>1, <2>2 DEF Runs, ApprovedRunsOnce, Approves
<1>26. ASSUME NEW t \in Tasks, Detach(t) PROVE Runs' /\ ApprovedRunsOnce'
  <2>1. UNCHANGED <<status, ran>>
    BY <1>26 DEF Detach, Walk, to_chat, approvals, history
  <2>2. \A u \in Tasks : pc'[u] \in Claimed => pc[u] \in Claimed /\ job'[u] = job[u]
    BY <1>26 DEF Detach, Walk, to_chat, At, Go, TaskTypes, Claimed
  <2> QED
    BY <2>1, <2>2 DEF Runs, ApprovedRunsOnce, Approves
<1>27. ASSUME NEW t \in Tasks, HangUp(t) PROVE Runs' /\ ApprovedRunsOnce'
  BY <1>27 DEF HangUp, to_chat, Fault, At, Go, approvals, history, budgets, RowTypes,
     TaskTypes, Jobs, Shape, Asks, Owed, Owes, Approves, Fresh, Claimed, Runs,
     ApprovedRunsOnce
<1>28. ASSUME NEW t \in Tasks, Fail(t) PROVE Runs' /\ ApprovedRunsOnce'
  BY <1>28 DEF Fail, Fault, Note, NoJob, At, Go, approvals, history, voice, RowTypes,
     TaskTypes, Jobs, Shape, Asks, Owed, Owes, Approves, Fresh, Claimed, Runs,
     ApprovedRunsOnce
<1>29. ASSUME NEW t \in Tasks, Crash(t) PROVE Runs' /\ ApprovedRunsOnce'
  BY <1>29 DEF Crash, Note, NoJob, Go, approvals, RowTypes, TaskTypes, Jobs, Shape,
     Asks, Owed, Owes, Approves, Fresh, Claimed, Runs, ApprovedRunsOnce
<1>30. ASSUME NEW c \in Calls, BecomeOverdue(c) PROVE Runs' /\ ApprovedRunsOnce'
  BY <1>30 DEF BecomeOverdue, Pending, history, voice, budgets, RowTypes, TaskTypes,
     Jobs, Shape, Asks, Owed, Owes, Approves, Fresh, Claimed, Runs, ApprovedRunsOnce
<1>31. ASSUME NEW c \in Calls, Land(c) PROVE Runs' /\ ApprovedRunsOnce'
  BY <1>31 DEF Land, answer, Fault, approvals, voice, budgets, RowTypes, TaskTypes,
     Jobs, Shape, Asks, Owed, Owes, Approves, Fresh, Claimed, Runs, ApprovedRunsOnce
<1>32. ASSUME LockExpires PROVE Runs' /\ ApprovedRunsOnce'
  BY <1>32 DEF LockExpires, approvals, history, voice, budgets, RowTypes, TaskTypes,
     Jobs, Shape, Asks, Owed, Owes, Approves, Fresh, Claimed, Runs, ApprovedRunsOnce
<1>33. CASE UNCHANGED vars
  BY <1>33 DEF vars, approvals, history, voice, budgets, RowTypes, TaskTypes, Jobs,
     Shape, Asks, Owed, Owes, Approves, Fresh, Claimed, Runs, ApprovedRunsOnce
<1> QED
  BY <1>1, <1>2, <1>3, <1>4, <1>5, <1>6, <1>7, <1>8, <1>9, <1>10, <1>11, <1>12, <1>13,
     <1>14, <1>15, <1>16, <1>17, <1>18, <1>19, <1>20, <1>21, <1>22, <1>23, <1>24, <1>25,
     <1>26, <1>27, <1>28, <1>29, <1>30, <1>31, <1>32, <1>33 DEF Next, Turn, Decision,
     Cancel, Ending, Voice

-----------------------------------------------------------------------------
(* The answer of a tool that ran.                                          *)

LEMMA RanStep ==
    TypeOK /\ Shape /\ RanIsAnswered /\ [Next]_vars => RanIsAnswered'
<1> SUFFICES ASSUME RowTypes, TaskTypes, Shape, RanIsAnswered, [Next]_vars
             PROVE  RanIsAnswered'
  BY DEF TypeOK, RowTypes, TaskTypes
<1>1. ASSUME NEW t \in Tasks, Acquire(t) PROVE RanIsAnswered'
  BY <1>1 DEF Acquire, Take, first, Note, NoJob, At, Go, approvals, history, voice,
     budgets, RowTypes, TaskTypes, Jobs, Shape, RanIsAnswered
<1>2. ASSUME NEW t \in Tasks, Check(t) PROVE RanIsAnswered'
  BY <1>2 DEF Check, At, Go, approvals, history, voice, budgets, RowTypes, TaskTypes,
     Jobs, Shape, RanIsAnswered
<1>3. ASSUME NEW t \in Tasks, Leave(t) PROVE RanIsAnswered'
  BY <1>3 DEF Leave, Note, NoJob, At, Go, approvals, history, voice, budgets, RowTypes,
     TaskTypes, Jobs, Shape, RanIsAnswered
<1>4. ASSUME NEW t \in Tasks, Supersede(t) PROVE RanIsAnswered'
  BY <1>4 DEF Supersede, claim_pending, filled, Pending, Note, At, Go, history, voice,
     budgets, RowTypes, TaskTypes, Jobs, Shape, RanIsAnswered
<1>5. ASSUME NEW t \in Tasks, Fill(t) PROVE RanIsAnswered'
  BY <1>5 DEF Fill, answer, filled, Note, At, Go, approvals, voice, budgets, RowTypes,
     TaskTypes, Jobs, Shape, RanIsAnswered
<1>6. ASSUME NEW t \in Tasks, Say(t) PROVE RanIsAnswered'
  BY <1>6 DEF Say, At, Go, approvals, history, voice, budgets, RowTypes, TaskTypes,
     Jobs, Shape, RanIsAnswered
<1>7. ASSUME NEW t \in Tasks, Reply(t) PROVE RanIsAnswered'
  BY <1>7 DEF Reply, Walk, At, Go, approvals, history, voice, budgets, RowTypes,
     TaskTypes, Jobs, Shape, RanIsAnswered
<1>8. ASSUME NEW t \in Tasks, Ask(t) PROVE RanIsAnswered'
  BY <1>8 DEF Ask, Note, At, Go, approvals, history, voice, budgets, RowTypes,
     TaskTypes, Jobs, Shape, RanIsAnswered
<1>9. ASSUME NEW t \in Tasks, Request(t) PROVE RanIsAnswered'
  BY <1>9 DEF Request, Note, At, Go, history, voice, budgets, RowTypes, TaskTypes, Jobs,
     Shape, RanIsAnswered
<1>10. ASSUME NEW t \in Tasks, Look(t) PROVE RanIsAnswered'
  BY <1>10 DEF Look, Note, At, Go, approvals, history, voice, budgets, RowTypes,
     TaskTypes, Jobs, Shape, RanIsAnswered
<1>11. ASSUME NEW t \in Tasks, Decide(t) PROVE RanIsAnswered'
  BY <1>11 DEF Decide, verdict, At, Go, approvals, history, voice, budgets, RowTypes,
     TaskTypes, Jobs, Shape, RanIsAnswered
<1>12. ASSUME NEW t \in Tasks, Refuse(t) PROVE RanIsAnswered'
  BY <1>12 DEF Refuse, Walk, answer, At, Go, approvals, voice, budgets, RowTypes,
     TaskTypes, Jobs, Shape, RanIsAnswered
<1>13. ASSUME NEW t \in Tasks, Expire(t) PROVE RanIsAnswered'
  BY <1>13 DEF Expire, claim_pending, filled, Pending, Note, At, Go, history, voice,
     budgets, RowTypes, TaskTypes, Jobs, Shape, RanIsAnswered
<1>14. ASSUME NEW t \in Tasks, Siblings(t) PROVE RanIsAnswered'
  BY <1>14 DEF Siblings, undecided, Pending, Note, At, Go, approvals, history, voice,
     budgets, RowTypes, TaskTypes, Jobs, Shape, RanIsAnswered
<1>15. ASSUME NEW t \in Tasks, Resume(t) PROVE RanIsAnswered'
  BY <1>15 DEF Resume, after, At, Go, approvals, history, voice, budgets, RowTypes,
     TaskTypes, Jobs, Shape, RanIsAnswered
<1>16. ASSUME NEW t \in Tasks, Run(t) PROVE RanIsAnswered'
  BY <1>16 DEF Run, Walk, At, Go, approvals, history, voice, budgets, RowTypes,
     TaskTypes, Jobs, Shape, RanIsAnswered
<1>17. ASSUME NEW t \in Tasks, Record(t) PROVE RanIsAnswered'
  BY <1>17 DEF Record, answer, after, At, Go, approvals, voice, budgets, RowTypes,
     TaskTypes, Jobs, Shape, RanIsAnswered
<1>18. ASSUME NEW t \in Tasks, Interrupt(t) PROVE RanIsAnswered'
  BY <1>18 DEF Interrupt, streaming, Turns, Go, approvals, history, voice, budgets,
     RowTypes, TaskTypes, Jobs, Shape, RanIsAnswered
<1>19. ASSUME NEW t \in Tasks, InterruptRun(t) PROVE RanIsAnswered'
  BY <1>19 DEF InterruptRun, Walk, At, Go, approvals, history, voice, budgets, RowTypes,
     TaskTypes, Jobs, Shape, RanIsAnswered
<1>20. ASSUME NEW t \in Tasks, InterruptNote(t) PROVE RanIsAnswered'
  BY <1>20 DEF InterruptNote, Walk, answer, Fault, At, Go, approvals, history, voice,
     budgets, RowTypes, TaskTypes, Jobs, Shape, RanIsAnswered
<1>21. ASSUME NEW t \in Tasks, Excuse(t) PROVE RanIsAnswered'
  BY <1>21 DEF Excuse, Walk, answer, At, Go, approvals, voice, budgets, RowTypes,
     TaskTypes, Jobs, Shape, RanIsAnswered
<1>22. ASSUME NEW t \in Tasks, End(t) PROVE RanIsAnswered'
  BY <1>22 DEF End, At, Go, approvals, history, voice, budgets, RowTypes, TaskTypes,
     Jobs, Shape, RanIsAnswered
<1>23. ASSUME NEW t \in Tasks, Terminate(t) PROVE RanIsAnswered'
  BY <1>23 DEF Terminate, claim_pending, filled, Pending, Note, At, Go, history, voice,
     budgets, RowTypes, TaskTypes, Jobs, Shape, RanIsAnswered
<1>24. ASSUME NEW t \in Tasks, Attach(t) PROVE RanIsAnswered'
  BY <1>24, AttachGoes DEF RanIsAnswered
<1>25. ASSUME NEW t \in Tasks, Start(t) PROVE RanIsAnswered'
  BY <1>25 DEF Start, on, to_chat, At, Go, approvals, history, budgets, RowTypes,
     TaskTypes, Jobs, Shape, RanIsAnswered
<1>26. ASSUME NEW t \in Tasks, Detach(t) PROVE RanIsAnswered'
  BY <1>26 DEF Detach, Walk, to_chat, At, Go, approvals, history, budgets, RowTypes,
     TaskTypes, Jobs, Shape, RanIsAnswered
<1>27. ASSUME NEW t \in Tasks, HangUp(t) PROVE RanIsAnswered'
  BY <1>27 DEF HangUp, to_chat, Fault, At, Go, approvals, history, budgets, RowTypes,
     TaskTypes, Jobs, Shape, RanIsAnswered
<1>28. ASSUME NEW t \in Tasks, Fail(t) PROVE RanIsAnswered'
  BY <1>28 DEF Fail, Fault, Note, NoJob, At, Go, approvals, history, voice, RowTypes,
     TaskTypes, Jobs, Shape, RanIsAnswered
<1>29. ASSUME NEW t \in Tasks, Crash(t) PROVE RanIsAnswered'
  BY <1>29 DEF Crash, Note, NoJob, Go, approvals, RowTypes, TaskTypes, Jobs, Shape,
     RanIsAnswered
<1>30. ASSUME NEW c \in Calls, BecomeOverdue(c) PROVE RanIsAnswered'
  BY <1>30 DEF BecomeOverdue, Pending, history, voice, budgets, RowTypes, TaskTypes,
     Jobs, Shape, RanIsAnswered
<1>31. ASSUME NEW c \in Calls, Land(c) PROVE RanIsAnswered'
  BY <1>31 DEF Land, answer, Fault, approvals, voice, budgets, RowTypes, TaskTypes,
     Jobs, Shape, RanIsAnswered
<1>32. ASSUME LockExpires PROVE RanIsAnswered'
  BY <1>32 DEF LockExpires, approvals, history, voice, budgets, RowTypes, TaskTypes,
     Jobs, Shape, RanIsAnswered
<1>33. CASE UNCHANGED vars
  BY <1>33 DEF vars, approvals, history, voice, budgets, RowTypes, TaskTypes, Jobs,
     Shape, RanIsAnswered
<1> QED
  BY <1>1, <1>2, <1>3, <1>4, <1>5, <1>6, <1>7, <1>8, <1>9, <1>10, <1>11, <1>12, <1>13,
     <1>14, <1>15, <1>16, <1>17, <1>18, <1>19, <1>20, <1>21, <1>22, <1>23, <1>24, <1>25,
     <1>26, <1>27, <1>28, <1>29, <1>30, <1>31, <1>32, <1>33 DEF Next, Turn, Decision,
     Cancel, Ending, Voice

-----------------------------------------------------------------------------
(* What the lock gives while it outlives its holder.                       *)

\* A task at work holds the lock.
Held == overruns = 0 => \A t \in Tasks : pc[t] \notin {"idle", "off"} => lock = t

LEMMA HeldStep == TypeOK /\ Shape /\ Held /\ [Next]_vars => Held'
<1> SUFFICES ASSUME RowTypes, TaskTypes, Shape, Held, [Next]_vars PROVE Held'
  BY DEF TypeOK, RowTypes, TaskTypes
<1>1. ASSUME NEW t \in Tasks, Acquire(t) PROVE Held'
  BY <1>1, TasksAssumption DEF Acquire, Take, first, Note, NoJob, At, Go, approvals,
     history, voice, budgets, RowTypes, TaskTypes, Held
<1>2. ASSUME NEW t \in Tasks, Check(t) PROVE Held'
  BY <1>2, TasksAssumption DEF Check, At, Go, approvals, history, voice, budgets,
     RowTypes, TaskTypes, Held
<1>3. ASSUME NEW t \in Tasks, Leave(t) PROVE Held'
  BY <1>3, TasksAssumption DEF Leave, Note, NoJob, At, Go, approvals, history, voice,
     budgets, RowTypes, TaskTypes, Held
<1>4. ASSUME NEW t \in Tasks, Supersede(t) PROVE Held'
  BY <1>4, TasksAssumption DEF Supersede, claim_pending, filled, Pending, Note, At, Go,
     history, voice, budgets, RowTypes, TaskTypes, Held
<1>5. ASSUME NEW t \in Tasks, Fill(t) PROVE Held'
  BY <1>5, TasksAssumption DEF Fill, answer, filled, Note, At, Go, approvals, voice,
     budgets, RowTypes, TaskTypes, Held
<1>6. ASSUME NEW t \in Tasks, Say(t) PROVE Held'
  BY <1>6, TasksAssumption DEF Say, At, Go, approvals, history, voice, budgets,
     RowTypes, TaskTypes, Held
<1>7. ASSUME NEW t \in Tasks, Reply(t) PROVE Held'
  BY <1>7, TasksAssumption DEF Reply, Walk, At, Go, approvals, history, voice, budgets,
     RowTypes, TaskTypes, Held
<1>8. ASSUME NEW t \in Tasks, Ask(t) PROVE Held'
  BY <1>8, TasksAssumption DEF Ask, Note, At, Go, approvals, history, voice, budgets,
     RowTypes, TaskTypes, Held
<1>9. ASSUME NEW t \in Tasks, Request(t) PROVE Held'
  BY <1>9, TasksAssumption DEF Request, Note, At, Go, history, voice, budgets, RowTypes,
     TaskTypes, Held
<1>10. ASSUME NEW t \in Tasks, Look(t) PROVE Held'
  BY <1>10, TasksAssumption DEF Look, Note, At, Go, approvals, history, voice, budgets,
     RowTypes, TaskTypes, Held
<1>11. ASSUME NEW t \in Tasks, Decide(t) PROVE Held'
  BY <1>11, TasksAssumption DEF Decide, verdict, At, Go, approvals, history, voice,
     budgets, RowTypes, TaskTypes, Held
<1>12. ASSUME NEW t \in Tasks, Refuse(t) PROVE Held'
  BY <1>12, TasksAssumption DEF Refuse, Walk, answer, At, Go, approvals, voice, budgets,
     RowTypes, TaskTypes, Held
<1>13. ASSUME NEW t \in Tasks, Expire(t) PROVE Held'
  BY <1>13, TasksAssumption DEF Expire, claim_pending, filled, Pending, Note, At, Go,
     history, voice, budgets, RowTypes, TaskTypes, Held
<1>14. ASSUME NEW t \in Tasks, Siblings(t) PROVE Held'
  BY <1>14, TasksAssumption DEF Siblings, undecided, Pending, Note, At, Go, approvals,
     history, voice, budgets, RowTypes, TaskTypes, Held
<1>15. ASSUME NEW t \in Tasks, Resume(t) PROVE Held'
  BY <1>15, TasksAssumption DEF Resume, after, At, Go, approvals, history, voice,
     budgets, RowTypes, TaskTypes, Held
<1>16. ASSUME NEW t \in Tasks, Run(t) PROVE Held'
  BY <1>16, TasksAssumption DEF Run, Walk, At, Go, approvals, history, voice, budgets,
     RowTypes, TaskTypes, Held
<1>17. ASSUME NEW t \in Tasks, Record(t) PROVE Held'
  BY <1>17, TasksAssumption DEF Record, answer, after, At, Go, approvals, voice,
     budgets, RowTypes, TaskTypes, Held
<1>18. ASSUME NEW t \in Tasks, Interrupt(t) PROVE Held'
  BY <1>18, TasksAssumption DEF Interrupt, streaming, Turns, Go, approvals, history,
     voice, budgets, RowTypes, TaskTypes, Held
<1>19. ASSUME NEW t \in Tasks, InterruptRun(t) PROVE Held'
  BY <1>19, TasksAssumption DEF InterruptRun, Walk, At, Go, approvals, history, voice,
     budgets, RowTypes, TaskTypes, Held
<1>20. ASSUME NEW t \in Tasks, InterruptNote(t) PROVE Held'
  BY <1>20, TasksAssumption DEF InterruptNote, Walk, answer, Fault, At, Go, approvals,
     history, voice, budgets, RowTypes, TaskTypes, Held
<1>21. ASSUME NEW t \in Tasks, Excuse(t) PROVE Held'
  BY <1>21, TasksAssumption DEF Excuse, Walk, answer, At, Go, approvals, voice, budgets,
     RowTypes, TaskTypes, Held
<1>22. ASSUME NEW t \in Tasks, End(t) PROVE Held'
  BY <1>22, TasksAssumption DEF End, At, Go, approvals, history, voice, budgets,
     RowTypes, TaskTypes, Held
<1>23. ASSUME NEW t \in Tasks, Terminate(t) PROVE Held'
  BY <1>23, TasksAssumption DEF Terminate, claim_pending, filled, Pending, Note, At, Go,
     history, voice, budgets, RowTypes, TaskTypes, Held
<1>24. ASSUME NEW t \in Tasks, Attach(t) PROVE Held'
  BY <1>24, AttachGoes DEF Held
<1>25. ASSUME NEW t \in Tasks, Start(t) PROVE Held'
  BY <1>25, TasksAssumption DEF Start, on, to_chat, At, Go, approvals, history, budgets,
     RowTypes, TaskTypes, Held
<1>26. ASSUME NEW t \in Tasks, Detach(t) PROVE Held'
  BY <1>26, TasksAssumption DEF Detach, Walk, to_chat, At, Go, approvals, history,
     budgets, RowTypes, TaskTypes, Held
<1>27. ASSUME NEW t \in Tasks, HangUp(t) PROVE Held'
  BY <1>27, TasksAssumption DEF HangUp, to_chat, Fault, At, Go, approvals, history,
     budgets, RowTypes, TaskTypes, Held
<1>28. ASSUME NEW t \in Tasks, Fail(t) PROVE Held'
  BY <1>28, TasksAssumption DEF Fail, Fault, Note, NoJob, At, Go, approvals, history,
     voice, RowTypes, TaskTypes, Held
<1>29. ASSUME NEW t \in Tasks, Crash(t) PROVE Held'
  BY <1>29, TasksAssumption DEF Crash, Note, NoJob, Go, approvals, RowTypes, TaskTypes,
     Held
<1>30. ASSUME NEW c \in Calls, BecomeOverdue(c) PROVE Held'
  BY <1>30, TasksAssumption DEF BecomeOverdue, Pending, history, voice, budgets,
     RowTypes, TaskTypes, Held
<1>31. ASSUME NEW c \in Calls, Land(c) PROVE Held'
  BY <1>31, TasksAssumption DEF Land, answer, Fault, approvals, voice, budgets,
     RowTypes, TaskTypes, Held
<1>32. ASSUME LockExpires PROVE Held'
  BY <1>32, TasksAssumption DEF LockExpires, approvals, history, voice, budgets,
     RowTypes, TaskTypes, Held
<1>33. CASE UNCHANGED vars
  BY <1>33 DEF vars, approvals, history, voice, budgets, RowTypes, TaskTypes, Held
<1> QED
  BY <1>1, <1>2, <1>3, <1>4, <1>5, <1>6, <1>7, <1>8, <1>9, <1>10, <1>11, <1>12, <1>13,
     <1>14, <1>15, <1>16, <1>17, <1>18, <1>19, <1>20, <1>21, <1>22, <1>23, <1>24, <1>25,
     <1>26, <1>27, <1>28, <1>29, <1>30, <1>31, <1>32, <1>33 DEF Next, Turn, Decision,
     Cancel, Ending, Voice

\* A new message and a decision go on to the model with every call settled: the
\* one has superseded the open ones, the other remembers them.
Settled ==
    overruns = 0 => \A t \in Tasks :
        /\ job[t].op = "message" /\ pc[t] \in {"fill", "say", "think"} => Pending = {}
        /\ job[t].op = "approve" /\ pc[t] \in {"resume", "run", "note"} =>
                Pending \subseteq job[t].calls
        /\ job[t].op = "approve" /\ pc[t] = "think" => Pending = {}

\* No task of an ended session is on its way to the model or to a tool.
Quiet ==
    session = "ENDED" /\ overruns = 0 => \A t \in Tasks :
        /\ pc[t] \notin {"supersede", "say", "think", "request", "run", "note", "broken"}
        /\ pc[t] = "fill" => job[t].op # "message"

\* A request that is starting a bot, and the bot it started, are alone with the
\* channel, unless an older bot is on.
Alone ==
    overruns = 0 =>
        /\ \A t \in Tasks : pc[t] = "start" =>
            /\ attached = NoTask
            /\ ~outlived => channel = "VOICE" /\ \A b \in Bots : ~on(b)
        /\ attached # NoTask /\ ~outlived =>
            channel = "VOICE" /\ \A b \in Bots : on(b) => b = attached

\* A step that leaves the channel alone and starts nobody.
LEMMA AloneKept ==
    ASSUME Alone, UNCHANGED <<channel, attached, outlived>>, overruns' = 0 => overruns = 0,
           \A u \in Tasks : pc'[u] = "start" => pc[u] = "start",
           \A b \in Bots : on(b)' => on(b)
    PROVE  Alone'
  BY DEF Alone

LEMMA SettledStep ==
    TypeOK /\ Shape /\ Held /\ Settled /\ [Next]_vars => Settled'
<1> SUFFICES ASSUME RowTypes, TaskTypes, Shape, Held, Settled, [Next]_vars
             PROVE  Settled'
  BY DEF TypeOK, RowTypes, TaskTypes
<1>1. ASSUME NEW t \in Tasks, Acquire(t) PROVE Settled'
  BY <1>1, TasksAssumption DEF Acquire, Take, first, Note, NoJob, At, Go, approvals,
     history, voice, budgets, RowTypes, TaskTypes, Jobs, Shape, Held, Pending, Settled
<1>2. ASSUME NEW t \in Tasks, Check(t) PROVE Settled'
  <2>1. UNCHANGED <<status, overruns>>
    BY <1>2 DEF Check, approvals, budgets
  <2> QED
    BY <1>2, <2>1, CheckGoes DEF Settled, Pending
<1>3. ASSUME NEW t \in Tasks, Leave(t) PROVE Settled'
  BY <1>3, TasksAssumption DEF Leave, Note, NoJob, At, Go, approvals, history, voice,
     budgets, RowTypes, TaskTypes, Jobs, Shape, Held, Pending, Settled
<1>4. ASSUME NEW t \in Tasks, Supersede(t) PROVE Settled'
  BY <1>4, TasksAssumption DEF Supersede, claim_pending, filled, Pending, Note, At, Go,
     history, voice, budgets, RowTypes, TaskTypes, Jobs, Shape, Held, Settled
<1>5. ASSUME NEW t \in Tasks, Fill(t) PROVE Settled'
  BY <1>5, TasksAssumption DEF Fill, answer, filled, Note, At, Go, approvals, voice,
     budgets, RowTypes, TaskTypes, Jobs, Shape, Held, Pending, Settled
<1>6. ASSUME NEW t \in Tasks, Say(t) PROVE Settled'
  <2>1. UNCHANGED <<status, job, overruns>>
    BY <1>6 DEF Say, approvals, budgets
  <2>2. /\ \A u \in Tasks \ {t} : pc'[u] = pc[u]
        /\ pc[t] = "say" /\ pc'[t] \in {"leave", "think"}
    BY <1>6 DEF Say, At, Go, TaskTypes
  <2>3. job[t].op # "approve"
    BY <2>2 DEF Shape, Turns
  <2> QED
    BY <2>1, <2>2, <2>3 DEF Settled, Pending
<1>7. ASSUME NEW t \in Tasks, Reply(t) PROVE Settled'
  BY <1>7, TasksAssumption DEF Reply, Walk, At, Go, approvals, history, voice, budgets,
     RowTypes, TaskTypes, Jobs, Shape, Held, Pending, Settled
<1>8. ASSUME NEW t \in Tasks, Ask(t) PROVE Settled'
  BY <1>8, TasksAssumption DEF Ask, Note, At, Go, approvals, history, voice, budgets,
     RowTypes, TaskTypes, Jobs, Shape, Held, Pending, Settled
<1>9. ASSUME NEW t \in Tasks, Request(t) PROVE Settled'
  BY <1>9, TasksAssumption DEF Request, Note, At, Go, history, voice, budgets, RowTypes,
     TaskTypes, Jobs, Shape, Held, Pending, Settled
<1>10. ASSUME NEW t \in Tasks, Look(t) PROVE Settled'
  BY <1>10, TasksAssumption DEF Look, Note, At, Go, approvals, history, voice, budgets,
     RowTypes, TaskTypes, Jobs, Shape, Held, Pending, Settled
<1>11. ASSUME NEW t \in Tasks, Decide(t) PROVE Settled'
  BY <1>11, TasksAssumption DEF Decide, verdict, At, Go, approvals, history, voice,
     budgets, RowTypes, TaskTypes, Jobs, Shape, Held, Pending, Settled
<1>12. ASSUME NEW t \in Tasks, Refuse(t) PROVE Settled'
  BY <1>12, TasksAssumption DEF Refuse, Walk, answer, At, Go, approvals, voice, budgets,
     RowTypes, TaskTypes, Jobs, Shape, Held, Pending, Settled
<1>13. ASSUME NEW t \in Tasks, Expire(t) PROVE Settled'
  BY <1>13, TasksAssumption DEF Expire, claim_pending, filled, Pending, Note, At, Go,
     history, voice, budgets, RowTypes, TaskTypes, Jobs, Shape, Held, Settled
<1>14. ASSUME NEW t \in Tasks, Siblings(t) PROVE Settled'
  BY <1>14, TasksAssumption DEF Siblings, undecided, Pending, Note, At, Go, approvals,
     history, voice, budgets, RowTypes, TaskTypes, Jobs, Shape, Held, Settled
<1>15. ASSUME NEW t \in Tasks, Resume(t) PROVE Settled'
  BY <1>15, TasksAssumption DEF Resume, after, At, Go, approvals, history, voice,
     budgets, RowTypes, TaskTypes, Jobs, Shape, Held, Pending, Settled
<1>16. ASSUME NEW t \in Tasks, Run(t) PROVE Settled'
  BY <1>16, TasksAssumption DEF Run, Walk, At, Go, approvals, history, voice, budgets,
     RowTypes, TaskTypes, Jobs, Shape, Held, Pending, Settled
<1>17. ASSUME NEW t \in Tasks, Record(t) PROVE Settled'
  BY <1>17, TasksAssumption DEF Record, answer, after, At, Go, approvals, voice,
     budgets, RowTypes, TaskTypes, Jobs, Shape, Held, Pending, Settled
<1>18. ASSUME NEW t \in Tasks, Interrupt(t) PROVE Settled'
  BY <1>18, TasksAssumption DEF Interrupt, streaming, Turns, Go, approvals, history,
     voice, budgets, RowTypes, TaskTypes, Jobs, Shape, Held, Pending, Settled
<1>19. ASSUME NEW t \in Tasks, InterruptRun(t) PROVE Settled'
  BY <1>19, TasksAssumption DEF InterruptRun, Walk, At, Go, approvals, history, voice,
     budgets, RowTypes, TaskTypes, Jobs, Shape, Held, Pending, Settled
<1>20. ASSUME NEW t \in Tasks, InterruptNote(t) PROVE Settled'
  BY <1>20, TasksAssumption DEF InterruptNote, Walk, answer, Fault, At, Go, approvals,
     history, voice, budgets, RowTypes, TaskTypes, Jobs, Shape, Held, Pending, Settled
<1>21. ASSUME NEW t \in Tasks, Excuse(t) PROVE Settled'
  BY <1>21, TasksAssumption DEF Excuse, Walk, answer, At, Go, approvals, voice, budgets,
     RowTypes, TaskTypes, Jobs, Shape, Held, Pending, Settled
<1>22. ASSUME NEW t \in Tasks, End(t) PROVE Settled'
  BY <1>22, TasksAssumption DEF End, At, Go, approvals, history, voice, budgets,
     RowTypes, TaskTypes, Jobs, Shape, Held, Pending, Settled
<1>23. ASSUME NEW t \in Tasks, Terminate(t) PROVE Settled'
  BY <1>23, TasksAssumption DEF Terminate, claim_pending, filled, Pending, Note, At, Go,
     history, voice, budgets, RowTypes, TaskTypes, Jobs, Shape, Held, Settled
<1>24. ASSUME NEW t \in Tasks, Attach(t) PROVE Settled'
  BY <1>24, AttachGoes DEF Settled, Pending
<1>25. ASSUME NEW t \in Tasks, Start(t) PROVE Settled'
  BY <1>25, TasksAssumption DEF Start, on, to_chat, At, Go, approvals, history, budgets,
     RowTypes, TaskTypes, Jobs, Shape, Held, Pending, Settled
<1>26. ASSUME NEW t \in Tasks, Detach(t) PROVE Settled'
  BY <1>26, TasksAssumption DEF Detach, Walk, to_chat, At, Go, approvals, history,
     budgets, RowTypes, TaskTypes, Jobs, Shape, Held, Pending, Settled
<1>27. ASSUME NEW t \in Tasks, HangUp(t) PROVE Settled'
  BY <1>27, TasksAssumption DEF HangUp, to_chat, Fault, At, Go, approvals, history,
     budgets, RowTypes, TaskTypes, Jobs, Shape, Held, Pending, Settled
<1>28. ASSUME NEW t \in Tasks, Fail(t) PROVE Settled'
  BY <1>28, TasksAssumption DEF Fail, Fault, Note, NoJob, At, Go, approvals, history,
     voice, RowTypes, TaskTypes, Jobs, Shape, Held, Pending, Settled
<1>29. ASSUME NEW t \in Tasks, Crash(t) PROVE Settled'
  BY <1>29, TasksAssumption DEF Crash, Note, NoJob, Go, approvals, RowTypes, TaskTypes,
     Jobs, Shape, Held, Pending, Settled
<1>30. ASSUME NEW c \in Calls, BecomeOverdue(c) PROVE Settled'
  BY <1>30, TasksAssumption DEF BecomeOverdue, Pending, history, voice, budgets,
     RowTypes, TaskTypes, Jobs, Shape, Held, Settled
<1>31. ASSUME NEW c \in Calls, Land(c) PROVE Settled'
  BY <1>31, TasksAssumption DEF Land, answer, Fault, approvals, voice, budgets,
     RowTypes, TaskTypes, Jobs, Shape, Held, Pending, Settled
<1>32. ASSUME LockExpires PROVE Settled'
  BY <1>32, TasksAssumption DEF LockExpires, approvals, history, voice, budgets,
     RowTypes, TaskTypes, Jobs, Shape, Held, Pending, Settled
<1>33. CASE UNCHANGED vars
  BY <1>33 DEF vars, approvals, history, voice, budgets, RowTypes, TaskTypes, Jobs,
     Shape, Held, Pending, Settled
<1> QED
  BY <1>1, <1>2, <1>3, <1>4, <1>5, <1>6, <1>7, <1>8, <1>9, <1>10, <1>11, <1>12, <1>13,
     <1>14, <1>15, <1>16, <1>17, <1>18, <1>19, <1>20, <1>21, <1>22, <1>23, <1>24, <1>25,
     <1>26, <1>27, <1>28, <1>29, <1>30, <1>31, <1>32, <1>33 DEF Next, Turn, Decision,
     Cancel, Ending, Voice

LEMMA QuietStep ==
    TypeOK /\ Shape /\ Held /\ Quiet /\ [Next]_vars => Quiet'
<1> SUFFICES ASSUME RowTypes, TaskTypes, Shape, Held, Quiet, [Next]_vars
             PROVE  Quiet'
  BY DEF TypeOK, RowTypes, TaskTypes
<1>1. ASSUME NEW t \in Tasks, Acquire(t) PROVE Quiet'
  BY <1>1, TasksAssumption DEF Acquire, Take, first, Note, NoJob, At, Go, approvals,
     history, voice, budgets, RowTypes, TaskTypes, Jobs, Shape, Held, Quiet
<1>2. ASSUME NEW t \in Tasks, Check(t) PROVE Quiet'
  <2>1. UNCHANGED <<session, overruns>>
    BY <1>2 DEF Check, budgets
  <2> QED
    BY <1>2, <2>1, CheckGoes DEF Quiet
<1>3. ASSUME NEW t \in Tasks, Leave(t) PROVE Quiet'
  BY <1>3, TasksAssumption DEF Leave, Note, NoJob, At, Go, approvals, history, voice,
     budgets, RowTypes, TaskTypes, Jobs, Shape, Held, Quiet
<1>4. ASSUME NEW t \in Tasks, Supersede(t) PROVE Quiet'
  BY <1>4, TasksAssumption DEF Supersede, claim_pending, filled, Pending, Note, At, Go,
     history, voice, budgets, RowTypes, TaskTypes, Jobs, Shape, Held, Quiet
<1>5. ASSUME NEW t \in Tasks, Fill(t) PROVE Quiet'
  BY <1>5, TasksAssumption DEF Fill, answer, filled, Note, At, Go, approvals, voice,
     budgets, RowTypes, TaskTypes, Jobs, Shape, Held, Quiet
<1>6. ASSUME NEW t \in Tasks, Say(t) PROVE Quiet'
  BY <1>6, TasksAssumption DEF Say, At, Go, approvals, history, voice, budgets,
     RowTypes, TaskTypes, Jobs, Shape, Held, Quiet
<1>7. ASSUME NEW t \in Tasks, Reply(t) PROVE Quiet'
  BY <1>7, TasksAssumption DEF Reply, Walk, At, Go, approvals, history, voice, budgets,
     RowTypes, TaskTypes, Jobs, Shape, Held, Quiet
<1>8. ASSUME NEW t \in Tasks, Ask(t) PROVE Quiet'
  BY <1>8, TasksAssumption DEF Ask, Note, At, Go, approvals, history, voice, budgets,
     RowTypes, TaskTypes, Jobs, Shape, Held, Quiet
<1>9. ASSUME NEW t \in Tasks, Request(t) PROVE Quiet'
  BY <1>9, TasksAssumption DEF Request, Note, At, Go, history, voice, budgets, RowTypes,
     TaskTypes, Jobs, Shape, Held, Quiet
<1>10. ASSUME NEW t \in Tasks, Look(t) PROVE Quiet'
  BY <1>10, TasksAssumption DEF Look, Note, At, Go, approvals, history, voice, budgets,
     RowTypes, TaskTypes, Jobs, Shape, Held, Quiet
<1>11. ASSUME NEW t \in Tasks, Decide(t) PROVE Quiet'
  BY <1>11, TasksAssumption DEF Decide, verdict, At, Go, approvals, history, voice,
     budgets, RowTypes, TaskTypes, Jobs, Shape, Held, Quiet
<1>12. ASSUME NEW t \in Tasks, Refuse(t) PROVE Quiet'
  BY <1>12, TasksAssumption DEF Refuse, Walk, answer, At, Go, approvals, voice, budgets,
     RowTypes, TaskTypes, Jobs, Shape, Held, Quiet
<1>13. ASSUME NEW t \in Tasks, Expire(t) PROVE Quiet'
  BY <1>13, TasksAssumption DEF Expire, claim_pending, filled, Pending, Note, At, Go,
     history, voice, budgets, RowTypes, TaskTypes, Jobs, Shape, Held, Quiet
<1>14. ASSUME NEW t \in Tasks, Siblings(t) PROVE Quiet'
  BY <1>14, TasksAssumption DEF Siblings, undecided, Pending, Note, At, Go, approvals,
     history, voice, budgets, RowTypes, TaskTypes, Jobs, Shape, Held, Quiet
<1>15. ASSUME NEW t \in Tasks, Resume(t) PROVE Quiet'
  BY <1>15, TasksAssumption DEF Resume, after, At, Go, approvals, history, voice,
     budgets, RowTypes, TaskTypes, Jobs, Shape, Held, Quiet
<1>16. ASSUME NEW t \in Tasks, Run(t) PROVE Quiet'
  BY <1>16, TasksAssumption DEF Run, Walk, At, Go, approvals, history, voice, budgets,
     RowTypes, TaskTypes, Jobs, Shape, Held, Quiet
<1>17. ASSUME NEW t \in Tasks, Record(t) PROVE Quiet'
  BY <1>17, TasksAssumption DEF Record, answer, after, At, Go, approvals, voice,
     budgets, RowTypes, TaskTypes, Jobs, Shape, Held, Quiet
<1>18. ASSUME NEW t \in Tasks, Interrupt(t) PROVE Quiet'
  BY <1>18, TasksAssumption DEF Interrupt, streaming, Turns, Go, approvals, history,
     voice, budgets, RowTypes, TaskTypes, Jobs, Shape, Held, Quiet
<1>19. ASSUME NEW t \in Tasks, InterruptRun(t) PROVE Quiet'
  BY <1>19, TasksAssumption DEF InterruptRun, Walk, At, Go, approvals, history, voice,
     budgets, RowTypes, TaskTypes, Jobs, Shape, Held, Quiet
<1>20. ASSUME NEW t \in Tasks, InterruptNote(t) PROVE Quiet'
  BY <1>20, TasksAssumption DEF InterruptNote, Walk, answer, Fault, At, Go, approvals,
     history, voice, budgets, RowTypes, TaskTypes, Jobs, Shape, Held, Quiet
<1>21. ASSUME NEW t \in Tasks, Excuse(t) PROVE Quiet'
  BY <1>21, TasksAssumption DEF Excuse, Walk, answer, At, Go, approvals, voice, budgets,
     RowTypes, TaskTypes, Jobs, Shape, Held, Quiet
<1>22. ASSUME NEW t \in Tasks, End(t) PROVE Quiet'
  BY <1>22, TasksAssumption DEF End, At, Go, approvals, history, voice, budgets,
     RowTypes, TaskTypes, Jobs, Shape, Held, Quiet
<1>23. ASSUME NEW t \in Tasks, Terminate(t) PROVE Quiet'
  BY <1>23, TasksAssumption DEF Terminate, claim_pending, filled, Pending, Note, At, Go,
     history, voice, budgets, RowTypes, TaskTypes, Jobs, Shape, Held, Quiet
<1>24. ASSUME NEW t \in Tasks, Attach(t) PROVE Quiet'
  BY <1>24, AttachGoes DEF Quiet
<1>25. ASSUME NEW t \in Tasks, Start(t) PROVE Quiet'
  BY <1>25, TasksAssumption DEF Start, on, to_chat, At, Go, approvals, history, budgets,
     RowTypes, TaskTypes, Jobs, Shape, Held, Quiet
<1>26. ASSUME NEW t \in Tasks, Detach(t) PROVE Quiet'
  BY <1>26, TasksAssumption DEF Detach, Walk, to_chat, At, Go, approvals, history,
     budgets, RowTypes, TaskTypes, Jobs, Shape, Held, Quiet
<1>27. ASSUME NEW t \in Tasks, HangUp(t) PROVE Quiet'
  BY <1>27, TasksAssumption DEF HangUp, to_chat, Fault, At, Go, approvals, history,
     budgets, RowTypes, TaskTypes, Jobs, Shape, Held, Quiet
<1>28. ASSUME NEW t \in Tasks, Fail(t) PROVE Quiet'
  BY <1>28, TasksAssumption DEF Fail, Fault, Note, NoJob, At, Go, approvals, history,
     voice, RowTypes, TaskTypes, Jobs, Shape, Held, Quiet
<1>29. ASSUME NEW t \in Tasks, Crash(t) PROVE Quiet'
  BY <1>29, TasksAssumption DEF Crash, Note, NoJob, Go, approvals, RowTypes, TaskTypes,
     Jobs, Shape, Held, Quiet
<1>30. ASSUME NEW c \in Calls, BecomeOverdue(c) PROVE Quiet'
  BY <1>30, TasksAssumption DEF BecomeOverdue, Pending, history, voice, budgets,
     RowTypes, TaskTypes, Jobs, Shape, Held, Quiet
<1>31. ASSUME NEW c \in Calls, Land(c) PROVE Quiet'
  BY <1>31, TasksAssumption DEF Land, answer, Fault, approvals, voice, budgets,
     RowTypes, TaskTypes, Jobs, Shape, Held, Quiet
<1>32. ASSUME LockExpires PROVE Quiet'
  BY <1>32, TasksAssumption DEF LockExpires, approvals, history, voice, budgets,
     RowTypes, TaskTypes, Jobs, Shape, Held, Quiet
<1>33. CASE UNCHANGED vars
  BY <1>33 DEF vars, approvals, history, voice, budgets, RowTypes, TaskTypes, Jobs,
     Shape, Held, Quiet
<1> QED
  BY <1>1, <1>2, <1>3, <1>4, <1>5, <1>6, <1>7, <1>8, <1>9, <1>10, <1>11, <1>12, <1>13,
     <1>14, <1>15, <1>16, <1>17, <1>18, <1>19, <1>20, <1>21, <1>22, <1>23, <1>24, <1>25,
     <1>26, <1>27, <1>28, <1>29, <1>30, <1>31, <1>32, <1>33 DEF Next, Turn, Decision,
     Cancel, Ending, Voice

LEMMA AloneStep ==
    TypeOK /\ Shape /\ Held /\ Alone /\ [Next]_vars => Alone'
<1> SUFFICES ASSUME RowTypes, TaskTypes, Shape, Held, Alone, [Next]_vars
             PROVE  Alone'
  BY DEF TypeOK, RowTypes, TaskTypes
<1>1. ASSUME NEW t \in Tasks, Acquire(t) PROVE Alone'
  <2>1. UNCHANGED <<channel, attached, outlived>> /\ (overruns' = 0 => overruns = 0)
    BY <1>1 DEF Acquire, Take, first, Note, NoJob, voice, budgets, RowTypes
  <2>2. \A u \in Tasks : pc'[u] = "start" => pc[u] = "start"
    BY <1>1 DEF Acquire, Take, first, Note, NoJob, At, Go, TaskTypes
  <2>3. \A b \in Bots : on(b)' => on(b)
    BY <1>1, TasksAssumption DEF Acquire, Take, first, Note, NoJob, At, Go, TaskTypes,
       on, Tasks
  <2> QED
    BY <2>1, <2>2, <2>3, AloneKept
<1>2. ASSUME NEW t \in Tasks, Check(t) PROVE Alone'
  <2>1. UNCHANGED <<channel, attached, outlived>> /\ (overruns' = 0 => overruns = 0)
    BY <1>2 DEF Check, voice, budgets
  <2>2. \A u \in Tasks : pc'[u] = "start" => pc[u] = "start"
    BY <1>2, CheckGoes
  <2>3. \A b \in Bots : on(b)' => on(b)
    BY <1>2, CheckGoes, TasksAssumption DEF on, Tasks
  <2> QED
    BY <2>1, <2>2, <2>3, AloneKept
<1>3. ASSUME NEW t \in Tasks, Leave(t) PROVE Alone'
  <2>1. UNCHANGED <<channel, attached, outlived>> /\ (overruns' = 0 => overruns = 0)
    BY <1>3 DEF Leave, Note, NoJob, voice, budgets, RowTypes
  <2>2. \A u \in Tasks : pc'[u] = "start" => pc[u] = "start"
    BY <1>3 DEF Leave, Note, NoJob, At, Go, TaskTypes
  <2>3. \A b \in Bots : on(b)' => on(b)
    BY <1>3, TasksAssumption DEF Leave, Note, NoJob, At, Go, TaskTypes, on, Tasks
  <2> QED
    BY <2>1, <2>2, <2>3, AloneKept
<1>4. ASSUME NEW t \in Tasks, Supersede(t) PROVE Alone'
  <2>1. UNCHANGED <<channel, attached, outlived>> /\ (overruns' = 0 => overruns = 0)
    BY <1>4 DEF Supersede, claim_pending, filled, Pending, Note, voice, budgets,
       RowTypes
  <2>2. \A u \in Tasks : pc'[u] = "start" => pc[u] = "start"
    BY <1>4 DEF Supersede, claim_pending, filled, Pending, Note, At, Go, TaskTypes
  <2>3. \A b \in Bots : on(b)' => on(b)
    BY <1>4, TasksAssumption DEF Supersede, claim_pending, filled, Pending, Note, At,
       Go, TaskTypes, on, Tasks
  <2> QED
    BY <2>1, <2>2, <2>3, AloneKept
<1>5. ASSUME NEW t \in Tasks, Fill(t) PROVE Alone'
  <2>1. UNCHANGED <<channel, attached, outlived>> /\ (overruns' = 0 => overruns = 0)
    BY <1>5 DEF Fill, answer, filled, Note, voice, budgets, RowTypes
  <2>2. \A u \in Tasks : pc'[u] = "start" => pc[u] = "start"
    BY <1>5 DEF Fill, answer, filled, Note, At, Go, TaskTypes
  <2>3. \A b \in Bots : on(b)' => on(b)
    BY <1>5, TasksAssumption DEF Fill, answer, filled, Note, At, Go, TaskTypes, on,
       Tasks
  <2> QED
    BY <2>1, <2>2, <2>3, AloneKept
<1>6. ASSUME NEW t \in Tasks, Say(t) PROVE Alone'
  <2>1. UNCHANGED <<channel, attached, outlived>> /\ (overruns' = 0 => overruns = 0)
    BY <1>6 DEF Say, voice, budgets, RowTypes
  <2>2. \A u \in Tasks : pc'[u] = "start" => pc[u] = "start"
    BY <1>6 DEF Say, At, Go, TaskTypes
  <2>3. \A b \in Bots : on(b)' => on(b)
    BY <1>6, TasksAssumption DEF Say, At, Go, TaskTypes, on, Tasks
  <2> QED
    BY <2>1, <2>2, <2>3, AloneKept
<1>7. ASSUME NEW t \in Tasks, Reply(t) PROVE Alone'
  <2>1. UNCHANGED <<channel, attached, outlived>> /\ (overruns' = 0 => overruns = 0)
    BY <1>7 DEF Reply, Walk, voice, budgets, RowTypes
  <2>2. \A u \in Tasks : pc'[u] = "start" => pc[u] = "start"
    BY <1>7 DEF Reply, Walk, At, Go, TaskTypes
  <2>3. \A b \in Bots : on(b)' => on(b)
    BY <1>7, TasksAssumption DEF Reply, Walk, At, Go, TaskTypes, on, Tasks
  <2> QED
    BY <2>1, <2>2, <2>3, AloneKept
<1>8. ASSUME NEW t \in Tasks, Ask(t) PROVE Alone'
  <2>1. UNCHANGED <<channel, attached, outlived>> /\ (overruns' = 0 => overruns = 0)
    BY <1>8 DEF Ask, Note, voice, budgets, RowTypes
  <2>2. \A u \in Tasks : pc'[u] = "start" => pc[u] = "start"
    BY <1>8 DEF Ask, Note, At, Go, TaskTypes
  <2>3. \A b \in Bots : on(b)' => on(b)
    BY <1>8, TasksAssumption DEF Ask, Note, At, Go, TaskTypes, on, Tasks
  <2> QED
    BY <2>1, <2>2, <2>3, AloneKept
<1>9. ASSUME NEW t \in Tasks, Request(t) PROVE Alone'
  <2>1. UNCHANGED <<channel, attached, outlived>> /\ (overruns' = 0 => overruns = 0)
    BY <1>9 DEF Request, Note, voice, budgets, RowTypes
  <2>2. \A u \in Tasks : pc'[u] = "start" => pc[u] = "start"
    BY <1>9 DEF Request, Note, At, Go, TaskTypes
  <2>3. \A b \in Bots : on(b)' => on(b)
    BY <1>9, TasksAssumption DEF Request, Note, At, Go, TaskTypes, on, Tasks
  <2> QED
    BY <2>1, <2>2, <2>3, AloneKept
<1>10. ASSUME NEW t \in Tasks, Look(t) PROVE Alone'
  <2>1. UNCHANGED <<channel, attached, outlived>> /\ (overruns' = 0 => overruns = 0)
    BY <1>10 DEF Look, Note, voice, budgets, RowTypes
  <2>2. \A u \in Tasks : pc'[u] = "start" => pc[u] = "start"
    BY <1>10 DEF Look, Note, At, Go, TaskTypes
  <2>3. \A b \in Bots : on(b)' => on(b)
    BY <1>10, TasksAssumption DEF Look, Note, At, Go, TaskTypes, on, Tasks
  <2> QED
    BY <2>1, <2>2, <2>3, AloneKept
<1>11. ASSUME NEW t \in Tasks, Decide(t) PROVE Alone'
  <2>1. UNCHANGED <<channel, attached, outlived>> /\ (overruns' = 0 => overruns = 0)
    BY <1>11 DEF Decide, verdict, voice, budgets, RowTypes
  <2>2. \A u \in Tasks : pc'[u] = "start" => pc[u] = "start"
    BY <1>11 DEF Decide, verdict, At, Go, TaskTypes
  <2>3. \A b \in Bots : on(b)' => on(b)
    BY <1>11, TasksAssumption DEF Decide, verdict, At, Go, TaskTypes, on, Tasks
  <2> QED
    BY <2>1, <2>2, <2>3, AloneKept
<1>12. ASSUME NEW t \in Tasks, Refuse(t) PROVE Alone'
  <2>1. UNCHANGED <<channel, attached, outlived>> /\ (overruns' = 0 => overruns = 0)
    BY <1>12 DEF Refuse, Walk, answer, voice, budgets, RowTypes
  <2>2. \A u \in Tasks : pc'[u] = "start" => pc[u] = "start"
    BY <1>12 DEF Refuse, Walk, answer, At, Go, TaskTypes
  <2>3. \A b \in Bots : on(b)' => on(b)
    BY <1>12, TasksAssumption DEF Refuse, Walk, answer, At, Go, TaskTypes, on, Tasks
  <2> QED
    BY <2>1, <2>2, <2>3, AloneKept
<1>13. ASSUME NEW t \in Tasks, Expire(t) PROVE Alone'
  <2>1. UNCHANGED <<channel, attached, outlived>> /\ (overruns' = 0 => overruns = 0)
    BY <1>13 DEF Expire, claim_pending, filled, Pending, Note, voice, budgets, RowTypes
  <2>2. \A u \in Tasks : pc'[u] = "start" => pc[u] = "start"
    BY <1>13 DEF Expire, claim_pending, filled, Pending, Note, At, Go, TaskTypes
  <2>3. \A b \in Bots : on(b)' => on(b)
    BY <1>13, TasksAssumption DEF Expire, claim_pending, filled, Pending, Note, At, Go,
       TaskTypes, on, Tasks
  <2> QED
    BY <2>1, <2>2, <2>3, AloneKept
<1>14. ASSUME NEW t \in Tasks, Siblings(t) PROVE Alone'
  <2>1. UNCHANGED <<channel, attached, outlived>> /\ (overruns' = 0 => overruns = 0)
    BY <1>14 DEF Siblings, undecided, Pending, Note, voice, budgets, RowTypes
  <2>2. \A u \in Tasks : pc'[u] = "start" => pc[u] = "start"
    BY <1>14 DEF Siblings, undecided, Pending, Note, At, Go, TaskTypes
  <2>3. \A b \in Bots : on(b)' => on(b)
    BY <1>14, TasksAssumption DEF Siblings, undecided, Pending, Note, At, Go, TaskTypes,
       on, Tasks
  <2> QED
    BY <2>1, <2>2, <2>3, AloneKept
<1>15. ASSUME NEW t \in Tasks, Resume(t) PROVE Alone'
  <2>1. UNCHANGED <<channel, attached, outlived>> /\ (overruns' = 0 => overruns = 0)
    BY <1>15 DEF Resume, after, voice, budgets, RowTypes
  <2>2. \A u \in Tasks : pc'[u] = "start" => pc[u] = "start"
    BY <1>15 DEF Resume, after, At, Go, TaskTypes
  <2>3. \A b \in Bots : on(b)' => on(b)
    BY <1>15, TasksAssumption DEF Resume, after, At, Go, TaskTypes, on, Tasks
  <2> QED
    BY <2>1, <2>2, <2>3, AloneKept
<1>16. ASSUME NEW t \in Tasks, Run(t) PROVE Alone'
  <2>1. UNCHANGED <<channel, attached, outlived>> /\ (overruns' = 0 => overruns = 0)
    BY <1>16 DEF Run, Walk, voice, budgets, RowTypes
  <2>2. \A u \in Tasks : pc'[u] = "start" => pc[u] = "start"
    BY <1>16 DEF Run, Walk, At, Go, TaskTypes
  <2>3. \A b \in Bots : on(b)' => on(b)
    BY <1>16, TasksAssumption DEF Run, Walk, At, Go, TaskTypes, on, Tasks
  <2> QED
    BY <2>1, <2>2, <2>3, AloneKept
<1>17. ASSUME NEW t \in Tasks, Record(t) PROVE Alone'
  <2>1. UNCHANGED <<channel, attached, outlived>> /\ (overruns' = 0 => overruns = 0)
    BY <1>17 DEF Record, answer, after, voice, budgets, RowTypes
  <2>2. \A u \in Tasks : pc'[u] = "start" => pc[u] = "start"
    BY <1>17 DEF Record, answer, after, At, Go, TaskTypes
  <2>3. \A b \in Bots : on(b)' => on(b)
    BY <1>17, TasksAssumption DEF Record, answer, after, At, Go, TaskTypes, on, Tasks
  <2> QED
    BY <2>1, <2>2, <2>3, AloneKept
<1>18. ASSUME NEW t \in Tasks, Interrupt(t) PROVE Alone'
  <2>1. UNCHANGED <<channel, attached, outlived>> /\ (overruns' = 0 => overruns = 0)
    BY <1>18 DEF Interrupt, streaming, Turns, voice, budgets, RowTypes
  <2>2. \A u \in Tasks : pc'[u] = "start" => pc[u] = "start"
    BY <1>18 DEF Interrupt, streaming, Turns, Go, TaskTypes
  <2>3. \A b \in Bots : on(b)' => on(b)
    BY <1>18, TasksAssumption DEF Interrupt, streaming, Turns, Go, TaskTypes, on, Tasks
  <2> QED
    BY <2>1, <2>2, <2>3, AloneKept
<1>19. ASSUME NEW t \in Tasks, InterruptRun(t) PROVE Alone'
  <2>1. UNCHANGED <<channel, attached, outlived>> /\ (overruns' = 0 => overruns = 0)
    BY <1>19 DEF InterruptRun, Walk, voice, budgets, RowTypes
  <2>2. \A u \in Tasks : pc'[u] = "start" => pc[u] = "start"
    BY <1>19 DEF InterruptRun, Walk, At, Go, TaskTypes
  <2>3. \A b \in Bots : on(b)' => on(b)
    BY <1>19, TasksAssumption DEF InterruptRun, Walk, At, Go, TaskTypes, on, Tasks
  <2> QED
    BY <2>1, <2>2, <2>3, AloneKept
<1>20. ASSUME NEW t \in Tasks, InterruptNote(t) PROVE Alone'
  <2>1. UNCHANGED <<channel, attached, outlived>> /\ (overruns' = 0 => overruns = 0)
    BY <1>20 DEF InterruptNote, Walk, answer, Fault, voice, budgets, RowTypes
  <2>2. \A u \in Tasks : pc'[u] = "start" => pc[u] = "start"
    BY <1>20 DEF InterruptNote, Walk, answer, Fault, At, Go, TaskTypes
  <2>3. \A b \in Bots : on(b)' => on(b)
    BY <1>20, TasksAssumption DEF InterruptNote, Walk, answer, Fault, At, Go, TaskTypes,
       on, Tasks
  <2> QED
    BY <2>1, <2>2, <2>3, AloneKept
<1>21. ASSUME NEW t \in Tasks, Excuse(t) PROVE Alone'
  <2>1. UNCHANGED <<channel, attached, outlived>> /\ (overruns' = 0 => overruns = 0)
    BY <1>21 DEF Excuse, Walk, answer, voice, budgets, RowTypes
  <2>2. \A u \in Tasks : pc'[u] = "start" => pc[u] = "start"
    BY <1>21 DEF Excuse, Walk, answer, At, Go, TaskTypes
  <2>3. \A b \in Bots : on(b)' => on(b)
    BY <1>21, TasksAssumption DEF Excuse, Walk, answer, At, Go, TaskTypes, on, Tasks
  <2> QED
    BY <2>1, <2>2, <2>3, AloneKept
<1>22. ASSUME NEW t \in Tasks, End(t) PROVE Alone'
  <2>1. UNCHANGED <<channel, attached, outlived>> /\ (overruns' = 0 => overruns = 0)
    BY <1>22 DEF End, voice, budgets, RowTypes
  <2>2. \A u \in Tasks : pc'[u] = "start" => pc[u] = "start"
    BY <1>22 DEF End, At, Go, TaskTypes
  <2>3. \A b \in Bots : on(b)' => on(b)
    BY <1>22, TasksAssumption DEF End, At, Go, TaskTypes, on, Tasks
  <2> QED
    BY <2>1, <2>2, <2>3, AloneKept
<1>23. ASSUME NEW t \in Tasks, Terminate(t) PROVE Alone'
  <2>1. UNCHANGED <<channel, attached, outlived>> /\ (overruns' = 0 => overruns = 0)
    BY <1>23 DEF Terminate, claim_pending, filled, Pending, Note, voice, budgets,
       RowTypes
  <2>2. \A u \in Tasks : pc'[u] = "start" => pc[u] = "start"
    BY <1>23 DEF Terminate, claim_pending, filled, Pending, Note, At, Go, TaskTypes
  <2>3. \A b \in Bots : on(b)' => on(b)
    BY <1>23, TasksAssumption DEF Terminate, claim_pending, filled, Pending, Note, At,
       Go, TaskTypes, on, Tasks
  <2> QED
    BY <2>1, <2>2, <2>3, AloneKept
<1>24. ASSUME NEW t \in Tasks, Attach(t) PROVE Alone'
  <2> SUFFICES ASSUME overruns = 0 PROVE Alone'
    BY <1>24 DEF Attach, budgets, Alone
  <2>1. lock = t /\ \A u \in Tasks \ {t} : pc[u] \in {"idle", "off"}
    BY <1>24 DEF Attach, At, Held
  <2>2. \A u \in Tasks \ {t} : pc'[u] = pc[u]
    BY <1>24 DEF Attach, Go, TaskTypes
  <2>3. CASE channel = "VOICE"
    <3>1. pc'[t] = "leave" /\ UNCHANGED <<channel, attached, outlived>>
      BY <1>24, <2>3 DEF Attach, Go, voice, TaskTypes
    <3>2. \A b \in Bots : on(b)' => on(b)
      BY <1>24, <2>2, <3>1 DEF Attach, At, on, Tasks
    <3> QED
      BY <2>2, <3>1, <3>2, AloneKept
  <2>4. CASE channel # "VOICE"
    <3>1. pc'[t] = "start" /\ channel' = "VOICE" /\ attached' = NoTask
      BY <1>24, <2>4 DEF Attach, Go, TaskTypes
    <3>2. (outlived' <=> \E b \in Bots : on(b))
      BY <1>24, <2>4 DEF Attach
    <3>3. t \notin Bots
      BY <1>24, <2>4 DEF Attach, At, Shape
    <3>4. ~outlived' => \A b \in Bots : ~on(b)'
      BY <2>2, <3>2, <3>3 DEF on, Tasks
    <3> QED
      BY <3>1, <3>4 DEF Alone
  <2> QED
    BY <2>3, <2>4
<1>25. ASSUME NEW t \in Tasks, Start(t) PROVE Alone'
  <2> SUFFICES ASSUME overruns = 0 PROVE Alone'
    BY <1>25 DEF Start, budgets, Alone
  <2>1. \A u \in Tasks \ {t} : pc[u] \in {"idle", "off"}
    BY <1>25 DEF Start, At, Held
  <2>2. attached = NoTask /\ (~outlived => channel = "VOICE" /\ \A b \in Bots : ~on(b))
    BY <1>25 DEF Start, At, Alone
  <2>3. CASE \E b \in Bots : /\ ~on(b) /\ pc' = [pc EXCEPT ![t] = "leave", ![b] = "idle"]
                             /\ attached' = b /\ UNCHANGED channel
    <3>1. PICK b \in Bots : /\ pc' = [pc EXCEPT ![t] = "leave", ![b] = "idle"]
                            /\ attached' = b /\ UNCHANGED channel
      BY <2>3
    <3>2. UNCHANGED outlived /\ t \notin Bots
      BY <1>25 DEF Start, At, Shape
    <3>3. /\ \A u \in Tasks : pc'[u] # "start"
          /\ \A a \in Bots \ {b} : pc'[a] = pc[a]
      BY <2>1, <3>1, <3>2 DEF TaskTypes, Tasks
    <3>4. ~outlived => \A a \in Bots : on(a)' => a = b
      BY <2>2, <3>3 DEF on
    <3> QED
      BY <2>2, <3>1, <3>2, <3>3, <3>4 DEF Alone
  <2>4. CASE Go(t, "leave") /\ to_chat /\ UNCHANGED attached
    <3>1. \A u \in Tasks : pc'[u] # "start"
      BY <2>1, <2>4 DEF Go, TaskTypes
    <3> QED
      BY <2>2, <2>4, <3>1 DEF Alone
  <2> QED
    BY <1>25, <2>3, <2>4 DEF Start
<1>26. ASSUME NEW t \in Tasks, Detach(t) PROVE Alone'
  <2>1. overruns' = overruns /\ attached' = NoTask
    BY <1>26 DEF Detach, budgets
  <2>2. overruns = 0 => \A u \in Tasks : pc'[u] # "start"
    BY <1>26 DEF Detach, Walk, At, Go, Held, TaskTypes
  <2> QED
    BY <2>1, <2>2 DEF Alone
<1>27. ASSUME NEW t \in Tasks, HangUp(t) PROVE Alone'
  <2> SUFFICES ASSUME overruns = 0 PROVE Alone'
    BY <1>27 DEF HangUp, Fault, budgets, Alone
  <2>1. \A u \in Tasks \ {t} : pc'[u] = pc[u]
    BY <1>27 DEF HangUp, Fault, Go, TaskTypes
  <2>2. /\ attached' = IF attached = t THEN NoTask ELSE attached
        /\ outlived' <=> outlived /\ attached # t
    BY <1>27 DEF HangUp, Fault
  <2>3. pc'[t] \in {"off", "idle"} /\ (t \in Bots => pc'[t] = "off")
    BY <1>27 DEF HangUp, Fault, Go, TaskTypes
  <2>4. t # NoTask
    BY TasksAssumption
  <2>5. ASSUME NEW u \in Tasks, pc'[u] = "start"
        PROVE  attached' = NoTask /\ (~outlived' => channel' = "VOICE"
                                                    /\ \A b \in Bots : ~on(b)')
    <3>1. pc[u] = "start" /\ attached = NoTask
      BY <2>1, <2>3, <2>5 DEF Alone
    <3>2. ~outlived' => channel = "VOICE" /\ \A b \in Bots : ~on(b)
      BY <2>2, <2>4, <3>1 DEF Alone
    <3>3. \A b \in Bots : on(b)' => on(b)
      BY <2>1, <2>3 DEF on, Tasks
    <3>4. ~outlived' => channel' = "VOICE"
      BY <1>27, <3>2 DEF HangUp, At, on, Tasks
    <3> QED
      BY <2>2, <3>1, <3>2, <3>3, <3>4
  <2>6. ASSUME attached' # NoTask, ~outlived'
        PROVE  channel' = "VOICE" /\ \A b \in Bots : on(b)' => b = attached'
    <3>1. attached # t /\ attached # NoTask /\ attached' = attached /\ ~outlived
      BY <2>2, <2>4, <2>6
    <3>2. channel = "VOICE" /\ \A b \in Bots : on(b) => b = attached
      BY <3>1 DEF Alone
    <3>3. \A b \in Bots : on(b)' => on(b)
      BY <2>1, <2>3 DEF on, Tasks
    <3>4. channel' = "VOICE"
      BY <1>27, <3>1, <3>2 DEF HangUp, At, on, Tasks
    <3> QED
      BY <3>1, <3>2, <3>3, <3>4
  <2> QED
    BY <2>5, <2>6 DEF Alone
<1>28. ASSUME NEW t \in Tasks, Fail(t) PROVE Alone'
  <2>1. UNCHANGED <<channel, attached, outlived>> /\ (overruns' = 0 => overruns = 0)
    BY <1>28 DEF Fail, Fault, Note, NoJob, voice, RowTypes
  <2>2. \A u \in Tasks : pc'[u] = "start" => pc[u] = "start"
    BY <1>28 DEF Fail, Fault, Note, NoJob, At, Go, TaskTypes
  <2>3. \A b \in Bots : on(b)' => on(b)
    BY <1>28, TasksAssumption DEF Fail, Fault, Note, NoJob, At, Go, TaskTypes, on, Tasks
  <2> QED
    BY <2>1, <2>2, <2>3, AloneKept
<1>29. ASSUME NEW t \in Tasks, Crash(t) PROVE Alone'
  <2> SUFFICES ASSUME overruns = 0 PROVE Alone'
    BY <1>29 DEF Crash, Alone
  <2>1. \A u \in Tasks \ {t} : pc'[u] = pc[u]
    BY <1>29 DEF Crash, Go, TaskTypes
  <2>2. /\ attached' = IF attached = t THEN NoTask ELSE attached
        /\ outlived' <=> outlived /\ attached # t
    BY <1>29 DEF Crash
  <2>3. pc'[t] \in {"off", "idle"} /\ (t \in Bots => pc'[t] = "off")
    BY <1>29 DEF Crash, Go, TaskTypes
  <2>4. t # NoTask
    BY TasksAssumption
  <2>5. ASSUME NEW u \in Tasks, pc'[u] = "start"
        PROVE  attached' = NoTask /\ (~outlived' => channel' = "VOICE"
                                                    /\ \A b \in Bots : ~on(b)')
    <3>1. pc[u] = "start" /\ attached = NoTask
      BY <2>1, <2>3, <2>5 DEF Alone
    <3>2. ~outlived' => channel = "VOICE" /\ \A b \in Bots : ~on(b)
      BY <2>2, <2>4, <3>1 DEF Alone
    <3>3. \A b \in Bots : on(b)' => on(b)
      BY <2>1, <2>3 DEF on, Tasks
    <3>4. ~outlived' => channel' = "VOICE"
      BY <1>29, <3>2 DEF Crash
    <3> QED
      BY <2>2, <3>1, <3>2, <3>3, <3>4
  <2>6. ASSUME attached' # NoTask, ~outlived'
        PROVE  channel' = "VOICE" /\ \A b \in Bots : on(b)' => b = attached'
    <3>1. attached # t /\ attached # NoTask /\ attached' = attached /\ ~outlived
      BY <2>2, <2>4, <2>6
    <3>2. channel = "VOICE" /\ \A b \in Bots : on(b) => b = attached
      BY <3>1 DEF Alone
    <3>3. \A b \in Bots : on(b)' => on(b)
      BY <2>1, <2>3 DEF on, Tasks
    <3>4. channel' = "VOICE"
      BY <1>29, <3>2 DEF Crash
    <3> QED
      BY <3>1, <3>2, <3>3, <3>4
  <2> QED
    BY <2>5, <2>6 DEF Alone
<1>30. ASSUME NEW c \in Calls, BecomeOverdue(c) PROVE Alone'
  BY <1>30, TasksAssumption DEF BecomeOverdue, Pending, history, voice, budgets,
     RowTypes, TaskTypes, Jobs, Shape, Held, on, Alone
<1>31. ASSUME NEW c \in Calls, Land(c) PROVE Alone'
  BY <1>31, TasksAssumption DEF Land, answer, Fault, approvals, voice, budgets,
     RowTypes, TaskTypes, Jobs, Shape, Held, on, Alone
<1>32. ASSUME LockExpires PROVE Alone'
  BY <1>32, TasksAssumption DEF LockExpires, approvals, history, voice, budgets,
     RowTypes, TaskTypes, Jobs, Shape, Held, on, Alone
<1>33. CASE UNCHANGED vars
  BY <1>33 DEF vars, approvals, history, voice, budgets, RowTypes, TaskTypes, Jobs,
     Shape, Held, on, Alone
<1> QED
  BY <1>1, <1>2, <1>3, <1>4, <1>5, <1>6, <1>7, <1>8, <1>9, <1>10, <1>11, <1>12, <1>13,
     <1>14, <1>15, <1>16, <1>17, <1>18, <1>19, <1>20, <1>21, <1>22, <1>23, <1>24, <1>25,
     <1>26, <1>27, <1>28, <1>29, <1>30, <1>31, <1>32, <1>33 DEF Next, Turn, Decision,
     Cancel, Ending, Voice

-----------------------------------------------------------------------------
(* The inductive invariant and the theorems.                               *)

IInv ==
    /\ TypeOK /\ Shape /\ Asks /\ Owed /\ AnsweredOnce /\ Runs /\ ApprovedRunsOnce
    /\ RanIsAnswered /\ Held /\ Settled /\ Quiet /\ Alone

LEMMA InvInit == Init => IInv
<1> SUFFICES ASSUME Init PROVE IInv
  OBVIOUS
<1>1. TypeOK /\ Shape
  BY TypeInit
<1>2. \A t \in Tasks : Owes(t) = {} /\ pc[t] \in {"idle", "off"}
  BY DEF Init, Owes
<1>3. Asks /\ Runs /\ ApprovedRunsOnce /\ RanIsAnswered /\ AnsweredOnce
  BY <1>2 DEF Init, Asks, Runs, Claimed, ApprovedRunsOnce, RanIsAnswered, AnsweredOnce
<1>4. Owed
  BY <1>2 DEF Init, Owed, Fresh
<1>5. Held /\ Settled /\ Quiet
  BY <1>2 DEF Init, Held, Settled, Quiet
<1>6. Alone
  BY <1>2 DEF Init, Alone
<1> QED
  BY <1>1, <1>3, <1>4, <1>5, <1>6 DEF IInv

LEMMA InvStep == IInv /\ [Next]_vars => IInv'
  BY TypeStep, ShapeStep, AsksStep, OwedStep, RunsStep, RanStep, HeldStep, SettledStep,
     QuietStep, AloneStep DEF IInv

LEMMA InvHolds == Spec => []IInv
  BY InvInit, InvStep, PTL DEF Spec

\* Type correctness, of every variable of the session and its tasks.
THEOREM TypeCorrect == Spec => []TypeOK
<1>1. IInv => TypeOK
  BY DEF IInv
<1> QED
  BY <1>1, InvHolds, PTL

\* A gated tool runs at most once, and only approved.
THEOREM RunsOnce == Spec => []ApprovedRunsOnce
<1>1. IInv => ApprovedRunsOnce
  BY DEF IInv
<1> QED
  BY <1>1, InvHolds, PTL

\* No call is answered twice, but for the insert that was reported failed.
THEOREM AnswersOnce == Spec => []AnsweredOnce
<1>1. IInv => AnsweredOnce
  BY DEF IInv
<1> QED
  BY <1>1, InvHolds, PTL

\* While nothing fails the answer of a tool that ran is written or on its way.
THEOREM RanHasAnswer == Spec => []RanIsAnswered
<1>1. IInv => RanIsAnswered
  BY DEF IInv
<1> QED
  BY <1>1, InvHolds, PTL

\* While locks outlive their holders, the model speaks when no approval is open.
THEOREM SpeaksSettled == Spec => []SpeaksToSettled
<1>1. IInv => SpeaksToSettled
  BY DEF IInv, Settled, SpeaksToSettled
<1> QED
  BY <1>1, InvHolds, PTL

\* While locks outlive their holders, an ended session stays quiet.
THEOREM EndIsQuiet == Spec => []EndedIsQuiet
<1>1. IInv => EndedIsQuiet
  BY DEF IInv, Quiet, EndedIsQuiet
<1> QED
  BY <1>1, InvHolds, PTL

\* While locks outlive their holders, a live attachment with no older bot beside
\* it is on VOICE.
THEOREM VoiceIsAttached == Spec => []AttachedIsVoice
<1>1. IInv => AttachedIsVoice
  BY DEF IInv, Alone, AttachedIsVoice
<1> QED
  BY <1>1, InvHolds, PTL

-----------------------------------------------------------------------------
(* The session implements GatedCall.                                       *)

\* The abstract state of a call, read off its row and the history.
LEMMA StateIs ==
    ASSUME RowTypes, NEW c \in Calls
    PROVE  /\ callState[c] = "new" <=> status[c] = "NONE" /\ c \notin asked
           /\ callState[c] = "asked" <=> status[c] = "NONE" /\ c \in asked
           /\ callState[c] = "open" <=> status[c] = "PENDING"
           /\ callState[c] = "approved" <=> status[c] = "APPROVED"
           /\ callState[c] = "closed" <=> status[c] \in {"DENIED", "EXPIRED", "SUPERSEDED"}
  BY DEF callState, RowTypes, ApprovalStatuses

\* Calls that move together from one state to another.
LEMMA GateMoves ==
    ASSUME NEW cs \in SUBSET Calls, NEW from, NEW to,
           \A c \in cs : callState[c] = from /\ callState[c]' = to,
           \A c \in Calls \ cs : callState[c]' = callState[c],
           UNCHANGED <<ran, answers, unsure>>
    PROVE  Gate!Move(cs, from, to)
<1>1. callState' = [c \in Calls |-> IF c \in cs THEN to ELSE callState[c]]
  BY DEF callState
<1> QED
  BY <1>1 DEF Gate!Move

\* What a task owes it may answer: for the first time, or after an insert that
\* was reported as failed.
LEMMA GateAnswers ==
    ASSUME RowTypes, Owed, NEW cs \in SUBSET Calls, answer(cs),
           NEW doubts \in SUBSET cs, unsure' = unsure \cup doubts,
           \A c \in cs : ~Fresh(c) /\ answers[c] <= Bound(c),
           \A c \in doubts : c \notin unsure,
           UNCHANGED <<status, asked, ran>>
    PROVE  Gate!Next
<1>1. \A c \in cs : callState[c] \in {"approved", "closed"}
  BY StateIs DEF Fresh, RowTypes, ApprovalStatuses
<1>2. \A c \in cs : answers[c] = 0 \/ (answers[c] = 1 /\ c \in unsure)
  BY DEF Bound, RowTypes
<1>3. UNCHANGED callState
  BY DEF callState
<1>4. Gate!Answer(cs, doubts)
  BY <1>1, <1>2, <1>3 DEF Gate!Answer, answer
<1> QED
  BY <1>4 DEF Gate!Next

\* UPDATE .. WHERE status = 'PENDING' of several calls closes them.
LEMMA GateCloses ==
    ASSUME RowTypes, NEW t \in Tasks, NEW claimed \in SUBSET Pending,
           NEW word \in {"EXPIRED", "SUPERSEDED"}, NEW otherwise,
           claim_pending(t, claimed, word, otherwise)
    PROVE  Gate!Next
<1>1. /\ status' = [c \in Calls |-> IF c \in claimed THEN word ELSE status[c]]
      /\ UNCHANGED <<ran, answers, unsure, asked>> /\ claimed \in SUBSET Calls
      /\ \A c \in claimed : status[c] = "PENDING"
  BY DEF claim_pending, history, Pending
<1>2. \A c \in claimed : callState[c] = "open" /\ callState[c]' = "closed"
  BY <1>1 DEF callState
<1>3. \A c \in Calls \ claimed : callState[c]' = callState[c]
  BY <1>1 DEF callState
<1>4. Gate!Move(claimed, "open", "closed")
  BY <1>1, <1>2, <1>3, GateMoves
<1> QED
  BY <1>1, <1>4 DEF Gate!Next

\* Who is about to run a tool owes its answer, so it has neither run nor answered.
LEMMA GateRuns ==
    ASSUME RowTypes, TaskTypes, Shape, Owed, Runs, NEW t \in Tasks, pc[t] = "run",
           NEW times \in 0..1, ran' = [ran EXCEPT ![job[t].call] = @ + times],
           UNCHANGED <<status, asked, answers, unsure>>
    PROVE  Gate!Next \/ UNCHANGED <<callState, ran, answers, unsure>>
<1>1. Approves(t) /\ job[t].call \in Owes(t) /\ job[t].call \in Calls
  BY OwesCalls DEF Shape, Approves, Owes
<1>2. /\ status[job[t].call] = "APPROVED" /\ ran[job[t].call] = 0
      /\ answers[job[t].call] = 0
  BY <1>1 DEF Runs, Claimed, Owed, Bound, RowTypes
<1>3. UNCHANGED callState
  BY DEF callState
<1>4. CASE times = 0
  BY <1>3, <1>4 DEF RowTypes
<1>5. CASE times = 1
  <2>1. callState[job[t].call] = "approved"
    BY <1>1, <1>2, StateIs
  <2>2. Gate!Run(job[t].call)
    BY <1>2, <1>3, <1>5, <2>1 DEF Gate!Run
  <2> QED
    BY <1>1, <2>2 DEF Gate!Next
<1> QED
  BY <1>4, <1>5

\* The same for the one call of a decision.
LEMMA GateAnswersOne ==
    ASSUME RowTypes, TaskTypes, Shape, Owed, NEW t \in Tasks,
           job[t].call \in Owes(t), answer({job[t].call}),
           UNCHANGED <<status, asked, ran, unsure>>
    PROVE  Gate!Next
<1>1. {job[t].call} \in SUBSET Calls
  BY OwesCalls
<1>2. \A c \in {job[t].call} : ~Fresh(c) /\ answers[c] <= Bound(c)
  BY DEF Owed
<1>3. /\ {} \in SUBSET {job[t].call} /\ unsure' = unsure \cup {}
      /\ \A c \in {} : c \notin unsure
  OBVIOUS
<1> QED
  BY <1>1, <1>2, <1>3, GateAnswers

\* Most steps move no call.
LEMMA GateStutters ==
    ASSUME UNCHANGED <<status, asked, ran, answers, unsure>>
    PROVE  Gate!Next \/ UNCHANGED <<callState, ran, answers, unsure>>
  BY DEF callState

LEMMA GateInit == Init => Gate!Init
  BY DEF Init, Gate!Init, callState

\* Every step is one of GatedCall or moves no call.
LEMMA GateStep ==
    IInv /\ [Next]_vars => [Gate!Next]_<<callState, ran, answers, unsure>>
<1> SUFFICES ASSUME RowTypes, TaskTypes, Shape, Asks, Owed, Runs, [Next]_vars
             PROVE  Gate!Next \/ UNCHANGED <<callState, ran, answers, unsure>>
  BY DEF IInv, TypeOK, RowTypes, TaskTypes
<1> DEFINE Mapped == Gate!Next \/ UNCHANGED <<callState, ran, answers, unsure>>
<1> HIDE DEF Mapped
<1>0. ASSUME UNCHANGED <<status, asked, ran, answers, unsure>> PROVE Mapped
  BY <1>0, GateStutters DEF Mapped
<1>1. ASSUME NEW t \in Tasks,
             Acquire(t) \/ Check(t) \/ Leave(t) \/ Say(t) \/ Reply(t) \/ Look(t)
                \/ Siblings(t) \/ Resume(t) \/ Interrupt(t) \/ End(t) \/ Voice(t)
                \/ Fail(t) \/ Crash(t)
      PROVE  Mapped
  <2>1. UNCHANGED <<status, asked, ran, answers, unsure>>
    BY <1>1 DEF Acquire, Check, Leave, Say, Reply, Walk, Look, Siblings, Resume,
       Interrupt, End, Voice, Attach, Start, Detach, HangUp, Fail, Crash, approvals,
       history
  <2> QED
    BY <1>0, <2>1
<1>2. ASSUME NEW t \in Tasks, Supersede(t) PROVE Mapped
  BY <1>2, GateCloses DEF Supersede, Mapped
<1>3. ASSUME NEW t \in Tasks, Expire(t) PROVE Mapped
  <2>1. Pending \cap overdue \in SUBSET Pending
    OBVIOUS
  <2> QED
    BY <1>3, <2>1, GateCloses DEF Expire, Mapped
<1>4. ASSUME NEW t \in Tasks, Terminate(t) PROVE Mapped
  BY <1>4, GateCloses DEF Terminate, Mapped
<1>5. ASSUME NEW t \in Tasks, Fill(t) PROVE Mapped
  <2>1. job[t].calls \in SUBSET Calls /\ job[t].calls \subseteq Owes(t)
    BY <1>5 DEF Fill, At, Owes, TaskTypes, Jobs
  <2>2. \A c \in job[t].calls : ~Fresh(c) /\ answers[c] <= Bound(c)
    BY <2>1 DEF Owed
  <2>3. /\ answer(job[t].calls) /\ UNCHANGED <<status, asked, ran>>
        /\ {} \in SUBSET job[t].calls /\ unsure' = unsure \cup {}
        /\ \A c \in {} : c \notin unsure
    BY <1>5 DEF Fill, approvals
  <2> QED
    BY <2>1, <2>2, <2>3, GateAnswers DEF Mapped
<1>6. ASSUME NEW t \in Tasks, Ask(t) PROVE Mapped
  <2>1. PICK cs \in SUBSET (Calls \ asked) : asked' = asked \cup cs
    BY <1>6 DEF Ask
  <2>2. UNCHANGED <<status, ran, answers, unsure>> /\ cs \in SUBSET Calls
    BY <1>6, <2>1 DEF Ask, approvals, history
  <2>3. \A c \in cs : callState[c] = "new" /\ callState[c]' = "asked"
    BY <2>1, <2>2 DEF callState, Asks
  <2>4. \A c \in Calls \ cs : callState[c]' = callState[c]
    BY <2>1, <2>2 DEF callState
  <2>5. Gate!Move(cs, "new", "asked")
    BY <2>2, <2>3, <2>4, GateMoves
  <2> QED
    BY <2>2, <2>5 DEF Mapped, Gate!Next
<1>7. ASSUME NEW t \in Tasks, Request(t) PROVE Mapped
  <2>1. PICK c \in job[t].calls : status' = [status EXCEPT ![c] = "PENDING"]
    BY <1>7 DEF Request
  <2>2. /\ UNCHANGED <<asked, ran, answers, unsure>> /\ c \in Calls
        /\ c \in asked /\ status[c] = "NONE"
    BY <1>7, <2>1 DEF Request, At, history, TaskTypes, Jobs, Asks
  <2>3. callState[c] = "asked" /\ callState[c]' = "open"
    BY <2>1, <2>2 DEF callState, RowTypes
  <2>4. \A d \in Calls \ {c} : callState[d]' = callState[d]
    BY <2>1, <2>2 DEF callState, RowTypes
  <2>5. Gate!Move({c}, "asked", "open")
    BY <2>2, <2>3, <2>4, GateMoves
  <2> QED
    BY <2>2, <2>5 DEF Mapped, Gate!Next
<1>8. ASSUME NEW t \in Tasks, Decide(t) PROVE Mapped
  <2>0. PICK c \in Calls : c = job[t].call
    BY <1>8 DEF Decide, At, Shape
  <2>1. UNCHANGED <<asked, ran, answers, unsure>>
    BY <1>8 DEF Decide, history
  <2>2. CASE status[c] # "PENDING"
    BY <1>0, <1>8, <2>0, <2>1, <2>2 DEF Decide, approvals
  <2>3. CASE status[c] = "PENDING"
    <3>1. /\ status' = [status EXCEPT ![c] = verdict(job[t].word)]
          /\ verdict(job[t].word) \in {"APPROVED", "DENIED", "EXPIRED"}
      BY <1>8, <2>0, <2>3 DEF Decide, verdict
    <3>2. callState[c] = "open" /\ callState[c]' \in {"approved", "closed"}
      BY <2>1, <2>3, <3>1 DEF callState, RowTypes
    <3>3. \A d \in Calls \ {c} : callState[d]' = callState[d]
      BY <2>1, <3>1 DEF callState, RowTypes
    <3>4. {c} \in SUBSET Calls
      OBVIOUS
    <3>5. Gate!Move({c}, "open", "approved") \/ Gate!Move({c}, "open", "closed")
      BY <2>1, <3>2, <3>3, <3>4, GateMoves
    <3> QED
      BY <2>1, <3>4, <3>5 DEF Mapped, Gate!Next
  <2> QED
    BY <2>2, <2>3
<1>9. ASSUME NEW t \in Tasks, Refuse(t) PROVE Mapped
  <2>1. job[t].call \in Owes(t) /\ answer({job[t].call})
    BY <1>9 DEF Refuse, Walk, At, Owes
  <2>2. UNCHANGED <<status, asked, ran, unsure>>
    BY <1>9 DEF Refuse, approvals
  <2> QED
    BY <2>1, <2>2, GateAnswersOne DEF Mapped
<1>10. ASSUME NEW t \in Tasks, Record(t) PROVE Mapped
  <2>1. job[t].call \in Owes(t) /\ answer({job[t].call})
    BY <1>10 DEF Record, At, Owes, Approves, Shape
  <2>2. UNCHANGED <<status, asked, ran, unsure>>
    BY <1>10 DEF Record, approvals
  <2> QED
    BY <2>1, <2>2, GateAnswersOne DEF Mapped
<1>11. ASSUME NEW t \in Tasks, Run(t) \/ InterruptRun(t) PROVE Mapped
  <2>1. /\ pc[t] = "run" /\ UNCHANGED <<status, asked, answers, unsure>>
        /\ \E times \in 0 .. 1 : ran' = [ran EXCEPT ![job[t].call] = @ + times]
    BY <1>11 DEF Run, InterruptRun, Walk, At, approvals, history
  <2> QED
    BY <2>1, GateRuns DEF Mapped
<1>12. ASSUME NEW t \in Tasks, InterruptNote(t) PROVE Mapped
  <2> DEFINE c == job[t].call
  <2>1. pc[t] = "note" /\ UNCHANGED <<status, asked, ran>>
    BY <1>12 DEF InterruptNote, Walk, At, approvals
  <2>2. c \in Owes(t)
    BY <2>1 DEF Owes, Approves, Shape
  <2>3. \/ answer({c}) /\ UNCHANGED unsure
        \/ UNCHANGED <<answers, unsure>>
        \/ answer({c}) /\ unsure' = unsure \cup {c}
    BY <1>12 DEF InterruptNote, history
  <2>4. CASE answer({c}) /\ UNCHANGED unsure
    BY <2>1, <2>2, <2>4, GateAnswersOne DEF Mapped
  <2>5. CASE UNCHANGED <<answers, unsure>>
    BY <1>0, <2>1, <2>5
  <2>6. CASE answer({c}) /\ unsure' = unsure \cup {c}
    <3>1. ~Fresh(c) /\ answers[c] <= Bound(c) /\ c \notin unsure
      BY <2>1, <2>2 DEF Owed
    <3>2. {c} \in SUBSET Calls /\ {c} \in SUBSET {c}
      BY <2>2, OwesCalls
    <3> HIDE DEF c
    <3> QED
      BY <2>1, <2>6, <3>1, <3>2, GateAnswers DEF Mapped
  <2> QED
    BY <2>3, <2>4, <2>5, <2>6
<1>13. ASSUME NEW t \in Tasks, Excuse(t) PROVE Mapped
  <2>1. job[t].call \in Owes(t) /\ UNCHANGED <<status, asked, ran, unsure>>
    BY <1>13 DEF Excuse, Walk, At, Owes, Approves, Shape, approvals
  <2>2. answer({job[t].call}) \/ UNCHANGED answers
    BY <1>13 DEF Excuse
  <2> QED
    BY <1>0, <2>1, <2>2, GateAnswersOne DEF Mapped
<1>14. ASSUME NEW c \in Calls, Land(c) PROVE Mapped
  <2>1. UNCHANGED <<status, asked, ran, unsure>> /\ (answer({c}) \/ UNCHANGED answers)
    BY <1>14 DEF Land, approvals
  <2>2. ~Fresh(c) /\ answers[c] <= Bound(c)
    BY <1>14 DEF Land, Owed
  <2>3. /\ {c} \in SUBSET Calls /\ {} \in SUBSET {c} /\ unsure' = unsure \cup {}
        /\ \A d \in {} : d \notin unsure
    BY <2>1
  <2>4. CASE answer({c})
    BY <2>1, <2>2, <2>3, <2>4, GateAnswers DEF Mapped
  <2> QED
    BY <1>0, <2>1, <2>4
<1>15. ASSUME NEW c \in Calls, BecomeOverdue(c) PROVE Mapped
  BY <1>0, <1>15 DEF BecomeOverdue, history
<1>16. ASSUME LockExpires PROVE Mapped
  BY <1>0, <1>16 DEF LockExpires, approvals, history
<1>17. ASSUME UNCHANGED vars PROVE Mapped
  BY <1>0, <1>17 DEF vars, approvals, history
<1>18. Mapped
  BY <1>1, <1>2, <1>3, <1>4, <1>5, <1>6, <1>7, <1>8, <1>9, <1>10, <1>11, <1>12, <1>13,
     <1>14, <1>15, <1>16, <1>17 DEF Next, Turn, Decision, Cancel, Ending
<1> QED
  BY <1>18 DEF Mapped

\* The session implements GatedCall: however the turns, the decisions, their
\* cancels and the shielded inserts of any tasks interleave, each gated call is
\* asked, put to a person, approved, run and answered in that order.
THEOREM SessionIsGate == Spec => ImplementsGate
  BY GateInit, GateStep, InvHolds, PTL DEF Spec, ImplementsGate, Gate!Spec
=============================================================================
