--------------------------- MODULE OutreachWalker ---------------------------
(***************************************************************************)
(* The runs of one outreach plan for one enrollment key: tokens that       *)
(* walkers move over the squares of a published board, that the letters of *)
(* the event spine start, wake, refresh and end, and that people re-pin,   *)
(* resume or stop.  No lock is held across a step: a walker's claim stamps *)
(* wake_at, and each of its later writes is a compare-and-set on that      *)
(* stamp.                                                                  *)
(*                                                                         *)
(* wake_at is `lease` (the visit whose claim wrote the value that stands   *)
(* there, NoWalker for any other writer's value) and `due` (the value is   *)
(* not in the future).  node_arrived_at is `stay`, the ordinal of the run's *)
(* stay on its square.  A walker that claims a batch is one Walker per run *)
(* of the batch.                                                           *)
(***************************************************************************)
EXTENDS Naturals, Sequences

CONSTANTS
    Runs,           \* the ids enrolments may get
    Walkers,        \* visits that may be under way at once, over all pods
    Letters,        \* events of the customer that the spine will hand over
    NoWalker, NoRun, NoLetter,
    Squares,        \* node ids, over all versions
    Listening,      \* waits that list topics
    Timers,         \* waits that do not
    Calls, Sends,   \* squares that queue a lead, a message
    Windowed,       \* waits with an opening window
    Versions,       \* published documents: 1 .. n
    Board,          \* version -> its document
    Opens,          \* letters on a door's topic
    Goals,          \* letters that match a goal tier
    Hears,          \* letter -> listening squares that take it as an answer
    Reports,        \* letters of our own calls
    Says,           \* letter -> the label of the arrow it answers with
    HappenedAt,     \* letter -> occurred_at
    MaxAttempts,    \* CRM_WALKER_MAX_ATTEMPTS
    MaxSteps,       \* _MAX_STEPS_PER_VISIT
    MaxStay,        \* bound: no claim of a run past this stay
    MaxFaults,      \* bound: failed steps, dead visits, outlived leases,
                    \*        redelivered letters
    MaxEdits        \* bound: changes of the plan by people

Waits == Listening \cup Timers
Rules == Squares \ (Waits \cup Calls \cup Sends)    \* condition and split
branches(n) == n \in Listening \cup Rules
End == "end"
NoReply == "none"
ExitReasons == {"completed", "ejected", "timed_out", "goal_met"}
Verdicts == ExitReasons \cup {"none", "parked", "retry"}

ASSUME SquaresAssumption ==
    /\ Listening \cup Timers \cup Calls \cup Sends \subseteq Squares
    /\ Listening \cap Timers = {} /\ Waits \cap (Calls \cup Sends) = {}
    /\ Calls \cap Sends = {} /\ Windowed \subseteq Waits /\ End \notin Squares
ASSUME NamesAssumption ==
    NoWalker \notin Walkers /\ NoRun \notin Runs /\ NoLetter \notin Letters
ASSUME LettersAssumption == Opens \cup Goals \cup Reports \subseteq Letters
\* A letter without an answer to give is ignored where it would be heard.
ASSUME AnswersAssumption == \A l \in Letters : Says[l] # NoReply

ASSUME BoardAssumption ==
    /\ Versions \subseteq Nat \ {0}
    /\ \A v \in Versions :
        /\ \A e \in Board[v].edges : e[3] \in Squares \cup {End}
        /\ Board[v].door.start \in Squares

VARIABLES
    row,       \* crm_workflow_enrollment
    trail,     \* crm_workflow_step: the closed squares of each run, in order
    visit,     \* what each walker holds in memory
    hand,      \* how far the event worker is with each letter
    plan,      \* crm_workflow.status
    latest,    \* crm_workflow.version
    leads,     \* <<run, call square, visit>> of the leads queued
    messages,  \* <<run, send square>> of the manifest rows queued
    heard,     \* history: <<run, stay, letter>> of the answers recorded
    faults, edits

outside == <<plan, latest, leads, messages, heard>>
budgets == <<faults, edits>>
vars == <<row, trail, visit, hand, outside, budgets>>

NoContext == [reply |-> [n \in Squares |-> NoReply],
              visits |-> [n \in Squares |-> 0], repeats |-> {}]
NoRow == [status |-> "none", reason |-> "none", square |-> End, version |-> 0,
          stay |-> 0, attempts |-> 0, lease |-> NoWalker, due |-> FALSE,
          founding |-> NoLetter, context |-> NoContext]
Idle == [pc |-> "idle", run |-> NoRun, version |-> 0, founding |-> NoLetter,
         attempts |-> 0, square |-> End, stay |-> 0, context |-> NoContext,
         walked |-> <<>>, verdict |-> "none", warned |-> FALSE]
Nothing == [square |-> End, stay |-> 0, version |-> 0]
Pending == [pc |-> "pending", run |-> NoRun, seen |-> Nothing, at |-> 1,
            version |-> 0]

Open(r) == row[r].status \in {"waiting", "parked"}
Fault == faults < MaxFaults /\ faults' = faults + 1 /\ UNCHANGED edits
Edit == edits < MaxEdits /\ edits' = edits + 1 /\ UNCHANGED faults

\* One row of the trail.
closed(stay, n, outcome, next) ==
    [stay |-> stay, square |-> n, outcome |-> outcome, next |-> next]

\* The arrow with the answer's label, else the "else" arrow, else the end.
pick_next(v, n, label) ==
    LET arrows(on) == {e \in Board[v].edges : e[1] = n /\ e[2] = on}
    IN  CASE arrows(label) # {} -> (CHOOSE e \in arrows(label) : TRUE)[3]
          [] arrows(label) = {} /\ branches(n) /\ arrows("else") # {} ->
                (CHOOSE e \in arrows("else") : TRUE)[3]
          [] OTHER -> End

\* The square a run stood on when something ended it without a walk.
closing(r, outcome) ==
    IF r.square \in Board[r.version].squares
    THEN <<closed(r.stay, r.square, outcome, End)>> ELSE <<>>

\* A goal letter is in the log, attributed, and later than the run's founding.
customer_has_event(founding) ==
    \E l \in Goals :
        hand[l].pc = "stamped" /\ HappenedAt[founding] < HappenedAt[l]

-----------------------------------------------------------------------------
(* The walker.                                                             *)

\* Mutants of the next definitions.
landed_ByStatus(w) == row[visit[w].run].status = "waiting"
claimable_Unclaimed(r) ==
    row[r].status = "waiting" /\ row[r].due /\ row[r].attempts = 0
without_reply_Kept(context, n) == context
next_visit_First(context, n) == 1

\* The row still carries the value this visit's claim wrote.
landed(w) ==
    LET r == visit[w].run IN row[r].status = "waiting" /\ row[r].lease = w
claimable(r) == row[r].status = "waiting" /\ row[r].due
without_reply(context, n) == [context EXCEPT !.reply[n] = NoReply]
next_visit(context, n) == context.visits[n] + 1

ClaimDueRun(w, r) ==
    /\ visit[w] = Idle
    /\ claimable(r) /\ plan # "paused" /\ row[r].stay <= MaxStay
    /\ row' = [row EXCEPT ![r].lease = w, ![r].due = FALSE,
                          ![r].attempts = @ + 1]
    /\ visit' = [visit EXCEPT ![w] =
        [Idle EXCEPT !.pc = "status", !.run = r, !.version = row[r].version,
                     !.founding = row[r].founding, !.attempts = row'[r].attempts,
                     !.square = row[r].square, !.stay = row[r].stay,
                     !.context = row[r].context,
                     !.warned = customer_has_event(row[r].founding)]]
    /\ UNCHANGED <<trail, hand, outside, budgets>>

Go(w, where) == visit' = [visit EXCEPT ![w].pc = where]
Decide(w, verdict) ==
    visit' = [visit EXCEPT ![w].pc = "write", ![w].verdict = verdict]

\* workflow_status: archived ejects, paused leaves the run to its lease.
ReadStatus(w) ==
    /\ visit[w].pc = "status"
    /\ \/ plan = "archived" /\ Decide(w, "ejected")
       \/ plan = "paused" /\ visit' = [visit EXCEPT ![w] = Idle]
       \/ plan = "live" /\ Go(w, "judge")
    /\ UNCHANGED <<row, trail, hand, outside, budgets>>

\* Mutant of the next definition.
JudgeExits_Unjudged(w) ==
    /\ visit[w].pc = "judge"
    /\ Decide(w, "timed_out") \/ Go(w, "board")
    /\ UNCHANGED <<row, trail, hand, outside, budgets>>

\* The age ceiling, then the goal: both before any square acts.
JudgeExits(w) ==
    /\ visit[w].pc = "judge"
    /\ LET met == customer_has_event(visit[w].founding) IN
       \/ Decide(w, "timed_out")
       \/ met /\ Decide(w, "goal_met")
       \/ ~met /\ Go(w, "board")
    /\ UNCHANGED <<row, trail, hand, outside, budgets>>

\* A write of this visit: it lands, with the squares it closes, or is dropped.
Land(w, new, steps) ==
    /\ IF landed(w)
       THEN /\ row' = [row EXCEPT ![visit[w].run] = new]
            /\ trail' = [trail EXCEPT ![visit[w].run] = @ \o steps]
       ELSE UNCHANGED <<row, trail>>
    /\ visit' = [visit EXCEPT ![w] = Idle]

advance_run(w, n, stay, context, steps) ==
    Land(w, [row[visit[w].run] EXCEPT
                !.square = n, !.stay = stay, !.context = context,
                !.attempts = 0, !.lease = NoWalker, !.due = FALSE], steps)

exit_run(w, reason, n, context, steps) ==
    Land(w, [row[visit[w].run] EXCEPT
                !.status = "exited", !.reason = reason, !.square = n,
                !.context = context, !.lease = NoWalker, !.due = FALSE], steps)

\* The version the run is pinned to does not have the square it stands on.
ParkOffBoard(w) ==
    /\ visit[w].pc = "board"
    /\ visit[w].square \notin Board[visit[w].version].squares
    /\ Decide(w, "parked")
    /\ UNCHANGED <<row, trail, hand, outside, budgets>>

\* The timer fired in the shut hours: stay on the square until it opens.
HoldForWindow(w) ==
    LET v == visit[w] IN
    /\ v.pc = "board" /\ v.square \in Board[v.version].squares
    /\ v.square \in Windowed /\ v.context.reply[v.square] = NoReply
    /\ advance_run(w, v.square, v.stay, v.context, v.walked)
    /\ UNCHANGED <<hand, outside, budgets>>

\* What the square does: a lead, a message, the label of an arrow.
ExecuteSquare(w) ==
    LET v == visit[w]
        n == v.square
        Ran(context) ==
            visit' = [visit EXCEPT ![w].pc = "leave", ![w].context = context]
    IN
    /\ v.pc = "board" /\ n \in Board[v.version].squares \ Waits
    /\ \/ /\ n \in Calls
          /\ leads' = leads \cup {<<v.run, n, next_visit(v.context, n)>>}
          /\ Ran([v.context EXCEPT !.visits[n] = next_visit(v.context, n)])
          /\ UNCHANGED messages
       \/ /\ n \in Sends
          /\ messages' = messages \cup {<<v.run, n>>}
          /\ Ran(v.context) /\ UNCHANGED leads
       \/ /\ n \in Rules
          /\ \E e \in Board[v.version].edges :
                e[1] = n /\ Ran([v.context EXCEPT !.reply[n] = e[2]])
          /\ UNCHANGED <<leads, messages>>
    /\ UNCHANGED <<row, trail, hand, plan, latest, heard, budgets>>

\* The token leaves the square: to the end, onto a wait, or on in this visit.
LeaveSquare(w) ==
    LET v == visit[w]
        n == v.square
        answer == v.context.reply[n]
        label == IF ~branches(n) THEN "next"
                 ELSE IF answer = NoReply THEN "timeout" ELSE answer
        next == pick_next(v.version, n, label)
        context == IF branches(n) THEN without_reply(v.context, n) ELSE v.context
        walked == Append(v.walked, closed(v.stay, n, label, next))
        WalkOn == visit' = [visit EXCEPT ![w] =
            [v EXCEPT !.square = next, !.stay = @ + 1, !.context = context,
                      !.walked = walked,
                      !.pc = IF Len(walked) = MaxSteps THEN "write" ELSE "board",
                      !.verdict = IF Len(walked) = MaxSteps THEN "parked"
                                  ELSE "none"]]
    IN
    /\ \/ v.pc = "leave"
       \/ v.pc = "board" /\ n \in Waits /\ n \in Board[v.version].squares
    /\ \/ next = End /\ exit_run(w, "completed", n, context, walked)
       \/ /\ next \in Waits
          /\ advance_run(w, next, v.stay + 1, context, walked)
       \/ /\ next \in Squares \ Waits \/ next \in Windowed \ Listening
          /\ WalkOn /\ UNCHANGED <<row, trail>>
    /\ UNCHANGED <<hand, outside, budgets>>

\* The write of a visit that was judged before, or failed on, the board.
WriteVerdict(w) ==
    LET v == visit[w] IN
    /\ v.pc = "write"
    /\ \/ /\ v.verdict \in ExitReasons
          /\ exit_run(w, v.verdict, row[v.run].square, row[v.run].context,
                      closing(v, v.verdict))
       \/ /\ v.verdict = "parked"
          /\ Land(w, [row[v.run] EXCEPT !.status = "parked", !.due = FALSE,
                                        !.lease = NoWalker], <<>>)
       \/ /\ v.verdict = "retry"
          /\ Land(w, [row[v.run] EXCEPT !.due = FALSE, !.lease = NoWalker], <<>>)
    /\ UNCHANGED <<hand, outside, budgets>>

\* A step of the visit raises: a defect parks, anything else is retried.
FailVisit(w) ==
    /\ visit[w].pc \notin {"idle", "write"} /\ Fault
    /\ \/ Decide(w, "parked")
       \/ Decide(w, IF visit[w].attempts >= MaxAttempts
                    THEN "parked" ELSE "retry")
    /\ UNCHANGED <<row, trail, hand, outside>>

\* The pod dies, or stops between two runs of its batch.
DropVisit(w) ==
    /\ visit[w].pc # "idle" /\ Fault
    /\ visit' = [visit EXCEPT ![w] = Idle]
    /\ UNCHANGED <<row, trail, hand, outside>>

\* The clock reaches wake_at.  While its visit is under way that is a lease
\* outlived by its holder.
ComeDue(r) ==
    /\ row[r].status = "waiting" /\ ~row[r].due
    /\ IF \E w \in Walkers : visit[w].run = r /\ row[r].lease = w
       THEN Fault ELSE UNCHANGED budgets
    /\ row' = [row EXCEPT ![r].due = TRUE]
    /\ UNCHANGED <<trail, visit, hand, outside>>

-----------------------------------------------------------------------------
(* The entry consumer: one letter, handed over by the event worker.        *)

GoLetter(l, where) == hand' = [hand EXCEPT ![l].pc = where]
ears(v, l) == SelectSeq(Board[v].ears, LAMBDA n : n \in Hears[l])

\* open_runs_for_customer: the rows as they are before anything is judged.
ReadOpenRuns(l) ==
    /\ hand[l].pc = "pending"
    /\ \/ \E r \in Runs :
            /\ Open(r)
            /\ hand' = [hand EXCEPT ![l] =
                    [@ EXCEPT !.pc = "goal", !.run = r, !.seen =
                        [square |-> row[r].square, stay |-> row[r].stay,
                         version |-> row[r].version]]]
       \/ (\A r \in Runs : ~Open(r)) /\ GoLetter(l, "doors")
    /\ UNCHANGED <<row, trail, visit, outside, budgets>>

\* cancel_run: the run is open, and was founded before the goal happened.
ended(l, r) == Open(r) /\ HappenedAt[row[r].founding] < HappenedAt[l]
\* The row the consumer read is still the row it ends.
flushed(l, r) ==
    row[r].square = hand[l].seen.square /\ row[r].stay = hand[l].seen.stay

EndOnGoal(l) ==
    LET r == hand[l].run IN
    /\ hand[l].pc = "goal"
    /\ \/ /\ l \in Goals /\ ended(l, r)
          /\ row' = [row EXCEPT ![r].status = "exited", ![r].reason = "goal_met",
                                ![r].due = FALSE, ![r].lease = NoWalker]
          /\ trail' = IF flushed(l, r)
                      THEN [trail EXCEPT ![r] =
                                @ \o closing(hand[l].seen, "goal_met")]
                      ELSE trail
          /\ GoLetter(l, "doors")
       \/ /\ ~(l \in Goals /\ ended(l, r))
          /\ GoLetter(l, "wake")
          /\ UNCHANGED <<row, trail>>
    /\ UNCHANGED <<visit, outside, budgets>>

\* Mutant of the next definition.
resumes_Exited(l, r, n) == row[r].square = n

\* resume_run_by_id, refresh_run_facts: only a run still on the square.
resumes(l, r, n) == Open(r) /\ row[r].square = n
woken(r) == [r EXCEPT !.status = "waiting", !.due = TRUE, !.lease = NoWalker,
                      !.attempts = IF r.status = "parked" THEN 0 ELSE @]

\* One square of the pinned document that listens for the letter.
WakeOnReply(l) ==
    LET r == hand[l].run
        n == ears(hand[l].seen.version, l)[hand[l].at]
    IN
    /\ hand[l].pc = "wake" /\ hand[l].at <= Len(ears(hand[l].seen.version, l))
    /\ IF resumes(l, r, n)
       THEN /\ row' = [row EXCEPT ![r] =
                    [woken(@) EXCEPT !.context.reply[n] = Says[l]]]
            /\ heard' = heard \cup {<<r, row[r].stay, l>>}
       ELSE UNCHANGED <<row, heard>>
    /\ hand' = [hand EXCEPT ![l].at = @ + 1]
    /\ UNCHANGED <<trail, visit, plan, latest, leads, messages, budgets>>

\* The run was read on a square that listens to nothing: its facts are the
\* newest word, and the visit is redone on them.
RefreshRunFacts(l) ==
    LET r == hand[l].run
        seen == hand[l].seen
    IN
    /\ hand[l].pc = "wake" /\ hand[l].at > Len(ears(seen.version, l))
    /\ row' = IF /\ seen.square \in Board[seen.version].squares \ Listening
                 /\ l \notin Reports /\ ears(seen.version, l) # <<>>
                 /\ resumes(l, r, seen.square)
              THEN [row EXCEPT ![r] = woken(@)] ELSE row
    /\ GoLetter(l, "doors")
    /\ UNCHANGED <<trail, visit, outside, budgets>>

\* Mutant of the next definition.
source_event_used_Open(l) == \E r \in Runs : Open(r) /\ row[r].founding = l

source_event_used(l) ==
    \E r \in Runs : row[r].status # "none" /\ row[r].founding = l

\* The live plans' doors, and the admission facts of the one that matches.
ReadDoors(l) ==
    /\ hand[l].pc = "doors"
    /\ \/ (l \notin Opens \/ plan # "live") /\ GoLetter(l, "done")
       \/ /\ l \in Opens /\ plan = "live"
          /\ LET ran == \E r \in Runs : row[r].status # "none"
                 refused == source_event_used(l) \/ ran   \* reenter, cooldown
                 admitted == /\ ~source_event_used(l)
                             /\ ran => Board[latest].door.reenter
             IN  \E where \in {"enrol", "repeat"} :
                    /\ IF where = "enrol" THEN admitted ELSE refused
                    /\ hand' = [hand EXCEPT ![l] = [@ EXCEPT !.pc = where,
                                                           !.version = latest]]
    /\ UNCHANGED <<row, trail, visit, outside, budgets>>

\* insert_enrollment, under the unique index over open runs.
Enrol(l) ==
    LET v == hand[l].version IN
    /\ hand[l].pc = "enrol"
    /\ \/ /\ \E r \in Runs : Open(r)
          /\ GoLetter(l, "repeat") /\ UNCHANGED row
       \/ /\ \A r \in Runs : ~Open(r)
          /\ \E r \in Runs :
                /\ row[r].status = "none"
                /\ row' = [row EXCEPT ![r] =
                    [NoRow EXCEPT !.status = "waiting", !.version = v, !.stay = 1,
                                  !.square = Board[v].door.start, !.founding = l,
                                  !.due = Board[v].door.start \notin Waits]]
          /\ GoLetter(l, "done")
    /\ UNCHANGED <<trail, visit, outside, budgets>>

\* A refused letter may be a repeat of the open run: the door of the version
\* the consumer read decides what it does to it, and the UPDATE to which run.
PatchOpenRun(l) ==
    LET seen == hand[l].seen
        known == hand[l].run # NoRun
        door == Board[IF known THEN seen.version ELSE hand[l].version].door
        answered == /\ known /\ seen.square \in Board[seen.version].squares
                    /\ seen.square \in Hears[l]
        taken(r) == /\ row[r].status = "waiting"
                    /\ door.anywhere \/ row[r].square = door.start
                    /\ l \notin row[r].context.repeats /\ row[r].founding # l
    IN
    /\ hand[l].pc = "repeat"
    /\ \/ /\ ~answered /\ (door.refresh \/ door.debounce)
          /\ \E r \in Runs :
                /\ taken(r)
                /\ \/ /\ door.debounce => ~row[r].due
                      /\ row' = [row EXCEPT ![r].context.repeats = @ \cup {l}]
                   \/ /\ door.debounce     \* the alarm slides
                      /\ row' = [row EXCEPT ![r].context.repeats = @ \cup {l},
                                    ![r].due = FALSE, ![r].lease = NoWalker]
       \/ /\ \/ answered \/ ~(door.refresh \/ door.debounce)
             \/ \A r \in Runs : ~taken(r)
          /\ UNCHANGED row
    /\ GoLetter(l, "done")
    /\ UNCHANGED <<trail, visit, outside, budgets>>

\* The pass commits, or is rolled back and hands the letter over again.
StampLetter(l) ==
    /\ hand[l].pc = "done"
    /\ hand' = [hand EXCEPT ![l] = [Pending EXCEPT !.pc = "stamped"]]
    /\ UNCHANGED <<row, trail, visit, outside, budgets>>

ReturnLetter(l) ==
    /\ hand[l].pc \notin {"pending", "stamped"} /\ Fault
    /\ hand' = [hand EXCEPT ![l] = Pending]
    /\ UNCHANGED <<row, trail, visit, outside>>

-----------------------------------------------------------------------------
(* The people.                                                             *)

SetStatus(s) ==
    /\ plan # "archived" /\ s # plan /\ Edit
    /\ plan' = s
    /\ UNCHANGED <<row, trail, visit, hand, latest, leads, messages, heard>>

\* Every square that open runs of the versions stand on is kept, and the entry.
keeps(from, entry, to) ==
    LET moved == {r \in Runs : Open(r) /\ row[r].version \in from} IN
    moved # {} => /\ \A r \in moved : row[r].square \in Board[to].squares
                  /\ Board[entry].door = Board[to].door
repinned(from, to) ==
    [r \in Runs |-> IF Open(r) /\ row[r].version \in from
                    THEN [row[r] EXCEPT !.version = to] ELSE row[r]]

PublishWorkflow ==
    /\ latest + 1 \in Versions /\ Edit
    /\ latest' = latest + 1
    /\ IF Board[latest'].migrate
       THEN /\ keeps(1..latest, latest, latest')
            /\ row' = repinned(1..latest, latest')
       ELSE UNCHANGED row
    /\ UNCHANGED <<trail, visit, hand, plan, leads, messages, heard>>

MigrateForward(from, to) ==
    /\ {from, to} \subseteq 1..latest /\ from # to /\ Edit
    /\ keeps({from}, from, to) /\ row' = repinned({from}, to)
    /\ UNCHANGED <<trail, visit, hand, outside>>

ResumeRun(r) ==
    /\ row[r].status = "parked" /\ Edit
    /\ row' = [row EXCEPT ![r] = woken(@)]
    /\ UNCHANGED <<trail, visit, hand, outside>>

-----------------------------------------------------------------------------
Init ==
    /\ row = [r \in Runs |-> NoRow] /\ trail = [r \in Runs |-> <<>>]
    /\ visit = [w \in Walkers |-> Idle] /\ hand = [l \in Letters |-> Pending]
    /\ plan = "live" /\ latest \in Versions
    /\ leads = {} /\ messages = {} /\ heard = {} /\ faults = 0 /\ edits = 0

Walk(w) ==
    \/ ReadStatus(w) \/ JudgeExits(w) \/ ParkOffBoard(w) \/ HoldForWindow(w)
    \/ ExecuteSquare(w) \/ LeaveSquare(w) \/ WriteVerdict(w)
Claim(w) == \E r \in Runs : ClaimDueRun(w, r)
Consume(l) ==
    \/ ReadOpenRuns(l) \/ EndOnGoal(l) \/ WakeOnReply(l) \/ RefreshRunFacts(l)
    \/ ReadDoors(l) \/ Enrol(l) \/ PatchOpenRun(l) \/ StampLetter(l)
People ==
    \/ \E s \in {"live", "paused", "archived"} : SetStatus(s)
    \/ PublishWorkflow
    \/ \E from, to \in Versions : MigrateForward(from, to)
    \/ \E r \in Runs : ResumeRun(r)

Next ==
    \/ \E w \in Walkers : Claim(w) \/ Walk(w) \/ FailVisit(w) \/ DropVisit(w)
    \/ \E r \in Runs : ComeDue(r)
    \/ \E l \in Letters : Consume(l) \/ ReturnLetter(l)
    \/ People

Spec == Init /\ [][Next]_vars

\* Pods poll for due runs, visits proceed, the clock advances, and the event
\* worker finishes the letters it took.
FairSpec ==
    /\ Spec
    /\ \A w \in Walkers : WF_vars(Claim(w)) /\ WF_vars(Walk(w))
    /\ \A r \in Runs : WF_vars(ComeDue(r))
    /\ \A l \in Letters : WF_vars(Consume(l))
=============================================================================
