------------------------ MODULE OutreachWalkerProofs ------------------------
(***************************************************************************)
(* What TLAPS proves of OutreachWalker, for any board, runs, visits and    *)
(* letters, and any number of failures and edits.                          *)
(***************************************************************************)
EXTENDS OutreachWalkerProps, TLAPS, FiniteSetTheorems

-----------------------------------------------------------------------------
(* The shape of the variables.                                             *)

Outcomes == Answers \cup ExitReasons \cup {"next", "timeout"}
Closed == [stay : Nat, square : Squares \cup {End}, outcome : Outcomes,
           next : Squares \cup {End}]
VisitPCs == {"idle", "status", "judge", "board", "leave", "write"}
Visits == [pc : VisitPCs, run : Runs \cup {NoRun}, version : Versions \cup {0},
           founding : Letters \cup {NoLetter}, attempts : Nat,
           square : Squares \cup {End}, stay : Nat, context : Contexts,
           walked : Seq(Closed), verdict : Verdicts, warned : BOOLEAN]
HandPCs == {"pending", "goal", "wake", "doors", "enrol", "repeat", "done",
            "stamped"}
Seen == [square : Squares \cup {End}, stay : Nat, version : Versions \cup {0}]
Hands == [pc : HandPCs, run : Runs \cup {NoRun}, seen : Seen, at : Nat,
          version : Versions \cup {0}]

RunTypes == row \in [Runs -> Rows] /\ trail \in [Runs -> Seq(Closed)]
VisitTypes == visit \in [Walkers -> Visits]
HandTypes == hand \in [Letters -> Hands]
PlanTypes == plan \in {"live", "paused", "archived"} /\ latest \in Versions

\* Only a waiting run has an alarm.
Alarms ==
    \A r \in Runs :
        row[r].status # "waiting" => ~row[r].due /\ row[r].lease = NoWalker

\* A run that exists is pinned to a published version and knows its letter.
Pinned ==
    \A r \in Runs : row[r].status # "none" =>
        row[r].version \in Versions /\ row[r].founding \in Letters

\* A visit has a run and its document; a letter under way has what was read
\* for it.
Underway ==
    \A w \in Walkers : visit[w].pc # "idle" =>
        visit[w].run \in Runs /\ visit[w].version \in Versions
Held ==
    \A l \in Letters :
        /\ hand[l].pc \in {"goal", "wake"} =>
                hand[l].run \in Runs /\ hand[l].seen.version \in Versions
        /\ hand[l].pc \in {"enrol", "repeat"} => hand[l].version \in Versions

Shape ==
    RunTypes /\ VisitTypes /\ HandTypes /\ PlanTypes /\ Alarms /\ Pinned
    /\ Underway /\ Held

-----------------------------------------------------------------------------
(* Constants of the right shape.                                           *)

LEMMA ContextShape == NoContext \in Contexts
<1>1. [n \in Squares |-> NoReply] \in [Squares -> Answers]
  BY DEF Answers
<1>3. [n \in Squares |-> 0] \in [Squares -> Nat]
  OBVIOUS
<1>2. {} \in SUBSET Letters
  OBVIOUS
<1> QED
  BY <1>1, <1>2, <1>3 DEF NoContext, Contexts

LEMMA RowShape == NoRow \in Rows
  BY ContextShape DEF NoRow, Rows, ExitReasons

LEMMA IdleShape == Idle \in Visits
<1>1. <<>> \in Seq(Closed)
  OBVIOUS
<1> QED
  BY <1>1, ContextShape DEF Idle, Visits, VisitPCs, Verdicts

LEMMA PendingShape == Pending \in Hands /\ Nothing \in Seen
  BY DEF Pending, Nothing, Hands, HandPCs, Seen

\* An arrow leads to a square or to the end.
LEMMA PickNext ==
    ASSUME NEW v \in Versions, NEW n, NEW label
    PROVE  pick_next(v, n, label) \in Squares \cup {End}
<1> DEFINE arrows(on) == {e \in Board[v].edges : e[1] = n /\ e[2] = on}
<1>1. ASSUME NEW e \in Board[v].edges
      PROVE  e[3] \in Squares \cup {End}
  BY <1>1, BoardAssumption
<1>2. ASSUME NEW on, arrows(on) # {}
      PROVE  (CHOOSE e \in arrows(on) : TRUE)[3] \in Squares \cup {End}
  <2>1. PICK e : e \in arrows(on)
    BY <1>2
  <2>2. (CHOOSE f \in arrows(on) : TRUE) \in arrows(on)
    BY <2>1, Zenon
  <2> QED
    BY <1>1, <2>2
<1>3. pick_next(v, n, label) =
        CASE arrows(label) # {} -> (CHOOSE e \in arrows(label) : TRUE)[3]
          [] arrows(label) = {} /\ branches(n) /\ arrows("else") # {} ->
                (CHOOSE e \in arrows("else") : TRUE)[3]
          [] OTHER -> End
  BY Zenon DEF pick_next
<1> HIDE DEF arrows
<1> QED
  BY <1>2, <1>3

\* The squares a step closes are rows of the trail.
LEMMA ClosingShape ==
    ASSUME NEW square \in Squares \cup {End}, NEW stay \in Nat, NEW r,
           r.square = square, r.stay = stay, NEW outcome \in Outcomes
    PROVE  closing(r, outcome) \in Seq(Closed)
<1>1. closed(stay, square, outcome, End) \in Closed
  BY DEF closed, Closed
<1>2. <<closed(stay, square, outcome, End)>> \in Seq(Closed) /\ <<>> \in Seq(Closed)
  BY <1>1
<1> QED
  BY <1>2 DEF closing

LEMMA JoinShape ==
    ASSUME NEW s \in Seq(Closed), NEW t \in Seq(Closed)
    PROVE  s \o t \in Seq(Closed)
  OBVIOUS

-----------------------------------------------------------------------------
(* The walker keeps the shape.                                             *)

\* A write that lands, or is dropped.
LEMMA LandKeeps ==
    ASSUME Shape, NEW w \in Walkers, visit[w].pc # "idle",
           NEW new, NEW steps \in Seq(Closed), Land(w, new, steps),
           landed(w) =>
                /\ new \in Rows
                /\ new.status # "waiting" => ~new.due /\ new.lease = NoWalker
                /\ new.status # "none"
                /\ new.version \in Versions /\ new.founding \in Letters,
           UNCHANGED <<hand, plan, latest>>
    PROVE  Shape'
<1>1. visit[w].run \in Runs
  BY DEF Shape, Underway
<1>2. RunTypes'
  <2>1. CASE landed(w)
    <3>1. trail[visit[w].run] \o steps \in Seq(Closed)
      BY <1>1, JoinShape DEF Shape, RunTypes
    <3>2. /\ row' = [row EXCEPT ![visit[w].run] = new]
          /\ trail' = [trail EXCEPT ![visit[w].run] = trail[visit[w].run] \o steps]
      BY <2>1 DEF Land
    <3> QED
      BY <1>1, <2>1, <3>1, <3>2 DEF Shape, RunTypes
  <2> QED
    BY <2>1 DEF Shape, RunTypes, Land
<1>3. Alarms' /\ Pinned'
  BY <1>1 DEF Shape, RunTypes, Land, Alarms, Pinned
<1>4. VisitTypes' /\ Underway'
  BY IdleShape DEF Shape, VisitTypes, Land, Underway, Idle
<1>5. HandTypes' /\ PlanTypes' /\ Held'
  BY DEF Shape, HandTypes, PlanTypes, Held
<1> QED
  BY <1>2, <1>3, <1>4, <1>5 DEF Shape

\* The row of a visit whose write lands is open, and keeps its version and its
\* founding letter.
LEMMA LandedRow ==
    ASSUME Shape, NEW w \in Walkers, visit[w].pc # "idle", landed(w)
    PROVE  /\ visit[w].run \in Runs /\ row[visit[w].run] \in Rows
           /\ row[visit[w].run].status = "waiting"
           /\ row[visit[w].run].version \in Versions
           /\ row[visit[w].run].founding \in Letters
  BY DEF Shape, RunTypes, Underway, Pinned, landed

LEMMA AdvanceKeeps ==
    ASSUME Shape, NEW w \in Walkers, visit[w].pc # "idle",
           NEW n \in Squares \cup {End}, NEW stay \in Nat,
           NEW context \in Contexts, NEW steps \in Seq(Closed),
           advance_run(w, n, stay, context, steps),
           UNCHANGED <<hand, plan, latest>>
    PROVE  Shape'
<1> DEFINE new == [row[visit[w].run] EXCEPT
                !.square = n, !.stay = stay, !.context = context,
                !.attempts = 0, !.lease = NoWalker, !.due = FALSE]
<1>1. ASSUME landed(w)
      PROVE  /\ new \in Rows
             /\ new.status # "waiting" => ~new.due /\ new.lease = NoWalker
             /\ new.status # "none"
             /\ new.version \in Versions /\ new.founding \in Letters
  BY <1>1, LandedRow DEF Rows
<1>2. Land(w, new, steps)
  BY DEF advance_run
<1> HIDE DEF new
<1> QED
  BY <1>1, <1>2, LandKeeps

LEMMA ExitKeeps ==
    ASSUME Shape, NEW w \in Walkers, visit[w].pc # "idle",
           NEW reason \in ExitReasons, NEW n, NEW context,
           landed(w) => n \in Squares \cup {End} /\ context \in Contexts,
           NEW steps \in Seq(Closed),
           exit_run(w, reason, n, context, steps),
           UNCHANGED <<hand, plan, latest>>
    PROVE  Shape'
<1> DEFINE new == [row[visit[w].run] EXCEPT
                !.status = "exited", !.reason = reason, !.square = n,
                !.context = context, !.lease = NoWalker, !.due = FALSE]
<1>1. ASSUME landed(w)
      PROVE  /\ new \in Rows
             /\ new.status # "waiting" => ~new.due /\ new.lease = NoWalker
             /\ new.status # "none"
             /\ new.version \in Versions /\ new.founding \in Letters
  BY <1>1, LandedRow DEF Rows
<1>2. Land(w, new, steps)
  BY DEF exit_run
<1> HIDE DEF new
<1> QED
  BY <1>1, <1>2, LandKeeps

\* A step of a visit that writes no row.
LEMMA VisitKeeps ==
    ASSUME Shape, NEW w \in Walkers, NEW new \in Visits,
           visit' = [visit EXCEPT ![w] = new],
           new.pc # "idle" => new.run \in Runs /\ new.version \in Versions,
           UNCHANGED <<row, trail, hand, plan, latest>>
    PROVE  Shape'
<1>1. VisitTypes' /\ Underway'
  BY DEF Shape, VisitTypes, Underway
<1> QED
  BY <1>1 DEF Shape, RunTypes, HandTypes, PlanTypes, Alarms, Pinned, Held

\* The row a claim stamps, and the visit it starts.
LEMMA ClaimShape ==
    ASSUME NEW x \in Rows, NEW w \in Walkers
    PROVE  [x EXCEPT !.lease = w, !.due = FALSE, !.attempts = @ + 1] \in Rows
<1>1. x.attempts + 1 \in Nat
  BY DEF Rows
<1> QED
  BY <1>1 DEF Rows

LEMMA StartShape ==
    ASSUME NEW x \in Rows, NEW r \in Runs, NEW tries \in Nat,
           NEW warned \in BOOLEAN
    PROVE  [Idle EXCEPT !.pc = "status", !.run = r, !.version = x.version,
                     !.founding = x.founding, !.attempts = tries,
                     !.square = x.square, !.stay = x.stay,
                     !.context = x.context, !.warned = warned] \in Visits
<1>1. /\ x.version \in Versions \cup {0} /\ x.founding \in Letters \cup {NoLetter}
      /\ x.square \in Squares \cup {End} /\ x.stay \in Nat /\ x.context \in Contexts
  BY DEF Rows
<1> HIDE DEF Contexts, Closed
<1> QED
  BY <1>1, IdleShape DEF Visits, VisitPCs

LEMMA ClaimKeeps ==
    ASSUME Shape, NEW w \in Walkers, NEW r \in Runs, ClaimDueRun(w, r)
    PROVE  Shape'
<1> USE DEF ClaimDueRun, claimable
<1>1. row[r] \in Rows /\ row[r].status = "waiting" /\ row[r].version \in Versions
  BY DEF Shape, RunTypes, Pinned
<1>2. RunTypes'
  <2>1. [row[r] EXCEPT !.lease = w, !.due = FALSE, !.attempts = @ + 1] \in Rows
    BY <1>1, ClaimShape
  <2>2. row' = [row EXCEPT ![r] =
            [row[r] EXCEPT !.lease = w, !.due = FALSE, !.attempts = @ + 1]]
    BY <1>1 DEF Shape, RunTypes, Rows
  <2> QED
    BY <2>1, <2>2 DEF Shape, RunTypes
<1>3. Alarms' /\ Pinned'
  BY <1>1 DEF Shape, RunTypes, Rows, Alarms, Pinned
<1>4. visit'[w] \in Visits /\ visit'[w].run = r /\ visit'[w].version \in Versions
  <2>1. customer_has_event(row[r].founding) \in BOOLEAN
    BY DEF customer_has_event
  <2>2. row'[r].attempts \in Nat
    BY <1>2 DEF RunTypes, Rows
  <2>4. visit'[w] = [Idle EXCEPT !.pc = "status", !.run = r, !.version = row[r].version,
                     !.founding = row[r].founding, !.attempts = row'[r].attempts,
                     !.square = row[r].square, !.stay = row[r].stay,
                     !.context = row[r].context,
                     !.warned = customer_has_event(row[r].founding)]
    BY DEF Shape, VisitTypes
  <2> HIDE DEF ClaimDueRun, claimable
  <2>5. PICK tries \in Nat, warned \in BOOLEAN :
            tries = row'[r].attempts /\ warned = customer_has_event(row[r].founding)
    BY <2>1, <2>2
  <2>6. visit'[w] = [Idle EXCEPT !.pc = "status", !.run = r, !.version = row[r].version,
                     !.founding = row[r].founding, !.attempts = tries,
                     !.square = row[r].square, !.stay = row[r].stay,
                     !.context = row[r].context, !.warned = warned]
    BY <2>4, <2>5
  <2>3. [Idle EXCEPT !.pc = "status", !.run = r, !.version = row[r].version,
                     !.founding = row[r].founding, !.attempts = tries,
                     !.square = row[r].square, !.stay = row[r].stay,
                     !.context = row[r].context, !.warned = warned] \in Visits
    BY <1>1, StartShape
  <2>7. visit'[w] \in Visits
    BY <2>3, <2>6
  <2>8. visit'[w].run = r /\ visit'[w].version = row[r].version
    BY <2>6, IdleShape DEF Visits
  <2> QED
    BY <1>1, <2>7, <2>8
<1>5. VisitTypes' /\ Underway'
  BY <1>4 DEF Shape, VisitTypes, Underway
<1>6. HandTypes' /\ PlanTypes' /\ Held'
  BY DEF Shape, HandTypes, PlanTypes, Held, outside
<1> QED
  BY <1>2, <1>3, <1>5, <1>6 DEF Shape

\* Only the place of the visit changes, or also its verdict.
LEMMA GoKeeps ==
    ASSUME Shape, NEW w \in Walkers, visit[w].pc # "idle",
           \/ \E where \in VisitPCs : Go(w, where)
           \/ \E verdict \in Verdicts : Decide(w, verdict)
           \/ visit' = [visit EXCEPT ![w] = Idle],
           UNCHANGED <<row, trail, hand, plan, latest>>
    PROVE  Shape'
<1>1. visit[w] \in Visits /\ visit[w].run \in Runs /\ visit[w].version \in Versions
  BY DEF Shape, VisitTypes, Underway
<1>2. CASE \E where \in VisitPCs : Go(w, where)
  <2>1. PICK where \in VisitPCs : Go(w, where)
    BY <1>2
  <2>2. [visit[w] EXCEPT !.pc = where] \in Visits
    BY <1>1 DEF Visits
  <2> QED
    BY <1>1, <2>1, <2>2, VisitKeeps DEF Go, Visits
<1>3. CASE \E verdict \in Verdicts : Decide(w, verdict)
  <2>1. PICK verdict \in Verdicts : Decide(w, verdict)
    BY <1>3
  <2>2. [visit[w] EXCEPT !.pc = "write", !.verdict = verdict] \in Visits
    BY <1>1 DEF Visits, VisitPCs
  <2>3. visit' = [visit EXCEPT ![w] =
                    [visit[w] EXCEPT !.pc = "write", !.verdict = verdict]]
    BY <2>1, <1>1 DEF Decide, Shape, VisitTypes, Visits
  <2> QED
    BY <1>1, <2>2, <2>3, VisitKeeps DEF Visits
<1>4. CASE visit' = [visit EXCEPT ![w] = Idle]
  BY <1>4, IdleShape, VisitKeeps DEF Idle
<1> QED
  BY <1>2, <1>3, <1>4

LEMMA ExecuteKeeps ==
    ASSUME Shape, NEW w \in Walkers, ExecuteSquare(w)
    PROVE  Shape'
<1>1. /\ visit[w] \in Visits /\ visit[w].run \in Runs /\ visit[w].version \in Versions
      /\ visit[w].context \in Contexts
  BY DEF Shape, VisitTypes, Visits, Underway, ExecuteSquare
<1>2. PICK context \in Contexts :
        visit' = [visit EXCEPT ![w].pc = "leave", ![w].context = context]
  <2>1. CASE visit[w].square \in Calls
    <3>1. [visit[w].context EXCEPT !.visits[visit[w].square] =
              next_visit(visit[w].context, visit[w].square)] \in Contexts
      BY <1>1, <2>1, SquaresAssumption DEF Contexts, next_visit
    <3> QED
      BY <1>1, <2>1, <3>1, SquaresAssumption DEF ExecuteSquare, Rules
  <2>2. CASE visit[w].square \in Sends
    BY <1>1, <2>2, SquaresAssumption DEF ExecuteSquare, Rules
  <2>3. CASE visit[w].square \in Rules
    <3>1. PICK e \in Board[visit[w].version].edges :
            visit' = [visit EXCEPT ![w].pc = "leave", ![w].context =
                [visit[w].context EXCEPT !.reply[visit[w].square] = e[2]]]
      BY <2>3 DEF ExecuteSquare, Rules
    <3>2. e[2] \in Answers
      BY <1>1, <3>1 DEF Answers
    <3>3. [visit[w].context EXCEPT !.reply[visit[w].square] = e[2]] \in Contexts
      BY <1>1, <3>2 DEF Contexts
    <3> QED
      BY <3>1, <3>3
  <2> QED
    BY <2>1, <2>2, <2>3 DEF ExecuteSquare
<1>3. [visit[w] EXCEPT !.pc = "leave", !.context = context] \in Visits
  BY <1>1, <1>2 DEF Visits, VisitPCs
<1>4. visit' = [visit EXCEPT ![w] =
                    [visit[w] EXCEPT !.pc = "leave", !.context = context]]
  BY <1>1, <1>2 DEF Shape, VisitTypes, Visits
<1> QED
  BY <1>1, <1>3, <1>4, VisitKeeps DEF ExecuteSquare, Visits

LEMMA LeaveKeeps ==
    ASSUME Shape, NEW w \in Walkers, LeaveSquare(w)
    PROVE  Shape'
<1> DEFINE v == visit[w]
           n == v.square
           answer == v.context.reply[n]
           label == IF ~branches(n) THEN "next"
                    ELSE IF answer = NoReply THEN "timeout" ELSE answer
           next == pick_next(v.version, n, label)
           context == IF branches(n) THEN without_reply(v.context, n) ELSE v.context
           step == closed(v.stay, n, label, next)
           walked == Append(v.walked, step)
<1>1. /\ v \in Visits /\ v.run \in Runs /\ v.version \in Versions
      /\ v.pc # "idle"
  BY DEF Shape, VisitTypes, Underway, LeaveSquare
<1>2. label \in Outcomes
  <2>1. ASSUME branches(n)
        PROVE  answer \in Answers
    <3>1. n \in Squares
      BY <2>1, SquaresAssumption DEF branches, Rules
    <3> QED
      BY <1>1, <3>1 DEF Visits, Contexts
  <2> QED
    BY <2>1 DEF Outcomes
<1>3. next \in Squares \cup {End}
  BY <1>1, PickNext
<1>4. context \in Contexts
  BY <1>1 DEF Visits, Contexts, without_reply, Answers
<1>5. step \in Closed
  BY <1>1, <1>2, <1>3 DEF closed, Closed, Visits
<1>6. walked \in Seq(Closed)
  BY <1>1, <1>5 DEF Visits
<1>7. \/ exit_run(w, "completed", n, context, walked)
      \/ next \in Waits /\ advance_run(w, next, v.stay + 1, context, walked)
      \/ /\ visit' = [visit EXCEPT ![w] =
            [v EXCEPT !.square = next, !.stay = @ + 1, !.context = context,
                      !.walked = walked,
                      !.pc = IF Len(walked) = MaxSteps THEN "write" ELSE "board",
                      !.verdict = IF Len(walked) = MaxSteps THEN "parked"
                                  ELSE "none"]]
         /\ UNCHANGED <<row, trail>>
  BY DEF LeaveSquare
<1>8. UNCHANGED <<hand, plan, latest>>
  BY DEF LeaveSquare, outside
<1>12. v.stay + 1 \in Nat
  BY <1>1 DEF Visits
<1> HIDE DEF next, context, walked, label, answer, step
<1>9. CASE exit_run(w, "completed", n, context, walked)
  BY <1>1, <1>4, <1>6, <1>8, <1>9, ExitKeeps DEF ExitReasons, Visits
<1>10. CASE advance_run(w, next, v.stay + 1, context, walked)
  BY <1>1, <1>3, <1>4, <1>6, <1>8, <1>10, <1>12, AdvanceKeeps
<1>11. CASE /\ visit' = [visit EXCEPT ![w] =
                [v EXCEPT !.square = next, !.stay = @ + 1, !.context = context,
                          !.walked = walked,
                          !.pc = IF Len(walked) = MaxSteps THEN "write" ELSE "board",
                          !.verdict = IF Len(walked) = MaxSteps THEN "parked"
                                  ELSE "none"]]
            /\ UNCHANGED <<row, trail>>
  <2>1. PICK pc \in {"write", "board"}, verdict \in {"parked", "none"} :
            visit' = [visit EXCEPT ![w] =
                [v EXCEPT !.square = next, !.stay = @ + 1, !.context = context,
                          !.walked = walked, !.pc = pc, !.verdict = verdict]]
    BY <1>11
  <2>2. [v EXCEPT !.square = next, !.stay = @ + 1, !.context = context,
                  !.walked = walked, !.pc = pc, !.verdict = verdict] \in Visits
    BY <1>1, <1>3, <1>4, <1>6, <1>12 DEF Visits, VisitPCs, Verdicts
  <2> QED
    BY <1>1, <1>8, <1>11, <2>1, <2>2, VisitKeeps DEF Visits
<1> QED
  BY <1>7, <1>9, <1>10, <1>11

LEMMA WriteKeeps ==
    ASSUME Shape, NEW w \in Walkers, WriteVerdict(w)
    PROVE  Shape'
<1> DEFINE v == visit[w]
<1>1. v \in Visits /\ v.run \in Runs /\ v.pc # "idle"
  BY DEF Shape, VisitTypes, Underway, WriteVerdict
<1>2. UNCHANGED <<hand, plan, latest>>
  BY DEF WriteVerdict, outside
<1>3. CASE /\ v.verdict \in ExitReasons
           /\ exit_run(w, v.verdict, row[v.run].square, row[v.run].context,
                       closing(v, v.verdict))
  <2>1. closing(v, v.verdict) \in Seq(Closed)
    BY <1>1, <1>3, ClosingShape DEF Visits, Outcomes
  <2>2. row[v.run].square \in Squares \cup {End} /\ row[v.run].context \in Contexts
    BY <1>1 DEF Shape, RunTypes, Rows
  <2> QED
    BY <1>1, <1>2, <1>3, <2>1, <2>2, ExitKeeps
<1>4. <<>> \in Seq(Closed)
  OBVIOUS
<1>5. CASE Land(w, [row[v.run] EXCEPT !.status = "parked", !.due = FALSE,
                                      !.lease = NoWalker], <<>>)
  <2> DEFINE new == [row[v.run] EXCEPT !.status = "parked", !.due = FALSE,
                                       !.lease = NoWalker]
  <2>1. ASSUME landed(w)
        PROVE  /\ new \in Rows
               /\ new.status # "waiting" => ~new.due /\ new.lease = NoWalker
               /\ new.status # "none"
               /\ new.version \in Versions /\ new.founding \in Letters
    BY <1>1, <2>1, LandedRow DEF Rows
  <2> HIDE DEF new
  <2> QED
    BY <1>1, <1>2, <1>4, <1>5, <2>1, LandKeeps DEF new
<1>6. CASE Land(w, [row[v.run] EXCEPT !.due = FALSE, !.lease = NoWalker], <<>>)
  <2> DEFINE new == [row[v.run] EXCEPT !.due = FALSE, !.lease = NoWalker]
  <2>1. ASSUME landed(w)
        PROVE  /\ new \in Rows
               /\ new.status # "waiting" => ~new.due /\ new.lease = NoWalker
               /\ new.status # "none"
               /\ new.version \in Versions /\ new.founding \in Letters
    BY <1>1, <2>1, LandedRow DEF Rows
  <2> HIDE DEF new
  <2> QED
    BY <1>1, <1>2, <1>4, <1>6, <2>1, LandKeeps DEF new
<1> QED
  BY <1>3, <1>5, <1>6 DEF WriteVerdict

LEMMA WalkerKeeps ==
    ASSUME Shape, NEW w \in Walkers,
           Claim(w) \/ Walk(w) \/ FailVisit(w) \/ DropVisit(w)
    PROVE  Shape'
<1>1. ASSUME Claim(w)
      PROVE  Shape'
  BY <1>1, ClaimKeeps DEF Claim
<1>2. ASSUME ReadStatus(w)
      PROVE  Shape'
  BY <1>2, GoKeeps DEF ReadStatus, outside, VisitPCs, Verdicts, ExitReasons
<1>3. ASSUME JudgeExits(w)
      PROVE  Shape'
  BY <1>3, GoKeeps DEF JudgeExits, outside, VisitPCs, Verdicts, ExitReasons
<1>4. ASSUME ParkOffBoard(w)
      PROVE  Shape'
  BY <1>4, GoKeeps DEF ParkOffBoard, outside, Verdicts
<1>5. ASSUME HoldForWindow(w)
      PROVE  Shape'
  BY <1>5, AdvanceKeeps
     DEF HoldForWindow, outside, Shape, VisitTypes, Visits
<1>6. ASSUME FailVisit(w)
      PROVE  Shape'
  BY <1>6, GoKeeps DEF FailVisit, outside, Verdicts
<1>7. ASSUME DropVisit(w)
      PROVE  Shape'
  BY <1>7, GoKeeps DEF DropVisit, outside
<1> QED
  BY <1>1, <1>2, <1>3, <1>4, <1>5, <1>6, <1>7, ExecuteKeeps, LeaveKeeps, WriteKeeps
     DEF Walk

-----------------------------------------------------------------------------
(* The letters, the people and the clock keep it.                          *)

RunShape == row \in [Runs -> Rows] /\ Alarms /\ Pinned
HandShape == HandTypes /\ Held

\* One row is written.
LEMMA RowKeeps ==
    ASSUME Shape, NEW r \in Runs, NEW new \in Rows,
           new.status # "waiting" => ~new.due /\ new.lease = NoWalker,
           new.status # "none" =>
                new.version \in Versions /\ new.founding \in Letters,
           row' = [row EXCEPT ![r] = new]
    PROVE  RunShape'
  BY DEF Shape, RunTypes, Alarms, Pinned, RunShape

\* One letter moves on.
LEMMA LetterKeeps ==
    ASSUME Shape, NEW l \in Letters, NEW new \in Hands,
           new.pc \in {"goal", "wake"} =>
                new.run \in Runs /\ new.seen.version \in Versions,
           new.pc \in {"enrol", "repeat"} => new.version \in Versions,
           hand' = [hand EXCEPT ![l] = new]
    PROVE  HandShape'
  BY DEF Shape, HandTypes, Held, HandShape

LEMMA GoLetterKeeps ==
    ASSUME Shape, NEW l \in Letters, NEW where \in HandPCs, GoLetter(l, where),
           where \in {"goal", "wake"} => hand[l].pc \in {"goal", "wake"},
           where \in {"enrol", "repeat"} => hand[l].pc \in {"enrol", "repeat"}
    PROVE  HandShape'
<1> DEFINE new == [hand[l] EXCEPT !.pc = where]
<1>1. hand[l] \in Hands
  BY DEF Shape, HandTypes
<1>2. new \in Hands /\ new.run = hand[l].run /\ new.seen = hand[l].seen
      /\ new.version = hand[l].version /\ new.pc = where
  BY <1>1 DEF Hands
<1>3. hand' = [hand EXCEPT ![l] = new]
  BY DEF GoLetter
<1>4. /\ new.pc \in {"goal", "wake"} =>
                new.run \in Runs /\ new.seen.version \in Versions
      /\ new.pc \in {"enrol", "repeat"} => new.version \in Versions
  BY <1>2 DEF Shape, Held
<1> HIDE DEF new
<1> QED
  BY <1>2, <1>3, <1>4, LetterKeeps

LEMMA ShapeParts ==
    ASSUME Shape, RunShape', HandShape', trail' \in [Runs -> Seq(Closed)],
           UNCHANGED visit, PlanTypes'
    PROVE  Shape'
  BY DEF Shape, RunShape, HandShape, RunTypes, VisitTypes, Underway

LEMMA SameRows ==
    ASSUME Shape, UNCHANGED row
    PROVE  RunShape'
  BY DEF Shape, RunTypes, Alarms, Pinned, RunShape

LEMMA SameHands ==
    ASSUME Shape, UNCHANGED hand
    PROVE  HandShape'
  BY DEF Shape, HandTypes, Held, HandShape

LEMMA SameTrail ==
    ASSUME Shape, UNCHANGED trail
    PROVE  trail' \in [Runs -> Seq(Closed)]
  BY DEF Shape, RunTypes

LEMMA SamePlan ==
    ASSUME Shape, UNCHANGED <<plan, latest>>
    PROVE  PlanTypes'
  BY DEF Shape, PlanTypes

\* A row that is woken, slid, remembered or made keeps its shape.
LEMMA WokenShape ==
    ASSUME NEW x \in Rows, x.status # "none",
           x.version \in Versions, x.founding \in Letters
    PROVE  /\ woken(x) \in Rows /\ woken(x).status = "waiting"
           /\ woken(x).version \in Versions /\ woken(x).founding \in Letters
           /\ woken(x).founding = x.founding
<1>1. (IF x.status = "parked" THEN 0 ELSE x.attempts) \in Nat
  BY DEF Rows
<1> QED
  BY <1>1 DEF woken, Rows

LEMMA ReplyShape ==
    ASSUME NEW x \in Rows, NEW n, NEW l \in Letters
    PROVE  [x EXCEPT !.context.reply[n] = Says[l]] \in Rows
<1>1. [x.context EXCEPT !.reply[n] = Says[l]] \in Contexts
  BY DEF Rows, Contexts, Answers
<1>2. [x EXCEPT !.context = [x.context EXCEPT !.reply[n] = Says[l]]] \in Rows
  BY <1>1 DEF Rows
<1>3. [x EXCEPT !.context.reply[n] = Says[l]]
        = [x EXCEPT !.context = [x.context EXCEPT !.reply[n] = Says[l]]]
  BY DEF Rows, Contexts
<1> QED
  BY <1>2, <1>3

LEMMA RepeatShape ==
    ASSUME NEW x \in Rows, NEW l \in Letters
    PROVE  [x EXCEPT !.context.repeats = @ \cup {l}] \in Rows
<1>1. [x.context EXCEPT !.repeats = @ \cup {l}] \in Contexts
  BY DEF Rows, Contexts
<1>2. [x EXCEPT !.context = [x.context EXCEPT !.repeats = @ \cup {l}]] \in Rows
  BY <1>1 DEF Rows
<1>3. [x EXCEPT !.context.repeats = @ \cup {l}]
        = [x EXCEPT !.context = [x.context EXCEPT !.repeats = @ \cup {l}]]
  BY DEF Rows, Contexts
<1> QED
  BY <1>2, <1>3

LEMMA ReadRunsKeeps ==
    ASSUME Shape, NEW l \in Letters, ReadOpenRuns(l)
    PROVE  Shape'
<1>1. HandShape'
  <2>1. CASE GoLetter(l, "doors")
    BY <2>1, GoLetterKeeps DEF HandPCs
  <2>2. ASSUME NEW r \in Runs, Open(r),
               hand' = [hand EXCEPT ![l] =
                    [@ EXCEPT !.pc = "goal", !.run = r, !.seen =
                        [square |-> row[r].square, stay |-> row[r].stay,
                         version |-> row[r].version]]]
        PROVE  HandShape'
    <3> DEFINE seen == [square |-> row[r].square, stay |-> row[r].stay,
                        version |-> row[r].version]
               new == [hand[l] EXCEPT !.pc = "goal", !.run = r, !.seen = seen]
    <3>1. seen \in Seen /\ seen.version \in Versions
      BY <2>2 DEF Shape, RunTypes, Pinned, Rows, Seen, Open
    <3>2. hand[l] \in Hands
      BY DEF Shape, HandTypes
    <3>3. hand' = [hand EXCEPT ![l] = new]
      BY <2>2
    <3> HIDE DEF seen
    <3>4. new \in Hands /\ new.pc = "goal" /\ new.run = r /\ new.seen = seen
      BY <3>1, <3>2 DEF Hands, HandPCs
    <3> HIDE DEF new
    <3> QED
      BY <3>1, <3>3, <3>4, LetterKeeps
  <2> QED
    BY <2>1, <2>2 DEF ReadOpenRuns
<1> QED
  BY <1>1, ShapeParts, SameRows, SameTrail, SamePlan DEF ReadOpenRuns, outside

LEMMA GoalKeeps ==
    ASSUME Shape, NEW l \in Letters, EndOnGoal(l)
    PROVE  Shape'
<1> DEFINE r == hand[l].run
<1>1. r \in Runs /\ hand[l] \in Hands /\ row[r] \in Rows
      /\ trail[r] \in Seq(Closed)
  BY DEF Shape, HandTypes, Held, EndOnGoal, RunTypes
<1>2. HandShape'
  BY GoLetterKeeps DEF EndOnGoal, HandPCs
<1>3. CASE l \in Goals /\ ended(l, r)
  <2> DEFINE new == [row[r] EXCEPT !.status = "exited", !.reason = "goal_met",
                                   !.due = FALSE, !.lease = NoWalker]
  <2>1. row' = [row EXCEPT ![r] = new]
    BY <1>1, <1>3 DEF EndOnGoal, Shape, RunTypes, Rows
  <2>2. /\ new \in Rows /\ new.status = "exited" /\ ~new.due
        /\ new.lease = NoWalker
        /\ new.version \in Versions /\ new.founding \in Letters
    BY <1>1, <1>3 DEF Rows, ExitReasons, Shape, Pinned, ended, Open
  <2> HIDE DEF new
  <2>3. RunShape'
    BY <1>1, <2>1, <2>2, RowKeeps
  <2>4. hand[l].seen.square \in Squares \cup {End} /\ hand[l].seen.stay \in Nat
        /\ "goal_met" \in Outcomes
    BY <1>1 DEF Hands, Seen, Outcomes, ExitReasons
  <2>5. closing(hand[l].seen, "goal_met") \in Seq(Closed)
    BY <2>4, ClosingShape
  <2>6. trail[r] \o closing(hand[l].seen, "goal_met") \in Seq(Closed)
    BY <1>1, <2>5, JoinShape
  <2>7. \/ trail' = [trail EXCEPT ![r] =
                        trail[r] \o closing(hand[l].seen, "goal_met")]
        \/ trail' = trail
    BY <1>3 DEF EndOnGoal
  <2>8. trail' \in [Runs -> Seq(Closed)]
    BY <1>1, <2>6, <2>7 DEF Shape, RunTypes
  <2> QED
    BY <1>2, <2>3, <2>8, ShapeParts, SamePlan DEF EndOnGoal, outside
<1>4. CASE ~(l \in Goals /\ ended(l, r))
  BY <1>2, <1>4, ShapeParts, SameRows, SameTrail, SamePlan
     DEF EndOnGoal, outside
<1> QED
  BY <1>3, <1>4

LEMMA WakeKeeps ==
    ASSUME Shape, NEW l \in Letters, WakeOnReply(l)
    PROVE  Shape'
<1>1. hand[l] \in Hands /\ hand[l].pc = "wake" /\ hand[l].run \in Runs
      /\ hand[l].seen.version \in Versions
  BY DEF Shape, HandTypes, Held, WakeOnReply
<1>2. HandShape'
  <2> DEFINE new == [hand[l] EXCEPT !.at = @ + 1]
  <2>1. new \in Hands /\ new.pc = "wake" /\ new.run = hand[l].run
        /\ new.seen = hand[l].seen
    BY <1>1 DEF Hands
  <2>2. hand' = [hand EXCEPT ![l] = new]
    BY <1>1 DEF WakeOnReply, Shape, HandTypes
  <2> HIDE DEF new
  <2> QED
    BY <1>1, <2>1, <2>2, LetterKeeps
<1>3. RunShape'
  <2> DEFINE r == hand[l].run
             n == ears(hand[l].seen.version, l)[hand[l].at]
  <2>1. CASE resumes(l, r, n)
    <3>1. PICK m : m = n
      OBVIOUS
    <3>2. woken(row[r]) \in Rows /\ woken(row[r]).status = "waiting"
          /\ woken(row[r]).version \in Versions /\ woken(row[r]).founding \in Letters
      BY <1>1, <2>1, WokenShape DEF resumes, Open, Shape, RunTypes, Pinned
    <3>3. PICK x \in Rows : x = woken(row[r])
      BY <3>2
    <3> DEFINE new == [x EXCEPT !.context.reply[m] = Says[l]]
    <3>4. new \in Rows
      BY ReplyShape
    <3>5. new.status = x.status /\ new.version = x.version
          /\ new.founding = x.founding
      BY DEF Rows
    <3>6. row' = [row EXCEPT ![r] = new]
      BY <2>1, <3>1, <3>3 DEF WakeOnReply
    <3> HIDE DEF new
    <3> QED
      BY <1>1, <3>2, <3>3, <3>4, <3>5, <3>6, RowKeeps
  <2> QED
    BY <2>1, SameRows DEF WakeOnReply
<1> QED
  BY <1>2, <1>3, ShapeParts, SameTrail, SamePlan DEF WakeOnReply

LEMMA RefreshKeeps ==
    ASSUME Shape, NEW l \in Letters, RefreshRunFacts(l)
    PROVE  Shape'
<1>1. hand[l].run \in Runs
  BY DEF Shape, Held, RefreshRunFacts
<1>2. HandShape'
  BY GoLetterKeeps DEF RefreshRunFacts, HandPCs
<1>3. RunShape'
  <2>1. ASSUME resumes(l, hand[l].run, hand[l].seen.square),
               row' = [row EXCEPT ![hand[l].run] = woken(row[hand[l].run])]
        PROVE  RunShape'
    BY <1>1, <2>1, WokenShape, RowKeeps
       DEF resumes, Open, Shape, RunTypes, Pinned
  <2> QED
    BY <2>1, SameRows DEF RefreshRunFacts
<1> QED
  BY <1>2, <1>3, ShapeParts, SameTrail, SamePlan DEF RefreshRunFacts, outside

LEMMA DoorsKeeps ==
    ASSUME Shape, NEW l \in Letters, ReadDoors(l)
    PROVE  Shape'
<1>1. HandShape'
  <2>1. CASE GoLetter(l, "done")
    BY <2>1, GoLetterKeeps DEF HandPCs
  <2>2. ASSUME NEW where \in {"enrol", "repeat"},
               hand' = [hand EXCEPT ![l] = [@ EXCEPT !.pc = where,
                                                     !.version = latest]]
        PROVE  HandShape'
    <3> DEFINE new == [hand[l] EXCEPT !.pc = where, !.version = latest]
    <3>1. hand[l] \in Hands /\ latest \in Versions
      BY DEF Shape, HandTypes, PlanTypes
    <3>2. new \in Hands /\ new.pc = where /\ new.version = latest
      BY <3>1 DEF Hands, HandPCs
    <3>3. hand' = [hand EXCEPT ![l] = new]
      BY <2>2
    <3> HIDE DEF new
    <3> QED
      BY <3>1, <3>2, <3>3, LetterKeeps
  <2> QED
    BY <2>1, <2>2 DEF ReadDoors
<1> QED
  BY <1>1, ShapeParts, SameRows, SameTrail, SamePlan DEF ReadDoors, outside

\* The row a letter founds.
NewRun(l, v, n, due) ==
    [NoRow EXCEPT !.status = "waiting", !.version = v, !.stay = 1,
                  !.square = n, !.founding = l, !.due = due]

LEMMA FoundedShape ==
    ASSUME NEW l \in Letters, NEW v \in Versions, NEW due \in BOOLEAN,
           NEW n \in Squares
    PROVE  /\ NewRun(l, v, n, due) \in Rows
           /\ NewRun(l, v, n, due).status = "waiting"
           /\ NewRun(l, v, n, due).version = v
           /\ NewRun(l, v, n, due).founding = l
<1>1. PICK x \in Rows : x = NoRow
  BY RowShape
<1>2. NewRun(l, v, n, due) =
        [x EXCEPT !.status = "waiting", !.version = v, !.stay = 1,
                  !.square = n, !.founding = l, !.due = due]
  BY <1>1 DEF NewRun
<1>3. PICK y \in Rows : y = [x EXCEPT !.status = "waiting", !.version = v, !.stay = 1]
  BY DEF Rows
<1>4. [y EXCEPT !.square = n, !.founding = l, !.due = due] \in Rows
  BY DEF Rows
<1>5. NewRun(l, v, n, due) = [y EXCEPT !.square = n, !.founding = l, !.due = due]
  BY <1>2, <1>3 DEF Rows
<1> QED
  BY <1>3, <1>4, <1>5 DEF Rows

\* What Enrol does to the rows, when it founds a run.
Founds(l, r) ==
    /\ row[r].status = "none"
    /\ \E new \in Rows : /\ new.status = "waiting"
                         /\ new.version \in Versions /\ new.founding = l
                         /\ row' = [row EXCEPT ![r] = new]

LEMMA EnrolFounds ==
    ASSUME Shape, NEW l \in Letters, Enrol(l)
    PROVE  \/ UNCHANGED row
           \/ hand[l].pc = "enrol" /\ GoLetter(l, "done")
              /\ \E r \in Runs : Founds(l, r)
<1>1. SUFFICES ASSUME NEW r \in Runs, row[r].status = "none",
                      GoLetter(l, "done"), hand[l].pc = "enrol",
                      NEW v, v = hand[l].version,
                      row' = [row EXCEPT ![r] =
                        [NoRow EXCEPT !.status = "waiting", !.version = v, !.stay = 1,
                                      !.square = Board[v].door.start, !.founding = l,
                                      !.due = Board[v].door.start \notin Waits]]
               PROVE  Founds(l, r)
  BY DEF Enrol
<1>2. v \in Versions /\ Board[v].door.start \in Squares
  BY <1>1, BoardAssumption DEF Shape, Held
<1>3. PICK n \in Squares : n = Board[v].door.start
  BY <1>2
<1>4. PICK due \in BOOLEAN : due = (Board[v].door.start \notin Waits)
  OBVIOUS
<1> DEFINE new == NewRun(l, v, n, due)
<1>5. row' = [row EXCEPT ![r] = new]
  BY <1>1, <1>3, <1>4 DEF NewRun
<1>6. new \in Rows /\ new.status = "waiting" /\ new.version = v /\ new.founding = l
  BY <1>2, FoundedShape
<1> HIDE DEF new
<1> QED
  BY <1>1, <1>2, <1>5, <1>6 DEF Founds

LEMMA EnrolKeeps ==
    ASSUME Shape, NEW l \in Letters, Enrol(l)
    PROVE  Shape'
<1>1. HandShape'
  BY GoLetterKeeps DEF Enrol, HandPCs
<1>2. ASSUME NEW r \in Runs, Founds(l, r)
      PROVE  RunShape'
  <2>1. PICK new \in Rows :
            /\ new.status = "waiting" /\ new.version \in Versions
            /\ new.founding = l /\ row' = [row EXCEPT ![r] = new]
    BY <1>2 DEF Founds
  <2> QED
    BY <2>1, RowKeeps
<1>3. RunShape'
  BY <1>2, EnrolFounds, SameRows
<1> QED
  BY <1>1, <1>3, ShapeParts, SameTrail, SamePlan DEF Enrol, outside

\* What a repeat does to the rows: the open run that waits remembers it, and
\* its alarm may slide.
Patches(l, r) ==
    /\ row[r].status = "waiting"
    /\ \E new \in Rows : /\ row' = [row EXCEPT ![r] = new]
                         /\ new.status = "waiting"
                         /\ new.version = row[r].version
                         /\ new.founding = row[r].founding

LEMMA RepeatPatches ==
    ASSUME Shape, NEW l \in Letters, PatchOpenRun(l)
    PROVE  UNCHANGED row \/ \E r \in Runs : Patches(l, r)
<1>1. SUFFICES ASSUME NEW r \in Runs, row[r].status = "waiting",
                      \/ row' = [row EXCEPT ![r].context.repeats = @ \cup {l}]
                      \/ row' = [row EXCEPT ![r].context.repeats = @ \cup {l},
                                    ![r].due = FALSE, ![r].lease = NoWalker]
               PROVE  Patches(l, r)
  BY DEF PatchOpenRun
<1>2. PICK x \in Rows : x = row[r]
  BY DEF Shape, RunTypes
<1> DEFINE kept == [x EXCEPT !.context.repeats = @ \cup {l}]
           slid == [kept EXCEPT !.due = FALSE, !.lease = NoWalker]
<1>3. kept \in Rows
  BY RepeatShape
<1>4. kept.status = x.status /\ kept.version = x.version
      /\ kept.founding = x.founding
  BY DEF Rows
<1>5. CASE row' = [row EXCEPT ![r].context.repeats = @ \cup {l}]
  <2>1. row' = [row EXCEPT ![r] = kept]
    BY <1>2, <1>5
  <2> HIDE DEF kept
  <2> QED
    BY <1>1, <1>2, <1>3, <1>4, <2>1 DEF Patches
<1>6. CASE row' = [row EXCEPT ![r].context.repeats = @ \cup {l},
                              ![r].due = FALSE, ![r].lease = NoWalker]
  <2>1. row' = [row EXCEPT ![r] = slid]
    BY <1>2, <1>6 DEF Shape, RunTypes, Rows
  <2> HIDE DEF kept
  <2>2. slid \in Rows /\ slid.status = x.status /\ slid.version = x.version
        /\ slid.founding = x.founding
    BY <1>3, <1>4 DEF Rows
  <2> HIDE DEF slid
  <2> QED
    BY <1>1, <1>2, <2>1, <2>2 DEF Patches
<1> QED
  BY <1>1, <1>5, <1>6

LEMMA PatchKeeps ==
    ASSUME Shape, NEW l \in Letters, PatchOpenRun(l)
    PROVE  Shape'
<1>1. HandShape'
  BY GoLetterKeeps DEF PatchOpenRun, HandPCs
<1>2. ASSUME NEW r \in Runs, Patches(l, r)
      PROVE  RunShape'
  <2>1. PICK new \in Rows :
            /\ row' = [row EXCEPT ![r] = new] /\ new.status = "waiting"
            /\ new.version = row[r].version /\ new.founding = row[r].founding
    BY <1>2 DEF Patches
  <2>2. row[r].version \in Versions /\ row[r].founding \in Letters
    BY <1>2 DEF Patches, Shape, Pinned
  <2> QED
    BY <2>1, <2>2, RowKeeps
<1>3. RunShape'
  BY <1>2, RepeatPatches, SameRows
<1> QED
  BY <1>1, <1>3, ShapeParts, SameTrail, SamePlan DEF PatchOpenRun, outside

LEMMA LettersKeep ==
    ASSUME Shape, NEW l \in Letters, Consume(l) \/ ReturnLetter(l)
    PROVE  Shape'
<1>1. ASSUME StampLetter(l) \/ ReturnLetter(l)
      PROVE  Shape'
  <2>1. PICK new \in Hands :
            hand' = [hand EXCEPT ![l] = new] /\ new.pc \in {"pending", "stamped"}
    <3>1. [Pending EXCEPT !.pc = "stamped"] \in Hands
      BY PendingShape DEF Hands, HandPCs
    <3> QED
      BY <1>1, <3>1, PendingShape DEF StampLetter, ReturnLetter, Pending
  <2>2. HandShape'
    BY <2>1, LetterKeeps
  <2> QED
    BY <1>1, <2>2, ShapeParts, SameRows, SameTrail, SamePlan
       DEF StampLetter, ReturnLetter, outside
<1> QED
  BY <1>1, ReadRunsKeeps, GoalKeeps, WakeKeeps, RefreshKeeps, DoorsKeeps,
     EnrolKeeps, PatchKeeps DEF Consume

LEMMA RepinnedShape ==
    ASSUME Shape, NEW from, NEW to \in Versions, row' = repinned(from, to)
    PROVE  RunShape'
<1>1. ASSUME NEW x \in Rows
      PROVE  /\ [x EXCEPT !.version = to] \in Rows
             /\ [x EXCEPT !.version = to].version = to
             /\ [x EXCEPT !.version = to].status = x.status
             /\ [x EXCEPT !.version = to].founding = x.founding
             /\ [x EXCEPT !.version = to].due = x.due
             /\ [x EXCEPT !.version = to].lease = x.lease
  BY DEF Rows
<1>2. \A r \in Runs : row'[r] = row[r] \/ row'[r] = [row[r] EXCEPT !.version = to]
  BY DEF repinned
<1>3. DOMAIN row' = Runs /\ row' = [r \in Runs |-> row'[r]]
  BY DEF repinned
<1>4. \A r \in Runs :
        /\ row'[r] \in Rows /\ row'[r].version \in {row[r].version, to}
        /\ row'[r].status = row[r].status /\ row'[r].founding = row[r].founding
        /\ row'[r].due = row[r].due /\ row'[r].lease = row[r].lease
  <2>1. TAKE r \in Runs
  <2>2. PICK x \in Rows : x = row[r]
    BY DEF Shape, RunTypes
  <2>3. CASE row'[r] = row[r]
    BY <2>2, <2>3 DEF Rows
  <2>4. CASE row'[r] = [row[r] EXCEPT !.version = to]
    BY <1>1, <2>2, <2>4
  <2> QED
    BY <1>2, <2>3, <2>4
<1>5. row' \in [Runs -> Rows]
  BY <1>3, <1>4
<1> QED
  BY <1>4, <1>5 DEF Shape, Alarms, Pinned, RunShape

LEMMA PeopleKeep ==
    ASSUME Shape, People
    PROVE  Shape'
<1>1. ASSUME NEW s \in {"live", "paused", "archived"}, SetStatus(s)
      PROVE  Shape'
  BY <1>1, ShapeParts, SameRows, SameHands, SameTrail
     DEF SetStatus, PlanTypes, Shape
<1>2. ASSUME PublishWorkflow
      PROVE  Shape'
  <2>1. latest' \in Versions
    BY <1>2 DEF PublishWorkflow
  <2>2. RunShape'
    BY <1>2, <2>1, RepinnedShape, SameRows DEF PublishWorkflow
  <2> QED
    BY <1>2, <2>1, <2>2, ShapeParts, SameHands, SameTrail
       DEF PublishWorkflow, PlanTypes, Shape
<1>3. ASSUME NEW from \in Versions, NEW to \in Versions, MigrateForward(from, to)
      PROVE  Shape'
  BY <1>3, RepinnedShape, ShapeParts, SameHands, SameTrail, SamePlan
     DEF MigrateForward, outside
<1>4. ASSUME NEW r \in Runs, ResumeRun(r)
      PROVE  Shape'
  <2>1. /\ woken(row[r]) \in Rows /\ woken(row[r]).status = "waiting"
        /\ woken(row[r]).version \in Versions /\ woken(row[r]).founding \in Letters
    BY <1>4, WokenShape DEF ResumeRun, Shape, RunTypes, Pinned
  <2>2. RunShape'
    BY <1>4, <2>1, RowKeeps DEF ResumeRun
  <2> QED
    BY <1>4, <2>2, ShapeParts, SameHands, SameTrail, SamePlan
       DEF ResumeRun, outside
<1> QED
  BY <1>1, <1>2, <1>3, <1>4 DEF People

LEMMA ComeDueKeeps ==
    ASSUME Shape, NEW r \in Runs, ComeDue(r)
    PROVE  Shape'
<1>1. row[r] \in Rows /\ row[r].status = "waiting"
  BY DEF Shape, RunTypes, ComeDue
<1>2. row[r].version \in Versions /\ row[r].founding \in Letters
  BY <1>1 DEF Shape, Pinned
<1> DEFINE new == [row[r] EXCEPT !.due = TRUE]
<1>3. new \in Rows /\ new.status = "waiting" /\ new.version = row[r].version
      /\ new.founding = row[r].founding
  BY <1>1 DEF Rows
<1>4. row' = [row EXCEPT ![r] = new]
  BY DEF ComeDue
<1> HIDE DEF new
<1>5. RunShape'
  BY <1>2, <1>3, <1>4, RowKeeps
<1> QED
  BY <1>5, ShapeParts, SameHands, SameTrail, SamePlan DEF ComeDue, outside

LEMMA InitShape ==
    ASSUME Init
    PROVE  Shape
<1>1. <<>> \in Seq(Closed)
  OBVIOUS
<1>2. RunTypes
  BY <1>1, RowShape DEF Init, RunTypes
<1>3. VisitTypes /\ HandTypes /\ PlanTypes
  BY IdleShape, PendingShape DEF Init, VisitTypes, HandTypes, PlanTypes
<1>4. Alarms /\ Pinned /\ Underway /\ Held
  BY DEF Init, Alarms, Pinned, Underway, Held, NoRow, Idle, Pending
<1> QED
  BY <1>2, <1>3, <1>4 DEF Shape

LEMMA ShapeKept ==
    ASSUME Shape, [Next]_vars
    PROVE  Shape'
<1>1. CASE UNCHANGED vars
  BY <1>1 DEF vars, outside, Shape, RunTypes, VisitTypes, HandTypes, PlanTypes,
              Alarms, Pinned, Underway, Held
<1> QED
  BY <1>1, WalkerKeeps, ComeDueKeeps, LettersKeep, PeopleKeep DEF Next

LEMMA ShapeHolds == Spec => []Shape
<1> QED
  BY InitShape, ShapeKept, PTL DEF Spec

\* Every variable keeps its shape, and only a waiting run has an alarm.
THEOREM TypeCorrect == Spec => []TypeOK
<1>1. Shape => TypeOK
  BY DEF Shape, RunTypes, VisitTypes, HandTypes, PlanTypes, Alarms, TypeOK,
         Visits, VisitPCs, Hands, HandPCs, Seen
<1> QED
  BY <1>1, ShapeHolds, PTL

-----------------------------------------------------------------------------
(* An exited run stays as it ended.                                        *)

\* A run that is not open is left alone, and every run keeps its letter.
Kept ==
    \A r \in Runs :
        /\ ~Open(r) => row'[r] = row[r] /\ trail'[r] = trail[r]
        /\ row'[r].founding = row[r].founding
        /\ Open(r) => row'[r].status # "none"

\* A letter founds a run.
Enrols ==
    \E l \in Letters, r \in Runs :
        /\ hand[l].pc = "enrol" /\ GoLetter(l, "done")
        /\ Founds(l, r) /\ UNCHANGED trail

LEMMA SameKept ==
    ASSUME Shape, UNCHANGED <<row, trail>>
    PROVE  Kept
  BY DEF Kept, Open

\* One open run moves.
LEMMA OneKept ==
    ASSUME Shape, NEW r \in Runs, Open(r), NEW new,
           row' = [row EXCEPT ![r] = new],
           new.founding = row[r].founding, new.status # "none",
           UNCHANGED trail \/ \E t : trail' = [trail EXCEPT ![r] = t]
    PROVE  Kept
  BY DEF Kept, Open, Shape, RunTypes

LEMMA LandKept ==
    ASSUME Shape, NEW w \in Walkers, visit[w].pc # "idle",
           NEW new, NEW steps, Land(w, new, steps),
           landed(w) => /\ new.founding = row[visit[w].run].founding
                        /\ new.status # "none"
    PROVE  Kept
<1>1. CASE landed(w)
  BY <1>1, LandedRow, OneKept DEF Land, Open
<1> QED
  BY <1>1, SameKept DEF Land

LEMMA AdvanceKept ==
    ASSUME Shape, NEW w \in Walkers, visit[w].pc # "idle",
           NEW n, NEW stay, NEW context, NEW steps,
           advance_run(w, n, stay, context, steps)
    PROVE  Kept
<1> DEFINE new == [row[visit[w].run] EXCEPT
                !.square = n, !.stay = stay, !.context = context,
                !.attempts = 0, !.lease = NoWalker, !.due = FALSE]
<1>1. landed(w) => /\ new.founding = row[visit[w].run].founding
                   /\ new.status # "none"
  BY LandedRow DEF Rows
<1>2. Land(w, new, steps)
  BY DEF advance_run
<1> HIDE DEF new
<1> QED
  BY <1>1, <1>2, LandKept

LEMMA ExitKept ==
    ASSUME Shape, NEW w \in Walkers, visit[w].pc # "idle",
           NEW reason, NEW n, NEW context, NEW steps,
           exit_run(w, reason, n, context, steps)
    PROVE  Kept
<1> DEFINE new == [row[visit[w].run] EXCEPT
                !.status = "exited", !.reason = reason, !.square = n,
                !.context = context, !.lease = NoWalker, !.due = FALSE]
<1>1. landed(w) => /\ new.founding = row[visit[w].run].founding
                   /\ new.status # "none"
  BY LandedRow DEF Rows
<1>2. Land(w, new, steps)
  BY DEF exit_run
<1> HIDE DEF new
<1> QED
  BY <1>1, <1>2, LandKept

LEMMA WalkerKept ==
    ASSUME Shape, NEW w \in Walkers,
           Claim(w) \/ Walk(w) \/ FailVisit(w) \/ DropVisit(w)
    PROVE  Kept
<1>1. ASSUME NEW r \in Runs, ClaimDueRun(w, r)
      PROVE  Kept
  <2> DEFINE new == [row[r] EXCEPT !.lease = w, !.due = FALSE, !.attempts = @ + 1]
  <2>1. row[r] \in Rows /\ row[r].status = "waiting" /\ UNCHANGED trail
    BY <1>1 DEF Shape, RunTypes, ClaimDueRun, claimable
  <2>2. row' = [row EXCEPT ![r] = new]
    BY <1>1, <2>1 DEF ClaimDueRun, Shape, RunTypes, Rows
  <2>3. new.founding = row[r].founding /\ new.status = "waiting"
    BY <2>1 DEF Rows
  <2> HIDE DEF new
  <2> QED
    BY <2>1, <2>2, <2>3, OneKept DEF Open
<1>2. ASSUME WriteVerdict(w)
      PROVE  Kept
  <2> DEFINE run == visit[w].run
             parks == [row[run] EXCEPT !.status = "parked", !.due = FALSE,
                                       !.lease = NoWalker]
             waits == [row[run] EXCEPT !.due = FALSE, !.lease = NoWalker]
  <2>1. landed(w) => /\ parks.founding = row[run].founding
                     /\ parks.status = "parked"
                     /\ waits.founding = row[run].founding
                     /\ waits.status = "waiting"
    BY <1>2, LandedRow DEF Rows, WriteVerdict
  <2>2. \/ \E reason, n, context, steps : exit_run(w, reason, n, context, steps)
        \/ Land(w, parks, <<>>) \/ Land(w, waits, <<>>)
    BY <1>2 DEF WriteVerdict
  <2>3. visit[w].pc # "idle"
    BY <1>2 DEF WriteVerdict
  <2> HIDE DEF parks, waits
  <2> QED
    BY <2>1, <2>2, <2>3, ExitKept, LandKept
<1>3. ASSUME LeaveSquare(w)
      PROVE  Kept
  <2>1. \/ \E reason, n, context, steps : exit_run(w, reason, n, context, steps)
        \/ \E n, stay, context, steps : advance_run(w, n, stay, context, steps)
        \/ UNCHANGED <<row, trail>>
    BY <1>3 DEF LeaveSquare
  <2>2. visit[w].pc # "idle"
    BY <1>3 DEF LeaveSquare
  <2> QED
    BY <2>1, <2>2, ExitKept, AdvanceKept, SameKept
<1>4. ASSUME HoldForWindow(w)
      PROVE  Kept
  BY <1>4, AdvanceKept DEF HoldForWindow
<1>5. ASSUME \/ ReadStatus(w) \/ JudgeExits(w) \/ ParkOffBoard(w)
             \/ ExecuteSquare(w) \/ FailVisit(w) \/ DropVisit(w)
      PROVE  Kept
  BY <1>5, SameKept
     DEF ReadStatus, JudgeExits, ParkOffBoard, ExecuteSquare, FailVisit, DropVisit
<1> QED
  BY <1>1, <1>2, <1>3, <1>4, <1>5 DEF Claim, Walk

\* A run that is woken is open, and keeps its letter.
LEMMA WokenKept ==
    ASSUME Shape, NEW r \in Runs, Open(r), UNCHANGED trail,
           row' = [row EXCEPT ![r] = woken(row[r])]
    PROVE  Kept
<1>1. /\ woken(row[r]).status = "waiting"
      /\ woken(row[r]).founding = row[r].founding
  BY WokenShape DEF Open, Shape, RunTypes, Pinned
<1> QED
  BY <1>1, OneKept

LEMMA LettersKept ==
    ASSUME Shape, NEW l \in Letters, Consume(l) \/ ReturnLetter(l)
    PROVE  Kept \/ Enrols
<1>1. ASSUME EndOnGoal(l)
      PROVE  Kept
  <2> DEFINE r == hand[l].run
             new == [row[r] EXCEPT !.status = "exited", !.reason = "goal_met",
                                   !.due = FALSE, !.lease = NoWalker]
  <2>1. r \in Runs
    BY <1>1 DEF Shape, Held, EndOnGoal
  <2>2. CASE l \in Goals /\ ended(l, r)
    <3>1. /\ row' = [row EXCEPT ![r] = new]
          /\ UNCHANGED trail \/ \E t : trail' = [trail EXCEPT ![r] = t]
      BY <1>1, <2>1, <2>2 DEF EndOnGoal, Shape, RunTypes, Rows
    <3>2. new.founding = row[r].founding /\ new.status = "exited"
      BY <2>1 DEF Shape, RunTypes, Rows
    <3> HIDE DEF new
    <3> QED
      BY <2>1, <2>2, <3>1, <3>2, OneKept DEF ended
  <2> QED
    BY <1>1, <2>2, SameKept DEF EndOnGoal
<1>2. ASSUME WakeOnReply(l)
      PROVE  Kept
  <2> DEFINE r == hand[l].run
  <2>1. PICK n : n = ears(hand[l].seen.version, l)[hand[l].at]
    OBVIOUS
  <2>2. r \in Runs
    BY <1>2 DEF Shape, Held, WakeOnReply
  <2>3. CASE resumes(l, r, n)
    <3>1. PICK x \in Rows : x = woken(row[r]) /\ x.founding = row[r].founding
                            /\ x.status = "waiting"
      BY <2>2, <2>3, WokenShape DEF resumes, Open, Shape, RunTypes, Pinned
    <3> DEFINE new == [x EXCEPT !.context.reply[n] = Says[l]]
    <3>2. row' = [row EXCEPT ![r] = new] /\ UNCHANGED trail
      BY <1>2, <2>1, <2>3, <3>1 DEF WakeOnReply
    <3>3. new.founding = row[r].founding /\ new.status = "waiting"
      BY <3>1 DEF Rows
    <3> HIDE DEF new
    <3> QED
      BY <2>2, <2>3, <3>2, <3>3, OneKept DEF resumes
  <2> QED
    BY <1>2, <2>1, <2>3, SameKept DEF WakeOnReply
<1>3. ASSUME RefreshRunFacts(l)
      PROVE  Kept
  <2>1. hand[l].run \in Runs
    BY <1>3 DEF Shape, Held, RefreshRunFacts
  <2> QED
    BY <1>3, <2>1, WokenKept, SameKept DEF RefreshRunFacts, resumes
<1>4. ASSUME Enrol(l)
      PROVE  Kept \/ Enrols
  BY <1>4, EnrolFounds, SameKept DEF Enrols, Enrol
<1>5. ASSUME PatchOpenRun(l)
      PROVE  Kept
  <2>1. UNCHANGED trail
    BY <1>5 DEF PatchOpenRun
  <2>2. ASSUME NEW r \in Runs, Patches(l, r)
        PROVE  Kept
    BY <2>1, <2>2, OneKept DEF Patches, Open
  <2> QED
    BY <1>5, <2>1, <2>2, RepeatPatches, SameKept
<1>6. ASSUME \/ ReadOpenRuns(l) \/ ReadDoors(l) \/ StampLetter(l)
             \/ ReturnLetter(l)
      PROVE  Kept
  BY <1>6, SameKept DEF ReadOpenRuns, ReadDoors, StampLetter, ReturnLetter
<1> QED
  BY <1>1, <1>2, <1>3, <1>4, <1>5, <1>6 DEF Consume

LEMMA RepinKept ==
    ASSUME Shape, NEW from, NEW to, row' = repinned(from, to), UNCHANGED trail
    PROVE  Kept
<1>1. ASSUME NEW r \in Runs, NEW x \in Rows, x = row[r]
      PROVE  /\ [x EXCEPT !.version = to].status = x.status
             /\ [x EXCEPT !.version = to].founding = x.founding
  BY DEF Rows
<1> QED
  BY <1>1 DEF Kept, repinned, Open, Shape, RunTypes

LEMMA StepKept ==
    ASSUME Shape, [Next]_vars
    PROVE  Kept \/ Enrols
<1>1. ASSUME People
      PROVE  Kept
  BY <1>1, RepinKept, WokenKept, SameKept
     DEF People, SetStatus, PublishWorkflow, MigrateForward, ResumeRun, Open
<1>2. ASSUME NEW r \in Runs, ComeDue(r)
      PROVE  Kept
  <2> DEFINE new == [row[r] EXCEPT !.due = TRUE]
  <2>1. row' = [row EXCEPT ![r] = new] /\ UNCHANGED trail /\ Open(r)
    BY <1>2 DEF ComeDue, Open
  <2>2. new.founding = row[r].founding /\ new.status = row[r].status
    BY DEF Shape, RunTypes, Rows
  <2> HIDE DEF new
  <2> QED
    BY <2>1, <2>2, OneKept DEF Open
<1>3. CASE UNCHANGED vars
  BY <1>3, SameKept DEF vars
<1> QED
  BY <1>1, <1>2, <1>3, WalkerKept, LettersKept DEF Next

\* Whoever still holds a run that exited - a visit past its lease, a letter that
\* read it open, a migration - no step writes to it or to its trail.
THEOREM ExitsForGood == Spec => ExitIsFinal
<1>1. Shape /\ [Next]_vars => \A r \in Runs : row[r].status = "exited" =>
            row'[r] = row[r] /\ trail'[r] = trail[r]
  <2> SUFFICES ASSUME Shape, [Next]_vars, NEW r \in Runs, row[r].status = "exited"
               PROVE  row'[r] = row[r] /\ trail'[r] = trail[r]
    OBVIOUS
  <2>1. CASE Kept
    BY <2>1 DEF Kept, Open
  <2>2. CASE Enrols
    BY <2>2 DEF Enrols, Founds, Shape, RunTypes
  <2> QED
    BY <2>1, <2>2, StepKept
<1> QED
  BY <1>1, ShapeHolds, PTL DEF Spec, ExitIsFinal

-----------------------------------------------------------------------------
(* A letter founds one run.                                                *)

\* A run that does not exist has no letter, no two have the same, and a letter
\* that was admitted has founded none: no other consumer can enrol it between
\* its admission and its insert.
Admitted ==
    /\ \A r \in Runs : row[r].status = "none" => row[r].founding = NoLetter
    /\ \A l \in Letters : hand[l].pc = "enrol" => ~source_event_used(l)

LEMMA HandStep ==
    ASSUME Shape, [Next]_vars, NEW l \in Letters, hand'[l] # hand[l]
    PROVE  Consume(l) \/ ReturnLetter(l)
<1>1. ASSUME NEW k \in Letters, Consume(k) \/ ReturnLetter(k)
      PROVE  hand'[l] = hand[l] \/ k = l
  <2>1. ASSUME NEW x, hand' = [hand EXCEPT ![k] = x]
        PROVE  hand'[l] = hand[l] \/ k = l
    BY <2>1 DEF Shape, HandTypes
  <2>2. \E x : hand' = [hand EXCEPT ![k] = x]
    <3>1. ASSUME WakeOnReply(k)
          PROVE  \E x : hand' = [hand EXCEPT ![k] = x]
      BY <3>1 DEF WakeOnReply
    <3>2. ASSUME \E where : GoLetter(k, where)
          PROVE  \E x : hand' = [hand EXCEPT ![k] = x]
      BY <3>2 DEF GoLetter
    <3> QED
      BY <1>1, <3>1, <3>2
         DEF Consume, ReadOpenRuns, EndOnGoal, RefreshRunFacts, ReadDoors, Enrol,
             PatchOpenRun, StampLetter, ReturnLetter
  <2> QED
    BY <2>1, <2>2
<1>2. ASSUME NEW w \in Walkers,
             Claim(w) \/ Walk(w) \/ FailVisit(w) \/ DropVisit(w)
      PROVE  UNCHANGED hand
  BY <1>2 DEF Claim, ClaimDueRun, Walk, ReadStatus, JudgeExits, ParkOffBoard,
              HoldForWindow, ExecuteSquare, LeaveSquare, WriteVerdict,
              FailVisit, DropVisit
<1>3. ASSUME (\E r \in Runs : ComeDue(r)) \/ People \/ UNCHANGED vars
      PROVE  UNCHANGED hand
  BY <1>3 DEF ComeDue, People, SetStatus, PublishWorkflow, MigrateForward,
              ResumeRun, vars
<1> QED
  BY <1>1, <1>2, <1>3 DEF Next

LEMMA Admission ==
    ASSUME Shape, Admitted, [Next]_vars, NEW l \in Letters,
           hand'[l].pc = "enrol"
    PROVE  /\ ~source_event_used(l)
           /\ hand[l].pc = "enrol" => hand'[l] = hand[l]
<1>3. ASSUME Consume(l) \/ ReturnLetter(l)
      PROVE  hand[l].pc = "doors" /\ ~source_event_used(l)
  <2>1. ASSUME NEW where, GoLetter(l, where)
        PROVE  where = "enrol"
    BY <2>1 DEF GoLetter, Shape, HandTypes, Hands
  <2>2. ASSUME ReadDoors(l)
        PROVE  hand[l].pc = "doors" /\ ~source_event_used(l)
    <3>1. PICK where :
            /\ IF where = "enrol" THEN ~source_event_used(l) ELSE TRUE
            /\ hand' = [hand EXCEPT ![l] = [@ EXCEPT !.pc = where,
                                                     !.version = latest]]
      BY <2>1, <2>2 DEF ReadDoors
    <3>2. where = "enrol"
      BY <3>1 DEF Shape, HandTypes, Hands
    <3> QED
      BY <2>2, <3>1, <3>2 DEF ReadDoors
  <2>3. ASSUME ReadOpenRuns(l)
        PROVE  FALSE
    BY <2>1, <2>3 DEF ReadOpenRuns, Shape, HandTypes, Hands
  <2>4. ASSUME WakeOnReply(l)
        PROVE  FALSE
    <3>1. hand'[l] = [hand[l] EXCEPT !.at = @ + 1] /\ hand[l].pc = "wake"
      BY <2>4 DEF WakeOnReply, Shape, HandTypes
    <3> QED
      BY <3>1 DEF Shape, HandTypes, Hands
  <2>5. ASSUME StampLetter(l) \/ ReturnLetter(l)
        PROVE  FALSE
    <3>1. hand'[l] \in {Pending, [Pending EXCEPT !.pc = "stamped"]}
      BY <2>5 DEF StampLetter, ReturnLetter, Shape, HandTypes
    <3> QED
      BY <3>1 DEF Pending
  <2> QED
    BY <1>3, <2>1, <2>2, <2>3, <2>4, <2>5
       DEF Consume, EndOnGoal, RefreshRunFacts, Enrol, PatchOpenRun
<1> QED
  BY <1>3, HandStep DEF Admitted

LEMMA AdmittedKept ==
    ASSUME Shape, Admitted, FoundsOnce, [Next]_vars
    PROVE  Admitted' /\ FoundsOnce'
<1>1. CASE Kept
  <2>1. \A r \in Runs : /\ row'[r].founding = row[r].founding
                        /\ row[r].status # "none" => row'[r].status # "none"
                        /\ row[r].status = "none" => row'[r] = row[r]
    BY <1>1 DEF Kept, Open
  <2>2. \A l \in Letters : source_event_used(l)' => source_event_used(l)
    BY <2>1 DEF source_event_used, Admitted
  <2> QED
    BY <2>1, <2>2, Admission DEF Admitted, FoundsOnce
<1>2. CASE Enrols
  <2>1. PICK l \in Letters, r \in Runs :
            /\ hand[l].pc = "enrol" /\ GoLetter(l, "done") /\ Founds(l, r)
    BY <1>2 DEF Enrols
  <2>2. PICK new \in Rows : /\ new.status = "waiting" /\ new.founding = l
                            /\ row' = [row EXCEPT ![r] = new]
    BY <2>1 DEF Founds
  <2>3. \A q \in Runs \ {r} : row'[q] = row[q] /\ row[q].founding # l
    BY <2>1, <2>2, NamesAssumption
       DEF Shape, RunTypes, Admitted, source_event_used
  <2>4. row'[r].founding = l /\ row'[r].status = "waiting"
    BY <2>2 DEF Shape, RunTypes
  <2>5. hand'[l].pc = "done"
    BY <2>1 DEF GoLetter, Shape, HandTypes, Hands
  <2>6. \A k \in Letters \ {l} : source_event_used(k)' => source_event_used(k)
    BY <2>3, <2>4 DEF source_event_used
  <2>7. Admitted'
    BY <2>3, <2>4, <2>5, <2>6, Admission DEF Admitted
  <2>8. FoundsOnce'
    BY <2>3, <2>4 DEF FoundsOnce
  <2> QED
    BY <2>7, <2>8
<1> QED
  BY <1>1, <1>2, StepKept

\* A letter that is redelivered, held by several passes or refused by the door
\* founds one run.
THEOREM FoundedOnce == Spec => []FoundsOnce
<1>1. Init => Admitted /\ FoundsOnce
  BY DEF Init, Admitted, FoundsOnce, NoRow, Pending
<1> QED
  BY <1>1, AdmittedKept, ShapeHolds, PTL DEF Spec

-----------------------------------------------------------------------------
(* A goal that was there before the visit silences it.                     *)

\* A warned visit still finds the goal in the log, and has not passed the judge.
GoalStands ==
    \A w \in Walkers : visit[w].warned =>
        /\ visit[w].pc \notin {"board", "leave"}
        /\ visit[w].pc # "idle" => customer_has_event(visit[w].founding)

\* What the log holds it keeps.
LEMMA GoalStays ==
    ASSUME Shape, [Next]_vars, NEW founding, customer_has_event(founding)
    PROVE  customer_has_event(founding)'
<1>1. PICK l \in Goals : hand[l].pc = "stamped" /\ HappenedAt[founding] < HappenedAt[l]
  BY DEF customer_has_event
<1>2. hand'[l] = hand[l]
  <2>1. l \in Letters
    BY LettersAssumption
  <2>2. ~(Consume(l) \/ ReturnLetter(l))
    BY <1>1 DEF Consume, ReadOpenRuns, EndOnGoal, WakeOnReply, RefreshRunFacts,
                ReadDoors, Enrol, PatchOpenRun, StampLetter, ReturnLetter
  <2> QED
    BY <2>1, <2>2, HandStep
<1> QED
  BY <1>1, <1>2 DEF customer_has_event

LEMMA LeaveWarned ==
    ASSUME Shape, NEW w \in Walkers, LeaveSquare(w)
    PROVE  \/ visit' = [visit EXCEPT ![w] = Idle]
           \/ visit'[w].warned = visit[w].warned
<1> DEFINE v == visit[w]
           n == v.square
           answer == v.context.reply[n]
           label == IF ~branches(n) THEN "next"
                    ELSE IF answer = NoReply THEN "timeout" ELSE answer
           next == pick_next(v.version, n, label)
           context == IF branches(n) THEN without_reply(v.context, n) ELSE v.context
           walked == Append(v.walked, closed(v.stay, n, label, next))
           stay == v.stay + 1
           pc == IF Len(walked) = MaxSteps THEN "write" ELSE "board"
           verdict == IF Len(walked) = MaxSteps THEN "parked" ELSE "none"
<1>1. \/ visit' = [visit EXCEPT ![w] = Idle]
      \/ visit' = [visit EXCEPT ![w] =
            [v EXCEPT !.square = next, !.stay = stay, !.context = context,
                      !.walked = walked, !.pc = pc, !.verdict = verdict]]
  BY DEF LeaveSquare, advance_run, exit_run, Land
<1> HIDE DEF next, context, walked, stay, pc, verdict
<1>2. v \in Visits
  BY DEF Shape, VisitTypes
<1>3. [v EXCEPT !.square = next, !.stay = stay, !.context = context,
                !.walked = walked, !.pc = pc, !.verdict = verdict].warned = v.warned
  BY <1>2 DEF Visits
<1> HIDE DEF v
<1> QED
  BY <1>1, <1>3 DEF Shape, VisitTypes, v

\* A step of a warned visit: it ends, or goes to the judge, or to its write.
LEMMA WarnedStep ==
    ASSUME Shape, GoalStands, [Next]_vars, NEW w \in Walkers, visit'[w].warned
    PROVE  /\ visit'[w].pc \notin {"board", "leave"}
           /\ \/ visit[w].warned /\ visit'[w].founding = visit[w].founding
                 /\ visit[w].pc # "idle"
              \/ visit'[w].pc = "idle"
              \/ customer_has_event(visit'[w].founding)
<1>1. CASE visit'[w] = visit[w]
  BY <1>1 DEF GoalStands
<1>2. ASSUME NEW v \in Walkers, Claim(v) \/ Walk(v) \/ FailVisit(v) \/ DropVisit(v),
             v # w
      PROVE  visit'[w] = visit[w]
  BY <1>2 DEF Shape, VisitTypes, Claim, ClaimDueRun, Walk, ReadStatus, JudgeExits,
              ParkOffBoard, HoldForWindow, ExecuteSquare, LeaveSquare,
              WriteVerdict, FailVisit, DropVisit, Go, Decide, advance_run,
              exit_run, Land
<1>3. ASSUME Claim(w)
      PROVE  visit'[w].pc = "status" /\ customer_has_event(visit'[w].founding)
  <2>1. PICK r \in Runs : ClaimDueRun(w, r)
    BY <1>3 DEF Claim
  <2>2. PICK x \in Rows : x = row[r]
    BY DEF Shape, RunTypes
  <2>3. PICK warned \in BOOLEAN : warned = customer_has_event(x.founding)
    BY DEF customer_has_event
  <2>4. PICK tries : tries = row'[r].attempts
    OBVIOUS
  <2>5. visit'[w] = [Idle EXCEPT !.pc = "status", !.run = r, !.version = x.version,
                     !.founding = x.founding, !.attempts = tries,
                     !.square = x.square, !.stay = x.stay,
                     !.context = x.context, !.warned = warned]
    BY <2>1, <2>2, <2>3, <2>4 DEF ClaimDueRun, Shape, VisitTypes
  <2>6. /\ visit'[w].pc = "status" /\ visit'[w].founding = x.founding
        /\ visit'[w].warned = warned
    BY <2>5 DEF Idle
  <2> QED
    BY <2>3, <2>6
<1>4. ASSUME visit[w].pc # "idle",
             \/ \E where \in {"judge", "board"} :
                    Go(w, where) /\ (where = "judge" \/ ~visit[w].warned)
             \/ \E verdict : Decide(w, verdict)
             \/ visit' = [visit EXCEPT ![w] = Idle]
      PROVE  /\ visit'[w].pc \notin {"board", "leave"}
             /\ \/ visit[w].warned /\ visit'[w].founding = visit[w].founding
                \/ visit'[w].pc = "idle"
  <2>1. visit[w] \in Visits
    BY DEF Shape, VisitTypes
  <2>2. ASSUME NEW where, Go(w, where)
        PROVE  visit'[w] = [visit[w] EXCEPT !.pc = where]
    BY <2>2 DEF Go, Shape, VisitTypes
  <2>3. ASSUME NEW verdict, Decide(w, verdict)
        PROVE  visit'[w] = [visit[w] EXCEPT !.pc = "write", !.verdict = verdict]
    BY <2>3 DEF Decide, Shape, VisitTypes, Visits
  <2>4. CASE \E where \in {"judge", "board"} :
                Go(w, where) /\ (where = "judge" \/ ~visit[w].warned)
    <3>1. PICK where \in {"judge", "board"} :
                Go(w, where) /\ (where = "judge" \/ ~visit[w].warned)
      BY <2>4
    <3>2. visit'[w] = [visit[w] EXCEPT !.pc = where]
      BY <2>2, <3>1
    <3>3. /\ visit'[w].pc = where /\ visit'[w].founding = visit[w].founding
          /\ visit'[w].warned = visit[w].warned
      BY <2>1, <3>2 DEF Visits
    <3> QED
      BY <3>1, <3>3
  <2>5. CASE \E verdict : Decide(w, verdict)
    <3>1. PICK verdict :
            visit'[w] = [visit[w] EXCEPT !.pc = "write", !.verdict = verdict]
      BY <2>3, <2>5
    <3>2. /\ visit'[w].pc = "write" /\ visit'[w].founding = visit[w].founding
          /\ visit'[w].warned = visit[w].warned
      BY <2>1, <3>1 DEF Visits
    <3> QED
      BY <3>2
  <2>6. CASE visit' = [visit EXCEPT ![w] = Idle]
    BY <2>6 DEF Idle, Shape, VisitTypes
  <2> QED
    BY <1>4, <2>4, <2>5, <2>6
<1>5. ASSUME Walk(w)
      PROVE  /\ visit'[w].pc \notin {"board", "leave"}
             /\ visit[w].pc # "idle"
             /\ \/ visit[w].warned /\ visit'[w].founding = visit[w].founding
                \/ visit'[w].pc = "idle"
  <2>1. CASE ReadStatus(w)
    BY <1>4, <2>1 DEF ReadStatus
  <2>2. CASE JudgeExits(w)
    BY <1>4, <2>2 DEF JudgeExits, GoalStands
  <2>3. CASE ParkOffBoard(w)
    BY <1>4, <2>3 DEF ParkOffBoard
  <2>4. CASE HoldForWindow(w) \/ WriteVerdict(w)
    BY <1>4, <2>4 DEF HoldForWindow, WriteVerdict, advance_run, exit_run, Land
  <2>5. CASE ExecuteSquare(w)
    <3>1. visit[w].pc = "board" /\ visit'[w].warned = visit[w].warned
      <4>1. PICK context :
                visit' = [visit EXCEPT ![w].pc = "leave", ![w].context = context]
        BY <2>5 DEF ExecuteSquare
      <4>2. visit[w] \in Visits
        BY DEF Shape, VisitTypes
      <4>3. visit'[w] = [visit[w] EXCEPT !.pc = "leave", !.context = context]
        BY <4>1, <4>2 DEF Shape, VisitTypes, Visits
      <4>4. visit'[w].warned = visit[w].warned
        BY <4>2, <4>3 DEF Visits
      <4> QED
        BY <2>5, <4>4 DEF ExecuteSquare
    <3> QED
      BY <3>1 DEF GoalStands
  <2>6. CASE LeaveSquare(w)
    <3>1. visit[w].pc \in {"board", "leave"}
      BY <2>6 DEF LeaveSquare
    <3>2. visit' = [visit EXCEPT ![w] = Idle] \/ visit'[w].warned = visit[w].warned
      BY <2>6, LeaveWarned
    <3> QED
      BY <1>4, <3>1, <3>2 DEF GoalStands
  <2> QED
    BY <1>5, <2>1, <2>2, <2>3, <2>4, <2>5, <2>6 DEF Walk
<1>6. ASSUME FailVisit(w) \/ DropVisit(w)
      PROVE  /\ visit'[w].pc \notin {"board", "leave"}
             /\ visit[w].pc # "idle"
             /\ \/ visit[w].warned /\ visit'[w].founding = visit[w].founding
                \/ visit'[w].pc = "idle"
  BY <1>4, <1>6 DEF FailVisit, DropVisit
<1>7. \/ UNCHANGED visit
      \/ \E v \in Walkers : Claim(v) \/ Walk(v) \/ FailVisit(v) \/ DropVisit(v)
  BY DEF Next, ComeDue, Consume, ReadOpenRuns, EndOnGoal, WakeOnReply,
         RefreshRunFacts, ReadDoors, Enrol, PatchOpenRun, StampLetter,
         ReturnLetter, People, SetStatus, PublishWorkflow, MigrateForward,
         ResumeRun, vars
<1> QED
  BY <1>1, <1>2, <1>3, <1>5, <1>6, <1>7

LEMMA GoalStandsKept ==
    ASSUME Shape, GoalStands, [Next]_vars
    PROVE  GoalStands'
<1> SUFFICES ASSUME NEW w \in Walkers, visit'[w].warned
             PROVE  /\ visit'[w].pc \notin {"board", "leave"}
                    /\ visit'[w].pc # "idle" =>
                            customer_has_event(visit[w].founding)'
  BY DEF GoalStands
<1>1. PICK f : f = visit'[w].founding
  OBVIOUS
<1>2. customer_has_event(f) \/ visit'[w].pc = "idle"
  BY <1>1, WarnedStep DEF GoalStands
<1>3. customer_has_event(f) => customer_has_event(f)'
  BY GoalStays
<1> QED
  BY <1>1, <1>2, <1>3, WarnedStep DEF customer_has_event

\* Whatever letters, lapses and edits fall between its claim and the board, a
\* visit claimed after the goal calls nobody.
THEOREM GoalIsHeard == Spec => GoalSilences
<1>1. Init => GoalStands
  BY DEF Init, GoalStands, Idle
<1>2. Shape /\ GoalStands /\ [Next]_vars =>
        \A w \in Walkers :
            visit[w].pc = "board" /\ visit[w].warned => visit'[w].pc # "leave"
  BY DEF GoalStands
<1> QED
  BY <1>1, <1>2, GoalStandsKept, ShapeHolds, PTL DEF Spec, GoalSilences

-----------------------------------------------------------------------------
(* The trail is one path, and answers decide its branches.                 *)

\* The answers recorded during a stay, and the outcomes they allow there.
Said(H, r, k) == {Says[h[3]] : h \in {e \in H : e[1] = r /\ e[2] = k}}
Right(H, r, k) ==
    ExitReasons \cup (IF Said(H, r, k) = {} THEN {"timeout"} ELSE Said(H, r, k))

\* The squares u that a visit closed lead from where its run stands to the
\* square it is on; only the first may have been a listening one.
Walked(u, x, r, H, stay, square) ==
    /\ \A k \in 1..Len(u) :
        /\ u[k].stay = x.stay + k - 1
        /\ u[k].square = IF k = 1 THEN x.square ELSE u[k - 1].next
        /\ u[k].square \in Listening => k = 1 /\ u[k].outcome \in Right(H, r, x.stay)
    /\ stay = x.stay + Len(u)
    /\ square = IF u = <<>> THEN x.square ELSE u[Len(u)].next

\* It took the answers of its run along, and left them on the first square.
Carries(context, x, u) ==
    \A n \in Listening :
        context.reply[n] = IF u = <<>> THEN x.context.reply[n] ELSE NoReply

\* A visit whose write would land walks on from the row as it is.
OnWay(v, x, H) ==
    /\ Walked(v.walked, x, v.run, H, v.stay, v.square)
    /\ Carries(v.context, x, v.walked)
    /\ v.walked # <<>> => v.square \notin Listening
    /\ v.pc \in {"status", "judge"} \/ v.verdict \in ExitReasons => v.walked = <<>>
    /\ v.verdict # "completed"

IsPath(t) ==
    /\ \A k \in 1..Len(t) : t[k].stay = k
    /\ \A k \in 2..Len(t) : t[k - 1].next = t[k].square
Joins(x, t) == Len(t) + 1 = x.stay /\ (t # <<>> => t[Len(t)].next = x.square)
Ends(x, t) == t # <<>> /\ t[Len(t)].next = End /\ t[Len(t)].square = x.square
IsOpen(x) == x.status \in {"waiting", "parked"}

Stands(x, t) ==
    /\ IsPath(t)
    /\ x.status = "none" => t = <<>> /\ x.stay = 0
    /\ IsOpen(x) => Joins(x, t)
    /\ x.status = "exited" => Ends(x, t) \/ (Joins(x, t) /\ x.reason # "completed")

\* Closed listening squares were left rightly, no later stay has an answer yet,
\* and an open run carries an answer of its stay, if there is one.
Spoken(r, x, t, H) ==
    /\ \A k \in 1..Len(t) : t[k].square \in Listening => t[k].outcome \in Right(H, r, k)
    /\ \A k \in Nat : NoReply \notin Said(H, r, k) /\ (k > x.stay => Said(H, r, k) = {})
    /\ IsOpen(x) => \A n \in Listening :
        x.context.reply[n] \in
            IF n = x.square /\ Said(H, r, x.stay) # {} THEN Said(H, r, x.stay)
            ELSE {NoReply}

Track ==
    /\ \A r \in Runs : Stands(row[r], trail[r]) /\ Spoken(r, row[r], trail[r], heard)
    /\ \A w \in Walkers : visit[w].pc # "idle" /\ landed(w) =>
            OnWay(visit[w], row[visit[w].run], heard)

\* Where a joined sequence comes from.
LEMMA CatAt ==
    ASSUME NEW s \in Seq(Closed), NEW u \in Seq(Closed)
    PROVE  /\ Len(s \o u) = Len(s) + Len(u) /\ Len(s) \in Nat /\ Len(u) \in Nat
           /\ \A k \in 1..Len(s) : (s \o u)[k] = s[k]
           /\ \A k \in 1..Len(u) : (s \o u)[Len(s) + k] = u[k]
  OBVIOUS

LEMMA AddAt ==
    ASSUME NEW u \in Seq(Closed), NEW e \in Closed
    PROVE  /\ Append(u, e) \in Seq(Closed) /\ Append(u, e) # <<>>
           /\ Len(Append(u, e)) = Len(u) + 1 /\ Len(u) \in Nat
           /\ \A k \in 1..Len(u) : Append(u, e)[k] = u[k]
           /\ Append(u, e)[Len(u) + 1] = e
  OBVIOUS

LEMMA EmptyWalk ==
    ASSUME NEW x \in Rows, NEW r, NEW H
    PROVE  Walked(<<>>, x, r, H, x.stay, x.square)
  BY DEF Walked, Rows

\* The visit closes one more square.
LEMMA WalkedOn ==
    ASSUME NEW x \in Rows, NEW r, NEW H, NEW u \in Seq(Closed), NEW stay \in Nat,
           NEW n, NEW label, NEW next, Walked(u, x, r, H, stay, n),
           closed(stay, n, label, next) \in Closed,
           n \in Listening => u = <<>> /\ label \in Right(H, r, x.stay)
    PROVE  Walked(Append(u, closed(stay, n, label, next)), x, r, H, stay + 1, next)
<1> DEFINE e == closed(stay, n, label, next)
           t == Append(u, e)
<1>1. e.stay = stay /\ e.square = n /\ e.outcome = label /\ e.next = next
  BY DEF closed
<1>2. x.stay \in Nat /\ Len(u) \in Nat /\ (u = <<>> <=> Len(u) = 0)
  BY DEF Rows
<1>3. /\ t # <<>> /\ Len(t) = Len(u) + 1 /\ t[Len(u) + 1] = e
      /\ \A k \in 1..Len(u) : t[k] = u[k]
  BY AddAt
<1> HIDE DEF e, t
<1>4. ASSUME NEW k \in 1..Len(t)
      PROVE  /\ t[k].stay = x.stay + k - 1
             /\ t[k].square = IF k = 1 THEN x.square ELSE t[k - 1].next
             /\ t[k].square \in Listening => k = 1 /\ t[k].outcome \in Right(H, r, x.stay)
  <2>1. CASE k \in 1..Len(u)
    <3>1. k # 1 => k - 1 \in 1..Len(u)
      BY <2>1, <1>2
    <3> QED
      BY <1>3, <2>1, <3>1 DEF Walked
  <2>2. CASE k = Len(u) + 1
    <3>1. u # <<>> => Len(u) \in 1..Len(u) /\ k - 1 = Len(u)
      BY <1>2, <2>2
    <3>2. stay = x.stay + Len(u)
      BY DEF Walked
    <3>3. t[k] = e
      BY <1>3, <2>2
    <3>4. e.stay = x.stay + k - 1
      BY <1>1, <1>2, <2>2, <3>2
    <3>5. n = IF k = 1 THEN x.square ELSE t[k - 1].next
      BY <1>2, <1>3, <2>2, <3>1 DEF Walked
    <3>6. n \in Listening => k = 1
      BY <1>2, <2>2
    <3> QED
      BY <1>1, <3>3, <3>4, <3>5, <3>6
  <2> QED
    BY <1>2, <1>3, <2>1, <2>2
<1>5. stay + 1 = x.stay + Len(t)
  BY <1>2, <1>3 DEF Walked
<1>6. next = t[Len(t)].next
  BY <1>1, <1>3
<1>7. Walked(t, x, r, H, stay + 1, next)
  BY <1>3, <1>4, <1>5, <1>6 DEF Walked
<1> QED
  BY <1>7 DEF t, e

\* What a landed walk makes of the trail.
LEMMA WalkLands ==
    ASSUME NEW x \in Rows, NEW r, NEW H, NEW t \in Seq(Closed), NEW u \in Seq(Closed),
           NEW stay \in Nat, NEW n, Walked(u, x, r, H, stay, n), IsOpen(x),
           Stands(x, t), Spoken(r, x, t, H)
    PROVE  /\ IsPath(t \o u) /\ Len(t \o u) + 1 = stay
           /\ u # <<>> => t \o u # <<>> /\ (t \o u)[Len(t \o u)] = u[Len(u)]
           /\ t \o u # <<>> => (t \o u)[Len(t \o u)].next = n
           /\ \A k \in 1..Len(t \o u) :
                (t \o u)[k].square \in Listening => (t \o u)[k].outcome \in Right(H, r, k)
<1> DEFINE j == t \o u
<1>1. /\ Len(j) = Len(t) + Len(u) /\ Len(t) \in Nat /\ Len(u) \in Nat
      /\ \A k \in 1..Len(t) : j[k] = t[k]
      /\ \A k \in 1..Len(u) : j[Len(t) + k] = u[k]
  BY CatAt
<1>2. /\ x.stay \in Nat /\ (u = <<>> <=> Len(u) = 0) /\ (t = <<>> <=> Len(t) = 0)
      /\ j \in Seq(Closed) /\ (j = <<>> <=> Len(j) = 0)
  BY DEF Rows
<1> HIDE DEF j
<1>3. Len(t) + 1 = x.stay /\ (t # <<>> => t[Len(t)].next = x.square)
  BY DEF Stands, Joins
<1>4. stay = x.stay + Len(u) /\ n = IF u = <<>> THEN x.square ELSE u[Len(u)].next
  BY DEF Walked
<1>5. ASSUME NEW k \in 1..Len(j)
      PROVE  \/ k \in 1..Len(t) /\ j[k] = t[k]
             \/ k - Len(t) \in 1..Len(u) /\ j[k] = u[k - Len(t)]
  <2>1. CASE k <= Len(t)
    BY <1>1, <2>1
  <2>2. CASE k > Len(t)
    <3>1. k - Len(t) \in 1..Len(u) /\ Len(t) + (k - Len(t)) = k
      BY <1>1, <2>2
    <3> QED
      BY <1>1, <3>1
  <2> QED
    BY <1>1, <2>1, <2>2
<1>6. ASSUME NEW k \in 1..Len(j)
      PROVE  /\ j[k].stay = k
             /\ j[k].square \in Listening => j[k].outcome \in Right(H, r, k)
  <2>1. CASE k \in 1..Len(t) /\ j[k] = t[k]
    BY <2>1 DEF Stands, IsPath, Spoken
  <2>2. CASE k - Len(t) \in 1..Len(u) /\ j[k] = u[k - Len(t)]
    <3>1. PICK i \in 1..Len(u) : i = k - Len(t)
      BY <2>2
    <3>2. /\ u[i].stay = x.stay + i - 1
          /\ u[i].square \in Listening => i = 1 /\ u[i].outcome \in Right(H, r, x.stay)
      BY DEF Walked
    <3>3. x.stay + i - 1 = k /\ (i = 1 => k = x.stay)
      BY <1>1, <1>2, <1>3, <3>1
    <3> QED
      BY <2>2, <3>1, <3>2, <3>3
  <2> QED
    BY <1>5, <2>1, <2>2
<1>7. ASSUME NEW k \in 2..Len(j)
      PROVE  j[k - 1].next = j[k].square
  <2>0. k \in 1..Len(j) /\ k - 1 \in 1..Len(j)
    BY <1>1
  <2>1. CASE k \in 1..Len(t) /\ j[k] = t[k]
    <3>1. k \in 2..Len(t) /\ k - 1 \in 1..Len(t)
      BY <1>1, <2>1
    <3>2. j[k - 1] = t[k - 1]
      BY <1>1, <3>1
    <3> QED
      BY <2>1, <3>1, <3>2 DEF Stands, IsPath
  <2>2. CASE k - Len(t) \in 1..Len(u) /\ j[k] = u[k - Len(t)]
    <3>1. PICK i \in 1..Len(u) : i = k - Len(t)
      BY <2>2
    <3>2. u[i].square = IF i = 1 THEN x.square ELSE u[i - 1].next
      BY DEF Walked
    <3>3. CASE i = 1
      <4>1. k - 1 = Len(t) /\ Len(t) \in 1..Len(t)
        BY <1>1, <3>1, <3>3
      <4>2. j[k - 1] = t[Len(t)] /\ t # <<>>
        BY <1>1, <1>2, <4>1
      <4>3. j[k - 1].next = x.square
        BY <1>3, <4>2
      <4> QED
        BY <2>2, <3>1, <3>2, <3>3, <4>3
    <3>4. CASE i # 1
      <4>1. i - 1 \in 1..Len(u) /\ Len(t) + (i - 1) = k - 1
        BY <1>1, <3>1, <3>4
      <4>2. j[k - 1] = u[i - 1]
        BY <1>1, <4>1
      <4> QED
        BY <2>2, <3>1, <3>2, <3>4, <4>2
    <3> QED
      BY <3>3, <3>4
  <2> QED
    BY <1>5, <2>0, <2>1, <2>2
<1>8. Len(j) + 1 = stay
  <2>1. PICK a \in Nat, b \in Nat, c \in Nat : a = Len(t) /\ b = Len(u) /\ c = x.stay
    BY <1>1, <1>2
  <2>2. Len(j) = a + b /\ a + 1 = c /\ stay = c + b
    BY <1>1, <1>3, <1>4, <2>1
  <2> QED
    BY <2>2
<1>9. u # <<>> => j # <<>> /\ j[Len(j)] = u[Len(u)]
  BY <1>1, <1>2
<1>10. u = <<>> => j = t
  BY DEF j
<1>11. j # <<>> => j[Len(j)].next = n
  BY <1>3, <1>4, <1>9, <1>10
<1>12. IsPath(j)
  BY <1>6, <1>7 DEF IsPath
<1>13. \A k \in 1..Len(j) : j[k].square \in Listening => j[k].outcome \in Right(H, r, k)
  BY <1>6
<1> QED
  BY <1>8, <1>9, <1>11, <1>12, <1>13 DEF j

\* A run that moves on.
LEMMA AdvanceStands ==
    ASSUME NEW x \in Rows, NEW y \in Rows, NEW r, NEW H, NEW t \in Seq(Closed),
           NEW u \in Seq(Closed), IsOpen(x), Stands(x, t), Spoken(r, x, t, H),
           Walked(u, x, r, H, y.stay, y.square), y.status = x.status,
           Carries(y.context, x, u)
    PROVE  Stands(y, t \o u) /\ Spoken(r, y, t \o u, H)
<1>0. y.stay \in Nat /\ x.stay \in Nat /\ Len(u) \in Nat /\ (u = <<>> <=> Len(u) = 0)
  BY DEF Rows
<1>1. /\ IsPath(t \o u) /\ Len(t \o u) + 1 = y.stay
      /\ t \o u # <<>> => (t \o u)[Len(t \o u)].next = y.square
      /\ \A k \in 1..Len(t \o u) :
            (t \o u)[k].square \in Listening => (t \o u)[k].outcome \in Right(H, r, k)
  BY <1>0, WalkLands
<1>2. y.stay = x.stay + Len(u) /\ (u = <<>> => y.square = x.square)
  BY DEF Walked
<1>3. y.stay >= x.stay /\ (u # <<>> => y.stay > x.stay) /\ (u = <<>> => y.stay = x.stay)
  BY <1>0, <1>2
<1>4. \A k \in Nat : NoReply \notin Said(H, r, k) /\ (k > y.stay => Said(H, r, k) = {})
  BY <1>0, <1>3 DEF Spoken
<1>5. ASSUME NEW n \in Listening
      PROVE  y.context.reply[n] \in
            IF n = y.square /\ Said(H, r, y.stay) # {} THEN Said(H, r, y.stay)
            ELSE {NoReply}
  <2>1. CASE u = <<>>
    BY <1>2, <1>3, <2>1 DEF Carries, Spoken
  <2>2. CASE u # <<>>
    BY <1>0, <1>3, <2>2 DEF Carries, Spoken
  <2> QED
    BY <2>1, <2>2
<1> HIDE DEF Said
<1>6. Stands(y, t \o u)
  BY <1>1 DEF Stands, Joins, IsOpen
<1>7. Spoken(r, y, t \o u, H)
  BY <1>1, <1>4, <1>5 DEF Spoken
<1> QED
  BY <1>6, <1>7

\* A run that exits: from where it stands, or from the last square it closed.
LEMMA ExitStands ==
    ASSUME NEW x \in Rows, NEW y \in Rows, NEW r, NEW H, NEW t \in Seq(Closed),
           NEW u \in Seq(Closed), IsOpen(x), Stands(x, t), Spoken(r, x, t, H),
           NEW stay \in Nat, NEW n, Walked(u, x, r, H, stay, n),
           y.status = "exited", y.stay = x.stay,
           IF u = <<>> THEN y.reason # "completed" /\ y.square = x.square
           ELSE n = End /\ y.square = u[Len(u)].square
    PROVE  Stands(y, t \o u) /\ Spoken(r, y, t \o u, H)
<1>1. /\ IsPath(t \o u)
      /\ u # <<>> => t \o u # <<>> /\ (t \o u)[Len(t \o u)] = u[Len(u)]
      /\ t \o u # <<>> => (t \o u)[Len(t \o u)].next = n
      /\ \A k \in 1..Len(t \o u) :
            (t \o u)[k].square \in Listening => (t \o u)[k].outcome \in Right(H, r, k)
  BY WalkLands
<1>2. Stands(y, t \o u)
  <2>1. CASE u = <<>>
    <3>1. t \o u = t
      BY <2>1
    <3>2. Joins(y, t)
      BY <2>1 DEF Stands, Joins
    <3> QED
      BY <1>1, <2>1, <3>1, <3>2 DEF Stands, IsOpen
  <2>2. CASE u # <<>>
    <3>1. Ends(y, t \o u)
      BY <1>1, <2>2 DEF Ends
    <3> QED
      BY <1>1, <3>1 DEF Stands, IsOpen
  <2> QED
    BY <2>1, <2>2
<1>3. Spoken(r, y, t \o u, H)
  <2>1. \A k \in Nat : NoReply \notin Said(H, r, k) /\ (k > y.stay => Said(H, r, k) = {})
    BY DEF Spoken
  <2>2. ~IsOpen(y)
    BY DEF IsOpen
  <2> HIDE DEF Said
  <2> QED
    BY <1>1, <2>1, <2>2 DEF Spoken
<1> QED
  BY <1>2, <1>3

\* A row that stands where it stood, with the same answers.
Still(x, y) ==
    /\ y.square = x.square /\ y.stay = x.stay /\ y.context.reply = x.context.reply
    /\ \/ y.status = x.status /\ y.reason = x.reason
       \/ IsOpen(x) /\ IsOpen(y)

LEMMA StillStands ==
    ASSUME NEW x, NEW y, NEW r, NEW t, NEW H, Still(x, y), Stands(x, t), Spoken(r, x, t, H)
    PROVE  Stands(y, t) /\ Spoken(r, y, t, H)
<1>1. IsOpen(y) <=> IsOpen(x)
  BY DEF Still, IsOpen
<1>2. y.status \in {"none", "exited"} => y.status = x.status /\ y.reason = x.reason
  BY DEF Still, IsOpen
<1>3. Stands(y, t)
  BY <1>1, <1>2 DEF Stands, Joins, Ends, Still
<1>4. Spoken(r, y, t, H)
  BY <1>1 DEF Spoken, Still
<1> QED
  BY <1>3, <1>4

LEMMA StillOnWay ==
    ASSUME NEW x, NEW y, NEW v, NEW H, Still(x, y), OnWay(v, x, H)
    PROVE  OnWay(v, y, H)
  BY DEF OnWay, Walked, Carries, Still

\* Rows stand still, and a visit that may land is on its way.
LEMMA StillTrack ==
    ASSUME Shape, Track, UNCHANGED <<trail, heard>>,
           \A r \in Runs : Still(row[r], row'[r]),
           \A w \in Walkers : visit'[w].pc # "idle" /\ landed(w)' =>
                \/ visit'[w] = visit[w] /\ landed(w)
                \/ OnWay(visit'[w], row'[visit'[w].run], heard),
           VisitTypes' /\ Underway'
    PROVE  Track'
<1>1. \A r \in Runs : Stands(row'[r], trail'[r]) /\ Spoken(r, row'[r], trail'[r], heard')
  BY StillStands DEF Track
<1>2. ASSUME NEW w \in Walkers, visit'[w].pc # "idle", landed(w)'
      PROVE  OnWay(visit'[w], row'[visit'[w].run], heard')
  <2>1. CASE visit'[w] = visit[w] /\ landed(w)
    <3>1. visit[w].run \in Runs /\ visit[w].pc # "idle"
      BY <1>2, <2>1 DEF Shape, Underway
    <3>2. OnWay(visit[w], row[visit[w].run], heard)
      BY <2>1, <3>1 DEF Track
    <3> QED
      BY <2>1, <3>1, <3>2, StillOnWay
  <2> QED
    BY <1>2, <2>1
<1> QED
  BY <1>1, <1>2 DEF Track

\* One run moves, and no visit of it may land any more.
LEMMA MovedTrack ==
    ASSUME Shape, Track, NEW r \in Runs, NEW new, NEW t,
           row' = [row EXCEPT ![r] = new], new.lease = NoWalker,
           trail' = [trail EXCEPT ![r] = t],
           \A q \in Runs \ {r} : \A k : Said(heard', q, k) = Said(heard, q, k),
           Stands(new, t), Spoken(r, new, t, heard'),
           \A w \in Walkers : visit'[w].pc # "idle" => visit'[w] = visit[w]
    PROVE  Track'
<1>1. row'[r] = new /\ trail'[r] = t /\ \A q \in Runs \ {r} :
            row'[q] = row[q] /\ trail'[q] = trail[q]
  BY DEF Shape, RunTypes
<1>2. ASSUME NEW q \in Runs \ {r}
      PROVE  \A k : Right(heard', q, k) = Right(heard, q, k)
  BY <1>2 DEF Right
<1>3. ASSUME NEW q \in Runs \ {r}
      PROVE  Stands(row'[q], trail'[q]) /\ Spoken(q, row'[q], trail'[q], heard')
  <2>1. Stands(row[q], trail[q]) /\ Spoken(q, row[q], trail[q], heard)
    BY DEF Track
  <2> HIDE DEF Said, Right
  <2>2. Spoken(q, row[q], trail[q], heard')
    BY <1>2, <2>1 DEF Spoken
  <2> QED
    BY <1>1, <2>1, <2>2
<1>4. ASSUME NEW w \in Walkers, visit'[w].pc # "idle", landed(w)'
      PROVE  OnWay(visit'[w], row'[visit'[w].run], heard')
  <2>1. visit'[w] = visit[w] /\ visit[w].pc # "idle" /\ visit[w].run \in Runs
    BY <1>4 DEF Shape, Underway
  <2>2. visit[w].run # r
    BY <1>1, <1>4, <2>1, NamesAssumption DEF landed
  <2>3. row'[visit[w].run] = row[visit[w].run]
    BY <1>1, <2>1, <2>2
  <2>4. landed(w)
    BY <1>4, <2>1, <2>3 DEF landed
  <2>5. OnWay(visit[w], row[visit[w].run], heard)
    BY <2>1, <2>4 DEF Track
  <2>6. OnWay(visit[w], row[visit[w].run], heard')
    <3>1. \A k : Right(heard', visit[w].run, k) = Right(heard, visit[w].run, k)
      BY <1>2, <2>1, <2>2
    <3> HIDE DEF Right
    <3> QED
      BY <2>5, <3>1 DEF OnWay, Walked
  <2> QED
    BY <2>1, <2>3, <2>6
<1> QED
  BY <1>1, <1>3, <1>4 DEF Track

\* A row that a step leaves to its visit, or takes from every visit.
LEMMA LeaseTells ==
    ASSUME \A r \in Runs : \/ row'[r].lease = row[r].lease /\ row'[r].status = row[r].status
                           \/ row'[r].lease = NoWalker,
           NEW w \in Walkers, visit'[w] = visit[w], visit[w].run \in Runs, landed(w)'
    PROVE  landed(w)
  BY NamesAssumption DEF landed

\* A step of the consumers, the people or the clock that moves no run.
LEMMA LeftTrack ==
    ASSUME Shape, Shape', Track, UNCHANGED <<trail, heard, visit>>,
           \A r \in Runs : /\ Still(row[r], row'[r])
                           /\ \/ row'[r].lease = row[r].lease /\ row'[r].status = row[r].status
                              \/ row'[r].lease = NoWalker
    PROVE  Track'
<1>1. ASSUME NEW w \in Walkers, visit'[w].pc # "idle", landed(w)'
      PROVE  visit'[w] = visit[w] /\ landed(w)
  BY <1>1, LeaseTells DEF Shape, Underway
<1> QED
  BY <1>1, StillTrack DEF Shape

\* A step of one visit that moves no run and writes no row.
LEMMA VisitTrack ==
    ASSUME Shape, Shape', Track, UNCHANGED <<row, trail, heard>>, NEW w \in Walkers,
           \A v \in Walkers \ {w} : visit'[v] = visit[v],
           visit'[w].pc # "idle" =>
                /\ visit'[w].run = visit[w].run
                /\ landed(w) => OnWay(visit'[w], row[visit'[w].run], heard)
    PROVE  Track'
<1>1. ASSUME NEW v \in Walkers, visit'[v].pc # "idle", landed(v)'
      PROVE  \/ visit'[v] = visit[v] /\ landed(v)
             \/ OnWay(visit'[v], row'[visit'[v].run], heard)
  <2>1. CASE v = w
    BY <1>1, <2>1 DEF landed
  <2>2. CASE v # w
    BY <1>1, <2>2 DEF landed
  <2> QED
    BY <2>1, <2>2
<1>2. \A r \in Runs : Still(row[r], row'[r])
  BY DEF Still
<1> QED
  BY <1>1, <1>2, StillTrack DEF Shape

\* A write that lands takes the row from every visit.
LEMMA LandTrack ==
    ASSUME Shape, Shape', Track, UNCHANGED heard, NEW w \in Walkers, visit[w].pc # "idle",
           NEW new, NEW steps, Land(w, new, steps),
           landed(w) => /\ new.lease = NoWalker
                        /\ Stands(new, trail[visit[w].run] \o steps)
                        /\ Spoken(visit[w].run, new, trail[visit[w].run] \o steps, heard)
    PROVE  Track'
<1>1. /\ visit' = [visit EXCEPT ![w] = Idle] /\ visit[w].run \in Runs
      /\ visit'[w].pc = "idle" /\ \A v \in Walkers \ {w} : visit'[v] = visit[v]
  BY DEF Land, Shape, Underway, VisitTypes, Idle
<1>2. CASE landed(w)
  <2>1. /\ row' = [row EXCEPT ![visit[w].run] = new]
        /\ trail' = [trail EXCEPT ![visit[w].run] = trail[visit[w].run] \o steps]
    BY <1>2 DEF Land
  <2> QED
    BY <1>1, <1>2, <2>1, MovedTrack
<1>3. CASE ~landed(w)
  BY <1>1, <1>3, VisitTrack DEF Land
<1> QED
  BY <1>2, <1>3

LEMMA ClaimTrack ==
    ASSUME Shape, Shape', Track, NEW w \in Walkers, NEW r \in Runs, ClaimDueRun(w, r)
    PROVE  Track'
<1>1. PICK x \in Rows : x = row[r] /\ x.status = "waiting"
  BY DEF Shape, RunTypes, ClaimDueRun, claimable
<1>2. PICK tries \in Nat, warned \in BOOLEAN :
        tries = row'[r].attempts /\ warned = customer_has_event(x.founding)
  BY DEF Shape, RunTypes, Rows, customer_has_event
<1> DEFINE new == [Idle EXCEPT !.pc = "status", !.run = r, !.version = x.version,
                     !.founding = x.founding, !.attempts = tries,
                     !.square = x.square, !.stay = x.stay,
                     !.context = x.context, !.warned = warned]
           y == [x EXCEPT !.lease = w, !.due = FALSE, !.attempts = @ + 1]
<1>3. visit' = [visit EXCEPT ![w] = new]
  BY <1>1, <1>2 DEF ClaimDueRun
<1>4. /\ new.run = r /\ new.walked = <<>> /\ new.square = x.square /\ new.stay = x.stay
      /\ new.context = x.context /\ new.verdict = "none"
  BY DEF Idle
<1>5. row' = [row EXCEPT ![r] = y]
  BY <1>1 DEF ClaimDueRun, Shape, RunTypes, Rows
<1>6. Still(x, y) /\ y.lease = w
  BY <1>1 DEF Still, Rows
<1>7. OnWay(new, x, heard)
  BY <1>4, EmptyWalk DEF OnWay, Carries, ExitReasons
<1> HIDE DEF new, y
<1>8. /\ visit'[w] = new /\ \A v \in Walkers \ {w} : visit'[v] = visit[v]
      /\ row'[r] = y /\ \A q \in Runs \ {r} : row'[q] = row[q]
  BY <1>3, <1>5 DEF Shape, VisitTypes, RunTypes
<1>9. ASSUME NEW v \in Walkers, visit'[v].pc # "idle", landed(v)'
      PROVE  \/ visit'[v] = visit[v] /\ landed(v)
             \/ OnWay(visit'[v], row'[visit'[v].run], heard)
  <2>1. CASE v = w
    BY <1>1, <1>4, <1>6, <1>7, <1>8, <2>1, StillOnWay
  <2>2. CASE v # w
    <3>1. visit'[v] = visit[v] /\ visit[v].run \in Runs
      BY <1>8, <1>9, <2>2 DEF Shape, Underway
    <3>2. visit[v].run # r
      BY <1>6, <1>8, <1>9, <2>2, <3>1 DEF landed
    <3> QED
      BY <1>8, <1>9, <3>1, <3>2 DEF landed
  <2> QED
    BY <2>1, <2>2
<1>10. \A q \in Runs : Still(row[q], row'[q])
  BY <1>1, <1>6, <1>8 DEF Still
<1>11. UNCHANGED <<trail, heard>>
  BY DEF ClaimDueRun, outside
<1> QED
  BY <1>9, <1>10, <1>11, StillTrack DEF Shape

\* A visit changes its mind, or only its place.
LEMMA GoTrack ==
    ASSUME Shape, Shape', Track, UNCHANGED <<row, trail, heard>>, NEW w \in Walkers,
           visit[w].pc # "idle",
           \/ visit[w].pc = "status" /\ Go(w, "judge")
           \/ Go(w, "board")
           \/ \E verdict \in Verdicts \ {"completed"} :
                /\ Decide(w, verdict)
                /\ verdict \in ExitReasons => visit[w].pc \in {"status", "judge"}
           \/ visit' = [visit EXCEPT ![w] = Idle]
    PROVE  Track'
<1>0. PICK v \in Visits : v = visit[w] /\ v.run \in Runs
  BY DEF Shape, VisitTypes, Underway
<1>1. landed(w) => OnWay(v, row[v.run], heard)
  BY <1>0 DEF Track
<1>2. ASSUME NEW pc, NEW verdict,
             pc \in {"status", "judge"} \/ verdict \in ExitReasons =>
                v.pc \in {"status", "judge"} \/ v.verdict \in ExitReasons,
             verdict = "completed" => v.verdict = "completed",
             visit' = [visit EXCEPT ![w] = [v EXCEPT !.pc = pc, !.verdict = verdict]]
      PROVE  Track'
  <2> DEFINE new == [v EXCEPT !.pc = pc, !.verdict = verdict]
  <2>1. /\ new.run = v.run /\ new.walked = v.walked /\ new.stay = v.stay
        /\ new.square = v.square /\ new.context = v.context /\ new.pc = pc
        /\ new.verdict = verdict
    BY <1>0 DEF Visits
  <2>2. visit'[w] = new /\ \A u \in Walkers \ {w} : visit'[u] = visit[u]
    BY <1>2 DEF Shape, VisitTypes
  <2> HIDE DEF new
  <2>3. landed(w) => OnWay(new, row[new.run], heard)
    BY <1>1, <1>2, <2>1 DEF OnWay
  <2> QED
    BY <1>0, <2>1, <2>2, <2>3, VisitTrack
<1>3. ASSUME NEW where, Go(w, where), where = "board" \/ v.pc = "status"
      PROVE  Track'
  <2>1. visit' = [visit EXCEPT ![w] = [v EXCEPT !.pc = where, !.verdict = v.verdict]]
    BY <1>0, <1>3 DEF Go, Shape, VisitTypes, Visits
  <2> QED
    BY <1>2, <1>3, <2>1
<1>4. ASSUME NEW verdict, Decide(w, verdict), verdict # "completed",
             verdict \in ExitReasons => v.pc \in {"status", "judge"}
      PROVE  Track'
  <2>1. visit' = [visit EXCEPT ![w] = [v EXCEPT !.pc = "write", !.verdict = verdict]]
    BY <1>0, <1>4 DEF Decide, Shape, VisitTypes, Visits
  <2> QED
    BY <1>2, <1>4, <2>1
<1>5. CASE visit' = [visit EXCEPT ![w] = Idle]
  <2>1. visit'[w].pc = "idle" /\ \A u \in Walkers \ {w} : visit'[u] = visit[u]
    BY <1>5 DEF Shape, VisitTypes, Idle
  <2> QED
    BY <2>1, VisitTrack
<1> QED
  BY <1>0, <1>3, <1>4, <1>5

LEMMA ExecuteTrack ==
    ASSUME Shape, Shape', Track, NEW w \in Walkers, ExecuteSquare(w)
    PROVE  Track'
<1>0. PICK v \in Visits : v = visit[w] /\ v.run \in Runs /\ v.version \in Versions
                          /\ v.pc = "board"
  BY DEF Shape, VisitTypes, Underway, ExecuteSquare
<1>1. PICK context : /\ visit' = [visit EXCEPT ![w].pc = "leave", ![w].context = context]
                     /\ \A n \in Listening : context.reply[n] = v.context.reply[n]
  <2> DEFINE n == v.square
  <2>0. v.context \in Contexts
    BY <1>0 DEF Visits
  <2>1. CASE n \in Calls
    <3>1. visit' = [visit EXCEPT ![w].pc = "leave", ![w].context =
                [v.context EXCEPT !.visits[n] = next_visit(v.context, n)]]
      BY <1>0, <2>1, SquaresAssumption DEF ExecuteSquare, Rules
    <3>2. [v.context EXCEPT !.visits[n] = next_visit(v.context, n)].reply = v.context.reply
      BY <2>0 DEF Contexts
    <3> QED
      BY <3>1, <3>2
  <2>2. CASE n \in Sends
    BY <1>0, <2>2, SquaresAssumption DEF ExecuteSquare, Rules
  <2>3. CASE n \in Rules
    <3>1. PICK label : visit' = [visit EXCEPT ![w].pc = "leave", ![w].context =
                [v.context EXCEPT !.reply[n] = label]]
      BY <1>0, <2>3 DEF ExecuteSquare, Rules
    <3>2. ASSUME NEW m \in Listening
          PROVE  [v.context EXCEPT !.reply[n] = label].reply[m] = v.context.reply[m]
      BY <2>0, <2>3, SquaresAssumption DEF Contexts, Rules, Waits
    <3> QED
      BY <3>1, <3>2
  <2> QED
    BY <1>0, <2>1, <2>2, <2>3 DEF ExecuteSquare
<1> DEFINE new == [v EXCEPT !.pc = "leave", !.context = context]
<1>2. visit'[w] = new /\ \A u \in Walkers \ {w} : visit'[u] = visit[u]
  BY <1>0, <1>1 DEF Shape, VisitTypes, Visits
<1>3. /\ new.run = v.run /\ new.walked = v.walked /\ new.stay = v.stay
      /\ new.square = v.square /\ new.context = context /\ new.pc = "leave"
      /\ new.verdict = v.verdict
  BY <1>0 DEF Visits
<1> HIDE DEF new
<1>4. landed(w) => OnWay(new, row[new.run], heard)
  BY <1>0, <1>1, <1>3 DEF Track, OnWay, Carries
<1>5. UNCHANGED <<row, trail, heard>>
  BY DEF ExecuteSquare
<1> QED
  BY <1>0, <1>2, <1>3, <1>4, <1>5, VisitTrack

\* The square a landing visit leaves, on the arrow of the answer it carries.
LEMMA LabelRight ==
    ASSUME NEW x \in Rows, NEW t, NEW H, NEW v \in Visits, OnWay(v, x, H),
           Spoken(v.run, x, t, H), IsOpen(x), v.square \in Listening, NEW label,
           label = IF ~branches(v.square) THEN "next"
                   ELSE IF v.context.reply[v.square] = NoReply THEN "timeout"
                   ELSE v.context.reply[v.square]
    PROVE  v.walked = <<>> /\ label \in Right(H, v.run, x.stay)
<1> DEFINE n == v.square
           answer == v.context.reply[n]
<1>1. v.walked = <<>>
  BY DEF OnWay
<1>2. n = x.square /\ answer = x.context.reply[n]
  BY <1>1 DEF OnWay, Walked, Carries
<1>3. answer \in IF Said(H, v.run, x.stay) # {} THEN Said(H, v.run, x.stay) ELSE {NoReply}
  BY <1>2 DEF Spoken
<1>4. NoReply \notin Said(H, v.run, x.stay)
  BY DEF Spoken, Rows
<1>5. label = IF answer = NoReply THEN "timeout" ELSE answer
  BY DEF branches
<1> HIDE DEF Said
<1> QED
  BY <1>1, <1>3, <1>4, <1>5 DEF Right

\* What a landing visit holds when it has left its square.
LEMMA LeaveOnWay ==
    ASSUME NEW x \in Rows, NEW t, NEW H, NEW v \in Visits, OnWay(v, x, H),
           Spoken(v.run, x, t, H), IsOpen(x), NEW label, NEW next, NEW context, NEW e,
           label = IF ~branches(v.square) THEN "next"
                   ELSE IF v.context.reply[v.square] = NoReply THEN "timeout"
                   ELSE v.context.reply[v.square],
           context = IF branches(v.square) THEN without_reply(v.context, v.square)
                     ELSE v.context,
           e = closed(v.stay, v.square, label, next), e \in Closed
    PROVE  /\ Walked(Append(v.walked, e), x, v.run, H, v.stay + 1, next)
           /\ Carries(context, x, Append(v.walked, e))
<1> DEFINE n == v.square
<1>0. v.walked \in Seq(Closed) /\ v.stay \in Nat /\ v.context \in Contexts
  BY DEF Visits
<1>1. n \in Listening => v.walked = <<>> /\ label \in Right(H, v.run, x.stay)
  BY LabelRight
<1>2. Walked(v.walked, x, v.run, H, v.stay, n)
  BY DEF OnWay
<1>3. Walked(Append(v.walked, e), x, v.run, H, v.stay + 1, next)
  BY <1>0, <1>1, <1>2, WalkedOn
<1>4. ASSUME NEW m \in Listening
      PROVE  context.reply[m] = NoReply
  <2>1. CASE m = n
    <3>1. branches(n)
      BY <2>1 DEF branches
    <3>2. n \in Squares
      BY <2>1, SquaresAssumption
    <3> QED
      BY <1>0, <2>1, <3>1, <3>2 DEF without_reply, Contexts
  <2>2. CASE m # n
    <3>1. v.context.reply[m] = NoReply
      <4>1. CASE v.walked = <<>>
        <5>1. n = x.square /\ v.context.reply[m] = x.context.reply[m]
          BY <4>1 DEF OnWay, Walked, Carries
        <5> QED
          BY <2>2, <5>1 DEF Spoken
      <4>2. CASE v.walked # <<>>
        BY <4>2 DEF OnWay, Carries
      <4> QED
        BY <4>1, <4>2
    <3>2. without_reply(v.context, n).reply[m] = v.context.reply[m]
      <4>1. m \in Squares
        BY SquaresAssumption
      <4> QED
        BY <1>0, <2>2, <4>1 DEF without_reply, Contexts
    <3> QED
      BY <3>1, <3>2
  <2> QED
    BY <2>1, <2>2
<1>5. Append(v.walked, e) # <<>>
  BY <1>0, AddAt
<1> HIDE DEF n
<1>6. Carries(context, x, Append(v.walked, e))
  BY <1>4, <1>5 DEF Carries
<1> QED
  BY <1>3, <1>6

\* The row of a visit that lands.
LEMMA LandedTrack ==
    ASSUME Shape, Track, NEW w \in Walkers, visit[w].pc # "idle", landed(w)
    PROVE  LET r == visit[w].run IN
           /\ r \in Runs /\ row[r] \in Rows /\ IsOpen(row[r]) /\ trail[r] \in Seq(Closed)
           /\ row[r].status = "waiting"
           /\ Stands(row[r], trail[r]) /\ Spoken(r, row[r], trail[r], heard)
           /\ OnWay(visit[w], row[r], heard)
  BY LandedRow DEF Track, IsOpen, Shape, RunTypes

LEMMA AdvanceTrack ==
    ASSUME Shape, Shape', Track, UNCHANGED heard, NEW w \in Walkers, visit[w].pc # "idle",
           NEW n \in Squares \cup {End}, NEW stay \in Nat, NEW context \in Contexts,
           NEW steps \in Seq(Closed), advance_run(w, n, stay, context, steps),
           landed(w) =>
                /\ Walked(steps, row[visit[w].run], visit[w].run, heard, stay, n)
                /\ Carries(context, row[visit[w].run], steps)
    PROVE  Track'
<1> DEFINE r == visit[w].run
           new == [row[r] EXCEPT !.square = n, !.stay = stay, !.context = context,
                                 !.attempts = 0, !.lease = NoWalker, !.due = FALSE]
<1>1. Land(w, new, steps)
  BY DEF advance_run
<1>2. ASSUME landed(w)
      PROVE  /\ new.lease = NoWalker
             /\ Stands(new, trail[r] \o steps)
             /\ Spoken(r, new, trail[r] \o steps, heard)
  <2>1. PICK x \in Rows, t \in Seq(Closed) :
            x = row[r] /\ IsOpen(x) /\ t = trail[r] /\ Stands(x, t)
            /\ Spoken(r, x, t, heard)
    BY <1>2, LandedTrack
  <2>2. /\ new \in Rows /\ new.stay = stay /\ new.square = n /\ new.context = context
        /\ new.status = x.status /\ new.lease = NoWalker
    BY <2>1 DEF Rows
  <2> HIDE DEF new
  <2>3. Walked(steps, x, r, heard, new.stay, new.square) /\ Carries(new.context, x, steps)
    BY <1>2, <2>1, <2>2
  <2> HIDE DEF r
  <2> QED
    BY <2>1, <2>2, <2>3, AdvanceStands
<1> HIDE DEF new
<1> QED
  BY <1>1, <1>2, LandTrack

LEMMA ExitTrack ==
    ASSUME Shape, Shape', Track, UNCHANGED heard, NEW w \in Walkers, visit[w].pc # "idle",
           NEW reason \in ExitReasons, NEW n, NEW context, NEW stay \in Nat, NEW next,
           NEW steps \in Seq(Closed), exit_run(w, reason, n, context, steps),
           landed(w) =>
                /\ n \in Squares \cup {End} /\ context \in Contexts
                /\ Walked(steps, row[visit[w].run], visit[w].run, heard, stay, next)
                /\ IF steps = <<>>
                   THEN reason # "completed" /\ n = row[visit[w].run].square
                   ELSE next = End /\ n = steps[Len(steps)].square
    PROVE  Track'
<1> DEFINE r == visit[w].run
           new == [row[r] EXCEPT !.status = "exited", !.reason = reason, !.square = n,
                                 !.context = context, !.lease = NoWalker, !.due = FALSE]
<1>1. Land(w, new, steps)
  BY DEF exit_run
<1>2. ASSUME landed(w)
      PROVE  /\ new.lease = NoWalker
             /\ Stands(new, trail[r] \o steps)
             /\ Spoken(r, new, trail[r] \o steps, heard)
  <2>1. PICK x \in Rows, t \in Seq(Closed) :
            x = row[r] /\ IsOpen(x) /\ t = trail[r] /\ Stands(x, t)
            /\ Spoken(r, x, t, heard)
    BY <1>2, LandedTrack
  <2>2. /\ new \in Rows /\ new.stay = x.stay /\ new.square = n
        /\ new.status = "exited" /\ new.reason = reason /\ new.lease = NoWalker
    BY <1>2, <2>1 DEF Rows
  <2> HIDE DEF new
  <2>3. Walked(steps, x, r, heard, stay, next)
    BY <1>2, <2>1
  <2>4. IF steps = <<>> THEN new.reason # "completed" /\ new.square = x.square
        ELSE next = End /\ new.square = steps[Len(steps)].square
    BY <1>2, <2>1, <2>2
  <2> HIDE DEF r
  <2> QED
    BY <2>1, <2>2, <2>3, <2>4, ExitStands
<1> HIDE DEF new
<1> QED
  BY <1>1, <1>2, LandTrack

LEMMA LeaveTrack ==
    ASSUME Shape, Shape', Track, NEW w \in Walkers, LeaveSquare(w)
    PROVE  Track'
<1> DEFINE n == visit[w].square
           answer == visit[w].context.reply[n]
           label == IF ~branches(n) THEN "next"
                    ELSE IF answer = NoReply THEN "timeout" ELSE answer
           next == pick_next(visit[w].version, n, label)
           context == IF branches(n) THEN without_reply(visit[w].context, n)
                      ELSE visit[w].context
           step == closed(visit[w].stay, n, label, next)
           walked == Append(visit[w].walked, step)
<1>0. PICK v \in Visits :
        v = visit[w] /\ v.run \in Runs /\ v.version \in Versions /\ v.pc # "idle"
  BY DEF Shape, VisitTypes, Underway, LeaveSquare
<1>1. label \in Outcomes
  <2>1. ASSUME branches(n)
        PROVE  answer \in Answers
    <3>1. n \in Squares
      BY <2>1, SquaresAssumption DEF branches, Rules
    <3> QED
      BY <1>0, <3>1 DEF Visits, Contexts
  <2> QED
    BY <2>1 DEF Outcomes
<1>2. next \in Squares \cup {End}
  BY <1>0, PickNext
<1>3. context \in Contexts
  BY <1>0 DEF Visits, Contexts, without_reply, Answers
<1>4. /\ step \in Closed /\ step.square = n
      /\ v.walked \in Seq(Closed) /\ v.stay \in Nat /\ n \in Squares \cup {End}
  BY <1>0, <1>1, <1>2 DEF closed, Closed, Visits
<1>5. /\ walked \in Seq(Closed) /\ walked # <<>> /\ walked[Len(walked)].square = n
      /\ v.stay + 1 \in Nat
  <2>1. walked = Append(v.walked, step)
    BY <1>0
  <2> HIDE DEF walked, step
  <2>2. walked # <<>> /\ Len(walked) = Len(v.walked) + 1 /\ walked[Len(v.walked) + 1] = step
        /\ walked \in Seq(Closed)
    BY <1>4, <2>1, AddAt
  <2> QED
    BY <1>4, <2>2
<1>6. landed(w) => /\ Walked(walked, row[v.run], v.run, heard, v.stay + 1, next)
                   /\ Carries(context, row[v.run], walked)
  <2> SUFFICES ASSUME landed(w)
               PROVE  /\ Walked(walked, row[v.run], v.run, heard, v.stay + 1, next)
                      /\ Carries(context, row[v.run], walked)
    OBVIOUS
  <2>1. PICK x \in Rows, t \in Seq(Closed) :
            x = row[v.run] /\ IsOpen(x) /\ t = trail[v.run]
            /\ Spoken(v.run, x, t, heard) /\ OnWay(v, x, heard)
    BY <1>0, LandedTrack
  <2>2. /\ label = IF ~branches(v.square) THEN "next"
                   ELSE IF v.context.reply[v.square] = NoReply THEN "timeout"
                   ELSE v.context.reply[v.square]
        /\ context = IF branches(v.square) THEN without_reply(v.context, v.square)
                     ELSE v.context
        /\ step = closed(v.stay, v.square, label, next)
        /\ walked = Append(v.walked, step)
    BY <1>0
  <2> HIDE DEF label, context, step, walked, next
  <2> QED
    BY <1>4, <2>1, <2>2, LeaveOnWay
<1>7. \/ next = End /\ exit_run(w, "completed", n, context, walked)
      \/ advance_run(w, next, v.stay + 1, context, walked)
      \/ /\ next \notin Listening
         /\ \E pc \in {"write", "board"}, verdict \in {"parked", "none"} :
            visit' = [visit EXCEPT ![w] =
                [v EXCEPT !.square = next, !.stay = @ + 1, !.context = context,
                          !.walked = walked, !.pc = pc, !.verdict = verdict]]
         /\ UNCHANGED <<row, trail>>
  BY <1>0 DEF LeaveSquare, Waits
<1>8. UNCHANGED heard
  BY DEF LeaveSquare, outside
<1> HIDE DEF next, context, walked, label, answer, step
<1>9. CASE next = End /\ exit_run(w, "completed", n, context, walked)
  BY <1>0, <1>3, <1>4, <1>5, <1>6, <1>8, <1>9, ExitTrack DEF ExitReasons
<1>10. CASE advance_run(w, next, v.stay + 1, context, walked)
  BY <1>0, <1>2, <1>3, <1>5, <1>6, <1>8, <1>10, AdvanceTrack
<1>11. ASSUME NEW pc \in {"write", "board"}, NEW verdict \in {"parked", "none"},
              next \notin Listening, UNCHANGED <<row, trail>>,
              visit' = [visit EXCEPT ![w] =
                [v EXCEPT !.square = next, !.stay = @ + 1, !.context = context,
                          !.walked = walked, !.pc = pc, !.verdict = verdict]]
       PROVE  Track'
  <2> DEFINE new == [v EXCEPT !.square = next, !.stay = @ + 1, !.context = context,
                              !.walked = walked, !.pc = pc, !.verdict = verdict]
  <2>1. visit'[w] = new /\ \A u \in Walkers \ {w} : visit'[u] = visit[u]
    BY <1>11 DEF Shape, VisitTypes
  <2>2. /\ new.run = v.run /\ new.walked = walked /\ new.stay = v.stay + 1
        /\ new.square = next /\ new.context = context
        /\ new.pc \notin {"status", "judge"} /\ new.verdict \notin ExitReasons
        /\ new.verdict # "completed"
    BY <1>0 DEF Visits, ExitReasons
  <2> HIDE DEF new
  <2>3. landed(w) => OnWay(new, row[new.run], heard)
    BY <1>6, <1>11, <2>2 DEF OnWay
  <2> QED
    BY <1>0, <1>8, <1>11, <2>1, <2>2, <2>3, VisitTrack
<1> QED
  BY <1>7, <1>9, <1>10, <1>11

\* The timer fired in the shut hours: the run stays, at the end of its walk.
LEMMA HoldTrack ==
    ASSUME Shape, Shape', Track, NEW w \in Walkers, HoldForWindow(w)
    PROVE  Track'
<1>0. PICK v \in Visits : v = visit[w] /\ v.run \in Runs /\ v.pc # "idle"
  BY DEF Shape, VisitTypes, Underway, HoldForWindow
<1>1. /\ v.square \in Squares \cup {End} /\ v.stay \in Nat /\ v.context \in Contexts
      /\ v.walked \in Seq(Closed)
  BY DEF Visits
<1>2. advance_run(w, v.square, v.stay, v.context, v.walked) /\ UNCHANGED heard
  BY <1>0 DEF HoldForWindow, outside
<1>3. landed(w) => /\ Walked(v.walked, row[v.run], v.run, heard, v.stay, v.square)
                   /\ Carries(v.context, row[v.run], v.walked)
  BY <1>0 DEF Track, OnWay
<1> QED
  BY <1>0, <1>1, <1>2, <1>3, AdvanceTrack

\* One square closed to the end, from where a run stands.
LEMMA ClosedHere ==
    ASSUME NEW x \in Rows, NEW r, NEW H, NEW seen, NEW outcome \in ExitReasons,
           seen.square = x.square, seen.stay = x.stay
    PROVE  LET u == closing(seen, outcome) IN
           /\ u \in Seq(Closed)
           /\ \/ u = <<>> /\ Walked(u, x, r, H, x.stay, x.square)
              \/ u # <<>> /\ u[Len(u)].square = x.square
                 /\ Walked(u, x, r, H, x.stay + 1, End)
<1> DEFINE e == closed(x.stay, x.square, outcome, End)
<1>0. PICK stay \in Nat, n \in Squares \cup {End} : stay = x.stay /\ n = x.square
  BY DEF Rows
<1>1. e \in Closed /\ e.square = x.square
  BY <1>0 DEF closed, Closed, Outcomes
<1>2. closing(seen, outcome) = <<>> \/ closing(seen, outcome) = <<e>>
  BY DEF closing
<1>3. Walked(<<>>, x, r, H, x.stay, x.square)
  BY EmptyWalk
<1>4. /\ Append(<<>>, e) = <<e>> /\ <<e>> \in Seq(Closed) /\ <<e>> # <<>>
      /\ Len(<<e>>) = 1 /\ <<e>>[1] = e /\ <<>> \in Seq(Closed)
  BY <1>1
<1>5. outcome \in Right(H, r, x.stay)
  BY DEF Right
<1>6. Walked(Append(<<>>, e), x, r, H, stay + 1, End)
  BY <1>0, <1>1, <1>3, <1>4, <1>5, WalkedOn
<1> HIDE DEF e
<1> QED
  BY <1>0, <1>1, <1>2, <1>3, <1>4, <1>6

\* A verdict is written from the square the visit was claimed on.
LEMMA WriteTrack ==
    ASSUME Shape, Shape', Track, NEW w \in Walkers, WriteVerdict(w)
    PROVE  Track'
<1>0. PICK v \in Visits : v = visit[w] /\ v.run \in Runs /\ v.pc # "idle"
  BY DEF Shape, VisitTypes, Underway, WriteVerdict
<1>1. UNCHANGED heard
  BY DEF WriteVerdict, outside
<1>2. CASE /\ v.verdict \in ExitReasons
           /\ exit_run(w, v.verdict, row[v.run].square, row[v.run].context,
                       closing(v, v.verdict))
  <2> DEFINE u == closing(v, v.verdict)
  <2>1. PICK x \in Rows : x = row[v.run]
    BY <1>0 DEF Shape, RunTypes
  <2>2. landed(w) => v.square = x.square /\ v.stay = x.stay
    BY <1>0, <1>2, <2>1, LandedTrack DEF OnWay, Walked, Rows
  <2>3. u \in Seq(Closed)
    BY <1>2, ClosingShape DEF Visits, Outcomes
  <2>4. PICK stay \in Nat, next \in Squares \cup {End} :
            landed(w) => /\ Walked(u, x, v.run, heard, stay, next)
                         /\ u # <<>> => next = End /\ u[Len(u)].square = x.square
    <3>1. x.stay \in Nat /\ x.stay + 1 \in Nat /\ x.square \in Squares \cup {End}
      BY DEF Rows
    <3>2. ASSUME landed(w)
          PROVE  \/ u = <<>> /\ Walked(u, x, v.run, heard, x.stay, x.square)
                 \/ u # <<>> /\ u[Len(u)].square = x.square
                    /\ Walked(u, x, v.run, heard, x.stay + 1, End)
      BY <1>2, <2>2, <3>2, ClosedHere
    <3> HIDE DEF u
    <3> QED
      BY <3>1, <3>2
  <2>5. landed(w) => v.verdict # "completed"
    BY <1>0, LandedTrack DEF OnWay
  <2>6. x.square \in Squares \cup {End} /\ x.context \in Contexts
    BY DEF Rows
  <2> HIDE DEF u
  <2>7. landed(w) =>
            /\ Walked(u, row[v.run], v.run, heard, stay, next)
            /\ IF u = <<>> THEN v.verdict # "completed" /\ x.square = row[v.run].square
               ELSE next = End /\ x.square = u[Len(u)].square
    BY <2>1, <2>4, <2>5
  <2>8. exit_run(w, v.verdict, x.square, x.context, u)
    BY <1>2, <2>1 DEF u
  <2> QED
    BY <1>0, <1>1, <1>2, <2>3, <2>6, <2>7, <2>8, ExitTrack
<1>3. ASSUME NEW new, Land(w, new, <<>>),
             landed(w) => new.lease = NoWalker /\ Still(row[v.run], new)
      PROVE  Track'
  <2>1. landed(w) => /\ trail[v.run] \o <<>> = trail[v.run]
                     /\ Stands(new, trail[v.run])
                     /\ Spoken(v.run, new, trail[v.run], heard)
    BY <1>0, <1>3, LandedTrack, StillStands
  <2> QED
    BY <1>0, <1>1, <1>3, <2>1, LandTrack
<1>4. CASE Land(w, [row[v.run] EXCEPT !.status = "parked", !.due = FALSE,
                                      !.lease = NoWalker], <<>>)
  <2> DEFINE new == [row[v.run] EXCEPT !.status = "parked", !.due = FALSE,
                                       !.lease = NoWalker]
  <2>1. landed(w) => new.lease = NoWalker /\ Still(row[v.run], new)
    BY <1>0, LandedTrack DEF Rows, Still, IsOpen
  <2> HIDE DEF new
  <2> QED
    BY <1>3, <1>4, <2>1 DEF new
<1>5. CASE Land(w, [row[v.run] EXCEPT !.due = FALSE, !.lease = NoWalker], <<>>)
  <2> DEFINE new == [row[v.run] EXCEPT !.due = FALSE, !.lease = NoWalker]
  <2>1. landed(w) => new.lease = NoWalker /\ Still(row[v.run], new)
    BY <1>0, LandedTrack DEF Rows, Still, IsOpen
  <2> HIDE DEF new
  <2> QED
    BY <1>3, <1>5, <2>1 DEF new
<1> QED
  BY <1>0, <1>2, <1>4, <1>5 DEF WriteVerdict

LEMMA WalkerTrack ==
    ASSUME Shape, Shape', Track, NEW w \in Walkers,
           Claim(w) \/ Walk(w) \/ FailVisit(w) \/ DropVisit(w)
    PROVE  Track'
<1>1. ASSUME Claim(w)
      PROVE  Track'
  BY <1>1, ClaimTrack DEF Claim
<1>2. ASSUME ReadStatus(w)
      PROVE  Track'
  <2>1. /\ visit[w].pc = "status" /\ UNCHANGED <<row, trail, heard>>
        /\ \/ Decide(w, "ejected")
           \/ Go(w, "judge")
           \/ visit' = [visit EXCEPT ![w] = Idle]
    BY <1>2 DEF ReadStatus, outside
  <2>2. "ejected" \in Verdicts \ {"completed"}
    BY DEF Verdicts, ExitReasons
  <2> HIDE DEF Verdicts, Go, Decide
  <2> QED
    BY <2>1, <2>2, GoTrack
<1>3. ASSUME JudgeExits(w)
      PROVE  Track'
  <2>1. /\ visit[w].pc = "judge" /\ UNCHANGED <<row, trail, heard>>
        /\ Decide(w, "timed_out") \/ Decide(w, "goal_met") \/ Go(w, "board")
    BY <1>3 DEF JudgeExits, outside
  <2>2. {"timed_out", "goal_met"} \subseteq Verdicts \ {"completed"}
    BY DEF Verdicts, ExitReasons
  <2> QED
    BY <2>1, <2>2, GoTrack
<1>4. "parked" \in Verdicts \ {"completed"} /\ "retry" \in Verdicts \ {"completed"}
      /\ "parked" \notin ExitReasons /\ "retry" \notin ExitReasons
  BY DEF Verdicts, ExitReasons
<1>5. ASSUME ParkOffBoard(w)
      PROVE  Track'
  BY <1>4, <1>5, GoTrack DEF ParkOffBoard, outside
<1>6. ASSUME FailVisit(w)
      PROVE  Track'
  BY <1>4, <1>6, GoTrack DEF FailVisit, outside
<1>7. ASSUME DropVisit(w)
      PROVE  Track'
  BY <1>7, GoTrack DEF DropVisit, outside
<1> QED
  BY <1>1, <1>2, <1>3, <1>5, <1>6, <1>7, ExecuteTrack, LeaveTrack, HoldTrack, WriteTrack
     DEF Walk

\* A goal ends the run, and closes its square if it is the one that was read.
LEMMA GoalTrack ==
    ASSUME Shape, Shape', Track, NEW l \in Letters, EndOnGoal(l)
    PROVE  Track'
<1> DEFINE r == hand[l].run
           seen == hand[l].seen
           u == closing(seen, "goal_met")
<1>0. r \in Runs /\ UNCHANGED <<visit, heard>>
  BY DEF Shape, Held, EndOnGoal, outside
<1>1. CASE l \in Goals /\ ended(l, r)
  <2>1. PICK x \in Rows, t \in Seq(Closed) :
            x = row[r] /\ t = trail[r] /\ IsOpen(x) /\ Stands(x, t) /\ Spoken(r, x, t, heard)
    BY <1>0, <1>1 DEF Track, Shape, RunTypes, ended, Open, IsOpen
  <2> DEFINE new == [x EXCEPT !.status = "exited", !.reason = "goal_met",
                              !.due = FALSE, !.lease = NoWalker]
  <2>2. row' = [row EXCEPT ![r] = new]
    BY <1>0, <1>1, <2>1 DEF EndOnGoal, Shape, RunTypes, Rows
  <2>3. /\ new \in Rows /\ new.status = "exited" /\ new.reason = "goal_met"
        /\ new.stay = x.stay /\ new.square = x.square /\ new.lease = NoWalker
    BY DEF Rows, ExitReasons
  <2> HIDE DEF new
  <2>4. PICK s \in Seq(Closed), stay \in Nat, next \in Squares \cup {End} :
            /\ trail' = [trail EXCEPT ![r] = t \o s]
            /\ Walked(s, x, r, heard, stay, next)
            /\ s # <<>> => next = End /\ s[Len(s)].square = x.square
    <3>0. x.stay \in Nat /\ x.stay + 1 \in Nat /\ x.square \in Squares \cup {End}
          /\ <<>> \in Seq(Closed) /\ t \o <<>> = t
      BY DEF Rows
    <3>1. CASE flushed(l, r)
      <4>1. trail' = [trail EXCEPT ![r] = t \o u]
        BY <1>1, <2>1, <3>1 DEF EndOnGoal
      <4>2. seen.square = x.square /\ seen.stay = x.stay /\ "goal_met" \in ExitReasons
        BY <2>1, <3>1 DEF flushed, ExitReasons
      <4> HIDE DEF seen
      <4>3. /\ u \in Seq(Closed)
            /\ \/ u = <<>> /\ Walked(u, x, r, heard, x.stay, x.square)
               \/ u # <<>> /\ u[Len(u)].square = x.square
                  /\ Walked(u, x, r, heard, x.stay + 1, End)
        BY <4>2, ClosedHere
      <4> HIDE DEF u, r
      <4> QED
        BY <3>0, <4>1, <4>3
    <3>2. CASE ~flushed(l, r)
      <4>1. trail' = [trail EXCEPT ![r] = t \o <<>>]
        BY <1>0, <1>1, <2>1, <3>0, <3>2 DEF EndOnGoal, Shape, RunTypes
      <4>2. Walked(<<>>, x, r, heard, x.stay, x.square)
        BY EmptyWalk
      <4> QED
        BY <3>0, <4>1, <4>2
    <3> QED
      BY <3>1, <3>2
  <2>5. Stands(new, t \o s) /\ Spoken(r, new, t \o s, heard)
    <3> HIDE DEF r
    <3> QED
      BY <2>1, <2>3, <2>4, ExitStands
  <2> QED
    BY <1>0, <2>2, <2>3, <2>4, <2>5, MovedTrack
<1>2. CASE ~(l \in Goals /\ ended(l, r))
  <2>1. UNCHANGED <<row, trail>>
    BY <1>2 DEF EndOnGoal
  <2> QED
    BY <1>0, <2>1, LeftTrack DEF Still
<1> QED
  BY <1>1, <1>2

\* A row that is woken stands where it stood.
LEMMA WokenStill ==
    ASSUME NEW x \in Rows, IsOpen(x)
    PROVE  /\ woken(x) \in Rows /\ woken(x).lease = NoWalker /\ IsOpen(woken(x))
           /\ Still(x, woken(x)) /\ woken(x).status = "waiting"
<1>1. (IF x.status = "parked" THEN 0 ELSE x.attempts) \in Nat
  BY DEF Rows
<1> QED
  BY <1>1 DEF woken, Rows, Still, IsOpen

\* What a letter adds to the answers of the run's stay.
Gains(G, H, r, stay, l) == G = H \cup {<<r, stay, l>>}

LEMMA Heard ==
    ASSUME NEW H, NEW r, NEW stay, NEW l, NEW G, Gains(G, H, r, stay, l), NEW q, NEW k
    PROVE  Said(G, q, k) = IF q = r /\ k = stay THEN Said(H, q, k) \cup {Says[l]}
                           ELSE Said(H, q, k)
<1> DEFINE h == <<r, stay, l>>
<1>1. h[1] = r /\ h[2] = stay /\ h[3] = l
  OBVIOUS
<1> HIDE DEF h
<1>2. G = H \cup {h}
  BY DEF h, Gains
<1> QED
  BY <1>1, <1>2 DEF Said

\* The answer is recorded for the stay, on the row and in what was heard.
LEMMA AnswerStands ==
    ASSUME NEW x \in Rows, NEW r, NEW H, NEW t \in Seq(Closed), IsOpen(x),
           Stands(x, t), Spoken(r, x, t, H), NEW l \in Letters,
           NEW G, Gains(G, H, r, x.stay, l),
           NEW y \in Rows, y.status = "waiting", y.square = x.square, y.stay = x.stay,
           \A n \in Listening :
                y.context.reply[n] = IF n = x.square THEN Says[l] ELSE x.context.reply[n]
    PROVE  Stands(y, t) /\ Spoken(r, y, t, G)
<1>0. x.stay \in Nat /\ Len(t) \in Nat /\ Len(t) + 1 = x.stay
  BY DEF Rows, Stands, Joins
<1>1. /\ Said(G, r, x.stay) = Said(H, r, x.stay) \cup {Says[l]}
      /\ \A k : k # x.stay => Said(G, r, k) = Said(H, r, k)
  BY Heard
<1>2. Stands(y, t)
  BY DEF Stands, Joins, IsOpen
<1>3. \A k \in 1..Len(t) : t[k].square \in Listening => t[k].outcome \in Right(G, r, k)
  <2>1. TAKE k \in 1..Len(t)
  <2>2. k # x.stay
    BY <1>0
  <2> QED
    BY <1>1, <2>2 DEF Spoken, Right
<1>4. \A k \in Nat : NoReply \notin Said(G, r, k) /\ (k > y.stay => Said(G, r, k) = {})
  <2>1. TAKE k \in Nat
  <2>2. CASE k = x.stay
    BY <1>0, <1>1, <2>2, AnswersAssumption DEF Spoken
  <2>3. CASE k # x.stay
    BY <1>1, <2>3 DEF Spoken
  <2> QED
    BY <2>2, <2>3
<1>5. \A n \in Listening : y.context.reply[n] \in
            IF n = y.square /\ Said(G, r, y.stay) # {} THEN Said(G, r, y.stay)
            ELSE {NoReply}
  BY <1>1 DEF Spoken
<1>6. Spoken(r, y, t, G)
  BY <1>3, <1>4, <1>5 DEF Spoken
<1> QED
  BY <1>2, <1>6

LEMMA WakeTrack ==
    ASSUME Shape, Shape', Track, NEW l \in Letters, WakeOnReply(l)
    PROVE  Track'
<1> DEFINE r == hand[l].run
<1>0. r \in Runs /\ UNCHANGED <<visit, trail>>
  BY DEF Shape, Held, WakeOnReply
<1>1. PICK n : n = ears(hand[l].seen.version, l)[hand[l].at]
  OBVIOUS
<1>2. CASE resumes(l, r, n)
  <2>1. PICK x \in Rows, t \in Seq(Closed) :
            x = row[r] /\ t = trail[r] /\ IsOpen(x) /\ Stands(x, t)
            /\ Spoken(r, x, t, heard) /\ x.square = n
    BY <1>0, <1>2 DEF Track, Shape, RunTypes, resumes, Open, IsOpen
  <2>2. PICK y \in Rows : y = woken(x) /\ y.lease = NoWalker /\ Still(x, y)
                          /\ y.status = "waiting"
    BY <2>1, WokenStill
  <2> DEFINE context == [y.context EXCEPT !.reply[n] = Says[l]]
             new == [y EXCEPT !.context = context]
  <2>3. /\ row' = [row EXCEPT ![r] = new]
        /\ Gains(heard', heard, r, x.stay, l)
    <3>1. [y EXCEPT !.context.reply[n] = Says[l]] = new
      BY DEF Rows, Contexts
    <3>2. row' = [row EXCEPT ![r] = [y EXCEPT !.context.reply[n] = Says[l]]]
      BY <1>1, <1>2, <2>1, <2>2 DEF WakeOnReply
    <3>3. heard' = heard \cup {<<r, x.stay, l>>}
      BY <1>1, <1>2, <2>1 DEF WakeOnReply
    <3> HIDE DEF r, new
    <3> QED
      BY <3>1, <3>2, <3>3 DEF Gains
  <2>4. context \in Contexts
    BY DEF Rows, Contexts, Answers
  <2>5. ASSUME NEW m \in Listening
        PROVE  context.reply[m] = IF m = x.square THEN Says[l] ELSE x.context.reply[m]
    <3>1. m \in Squares
      BY SquaresAssumption
    <3> QED
      BY <2>1, <2>2, <3>1 DEF Rows, Contexts, Still
  <2> HIDE DEF context
  <2>6. /\ new \in Rows /\ new.status = "waiting" /\ new.square = x.square
        /\ new.stay = x.stay /\ new.lease = NoWalker /\ new.context = context
    BY <2>2, <2>4 DEF Rows, Still
  <2> HIDE DEF new
  <2>7. Stands(new, t) /\ Spoken(r, new, t, heard')
    <3> HIDE DEF r
    <3>1. \A m \in Listening : new.context.reply[m]
                = IF m = x.square THEN Says[l] ELSE x.context.reply[m]
      BY <2>5, <2>6
    <3> QED
      BY <2>1, <2>3, <2>6, <3>1, AnswerStands
  <2>8. \A q \in Runs \ {r} : \A k : Said(heard', q, k) = Said(heard, q, k)
    BY <2>3, Heard
  <2>9. trail' = [trail EXCEPT ![r] = t]
    BY <1>0, <2>1 DEF Shape, RunTypes
  <2> HIDE DEF Said
  <2> QED
    BY <1>0, <2>3, <2>6, <2>7, <2>8, <2>9, MovedTrack
<1>3. CASE ~resumes(l, r, n)
  <2>1. UNCHANGED <<row, heard>>
    BY <1>1, <1>3 DEF WakeOnReply
  <2> QED
    BY <1>0, <2>1, LeftTrack DEF Still
<1> QED
  BY <1>2, <1>3

\* A run is woken, and stays where it stands.
LEMMA WokenTrack ==
    ASSUME Shape, Shape', Track, NEW r \in Runs, Open(r), UNCHANGED <<trail, heard, visit>>,
           row' = [row EXCEPT ![r] = woken(row[r])]
    PROVE  Track'
<1>1. Still(row[r], woken(row[r])) /\ woken(row[r]).lease = NoWalker
  BY WokenStill DEF Shape, RunTypes, Open, IsOpen
<1>2. row'[r] = woken(row[r]) /\ \A q \in Runs \ {r} : row'[q] = row[q]
  BY DEF Shape, RunTypes
<1> QED
  BY <1>1, <1>2, LeftTrack DEF Still

\* A repeat is remembered by the run it found, whose alarm may slide.
LEMMA PatchTrack ==
    ASSUME Shape, Shape', Track, NEW l \in Letters, PatchOpenRun(l)
    PROVE  Track'
<1>0. UNCHANGED <<trail, heard, visit>>
  BY DEF PatchOpenRun, outside
<1>1. CASE UNCHANGED row
  BY <1>0, <1>1, LeftTrack DEF Still
<1>2. ASSUME NEW r \in Runs, row[r].status = "waiting",
             \/ row' = [row EXCEPT ![r].context.repeats = @ \cup {l}]
             \/ row' = [row EXCEPT ![r].context.repeats = @ \cup {l},
                                   ![r].due = FALSE, ![r].lease = NoWalker]
      PROVE  Track'
  <2>1. PICK x \in Rows : x = row[r]
    BY DEF Shape, RunTypes
  <2>2. /\ row'[r].square = x.square /\ row'[r].stay = x.stay
        /\ row'[r].status = x.status /\ row'[r].reason = x.reason
        /\ row'[r].lease = x.lease \/ row'[r].lease = NoWalker
    BY <1>2, <2>1 DEF Shape, RunTypes, Rows
  <2>3. row'[r].context.reply = x.context.reply
    BY <1>2, <2>1 DEF Shape, RunTypes, Rows, Contexts
  <2>4. \A q \in Runs \ {r} : row'[q] = row[q]
    BY <1>2 DEF Shape, RunTypes
  <2> QED
    BY <1>0, <2>1, <2>2, <2>3, <2>4, LeftTrack DEF Still
<1> QED
  BY <1>1, <1>2 DEF PatchOpenRun

\* A run that is founded stands on its first square and has heard nothing.
LEMMA EnrolTrack ==
    ASSUME Shape, Shape', Track, NEW l \in Letters, Enrol(l)
    PROVE  Track'
<1>0. UNCHANGED <<trail, heard, visit>>
  BY DEF Enrol, outside
<1>1. CASE UNCHANGED row
  BY <1>0, <1>1, LeftTrack DEF Still
<1>2. ASSUME NEW r \in Runs, row[r].status = "none", NEW v, v = hand[l].version,
             hand[l].pc = "enrol",
             row' = [row EXCEPT ![r] =
                    [NoRow EXCEPT !.status = "waiting", !.version = v, !.stay = 1,
                                  !.square = Board[v].door.start, !.founding = l,
                                  !.due = Board[v].door.start \notin Waits]]
      PROVE  Track'
  <2> DEFINE new == [NoRow EXCEPT !.status = "waiting", !.version = v, !.stay = 1,
                                  !.square = Board[v].door.start, !.founding = l,
                                  !.due = Board[v].door.start \notin Waits]
  <2>1. PICK t \in Seq(Closed) : t = trail[r] /\ t = <<>> /\ Spoken(r, row[r], t, heard)
                                 /\ row[r].stay = 0
    BY <1>2 DEF Track, Stands, Shape, RunTypes
  <2>2. /\ new.status = "waiting" /\ new.stay = 1 /\ new.context = NoContext
        /\ new.lease = NoWalker
    BY DEF NoRow
  <2>3. row' = [row EXCEPT ![r] = new]
    BY <1>2
  <2> HIDE DEF new
  <2>4. Stands(new, t)
    BY <2>1, <2>2 DEF Stands, IsPath, Joins, IsOpen
  <2>5. Spoken(r, new, t, heard)
    <3>1. \A n \in Listening : new.context.reply[n] = NoReply
      BY <2>2, SquaresAssumption DEF NoContext
    <3>2. \A k \in Nat : NoReply \notin Said(heard, r, k)
                         /\ (k > 0 => Said(heard, r, k) = {})
      BY <2>1 DEF Spoken
    <3>3. Len(t) = 0
      BY <2>1
    <3> QED
      BY <2>2, <3>1, <3>2, <3>3 DEF Spoken
  <2>6. trail' = [trail EXCEPT ![r] = t]
    BY <1>0, <2>1 DEF Shape, RunTypes
  <2>7. \A q \in Runs \ {r} : \A k : Said(heard', q, k) = Said(heard, q, k)
    BY <1>0
  <2> QED
    BY <1>0, <2>2, <2>3, <2>4, <2>5, <2>6, <2>7, MovedTrack
<1> QED
  BY <1>1, <1>2 DEF Enrol

LEMMA LettersTrack ==
    ASSUME Shape, Shape', Track, NEW l \in Letters, Consume(l) \/ ReturnLetter(l)
    PROVE  Track'
<1>1. ASSUME RefreshRunFacts(l)
      PROVE  Track'
  <2>1. hand[l].run \in Runs /\ UNCHANGED <<trail, heard, visit>>
    BY <1>1 DEF Shape, Held, RefreshRunFacts, outside
  <2>2. CASE UNCHANGED row
    BY <2>1, <2>2, LeftTrack DEF Still
  <2> QED
    BY <1>1, <2>1, <2>2, WokenTrack DEF RefreshRunFacts, resumes
<1>2. ASSUME ReadOpenRuns(l) \/ ReadDoors(l) \/ StampLetter(l) \/ ReturnLetter(l)
      PROVE  Track'
  <2>1. UNCHANGED <<row, trail, heard, visit>>
    BY <1>2 DEF ReadOpenRuns, ReadDoors, StampLetter, ReturnLetter, outside
  <2> QED
    BY <2>1, LeftTrack DEF Still
<1> QED
  BY <1>1, <1>2, GoalTrack, WakeTrack, EnrolTrack, PatchTrack DEF Consume

LEMMA RepinTrack ==
    ASSUME Shape, Shape', Track, NEW from, NEW to, row' = repinned(from, to),
           UNCHANGED <<trail, heard, visit>>
    PROVE  Track'
<1>1. ASSUME NEW x \in Rows
      PROVE  LET y == [x EXCEPT !.version = to] IN
             /\ y.square = x.square /\ y.stay = x.stay /\ y.context = x.context
             /\ y.status = x.status /\ y.reason = x.reason /\ y.lease = x.lease
  BY DEF Rows
<1>2. ASSUME NEW r \in Runs
      PROVE  /\ Still(row[r], row'[r])
             /\ row'[r].lease = row[r].lease /\ row'[r].status = row[r].status
  <2>1. row[r] \in Rows
    BY DEF Shape, RunTypes
  <2>2. row'[r] = row[r] \/ row'[r] = [row[r] EXCEPT !.version = to]
    BY DEF repinned
  <2> QED
    BY <1>1, <2>1, <2>2 DEF Still
<1> QED
  BY <1>2, LeftTrack

LEMMA PeopleTrack ==
    ASSUME Shape, Shape', Track, People
    PROVE  Track'
<1>1. UNCHANGED <<trail, heard, visit>>
  BY DEF People, SetStatus, PublishWorkflow, MigrateForward, ResumeRun, outside
<1>2. CASE UNCHANGED row
  BY <1>1, <1>2, LeftTrack DEF Still
<1>3. ASSUME NEW from, NEW to, row' = repinned(from, to)
      PROVE  Track'
  BY <1>1, <1>3, RepinTrack
<1>4. ASSUME NEW r \in Runs, ResumeRun(r)
      PROVE  Track'
  BY <1>1, <1>4, WokenTrack DEF ResumeRun, Open
<1> QED
  BY <1>2, <1>3, <1>4 DEF People, SetStatus, PublishWorkflow, MigrateForward

LEMMA DueTrack ==
    ASSUME Shape, Shape', Track, NEW r \in Runs, ComeDue(r)
    PROVE  Track'
<1>1. row[r] \in Rows /\ row' = [row EXCEPT ![r].due = TRUE]
  BY DEF ComeDue, Shape, RunTypes
<1>2. \A q \in Runs : /\ Still(row[q], row'[q])
                      /\ row'[q].lease = row[q].lease /\ row'[q].status = row[q].status
  BY <1>1 DEF Still, Rows, Shape, RunTypes
<1> QED
  BY <1>2, LeftTrack DEF ComeDue, outside

LEMMA TrackInit ==
    ASSUME Init
    PROVE  Track
<1>1. heard = {} /\ \A r, k : Said(heard, r, k) = {}
  BY DEF Init, Said
<1>2. ASSUME NEW r \in Runs
      PROVE  Stands(row[r], trail[r]) /\ Spoken(r, row[r], trail[r], heard)
  <2>1. /\ trail[r] = <<>> /\ Len(trail[r]) = 0 /\ row[r].status = "none"
        /\ row[r].stay = 0
    BY DEF Init, NoRow
  <2>2. Stands(row[r], trail[r])
    BY <2>1 DEF Stands, IsPath, IsOpen
  <2>3. Spoken(r, row[r], trail[r], heard)
    BY <1>1, <2>1 DEF Spoken, IsOpen
  <2> QED
    BY <2>2, <2>3
<1>3. \A w \in Walkers : visit[w].pc = "idle"
  BY DEF Init, Idle
<1> QED
  BY <1>2, <1>3 DEF Track

LEMMA TrackKept ==
    ASSUME Shape, Shape', Track, [Next]_vars
    PROVE  Track'
<1>1. CASE UNCHANGED vars
  <2>1. UNCHANGED <<row, trail, heard, visit>>
    BY <1>1 DEF vars, outside
  <2> QED
    BY <2>1, LeftTrack DEF Still
<1> QED
  BY <1>1, WalkerTrack, DueTrack, LettersTrack, PeopleTrack DEF Next

LEMMA TrackHolds == Spec => []Track
<1> QED
  BY ShapeHolds, TrackInit, TrackKept, PTL DEF Spec

\* However visits, letters, goals and migrations interleave, a run's trail is
\* one path to the square its token stands on.
THEOREM PathHolds == Spec => []TrailIsPath
<1>1. Track => TrailIsPath
  <2> SUFFICES ASSUME Track, NEW r \in Runs
               PROVE  LET t == trail[r]
                          joins == Len(t) + 1 = row[r].stay
                                   /\ (t # <<>> => t[Len(t)].next = row[r].square)
                          ends == t # <<>> /\ t[Len(t)].next = End
                                  /\ t[Len(t)].square = row[r].square
                      IN
                      /\ \A k \in 1..Len(t) : t[k].stay = k
                      /\ \A k \in 2..Len(t) : t[k - 1].next = t[k].square
                      /\ Open(r) => joins
                      /\ row[r].status = "exited" =>
                            ends \/ (joins /\ row[r].reason # "completed")
    BY DEF TrailIsPath
  <2>1. Stands(row[r], trail[r])
    BY DEF Track
  <2> QED
    BY <2>1 DEF Stands, IsPath, Joins, Ends, IsOpen, Open
<1> QED
  BY <1>1, TrackHolds, PTL

\* Whichever visit or letter closes a listening square, it is left with an
\* answer of that stay, and by its alarm when there was none.
THEOREM AnswersDecide == Spec => []AnswerDecides
<1>1. Track => AnswerDecides
  <2> SUFFICES ASSUME Track, NEW r \in Runs, NEW k \in 1..Len(trail[r]),
                      trail[r][k].square \in Listening
               PROVE  LET answers == {Says[h[3]] : h \in {x \in heard : x[1] = r /\ x[2] = k}}
                      IN  trail[r][k].outcome \in ExitReasons \cup
                            (IF answers = {} THEN {"timeout"} ELSE answers)
    BY DEF AnswerDecides
  <2>1. trail[r][k].outcome \in Right(heard, r, k)
    BY DEF Track, Spoken
  <2> QED
    BY <2>1 DEF Right, Said
<1> QED
  BY <1>1, TrackHolds, PTL
-----------------------------------------------------------------------------
(* The leads of a call square number its stays.                            *)

\* A visit that may yet close squares.
Walking(v) == v.pc \in {"status", "judge", "board", "leave"}

\* The stays on a square that were closed with its work done.
Closings(t, n) == {k \in 1..Len(t) : t[k].square = n /\ t[k].outcome = "next"}
Count(t, n) == Cardinality(Closings(t, n))

\* The lead of the square a visit is about to leave.
Minting(v, n) == IF v.pc = "leave" /\ v.square = n THEN 1 ELSE 0

Ahead(v, n) == CHOOSE ahead \in SUBSET Squares : AheadOf(v, n, ahead)

\* The row counts the closed stays; each has its lead, and one more may be there.
Tallied(x, r, t, L) ==
    \A n \in Calls :
        /\ Count(t, n) = x.context.visits[n]
        /\ \A j \in 1..x.context.visits[n] : <<r, n, j>> \in L
        /\ \A j : <<r, n, j>> \in L => j \in 1..(x.context.visits[n] + 1)

\* A visit counts no further than the row and its own walk, has the leads it
\* counted, and will not come again to a call it has passed.
Tour(v, x, L) ==
    \A n \in Calls :
        /\ v.context.visits[n] <= x.context.visits[n] + Count(v.walked, n) + Minting(v, n)
        /\ \A j \in 1..v.context.visits[n] : <<v.run, n, j>> \in L
        /\ \A k \in 1..Len(v.walked) :
                v.walked[k].square = n => v.square \in Ahead(v.version, n)

\* A visit whose write would land has counted from the row as it stands.
Exact(v, x) ==
    \A n \in Calls :
        v.context.visits[n] = x.context.visits[n] + Count(v.walked, n) + Minting(v, n)

Ledger ==
    /\ leads \subseteq Runs \X Calls \X Nat
    /\ \A r \in Runs : Tallied(row[r], r, trail[r], leads)
    /\ \A w \in Walkers : Walking(visit[w]) =>
            /\ Tour(visit[w], row[visit[w].run], leads)
            /\ landed(w) => Exact(visit[w], row[visit[w].run])

LEMMA CountType ==
    ASSUME NEW t \in Seq(Closed), NEW n
    PROVE  IsFiniteSet(Closings(t, n)) /\ Count(t, n) \in Nat
<1>1. IsFiniteSet(1..Len(t))
  BY FS_Interval
<1>2. Closings(t, n) \in SUBSET (1..Len(t))
  BY DEF Closings
<1> QED
  BY <1>1, <1>2, FS_Subset, FS_CardinalityType DEF Count

LEMMA CountNone ==
    ASSUME NEW t, NEW n,
           \A k \in 1..Len(t) : t[k].square = n => t[k].outcome # "next"
    PROVE  Count(t, n) = 0
<1>1. Closings(t, n) = {}
  BY DEF Closings
<1> QED
  BY <1>1, FS_EmptySet DEF Count

\* What one more square adds to the count.
LEMMA CountAdd ==
    ASSUME NEW t \in Seq(Closed), NEW e \in Closed, NEW n
    PROVE  Count(Append(t, e), n) =
             IF e.square = n /\ e.outcome = "next" THEN Count(t, n) + 1 ELSE Count(t, n)
<1> DEFINE u == Append(t, e)
           last == Len(t) + 1
<1>1. /\ Len(u) = last /\ Len(t) \in Nat /\ u[last] = e
      /\ \A k \in 1..Len(t) : u[k] = t[k]
  BY AddAt
<1> HIDE DEF u
<1>2. 1..last = (1..Len(t)) \cup {last} /\ last \notin 1..Len(t)
  BY <1>1
<1>3. CASE e.square = n /\ e.outcome = "next"
  <2>1. Closings(u, n) = Closings(t, n) \cup {last} /\ last \notin Closings(t, n)
    BY <1>1, <1>2, <1>3 DEF Closings
  <2>2. PICK S : S = Closings(t, n) /\ IsFiniteSet(S)
    BY CountType
  <2>3. Cardinality(S \cup {last}) = Cardinality(S) + 1
    BY <2>1, <2>2, FS_AddElement
  <2>4. Count(u, n) = Count(t, n) + 1
    BY <2>1, <2>2, <2>3 DEF Count
  <2> QED
    BY <1>3, <2>4 DEF u
<1>4. CASE ~(e.square = n /\ e.outcome = "next")
  <2>1. Closings(u, n) = Closings(t, n)
    BY <1>1, <1>2, <1>4 DEF Closings
  <2> QED
    BY <1>4, <2>1 DEF Count, u
<1> QED
  BY <1>3, <1>4

\* A joined trail has the closings of both its parts.
LEMMA CountCat ==
    ASSUME NEW s \in Seq(Closed), NEW t \in Seq(Closed), NEW n
    PROVE  Count(s \o t, n) = Count(s, n) + Count(t, n)
<1> DEFINE u == s \o t
           m == Len(s)
           A == Closings(s, n)
           B == Closings(t, n)
           C == {k \in (m + 1)..(m + Len(t)) : k - m \in B}
<1>1. /\ Len(u) = m + Len(t) /\ m \in Nat /\ Len(t) \in Nat
      /\ \A k \in 1..m : u[k] = s[k]
      /\ \A k \in 1..Len(t) : u[m + k] = t[k]
  BY CatAt
<1> HIDE DEF u, m
<1>2. Closings(u, n) = A \cup C
  <2>1. ASSUME NEW k \in Nat
        PROVE  k \in Closings(u, n) <=> k \in A \cup C
    <3>1. CASE k \in 1..m
      BY <1>1, <3>1 DEF Closings, m
    <3>2. CASE k \in (m + 1)..(m + Len(t))
      <4>1. PICK j \in 1..Len(t) : j = k - m /\ k = m + j
        BY <1>1, <3>2
      <4>2. u[k] = t[j]
        BY <1>1, <4>1
      <4>3. k \notin 1..m /\ k \in 1..(m + Len(t))
        BY <1>1, <3>2
      <4> QED
        BY <1>1, <3>2, <4>1, <4>2, <4>3 DEF Closings, m
    <3>3. CASE k \notin 1..(m + Len(t))
      BY <1>1, <3>3 DEF Closings, m
    <3> QED
      BY <1>1, <3>1, <3>2, <3>3
  <2>2. Closings(u, n) \subseteq Nat /\ A \subseteq Nat /\ C \subseteq Nat
    BY <1>1 DEF Closings
  <2> HIDE DEF A, C
  <2> QED
    BY <2>1, <2>2
<1>3. A \cap C = {}
  BY <1>1 DEF Closings, m
<1>4. IsFiniteSet(A) /\ IsFiniteSet(B) /\ Count(s, n) \in Nat /\ Count(t, n) \in Nat
  BY CountType
<1>5. IsFiniteSet(C) /\ Cardinality(C) = Cardinality(B)
  <2> DEFINE f == [k \in B |-> m + k]
  <2>1. B \subseteq 1..Len(t)
    BY DEF Closings
  <2> HIDE DEF B
  <2>2. f \in [B -> C]
    BY <1>1, <2>1
  <2>3. \A j, k \in B : f[j] = f[k] => j = k
    BY <1>1, <2>1
  <2>4. ASSUME NEW k \in C
        PROVE  \E j \in B : f[j] = k
    <3>1. k - m \in B /\ f[k - m] = k
      BY <1>1, <2>1, <2>4
    <3> QED
      BY <3>1
  <2> HIDE DEF f, C
  <2>5. f \in Bijection(B, C)
    BY <2>2, <2>3, <2>4 DEF Bijection, Injection, Surjection, IsInjective
  <2> QED
    BY <1>4, <2>5, FS_Bijection DEF ExistsBijection, B
<1>6. Cardinality(A \cup C) = Cardinality(A) + Cardinality(C) - Cardinality(A \cap C)
  <2> HIDE DEF A, C
  <2> QED
    BY <1>4, <1>5, FS_Union DEF A
<1>7. Cardinality(A \cap C) = 0
  BY <1>3, FS_EmptySet
<1> HIDE DEF A, B, C
<1> QED
  BY <1>2, <1>4, <1>5, <1>6, <1>7 DEF Count, A, B, u

\* The end, or the head of an arrow from the square.
LEMMA PickArrow ==
    ASSUME NEW v \in Versions, NEW n, NEW label, pick_next(v, n, label) # End
    PROVE  \E e \in Board[v].edges : e[1] = n /\ e[3] = pick_next(v, n, label)
<1> DEFINE arrows(on) == {e \in Board[v].edges : e[1] = n /\ e[2] = on}
<1>1. ASSUME NEW on, arrows(on) # {}
      PROVE  LET e == CHOOSE f \in arrows(on) : TRUE
             IN  e \in Board[v].edges /\ e[1] = n
  <2>1. PICK e : e \in arrows(on)
    BY <1>1
  <2>2. (CHOOSE f \in arrows(on) : TRUE) \in arrows(on)
    BY <2>1, Zenon
  <2> QED
    BY <2>2
<1>2. pick_next(v, n, label) =
        CASE arrows(label) # {} -> (CHOOSE e \in arrows(label) : TRUE)[3]
          [] arrows(label) = {} /\ branches(n) /\ arrows("else") # {} ->
                (CHOOSE e \in arrows("else") : TRUE)[3]
          [] OTHER -> End
  BY Zenon DEF pick_next
<1> HIDE DEF arrows
<1>3. CASE arrows(label) # {}
  BY <1>1, <1>2, <1>3
<1>4. CASE arrows(label) = {} /\ branches(n) /\ arrows("else") # {}
  BY <1>1, <1>2, <1>4
<1> QED
  BY <1>2, <1>3, <1>4

LEMMA AheadIs ==
    ASSUME CyclesWait, NEW v \in Versions, NEW n \in Calls
    PROVE  AheadOf(v, n, Ahead(v, n))
<1>1. \E ahead \in SUBSET Squares : AheadOf(v, n, ahead)
  BY DEF CyclesWait
<1> HIDE DEF AheadOf
<1> QED
  BY <1>1 DEF Ahead

\* Rows that have counted the same.
Agree(x, y) == \A n \in Calls : y.context.visits[n] = x.context.visits[n]

\* What a run counts.
LEMMA Counts ==
    ASSUME NEW x \in Rows, NEW n \in Calls
    PROVE  x.context.visits[n] \in Nat
  BY SquaresAssumption DEF Rows, Contexts

\* The rows count what the trails show, and each visit still agrees with them.
LEMMA MovedLedger ==
    ASSUME Shape, Shape', Ledger, UNCHANGED leads,
           \A r \in Runs : Tallied(row'[r], r, trail'[r], leads),
           \A r \in Runs : \A n \in Calls :
                row'[r].context.visits[n] >= row[r].context.visits[n],
           \A w \in Walkers : Walking(visit'[w]) =>
                \/ /\ visit'[w] = visit[w]
                   /\ landed(w)' => landed(w) /\ Agree(row[visit[w].run], row'[visit[w].run])
                \/ /\ Tour(visit'[w], row'[visit'[w].run], leads)
                   /\ landed(w)' => Exact(visit'[w], row'[visit'[w].run])
    PROVE  Ledger'
<1>1. ASSUME NEW w \in Walkers, Walking(visit'[w])
      PROVE  /\ Tour(visit'[w], row'[visit'[w].run], leads)
             /\ landed(w)' => Exact(visit'[w], row'[visit'[w].run])
  <2>1. CASE /\ visit'[w] = visit[w]
             /\ landed(w)' => landed(w) /\ Agree(row[visit[w].run], row'[visit[w].run])
    <3> DEFINE v == visit[w]
    <3>1. v \in Visits /\ v.run \in Runs /\ Walking(v)
      BY <1>1, <2>1 DEF Shape, VisitTypes, Underway, Walking
    <3>2. Tour(v, row[v.run], leads)
      BY <3>1 DEF Ledger
    <3>3. Tour(v, row'[v.run], leads)
      <4>1. ASSUME NEW n \in Calls
            PROVE  v.context.visits[n] <= row'[v.run].context.visits[n]
                                            + Count(v.walked, n) + Minting(v, n)
        <5>1. /\ row[v.run].context.visits[n] \in Nat
              /\ row'[v.run].context.visits[n] \in Nat
          BY <3>1, Counts DEF Shape, RunTypes
        <5>2. Count(v.walked, n) \in Nat /\ Minting(v, n) \in Nat
          BY <3>1, CountType DEF Visits, Minting
        <5>3. v.context.visits[n] \in Nat
          BY <3>1, SquaresAssumption DEF Visits, Contexts
        <5>4. /\ v.context.visits[n] <= row[v.run].context.visits[n]
                                            + Count(v.walked, n) + Minting(v, n)
              /\ row'[v.run].context.visits[n] >= row[v.run].context.visits[n]
          BY <3>1, <3>2 DEF Tour
        <5> QED
          BY <5>1, <5>2, <5>3, <5>4
      <4> QED
        BY <3>2, <4>1 DEF Tour
    <3>4. ASSUME landed(w)'
          PROVE  Exact(v, row'[v.run])
      <4>1. Exact(v, row[v.run])
        BY <2>1, <3>1, <3>4 DEF Ledger
      <4> QED
        BY <2>1, <3>4, <4>1 DEF Exact, Agree
    <3> QED
      BY <2>1, <3>3, <3>4
  <2> QED
    BY <1>1, <2>1
<1>2. \A r \in Runs : Tallied(row'[r], r, trail'[r], leads')
  OBVIOUS
<1>3. leads' \subseteq Runs \X Calls \X Nat
  BY DEF Ledger
<1> QED
  BY <1>1, <1>2, <1>3 DEF Ledger

\* A step that counts no stay: an exit may close a square, but not as done.
LEMMA SameLedger ==
    ASSUME Shape, Shape', Ledger, UNCHANGED leads,
           \A r \in Runs : Agree(row[r], row'[r]),
           \A r \in Runs : \A n \in Calls : Count(trail'[r], n) = Count(trail[r], n),
           \A w \in Walkers : Walking(visit'[w]) =>
                \/ visit'[w] = visit[w] /\ (landed(w)' => landed(w))
                \/ /\ Tour(visit'[w], row'[visit'[w].run], leads)
                   /\ landed(w)' => Exact(visit'[w], row'[visit'[w].run])
    PROVE  Ledger'
<1>1. \A r \in Runs : Tallied(row'[r], r, trail'[r], leads)
  BY DEF Ledger, Tallied, Agree
<1>2. ASSUME NEW r \in Runs, NEW n \in Calls
      PROVE  row'[r].context.visits[n] >= row[r].context.visits[n]
  BY Counts DEF Shape, RunTypes, Agree
<1>3. ASSUME NEW w \in Walkers, Walking(visit'[w]), visit'[w] = visit[w]
      PROVE  visit[w].run \in Runs
  BY <1>3 DEF Shape, Underway, Walking
<1> QED
  BY <1>1, <1>2, <1>3, MovedLedger

\* A step of the consumers, the people or the clock.
LEMMA LeftLedger ==
    ASSUME Shape, Shape', Ledger, UNCHANGED <<leads, visit>>,
           \A r \in Runs : /\ Agree(row[r], row'[r])
                           /\ \/ row'[r].lease = row[r].lease /\ row'[r].status = row[r].status
                              \/ row'[r].lease = NoWalker,
           \A r \in Runs : \A n \in Calls : Count(trail'[r], n) = Count(trail[r], n)
    PROVE  Ledger'
<1>1. ASSUME NEW w \in Walkers, Walking(visit'[w]), landed(w)'
      PROVE  landed(w)
  BY <1>1, LeaseTells DEF Shape, Underway, Walking
<1> QED
  BY <1>1, SameLedger

\* A step of one visit that moves no run and writes no row.
LEMMA VisitLedger ==
    ASSUME Shape, Shape', Ledger, UNCHANGED <<row, trail, leads>>, NEW w \in Walkers,
           \A v \in Walkers \ {w} : visit'[v] = visit[v],
           Walking(visit'[w]) =>
                /\ visit'[w].run = visit[w].run
                /\ Tour(visit'[w], row[visit[w].run], leads)
                /\ landed(w) => Exact(visit'[w], row[visit[w].run])
    PROVE  Ledger'
<1>1. ASSUME NEW v \in Walkers, Walking(visit'[v])
      PROVE  \/ visit'[v] = visit[v] /\ (landed(v)' => landed(v))
             \/ /\ Tour(visit'[v], row'[visit'[v].run], leads)
                /\ landed(v)' => Exact(visit'[v], row'[visit'[v].run])
  <2>1. CASE v = w
    BY <1>1, <2>1 DEF landed
  <2>2. CASE v # w
    BY <1>1, <2>2 DEF landed
  <2> QED
    BY <2>1, <2>2
<1>2. \A r \in Runs : Agree(row[r], row'[r])
  BY DEF Agree
<1> QED
  BY <1>1, <1>2, SameLedger

LEMMA Widens ==
    ASSUME NEW a \in Nat, NEW b \in Nat, b >= a
    PROVE  1..(a + 1) \subseteq 1..(b + 1)
  OBVIOUS

\* A write that lands: the row has counted what the trail gains.
LEMMA LandLedger ==
    ASSUME Shape, Shape', Ledger, UNCHANGED leads, NEW w \in Walkers,
           visit[w].pc # "idle", NEW new, NEW steps \in Seq(Closed), Land(w, new, steps),
           landed(w) =>
                /\ new.lease = NoWalker
                /\ \A n \in Calls :
                    /\ new.context.visits[n] = row[visit[w].run].context.visits[n]
                                                + Count(steps, n)
                    /\ \A j \in 1..new.context.visits[n] : <<visit[w].run, n, j>> \in leads
    PROVE  Ledger'
<1> DEFINE r == visit[w].run
<1>1. /\ r \in Runs /\ visit'[w].pc = "idle"
      /\ \A v \in Walkers \ {w} : visit'[v] = visit[v]
  BY DEF Land, Shape, Underway, VisitTypes, Idle
<1>2. CASE landed(w)
  <2>1. /\ row'[r] = new /\ trail'[r] = trail[r] \o steps
        /\ \A q \in Runs \ {r} : row'[q] = row[q] /\ trail'[q] = trail[q]
    BY <1>1, <1>2 DEF Land, Shape, RunTypes
  <2>2. ASSUME NEW n \in Calls
        PROVE  /\ Count(trail'[r], n) = new.context.visits[n]
               /\ new.context.visits[n] >= row[r].context.visits[n]
               /\ \A j : <<r, n, j>> \in leads => j \in 1..(new.context.visits[n] + 1)
    <3>1. /\ trail[r] \in Seq(Closed) /\ row[r] \in Rows /\ new \in Rows
      BY <1>1, <2>1 DEF Shape, RunTypes
    <3>2. Count(trail'[r], n) = Count(trail[r], n) + Count(steps, n)
      BY <2>1, <3>1, CountCat
    <3>3. /\ Count(trail[r], n) = row[r].context.visits[n]
          /\ \A j : <<r, n, j>> \in leads => j \in 1..(row[r].context.visits[n] + 1)
      BY <1>1 DEF Ledger, Tallied
    <3>4. /\ Count(steps, n) \in Nat /\ row[r].context.visits[n] \in Nat
          /\ new.context.visits[n] \in Nat
      BY <3>1, CountType, Counts
    <3>5. new.context.visits[n] = row[r].context.visits[n] + Count(steps, n)
      BY <1>2
    <3>6. new.context.visits[n] >= row[r].context.visits[n]
      BY <3>4, <3>5
    <3>7. 1..(row[r].context.visits[n] + 1) \subseteq 1..(new.context.visits[n] + 1)
      BY <3>4, <3>6, Widens
    <3>8. Count(trail'[r], n) = new.context.visits[n]
      BY <3>2, <3>3, <3>5
    <3> HIDE DEF r
    <3> QED
      BY <3>3, <3>6, <3>7, <3>8
  <2>3. Tallied(row'[r], r, trail'[r], leads)
    BY <1>2, <2>1, <2>2 DEF Tallied
  <2>4. \A q \in Runs : Tallied(row'[q], q, trail'[q], leads)
    BY <2>1, <2>3 DEF Ledger
  <2>5. ASSUME NEW q \in Runs, NEW n \in Calls
        PROVE  row'[q].context.visits[n] >= row[q].context.visits[n]
    <3>1. CASE q = r
      BY <2>1, <2>2, <3>1
    <3>2. CASE q # r
      BY <2>1, <3>2, Counts DEF Shape, RunTypes
    <3> QED
      BY <3>1, <3>2
  <2>6. ASSUME NEW v \in Walkers, Walking(visit'[v])
        PROVE  /\ visit'[v] = visit[v]
               /\ landed(v)' => landed(v) /\ Agree(row[visit[v].run], row'[visit[v].run])
    <3>1. v # w /\ visit'[v] = visit[v] /\ visit[v].run \in Runs
      BY <1>1, <2>6 DEF Walking, Shape, Underway
    <3>2. ASSUME landed(v)'
          PROVE  visit[v].run # r
      BY <1>2, <2>1, <3>1, <3>2, NamesAssumption DEF landed
    <3> QED
      BY <2>1, <3>1, <3>2 DEF landed, Agree
  <2> QED
    BY <2>4, <2>5, <2>6, MovedLedger
<1>3. CASE ~landed(w)
  BY <1>1, <1>3, VisitLedger DEF Land, Walking
<1> QED
  BY <1>2, <1>3

\* The rows of landing writes.
LEMMA AdvanceLedger ==
    ASSUME Shape, Shape', Ledger, UNCHANGED leads, NEW w \in Walkers,
           visit[w].pc # "idle", NEW n, NEW stay, NEW context \in Contexts,
           NEW steps \in Seq(Closed), advance_run(w, n, stay, context, steps),
           landed(w) => \A m \in Calls :
                /\ context.visits[m] = row[visit[w].run].context.visits[m] + Count(steps, m)
                /\ \A j \in 1..context.visits[m] : <<visit[w].run, m, j>> \in leads
    PROVE  Ledger'
<1> DEFINE new == [row[visit[w].run] EXCEPT
                !.square = n, !.stay = stay, !.context = context,
                !.attempts = 0, !.lease = NoWalker, !.due = FALSE]
<1>1. landed(w) => new.lease = NoWalker /\ new.context = context
  BY LandedRow DEF Rows
<1>2. Land(w, new, steps)
  BY DEF advance_run
<1> HIDE DEF new
<1> QED
  BY <1>1, <1>2, LandLedger

LEMMA ExitLedger ==
    ASSUME Shape, Shape', Ledger, UNCHANGED leads, NEW w \in Walkers,
           visit[w].pc # "idle", NEW reason, NEW n, NEW context,
           NEW steps \in Seq(Closed), exit_run(w, reason, n, context, steps),
           landed(w) => \A m \in Calls :
                /\ context.visits[m] = row[visit[w].run].context.visits[m] + Count(steps, m)
                /\ \A j \in 1..context.visits[m] : <<visit[w].run, m, j>> \in leads
    PROVE  Ledger'
<1> DEFINE new == [row[visit[w].run] EXCEPT
                !.status = "exited", !.reason = reason, !.square = n,
                !.context = context, !.lease = NoWalker, !.due = FALSE]
<1>1. landed(w) => new.lease = NoWalker /\ new.context = context
  BY LandedRow DEF Rows
<1>2. Land(w, new, steps)
  BY DEF exit_run
<1> HIDE DEF new
<1> QED
  BY <1>1, <1>2, LandLedger

\* What a visit that lands has counted.
LEMMA LandedExact ==
    ASSUME Shape, Ledger, NEW w \in Walkers, Walking(visit[w])
    PROVE  /\ Tour(visit[w], row[visit[w].run], leads)
           /\ landed(w) => Exact(visit[w], row[visit[w].run])
  BY DEF Ledger

LEMMA ClaimLedger ==
    ASSUME Shape, Shape', Ledger, NEW w \in Walkers, NEW r \in Runs, ClaimDueRun(w, r)
    PROVE  Ledger'
<1>1. PICK x \in Rows : x = row[r] /\ x.status = "waiting"
  BY DEF Shape, RunTypes, ClaimDueRun, claimable
<1>2. PICK tries \in Nat, warned \in BOOLEAN :
        tries = row'[r].attempts /\ warned = customer_has_event(x.founding)
  BY DEF Shape, RunTypes, Rows, customer_has_event
<1> DEFINE new == [Idle EXCEPT !.pc = "status", !.run = r, !.version = x.version,
                     !.founding = x.founding, !.attempts = tries,
                     !.square = x.square, !.stay = x.stay,
                     !.context = x.context, !.warned = warned]
           y == [x EXCEPT !.lease = w, !.due = FALSE, !.attempts = @ + 1]
<1>3. visit' = [visit EXCEPT ![w] = new]
  BY <1>1, <1>2 DEF ClaimDueRun
<1>4. /\ new.run = r /\ new.walked = <<>> /\ new.context = x.context
      /\ new.pc = "status"
  BY DEF Idle
<1>5. row' = [row EXCEPT ![r] = y]
  <2>1. row' = [row EXCEPT ![r] =
                    [row[r] EXCEPT !.lease = w, !.due = FALSE, !.attempts = @ + 1]]
    BY DEF ClaimDueRun, Shape, RunTypes, Rows
  <2> QED
    BY <1>1, <2>1 DEF y
<1>6. y.context = x.context /\ y.lease = w
  BY <1>1 DEF Rows
<1> HIDE DEF new, y
<1>7. Tour(new, y, leads) /\ Exact(new, y)
  <2>1. ASSUME NEW n \in Calls
        PROVE  /\ Count(new.walked, n) = 0 /\ Minting(new, n) = 0
               /\ y.context.visits[n] \in Nat
               /\ \A j \in 1..x.context.visits[n] : <<r, n, j>> \in leads
    <3>1. Count(new.walked, n) = 0
      BY <1>4, CountNone
    <3> QED
      BY <1>1, <1>4, <1>6, <3>1, Counts DEF Minting, Ledger, Tallied
  <2> QED
    BY <1>4, <1>6, <2>1 DEF Tour, Exact
<1>8. /\ visit'[w] = new /\ \A v \in Walkers \ {w} : visit'[v] = visit[v]
      /\ row'[r] = y /\ \A q \in Runs \ {r} : row'[q] = row[q]
  BY <1>3, <1>5 DEF Shape, VisitTypes, RunTypes
<1>9. ASSUME NEW v \in Walkers, Walking(visit'[v])
      PROVE  \/ visit'[v] = visit[v] /\ (landed(v)' => landed(v))
             \/ /\ Tour(visit'[v], row'[visit'[v].run], leads)
                /\ landed(v)' => Exact(visit'[v], row'[visit'[v].run])
  <2>1. CASE v = w
    BY <1>4, <1>7, <1>8, <2>1
  <2>2. CASE v # w
    <3>1. visit'[v] = visit[v] /\ visit[v].run \in Runs
      BY <1>8, <1>9, <2>2 DEF Shape, Underway, Walking
    <3>2. landed(v)' => visit[v].run # r
      BY <1>6, <1>8, <2>2, <3>1 DEF landed
    <3> QED
      BY <1>8, <3>1, <3>2 DEF landed
  <2> QED
    BY <2>1, <2>2
<1>10. \A q \in Runs : Agree(row[q], row'[q])
  BY <1>1, <1>6, <1>8 DEF Agree
<1>11. UNCHANGED <<trail, leads>>
  BY DEF ClaimDueRun, outside
<1> QED
  BY <1>9, <1>10, <1>11, SameLedger

\* A visit changes its mind, or goes on to judge or to the board.
LEMMA GoLedger ==
    ASSUME Shape, Shape', Ledger, UNCHANGED <<row, trail, leads>>, NEW w \in Walkers,
           visit[w].pc # "idle",
           \/ visit[w].pc = "status" /\ Go(w, "judge")
           \/ visit[w].pc = "judge" /\ Go(w, "board")
           \/ \E verdict : Decide(w, verdict)
           \/ visit' = [visit EXCEPT ![w] = Idle]
    PROVE  Ledger'
<1>0. PICK v \in Visits : v = visit[w] /\ v.run \in Runs
  BY DEF Shape, VisitTypes, Underway
<1>1. \A u \in Walkers \ {w} : visit'[u] = visit[u]
  BY DEF Go, Decide, Shape, VisitTypes
<1>2. ASSUME NEW where \in {"judge", "board"}, Go(w, where), v.pc \in {"status", "judge"}
      PROVE  Ledger'
  <2> DEFINE new == [v EXCEPT !.pc = where]
  <2>1. visit'[w] = new
    BY <1>0, <1>2 DEF Go, Shape, VisitTypes
  <2>2. /\ new.run = v.run /\ new.walked = v.walked /\ new.square = v.square
        /\ new.context = v.context /\ new.version = v.version /\ new.pc = where
    BY <1>0 DEF Visits
  <2> HIDE DEF new
  <2>3. \A n \in Calls : Minting(new, n) = Minting(v, n)
    BY <1>2, <2>2 DEF Minting
  <2>4. Tour(v, row[v.run], leads) /\ (landed(w) => Exact(v, row[v.run]))
    BY <1>0, <1>2, LandedExact DEF Walking
  <2>5. Tour(new, row[v.run], leads) /\ (landed(w) => Exact(new, row[v.run]))
    BY <2>2, <2>3, <2>4 DEF Tour, Exact
  <2> QED
    BY <1>0, <1>1, <2>1, <2>2, <2>5, VisitLedger
<1>3. ASSUME NEW verdict, Decide(w, verdict)
      PROVE  Ledger'
  <2>1. visit'[w].pc = "write"
    BY <1>0, <1>3 DEF Decide, Shape, VisitTypes, Visits
  <2> QED
    BY <1>1, <2>1, VisitLedger DEF Walking
<1>4. CASE visit' = [visit EXCEPT ![w] = Idle]
  <2>1. visit'[w].pc = "idle"
    BY <1>4 DEF Shape, VisitTypes, Idle
  <2> QED
    BY <1>1, <2>1, VisitLedger DEF Walking
<1> QED
  BY <1>0, <1>2, <1>3, <1>4

\* A square that queues no lead counts none.
LEMMA RanLedger ==
    ASSUME Shape, Shape', Ledger, UNCHANGED <<row, trail, leads>>, NEW w \in Walkers,
           visit[w].pc = "board", visit[w].square \notin Calls,
           NEW context, context.visits = visit[w].context.visits,
           visit' = [visit EXCEPT ![w].pc = "leave", ![w].context = context]
    PROVE  Ledger'
<1>0. PICK v \in Visits : v = visit[w] /\ v.run \in Runs
  BY DEF Shape, VisitTypes, Underway
<1> DEFINE new == [v EXCEPT !.pc = "leave", !.context = context]
<1>1. visit'[w] = new /\ \A u \in Walkers \ {w} : visit'[u] = visit[u]
  BY <1>0 DEF Shape, VisitTypes, Visits
<1>2. /\ new.run = v.run /\ new.walked = v.walked /\ new.square = v.square
      /\ new.context = context /\ new.version = v.version /\ new.pc = "leave"
  BY <1>0 DEF Visits
<1> HIDE DEF new
<1>3. \A n \in Calls : Minting(new, n) = 0 /\ Minting(v, n) = 0
  BY <1>0, <1>2 DEF Minting
<1>4. Tour(v, row[v.run], leads) /\ (landed(w) => Exact(v, row[v.run]))
  BY <1>0, LandedExact DEF Walking
<1>5. Tour(new, row[v.run], leads) /\ (landed(w) => Exact(new, row[v.run]))
  BY <1>0, <1>2, <1>3, <1>4 DEF Tour, Exact
<1> QED
  BY <1>0, <1>1, <1>2, <1>5, VisitLedger

Adds(G, L, lead) == G = L \cup {lead}

\* The lead of a call square: the next one, and no later than the row allows.
LEMMA CallLedger ==
    ASSUME CyclesWait, Shape, Shape', Ledger, UNCHANGED <<row, trail>>, NEW w \in Walkers,
           visit[w].pc = "board", NEW n \in Calls, n = visit[w].square,
           Adds(leads', leads, <<visit[w].run, n, visit[w].context.visits[n] + 1>>),
           visit' = [visit EXCEPT ![w].pc = "leave", ![w].context =
                [visit[w].context EXCEPT !.visits[n] = visit[w].context.visits[n] + 1]]
    PROVE  Ledger'
<1>0. PICK v \in Visits : v = visit[w] /\ v.run \in Runs /\ v.version \in Versions
  BY DEF Shape, VisitTypes, Underway
<1> DEFINE k == v.context.visits[n] + 1
           context == [v.context EXCEPT !.visits[n] = k]
           new == [v EXCEPT !.pc = "leave", !.context = context]
           x == row[v.run]
<1>1. visit'[w] = new /\ \A u \in Walkers \ {w} : visit'[u] = visit[u]
  BY <1>0 DEF Shape, VisitTypes, Visits
<1>2. /\ new.run = v.run /\ new.walked = v.walked /\ new.square = n
      /\ new.context = context /\ new.version = v.version /\ new.pc = "leave"
  BY <1>0 DEF Visits
<1>3. /\ v.context.visits[n] \in Nat /\ k \in Nat /\ x.context.visits[n] \in Nat
      /\ \A m \in Calls : context.visits[m] = IF m = n THEN k ELSE v.context.visits[m]
  BY <1>0, SquaresAssumption, Counts DEF Visits, Contexts, Shape, RunTypes
<1> HIDE DEF new, context
<1>4. Tour(v, x, leads) /\ (landed(w) => Exact(v, x))
  BY <1>0, LandedExact DEF Walking
<1>5. Count(v.walked, n) = 0
  <2>1. n \notin Ahead(v.version, n)
    BY <1>0, AheadIs DEF AheadOf
  <2>2. \A j \in 1..Len(v.walked) : v.walked[j].square # n
    BY <1>0, <1>4, <2>1 DEF Tour
  <2> QED
    BY <2>2, CountNone
<1>6. Minting(v, n) = 0 /\ k <= x.context.visits[n] + 1
  <2>1. Minting(v, n) = 0
    BY <1>0 DEF Minting
  <2>2. v.context.visits[n] <= x.context.visits[n] + Count(v.walked, n) + Minting(v, n)
    BY <1>4 DEF Tour
  <2> QED
    BY <1>3, <1>5, <2>1, <2>2
<1> HIDE DEF x
<1>7. \A r, m, j : <<r, m, j>> \in leads' <=>
            <<r, m, j>> \in leads \/ (r = v.run /\ m = n /\ j = k)
  BY <1>0 DEF Adds
<1>8. leads' \subseteq Runs \X Calls \X Nat
  BY <1>0, <1>3 DEF Adds, Ledger
<1> HIDE DEF k
<1>9. ASSUME NEW r \in Runs
      PROVE  Tallied(row'[r], r, trail'[r], leads')
  <2>1. Tallied(row[r], r, trail[r], leads)
    BY DEF Ledger
  <2>2. r = v.run => k \in 1..(row[r].context.visits[n] + 1)
    <3>1. k >= 1
      BY <1>3 DEF k
    <3> QED
      BY <1>3, <1>6, <3>1 DEF x
  <2> QED
    BY <1>7, <2>1, <2>2 DEF Tallied
<1>10. ASSUME NEW u \in Visits, NEW y, Tour(u, y, leads)
       PROVE  Tour(u, y, leads')
  BY <1>7, <1>10 DEF Tour
<1>11. \A m \in Calls :
            Minting(new, m) = IF m = n THEN 1 ELSE Minting(v, m)
  BY <1>0, <1>2 DEF Minting
<1>12. Tour(new, x, leads')
  <2>1. ASSUME NEW m \in Calls, m # n
        PROVE  /\ new.context.visits[m] <= x.context.visits[m]
                                        + Count(new.walked, m) + Minting(new, m)
               /\ \A j \in 1..new.context.visits[m] : <<new.run, m, j>> \in leads'
               /\ \A j \in 1..Len(new.walked) :
                    new.walked[j].square = m => new.square \in Ahead(new.version, m)
    BY <1>0, <1>2, <1>3, <1>4, <1>7, <1>11, <2>1 DEF Tour
  <2>2. new.context.visits[n] <= x.context.visits[n]
                                        + Count(new.walked, n) + Minting(new, n)
    <3>1. new.context.visits[n] = k /\ Count(new.walked, n) = 0 /\ Minting(new, n) = 1
      BY <1>2, <1>3, <1>5, <1>11
    <3> QED
      BY <1>3, <1>6, <3>1
  <2>3. \A j \in 1..new.context.visits[n] : <<new.run, n, j>> \in leads'
    <3>1. TAKE j \in 1..new.context.visits[n]
    <3>2. j \in 1..v.context.visits[n] \/ j = k
      BY <1>2, <1>3 DEF k
    <3> QED
      BY <1>2, <1>4, <1>7, <3>2 DEF Tour
  <2>4. \A j \in 1..Len(new.walked) :
            new.walked[j].square = n => new.square \in Ahead(new.version, n)
    BY <1>0, <1>2, <1>4 DEF Tour
  <2> QED
    BY <2>1, <2>2, <2>3, <2>4 DEF Tour
<1>13. ASSUME landed(w)
       PROVE  Exact(new, x)
  <2>1. ASSUME NEW m \in Calls
        PROVE  new.context.visits[m] = x.context.visits[m]
                                        + Count(new.walked, m) + Minting(new, m)
    <3>1. v.context.visits[m] = x.context.visits[m] + Count(v.walked, m) + Minting(v, m)
      BY <1>4, <1>13 DEF Exact
    <3>2. CASE m = n
      <4>1. k = x.context.visits[n] + 1
        BY <1>3, <1>5, <1>6, <3>1, <3>2 DEF k
      <4> QED
        BY <1>2, <1>3, <1>5, <1>11, <3>2, <4>1
    <3>3. CASE m # n
      BY <1>2, <1>3, <1>11, <3>1, <3>3
    <3> QED
      BY <3>2, <3>3
  <2> QED
    BY <2>1 DEF Exact
<1>14. ASSUME NEW u \in Walkers, Walking(visit'[u])
       PROVE  /\ Tour(visit'[u], row'[visit'[u].run], leads')
              /\ landed(u)' => Exact(visit'[u], row'[visit'[u].run])
  <2>1. CASE u = w
    BY <1>0, <1>1, <1>2, <1>12, <1>13, <2>1 DEF x, landed
  <2>2. CASE u # w
    <3>1. visit'[u] = visit[u] /\ visit[u] \in Visits /\ Walking(visit[u])
      BY <1>1, <1>14, <2>2 DEF Shape, VisitTypes
    <3>2. landed(u)' => landed(u)
      BY <3>1 DEF landed
    <3> QED
      BY <1>10, <3>1, <3>2, LandedExact
  <2> QED
    BY <2>1, <2>2
<1> QED
  BY <1>8, <1>9, <1>14 DEF Ledger

LEMMA ExecuteLedger ==
    ASSUME CyclesWait, Shape, Shape', Ledger, NEW w \in Walkers, ExecuteSquare(w)
    PROVE  Ledger'
<1> DEFINE v == visit[w]
           n == v.square
<1>1. /\ v.context \in Contexts /\ v.pc = "board" /\ UNCHANGED <<row, trail>>
  BY DEF Shape, VisitTypes, Visits, ExecuteSquare
<1>2. CASE n \in Calls
  <2>1. /\ leads' = leads \cup {<<v.run, n, v.context.visits[n] + 1>>}
        /\ visit' = [visit EXCEPT ![w].pc = "leave", ![w].context =
                [v.context EXCEPT !.visits[n] = v.context.visits[n] + 1]]
    BY <1>2, SquaresAssumption DEF ExecuteSquare, Rules, next_visit
  <2>2. Adds(leads', leads, <<v.run, n, v.context.visits[n] + 1>>)
    BY <2>1 DEF Adds
  <2> QED
    BY <1>1, <1>2, <2>1, <2>2, CallLedger
<1>3. CASE n \in Sends
  BY <1>1, <1>3, SquaresAssumption, RanLedger DEF ExecuteSquare, Rules
<1>4. CASE n \in Rules
  <2>1. PICK label :
            visit' = [visit EXCEPT ![w].pc = "leave", ![w].context =
                [v.context EXCEPT !.reply[n] = label]]
    BY <1>4 DEF ExecuteSquare, Rules
  <2>2. [v.context EXCEPT !.reply[n] = label].visits = v.context.visits
    BY <1>1 DEF Contexts
  <2>3. n \notin Calls /\ UNCHANGED leads
    BY <1>4 DEF ExecuteSquare, Rules
  <2> QED
    BY <1>1, <2>1, <2>2, <2>3, RanLedger
<1> QED
  BY <1>2, <1>3, <1>4 DEF ExecuteSquare

\* The square a visit leaves is counted as the lead it minted was.
LEMMA LeaveCounts ==
    ASSUME NEW v \in Visits, v.pc = "leave" \/ (v.pc = "board" /\ v.square \in Waits),
           NEW label, ~branches(v.square) => label = "next",
           NEW e \in Closed, e.square = v.square, e.outcome = label, NEW n \in Calls
    PROVE  Count(Append(v.walked, e), n) = Count(v.walked, n) + Minting(v, n)
<1>1. v.walked \in Seq(Closed) /\ Count(v.walked, n) \in Nat
  BY CountType DEF Visits
<1>2. CASE v.square = n
  <2>1. n \notin Waits /\ ~branches(n)
    BY SquaresAssumption DEF branches, Rules, Waits
  <2>2. Minting(v, n) = 1 /\ label = "next"
    BY <1>2, <2>1 DEF Minting
  <2> QED
    BY <1>1, <1>2, <2>2, CountAdd
<1>3. CASE v.square # n
  BY <1>1, <1>3, CountAdd DEF Minting
<1> QED
  BY <1>2, <1>3

\* A call that a walk has passed stays behind it.
LEMMA WalkOnTour ==
    ASSUME CyclesWait, NEW v \in Visits, v.version \in Versions, NEW x, NEW L, Tour(v, x, L),
           NEW label, NEW next, next = pick_next(v.version, v.square, label),
           walksOnto(next), NEW e \in Closed, e.square = v.square,
           NEW n \in Calls, NEW k \in 1..Len(Append(v.walked, e)),
           Append(v.walked, e)[k].square = n
    PROVE  next \in Ahead(v.version, n)
<1>1. next # End
  BY SquaresAssumption DEF walksOnto, Waits
<1>2. PICK a \in Board[v.version].edges : a[1] = v.square /\ a[3] = next
  BY <1>1, PickArrow
<1>3. AheadOf(v.version, n, Ahead(v.version, n))
  BY AheadIs
<1>4. v.square \in Ahead(v.version, n) \cup {n}
  <2>1. /\ v.walked \in Seq(Closed) /\ Len(Append(v.walked, e)) = Len(v.walked) + 1
        /\ \A j \in 1..Len(v.walked) : Append(v.walked, e)[j] = v.walked[j]
        /\ Append(v.walked, e)[Len(v.walked) + 1] = e /\ Len(v.walked) \in Nat
    BY AddAt DEF Visits
  <2>2. CASE k \in 1..Len(v.walked)
    BY <2>1, <2>2 DEF Tour
  <2>3. CASE k = Len(v.walked) + 1
    BY <2>1, <2>3
  <2> QED
    BY <2>1, <2>2, <2>3
<1> QED
  BY <1>2, <1>3, <1>4 DEF AheadOf

LEMMA LeaveLedger ==
    ASSUME CyclesWait, Shape, Shape', Ledger, NEW w \in Walkers, LeaveSquare(w)
    PROVE  Ledger'
<1> DEFINE n == visit[w].square
           answer == visit[w].context.reply[n]
           label == IF ~branches(n) THEN "next"
                    ELSE IF answer = NoReply THEN "timeout" ELSE answer
           next == pick_next(visit[w].version, n, label)
           context == IF branches(n) THEN without_reply(visit[w].context, n)
                      ELSE visit[w].context
           step == closed(visit[w].stay, n, label, next)
           walked == Append(visit[w].walked, step)
<1>0. PICK v \in Visits :
        /\ v = visit[w] /\ v.run \in Runs /\ v.version \in Versions
        /\ v.pc = "leave" \/ (v.pc = "board" /\ v.square \in Waits)
  <2>1. visit[w].pc = "leave" \/ (visit[w].pc = "board" /\ visit[w].square \in Waits)
    BY DEF LeaveSquare
  <2> QED
    BY <2>1 DEF Shape, VisitTypes, Underway
<1>1. label \in Outcomes
  <2>1. ASSUME branches(n)
        PROVE  answer \in Answers
    <3>1. n \in Squares
      BY <2>1, SquaresAssumption DEF branches, Rules
    <3> QED
      BY <1>0, <3>1 DEF Visits, Contexts
  <2> QED
    BY <2>1 DEF Outcomes
<1>2. next \in Squares \cup {End}
  BY <1>0, PickNext
<1>3. context \in Contexts /\ context.visits = v.context.visits
  BY <1>0 DEF Visits, Contexts, without_reply, Answers
<1>4. /\ step \in Closed /\ step.square = n /\ step.outcome = label
      /\ v.walked \in Seq(Closed) /\ n = v.square
  BY <1>0, <1>1, <1>2 DEF closed, Closed, Visits
<1>5. walked \in Seq(Closed) /\ walked = Append(v.walked, step)
  BY <1>0, <1>4, AddAt
<1>6. /\ Walking(v) /\ Tour(v, row[v.run], leads)
      /\ landed(w) => Exact(v, row[v.run])
  BY <1>0, LandedExact DEF Walking
<1>7. \A m \in Calls : Count(walked, m) = Count(v.walked, m) + Minting(v, m)
  <2>1. ~branches(v.square) => label = "next"
    BY <1>0
  <2> HIDE DEF label, step, walked, n
  <2> QED
    BY <1>0, <1>4, <1>5, <2>1, LeaveCounts
<1>8. landed(w) => \A m \in Calls :
        /\ context.visits[m] = row[v.run].context.visits[m] + Count(walked, m)
        /\ \A j \in 1..context.visits[m] : <<v.run, m, j>> \in leads
  <2> HIDE DEF context, walked
  <2>1. ASSUME landed(w), NEW m \in Calls
        PROVE  /\ context.visits[m] = row[v.run].context.visits[m] + Count(walked, m)
               /\ \A j \in 1..context.visits[m] : <<v.run, m, j>> \in leads
    <3>1. /\ Count(v.walked, m) \in Nat /\ Minting(v, m) \in Nat
          /\ row[v.run].context.visits[m] \in Nat
      BY <1>0, CountType, Counts DEF Visits, Minting, Shape, RunTypes
    <3>2. v.context.visits[m]
            = row[v.run].context.visits[m] + Count(v.walked, m) + Minting(v, m)
      BY <1>6, <2>1 DEF Exact
    <3>3. \A j \in 1..v.context.visits[m] : <<v.run, m, j>> \in leads
      BY <1>6 DEF Tour
    <3> QED
      BY <1>3, <1>7, <3>1, <3>2, <3>3
  <2> QED
    BY <2>1
<1>9. /\ \/ exit_run(w, "completed", n, context, walked)
         \/ advance_run(w, next, v.stay + 1, context, walked)
         \/ /\ walksOnto(next)
            /\ \E pc \in {"write", "board"}, verdict \in {"parked", "none"} :
               visit' = [visit EXCEPT ![w] =
                   [v EXCEPT !.square = next, !.stay = @ + 1, !.context = context,
                             !.walked = walked, !.pc = pc, !.verdict = verdict]]
            /\ UNCHANGED <<row, trail>>
      /\ UNCHANGED leads
  BY <1>0 DEF LeaveSquare, walksOnto, outside
<1>10. ASSUME NEW pc \in {"write", "board"}, NEW verdict \in {"parked", "none"},
              walksOnto(next), UNCHANGED <<row, trail>>,
              visit' = [visit EXCEPT ![w] =
                   [v EXCEPT !.square = next, !.stay = @ + 1, !.context = context,
                             !.walked = walked, !.pc = pc, !.verdict = verdict]]
       PROVE  Ledger'
  <2>1. \A m \in Calls : \A k \in 1..Len(walked) :
            walked[k].square = m => next \in Ahead(v.version, m)
    <3>1. next = pick_next(v.version, v.square, label)
      BY <1>0
    <3> HIDE DEF next, label, step, walked, n
    <3> QED
      BY <1>0, <1>4, <1>5, <1>6, <1>10, <3>1, WalkOnTour
  <2> HIDE DEF next, context, walked, label, answer, step
  <2> DEFINE new == [v EXCEPT !.square = next, !.stay = @ + 1, !.context = context,
                              !.walked = walked, !.pc = pc, !.verdict = verdict]
  <2>2. visit'[w] = new /\ \A u \in Walkers \ {w} : visit'[u] = visit[u]
    BY <1>10 DEF Shape, VisitTypes
  <2>3. /\ new.run = v.run /\ new.walked = walked /\ new.version = v.version
        /\ new.square = next /\ new.context = context /\ new.pc = pc
    BY <1>0 DEF Visits
  <2> HIDE DEF new
  <2>4. \A m \in Calls :
          /\ row[v.run].context.visits[m] \in Nat
          /\ Count(v.walked, m) \in Nat /\ Minting(v, m) \in Nat
    BY <1>0, <1>4, CountType, Counts DEF Minting, Shape, RunTypes
  <2>5. \A m \in Calls :
          Minting(new, m) = 0 /\ Count(new.walked, m) = Count(v.walked, m) + Minting(v, m)
    BY <1>7, <1>10, <2>3 DEF Minting
  <2>6. \A m \in Calls :
          row[v.run].context.visits[m] + Count(new.walked, m) + Minting(new, m)
            = row[v.run].context.visits[m] + Count(v.walked, m) + Minting(v, m)
    BY <2>4, <2>5
  <2>7. Tour(new, row[v.run], leads)
    BY <1>3, <1>6, <2>1, <2>3, <2>6 DEF Tour
  <2>8. landed(w) => Exact(new, row[v.run])
    BY <1>3, <1>6, <2>3, <2>6 DEF Exact
  <2> QED
    BY <1>0, <1>9, <1>10, <2>2, <2>3, <2>7, <2>8, VisitLedger
<1> HIDE DEF next, context, walked, label, answer, step
<1>11. CASE exit_run(w, "completed", n, context, walked)
  BY <1>0, <1>5, <1>8, <1>9, <1>11, ExitLedger
<1>12. CASE advance_run(w, next, v.stay + 1, context, walked)
  BY <1>0, <1>3, <1>5, <1>8, <1>9, <1>12, AdvanceLedger
<1> QED
  BY <1>9, <1>10, <1>11, <1>12

LEMMA HoldLedger ==
    ASSUME Shape, Shape', Ledger, NEW w \in Walkers, HoldForWindow(w)
    PROVE  Ledger'
<1>0. PICK v \in Visits : v = visit[w] /\ v.run \in Runs /\ v.pc = "board"
  BY DEF Shape, VisitTypes, Underway, HoldForWindow
<1>1. /\ v.context \in Contexts /\ v.walked \in Seq(Closed) /\ v.square \in Windowed
      /\ advance_run(w, v.square, v.stay, v.context, v.walked) /\ UNCHANGED leads
  BY <1>0 DEF HoldForWindow, outside, Visits
<1>2. ASSUME landed(w), NEW m \in Calls
      PROVE  /\ v.context.visits[m] = row[v.run].context.visits[m] + Count(v.walked, m)
             /\ \A j \in 1..v.context.visits[m] : <<v.run, m, j>> \in leads
  <2>1. Tour(v, row[v.run], leads) /\ Exact(v, row[v.run])
    BY <1>0, <1>2, LandedExact DEF Walking
  <2>2. /\ Count(v.walked, m) \in Nat /\ Minting(v, m) = 0
        /\ row[v.run].context.visits[m] \in Nat
    BY <1>0, <1>1, CountType, Counts DEF Minting, Shape, RunTypes
  <2> QED
    BY <2>1, <2>2 DEF Tour, Exact
<1> QED
  BY <1>0, <1>1, <1>2, AdvanceLedger

\* A square that an exit closes was not left.
LEMMA ClosingCounts ==
    ASSUME NEW square \in Squares \cup {End}, NEW stay \in Nat, NEW seen,
           seen.square = square, seen.stay = stay, NEW outcome \in ExitReasons
    PROVE  /\ closing(seen, outcome) \in Seq(Closed)
           /\ \A n : Count(closing(seen, outcome), n) = 0
<1>1. closing(seen, outcome) \in Seq(Closed)
  BY ClosingShape DEF Outcomes
<1>2. PICK u : u = closing(seen, outcome)
  OBVIOUS
<1>3. \A k \in 1..Len(u) : u[k].outcome # "next"
  BY <1>2 DEF closing, closed, ExitReasons
<1>4. \A n : Count(u, n) = 0
  BY <1>3, CountNone
<1> QED
  BY <1>1, <1>2, <1>4

\* The row of a visit keeps what it counted.
Keeps(context, steps, w) ==
    \A m \in Calls :
        /\ context.visits[m] = row[visit[w].run].context.visits[m] + Count(steps, m)
        /\ \A j \in 1..context.visits[m] : <<visit[w].run, m, j>> \in leads

LEMMA WriteLedger ==
    ASSUME Shape, Shape', Ledger, NEW w \in Walkers, WriteVerdict(w)
    PROVE  Ledger'
<1>0. PICK v \in Visits : v = visit[w] /\ v.run \in Runs /\ v.pc = "write"
  BY DEF Shape, VisitTypes, Underway, WriteVerdict
<1>1. PICK x \in Rows : x = row[v.run] /\ UNCHANGED leads
  BY <1>0 DEF Shape, RunTypes, WriteVerdict, outside
<1>2. ASSUME NEW steps, \A m \in Calls : Count(steps, m) = 0
      PROVE  Keeps(x.context, steps, w)
  BY <1>0, <1>1, <1>2, Counts DEF Ledger, Tallied, Keeps
<1>3. CASE /\ v.verdict \in ExitReasons
           /\ exit_run(w, v.verdict, row[v.run].square, row[v.run].context,
                       closing(v, v.verdict))
  <2>1. PICK u : u = closing(v, v.verdict)
    OBVIOUS
  <2>2. v.square \in Squares \cup {End} /\ v.stay \in Nat
    BY DEF Visits
  <2>3. u \in Seq(Closed) /\ \A m \in Calls : Count(u, m) = 0
    BY <1>3, <2>1, <2>2, ClosingCounts
  <2>4. exit_run(w, v.verdict, x.square, x.context, u)
    BY <1>1, <1>3, <2>1
  <2>5. Keeps(x.context, u, w)
    BY <1>2, <2>3
  <2> QED
    BY <1>0, <1>1, <2>3, <2>4, <2>5, ExitLedger DEF Keeps
<1>4. ASSUME NEW new, Land(w, new, <<>>),
             landed(w) => new.lease = NoWalker /\ new.context = x.context
      PROVE  Ledger'
  <2>1. <<>> \in Seq(Closed) /\ \A m \in Calls : Count(<<>>, m) = 0
    BY CountNone
  <2>2. Keeps(x.context, <<>>, w)
    BY <1>2, <2>1
  <2> QED
    BY <1>0, <1>1, <1>4, <2>1, <2>2, LandLedger DEF Keeps
<1>5. CASE Land(w, [row[v.run] EXCEPT !.status = "parked", !.due = FALSE,
                                      !.lease = NoWalker], <<>>)
  BY <1>1, <1>4, <1>5 DEF Rows
<1>6. CASE Land(w, [row[v.run] EXCEPT !.due = FALSE, !.lease = NoWalker], <<>>)
  BY <1>1, <1>4, <1>6 DEF Rows
<1> QED
  BY <1>0, <1>3, <1>5, <1>6 DEF WriteVerdict

LEMMA WalkerLedger ==
    ASSUME CyclesWait, Shape, Shape', Ledger, NEW w \in Walkers,
           Claim(w) \/ Walk(w) \/ FailVisit(w) \/ DropVisit(w)
    PROVE  Ledger'
<1>1. ASSUME Claim(w)
      PROVE  Ledger'
  BY <1>1, ClaimLedger DEF Claim
<1>2. ASSUME ReadStatus(w)
      PROVE  Ledger'
  BY <1>2, GoLedger DEF ReadStatus, outside
<1>3. ASSUME JudgeExits(w)
      PROVE  Ledger'
  BY <1>3, GoLedger DEF JudgeExits, outside
<1>4. ASSUME ParkOffBoard(w) \/ FailVisit(w) \/ DropVisit(w)
      PROVE  Ledger'
  BY <1>4, GoLedger DEF ParkOffBoard, FailVisit, DropVisit, outside
<1> QED
  BY <1>1, <1>2, <1>3, <1>4, ExecuteLedger, LeaveLedger, HoldLedger, WriteLedger
     DEF Walk

\* One row is written that counts no more, and no visit gains it.
LEMMA OneLedger ==
    ASSUME Shape, Shape', Ledger, UNCHANGED <<trail, leads, visit>>, NEW r \in Runs, NEW new,
           row' = [row EXCEPT ![r] = new], Agree(row[r], new),
           \/ new.lease = row[r].lease /\ new.status = row[r].status
           \/ new.lease = NoWalker
    PROVE  Ledger'
<1>1. row'[r] = new /\ \A q \in Runs \ {r} : row'[q] = row[q]
  BY DEF Shape, RunTypes
<1> QED
  BY <1>1, LeftLedger DEF Agree

LEMMA StillLedger ==
    ASSUME Shape, Shape', Ledger, UNCHANGED <<row, trail, leads, visit>>
    PROVE  Ledger'
  BY LeftLedger DEF Agree

LEMMA WokenLedger ==
    ASSUME Shape, Shape', Ledger, UNCHANGED <<trail, leads, visit>>, NEW r \in Runs,
           row' = [row EXCEPT ![r] = woken(row[r])]
    PROVE  Ledger'
<1>1. row[r] \in Rows
  BY DEF Shape, RunTypes
<1>2. woken(row[r]).context = row[r].context /\ woken(row[r]).lease = NoWalker
  BY <1>1 DEF woken, Rows
<1> QED
  BY <1>2, OneLedger DEF Agree

LEMMA GoalLedger ==
    ASSUME Shape, Shape', Ledger, NEW l \in Letters, EndOnGoal(l)
    PROVE  Ledger'
<1> DEFINE r == hand[l].run
           seen == hand[l].seen
<1>0. /\ r \in Runs /\ UNCHANGED <<visit, leads>>
      /\ seen.square \in Squares \cup {End} /\ seen.stay \in Nat
  BY DEF Shape, Held, EndOnGoal, outside, HandTypes, Hands, Seen
<1>1. CASE l \in Goals /\ ended(l, r)
  <2>1. /\ row' = [row EXCEPT ![r].status = "exited", ![r].reason = "goal_met",
                              ![r].due = FALSE, ![r].lease = NoWalker]
        /\ \/ trail' = trail
           \/ trail' = [trail EXCEPT ![r] = trail[r] \o closing(seen, "goal_met")]
    BY <1>1 DEF EndOnGoal
  <2>2. /\ row'[r].context = row[r].context /\ row'[r].lease = NoWalker
        /\ \A q \in Runs \ {r} : row'[q] = row[q]
    BY <1>0, <2>1 DEF Shape, RunTypes, Rows
  <2>3. \A n \in Calls :
            Count(trail[r] \o closing(seen, "goal_met"), n) = Count(trail[r], n)
    <3>1. trail[r] \in Seq(Closed) /\ "goal_met" \in ExitReasons
      BY <1>0 DEF Shape, RunTypes, ExitReasons
    <3>2. PICK t, u : t = trail[r] /\ u = closing(seen, "goal_met")
      BY <3>1
    <3>3. /\ t \in Seq(Closed) /\ u \in Seq(Closed)
          /\ \A n \in Calls : Count(u, n) = 0
      <4> HIDE DEF seen
      <4> QED
        BY <1>0, <3>1, <3>2, ClosingCounts
    <3>4. \A n \in Calls : Count(t \o u, n) = Count(t, n)
      BY <3>3, CountCat, CountType
    <3> QED
      BY <3>2, <3>4
  <2>4. \A q \in Runs : \A n \in Calls : Count(trail'[q], n) = Count(trail[q], n)
    BY <1>0, <2>1, <2>3 DEF Shape, RunTypes
  <2> QED
    BY <1>0, <2>2, <2>4, LeftLedger DEF Agree
<1>2. CASE ~(l \in Goals /\ ended(l, r))
  BY <1>0, <1>2, StillLedger DEF EndOnGoal
<1> QED
  BY <1>1, <1>2

LEMMA WakeLedger ==
    ASSUME Shape, Shape', Ledger, NEW l \in Letters, WakeOnReply(l)
    PROVE  Ledger'
<1> DEFINE r == hand[l].run
<1>0. r \in Runs /\ UNCHANGED <<visit, trail, leads>>
  BY DEF Shape, Held, WakeOnReply
<1>1. PICK n : n = ears(hand[l].seen.version, l)[hand[l].at]
  OBVIOUS
<1>2. CASE resumes(l, r, n)
  <2>1. PICK x \in Rows : x = row[r] /\ IsOpen(x)
    BY <1>0, <1>2 DEF Shape, RunTypes, resumes, Open, IsOpen
  <2>2. PICK y \in Rows : y = woken(x) /\ y.lease = NoWalker /\ y.context = x.context
    <3>1. woken(x) \in Rows /\ woken(x).lease = NoWalker
      BY <2>1, WokenStill
    <3>2. woken(x).context = x.context
      BY DEF woken, Rows
    <3> QED
      BY <3>1, <3>2
  <2> DEFINE new == [y EXCEPT !.context.reply[n] = Says[l]]
  <2>3. row' = [row EXCEPT ![r] = new]
    BY <1>1, <1>2, <2>1, <2>2 DEF WakeOnReply
  <2>4. new.context.visits = x.context.visits /\ new.lease = NoWalker
    BY <2>2 DEF Rows, Contexts
  <2> HIDE DEF new
  <2> QED
    BY <1>0, <2>1, <2>3, <2>4, OneLedger DEF Agree
<1>3. CASE ~resumes(l, r, n)
  BY <1>0, <1>1, <1>3, StillLedger DEF WakeOnReply
<1> QED
  BY <1>2, <1>3

LEMMA PatchLedger ==
    ASSUME Shape, Shape', Ledger, NEW l \in Letters, PatchOpenRun(l)
    PROVE  Ledger'
<1>0. UNCHANGED <<trail, leads, visit>>
  BY DEF PatchOpenRun, outside
<1>1. CASE UNCHANGED row
  BY <1>0, <1>1, StillLedger
<1>2. ASSUME NEW r \in Runs,
             \/ row' = [row EXCEPT ![r].context.repeats = @ \cup {l}]
             \/ row' = [row EXCEPT ![r].context.repeats = @ \cup {l},
                                   ![r].due = FALSE, ![r].lease = NoWalker]
      PROVE  Ledger'
  <2>1. PICK x \in Rows : x = row[r]
    BY DEF Shape, RunTypes
  <2>2. /\ row'[r].context.visits = x.context.visits /\ row'[r].status = x.status
        /\ row'[r].lease = x.lease \/ row'[r].lease = NoWalker
    BY <1>2, <2>1 DEF Shape, RunTypes, Rows, Contexts
  <2>3. \A q \in Runs \ {r} : row'[q] = row[q]
    BY <1>2 DEF Shape, RunTypes
  <2> QED
    BY <1>0, <2>1, <2>2, <2>3, LeftLedger DEF Agree
<1> QED
  BY <1>1, <1>2 DEF PatchOpenRun

\* A run that is founded has closed no square and counted none.
LEMMA EnrolLedger ==
    ASSUME Shape, Shape', Track, Ledger, NEW l \in Letters, Enrol(l)
    PROVE  Ledger'
<1>0. UNCHANGED <<trail, leads, visit>>
  BY DEF Enrol, outside
<1>1. CASE UNCHANGED row
  BY <1>0, <1>1, StillLedger
<1>2. ASSUME NEW r \in Runs, row[r].status = "none", NEW v,
             row' = [row EXCEPT ![r] =
                    [NoRow EXCEPT !.status = "waiting", !.version = v, !.stay = 1,
                                  !.square = Board[v].door.start, !.founding = l,
                                  !.due = Board[v].door.start \notin Waits]]
      PROVE  Ledger'
  <2> DEFINE new == [NoRow EXCEPT !.status = "waiting", !.version = v, !.stay = 1,
                                  !.square = Board[v].door.start, !.founding = l,
                                  !.due = Board[v].door.start \notin Waits]
  <2>1. new.context = NoContext /\ new.lease = NoWalker
    BY DEF NoRow
  <2>2. row' = [row EXCEPT ![r] = new]
    BY <1>2
  <2> HIDE DEF new
  <2>3. trail[r] = <<>>
    BY <1>2 DEF Track, Stands
  <2>4. \A n \in Calls : row[r].context.visits[n] = 0 /\ NoContext.visits[n] = 0
    <3>1. TAKE n \in Calls
    <3>2. Count(trail[r], n) = 0
      BY <2>3, CountNone
    <3> QED
      BY <3>2, SquaresAssumption DEF Ledger, Tallied, NoContext
  <2>5. Agree(row[r], new)
    BY <2>1, <2>4 DEF Agree
  <2> QED
    BY <1>0, <2>1, <2>2, <2>5, OneLedger
<1> QED
  BY <1>1, <1>2 DEF Enrol

LEMMA LettersLedger ==
    ASSUME Shape, Shape', Track, Ledger, NEW l \in Letters, Consume(l) \/ ReturnLetter(l)
    PROVE  Ledger'
<1>1. ASSUME RefreshRunFacts(l)
      PROVE  Ledger'
  <2>1. hand[l].run \in Runs /\ UNCHANGED <<trail, leads, visit>>
    BY <1>1 DEF Shape, Held, RefreshRunFacts, outside
  <2> QED
    BY <1>1, <2>1, StillLedger, WokenLedger DEF RefreshRunFacts
<1>2. ASSUME ReadOpenRuns(l) \/ ReadDoors(l) \/ StampLetter(l) \/ ReturnLetter(l)
      PROVE  Ledger'
  <2>1. UNCHANGED <<row, trail, leads, visit>>
    BY <1>2 DEF ReadOpenRuns, ReadDoors, StampLetter, ReturnLetter, outside
  <2> QED
    BY <2>1, StillLedger
<1> QED
  BY <1>1, <1>2, GoalLedger, WakeLedger, EnrolLedger, PatchLedger DEF Consume

LEMMA PeopleLedger ==
    ASSUME Shape, Shape', Ledger, People
    PROVE  Ledger'
<1>1. UNCHANGED <<trail, leads, visit>>
  BY DEF People, SetStatus, PublishWorkflow, MigrateForward, ResumeRun, outside
<1>2. CASE UNCHANGED row
  BY <1>1, <1>2, StillLedger
<1>3. ASSUME NEW from, NEW to, row' = repinned(from, to)
      PROVE  Ledger'
  <2>1. ASSUME NEW r \in Runs
        PROVE  /\ Agree(row[r], row'[r])
               /\ row'[r].lease = row[r].lease /\ row'[r].status = row[r].status
    <3>1. row[r] \in Rows
      BY DEF Shape, RunTypes
    <3>2. row'[r] = row[r] \/ row'[r] = [row[r] EXCEPT !.version = to]
      BY <1>3 DEF repinned
    <3> QED
      BY <3>1, <3>2 DEF Rows, Agree
  <2> QED
    BY <1>1, <2>1, LeftLedger
<1>4. ASSUME NEW r \in Runs, ResumeRun(r)
      PROVE  Ledger'
  BY <1>1, <1>4, WokenLedger DEF ResumeRun
<1> QED
  BY <1>2, <1>3, <1>4 DEF People, SetStatus, PublishWorkflow, MigrateForward

LEMMA DueLedger ==
    ASSUME Shape, Shape', Ledger, NEW r \in Runs, ComeDue(r)
    PROVE  Ledger'
<1>1. row[r] \in Rows /\ row' = [row EXCEPT ![r].due = TRUE]
  BY DEF ComeDue, Shape, RunTypes
<1>2. \A q \in Runs : /\ Agree(row[q], row'[q])
                      /\ row'[q].lease = row[q].lease /\ row'[q].status = row[q].status
  BY <1>1 DEF Agree, Rows, Shape, RunTypes
<1> QED
  BY <1>2, LeftLedger DEF ComeDue, outside

LEMMA LedgerInit ==
    ASSUME Init
    PROVE  Ledger
<1>1. ASSUME NEW r \in Runs
      PROVE  Tallied(row[r], r, trail[r], leads)
  <2>1. trail[r] = <<>> /\ leads = {} /\ row[r].context = NoContext
    BY DEF Init, NoRow
  <2>2. \A n \in Calls : Count(trail[r], n) = 0 /\ NoContext.visits[n] = 0
    BY <2>1, CountNone, SquaresAssumption DEF NoContext
  <2> QED
    BY <2>1, <2>2 DEF Tallied
<1>2. leads = {} /\ \A w \in Walkers : ~Walking(visit[w])
  BY DEF Init, Idle, Walking
<1> QED
  BY <1>1, <1>2 DEF Ledger

LEMMA LedgerKept ==
    ASSUME CyclesWait, Shape, Shape', Track, Ledger, [Next]_vars
    PROVE  Ledger'
<1>1. CASE UNCHANGED vars
  BY <1>1, StillLedger DEF vars, outside
<1> QED
  BY <1>1, WalkerLedger, DueLedger, LettersLedger, PeopleLedger DEF Next

\* On a board where every way from a call back to it has a wait, no visit that
\* is retried, raced, refused or cut off makes a second lead of a stay, and no
\* later stay goes without its own.
THEOREM LeadsNumberStays == ASSUME CyclesWait PROVE Spec => []OneLeadPerStay
<1>1. Shape /\ Ledger => OneLeadPerStay
  <2> SUFFICES ASSUME Shape, Ledger, NEW r \in Runs, NEW n \in Calls
               PROVE  LET minted == {lead[3] : lead \in {x \in leads : x[1] = r /\ x[2] = n}}
                          stays == {k \in 1..Len(trail[r]) : trail[r][k].square = n
                                                    /\ trail[r][k].outcome = "next"}
                      IN  /\ minted = 1..Cardinality(minted)
                          /\ Cardinality(minted) \in {Cardinality(stays), Cardinality(stays) + 1}
    BY DEF OneLeadPerStay
  <2> DEFINE minted == {lead[3] : lead \in {x \in leads : x[1] = r /\ x[2] = n}}
  <2>1. PICK k \in Nat : k = row[r].context.visits[n] /\ k = Count(trail[r], n)
    BY Counts DEF Shape, RunTypes, Ledger, Tallied
  <2>2. \A j : j \in minted <=> <<r, n, j>> \in leads
    BY DEF Ledger
  <2>3. 1..k \subseteq minted /\ minted \subseteq 1..(k + 1)
    BY <2>1, <2>2 DEF Ledger, Tallied
  <2> HIDE DEF minted
  <2>4. minted = 1..k \/ minted = 1..(k + 1)
    <3>1. 1..(k + 1) = (1..k) \cup {k + 1}
      BY <2>1
    <3> QED
      BY <2>3, <3>1
  <2>5. Cardinality(1..k) = k /\ Cardinality(1..(k + 1)) = k + 1
    <3>1. 1 \in Int /\ k \in Int /\ k + 1 \in Int /\ k \in Nat
      BY <2>1
    <3>2. /\ Cardinality(1..k) = IF 1 > k THEN 0 ELSE k - 1 + 1
          /\ Cardinality(1..(k + 1)) = IF 1 > k + 1 THEN 0 ELSE k + 1 - 1 + 1
      BY <3>1, FS_Interval
    <3> QED
      BY <3>1, <3>2
  <2>6. Cardinality(Closings(trail[r], n)) = k
    BY <2>1 DEF Count
  <2> QED
    BY <2>4, <2>5, <2>6 DEF minted, Closings
<1> QED
  BY <1>1, ShapeHolds, TrackHolds, LedgerInit, LedgerKept, PTL DEF Spec
=============================================================================
