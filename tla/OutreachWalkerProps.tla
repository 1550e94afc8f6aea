------------------------ MODULE OutreachWalkerProps ------------------------
(***************************************************************************)
(* What must hold of the runs modelled in OutreachWalker.                  *)
(***************************************************************************)
EXTENDS OutreachWalker, FiniteSets

Answers ==
    {NoReply} \cup {Says[l] : l \in Letters}
    \cup UNION {{e[2] : e \in Board[v].edges} : v \in Versions}
Contexts == [reply : [Squares -> Answers], visits : [Squares -> Nat],
             repeats : SUBSET Letters]
Rows == [status : {"none", "waiting", "parked", "exited"},
         reason : ExitReasons \cup {"none"}, square : Squares \cup {End},
         version : Versions \cup {0}, stay : Nat, attempts : Nat,
         lease : Walkers \cup {NoWalker}, due : BOOLEAN,
         founding : Letters \cup {NoLetter}, context : Contexts]

\* Every variable keeps its shape, and only a waiting run has an alarm.
TypeOK ==
    /\ \A r \in Runs :
        /\ row[r] \in Rows
        /\ row[r].status # "waiting" => ~row[r].due /\ row[r].lease = NoWalker
    /\ \A w \in Walkers :
        /\ visit[w].pc \in {"idle", "status", "judge", "board", "leave", "write"}
        /\ visit[w].run \in Runs \cup {NoRun} /\ visit[w].version \in Versions \cup {0}
        /\ visit[w].context \in Contexts /\ visit[w].verdict \in Verdicts
    /\ \A l \in Letters :
        /\ hand[l].pc \in {"pending", "goal", "wake", "doors", "enrol",
                           "repeat", "done", "stamped"}
        /\ hand[l].run \in Runs \cup {NoRun} /\ hand[l].seen.square \in Squares \cup {End}
    /\ plan \in {"live", "paused", "archived"} /\ latest \in Versions

\* The trail is one path: every stay once, in order, each closed by the arrow
\* to the next, up to the square the token stands on.  Only an exit may leave
\* its last square unclosed: a goal letter that overtook the walker (or was
\* overtaken by it), or a board that no longer has the square.
TrailIsPath ==
    \A r \in Runs :
        LET t == trail[r]
            joins == Len(t) + 1 = row[r].stay
                     /\ (t # <<>> => t[Len(t)].next = row[r].square)
            ends == t # <<>> /\ t[Len(t)].next = End
                    /\ t[Len(t)].square = row[r].square
        IN
        /\ \A k \in 1..Len(t) : t[k].stay = k
        /\ \A k \in 2..Len(t) : t[k - 1].next = t[k].square
        /\ Open(r) => joins
        /\ row[r].status = "exited" =>
                ends \/ (joins /\ row[r].reason # "completed")

\* A listening square is left with the answer recorded during that very stay,
\* and by its alarm only when none was: no walker's older view of the run, and
\* no answer of an earlier stay on the square, decides the branch.
AnswerDecides ==
    \A r \in Runs : \A k \in 1..Len(trail[r]) :
        LET answers == {Says[h[3]] : h \in {x \in heard : x[1] = r /\ x[2] = k}}
        IN  trail[r][k].square \in Listening =>
                trail[r][k].outcome \in
                    ExitReasons \cup (IF answers = {} THEN {"timeout"} ELSE answers)

\* A letter founds one run: redelivered, it finds the run it made, also when
\* that run has exited since.
FoundsOnce ==
    \A q, r \in Runs : row[q].founding = row[r].founding =>
        q = r \/ row[q].founding = NoLetter

\* A visit goes on over a square where it need not stop.
walksOnto(n) == n \in Squares \ Waits \/ n \in Windowed \ Listening
\* Squares that a walk may come to, on the arrows of version v, between two
\* passages of square n.
AheadOf(v, n, ahead) ==
    /\ n \notin ahead
    /\ \A e \in Board[v].edges :
            e[1] \in ahead \cup {n} /\ walksOnto(e[3]) => e[3] \in ahead
\* Every way from a call back to it has a wait where the visit stops.  Publish
\* does not ask for it; the author of a board keeps one there.
CyclesWait ==
    \A v \in Versions : \A n \in Calls :
        \E ahead \in SUBSET Squares : AheadOf(v, n, ahead)

\* The leads of a call square number its stays: each stay that was closed has
\* one, and at most one more belongs to a stay that was not (it is under way, or
\* its visit was cut off).  A visit that is retried, raced or refused adopts the
\* lead of its stay; a later stay on the square gets its own.
OneLeadPerStay ==
    \A r \in Runs : \A n \in Calls :
        LET minted == {lead[3] : lead \in {x \in leads : x[1] = r /\ x[2] = n}}
            stays == {k \in 1..Len(trail[r]) : trail[r][k].square = n
                                              /\ trail[r][k].outcome = "next"}
        IN  /\ minted = 1..Cardinality(minted)
            /\ Cardinality(minted) \in {Cardinality(stays), Cardinality(stays) + 1}

\* An exited run stays as it ended: no letter, visit, person or migration
\* writes to it or adds to its trail.
ExitIsFinal ==
    [][\A r \in Runs : row[r].status = "exited" =>
            row'[r] = row[r] /\ trail'[r] = trail[r]]_vars

\* A visit claimed when the customer's goal was already on the spine calls
\* nobody, also when the letter was consumed before the run was there.
GoalSilences ==
    [][\A w \in Walkers :
            visit[w].pc = "board" /\ visit[w].warned => visit'[w].pc # "leave"]_vars

\* A run that waits ends or parks, whatever failed, lapsed or was refused on
\* the way, unless the plan is paused.
RunsSettle ==
    \A r \in Runs : row[r].status = "waiting"
                    ~> row[r].status # "waiting" \/ plan = "paused"

\* What a letter that found the run waiting at its door was accepted for, no
\* later write takes back.
RepeatKept ==
    [][\A r \in Runs : row[r].context.repeats \subseteq row'[r].context.repeats]_vars
=============================================================================
