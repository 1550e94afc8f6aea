---------------------------- MODULE PromoterProofs ----------------------------
(***************************************************************************)
(* What TLAPS proves of Promoter, for any pods and leads, any clocks, any   *)
(* batch, and any number of faults, shutdowns and scheduled leads.         *)
(***************************************************************************)
EXTENDS PromoterProps, TLAPS

-----------------------------------------------------------------------------
(* The shape of the variables.                                             *)

Lives == {"down", "running", "stopping", "releasing"}
Shapes ==
    /\ schedule \in [Leads -> Nat] /\ ready \in [Leads -> Nat]
    /\ lease \in Pods \cup {NoPod, Gone} /\ leads \in [Pods -> BOOLEAN]
    /\ life \in [Pods -> Lives] /\ beat \in [Pods -> {"none", "yes", "no"}]
    /\ tick \in [Pods -> {"idle", "leader", "script"}] /\ stamp \in [Pods -> Nat]
    /\ paused \in BOOLEAN /\ now \in Nat
    /\ adds \in Nat /\ stops \in Nat /\ faults \in Nat

\* Only loops that run promote, and a dead pod neither leads nor holds the lease.
Alive ==
    \A p \in Pods :
        /\ tick[p] # "idle" => up(p)
        /\ leads[p] \/ lease = p \/ beat[p] # "none" => life[p] # "down"

LEMMA TypeParts == TypeOK <=> Shapes /\ Alive
  BY DEF TypeOK, Shapes, Alive, Lives

LEMMA FaultCounts ==
    ASSUME Shapes, Fault
    PROVE  faults' \in Nat /\ faults' # faults /\ faults' # 0 /\ UNCHANGED <<adds, stops>>
  BY DEF Fault, Shapes

LEMMA ScoresAreNat ==
    ASSUME NEW s \in Nat
    PROVE  s * Scale \in Nat
  BY ClocksAssumption

\* What a batch is numbered from is a natural number that no lead of the ready
\* set exceeds.
LEMMA FloorBounds ==
    ASSUME Shapes, NEW p \in Pods, NEW base \in floors(p),
           \A floor \in floors(p) : floor <= base
    PROVE  base \in Nat /\ \A l \in Leads : ready[l] <= base
<1>1. stamp[p] * Scale \in Nat
  BY ScoresAreNat DEF Shapes
<1> QED
  BY <1>1 DEF floors, Shapes

\* The leads of a batch that are new to the ready set are numbered apart, above
\* its tail.
LEMMA PromoteAppends ==
    ASSUME Shapes, NEW p \in Pods, Promote(p)
    PROVE  \E batch \in SUBSET Leads, base \in Nat : \E place \in [batch -> Nat \ {0}] :
            /\ \A l \in Leads : ready[l] <= base
            /\ \A l, k \in batch : place[l] = place[k] => l = k
            /\ ready' = [l \in Leads |-> IF l \in batch /\ ready[l] = 0
                                         THEN base + place[l] ELSE ready[l]]
            /\ schedule' = [l \in Leads |-> IF l \in batch THEN 0 ELSE schedule[l]]
<1> DEFINE due == {l \in members(schedule) : schedule[l] <= stamp[p]}
<1>1. PICK batch \in SUBSET due : \E base \in floors(p),
                                     place \in [batch -> 1 .. Cardinality(batch)] :
            /\ \A floor \in floors(p) : floor <= base
            /\ \A l, k \in batch : place[l] = place[k] => l = k
            /\ ready' = [l \in Leads |-> IF l \in batch /\ ready[l] = 0
                                         THEN base + place[l] ELSE ready[l]]
            /\ schedule' = [l \in Leads |-> IF l \in batch THEN 0 ELSE schedule[l]]
  BY DEF Promote
<1>2. batch \in SUBSET Leads
  BY DEF members
<1>3. PICK base \in floors(p), place \in [batch -> 1 .. Cardinality(batch)] :
            /\ \A floor \in floors(p) : floor <= base
            /\ \A l, k \in batch : place[l] = place[k] => l = k
            /\ ready' = [l \in Leads |-> IF l \in batch /\ ready[l] = 0
                                         THEN base + place[l] ELSE ready[l]]
            /\ schedule' = [l \in Leads |-> IF l \in batch THEN 0 ELSE schedule[l]]
  BY <1>1
<1>4. base \in Nat /\ \A l \in Leads : ready[l] <= base
  BY <1>3, FloorBounds
<1>5. place \in [batch -> Nat \ {0}]
  BY <1>3
<1> QED
  BY <1>2, <1>3, <1>4, <1>5

LEMMA PromoteShapes ==
    ASSUME Shapes, NEW p \in Pods, Promote(p)
    PROVE  ready' \in [Leads -> Nat] /\ schedule' \in [Leads -> Nat]
<1>1. PICK batch \in SUBSET Leads, base \in Nat : \E place \in [batch -> Nat \ {0}] :
            /\ ready' = [l \in Leads |-> IF l \in batch /\ ready[l] = 0
                                         THEN base + place[l] ELSE ready[l]]
            /\ schedule' = [l \in Leads |-> IF l \in batch THEN 0 ELSE schedule[l]]
  BY PromoteAppends
<1> QED
  BY <1>1 DEF Shapes

LEMMA TypeInit == Init => TypeOK
<1> SUFFICES ASSUME Init PROVE Shapes /\ Alive
  BY TypeParts
<1> QED
  BY PodsAssumption DEF Init, Shapes, Alive, Lives

\* The lease a pod leaves behind is not its own.
LEMMA LeftBehind ==
    ASSUME Shapes, NEW p \in Pods
    PROVE  /\ Left(p) \in Pods \cup {NoPod, Gone} /\ Left(p) # p
           /\ Released(p) \in Pods \cup {NoPod, Gone} /\ Released(p) # p
           /\ \A q \in Pods \ {p} :
                /\ Left(p) = q <=> lease = q
                /\ Released(p) = q <=> lease = q
  BY PodsAssumption DEF Left, Released, Shapes

\* A step of a pod, except the ones that end its life.
LEMMA LoopsKeepType ==
    ASSUME Shapes, Alive, NEW p \in Pods,
           LeaderLoop(p) \/ TickOnce(p) \/ StopLeader(p) \/ Start(p) \/ Stop(p)
    PROVE  Shapes' /\ Alive'
<1>1. CASE TryAcquire(p)
  BY <1>1, FaultCounts, PodsAssumption DEF TryAcquire, Shapes, Alive, up, boundVars,
        queueVars, tickVars, Lives
<1>2. CASE TryRenew(p)
  BY <1>2, FaultCounts DEF TryRenew, Shapes, Alive, up, boundVars, queueVars, tickVars, Lives
<1>3. CASE Answered(p)
  BY <1>3 DEF Answered, Shapes, Alive, up, boundVars, queueVars, tickVars, Lives
<1>4. CASE CheckLeader(p)
  BY <1>4 DEF CheckLeader, Shapes, Alive, up, boundVars, queueVars, leaseVars, Lives
<1>5. CASE CheckPaused(p)
  <2>1. now + Ahead[p] \in Nat
    BY ClocksAssumption DEF Shapes
  <2> QED
    BY <1>5, <2>1, FaultCounts DEF CheckPaused, Shapes, Alive, up, boundVars,
        queueVars, leaseVars, Lives
<1>6. CASE RunScript(p)
  <2>1. ready' \in [Leads -> Nat] /\ schedule' \in [Leads -> Nat]
    BY <1>6, PromoteShapes DEF RunScript, queueVars, Shapes
  <2> QED
    BY <1>6, <2>1, FaultCounts DEF RunScript, Shapes, Alive, up, boundVars, leaseVars, Lives
<1>7. CASE StopLeader(p)
  BY <1>7, FaultCounts DEF StopLeader, Shapes, Alive, up, boundVars, queueVars, Lives
<1>8. CASE Start(p)
  BY <1>8 DEF Start, Shapes, Alive, up, boundVars, queueVars, tickVars, Lives
<1>9. CASE Stop(p)
  BY <1>9 DEF Stop, Shapes, Alive, up, queueVars, tickVars, Lives
<1> QED
  BY <1>1, <1>2, <1>3, <1>4, <1>5, <1>6, <1>7, <1>8, <1>9 DEF LeaderLoop, TickOnce

LEMMA EndsKeepType ==
    ASSUME Shapes, Alive, NEW p \in Pods, Release(p) \/ Crash(p)
    PROVE  Shapes' /\ Alive'
<1>1. /\ lease' \in {Left(p), Released(p)}
      /\ life' = [life EXCEPT ![p] = "down"] /\ leads' = [leads EXCEPT ![p] = FALSE]
      /\ beat' = [beat EXCEPT ![p] = "none"]
      /\ tick' = [tick EXCEPT ![p] = "idle"]
      /\ UNCHANGED <<queueVars, stamp, paused, now>>
  <2>1. CASE Release(p)
    <3>1. tick[p] = "idle"
      BY <2>1 DEF Release, Alive, up
    <3> QED
      BY <2>1, <3>1 DEF Release, tickVars, Shapes
  <2>2. CASE Crash(p)
    BY <2>2 DEF Crash
  <2> QED
    BY <2>1, <2>2
<1>2. adds' \in Nat /\ stops' \in Nat /\ faults' \in Nat
  BY FaultCounts DEF Release, Crash, boundVars, Shapes
<1> QED
  BY <1>1, <1>2, LeftBehind DEF Shapes, Alive, up, queueVars, Lives

LEMMA OthersKeepType ==
    ASSUME Shapes, Alive,
           (\E l \in Leads : Schedule(l) \/ Cancel(l) \/ PopReady(l))
              \/ Lapse \/ Pause \/ Unpause \/ Clock
    PROVE  Shapes' /\ Alive'
<1>1. ASSUME NEW l \in Leads, Schedule(l) PROVE Shapes' /\ Alive'
  <2>1. schedule' \in [Leads -> Nat]
    BY <1>1, ClocksAssumption DEF Schedule, Shapes
  <2> QED
    BY <1>1, <2>1 DEF Schedule, Shapes, Alive, up, leaseVars, tickVars
<1>2. ASSUME NEW l \in Leads, Cancel(l) \/ PopReady(l) PROVE Shapes' /\ Alive'
  BY <1>2 DEF Cancel, PopReady, Shapes, Alive, up, leaseVars, tickVars, boundVars
<1>3. CASE Lapse
  BY <1>3, FaultCounts, PodsAssumption DEF Lapse, Shapes, Alive, up, queueVars, tickVars, boundVars
<1>4. CASE Pause
  BY <1>4, FaultCounts DEF Pause, Shapes, Alive, up, queueVars, leaseVars, tickVars
<1>5. CASE Unpause
  BY <1>5 DEF Unpause, Shapes, Alive, up, queueVars, leaseVars, tickVars, boundVars
<1>6. CASE Clock
  BY <1>6 DEF Clock, Shapes, Alive, up, queueVars, leaseVars, tickVars, boundVars
<1> QED
  BY <1>1, <1>2, <1>3, <1>4, <1>5, <1>6

LEMMA TypeStep ==
    ASSUME TypeOK, [Next]_vars
    PROVE  TypeOK'
<1>1. CASE Next
  <2>1. Shapes' /\ Alive'
    BY <1>1, TypeParts, LoopsKeepType, EndsKeepType, OthersKeepType DEF Next, Ending
  <2> QED
    BY <2>1 DEF TypeOK, Shapes, Alive, Lives
<1>2. CASE UNCHANGED vars
  BY <1>2 DEF vars, queueVars, leaseVars, tickVars, boundVars, TypeOK, up
<1> QED
  BY <1>1, <1>2

\* Every variable keeps its shape, loops run only in a pod that is up, and a pod
\* that is down neither leads nor holds the lease.
THEOREM TypeCorrect == Spec => []TypeOK
<1>1. Init => TypeOK
  BY TypeInit
<1>2. TypeOK /\ [Next]_vars => TypeOK'
  BY TypeStep
<1> QED
  BY <1>1, <1>2, PTL DEF Spec

-----------------------------------------------------------------------------
(* Who leads.  While nothing failed, a pod that renews has the lease.      *)

RenewsOwn == faults = 0 => \A p \in Pods : renews(p) => lease = p

LEMMA RenewsOwnStep ==
    ASSUME TypeOK, RenewsOwn, Next
    PROVE  RenewsOwn'
<1>0. Shapes /\ Alive
  BY TypeParts
<1> SUFFICES ASSUME faults' = 0 PROVE \A q \in Pods : renews(q)' => lease' = q
  BY DEF RenewsOwn
<1>1. ~Fault
  BY <1>0, FaultCounts
<1>2. UNCHANGED faults
  BY <1>1 DEF Next, LeaderLoop, TickOnce, Ending, TryAcquire, TryRenew, Answered,
        CheckLeader, CheckPaused, RunScript, Start, Stop, Crash, StopLeader, Release,
        Schedule, Cancel, PopReady, Lapse, Pause, Unpause, Clock, boundVars
<1>3. \A q \in Pods : renews(q) => lease = q
  BY <1>2 DEF RenewsOwn
<1>4. ASSUME NEW p \in Pods, TryAcquire(p)
      PROVE  \A q \in Pods : renews(q)' => lease' = q
  <2>1. CASE lease = NoPod /\ lease' = p /\ beat' = [beat EXCEPT ![p] = "yes"]
    <3>1. \A q \in Pods : ~renews(q)
      BY <1>3, <2>1, PodsAssumption
    <3> QED
      BY <1>0, <1>4, <2>1, <3>1 DEF TryAcquire, renews, up, Shapes
  <2>2. CASE UNCHANGED lease /\ beat' = [beat EXCEPT ![p] = "no"]
    BY <1>0, <1>3, <1>4, <2>2 DEF TryAcquire, renews, up, Shapes
  <2> QED
    BY <1>1, <1>4, <2>1, <2>2 DEF TryAcquire
<1>5. ASSUME NEW p \in Pods, TryRenew(p)
      PROVE  \A q \in Pods : renews(q)' => lease' = q
  BY <1>0, <1>1, <1>3, <1>5 DEF TryRenew, renews, up, Shapes
<1>6. ASSUME NEW p \in Pods, Answered(p)
      PROVE  \A q \in Pods : renews(q)' => lease' = q
  BY <1>0, <1>3, <1>6 DEF Answered, renews, up, Shapes
<1>7. ASSUME NEW p \in Pods, Start(p)
      PROVE  \A q \in Pods : renews(q)' => lease' = q
  BY <1>0, <1>3, <1>7 DEF Start, renews, up, Shapes, Alive
<1>8. ASSUME NEW p \in Pods, Stop(p) \/ StopLeader(p)
      PROVE  \A q \in Pods : renews(q)' => lease' = q
  BY <1>0, <1>3, <1>8 DEF Stop, StopLeader, renews, up, Shapes, Lives
<1>9. ASSUME NEW p \in Pods, Release(p)
      PROVE  \A q \in Pods : renews(q)' => lease' = q
  <2>1. /\ lease' \in {Left(p), Released(p)}
        /\ life' = [life EXCEPT ![p] = "down"] /\ leads' = [leads EXCEPT ![p] = FALSE]
        /\ beat' = [beat EXCEPT ![p] = "none"]
    BY <1>9 DEF Release
  <2>2. ~renews(p)'
    BY <1>0, <2>1 DEF renews, up, Shapes
  <2>3. \A q \in Pods \ {p} : renews(q)' => renews(q)
    BY <1>0, <2>1 DEF renews, up, Shapes
  <2> QED
    BY <1>0, <1>3, <2>1, <2>2, <2>3, LeftBehind
<1>10. ASSUME Lapse
       PROVE  \A q \in Pods : renews(q)' => lease' = q
  BY <1>0, <1>1, <1>3, <1>10 DEF Lapse, renews, up
<1>11. ASSUME UNCHANGED <<lease, leads, life, beat>>
       PROVE  \A q \in Pods : renews(q)' => lease' = q
  BY <1>3, <1>11 DEF renews, up
<1>12. ASSUME NEW p \in Pods, TickOnce(p)
       PROVE  UNCHANGED <<lease, leads, life, beat>>
  BY <1>12 DEF TickOnce, CheckLeader, CheckPaused, RunScript, leaseVars
<1>13. ASSUME \/ \E l \in Leads : Schedule(l) \/ Cancel(l) \/ PopReady(l)
              \/ Pause \/ Unpause \/ Clock
       PROVE  UNCHANGED <<lease, leads, life, beat>>
  BY <1>13 DEF Schedule, Cancel, PopReady, Pause, Unpause, Clock, leaseVars
<1>14. \A p \in Pods : ~Crash(p)
  BY <1>1 DEF Crash
<1> QED
  BY <1>4, <1>5, <1>6, <1>7, <1>8, <1>9, <1>10, <1>11, <1>12, <1>13, <1>14
     DEF Next, LeaderLoop, Ending

\* Without a failure no two pods believe they lead: starting, stopping, renewing
\* and handing over the lease never make a second leader.
THEOREM LeadsAlone == Spec => []OneLeader
<1>1. Init => TypeOK /\ RenewsOwn
  BY TypeInit DEF Init, RenewsOwn, renews, up
<1>2. TypeOK /\ RenewsOwn /\ [Next]_vars => (TypeOK /\ RenewsOwn)'
  <2> SUFFICES ASSUME TypeOK, RenewsOwn, [Next]_vars PROVE RenewsOwn'
    BY TypeStep
  <2>1. CASE Next
    BY <2>1, RenewsOwnStep
  <2>2. CASE UNCHANGED vars
    BY <2>2 DEF vars, leaseVars, boundVars, RenewsOwn, renews, up
  <2> QED
    BY <2>1, <2>2
<1>3. RenewsOwn => OneLeader
  BY DEF RenewsOwn, OneLeader, renews
<1> QED
  BY <1>1, <1>2, <1>3, PTL DEF Spec

\* A pod that renews its lease loses it only by its own end or by a failure: the
\* compare-and-set of acquire, renew and release protects it from the others.
THEOREM KeepsLease == Spec => LeaseIsKept
<1>1. TypeOK /\ [Next]_vars =>
        [\A p \in Pods : lease = p /\ renews(p) /\ lease' # p =>
            life'[p] = "down" \/ faults' # faults]_vars
  <2> SUFFICES ASSUME TypeOK, Next, NEW p \in Pods,
                      lease = p, renews(p), lease' # p
               PROVE  life'[p] = "down" \/ faults' # faults
    OBVIOUS
  <2>0. Shapes
    BY TypeParts
  <2>1. ASSUME NEW q \in Pods, Release(q) \/ Crash(q) PROVE life'[p] = "down"
    <3>1. lease' \in {Left(q), Released(q)} /\ life' = [life EXCEPT ![q] = "down"]
      BY <2>1 DEF Release, Crash
    <3>2. q = p
      BY <2>0, <3>1, LeftBehind
    <3> QED
      BY <2>0, <3>1, <3>2 DEF Shapes
  <2>2. CASE Lapse
    <3>1. Fault
      BY <2>2 DEF Lapse
    <3> QED
      BY <2>0, <3>1, FaultCounts
  <2>3. ASSUME NEW q \in Pods, TryAcquire(q) PROVE FALSE
    BY <2>3, PodsAssumption DEF TryAcquire
  <2> QED
    BY <2>1, <2>2, <2>3 DEF Next, LeaderLoop, TickOnce, Ending, TryRenew, Answered,
        CheckLeader, CheckPaused, RunScript, Start, Stop, StopLeader, Schedule, Cancel,
        PopReady, Pause, Unpause, Clock, leaseVars
<1> QED
  BY <1>1, TypeCorrect, PTL DEF Spec, LeaseIsKept

-----------------------------------------------------------------------------
(* The ready set is a queue.                                               *)

Earlier(zset) ==
    {pair \in members(zset) \X members(zset) : zset[pair[1]] < zset[pair[2]]}

LEMMA EarlierIs ==
    ASSUME NEW zset, NEW l, NEW k
    PROVE  <<l, k>> \in Earlier(zset) <=>
                l \in members(zset) /\ k \in members(zset) /\ zset[l] < zset[k]
<1>1. <<l, k>>[1] = l /\ <<l, k>>[2] = k
  OBVIOUS
<1>2. <<l, k>> \in members(zset) \X members(zset)
        <=> l \in members(zset) /\ k \in members(zset)
  OBVIOUS
<1> QED
  BY <1>1, <1>2, Zenon DEF Earlier

\* Relations are equal when they relate the same leads.
LEMMA SameRelation ==
    ASSUME NEW R \in SUBSET (Leads \X Leads), NEW S \in SUBSET (Leads \X Leads),
           \A l, k \in Leads : <<l, k>> \in R <=> <<l, k>> \in S
    PROVE  R = S
  OBVIOUS

LEMMA EarlierRelates ==
    ASSUME NEW zset
    PROVE  Earlier(zset) \in SUBSET (Leads \X Leads)
  BY DEF Earlier, members

\* No two leads share a place.
Apart == \A l, k \in members(ready) : ready[l] = ready[k] => l = k

LEMMA ApartStep ==
    ASSUME Shapes, Apart, Next
    PROVE  Apart'
<1>1. ASSUME NEW p \in Pods, Promote(p) PROVE Apart'
  <2>1. PICK batch \in SUBSET Leads, base \in Nat : \E place \in [batch -> Nat \ {0}] :
            /\ \A l \in Leads : ready[l] <= base
            /\ \A l, k \in batch : place[l] = place[k] => l = k
            /\ ready' = [l \in Leads |-> IF l \in batch /\ ready[l] = 0
                                         THEN base + place[l] ELSE ready[l]]
    BY <1>1, PromoteAppends
  <2>2. PICK place \in [batch -> Nat \ {0}] :
            /\ \A l \in Leads : ready[l] <= base
            /\ \A l, k \in batch : place[l] = place[k] => l = k
            /\ ready' = [l \in Leads |-> IF l \in batch /\ ready[l] = 0
                                         THEN base + place[l] ELSE ready[l]]
    BY <2>1
  <2> QED
    BY <2>2 DEF Apart, members, Shapes
<1>2. ASSUME NEW l \in Leads, PopReady(l) PROVE Apart'
  BY <1>2 DEF PopReady, Apart, members, Shapes
<1>3. ASSUME UNCHANGED ready PROVE Apart'
  BY <1>3 DEF Apart, members
<1> QED
  BY <1>1, <1>2, <1>3 DEF Next, LeaderLoop, TickOnce, Ending, TryAcquire, TryRenew,
        Answered, CheckLeader, CheckPaused, RunScript, Start, Stop, Crash, StopLeader,
        Release, Schedule, Cancel, Lapse, Pause, Unpause, Clock, queueVars

\* A promotion is a batch that joins behind everyone.
LEMMA PromoteJoins ==
    ASSUME Shapes, Apart, NEW p \in Pods, Promote(p)
    PROVE  \E batch \in SUBSET Leads : \E order \in SUBSET (batch \X batch) :
                Fifo!Join(batch, order)
<1>1. PICK batch \in SUBSET Leads, base \in Nat : \E place \in [batch -> Nat \ {0}] :
        /\ \A l \in Leads : ready[l] <= base
        /\ \A l, k \in batch : place[l] = place[k] => l = k
        /\ ready' = [l \in Leads |-> IF l \in batch /\ ready[l] = 0
                                     THEN base + place[l] ELSE ready[l]]
  BY PromoteAppends
<1>2. PICK place \in [batch -> Nat \ {0}] :
        /\ \A l \in Leads : ready[l] <= base
        /\ \A l, k \in batch : place[l] = place[k] => l = k
        /\ ready' = [l \in Leads |-> IF l \in batch /\ ready[l] = 0
                                     THEN base + place[l] ELSE ready[l]]
  BY <1>1
<1>3. PICK new \in SUBSET Leads : new = {l \in batch : ready[l] = 0}
  OBVIOUS
<1>4. PICK order \in SUBSET (new \X new) :
        order = {pair \in new \X new : place[pair[1]] < place[pair[2]]}
  OBVIOUS
<1>5. \A l, k \in new : <<l, k>> \in order <=> place[l] < place[k]
  <2> SUFFICES ASSUME NEW l \in new, NEW k \in new
               PROVE  <<l, k>> \in order <=> place[l] < place[k]
    OBVIOUS
  <2>1. <<l, k>> \in new \X new /\ <<l, k>>[1] = l /\ <<l, k>>[2] = k
    OBVIOUS
  <2> QED
    BY <1>4, <2>1, Zenon
<1>6. new \cap members(ready) = {}
  BY <1>3 DEF members
<1>7. members(ready') = members(ready) \cup new
  BY <1>2, <1>3 DEF members, Shapes
<1>8. \A l, k \in new : l # k => (<<l, k>> \in order <=> <<k, l>> \notin order)
  <2> SUFFICES ASSUME NEW l \in new, NEW k \in new, l # k
               PROVE  place[l] < place[k] <=> ~(place[k] < place[l])
    BY <1>5
  <2>1. place[l] \in Nat /\ place[k] \in Nat /\ place[l] # place[k]
    BY <1>2, <1>3
  <2> QED
    BY <2>1
<1>9. Earlier(ready') = Earlier(ready) \cup order \cup (members(ready) \X new)
  <2>1. Earlier(ready) \cup order \cup (members(ready) \X new)
            \in SUBSET (Leads \X Leads)
    BY EarlierRelates DEF members
  <2>2. ASSUME NEW l \in Leads, NEW k \in Leads
        PROVE  <<l, k>> \in Earlier(ready') <=>
                 <<l, k>> \in Earlier(ready) \cup order \cup (members(ready) \X new)
    <3>1. <<l, k>> \in Earlier(ready') <=>
            l \in members(ready') /\ k \in members(ready') /\ ready'[l] < ready'[k]
      BY EarlierIs
    <3>2. <<l, k>> \in Earlier(ready) <=>
            l \in members(ready) /\ k \in members(ready) /\ ready[l] < ready[k]
      BY EarlierIs
    <3>3. <<l, k>> \in order <=> l \in new /\ k \in new /\ place[l] < place[k]
      BY <1>4, <1>5
    <3>4. <<l, k>> \in members(ready) \X new <=> l \in members(ready) /\ k \in new
      OBVIOUS
    <3>5. \A m \in members(ready) : ready'[m] = ready[m] /\ ready[m] \in Nat /\ ready[m] <= base
      BY <1>2 DEF members, Shapes
    <3>6. \A m \in new : ready'[m] = base + place[m] /\ place[m] \in Nat \ {0}
      BY <1>2, <1>3
    <3>7. CASE l \in members(ready) /\ k \in members(ready)
      BY <1>6, <1>7, <3>1, <3>2, <3>3, <3>4, <3>5, <3>7
    <3>8. CASE l \in members(ready) /\ k \in new
      BY <1>6, <1>7, <3>1, <3>4, <3>5, <3>6, <3>8
    <3>9. CASE l \in new /\ k \in members(ready)
      BY <1>6, <1>7, <3>1, <3>2, <3>3, <3>4, <3>5, <3>6, <3>9
    <3>10. CASE l \in new /\ k \in new
      BY <1>6, <1>7, <3>1, <3>2, <3>3, <3>4, <3>6, <3>10
    <3>11. CASE \/ l \notin members(ready) \cup new
                \/ k \notin members(ready) \cup new
      BY <1>7, <3>1, <3>2, <3>3, <3>4, <3>11
    <3> QED
      BY <3>7, <3>8, <3>9, <3>10, <3>11
  <2> QED
    BY <2>1, <2>2, EarlierRelates, SameRelation
<1>10. Fifo!Join(new, order)
  BY <1>6, <1>7, <1>8, <1>9 DEF Fifo!Join, Earlier
<1> QED
  BY <1>10

\* A pop takes the first.
LEMMA PopLeaves ==
    ASSUME Shapes, Apart, NEW l \in Leads, PopReady(l)
    PROVE  Fifo!Leave(l)
<1>1. /\ l \in members(ready) /\ \A k \in members(ready) : ready[l] <= ready[k]
      /\ ready' = [ready EXCEPT ![l] = 0]
  BY DEF PopReady, members
<1>2. \A k \in members(ready) : <<k, l>> \notin Earlier(ready)
  <2> SUFFICES ASSUME NEW k \in members(ready), ready[k] < ready[l] PROVE FALSE
    BY EarlierIs
  <2>1. ready[k] \in Nat /\ ready[l] \in Nat /\ ready[l] <= ready[k]
    BY <1>1 DEF Shapes, members
  <2> QED
    BY <2>1
<1>3. members(ready') = members(ready) \ {l}
  BY <1>1 DEF members, Shapes
<1>4. Earlier(ready') = {pair \in Earlier(ready) : pair[1] # l /\ pair[2] # l}
  <2>1. {pair \in Earlier(ready) : pair[1] # l /\ pair[2] # l} \in SUBSET (Leads \X Leads)
    BY EarlierRelates
  <2>2. ASSUME NEW j \in Leads, NEW k \in Leads
        PROVE  <<j, k>> \in Earlier(ready') <=>
                 <<j, k>> \in {pair \in Earlier(ready) : pair[1] # l /\ pair[2] # l}
    <3>1. <<j, k>> \in Earlier(ready') <=>
            j \in members(ready') /\ k \in members(ready') /\ ready'[j] < ready'[k]
      BY EarlierIs
    <3>2. <<j, k>> \in Earlier(ready) <=>
            j \in members(ready) /\ k \in members(ready) /\ ready[j] < ready[k]
      BY EarlierIs
    <3>3. <<j, k>>[1] = j /\ <<j, k>>[2] = k
      OBVIOUS
    <3>4. <<j, k>> \in {pair \in Earlier(ready) : pair[1] # l /\ pair[2] # l}
            <=> <<j, k>> \in Earlier(ready) /\ j # l /\ k # l
      BY <3>3, Zenon
    <3>5. \A m \in members(ready) \ {l} : ready'[m] = ready[m]
      BY <1>1 DEF members, Shapes
    <3> QED
      BY <1>3, <3>1, <3>2, <3>4, <3>5
  <2> QED
    BY <2>1, <2>2, EarlierRelates, SameRelation
<1> QED
  BY <1>1, <1>2, <1>3, <1>4 DEF Fifo!Leave, Earlier

\* A lead promoted later never overtakes one that waits: neither two leaders, nor
\* their clocks, nor scripts that come late reorder the ready set.
THEOREM QueueIsFifo == Spec => ReadyIsFifo
<1>1. Init => Fifo!Init /\ Apart
  <2> SUFFICES ASSUME Init PROVE Fifo!Init /\ Apart
    OBVIOUS
  <2>1. members(ready) = {}
    BY DEF Init, members
  <2>2. Earlier(ready) = {}
    BY <2>1 DEF Earlier
  <2> QED
    BY <2>1, <2>2 DEF Fifo!Init, Apart, Earlier
<1>2. TypeOK /\ Apart /\ [Next]_vars => Apart'
  <2> SUFFICES ASSUME TypeOK, Apart, [Next]_vars PROVE Apart'
    OBVIOUS
  <2>1. CASE Next
    BY <2>1, TypeParts, ApartStep
  <2>2. CASE UNCHANGED vars
    BY <2>2 DEF vars, queueVars, Apart, members
  <2> QED
    BY <2>1, <2>2
<1>3. TypeOK /\ Apart /\ [Next]_vars =>
        [Fifo!Next]_<<members(ready), Earlier(ready)>>
  <2> SUFFICES ASSUME TypeOK, Apart, [Next]_vars
               PROVE  Fifo!Next \/ UNCHANGED <<members(ready), Earlier(ready)>>
    OBVIOUS
  <2>0. Shapes
    BY TypeParts
  <2>1. CASE \E p \in Pods : Promote(p)
    BY <2>0, <2>1, PromoteJoins DEF Fifo!Next
  <2>2. CASE \E l \in Leads : PopReady(l)
    BY <2>0, <2>2, PopLeaves DEF Fifo!Next
  <2>3. CASE UNCHANGED ready
    BY <2>3 DEF members, Earlier
  <2>4. \/ \E p \in Pods : Promote(p)
        \/ \E l \in Leads : PopReady(l)
        \/ UNCHANGED ready
    BY DEF Next, LeaderLoop, TickOnce, Ending, TryAcquire, TryRenew, Answered,
        CheckLeader, CheckPaused, RunScript, Start, Stop, Crash, StopLeader, Release,
        Schedule, Cancel, Lapse, Pause, Unpause, Clock, queueVars, vars
  <2> QED
    BY <2>1, <2>2, <2>3, <2>4
<1> QED
  BY <1>1, <1>2, <1>3, TypeCorrect, PTL DEF Spec, ReadyIsFifo, Fifo!Spec, Earlier

=============================================================================
