-------------------------- MODULE RecordSpineProofs --------------------------
(***************************************************************************)
(* What TLAPS proves of RecordSpine, for any letters, replicas, consumers, *)
(* topics, batch, ceiling and number of faults.                            *)
(***************************************************************************)
EXTENDS RecordSpineProps, WellFoundedInduction, TLAPS

-----------------------------------------------------------------------------
(* The shape of the variables.                                             *)

PassPCs == {"idle", "row", "decode", "consume", "failed", "commit", "mark"}
PassTypes ==
    [pc : PassPCs, batch : SUBSET Letters, left : SUBSET Letters,
     next : Nat \ {0}, new : [Letters -> {"pending"} \cup Ended],
     found : SUBSET Topics, fresh : Topics \cup {NoTopic}]

Shapes ==
    /\ row \in [Letters -> [state : States, attempts : Nat]]
    /\ pass \in [Workers -> PassTypes]
    /\ known \in [Workers -> SUBSET Topics] /\ schemas \in SUBSET Topics
    /\ heard \in SUBSET (Letters \X Consumers) /\ faults \in Nat

\* A replica has rows left exactly while it works on one.
Busy ==
    \A w \in Workers :
        /\ pass[w].left \subseteq pass[w].batch
        /\ pass[w].left # {} <=> pass[w].pc \notin {"idle", "commit", "mark"}

\* Row locks: a claimed row is pending, and one pass has it.
Locks ==
    \A w \in Workers : \A l \in pass[w].batch :
        /\ row[l].state = "pending"
        /\ \A v \in Workers : l \in pass[v].batch => v = w

LEMMA TypeParts == TypeOK <=> Shapes /\ Busy /\ Locks
  BY DEF TypeOK, Shapes, PassTypes, PassPCs, Busy, Locks

NatLess == {pair \in Nat \X Nat : pair[1] < pair[2]}

LEMMA NothingLess ==
    ASSUME NEW ls, ls \subseteq Nat, ls # {}
    PROVE  \E l \in ls : \A k \in ls : <<k, l>> \notin NatLess
  BY NatLessThanWellFounded, WFMin DEF OpToRel, NatLess

LEMMA NotLess ==
    ASSUME NEW k \in Nat, NEW l \in Nat, <<k, l>> \notin NatLess
    PROVE  l <= k
<1>1. <<k, l>> \in Nat \X Nat
  OBVIOUS
<1>2. ~(<<k, l>>[1] < <<k, l>>[2])
  BY <1>1, Zenon DEF NatLess
<1> QED
  BY <1>2

LEMMA OldestIsOne ==
    ASSUME NEW ls \in SUBSET Letters, ls # {}
    PROVE  oldest(ls) \in ls
<1>1. ls \subseteq Nat
  BY LettersAssumption
<1>2. PICK l \in ls : \A k \in ls : <<k, l>> \notin NatLess
  BY <1>1, NothingLess
<1>3. \A k \in ls : l <= k
  BY <1>1, <1>2, NotLess
<1> QED
  BY <1>3 DEF oldest

LEMMA CurrentIsHeld ==
    ASSUME Shapes, Busy, NEW w \in Workers,
           pass[w].pc \in {"row", "decode", "consume", "failed"}
    PROVE  /\ current(w) \in pass[w].left
           /\ current(w) \in pass[w].batch
           /\ current(w) \in Letters
<1>1. pass[w].left # {} /\ pass[w].left \in SUBSET Letters
  BY DEF Shapes, Busy, PassTypes
<1> QED
  BY <1>1, OldestIsOne DEF current, Busy

LEMMA NoPassShape == NoPass \in PassTypes
  BY DEF NoPass, PassTypes, PassPCs, Ended

LEMMA StepShape ==
    ASSUME Shapes, NEW w \in Workers, NEW next \in PassTypes, Step(w, next)
    PROVE  /\ pass' \in [Workers -> PassTypes] /\ pass'[w] = next
           /\ \A v \in Workers : v # w => pass'[v] = pass[v]
  BY DEF Shapes, Step

\* The end of a row takes it off the pass's list and keeps the claim.
LEMMA EndRowShape ==
    ASSUME Shapes, Busy, NEW w \in Workers,
           pass[w].pc \in {"row", "decode", "consume", "failed"},
           NEW ending \in {"pending"} \cup Ended, EndRow(w, ending)
    PROVE  /\ pass' \in [Workers -> PassTypes]
           /\ \A v \in Workers : v # w => pass'[v] = pass[v]
           /\ pass'[w].batch = pass[w].batch
           /\ pass'[w].left = pass[w].left \ {current(w)}
           /\ pass'[w].pc = IF pass'[w].left = {} THEN "commit" ELSE "row"
           /\ pass'[w].new = [pass[w].new EXCEPT ![current(w)] = ending]
           /\ pass'[w].found = held(w)
<1> DEFINE next == [pass[w] EXCEPT
        !.pc = IF pass[w].left = {current(w)} THEN "commit" ELSE "row",
        !.left = @ \ {current(w)}, !.new[current(w)] = ending,
        !.found = held(w), !.fresh = NoTopic]
<1>1. pass[w] \in PassTypes /\ current(w) \in pass[w].left
  BY CurrentIsHeld DEF Shapes
<1>2. held(w) \in SUBSET Topics
  BY <1>1, NamesAssumption DEF held, PassTypes
<1>3. next \in PassTypes
  BY <1>1, <1>2 DEF PassTypes, PassPCs
<1>4. /\ next.batch = pass[w].batch /\ next.left = pass[w].left \ {current(w)}
      /\ next.pc = IF pass[w].left = {current(w)} THEN "commit" ELSE "row"
      /\ next.new = [pass[w].new EXCEPT ![current(w)] = ending]
      /\ next.found = held(w)
  BY <1>1 DEF PassTypes
<1>5. Step(w, next)
  BY DEF EndRow
<1> HIDE DEF next
<1>6. /\ pass' \in [Workers -> PassTypes] /\ pass'[w] = next
      /\ \A v \in Workers : v # w => pass'[v] = pass[v]
  BY <1>3, <1>5, StepShape
<1> QED
  BY <1>1, <1>4, <1>6

\* A step of a replica leaves the others' passes alone, and its own well shaped:
\* the claim is kept whole or given up.
WellKept(w) ==
    /\ pass' \in [Workers -> PassTypes]
    /\ \A v \in Workers : v # w => pass'[v] = pass[v]
    /\ pass'[w].left \subseteq pass'[w].batch
    /\ pass'[w].left # {} <=> pass'[w].pc \notin {"idle", "commit", "mark"}

KeepsClaim(w) == WellKept(w) /\ pass'[w].batch \in {{}, pass[w].batch}

LEMMA WorkKeeps ==
    ASSUME Shapes, Busy, NEW w \in Workers,
           Work(w) \/ RaiseInRow(w) \/ LosePass(w) \/ CrashWorker(w)
    PROVE  KeepsClaim(w)
<1>0. pass[w] \in PassTypes
  BY DEF Shapes
<1>a. ASSUME NEW ending \in {"pending"} \cup Ended, EndRow(w, ending),
             pass[w].pc \in {"row", "decode", "consume", "failed"}
      PROVE  KeepsClaim(w)
  <2>1. /\ pass' \in [Workers -> PassTypes]
        /\ \A v \in Workers : v # w => pass'[v] = pass[v]
        /\ pass'[w].batch = pass[w].batch
        /\ pass'[w].left = pass[w].left \ {current(w)}
        /\ pass'[w].pc = IF pass'[w].left = {} THEN "commit" ELSE "row"
    BY <1>a, EndRowShape
  <2> QED
    BY <2>1 DEF KeepsClaim, WellKept, Busy
<1>b. ASSUME NEW next \in PassTypes, Step(w, next),
             next.batch = pass[w].batch, next.left = pass[w].left,
             pass[w].pc \in {"row", "decode", "consume", "failed"},
             next.pc \in {"decode", "consume", "failed"}
      PROVE  KeepsClaim(w)
  <2>1. /\ pass' \in [Workers -> PassTypes] /\ pass'[w] = next
        /\ \A v \in Workers : v # w => pass'[v] = pass[v]
    BY <1>b, StepShape
  <2> QED
    BY <1>b, <2>1 DEF KeepsClaim, WellKept, Busy
<1>c. ASSUME NEW next \in PassTypes, Step(w, next), next.batch = {},
             next.left = {}, next.pc \in {"idle", "mark"}
      PROVE  KeepsClaim(w)
  <2>1. /\ pass' \in [Workers -> PassTypes] /\ pass'[w] = next
        /\ \A v \in Workers : v # w => pass'[v] = pass[v]
    BY <1>c, StepShape
  <2> QED
    BY <1>c, <2>1 DEF KeepsClaim, WellKept
<1>d. Step(w, NoPass) => KeepsClaim(w)
  BY <1>c, NoPassShape DEF NoPass
<1>1. CASE DiscoverTopic(w)
  <2>1. PICK topic \in Topics : topic = TopicOf[current(w)]
    BY <1>1, CurrentIsHeld, NamesAssumption DEF DiscoverTopic
  <2>2. CASE Step(w, [pass[w] EXCEPT !.pc = "decode"])
    <3>1. [pass[w] EXCEPT !.pc = "decode"] \in PassTypes
      BY <1>0 DEF PassTypes, PassPCs
    <3> QED
      BY <1>0, <1>1, <1>b, <2>2, <3>1 DEF DiscoverTopic, PassTypes
  <2>3. CASE Step(w, [pass[w] EXCEPT !.pc = "decode", !.fresh = topic])
    <3>1. [pass[w] EXCEPT !.pc = "decode", !.fresh = topic] \in PassTypes
      BY <1>0 DEF PassTypes, PassPCs
    <3> QED
      BY <1>0, <1>1, <1>b, <2>3, <3>1 DEF DiscoverTopic, PassTypes
  <2> QED
    BY <1>1, <2>1, <2>2, <2>3 DEF DiscoverTopic
<1>2. CASE RunProcessor(w)
  <2>0. 1 \in Nat \ {0}
    OBVIOUS
  <2>1. [pass[w] EXCEPT !.pc = "consume", !.next = 1] \in PassTypes
    BY <1>0, <2>0 DEF PassTypes, PassPCs
  <2>2. Step(w, [pass[w] EXCEPT !.pc = "consume", !.next = 1]) => KeepsClaim(w)
    BY <1>0, <1>2, <1>b, <2>1 DEF RunProcessor, PassTypes
  <2> QED
    BY <1>2, <1>a, <2>2 DEF RunProcessor, Ended
<1>3. CASE Consume(w)
  <2>1. [pass[w] EXCEPT !.next = @ + 1] \in PassTypes
    BY <1>0 DEF PassTypes
  <2> QED
    BY <1>0, <1>3, <1>b, <2>1 DEF Consume, PassTypes
<1>4. CASE StampEvent(w)
  BY <1>4, <1>a DEF StampEvent, Ended
<1>5. CASE RaiseInRow(w)
  <2>1. [pass[w] EXCEPT !.pc = "failed", !.fresh = NoTopic] \in PassTypes
    BY <1>0 DEF PassTypes, PassPCs
  <2> QED
    BY <1>0, <1>5, <1>b, <2>1 DEF RaiseInRow, PassTypes
<1>6. CASE AfterFailedRow(w)
  BY <1>6, <1>a DEF AfterFailedRow, Ended
<1>7. CASE CommitPass(w)
  <2> DEFINE next == [NoPass EXCEPT !.pc = "mark", !.found = pass[w].found]
  <2>1. /\ next \in PassTypes /\ next.batch = {} /\ next.left = {}
        /\ next.pc = "mark"
    BY <1>0, NoPassShape DEF PassTypes, PassPCs, NoPass
  <2>2. Step(w, next)
    BY <1>7 DEF CommitPass
  <2> QED
    BY <1>c, <2>1, <2>2
<1>8. CASE MarkKnown(w)
  BY <1>8, <1>d DEF MarkKnown
<1>9. CASE LosePass(w)
  BY <1>9, <1>d DEF LosePass
<1>10. CASE CrashWorker(w)
  BY <1>10, <1>d DEF CrashWorker
<1> QED
  BY <1>1, <1>2, <1>3, <1>4, <1>5, <1>6, <1>7, <1>8, <1>9, <1>10
     DEF Work

LEMMA ClaimKeeps ==
    ASSUME Shapes, NEW w \in Workers, ClaimBatch(w)
    PROVE  /\ WellKept(w) /\ row' = row
           /\ \A l \in pass'[w].batch : claimable(l)
<1>1. PICK batch \in SUBSET {l \in Letters : claimable(l)} :
        /\ batch # {}
        /\ Step(w, [NoPass EXCEPT !.pc = "row", !.batch = batch, !.left = batch])
  BY DEF ClaimBatch
<1> DEFINE next == [NoPass EXCEPT !.pc = "row", !.batch = batch, !.left = batch]
<1>2. /\ next \in PassTypes /\ next.batch = batch /\ next.left = batch
      /\ next.pc = "row"
  BY <1>1, NoPassShape DEF PassTypes, PassPCs, NoPass
<1>3. Step(w, next)
  BY <1>1
<1> HIDE DEF next
<1>4. /\ pass' \in [Workers -> PassTypes] /\ pass'[w] = next
      /\ \A v \in Workers : v # w => pass'[v] = pass[v]
  BY <1>2, <1>3, StepShape
<1> QED
  BY <1>1, <1>2, <1>4 DEF WellKept, ClaimBatch

\* Rows change when they are filed, and when the pass that holds them commits.
LEMMA RowChanges ==
    ASSUME Shapes, NEW l \in Letters, row'[l] # row[l], Next
    PROVE  \/ FileLetter(l) /\ row[l].state = "absent"
                /\ row'[l] = [row[l] EXCEPT !.state = Filed(l)]
           \/ \E w \in Workers :
                /\ CommitPass(w) /\ l \in pass[w].batch
                /\ row'[l] = [state |-> pass[w].new[l],
                             attempts |-> row[l].attempts + 1]
<1>1. ASSUME NEW k \in Letters, FileLetter(k)
      PROVE  k = l /\ row'[l] = [row[l] EXCEPT !.state = Filed(l)]
  BY <1>1 DEF FileLetter, Shapes
<1>2. ASSUME NEW w \in Workers, ~CommitPass(w),
             ClaimBatch(w) \/ Work(w) \/ RaiseInRow(w) \/ LosePass(w) \/ CrashWorker(w)
      PROVE  FALSE
  BY <1>2 DEF ClaimBatch, Work, RaiseInRow, LosePass, CrashWorker, DiscoverTopic,
              RunProcessor, Consume, StampEvent, AfterFailedRow, MarkKnown
<1>3. ASSUME NEW w \in Workers, CommitPass(w)
      PROVE  /\ l \in pass[w].batch
             /\ row'[l] = [state |-> pass[w].new[l], attempts |-> row[l].attempts + 1]
  BY <1>3 DEF CommitPass
<1> QED
  BY <1>1, <1>2, <1>3 DEF Next, FileLetter

LEMMA ShapesStep ==
    ASSUME TypeOK, Next
    PROVE  Shapes'
<1>0. Shapes /\ Busy
  BY TypeParts
<1>1. ASSUME NEW l \in Letters, FileLetter(l) PROVE Shapes'
  <2>1. row' \in [Letters -> [state : States, attempts : Nat]]
    BY <1>0, <1>1 DEF FileLetter, Filed, Shapes, States
  <2> QED
    BY <1>0, <1>1, <2>1 DEF FileLetter, Shapes
<1>2. ASSUME NEW w \in Workers, ClaimBatch(w) PROVE Shapes'
  <2>1. pass' \in [Workers -> PassTypes]
    BY <1>0, <1>2, ClaimKeeps DEF WellKept
  <2> QED
    BY <1>0, <1>2, <2>1 DEF ClaimBatch, Shapes
<1>3. ASSUME NEW w \in Workers,
             Work(w) \/ RaiseInRow(w) \/ LosePass(w) \/ CrashWorker(w)
      PROVE  Shapes'
  <2>0. pass' \in [Workers -> PassTypes] /\ pass[w] \in PassTypes
    BY <1>0, <1>3, WorkKeeps DEF KeepsClaim, WellKept, Shapes
  <2>1. CASE DiscoverTopic(w)
    <3>1. TopicOf[current(w)] \in Topics
      BY <1>0, <2>1, CurrentIsHeld, NamesAssumption DEF DiscoverTopic
    <3> QED
      BY <1>0, <2>0, <2>1, <3>1 DEF DiscoverTopic, Shapes
  <2>2. CASE Consume(w)
    BY <1>0, <2>0, <2>2, CurrentIsHeld DEF Consume, Shapes
  <2>3. CASE CommitPass(w)
    <3>1. row' \in [Letters -> [state : States, attempts : Nat]]
      BY <1>0, <2>0, <2>3 DEF CommitPass, Shapes, PassTypes, States, Ended
    <3> QED
      BY <1>0, <2>0, <2>3, <3>1 DEF CommitPass, Shapes, PassTypes
  <2>4. CASE MarkKnown(w) \/ CrashWorker(w) \/ LosePass(w) \/ RaiseInRow(w)
             \/ AfterFailedRow(w) \/ RunProcessor(w) \/ StampEvent(w)
    BY <1>0, <2>0, <2>4 DEF MarkKnown, CrashWorker, LosePass, RaiseInRow,
          AfterFailedRow, RunProcessor, StampEvent, Shapes, Fault, PassTypes
  <2> QED
    BY <1>3, <2>1, <2>2, <2>3, <2>4 DEF Work
<1> QED
  BY <1>1, <1>2, <1>3 DEF Next

LEMMA BusyStep ==
    ASSUME TypeOK, Next
    PROVE  Busy'
<1>0. Shapes /\ Busy
  BY TypeParts
<1>1. ASSUME NEW w \in Workers, WellKept(w) PROVE Busy'
  BY <1>0, <1>1 DEF WellKept, Busy
<1>2. ASSUME NEW l \in Letters, FileLetter(l) PROVE Busy'
  BY <1>0, <1>2 DEF FileLetter, Busy
<1> QED
  BY <1>0, <1>1, <1>2, ClaimKeeps, WorkKeeps DEF Next, KeepsClaim

LEMMA LocksStep ==
    ASSUME TypeOK, Next
    PROVE  Locks'
<1>0. Shapes /\ Busy /\ Locks
  BY TypeParts
<1>1. ASSUME NEW l \in Letters, FileLetter(l) PROVE Locks'
  <2>1. \A w \in Workers : l \notin pass[w].batch
    BY <1>0, <1>1 DEF FileLetter, Locks
  <2> QED
    BY <1>0, <1>1, <2>1 DEF FileLetter, Locks, Shapes
<1>2. ASSUME NEW w \in Workers, ClaimBatch(w) PROVE Locks'
  <2>1. /\ WellKept(w) /\ row' = row
        /\ \A l \in pass'[w].batch : claimable(l)
    BY <1>0, <1>2, ClaimKeeps
  <2> QED
    BY <1>0, <2>1 DEF WellKept, Locks, claimable, locked
<1>3. ASSUME NEW w \in Workers,
             Work(w) \/ RaiseInRow(w) \/ LosePass(w) \/ CrashWorker(w)
      PROVE  Locks'
  <2>1. /\ \A v \in Workers : pass'[v].batch \subseteq pass[v].batch
        /\ \A v \in Workers : v # w => pass'[v] = pass[v]
    BY <1>0, <1>3, WorkKeeps DEF KeepsClaim, WellKept
  <2>2. CASE CommitPass(w)
    <3>1. pass'[w].batch = {}
      BY <1>0, <2>2 DEF CommitPass, Step, NoPass, Shapes
    <3>2. \A l \in Letters : l \notin pass[w].batch => row'[l] = row[l]
      BY <2>2 DEF CommitPass
    <3> QED
      BY <1>0, <2>1, <3>1, <3>2 DEF Locks, Shapes, PassTypes
  <2>3. CASE ~CommitPass(w)
    <3>1. row' = row
      BY <1>3, <2>3 DEF Work, RaiseInRow, LosePass, CrashWorker, DiscoverTopic,
              RunProcessor, Consume, StampEvent, AfterFailedRow, MarkKnown
    <3> QED
      BY <1>0, <2>1, <3>1 DEF Locks
  <2> QED
    BY <2>2, <2>3
<1> QED
  BY <1>1, <1>2, <1>3 DEF Next

LEMMA TypeInit == Init => TypeOK
<1> SUFFICES ASSUME Init PROVE Shapes /\ Busy /\ Locks
  BY TypeParts
<1>1. Shapes
  BY NoPassShape DEF Init, Shapes, States, Filed
<1>2. \A w \in Workers : pass[w] = NoPass
  BY DEF Init
<1> QED
  BY <1>1, <1>2 DEF Busy, Locks, NoPass

LEMMA TypeStep ==
    ASSUME TypeOK, [Next]_vars
    PROVE  TypeOK'
<1>1. CASE Next
  <2>1. Shapes' /\ Busy' /\ Locks'
    BY <1>1, ShapesStep, BusyStep, LocksStep
  <2> QED
    BY <2>1 DEF TypeOK, Shapes, PassTypes, PassPCs, Busy, Locks
<1>2. CASE UNCHANGED vars
  BY <1>2 DEF vars, TypeOK
<1> QED
  BY <1>1, <1>2

\* Every variable keeps its shape, no row is claimed by two open passes, and a
\* claimed row is pending: run_pass under FOR UPDATE SKIP LOCKED.
THEOREM TypeCorrect == Spec => []TypeOK
<1>1. Init => TypeOK
  BY TypeInit
<1>2. TypeOK /\ [Next]_vars => TypeOK'
  BY TypeStep
<1> QED
  BY <1>1, <1>2, PTL DEF Spec

-----------------------------------------------------------------------------
(* Why a letter ends.  A pass that is open has reasons for the endings it   *)
(* will commit, and the consumers before the next one have heard the letter *)
(* it works on.                                                            *)

Reasons ==
    \A w \in Workers : \A l \in pass[w].batch :
        /\ pass[w].new[l] = "stamped" => {l} \X Consumers \subseteq heard
        /\ pass[w].new[l] = "quarantined" =>
                l \in Unreadable \/ row[l].attempts + 1 >= MaxAttempts

InOrder ==
    \A w \in Workers : pass[w].pc = "consume" =>
        \A c \in Consumers : c < pass[w].next => <<current(w), c>> \in heard

Honest == EndedHonestly /\ Reasons /\ InOrder

LEMMA HeardGrows ==
    ASSUME Next
    PROVE  heard \subseteq heard'
  BY DEF Next, FileLetter, ClaimBatch, Work, RaiseInRow, LosePass, CrashWorker,
         DiscoverTopic, RunProcessor, Consume, StampEvent, AfterFailedRow,
         CommitPass, MarkKnown

\* While a pass keeps its claim nobody writes the row.
LEMMA ClaimedRowStays ==
    ASSUME TypeOK, Next, NEW w \in Workers, NEW l \in pass[w].batch,
           l \in pass'[w].batch
    PROVE  row'[l] = row[l]
<1>0. Shapes /\ Busy /\ Locks /\ l \in Letters
  BY TypeParts DEF Shapes, PassTypes
<1>1. SUFFICES ASSUME row'[l] # row[l] PROVE FALSE
  OBVIOUS
<1>2. row[l].state = "pending"
  BY <1>0 DEF Locks
<1>3. PICK v \in Workers : CommitPass(v) /\ l \in pass[v].batch
  BY <1>0, <1>1, <1>2, RowChanges
<1>4. v = w
  BY <1>0, <1>3 DEF Locks
<1>5. pass'[w].batch = {}
  BY <1>0, <1>3, <1>4 DEF CommitPass, Step, NoPass, Shapes
<1> QED
  BY <1>5

\* The steps that leave the rows of the pass as they are.
LEMMA InRow ==
    ASSUME Shapes, Busy, NEW w \in Workers,
           DiscoverTopic(w) \/ Consume(w) \/ RaiseInRow(w)
    PROVE  \E next \in PassTypes :
            /\ Step(w, next) /\ next.batch = pass[w].batch
            /\ next.left = pass[w].left /\ next.new = pass[w].new
            /\ next.found = pass[w].found
            /\ next.pc \in {"decode", "failed"} \/ Consume(w)
<1>0. pass[w] \in PassTypes
  BY DEF Shapes
<1>1. CASE DiscoverTopic(w)
  <2>1. PICK topic \in Topics : topic = TopicOf[current(w)]
    BY <1>1, CurrentIsHeld, NamesAssumption DEF DiscoverTopic
  <2>2. CASE Step(w, [pass[w] EXCEPT !.pc = "decode"])
    <3>1. [pass[w] EXCEPT !.pc = "decode"] \in PassTypes
      BY <1>0 DEF PassTypes, PassPCs
    <3> QED
      BY <1>0, <2>2, <3>1 DEF PassTypes
  <2>3. CASE Step(w, [pass[w] EXCEPT !.pc = "decode", !.fresh = topic])
    <3>1. [pass[w] EXCEPT !.pc = "decode", !.fresh = topic] \in PassTypes
      BY <1>0 DEF PassTypes, PassPCs
    <3> QED
      BY <1>0, <2>3, <3>1 DEF PassTypes
  <2> QED
    BY <1>1, <2>1, <2>2, <2>3 DEF DiscoverTopic
<1>2. CASE Consume(w)
  <2>1. [pass[w] EXCEPT !.next = @ + 1] \in PassTypes
    BY <1>0 DEF PassTypes
  <2>2. Step(w, [pass[w] EXCEPT !.next = @ + 1]) /\ pass[w].pc = "consume"
    BY <1>2 DEF Consume
  <2> QED
    BY <1>0, <1>2, <2>1, <2>2 DEF PassTypes
<1>3. CASE RaiseInRow(w)
  <2>1. [pass[w] EXCEPT !.pc = "failed", !.fresh = NoTopic] \in PassTypes
    BY <1>0 DEF PassTypes, PassPCs
  <2>2. Step(w, [pass[w] EXCEPT !.pc = "failed", !.fresh = NoTopic])
    BY <1>3 DEF RaiseInRow
  <2> QED
    BY <1>0, <1>3, <2>1, <2>2 DEF PassTypes
<1> QED
  BY <1>1, <1>2, <1>3

\* The steps that end a row in its pass.
LEMMA Endings ==
    ASSUME TypeOK, Next, NEW w \in Workers, NEW l \in pass'[w].batch,
           pass'[w].new[l] # "pending"
    PROVE  /\ l \in pass[w].batch
           /\ \/ pass'[w].new[l] = pass[w].new[l]
              \/ l = current(w) /\
                   \/ StampEvent(w) /\ pass'[w].new[l] = "stamped"
                   \/ /\ \/ RunProcessor(w) /\ l \in Unreadable
                         \/ AfterFailedRow(w) /\ spent(l)
                      /\ pass'[w].new[l] = "quarantined"
<1> DEFINE Ended1 == /\ l \in pass[w].batch
                     /\ \/ pass'[w].new[l] = pass[w].new[l]
                        \/ l = current(w) /\
                            \/ StampEvent(w) /\ pass'[w].new[l] = "stamped"
                            \/ /\ \/ RunProcessor(w) /\ l \in Unreadable
                                  \/ AfterFailedRow(w) /\ spent(l)
                               /\ pass'[w].new[l] = "quarantined"
<1> SUFFICES Ended1
  OBVIOUS
<1>0. Shapes /\ Busy /\ Locks /\ pass[w] \in PassTypes
  BY TypeParts DEF Shapes
<1>1. CASE pass'[w] = pass[w]
  BY <1>1
<1>2. ASSUME NEW ending \in {"pending"} \cup Ended, EndRow(w, ending),
             pass[w].pc \in {"row", "decode", "consume", "failed"}
      PROVE  /\ l \in pass[w].batch
             /\ l # current(w) => pass'[w].new[l] = pass[w].new[l]
             /\ l = current(w) => pass'[w].new[l] = ending
  <2>1. /\ pass'[w].batch = pass[w].batch
        /\ pass'[w].new = [pass[w].new EXCEPT ![current(w)] = ending]
    BY <1>0, <1>2, EndRowShape
  <2> QED
    BY <1>0, <2>1 DEF PassTypes
<1>3. CASE ClaimBatch(w)
  <2>1. PICK batch \in SUBSET Letters :
            Step(w, [NoPass EXCEPT !.pc = "row", !.batch = batch, !.left = batch])
    BY <1>3 DEF ClaimBatch
  <2>2. l \in batch /\ pass'[w].new[l] = "pending"
    BY <1>0, <2>1 DEF Step, NoPass, Shapes
  <2> QED
    BY <2>2
<1>4. CASE Step(w, NoPass)
  BY <1>0, <1>4 DEF Step, NoPass, Shapes
<1>5. CASE CommitPass(w)
  BY <1>0, <1>5 DEF CommitPass, Step, NoPass, Shapes
<1>6. CASE DiscoverTopic(w) \/ Consume(w) \/ RaiseInRow(w)
  <2>1. PICK next \in PassTypes :
            Step(w, next) /\ next.batch = pass[w].batch /\ next.new = pass[w].new
    BY <1>0, <1>6, InRow
  <2> QED
    BY <1>0, <2>1, StepShape
<1>7. CASE RunProcessor(w)
  <2>1. CASE EndRow(w, "quarantined") /\ current(w) \in Unreadable
    BY <1>2, <1>7, <2>1 DEF RunProcessor, Ended
  <2>2. CASE Step(w, [pass[w] EXCEPT !.pc = "consume", !.next = 1])
    BY <1>0, <2>2 DEF Step, Shapes, PassTypes
  <2> QED
    BY <1>7, <2>1, <2>2 DEF RunProcessor
<1>8. CASE StampEvent(w)
  BY <1>2, <1>8 DEF StampEvent, Ended
<1>9. CASE AfterFailedRow(w)
  <2>1. CASE EndRow(w, "quarantined") /\ spent(current(w))
    BY <1>2, <1>9, <2>1 DEF AfterFailedRow, Ended
  <2>2. CASE EndRow(w, "pending")
    BY <1>2, <1>9, <2>2 DEF AfterFailedRow, Ended
  <2> QED
    BY <1>9, <2>1, <2>2 DEF AfterFailedRow
<1>10. CASE MarkKnown(w) \/ LosePass(w) \/ CrashWorker(w)
  BY <1>4, <1>10 DEF MarkKnown, LosePass, CrashWorker
<1>11. CASE \E k \in Letters : FileLetter(k)
  BY <1>1, <1>11 DEF FileLetter
<1>12. ASSUME NEW v \in Workers, v # w,
              ClaimBatch(v) \/ Work(v) \/ RaiseInRow(v) \/ LosePass(v) \/ CrashWorker(v)
       PROVE  pass'[w] = pass[w]
  BY <1>0, <1>12, ClaimKeeps, WorkKeeps DEF KeepsClaim, WellKept
<1> HIDE DEF Ended1
<1> QED
  BY <1>1, <1>3, <1>5, <1>6, <1>7, <1>8, <1>9, <1>10, <1>11, <1>12 DEF Next, Work

LEMMA ReasonsStep ==
    ASSUME TypeOK, Honest, Next
    PROVE  Reasons'
<1> SUFFICES ASSUME NEW w \in Workers, NEW l \in pass'[w].batch,
                    pass'[w].new[l] # "pending"
             PROVE  /\ pass'[w].new[l] = "stamped" => {l} \X Consumers \subseteq heard'
                    /\ pass'[w].new[l] = "quarantined" =>
                        l \in Unreadable \/ row'[l].attempts + 1 >= MaxAttempts
  BY DEF Reasons
<1>0. Shapes /\ Busy /\ pass[w] \in PassTypes /\ heard \subseteq heard'
  BY TypeParts, HeardGrows DEF Shapes
<1>1. l \in pass[w].batch /\ row'[l] = row[l]
  BY Endings, ClaimedRowStays
<1>2. CASE pass'[w].new[l] = pass[w].new[l]
  BY <1>0, <1>1, <1>2 DEF Honest, Reasons
<1>3. CASE l = current(w) /\ StampEvent(w) /\ pass'[w].new[l] = "stamped"
  <2>1. pass[w].next \in Nat \ {0} /\ pass[w].next \notin Consumers
    BY <1>0, <1>3 DEF StampEvent, PassTypes
  <2>2. ASSUME NEW c \in Consumers PROVE c < pass[w].next
    <3>1. c \in Nat /\ 1 .. c \subseteq Consumers
      BY ConsumersAssumption
    <3>2. pass[w].next \notin 1 .. c
      BY <2>1, <3>1
    <3> QED
      BY <2>1, <3>1, <3>2
  <2>3. \A c \in Consumers : <<l, c>> \in heard
    BY <1>3, <2>2 DEF Honest, InOrder, StampEvent
  <2> QED
    BY <1>0, <1>3, <2>3
<1>4. CASE /\ l \in Unreadable \/ spent(l)
           /\ pass'[w].new[l] = "quarantined"
  BY <1>1, <1>4 DEF spent
<1> QED
  BY <1>2, <1>3, <1>4, Endings

LEMMA InOrderStep ==
    ASSUME TypeOK, Honest, Next
    PROVE  InOrder'
<1> SUFFICES ASSUME NEW w \in Workers, pass'[w].pc = "consume",
                    NEW c \in Consumers, c < pass'[w].next
             PROVE  <<current(w)', c>> \in heard'
  BY DEF InOrder
<1>0. Shapes /\ Busy /\ pass[w] \in PassTypes /\ heard \subseteq heard'
  BY TypeParts, HeardGrows DEF Shapes
<1>1. CASE pass'[w] = pass[w]
  BY <1>0, <1>1 DEF Honest, InOrder, current
<1>2. CASE RunProcessor(w)
  <2>1. CASE EndRow(w, "quarantined")
    BY <1>0, <1>2, <2>1, EndRowShape DEF RunProcessor, Ended
  <2>2. CASE Step(w, [pass[w] EXCEPT !.pc = "consume", !.next = 1])
    <3>1. pass'[w].next = 1
      BY <1>0, <2>2 DEF Step, Shapes, PassTypes
    <3> QED
      BY <3>1, ConsumersAssumption
  <2> QED
    BY <1>2, <2>1, <2>2 DEF RunProcessor
<1>3. CASE Consume(w)
  <2>1. /\ pass'[w].next = pass[w].next + 1 /\ pass'[w].left = pass[w].left
        /\ pass[w].pc = "consume" /\ pass[w].next \in Nat
        /\ heard' = heard \cup {<<current(w), pass[w].next>>}
    BY <1>0, <1>3 DEF Consume, Step, Shapes, PassTypes
  <2>2. current(w)' = current(w)
    BY <2>1 DEF current
  <2>3. c < pass[w].next \/ c = pass[w].next
    BY <2>1, ConsumersAssumption
  <2> QED
    BY <2>1, <2>2, <2>3 DEF Honest, InOrder
<1>4. CASE /\ ~Consume(w)
           /\ \/ DiscoverTopic(w) \/ RaiseInRow(w) \/ CommitPass(w)
              \/ MarkKnown(w) \/ LosePass(w) \/ CrashWorker(w) \/ ClaimBatch(w)
  <2>1. CASE DiscoverTopic(w) \/ RaiseInRow(w)
    <3>1. PICK next \in PassTypes :
            Step(w, next) /\ next.pc \in {"decode", "failed"}
      BY <1>0, <1>4, <2>1, InRow
    <3> QED
      BY <1>0, <3>1, StepShape
  <2>2. CASE CommitPass(w)
    <3>1. pass'[w].pc = "mark"
      BY <1>0, <2>2 DEF CommitPass, Step, NoPass, Shapes
    <3> QED
      BY <3>1
  <2>4. CASE Step(w, NoPass)
    <3>1. pass'[w].pc = "idle"
      BY <1>0, <2>4 DEF Step, NoPass, Shapes
    <3> QED
      BY <3>1
  <2>3. CASE ClaimBatch(w)
    <3>1. PICK batch \in SUBSET Letters :
            Step(w, [NoPass EXCEPT !.pc = "row", !.batch = batch, !.left = batch])
      BY <2>3 DEF ClaimBatch
    <3> QED
      BY <1>0, <3>1 DEF Step, NoPass, Shapes
  <2> QED
    BY <1>4, <2>1, <2>2, <2>3, <2>4 DEF MarkKnown, LosePass, CrashWorker
<1>5. CASE StampEvent(w) \/ AfterFailedRow(w)
  <2>1. PICK ending \in {"pending"} \cup Ended :
            EndRow(w, ending) /\ pass[w].pc \in {"consume", "failed"}
    BY <1>5 DEF StampEvent, AfterFailedRow, Ended
  <2> QED
    BY <1>0, <2>1, EndRowShape
<1>6. CASE \E k \in Letters : FileLetter(k)
  BY <1>1, <1>6 DEF FileLetter
<1>7. ASSUME NEW v \in Workers, v # w,
             ClaimBatch(v) \/ Work(v) \/ RaiseInRow(v) \/ LosePass(v) \/ CrashWorker(v)
      PROVE  pass'[w] = pass[w]
  BY <1>0, <1>7, ClaimKeeps, WorkKeeps DEF KeepsClaim, WellKept
<1> QED
  BY <1>1, <1>2, <1>3, <1>4, <1>5, <1>6, <1>7 DEF Next, Work

\* What a commit writes is what the pass had reasons for.
LEMMA EndedHonestlyStep ==
    ASSUME TypeOK, Honest, Next
    PROVE  EndedHonestly'
<1> SUFFICES ASSUME NEW l \in Letters
             PROVE  /\ row'[l].state = "stamped" => {l} \X Consumers \subseteq heard'
                    /\ row'[l].state = "quarantined" =>
                        l \in Unreadable \/ row'[l].attempts >= MaxAttempts
  BY DEF EndedHonestly
<1>0. Shapes /\ heard \subseteq heard'
  BY TypeParts, HeardGrows
<1>1. CASE row'[l] = row[l]
  BY <1>0, <1>1 DEF Honest, EndedHonestly
<1>2. CASE /\ row[l].state = "absent"
           /\ row'[l] = [row[l] EXCEPT !.state = Filed(l)]
  BY <1>0, <1>2 DEF Filed, Shapes
<1>3. ASSUME NEW w \in Workers, l \in pass[w].batch,
             row'[l] = [state |-> pass[w].new[l], attempts |-> row[l].attempts + 1]
      PROVE  /\ row'[l].state = "stamped" => {l} \X Consumers \subseteq heard'
             /\ row'[l].state = "quarantined" =>
                    l \in Unreadable \/ row'[l].attempts >= MaxAttempts
  <2>1. /\ pass[w].new[l] = "stamped" => {l} \X Consumers \subseteq heard
        /\ pass[w].new[l] = "quarantined" =>
                l \in Unreadable \/ row[l].attempts + 1 >= MaxAttempts
    BY <1>3 DEF Honest, Reasons
  <2>2. row'[l].state = pass[w].new[l] /\ row'[l].attempts = row[l].attempts + 1
    BY <1>3
  <2> QED
    BY <1>0, <2>1, <2>2
<1> QED
  BY <1>0, <1>1, <1>2, <1>3, RowChanges

LEMMA HonestAlways == Spec => []Honest
<1>1. Init => TypeOK /\ Honest
  <2> SUFFICES ASSUME Init PROVE Honest
    BY TypeInit
  <2>1. \A w \in Workers : pass[w] = NoPass
    BY DEF Init
  <2>2. \A l \in Letters : row[l].state \in {"absent", "pending", "kept"}
    BY DEF Init, Filed
  <2> QED
    BY <2>1, <2>2 DEF Honest, EndedHonestly, Reasons, InOrder, NoPass
<1>2. TypeOK /\ Honest /\ [Next]_vars => (TypeOK /\ Honest)'
  <2> SUFFICES ASSUME TypeOK, Honest, [Next]_vars PROVE Honest'
    BY TypeStep
  <2>1. CASE Next
    BY <2>1, ReasonsStep, InOrderStep, EndedHonestlyStep DEF Honest
  <2>2. CASE UNCHANGED vars
    BY <2>2 DEF vars, Honest, EndedHonestly, Reasons, InOrder, current
  <2> QED
    BY <2>1, <2>2
<1>3. Spec => [](TypeOK /\ Honest)
  BY <1>1, <1>2, PTL DEF Spec
<1> QED
  BY <1>3, PTL

\* A letter is stamped when every consumer has heard it, and quarantined when it
\* cannot be read or has failed as often as allowed, whatever was rolled back,
\* retried or lost on the way.
THEOREM EndsHonestly == Spec => []EndedHonestly
<1>1. Honest => EndedHonestly
  BY DEF Honest
<1> QED
  BY <1>1, HonestAlways, PTL

-----------------------------------------------------------------------------
(* What a process knows.                                                   *)

Marked == \A w \in Workers : pass[w].pc = "mark" => pass[w].found \subseteq schemas

LEMMA KnownStep ==
    ASSUME TypeOK, KnownIsWritten, Marked, Next
    PROVE  KnownIsWritten' /\ Marked'
<1>0. Shapes /\ Busy
  BY TypeParts
<1>1. schemas \subseteq schemas'
  BY DEF Next, FileLetter, ClaimBatch, Work, RaiseInRow, LosePass, CrashWorker,
         DiscoverTopic, RunProcessor, Consume, StampEvent, AfterFailedRow,
         CommitPass, MarkKnown
<1>2. ASSUME NEW w \in Workers, known'[w] # known[w]
      PROVE  known'[w] \subseteq schemas \cup Declared
  <2>1. ASSUME NEW v \in Workers, DiscoverTopic(v)
        PROVE  known'[w] \subseteq known[w] \cup Declared
    BY <1>0, <2>1 DEF DiscoverTopic, Shapes
  <2>2. ASSUME NEW v \in Workers, MarkKnown(v)
        PROVE  known'[w] \subseteq known[w] \cup schemas
    BY <1>0, <2>2 DEF MarkKnown, Shapes, Marked
  <2>3. ASSUME NEW v \in Workers, CrashWorker(v)
        PROVE  known'[w] \subseteq known[w]
    BY <1>0, <2>3 DEF CrashWorker, Shapes
  <2> QED
    BY <1>2, <2>1, <2>2, <2>3 DEF KnownIsWritten, Next, FileLetter, ClaimBatch,
        Work, RaiseInRow, LosePass, RunProcessor, Consume, StampEvent,
        AfterFailedRow, CommitPass
<1>3. ASSUME NEW w \in Workers, pass'[w].pc = "mark"
      PROVE  pass'[w] = pass[w] \/ pass'[w].found \subseteq schemas'
  <2>1. CASE CommitPass(w)
    <3>1. pass'[w].found = pass[w].found /\ schemas' = schemas \cup pass[w].found
      BY <1>0, <2>1 DEF CommitPass, Step, NoPass, Shapes
    <3> QED
      BY <3>1
  <2>2. CASE Step(w, NoPass)
    BY <1>0, <1>3, <2>2 DEF Step, NoPass, Shapes
  <2>3. CASE DiscoverTopic(w) \/ Consume(w) \/ RaiseInRow(w)
    <3>1. PICK next \in PassTypes : /\ Step(w, next)
                                    /\ next.pc \in {"decode", "failed"} \/ Consume(w)
      BY <1>0, <2>3, InRow
    <3>2. CASE next.pc \in {"decode", "failed"}
      BY <1>0, <1>3, <3>1, <3>2, StepShape
    <3>3. CASE Consume(w)
      <4>1. pass'[w].pc = "consume"
        BY <1>0, <3>3 DEF Consume, Step, Shapes, PassTypes
      <4> QED
        BY <1>3, <4>1
    <3> QED
      BY <3>1, <3>2, <3>3
  <2>4. ASSUME NEW ending \in {"pending"} \cup Ended, EndRow(w, ending),
               pass[w].pc \in {"row", "decode", "consume", "failed"}
        PROVE  FALSE
    BY <1>0, <1>3, <2>4, EndRowShape
  <2>5. CASE StampEvent(w) \/ AfterFailedRow(w)
    BY <2>4, <2>5 DEF StampEvent, AfterFailedRow, Ended
  <2>6. CASE RunProcessor(w)
    <3>1. CASE Step(w, [pass[w] EXCEPT !.pc = "consume", !.next = 1])
      <4>1. pass'[w].pc = "consume"
        BY <1>0, <3>1 DEF Step, Shapes, PassTypes
      <4> QED
        BY <1>3, <4>1
    <3> QED
      BY <2>4, <2>6, <3>1 DEF RunProcessor, Ended
  <2>7. CASE ClaimBatch(w)
    <3>1. PICK batch \in SUBSET Letters :
            Step(w, [NoPass EXCEPT !.pc = "row", !.batch = batch, !.left = batch])
      BY <2>7 DEF ClaimBatch
    <3> QED
      BY <1>0, <1>3, <3>1 DEF Step, NoPass, Shapes
  <2>8. CASE \E k \in Letters : FileLetter(k)
    BY <2>8 DEF FileLetter
  <2>9. ASSUME NEW v \in Workers, v # w,
              ClaimBatch(v) \/ Work(v) \/ RaiseInRow(v) \/ LosePass(v) \/ CrashWorker(v)
        PROVE  pass'[w] = pass[w]
    BY <1>0, <2>9, ClaimKeeps, WorkKeeps DEF KeepsClaim, WellKept
  <2> QED
    BY <2>1, <2>2, <2>3, <2>5, <2>6, <2>7, <2>8, <2>9
       DEF Next, Work, MarkKnown, LosePass, CrashWorker
<1>4. KnownIsWritten'
  BY <1>1, <1>2 DEF KnownIsWritten
<1>5. Marked'
  BY <1>1, <1>3 DEF Marked
<1> QED
  BY <1>4, <1>5

\* A process skips the nudge row of a topic only when the row is committed or
\* the catalog declares the topic, after any rollback of a row or a pass.
THEOREM KnowsWritten == Spec => []KnownIsWritten
<1>1. Init => TypeOK /\ KnownIsWritten /\ Marked
  BY TypeInit DEF Init, KnownIsWritten, Marked, NoPass
<1>2. TypeOK /\ KnownIsWritten /\ Marked /\ [Next]_vars
        => (TypeOK /\ KnownIsWritten /\ Marked)'
  <2> SUFFICES ASSUME TypeOK, KnownIsWritten, Marked, [Next]_vars
               PROVE  KnownIsWritten' /\ Marked'
    BY TypeStep
  <2>1. CASE Next
    BY <2>1, KnownStep
  <2>2. CASE UNCHANGED vars
    BY <2>2 DEF vars, KnownIsWritten, Marked
  <2> QED
    BY <2>1, <2>2
<1> QED
  BY <1>1, <1>2, PTL DEF Spec

-----------------------------------------------------------------------------
(* A letter ends once, and the spine is a letter log.                      *)

\* Whoever is heard is heard of a letter that is claimed, hence pending.
LEMMA HeardIsPending ==
    ASSUME TypeOK, Next, NEW l \in Letters, NEW c \in Consumers,
           <<l, c>> \in heard', <<l, c>> \notin heard
    PROVE  /\ heard' = heard \cup {<<l, c>>} /\ UNCHANGED row
           /\ row[l].state = "pending"
<1>0. Shapes /\ Busy /\ Locks
  BY TypeParts
<1>1. PICK w \in Workers : Consume(w)
  BY DEF Next, FileLetter, ClaimBatch, Work, RaiseInRow, LosePass, CrashWorker,
         DiscoverTopic, RunProcessor, StampEvent, AfterFailedRow, CommitPass,
         MarkKnown
<1>2. l = current(w) /\ c = pass[w].next
  BY <1>1 DEF Consume
<1>3. current(w) \in pass[w].batch
  BY <1>0, <1>1, CurrentIsHeld DEF Consume
<1> QED
  BY <1>0, <1>1, <1>2, <1>3 DEF Consume, Locks

\* No replica hears, stamps or quarantines a letter that has ended.
THEOREM EndsOnce == Spec => EndedIsFinal
<1>1. TypeOK /\ [Next]_vars =>
        [\A l \in Letters : row[l].state \in Ended =>
            /\ row'[l] = row[l]
            /\ \A c \in Consumers : <<l, c>> \in heard' => <<l, c>> \in heard]_vars
  <2> SUFFICES ASSUME TypeOK, Next, NEW l \in Letters, row[l].state \in Ended
               PROVE  /\ row'[l] = row[l]
                      /\ \A c \in Consumers : <<l, c>> \in heard' => <<l, c>> \in heard
    OBVIOUS
  <2>0. Shapes /\ Locks
    BY TypeParts
  <2>1. row'[l] = row[l]
    BY <2>0, RowChanges DEF Locks, Ended
  <2>2. \A c \in Consumers : <<l, c>> \in heard' => <<l, c>> \in heard
    BY HeardIsPending DEF Ended
  <2> QED
    BY <2>1, <2>2
<1> QED
  BY <1>1, TypeCorrect, PTL DEF Spec, EndedIsFinal

logState == [l \in Letters |-> row[l].state]

LEMMA LogFiles ==
    ASSUME TypeOK, NEW l \in Letters, FileLetter(l)
    PROVE  Log!File(l)
<1>1. row \in [Letters -> [state : States, attempts : Nat]]
  BY TypeParts DEF Shapes
<1>2. logState' = [logState EXCEPT ![l] = Filed(l)]
  BY <1>1 DEF FileLetter, logState
<1> QED
  BY <1>2 DEF FileLetter, Log!File, Log!Filed, Filed, logState

LEMMA LogHears ==
    ASSUME TypeOK, NEW w \in Workers, Consume(w)
    PROVE  \E l \in Letters, c \in Consumers : Log!Hear(l, c)
<1>0. Shapes /\ Busy /\ Locks
  BY TypeParts
<1>1. /\ current(w) \in Letters /\ current(w) \in pass[w].batch
  BY <1>0, CurrentIsHeld DEF Consume
<1>2. row[current(w)].state = "pending" /\ pass[w].next \in Consumers
  BY <1>0, <1>1 DEF Consume, Locks
<1>3. Log!Hear(current(w), pass[w].next)
  BY <1>1, <1>2 DEF Consume, Log!Hear
<1> QED
  BY <1>1, <1>2, <1>3

\* The letters a commit ends, ended together.
LEMMA LogEnds ==
    ASSUME TypeOK, Honest, NEW w \in Workers, CommitPass(w)
    PROVE  \E stamped, quarantined \in SUBSET Letters : Log!End(stamped, quarantined)
<1>0. Shapes /\ Locks /\ pass[w] \in PassTypes
  BY TypeParts DEF Shapes
<1>1. PICK read \in SUBSET Letters, parked \in SUBSET Letters :
        /\ read = {l \in pass[w].batch : pass[w].new[l] = "stamped"}
        /\ parked = {l \in pass[w].batch : pass[w].new[l] = "quarantined"}
  BY <1>0 DEF PassTypes
<1>2. \A l \in read \cup parked : row[l].state = "pending"
  BY <1>0, <1>1 DEF Locks
<1>3. \A l \in read : {l} \X Consumers \subseteq heard
  BY <1>1 DEF Honest, Reasons
<1>4. ASSUME NEW l \in Letters
      PROVE  row'[l].state = CASE l \in read -> "stamped"
                               [] l \in parked -> "quarantined"
                               [] OTHER -> row[l].state
  <2>1. CASE l \notin pass[w].batch
    BY <1>1, <2>1 DEF CommitPass
  <2>2. CASE l \in pass[w].batch
    <3>1. row'[l].state = pass[w].new[l] /\ row[l].state = "pending"
      BY <1>0, <2>2 DEF CommitPass, Locks
    <3>2. pass[w].new[l] \in {"pending", "stamped", "quarantined"}
      BY <1>0 DEF PassTypes, Ended
    <3> QED
      BY <1>1, <2>2, <3>1, <3>2
  <2> QED
    BY <2>1, <2>2
<1>5. logState' = [l \in Letters |-> CASE l \in read -> "stamped"
                                        [] l \in parked -> "quarantined"
                                        [] OTHER -> logState[l]]
  BY <1>4 DEF logState
<1>6. UNCHANGED heard
  BY DEF CommitPass
<1>7. Log!End(read, parked)
  BY <1>1, <1>2, <1>3, <1>5, <1>6 DEF Log!End, logState
<1> QED
  BY <1>1, <1>7

\* The claims, savepoints, rollbacks and crashes of the worker are invisible:
\* letters are filed, heard while pending, and end together once.
THEOREM SpineIsLog == Spec => ImplementsLog
<1>1. Init => Log!Init
  <2> SUFFICES ASSUME Init PROVE Log!Init
    OBVIOUS
  <2>1. logState = [l \in Letters |-> IF l \in Backlog THEN Filed(l) ELSE "absent"]
    BY DEF Init, logState
  <2> QED
    BY <2>1 DEF Init, Log!Init, Log!Filed, Filed, logState
<1>2. TypeOK /\ Honest /\ [Next]_vars => [Log!Next]_<<logState, heard>>
  <2> SUFFICES ASSUME TypeOK, Honest, [Next]_vars
               PROVE  Log!Next \/ UNCHANGED <<logState, heard>>
    OBVIOUS
  <2>1. CASE \E l \in Letters : FileLetter(l)
    BY <2>1, LogFiles DEF Log!Next
  <2>2. CASE \E w \in Workers : Consume(w)
    BY <2>2, LogHears DEF Log!Next
  <2>3. CASE \E w \in Workers : CommitPass(w)
    BY <2>3, LogEnds DEF Log!Next
  <2>4. ASSUME NEW w \in Workers, ~Consume(w), ~CommitPass(w),
               ClaimBatch(w) \/ Work(w) \/ RaiseInRow(w) \/ LosePass(w) \/ CrashWorker(w)
        PROVE  UNCHANGED <<row, heard>>
    BY <2>4 DEF ClaimBatch, Work, RaiseInRow, LosePass, CrashWorker, DiscoverTopic,
          RunProcessor, StampEvent, AfterFailedRow, MarkKnown
  <2>5. UNCHANGED <<row, heard>> => UNCHANGED <<logState, heard>>
    BY DEF logState
  <2> QED
    BY <2>1, <2>2, <2>3, <2>4, <2>5 DEF Next, vars
<1>3. Spec => []Honest
  BY HonestAlways
<1> QED
  BY <1>1, <1>2, <1>3, TypeCorrect, PTL DEF Spec, ImplementsLog, Log!Spec, logState

=============================================================================
