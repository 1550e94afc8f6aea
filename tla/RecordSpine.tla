----------------------------- MODULE RecordSpine -----------------------------
(***************************************************************************)
(* The CRM event worker (app/crm/record/workers.py): replicas claim the     *)
(* oldest pending letters under FOR UPDATE SKIP LOCKED, hand each to the   *)
(* consumers inside a savepoint of its own, and commit the claim and every *)
(* stamp in one transaction.  What the consumers write commits on its own. *)
(*                                                                         *)
(* `row` holds committed values.  The writes of an open pass are `new` (the *)
(* rows it stamped or quarantined) and `found` (the topics it inserted);   *)
(* a lost pass loses them, and the attempts its claim counted.             *)
(***************************************************************************)
EXTENDS Naturals, FiniteSets

CONSTANTS
    Letters,        \* 1 .. n in the order of received_at
    Kept,           \* letters filed already processed
    Backlog,        \* letters filed before the replicas start
    Workers,        \* event-worker replicas
    NoTopic,
    Consumers,      \* 1 .. n in the order of registration
    Topics, TopicOf,
    Declared,       \* topics the code's catalog declares
    Unreadable,     \* letters the processor quarantines itself
    Poison,         \* <<letter, consumer>>: the consumer always raises
    MaxAttempts,    \* CRM_EVENT_MAX_ATTEMPTS
    Batch,          \* CRM_WORKER_BATCH
    MaxFaults       \* bound: failed statements, lost passes, dead replicas

ASSUME LettersAssumption ==
    Letters \subseteq Nat /\ Kept \subseteq Letters /\ Backlog \subseteq Letters
ASSUME ConsumersAssumption ==
    Consumers \subseteq Nat \ {0} /\ \A c \in Consumers : 1 .. c \subseteq Consumers
ASSUME NamesAssumption ==
    NoTopic \notin Topics
    /\ TopicOf \in [Letters -> Topics] /\ Declared \subseteq Topics

VARIABLES
    row,        \* crm_event_raw: letter -> [state, attempts]
    pass,       \* replica -> its open transaction
    known,      \* replica -> its in-process set of known topics
    schemas,    \* crm_event_schema: topics with a committed row
    heard,      \* <<letter, consumer>>: the consumer's own commit is done
    faults

vars == <<row, pass, known, schemas, heard, faults>>

NoPass == [pc |-> "idle", batch |-> {}, left |-> {}, next |-> 1,
           new |-> [l \in Letters |-> "pending"], found |-> {},
           fresh |-> NoTopic]

Fault == faults < MaxFaults /\ faults' = faults + 1
oldest(ls) == CHOOSE l \in ls : \A k \in ls : l <= k
current(w) == oldest(pass[w].left)
Step(w, next) == pass' = [pass EXCEPT ![w] = next]
held(w) == pass[w].found \cup ({pass[w].fresh} \ {NoTopic})

\* The transaction that claimed a row holds its lock until it ends.
locked(l) == \E w \in Workers : l \in pass[w].batch

\* A concurrent insert of the same topic waits for the other transaction.
waits(w, v) ==
    /\ w # v /\ pass[w].pc = "row" /\ pass[v].pc # "idle"
    /\ TopicOf[current(w)] \in held(v) \ (schemas \cup known[w] \cup Declared
                                                  \cup held(w))

-----------------------------------------------------------------------------
Filed(l) == IF l \in Kept THEN "kept" ELSE "pending"

\* ingest_event: a duplicate of a filed letter changes nothing.
FileLetter(l) ==
    /\ row[l].state = "absent"
    /\ row' = [row EXCEPT ![l].state = Filed(l)]
    /\ UNCHANGED <<pass, known, schemas, heard, faults>>

\* Mutants of the next definition.
claimable_Locked(l) == row[l].state = "pending"
claimable_Fresh(l) ==
    row[l].state = "pending" /\ ~locked(l) /\ row[l].attempts = 0

claimable(l) == row[l].state = "pending" /\ ~locked(l)

ClaimBatch(w) ==
    LET queue == {l \in Letters : claimable(l)} IN
    /\ pass[w].pc = "idle"
    /\ \E batch \in (SUBSET queue) \ {{}} :
        /\ \A l \in batch, k \in queue \ batch : l < k
        /\ Cardinality(batch) <= Batch
        /\ batch = queue \/ Cardinality(batch) = Batch
        /\ Step(w, [NoPass EXCEPT !.pc = "row", !.batch = batch,
                                   !.left = batch])
    /\ UNCHANGED <<row, known, schemas, heard, faults>>

\* Mutant of the next definition.
DiscoverTopic_KnownAtOnce(w) ==
    LET topic == TopicOf[current(w)] IN
    /\ pass[w].pc = "row"
    /\ Step(w, [pass[w] EXCEPT !.pc = "decode", !.fresh = topic])
    /\ known' = [known EXCEPT ![w] = @ \cup {topic}]
    /\ UNCHANGED <<row, schemas, heard, faults>>

\* The nudge row of a topic this process does not know yet.
DiscoverTopic(w) ==
    LET topic == TopicOf[current(w)] IN
    /\ pass[w].pc = "row"
    /\ \/ /\ topic \in known[w] \cup pass[w].found
          /\ Step(w, [pass[w] EXCEPT !.pc = "decode"])
          /\ UNCHANGED known
       \/ /\ topic \notin known[w] \cup pass[w].found /\ topic \in Declared
          /\ Step(w, [pass[w] EXCEPT !.pc = "decode"])
          /\ known' = [known EXCEPT ![w] = @ \cup {topic}]
       \/ /\ topic \notin known[w] \cup pass[w].found \cup Declared
          /\ \A v \in Workers : ~waits(w, v)
          /\ Step(w, [pass[w] EXCEPT !.pc = "decode", !.fresh = topic])
          /\ UNCHANGED known
    /\ UNCHANGED <<row, schemas, heard, faults>>

\* The row's savepoint is released: its writes belong to the pass.
EndRow(w, ending) ==
    Step(w, [pass[w] EXCEPT
        !.pc = IF pass[w].left = {current(w)} THEN "commit" ELSE "row",
        !.left = @ \ {current(w)}, !.new[current(w)] = ending,
        !.found = held(w), !.fresh = NoTopic])

RunProcessor(w) ==
    /\ pass[w].pc = "decode"
    /\ \/ current(w) \in Unreadable /\ EndRow(w, "quarantined")
       \/ /\ current(w) \notin Unreadable
          /\ Step(w, [pass[w] EXCEPT !.pc = "consume", !.next = 1])
    /\ UNCHANGED <<row, known, schemas, heard, faults>>

Consume(w) ==
    LET c == pass[w].next IN
    /\ pass[w].pc = "consume" /\ c \in Consumers
    /\ <<current(w), c>> \notin Poison
    /\ heard' = heard \cup {<<current(w), c>>}
    /\ Step(w, [pass[w] EXCEPT !.next = @ + 1])
    /\ UNCHANGED <<row, known, schemas, faults>>

StampEvent(w) ==
    /\ pass[w].pc = "consume" /\ pass[w].next \notin Consumers
    /\ EndRow(w, "stamped")
    /\ UNCHANGED <<row, known, schemas, heard, faults>>

\* Something raises inside the row's savepoint, which is rolled back: a poison
\* consumer, the victim the database picks when two inserts wait on each other,
\* or any failed call.
RaiseInRow(w) ==
    /\ pass[w].pc \in {"row", "decode", "consume"}
    /\ \/ /\ \/ pass[w].pc = "consume" /\ <<current(w), pass[w].next>> \in Poison
             \/ \E v \in Workers : waits(w, v) /\ waits(v, w)
          /\ UNCHANGED faults
       \/ Fault
    /\ Step(w, [pass[w] EXCEPT !.pc = "failed", !.fresh = NoTopic])
    /\ UNCHANGED <<row, known, schemas, heard>>

\* Mutant of the next definition.
spent_AtOnce(l) == TRUE

\* The attempts the claim counted have reached the ceiling.
spent(l) == row[l].attempts + 1 >= MaxAttempts

\* Below the ceiling the row stays pending.  At it, the quarantine is written in
\* a savepoint of its own, and may fail.
AfterFailedRow(w) ==
    /\ pass[w].pc = "failed"
    /\ \/ spent(current(w)) /\ EndRow(w, "quarantined") /\ UNCHANGED faults
       \/ spent(current(w)) /\ EndRow(w, "pending") /\ Fault
       \/ ~spent(current(w)) /\ EndRow(w, "pending") /\ UNCHANGED faults
    /\ UNCHANGED <<row, known, schemas, heard>>

CommitPass(w) ==
    /\ pass[w].pc = "commit"
    /\ row' = [l \in Letters |->
                IF l \in pass[w].batch
                THEN [state |-> pass[w].new[l], attempts |-> row[l].attempts + 1]
                ELSE row[l]]
    /\ schemas' = schemas \cup pass[w].found
    /\ Step(w, [NoPass EXCEPT !.pc = "mark", !.found = pass[w].found])
    /\ UNCHANGED <<known, heard, faults>>

\* run_pass, once the commit is real.
MarkKnown(w) ==
    /\ pass[w].pc = "mark"
    /\ known' = [known EXCEPT ![w] = @ \cup pass[w].found]
    /\ Step(w, NoPass)
    /\ UNCHANGED <<row, schemas, heard, faults>>

\* The connection is lost or the commit fails: everything the transaction wrote
\* is rolled back, the attempts with it.
LosePass(w) ==
    /\ pass[w].pc \notin {"idle", "mark"} /\ Fault
    /\ Step(w, NoPass)
    /\ UNCHANGED <<row, known, schemas, heard>>

\* The replica dies, or is cancelled at its shutdown, and starts again.
CrashWorker(w) ==
    /\ pass[w].pc # "idle" /\ Fault
    /\ Step(w, NoPass)
    /\ known' = [known EXCEPT ![w] = {}]
    /\ UNCHANGED <<row, schemas, heard>>

-----------------------------------------------------------------------------
Init ==
    /\ row = [l \in Letters |->
                [state |-> IF l \in Backlog THEN Filed(l) ELSE "absent", attempts |-> 0]]
    /\ pass = [w \in Workers |-> NoPass] /\ known = [w \in Workers |-> {}]
    /\ schemas = {} /\ heard = {} /\ faults = 0

Work(w) ==
    \/ DiscoverTopic(w) \/ RunProcessor(w) \/ Consume(w) \/ StampEvent(w)
    \/ AfterFailedRow(w) \/ CommitPass(w) \/ MarkKnown(w)

Next ==
    \/ \E l \in Letters : FileLetter(l)
    \/ \E w \in Workers : \/ ClaimBatch(w) \/ Work(w) \/ RaiseInRow(w)
                          \/ LosePass(w) \/ CrashWorker(w)

Spec == Init /\ [][Next]_vars

\* Replicas poll, and a pass that is open proceeds: its calls return or raise,
\* and the database breaks a deadlock.
FairSpec ==
    /\ Spec
    /\ \A w \in Workers :
        WF_vars(ClaimBatch(w)) /\ WF_vars(Work(w)) /\ WF_vars(RaiseInRow(w))
=============================================================================
