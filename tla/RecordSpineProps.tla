--------------------------- MODULE RecordSpineProps ---------------------------
(***************************************************************************)
(* What must hold of the event worker modelled in RecordSpine.             *)
(***************************************************************************)
EXTENDS RecordSpine

States == {"absent", "pending", "kept", "stamped", "quarantined"}
Ended == {"stamped", "quarantined"}

\* Every variable keeps its shape; no two open passes hold the lock of one row,
\* and a locked row is pending.
TypeOK ==
    /\ row \in [Letters -> [state : States, attempts : Nat]]
    /\ pass \in [Workers ->
            [pc : {"idle", "row", "decode", "consume", "failed", "commit", "mark"},
             batch : SUBSET Letters, left : SUBSET Letters, next : Nat \ {0},
             new : [Letters -> {"pending"} \cup Ended],
             found : SUBSET Topics, fresh : Topics \cup {NoTopic}]]
    /\ known \in [Workers -> SUBSET Topics] /\ schemas \in SUBSET Topics
    /\ heard \in SUBSET (Letters \X Consumers) /\ faults \in Nat
    /\ \A w \in Workers :
        /\ pass[w].left \subseteq pass[w].batch
        /\ pass[w].left # {} <=> pass[w].pc \notin {"idle", "commit", "mark"}
        /\ \A l \in pass[w].batch :
            /\ row[l].state = "pending"
            /\ \A v \in Workers : l \in pass[v].batch => v = w

\* A letter ends for a reason: stamped when every consumer has heard it, and
\* quarantined when it cannot be read or has failed as often as allowed.
EndedHonestly ==
    \A l \in Letters :
        /\ row[l].state = "stamped" => {l} \X Consumers \subseteq heard
        /\ row[l].state = "quarantined" =>
                l \in Unreadable \/ row[l].attempts >= MaxAttempts

\* A process skips the nudge row of a topic only when the row is committed: a
\* row rolled back with its letter or its pass is written again.
KnownIsWritten == \A w \in Workers : known[w] \subseteq schemas \cup Declared

\* A letter ends once: no replica hears or stamps a letter another has ended,
\* whatever it claimed before.
EndedIsFinal ==
    [][\A l \in Letters : row[l].state \in Ended =>
        /\ row'[l] = row[l]
        /\ \A c \in Consumers : <<l, c>> \in heard' => <<l, c>> \in heard]_vars

\* Every filed letter ends: poison letters reach the ceiling, and neither they
\* nor replicas that wait on each other hold up the letters behind them.
SpineDrains ==
    \A l \in Letters : row[l].state = "pending" ~> row[l].state \in Ended

\* The spine is a letter log.
Log == INSTANCE LetterLog WITH state <- [l \in Letters |-> row[l].state]
ImplementsLog == Log!Spec

\* db/queries.py, claim_pending_events: "counted by the claim, not by
\* the failure, so a crash mid-row counts against the row".
CrashCounts ==
    [][\A w \in Workers, l \in Letters :
        l \in pass[w].batch /\ l \notin pass'[w].batch =>
            row'[l].attempts = row[l].attempts + 1]_vars
=============================================================================
