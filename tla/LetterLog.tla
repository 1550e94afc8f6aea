------------------------------ MODULE LetterLog ------------------------------
(***************************************************************************)
(* What the event spine promises of a letter: once filed it stays pending, *)
(* its consumers hear it while it is, and it ends once: stamped when all of *)
(* them have heard it, or quarantined.  Letters end together when the pass *)
(* that handled them commits.                                              *)
(***************************************************************************)
EXTENDS Naturals

CONSTANTS Letters, Consumers, Kept, Backlog

VARIABLES
    state,      \* letter -> absent, pending, kept, stamped or quarantined
    heard       \* <<letter, consumer>>: the consumer's own commit is done

States == {"absent", "pending", "kept", "stamped", "quarantined"}
Filed(l) == IF l \in Kept THEN "kept" ELSE "pending"

Init ==
    /\ state = [l \in Letters |-> IF l \in Backlog THEN Filed(l) ELSE "absent"]
    /\ heard = {}

File(l) ==
    /\ state[l] = "absent"
    /\ state' = [state EXCEPT ![l] = Filed(l)]
    /\ UNCHANGED heard

Hear(l, c) ==
    /\ state[l] = "pending"
    /\ heard' = heard \cup {<<l, c>>}
    /\ UNCHANGED state

End(stamped, quarantined) ==
    /\ \A l \in stamped \cup quarantined : state[l] = "pending"
    /\ \A l \in stamped : {l} \X Consumers \subseteq heard
    /\ state' = [l \in Letters |-> CASE l \in stamped -> "stamped"
                                     [] l \in quarantined \ stamped -> "quarantined"
                                     [] OTHER -> state[l]]
    /\ UNCHANGED heard

Next ==
    \/ \E l \in Letters : File(l)
    \/ \E l \in Letters, c \in Consumers : Hear(l, c)
    \/ \E stamped, quarantined \in SUBSET Letters : End(stamped, quarantined)

Spec == Init /\ [][Next]_<<state, heard>>
=============================================================================
