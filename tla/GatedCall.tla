------------------------------ MODULE GatedCall ------------------------------
(***************************************************************************)
(* What a chat session promises of a gated tool call: the model asks for   *)
(* it once, it is put to a person, who approves it or does not (or time or *)
(* the next message closes it), and it is answered once.  Its tool runs    *)
(* between the approval and the answer, at most once.  An answer that was  *)
(* written and reported as failed may be written once more.                *)
(***************************************************************************)
EXTENDS Naturals

CONSTANT Calls

VARIABLES
    state,      \* call -> new, asked, open, approved or closed
    ran,        \* call -> executions of its tool
    answers,    \* call -> answers in the history
    doubted     \* calls whose answer was reported as failed

Init ==
    /\ state = [c \in Calls |-> "new"]
    /\ ran = [c \in Calls |-> 0] /\ answers = [c \in Calls |-> 0]
    /\ doubted = {}

\* All of cs go from one state to another.
Move(cs, from, to) ==
    /\ \A c \in cs : state[c] = from
    /\ state' = [c \in Calls |-> IF c \in cs THEN to ELSE state[c]]
    /\ UNCHANGED <<ran, answers, doubted>>

Run(c) ==
    /\ state[c] = "approved" /\ answers[c] = 0 /\ ran[c] = 0
    /\ ran' = [ran EXCEPT ![c] = 1]
    /\ UNCHANGED <<state, answers, doubted>>

\* One row may answer several calls.
Answer(cs, doubts) ==
    /\ \A c \in cs : /\ state[c] \in {"approved", "closed"}
                     /\ answers[c] = 0 \/ (answers[c] = 1 /\ c \in doubted)
    /\ doubts \subseteq cs \ doubted
    /\ answers' = [c \in Calls |-> answers[c] + IF c \in cs THEN 1 ELSE 0]
    /\ doubted' = doubted \cup doubts
    /\ UNCHANGED <<state, ran>>

Next ==
    \/ \E cs \in SUBSET Calls :
        \/ Move(cs, "new", "asked") \/ Move(cs, "open", "closed")
        \/ \E doubts \in SUBSET cs : Answer(cs, doubts)
    \/ \E c \in Calls :
        Move({c}, "asked", "open") \/ Move({c}, "open", "approved") \/ Run(c)

Spec == Init /\ [][Next]_<<state, ran, answers, doubted>>
=============================================================================
