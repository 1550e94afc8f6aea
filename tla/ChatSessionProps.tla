-------------------------- MODULE ChatSessionProps --------------------------
(***************************************************************************)
(* What a chat session promises.                                           *)
(***************************************************************************)
EXTENDS ChatSession

PCs == {"idle", "off", "check", "leave", "supersede", "fill", "say", "think",
        "request", "look", "decide", "refuse", "expire", "siblings", "resume",
        "run", "note", "broken", "end", "terminate", "attach", "start", "detach"}
Jobs == [op : Ops, call : Calls \cup {NoCall}, word : Words, calls : SUBSET Calls]

\* Every variable stays in its range.
TypeOK ==
    /\ session \in {"ACTIVE", "ENDED"} /\ channel \in {"CHAT", "VOICE"}
    /\ lock \in Tasks \cup {NoTask}
    /\ status \in [Calls -> ApprovalStatuses] /\ overdue \subseteq Calls
    /\ answers \in [Calls -> Nat] /\ ran \in [Calls -> Nat]
    /\ adrift \subseteq Calls /\ unsure \subseteq Calls /\ asked \subseteq Calls
    /\ attached \in Bots \cup {NoTask} /\ outlived \in BOOLEAN
    /\ pc \in [Tasks -> PCs] /\ job \in [Tasks -> Jobs]
    /\ overruns \in Nat /\ crashes \in Nat /\ faults \in Nat

\* A gated tool runs only when a person approved that very call, and never
\* twice, whatever decisions race, whichever turns are cancelled, and although
\* the lock under which they run may expire (chat/approvals.py:135).
ApprovedRunsOnce ==
    \A c \in Calls : ran[c] > 0 => ran[c] = 1 /\ status[c] = "APPROVED"

\* The history never answers one call twice, which providers reject on every
\* later replay (chat/agent/approval.py:214-217); an insert that lands and is
\* reported as failed to a cancelled turn is the one exception.
AnsweredOnce ==
    \A c \in Calls : answers[c] <= 1 + IF c \in unsure THEN 1 ELSE 0

\* A tool that ran leaves an answer in the history: it is there, or a task or a
\* shielded insert will write it.  Only a dead pod or a failed call loses it
\* (chat/agent/approval.py:233-262).
RanIsAnswered ==
    crashes = 0 /\ faults = 0 =>
        \A c \in Calls : ran[c] > 0 /\ answers[c] = 0 =>
            \/ c \in adrift
            \/ \E t \in Tasks : job[t].call = c /\ pc[t] \in {"note", "broken"}

\* The model is not invoked while an approval is open, unless the turn is an
\* internal one: the replayed context would hold calls without an answer
\* (chat/agent/approval.py:316-318).  Needs that no lock outlived its TTL.
SpeaksToSettled ==
    overruns = 0 =>
        \A t \in Tasks :
            pc[t] = "think" /\ job[t].op \in {"message", "approve"} => Pending = {}

\* On an ended session nobody is about to write a message, to ask for an
\* approval or to run a tool; the answers of calls that were under way may
\* still be written (chat/cleanup.py:54-61).
EndedIsQuiet ==
    session = "ENDED" /\ overruns = 0 =>
        \A t \in Tasks : pc[t] \notin {"say", "think", "request", "run"}

\* While the bot of the newest attachment is on, the session is on VOICE, if no
\* older bot was still on when it was attached.
AttachedIsVoice ==
    attached # NoTask /\ ~outlived /\ overruns = 0 => channel = "VOICE"

\* Where a gated call is, as its person would put it.
callState == [c \in Calls |->
    CASE status[c] = "NONE" -> IF c \in asked THEN "asked" ELSE "new"
      [] status[c] = "PENDING" -> "open"
      [] status[c] = "APPROVED" -> "approved"
      [] OTHER -> "closed"]

Gate == INSTANCE GatedCall WITH state <- callState, doubted <- unsure

\* The turns, decisions, cancels and shielded inserts of all tasks keep what
\* GatedCall promises of each call, in this order: asked, put to a person,
\* approved, run, answered (chat/approvals.py:96-109, chat/agent/approval.py:214-262).
ImplementsGate == Gate!Spec
=============================================================================
