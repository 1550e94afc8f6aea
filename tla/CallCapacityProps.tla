-------------------------- MODULE CallCapacityProps --------------------------
(***************************************************************************)
(* What must hold of the channels modelled in CallCapacity.                *)
(***************************************************************************)
EXTENDS CallCapacity

\* Every variable keeps its shape; the column stays within its limits, which
\* only the two conditional UPDATEs see to.
TypeOK ==
    /\ tokens \in Nat /\ channels \in 0..Maximum
    /\ row \in [Calls -> Rows]
    /\ \A c \in Outbound : pc[c] \in OutboundPCs
    /\ \A c \in Inbound : pc[c] \in InboundPCs
    /\ onLine \in [Calls -> BOOLEAN]
    /\ sent \in [Calls -> SUBSET (Callbacks \cup {"sweep"})]
    /\ kind \in [Handlers -> Callbacks \cup {"sweep", "none"}]
    /\ call \in [Handlers -> Calls \cup {Nothing}]
    /\ seen \in [Handlers -> Rows] /\ retries \in [Calls -> Nat]
    /\ dups \in 0..MaxDuplicates /\ faults \in 0..MaxFaults

-----------------------------------------------------------------------------
(* When endings come one at a time, each after its grace.                  *)

WillRelease(h) == \E i \in 1..Len(todo[h]) : todo[h][i] = "line"

\* Whoever still has a channel to give back.
HoldsChannel(c) ==
    \/ pc[c] \in {"line", "returnLine", "placed", "orphan", "admitted"}
    \/ row[c] = "PROCESSING" /\ \A h \in AtWorkOn(c) : WillRelease(h)
    \/ /\ row[c] = "FINISHED"
       /\ \E h \in AtWorkOn(c) : WillRelease(h) /\ seen[h] = "PROCESSING"

\* The column counts the calls that hold a channel, whichever of the five ways a
\* call ends and whatever runs between any two of its steps.  A failure (a
\* swallowed UPDATE, a lost reply, a dead worker or handler) costs one channel
\* of the count, lost or given twice, never more: what the handler that comes
\* after it does is still paired with what the failed one did.
OneFaultOneChannel ==
    LET holding == Cardinality({c \in Calls : HoldsChannel(c)}) IN
    channels <= holding + faults /\ holding <= channels + faults

\* An ending that does not wait for the line gave the channel back before it was
\* down: the agent's, also of a call it transferred, the keypad policy's, and the
\* sweep's of a caller who talks longer than an outbound call may.
GivenBackEarly(c) ==
    /\ ~HoldsChannel(c)
    /\ \/ sent[c] \cap {"completion", "ivrBlock"} # {}
       \/ c \in Inbound /\ "sweep" \in sent[c]

\* "A bounded over-admit" (selection.py:297): inbound and outbound together put
\* no more calls on the trunk than the number has channels, but for those whose
\* channel one of these endings gave back while they were on it.  Every other
\* live call still has the channel it was admitted with, whatever ended or was
\* refused beside it.
LiveCallsFit ==
    faults = 0 =>
        Cardinality({c \in Calls : onLine[c] /\ ~GivenBackEarly(c)}) <= Maximum

\* While nothing fails, a call that ended is retried at most once.
RetriedOnce == faults = 0 => \A c \in Calls : retries[c] <= 1

\* With no reconciler in the way, the tokens on the list and in workers' hands
\* fit beside the lines outbound calls still hold: with no inbound call on the
\* number, no worker is refused the line its token stands for (the order of
\* _return_capacity and of every call end).
TokenHasLine ==
    faults = 0 =>
        tokens + Cardinality({c \in Calls : pc[c] = "token"})
           + Cardinality({c \in Outbound : HoldsChannel(c)}) <= Maximum

-----------------------------------------------------------------------------
(* Under duplicates and failures.                                          *)

Quiet ==
    /\ \A h \in Handlers : todo[h] = <<>>
    /\ \A c \in Calls :
        row[c] # "PROCESSING" /\ pc[c] \in {"ready", "done", "gone"}

\* When traffic stops, the reconciler brings the tokens to the free channels,
\* whatever duplicates, crashes and its own stale reads made of them.
TokensHeal == <>[]Quiet => <>[](tokens = Maximum - channels)

\* No row stays PROCESSING for ever, whichever callbacks were lost.
ProcessingEnds ==
    \A c \in Calls : (row[c] = "PROCESSING") ~> (row[c] = "FINISHED")
=============================================================================
