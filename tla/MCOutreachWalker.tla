-------------------------- MODULE MCOutreachWalker --------------------------
(***************************************************************************)
(* The boards and letters on which TLC walks OutreachWalker's runs.        *)
(***************************************************************************)
EXTENDS OutreachWalkerProps, TLC

CONSTANTS ask, ring, thank, rest, pick, checkout, reply, order, edit

Door(start) == [start |-> start, refresh |-> FALSE, debounce |-> FALSE,
                anywhere |-> FALSE, reenter |-> TRUE]
Document(arrows, listening, door, migrate) ==
    [squares |-> {e[1] : e \in arrows}, edges |-> arrows, ears |-> listening,
     door |-> door, migrate |-> migrate]

\* She is asked, called when she stays silent, left alone until the window
\* opens when she wants that, and asked again.
AskAndRing ==
    (1 :> Document({<<ask, "timeout", ring>>, <<ask, "again", rest>>,
                    <<ring, "next", ask>>, <<rest, "next", ask>>}, <<ask>>, Door(ask),
                   FALSE))

\* She is asked once and called.  Version 2 gives up the call, with the rest
\* after it, and on the word of a rule thanks her.  The letter she answers
\* with is also on the door, where a repeat slides the alarm of any square.
AskOnce ==
    LET sliding == [Door(ask) EXCEPT !.debounce = TRUE, !.anywhere = TRUE,
                                     !.reenter = FALSE]
    IN
    (1 :> Document({<<ask, "else", ring>>, <<ring, "next", rest>>,
                    <<rest, "next", "end">>}, <<ask>>, sliding, FALSE))
    @@
    (2 :> Document({<<ask, "else", pick>>, <<pick, "kind", thank>>,
                    <<pick, "rude", "end">>, <<thank, "next", "end">>},
                   <<ask>>, sliding, TRUE))

\* An edited checkout refreshes the facts and leaves the alarm alone.
AskFresh ==
    (1 :> Document({<<ask, "else", ring>>, <<ring, "next", "end">>}, <<ask>>,
                   [Door(ask) EXCEPT !.refresh = TRUE, !.reenter = FALSE],
                   FALSE))

Alike == Permutations(Walkers) \cup Permutations(Runs)
ReplyAgain == (checkout :> "cart") @@ (reply :> "again") @@ (order :> "paid")
              @@ (edit :> "cart")
HeardOnAsk == (checkout :> {}) @@ (reply :> {ask}) @@ (order :> {}) @@ (edit :> {})
InOrder == (checkout :> 1) @@ (reply :> 2) @@ (order :> 3) @@ (edit :> 4)

\* The boards of the runs keep a wait on the way back to a call.
ASSUME BoardsWait == CyclesWait
=============================================================================
