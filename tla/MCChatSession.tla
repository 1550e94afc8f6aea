---------------------------- MODULE MCChatSession ----------------------------
(***************************************************************************)
(* The instances of ChatSession that TLC checks.                           *)
(***************************************************************************)
EXTENDS ChatSessionProps, TLC

Alike == Permutations(Requests) \cup Permutations(Bots) \cup Permutations(Calls)
=============================================================================
