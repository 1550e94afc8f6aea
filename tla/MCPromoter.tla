------------------------------ MODULE MCPromoter ------------------------------
(***************************************************************************)
(* Two pods, one with its clock ahead, on which TLC runs Promoter.         *)
(***************************************************************************)
EXTENDS PromoterProps, TLC

CONSTANTS p1, p2

OneAhead == (p1 :> 0) @@ (p2 :> 1)
AlikeLeads == Permutations(Leads)
=============================================================================
