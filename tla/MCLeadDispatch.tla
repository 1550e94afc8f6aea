--------------------------- MODULE MCLeadDispatch ---------------------------
(***************************************************************************)
(* LeadDispatch on small instances: its properties and what TLC needs.     *)
(***************************************************************************)
EXTENDS LeadDispatchProps, TLC

Symmetry == Permutations(Leads) \cup Permutations(Workers)
=============================================================================
