--------------------------- MODULE MCCallCapacity ---------------------------
(***************************************************************************)
(* CallCapacity on small instances.                                        *)
(***************************************************************************)
EXTENDS CallCapacityProps, TLC

Symmetry == Permutations(Outbound) \cup Permutations(Inbound)
            \cup Permutations(Handlers)
=============================================================================
