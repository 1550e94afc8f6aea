---------------------------- MODULE MCRecordSpine ----------------------------
(***************************************************************************)
(* Letters on which TLC runs RecordSpine: two topics nobody declared come   *)
(* in opposite order to two replicas with batches of two, one letter is     *)
(* poison, one was filed as processed, and one of a declared topic that no *)
(* processor can read comes late.                                          *)
(***************************************************************************)
EXTENDS RecordSpineProps, TLC

CONSTANTS cart, paid, call

Crossing == (1 :> cart) @@ (2 :> paid) @@ (3 :> paid) @@ (4 :> cart)
                @@ (5 :> call) @@ (6 :> paid)
PoisonLetter == {<<2, 2>>}
=============================================================================
