------------------------- MODULE MCOutboundMessage -------------------------
(***************************************************************************)
(* OutboundMessage on small instances.                                     *)
(***************************************************************************)
EXTENDS OutboundMessageProps
=============================================================================
