--------------------------- MODULE MCEventDelivery ---------------------------
(* Small instances of EventDelivery for TLC. *)
EXTENDS EventDelivery, TLC

CONSTANTS l1, r, p, q
=============================================================================
