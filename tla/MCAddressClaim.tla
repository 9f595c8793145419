--------------------------- MODULE MCAddressClaim ---------------------------
(* TLC instances of AddressClaim: few devices on a bus with few addresses. *)
EXTENDS AddressClaim
=============================================================================
