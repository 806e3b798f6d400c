--------------------------- MODULE MCIdempotency ---------------------------
(* Small instances of Idempotency for TLC. *)
EXTENDS Idempotency

CONSTANTS r1, r2, r3, k1, k2

\* r3 is an unrelated request
TwoKeys == [c \in Calls |-> IF c = r3 THEN k2 ELSE k1]
=============================================================================
