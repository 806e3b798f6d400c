----------------------------- MODULE MCBooking -----------------------------
(* Small instances of Booking for TLC. *)
EXTENDS Booking

CONSTANTS o1, o2, c1, p1, p2, w1, w2

Of(c, n) == [category |-> c, quantity |-> n]

TwoSeats == [c \in Categories |-> 2]

\* one seat of the category
OneSeatRequests == {<<Of(c1, 1)>>}
=============================================================================
