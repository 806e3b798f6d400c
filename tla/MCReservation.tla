-------------------------- MODULE MCReservation --------------------------
(* Small instances of Reservation for TLC. *)
EXTENDS Reservation

CONSTANTS o1, o2, c1, c2

Of(c, n) == [category |-> c, quantity |-> n]

\* One seat, or two, per category.
OneSeat == [c \in Categories |-> 1]
TwoSeats == [c \in Categories |-> 2]

\* One unit of one category.
SingleRequests == {<<Of(c1, 1)>>}

\* Requests that lock both categories, one that takes a category whole, and one
\* that names a category twice.
ContendingRequests == {<<Of(c1, 1), Of(c2, 1)>>, <<Of(c2, 2)>>, <<Of(c2, 2), Of(c2, 1)>>}
=============================================================================
