---------------------------- MODULE TicketLedger ----------------------------
(***************************************************************************)
(* What booking, payment and expiry promise about one order, as seen by    *)
(* any reader of the database: an order and all of its tickets appear in   *)
(* one step; then either all of them become paid in one step, for good, or *)
(* all of them are given back in one step, for good.                       *)
(***************************************************************************)
CONSTANTS
  Orders,
  Ticket     \* all the ticket rows there may ever be

VARIABLES
  status,    \* "none", "pending", "paid" or "cancelled"
  held,      \* the ticket rows of each order
  sold       \* those of them that are paid

ledgerVars == <<status, held, sold>>

LedgerInit ==
  /\ status = [o \in Orders |-> "none"]
  /\ held = [o \in Orders |-> {}]
  /\ sold = [o \in Orders |-> {}]

Reserve(o) ==
  /\ status[o] = "none"
  /\ status' = [status EXCEPT ![o] = "pending"]
  /\ held'[o] \in (SUBSET Ticket) \ {{}}
  /\ held' = [held EXCEPT ![o] = held'[o]]
  /\ UNCHANGED sold

Settle(o) ==
  /\ status[o] = "pending"
  /\ status' = [status EXCEPT ![o] = "paid"]
  /\ sold' = [sold EXCEPT ![o] = held[o]]
  /\ UNCHANGED held

GiveBack(o) ==
  /\ status[o] = "pending"
  /\ status' = [status EXCEPT ![o] = "cancelled"]
  /\ held' = [held EXCEPT ![o] = {}]
  /\ UNCHANGED sold

LedgerNext == \E o \in Orders : Reserve(o) \/ Settle(o) \/ GiveBack(o)

LedgerSpec == LedgerInit /\ [][LedgerNext]_ledgerVars
=============================================================================
