----------------------------- MODULE MCAccounts -----------------------------
(* Accounts for TLC: the requests that come together. *)
EXTENDS Accounts

CONSTANTS e1, boss, r1, r2, m1, l1, c1, c2, k1, k2

MCArrivals ==
  { {r1, r2, m1, k1},  \* two registrations and a command for an address with an order
    {r1, m1, k1, k2},  \* ... with two orders
    {r1, l1, k1, c1},  \* orders by token and without one, and a ban
    {m1, l1, c1, c2} } \* applications, verdicts and bans for every role
=============================================================================
