------------------------------ MODULE Booking ------------------------------
(***************************************************************************)
(* The life of orders: booking (module Reservation) composed with payment  *)
(* (OrderService.confirm_payment), expiry (expire_order, run by a worker   *)
(* for the "order:cancel_reservation" task) and the task machinery between *)
(* create and expire_order (module Tasks).                                 *)
(*                                                                         *)
(* confirm_payment and expire_order are both one transaction:              *)
(*   UPDATE orders SET status WHERE id AND status = 'pending',             *)
(*   then UPDATE or DELETE the order's tickets, then commit.               *)
(* The first UPDATE waits for the order's row lock and re-checks the       *)
(* status of the version it finds; the lock is held to the commit, and     *)
(* nothing is visible to others before it.                                 *)
(***************************************************************************)
EXTENDS Reservation, Tasks

CONSTANTS
  Payers,     \* requests to PATCH /orders/{id}/pay running at a time
  Workers,    \* cancel_reservation tasks a worker runs at a time
  MaxFaults,  \* bound: crashes and lost calls
  NoSession   \* nobody holds an order's row lock

Sessions == Payers \cup Workers

\* A task "order:cancel_reservation" is told apart by its order.
ASSUME BookingAssumption ==
  /\ Messages = Orders
  /\ Payers \cap Workers = {}
  /\ NoSession \notin Sessions
  /\ MaxFaults \in Nat

VARIABLES
  paidTickets,  \* the ticket rows whose status is PAID; the others are RESERVED
  ordLock,      \* holder of the row lock of each order
  job,          \* the order a session works on
  step,         \* where a session is in its transaction
  touched,      \* the ticket rows its second statement matched
  mailed,       \* orders whose confirmation mail task was queued
  confirmed,    \* orders some payer was told are paid
  lost,         \* orders whose cancellation was lost (history)
  faults        \* faults so far

settleVars  == <<ordLock, job, step, touched>>
answerVars  == <<mailed, confirmed>>
faultVars   == <<lost, faults>>
vars == <<reservationVars, taskVars, paidTickets, settleVars, answerVars, faultVars>>

Steps == {"idle", "update", "reread", "tickets", "commit", "notify"}

TypeOK ==
  /\ ReservationTypeOK
  /\ TasksTypeOK
  /\ paidTickets \subseteq Ticket
  /\ ordLock \in [Orders -> Sessions \cup {NoSession}]
  /\ job \in [Sessions -> Orders \cup {NoOrder}]
  /\ step \in [Sessions -> Steps]
  /\ touched \in [Sessions -> SUBSET Ticket]
  /\ mailed \subseteq Orders
  /\ confirmed \subseteq Orders
  /\ lost \subseteq Orders
  /\ faults \in 0 .. MaxFaults

NoFault == UNCHANGED faultVars
Fault(losing) ==
  /\ faults < MaxFaults
  /\ faults' = faults + 1
  /\ lost' = lost \cup losing

-----------------------------------------------------------------------------
(* create, up to its answer *)

Book(o) ==
  /\ BookingStep(o)
  /\ NoFault
  /\ UNCHANGED <<taskVars, paidTickets, settleVars, answerVars>>

\* bug: create commits and answers without scheduling the cancellation
ScheduleExpiry_Skipped(o) ==
  /\ Answer(o)
  /\ NoFault
  /\ UNCHANGED <<taskVars, paidTickets, settleVars, answerVars>>

ScheduleExpiry(o) ==
  /\ Answer(o)
  /\ AddSchedule(o)
  /\ NoFault
  /\ UNCHANGED <<paidTickets, settleVars, answerVars>>

\* two schedule ids made from the same microsecond
ScheduleCollides(o, p) ==
  /\ Answer(o)
  /\ OverwriteSchedule(o, p)
  /\ Fault({p})
  /\ UNCHANGED <<paidTickets, settleVars, answerVars>>

CreateFails(o) ==
  /\ FailAfterCommit(o)
  /\ Fault({o})
  /\ UNCHANGED <<taskVars, paidTickets, settleVars, answerVars>>

Owner ==
  /\ OwnerStep
  /\ NoFault
  /\ UNCHANGED <<taskVars, paidTickets, settleVars, answerVars>>

-----------------------------------------------------------------------------
(* The scheduler and the workers taking tasks *)

Scheduler ==
  /\ \E o \in Orders : SendDue(o) \/ DeleteSent(o)
  /\ NoFault
  /\ UNCHANGED <<reservationVars, paidTickets, settleVars, answerVars>>

SchedulerCrash ==
  /\ SchedulerRestart
  /\ Fault({})
  /\ UNCHANGED <<reservationVars, paidTickets, settleVars, answerVars>>

StartSession(s, o) ==
  /\ step[s] = "idle"
  /\ step' = [step EXCEPT ![s] = "update"]
  /\ job' = [job EXCEPT ![s] = o]
  /\ UNCHANGED <<ordLock, touched>>

\* Anybody may ask to pay any order, an unknown or an expired one too.
PayRequest(p, o) ==
  /\ StartSession(p, o)
  /\ NoFault
  /\ UNCHANGED <<reservationVars, taskVars, paidTickets, answerVars>>

WorkerTake(w, o) ==
  /\ StartSession(w, o)
  /\ Pop(o)
  /\ NoFault
  /\ UNCHANGED <<reservationVars, paidTickets, answerVars>>

-----------------------------------------------------------------------------
(* confirm_payment and expire_order *)

\* the session's transaction ends, at step "next" of its request
EndSettle(s, next) ==
  /\ step' = [step EXCEPT ![s] = next]
  /\ ordLock' = [o \in Orders |-> IF ordLock[o] = s THEN NoSession ELSE ordLock[o]]
  /\ touched' = [touched EXCEPT ![s] = {}]
  /\ UNCHANGED job

\* WHERE id = obj_id AND status = 'pending'
Claimable(o) == status[o] = "pending"

\* the guarded UPDATE of the order matched: its row is locked
ClaimOrder(s) ==
  /\ step[s] = "update" /\ Claimable(job[s])
  /\ ordLock[job[s]] = NoSession
  /\ ordLock' = [ordLock EXCEPT ![job[s]] = s]
  /\ step' = [step EXCEPT ![s] = "tickets"]
  /\ NoFault
  /\ UNCHANGED <<reservationVars, taskVars, paidTickets, job, touched, answerVars>>

\* It matched no row: there is none, or the order is settled, at this moment.
MissOrder(s) ==
  /\ step[s] = "update" /\ ~Claimable(job[s])
  /\ step' = [step EXCEPT ![s] = "reread"]
  /\ NoFault
  /\ UNCHANGED <<reservationVars, taskVars, paidTickets, ordLock, job, touched, answerVars>>

\* bug: an order the UPDATE missed cannot be pending, so it counts as paid
\* unless it is cancelled
PaidAlready_NotCancelled(o) == status[o] \in {"pending", "paid"}

\* order_obj.status == OrderStatus.PAID
PaidAlready(o) == status[o] = "paid"

\* The order is read by a second statement, so in a later snapshot: it may have
\* been booked, even paid, meanwhile.  A payer is told True if it is paid,
\* otherwise gets an error; a worker just ends.
Reread(s) ==
  /\ step[s] = "reread"
  /\ confirmed' = IF s \in Payers /\ PaidAlready(job[s])
                    THEN confirmed \cup {job[s]} ELSE confirmed
  /\ EndSettle(s, "idle")
  /\ NoFault
  /\ UNCHANGED <<reservationVars, taskVars, paidTickets, mailed>>

\* the UPDATE or DELETE of the tickets of the order's items
TouchTickets(s) ==
  /\ step[s] = "tickets"
  /\ touched' = [touched EXCEPT ![s] = TicketsOf(job[s])]
  /\ step' = [step EXCEPT ![s] = "commit"]
  /\ NoFault
  /\ UNCHANGED <<reservationVars, taskVars, paidTickets, ordLock, job, answerVars>>

PayCommit(p) ==
  /\ p \in Payers /\ step[p] = "commit"
  /\ status' = [status EXCEPT ![job[p]] = "paid"]
  /\ paidTickets' = paidTickets \cup (touched[p] \cap tickets)
  /\ EndSettle(p, "notify")
  /\ NoFault
  /\ UNCHANGED <<lines, tickets, bookingVars, ownerVars, taskVars, answerVars>>

\* bug: the tickets of an expired order stay, only its status changes
ExpireCommit_KeepsTickets(w) ==
  /\ w \in Workers /\ step[w] = "commit"
  /\ status' = [status EXCEPT ![job[w]] = "cancelled"]
  /\ EndSettle(w, "idle")
  /\ NoFault
  /\ UNCHANGED <<lines, tickets, paidTickets, bookingVars, ownerVars, taskVars, answerVars>>

ExpireCommit(w) ==
  /\ w \in Workers /\ step[w] = "commit"
  /\ status' = [status EXCEPT ![job[w]] = "cancelled"]
  /\ tickets' = tickets \ touched[w]
  /\ paidTickets' = paidTickets \ touched[w]
  /\ EndSettle(w, "idle")
  /\ NoFault
  /\ UNCHANGED <<lines, bookingVars, ownerVars, taskVars, answerVars>>

\* perform_task("order:send_confirmation_mail"), then return True
PayNotify(p) ==
  /\ step[p] = "notify"
  /\ mailed' = mailed \cup {job[p]}
  /\ confirmed' = confirmed \cup {job[p]}
  /\ EndSettle(p, "idle")
  /\ NoFault
  /\ UNCHANGED <<reservationVars, taskVars, paidTickets>>

\* The process dies or the broker is unreachable before the mail is queued.
NotifyFails(p) ==
  /\ step[p] = "notify"
  /\ EndSettle(p, "idle")
  /\ Fault({})
  /\ UNCHANGED <<reservationVars, taskVars, paidTickets, answerVars>>

\* A crash or an exception before the commit: the transaction rolls back,
\* and a task that was popped is not run again.
SettleFails(s) ==
  /\ step[s] \in {"update", "reread", "tickets", "commit"}
  /\ EndSettle(s, "idle")
  /\ Fault(IF s \in Workers THEN {job[s]} ELSE {})
  /\ UNCHANGED <<reservationVars, taskVars, paidTickets, answerVars>>

SettleStep(s) ==
  \/ ClaimOrder(s) \/ MissOrder(s) \/ Reread(s) \/ TouchTickets(s)
  \/ PayCommit(s) \/ ExpireCommit(s) \/ PayNotify(s)

-----------------------------------------------------------------------------

Init ==
  /\ ReservationInit
  /\ TasksInit
  /\ paidTickets = {}
  /\ ordLock = [o \in Orders |-> NoSession]
  /\ job = [s \in Sessions |-> NoOrder]
  /\ step = [s \in Sessions |-> "idle"]
  /\ touched = [s \in Sessions |-> {}]
  /\ mailed = {} /\ confirmed = {}
  /\ lost = {} /\ faults = 0

Next ==
  \/ \E o \in Orders :
       \/ Book(o) \/ ScheduleExpiry(o) \/ CreateFails(o)
       \/ \E p \in Orders : ScheduleCollides(o, p)
       \/ \E p \in Payers : PayRequest(p, o)
       \/ \E w \in Workers : WorkerTake(w, o)
  \/ Owner
  \/ Scheduler
  \/ SchedulerCrash
  \/ \E s \in Sessions : SettleStep(s) \/ NotifyFails(s) \/ SettleFails(s)

Spec == Init /\ [][Next]_vars

\* create answers once it has committed; the scheduler kicks due entries;
\* a free worker pops; a started request or task runs on.  Nobody has to
\* book or to pay.
Fairness ==
  /\ \A o \in Orders :
       /\ WF_vars(ScheduleExpiry(o))
       /\ WF_vars(Scheduler /\ SendDue(o))
       /\ WF_vars(\E w \in Workers : WorkerTake(w, o))
  /\ \A s \in Sessions : WF_vars(SettleStep(s))

FairSpec == Spec /\ Fairness

-----------------------------------------------------------------------------
(* Properties *)

\* Tickets and order agree in every committed state: a pending order holds
\* one unpaid ticket per unit of its items, a paid order the same tickets
\* all paid, and a cancelled, refused or failed one holds none -- whatever
\* payments, expiries and rollbacks run against each other.
TicketsFollowStatus ==
  \A o \in Orders :
    /\ TicketsOf(o) = IF status[o] \in {"pending", "paid"} THEN Rows(o) ELSE {}
    /\ TicketsOf(o) \cap paidTickets = IF status[o] = "paid" THEN Rows(o) ELSE {}

\* Whoever was told that an order is paid, or was queued a confirmation
\* mail, can rely on it: the order is paid and holds all its tickets.
ConfirmedIsPaid ==
  \A o \in confirmed \cup mailed : status[o] = "paid" /\ TicketsOf(o) = Rows(o)

\* the cancellation of o is still to come
Tracked(o) ==
  \/ phase[o] = "committed"
  \/ o \in schedule \cup queue
  \/ \E w \in Workers : step[w] # "idle" /\ job[w] = o

\* An unpaid order is never forgotten while its cancellation has not been
\* lost in one of the three known ways: create failing after its commit, a
\* schedule id overwritten, a worker failing after it popped the task.  In
\* particular a scheduler restart, a payment that rolled back and a booking
\* of somebody else forget nobody's cancellation.
PendingIsTracked ==
  \A o \in Orders : status[o] = "pending" => Tracked(o) \/ o \in lost

\* An unpaid order is paid or its tickets are released in the end, unless its
\* cancellation was lost.  Rolled back payments, scheduler restarts and
\* workers busy with other orders only delay that.
ReleasedUnlessLost ==
  \A o \in Orders : status[o] = "pending" ~> status[o] \in {"paid", "cancelled"} \/ o \in lost

Ledger == INSTANCE TicketLedger WITH
  held <- [o \in Orders |-> TicketsOf(o)],
  sold <- [o \in Orders |-> TicketsOf(o) \cap paidTickets]

\* Row locks, statement-by-statement transactions, retries and failures
\* together look like one-step reserve, pay and give-back operations.
ImplementsLedger == Ledger!LedgerSpec
=============================================================================
