--------------------------- MODULE BookingProofs ---------------------------
(***************************************************************************)
(* What booking, payment and expiry guarantee together, for any number of  *)
(* orders, payers, workers and faults.                                     *)
(***************************************************************************)
EXTENDS Booking, ReservationProofs

\* The row of an order exists exactly from the commit of its booking on.
PhaseStatus(o) ==
  /\ phase[o] \in {"idle", "select", "lock", "refused"} => status[o] = "none"
  /\ phase[o] \in {"committed", "answered"} => status[o] # "none"

\* Between its two statements and its commit a session holds the row lock
\* of a pending order and has matched exactly the order's tickets.  A worker
\* works on a committed order, so its UPDATE misses a settled one only.
SessionInv(s) ==
  /\ step[s] # "idle" => job[s] \in Orders
  /\ step[s] \in {"tickets", "commit"} =>
       ordLock[job[s]] = s /\ status[job[s]] = "pending"
  /\ step[s] = "commit" => touched[s] = TicketsOf(job[s])
  /\ step[s] = "notify" => s \in Payers /\ status[job[s]] = "paid"
  /\ s \in Workers /\ step[s] # "idle" => status[job[s]] # "none"
  /\ s \in Workers /\ step[s] = "reread" => status[job[s]] # "pending"

\* The cancellation of o has been kicked and not finished.
InHand(o) ==
  \/ o \in queue
  \/ \E w \in Workers : step[w] # "idle" /\ job[w] = o

\* Only committed orders are scheduled, and the scheduler may forget an
\* entry it has kicked because the kicked message does the work.
TasksInv ==
  /\ \A o \in schedule \cup queue : status[o] # "none"
  /\ \A o \in sending : status[o] = "pending" => InHand(o) \/ o \in lost

BookingInv ==
  /\ TypeOK
  /\ ReservationInv
  /\ \A o \in Orders : PhaseStatus(o)
  /\ \A s \in Sessions : SessionInv(s)
  /\ TicketsFollowStatus
  /\ paidTickets \subseteq tickets
  /\ ConfirmedIsPaid
  /\ PendingIsTracked
  /\ TasksInv

-----------------------------------------------------------------------------

LEMMA BookingInitInv == ASSUME Init PROVE BookingInv
<1> USE DEF Init
<1>1. ReservationInv
  BY InitInv
<1>2. TypeOK
  <2>1. 0 \in 0 .. MaxFaults
    BY BookingAssumption
  <2>. QED  BY <1>1, <2>1 DEF TypeOK, ReservationInv, TasksInit, TasksTypeOK, Steps
<1>3. \A o \in Orders : status[o] = "none" /\ phase[o] = "idle" /\ TicketsOf(o) = {}
  BY DEF ReservationInit, TicketsOf
<1>. QED
  BY <1>1, <1>2, <1>3
     DEF BookingInv, PhaseStatus, SessionInv, TicketsFollowStatus, ConfirmedIsPaid,
         PendingIsTracked, TasksInit, TasksInv

\* Payment and expiry leave the invariant of create alone: they never add
\* tickets and never touch a category.
LEMMA SettleKeepsReservationInv ==
  ASSUME ReservationInv, UNCHANGED <<lines, bookingVars, ownerVars>>,
         status' \in [Orders -> Statuses], tickets' \subseteq tickets
  PROVE  ReservationInv'
<1>1. UNCHANGED <<lines, phase, seen, need, granted, catLock, total, draft, edits>>
  BY DEF bookingVars, ownerVars
<1>2. IsFiniteSet(tickets')
  BY FS_Subset DEF ReservationInv
<1>3. \A p \in Orders : Wanted(p)' = Wanted(p) /\ \A c : Asked(p, c)' = Asked(p, c)
  BY <1>1 DEF Wanted, Asked, LastLine
<1>. QED  BY <1>1, <1>2, <1>3 DEF ReservationInv, ReservationTypeOK, SelectInv

\* Steps that write neither orders nor tickets keep what the invariant says
\* of the database.
LEMMA TablesStay ==
  ASSUME BookingInv, UNCHANGED <<status, tickets, paidTickets>>,
         \A p \in Orders : status[p] # "none" => lines'[p] = lines[p]
  PROVE  /\ TicketsFollowStatus'
         /\ paidTickets' \subseteq tickets'
         /\ UNCHANGED <<mailed, confirmed>> => ConfirmedIsPaid'
         /\ \A p \in Orders : TicketsOf(p)' = TicketsOf(p)
<1> USE DEF BookingInv
<1>1. \A p \in Orders : TicketsOf(p)' = TicketsOf(p)
  BY DEF TicketsOf
<1>2. \A p \in Orders : status[p] # "none" => Rows(p)' = Rows(p)
  BY DEF Rows
<1>3. TicketsFollowStatus'
  BY <1>1, <1>2 DEF TicketsFollowStatus
<1>4. UNCHANGED <<mailed, confirmed>> => ConfirmedIsPaid'
  BY <1>1, <1>2 DEF ConfirmedIsPaid, TypeOK
<1>. QED  BY <1>1, <1>3, <1>4

-----------------------------------------------------------------------------
(* create *)

\* A booking step other than the commit changes no table.
LEMMA BookInv ==
  ASSUME BookingInv, NEW o \in Orders, Book(o)
  PROVE  BookingInv'
<1> USE DEF BookingInv
<1>1. /\ BookingStep(o)
      /\ UNCHANGED <<schedule, sending, queue, paidTickets, ordLock, job, step, touched,
                     mailed, confirmed, lost, faults>>
  BY DEF Book, NoFault, taskVars, settleVars, answerVars, faultVars
<1>2. ReservationInv'
  BY <1>1, NextInv DEF ReservationNext
<1>3. TypeOK'
  BY <1>1, <1>2 DEF TypeOK, ReservationInv, TasksTypeOK
<1>4. CASE Commit(o)
  <2>1. /\ phase[o] = "lock" /\ status[o] = "none"
        /\ status' = [status EXCEPT ![o] = "pending"]
        /\ tickets' = tickets \cup Rows(o)
        /\ phase' = [phase EXCEPT ![o] = "committed"]
        /\ lines' = lines
    BY <1>4 DEF Commit, SelectDone, EndBooking, PhaseStatus
  <2>2. \A p \in Orders : Rows(p)' = Rows(p)
    BY <2>1 DEF Rows
  <2>3. \A t \in Rows(o) : t[1] = o
    BY RowsProperties DEF ReservationInv, ReservationTypeOK
  <2>4. \A p \in Orders : TicketsOf(p)' = IF p = o THEN Rows(o) ELSE TicketsOf(p)
    <3>1. TicketsOf(o) = {}
      BY <2>1 DEF TicketsFollowStatus
    <3>. QED  BY <2>1, <2>3, <3>1 DEF TicketsOf
  <2>5. status \in [Orders -> Statuses] /\ phase \in [Orders -> Phases]
    BY DEF TypeOK, ReservationTypeOK
  <2>6. \A p \in Orders : PhaseStatus(p)'
    BY <2>1, <2>5 DEF PhaseStatus
  <2>7. \A s \in Sessions : SessionInv(s)'
    BY <1>1, <2>1, <2>4, <2>5 DEF SessionInv
  <2>8. TicketsFollowStatus'
    <3>1. Rows(o) \cap paidTickets = {}
      BY <2>1, <2>3 DEF TicketsFollowStatus, TicketsOf
    <3>. QED  BY <1>1, <2>1, <2>2, <2>4, <2>5, <3>1 DEF TicketsFollowStatus
  <2>9. ConfirmedIsPaid'
    BY <1>1, <2>1, <2>2, <2>4, <2>5 DEF ConfirmedIsPaid, TypeOK
  <2>10. PendingIsTracked'
    BY <1>1, <2>1, <2>5 DEF PendingIsTracked, Tracked
  <2>11. paidTickets' \subseteq tickets'
    BY <1>1, <2>1
  <2>12. TasksInv'
    BY <1>1, <2>1, <2>5, BookingAssumption DEF TasksInv, InHand, TypeOK, TasksTypeOK
  <2>. QED  BY <1>2, <1>3, <2>6, <2>7, <2>8, <2>9, <2>10, <2>11, <2>12
<1>5. CASE ~ Commit(o)
  <2> DEFINE Moves(p) ==
        \/ phase'[p] = phase[p] /\ lines'[p] = lines[p]
        \/ /\ p = o
           /\ phase[o] \in {"idle", "select", "lock"}
           /\ phase'[o] \in {"select", "lock", "refused", "failed"}
           /\ phase[o] # "idle" => lines'[o] = lines[o]
  <2>1. UNCHANGED <<status, tickets>> /\ \A p \in Orders : Moves(p)
    <3> USE DEF ReservationInv, ReservationTypeOK
    <3>1. CASE Submit(o)
      BY <3>1 DEF Submit
    <3>2. CASE Select(o)
      BY <3>2 DEF Select, tableVars
    <3>3. CASE \E c \in Categories : LockRow(o, c)
      BY <3>3 DEF LockRow, tableVars
    <3>4. CASE Refuse(o) \/ Abort(o)
      BY <3>4 DEF Refuse, Abort, SelectDone, EndBooking, tableVars
    <3>. QED  BY <1>1, <1>5, <3>1, <3>2, <3>3, <3>4 DEF BookingStep
  <2>2. \A p \in Orders : status[p] # "none" => lines'[p] = lines[p]
    BY <2>1 DEF PhaseStatus
  <2>3. \A p \in Orders : PhaseStatus(p)'
    BY <2>1 DEF PhaseStatus
  <2>4. /\ TicketsFollowStatus' /\ paidTickets' \subseteq tickets' /\ ConfirmedIsPaid'
        /\ \A p \in Orders : TicketsOf(p)' = TicketsOf(p)
    BY <1>1, <2>1, <2>2, TablesStay
  <2>5. \A s \in Sessions : SessionInv(s)'
    BY <1>1, <2>1, <2>4 DEF SessionInv
  <2>6. PendingIsTracked'
    BY <1>1, <2>1 DEF PendingIsTracked, Tracked, PhaseStatus
  <2>7. TasksInv'
    BY <1>1, <2>1 DEF TasksInv, InHand
  <2>. QED  BY <1>2, <1>3, <2>3, <2>4, <2>5, <2>6, <2>7
<1>. QED  BY <1>4, <1>5

\* The end of create, whatever becomes of the cancellation task: the order
\* stays tracked when the task was scheduled, else it is lost.
LEMMA AnswerInv ==
  ASSUME BookingInv, NEW o \in Orders,
         Answer(o) \/ FailAfterCommit(o),
         TypeOK',
         UNCHANGED <<paidTickets, settleVars, answerVars, queue>>,
         \A p \in schedule \cup lost : p \in schedule' \cup lost',
         o \in schedule' \cup lost',
         schedule' \subseteq schedule \cup {o}, sending' \subseteq sending,
         lost \subseteq lost'
  PROVE  BookingInv'
<1> USE DEF BookingInv
<1>1. /\ phase[o] = "committed"
      /\ phase' \in [Orders -> Phases]
      /\ phase'[o] \in {"answered", "failed"}
      /\ \A p \in Orders : p # o => phase'[p] = phase[p]
      /\ UNCHANGED <<status, lines, tickets>>
      /\ UNCHANGED <<paidTickets, ordLock, job, step, touched, mailed, confirmed>>
  BY DEF Answer, FailAfterCommit, EndBooking, tableVars, settleVars, answerVars,
         ReservationInv, ReservationTypeOK, Phases
<1>2. ReservationInv'
  BY NextInv DEF ReservationNext
<1>3. \A p \in Orders : PhaseStatus(p)'
  BY <1>1 DEF PhaseStatus
<1>4. /\ TicketsFollowStatus' /\ paidTickets' \subseteq tickets' /\ ConfirmedIsPaid'
      /\ \A p \in Orders : TicketsOf(p)' = TicketsOf(p)
  BY <1>1, TablesStay
<1>5. \A s \in Sessions : SessionInv(s)'
  BY <1>1, <1>4 DEF SessionInv
<1>6. PendingIsTracked'
  BY <1>1 DEF PendingIsTracked, Tracked
<1>7. TasksInv'
  BY <1>1 DEF TasksInv, InHand, PhaseStatus
<1>. QED  BY <1>2, <1>3, <1>4, <1>5, <1>6, <1>7

LEMMA ReservationOfAnswer ==
  ASSUME BookingInv, NEW o \in Orders, Answer(o) \/ FailAfterCommit(o)
  PROVE  ReservationTypeOK'
BY NextInv DEF BookingInv, ReservationInv, ReservationNext

LEMMA ScheduleExpiryInv ==
  ASSUME BookingInv, NEW o \in Orders, ScheduleExpiry(o)
  PROVE  BookingInv'
<1>1. /\ Answer(o)
      /\ schedule' = schedule \cup {o}
      /\ UNCHANGED <<sending, queue, paidTickets, ordLock, job, step, touched,
                     mailed, confirmed, lost, faults>>
  BY DEF ScheduleExpiry, AddSchedule, NoFault, settleVars, answerVars, faultVars
<1>2. TypeOK'
  BY <1>1, ReservationOfAnswer, BookingAssumption DEF BookingInv, TypeOK, TasksTypeOK
<1>. QED
  BY <1>1, <1>2, AnswerInv DEF settleVars, answerVars, BookingInv, TypeOK, TasksTypeOK

LEMMA ScheduleCollidesInv ==
  ASSUME BookingInv, NEW o \in Orders, NEW q \in Orders, ScheduleCollides(o, q)
  PROVE  BookingInv'
<1>1. /\ Answer(o)
      /\ schedule' = (schedule \ {q}) \cup {o}
      /\ sending' = sending \ {q}
      /\ lost' = lost \cup {q}
      /\ faults < MaxFaults /\ faults' = faults + 1
      /\ UNCHANGED <<queue, paidTickets, ordLock, job, step, touched, mailed, confirmed>>
  BY DEF ScheduleCollides, OverwriteSchedule, Fault, settleVars, answerVars
<1>2. TypeOK'
  BY <1>1, ReservationOfAnswer, BookingAssumption DEF BookingInv, TypeOK, TasksTypeOK
<1>. QED
  BY <1>1, <1>2, AnswerInv DEF settleVars, answerVars, BookingInv, TypeOK, TasksTypeOK

LEMMA CreateFailsInv ==
  ASSUME BookingInv, NEW o \in Orders, CreateFails(o)
  PROVE  BookingInv'
<1>1. /\ FailAfterCommit(o)
      /\ lost' = lost \cup {o}
      /\ faults < MaxFaults /\ faults' = faults + 1
      /\ UNCHANGED <<schedule, sending, queue, paidTickets, ordLock, job, step, touched,
                     mailed, confirmed>>
  BY DEF CreateFails, Fault, taskVars, settleVars, answerVars
<1>2. TypeOK'
  BY <1>1, ReservationOfAnswer, BookingAssumption DEF BookingInv, TypeOK, TasksTypeOK
<1>. QED
  BY <1>1, <1>2, AnswerInv DEF settleVars, answerVars, BookingInv, TypeOK, TasksTypeOK

LEMMA OwnerInv == ASSUME BookingInv, Owner PROVE BookingInv'
<1> USE DEF BookingInv
<1>1. /\ OwnerStep
      /\ UNCHANGED <<schedule, sending, queue, paidTickets, ordLock, job, step, touched,
                     mailed, confirmed, lost, faults>>
  BY DEF Owner, NoFault, taskVars, settleVars, answerVars, faultVars
<1>2. UNCHANGED <<status, lines, tickets, phase>>
  BY <1>1 DEF OwnerStep, ValidateEdit, ApplyEdit, Publish, tableVars, bookingVars
<1>3. ReservationInv'
  BY <1>1, NextInv DEF ReservationNext
<1>4. TypeOK'
  BY <1>1, <1>3 DEF TypeOK, ReservationInv, TasksTypeOK
<1>5. /\ TicketsFollowStatus' /\ paidTickets' \subseteq tickets' /\ ConfirmedIsPaid'
      /\ \A p \in Orders : TicketsOf(p)' = TicketsOf(p)
  BY <1>1, <1>2, TablesStay
<1>6. \A p \in Orders : PhaseStatus(p)'
  BY <1>2 DEF PhaseStatus
<1>7. \A s \in Sessions : SessionInv(s)'
  BY <1>1, <1>2, <1>5 DEF SessionInv
<1>8. PendingIsTracked'
  BY <1>1, <1>2 DEF PendingIsTracked, Tracked
<1>9. TasksInv'
  BY <1>1, <1>2 DEF TasksInv, InHand
<1>. QED  BY <1>3, <1>4, <1>5, <1>6, <1>7, <1>8, <1>9

-----------------------------------------------------------------------------
(* Tasks and the sessions that settle an order, up to their commit *)

\* What all these steps have in common: they change no table, so only the
\* types, the sessions and the tracking remain to be shown.
LEMMA ReservationStays ==
  ASSUME BookingInv, UNCHANGED <<reservationVars, paidTickets>>
  PROVE  /\ ReservationInv'
         /\ \A o \in Orders : PhaseStatus(o)' /\ TicketsOf(o)' = TicketsOf(o)
         /\ TicketsFollowStatus'
         /\ paidTickets' \subseteq tickets'
         /\ UNCHANGED <<mailed, confirmed>> => ConfirmedIsPaid'
         /\ UNCHANGED <<status, lines, tickets, phase>>
<1> USE DEF BookingInv
<1>1. UNCHANGED <<status, lines, tickets, phase, seen, need, granted, catLock, total, draft, edits>>
  BY DEF reservationVars, tableVars, bookingVars, ownerVars
<1>2. ReservationInv'
  BY <1>1, SettleKeepsReservationInv
     DEF bookingVars, ownerVars, ReservationInv, ReservationTypeOK
<1>3. \A o \in Orders : PhaseStatus(o)'
  BY <1>1 DEF PhaseStatus
<1>. QED  BY <1>1, <1>2, <1>3, TablesStay

\* A kicked entry is deleted only when its message is in hand.
LEMMA SchedulerInv ==
  ASSUME BookingInv, Scheduler \/ SchedulerCrash
  PROVE  BookingInv'
<1> USE DEF BookingInv
<1>1. /\ UNCHANGED <<reservationVars, paidTickets>>
      /\ UNCHANGED <<ordLock, job, step, touched, mailed, confirmed>>
  BY DEF Scheduler, SchedulerCrash, settleVars, answerVars
<1>2. /\ schedule' \subseteq schedule
      /\ queue \subseteq queue' /\ queue' \subseteq queue \cup schedule
      /\ sending' \subseteq schedule'
      /\ sending' \subseteq sending \cup queue'
      /\ schedule \subseteq schedule' \cup sending
  BY DEF Scheduler, SchedulerCrash, SendDue, DeleteSent, SchedulerRestart, TypeOK, TasksTypeOK
<1>3. lost' = lost /\ faults' \in 0 .. MaxFaults
  BY BookingAssumption DEF Scheduler, SchedulerCrash, NoFault, Fault, faultVars, TypeOK
<1>4. /\ ReservationInv' /\ TicketsFollowStatus' /\ ConfirmedIsPaid'
      /\ paidTickets' \subseteq tickets'
      /\ UNCHANGED <<status, lines, tickets, phase>>
      /\ \A o \in Orders : PhaseStatus(o)' /\ TicketsOf(o)' = TicketsOf(o)
  BY <1>1, ReservationStays
<1>5. TypeOK'
  BY <1>1, <1>2, <1>3, <1>4 DEF TypeOK, TasksTypeOK, ReservationInv
<1>6. \A s \in Sessions : SessionInv(s)'
  BY <1>1, <1>4 DEF SessionInv
<1>7. PendingIsTracked'
  BY <1>1, <1>2, <1>3, <1>4 DEF PendingIsTracked, Tracked, TasksInv, InHand
<1>8. TasksInv'
  BY <1>1, <1>2, <1>3, <1>4 DEF TasksInv, InHand
<1>. QED  BY <1>4, <1>5, <1>6, <1>7, <1>8

\* A session starts on an order; a worker's order leaves the queue but
\* stays in hand.
LEMMA StartInv ==
  ASSUME BookingInv, NEW s \in Sessions, NEW o \in Orders,
         \/ s \in Payers /\ PayRequest(s, o)
         \/ s \in Workers /\ WorkerTake(s, o)
  PROVE  BookingInv'
<1> USE DEF BookingInv
<1>1. /\ step[s] = "idle"
      /\ step' = [step EXCEPT ![s] = "update"]
      /\ job' = [job EXCEPT ![s] = o]
      /\ UNCHANGED <<reservationVars, paidTickets>>
      /\ UNCHANGED <<schedule, sending, ordLock, touched, mailed, confirmed, lost, faults>>
      /\ queue' \subseteq queue
      /\ \A p \in queue : p \in queue' \/ (p = o /\ s \in Workers)
  BY DEF PayRequest, WorkerTake, StartSession, Pop, NoFault, taskVars, answerVars, faultVars
<1>2. /\ ReservationInv' /\ TicketsFollowStatus' /\ ConfirmedIsPaid'
      /\ paidTickets' \subseteq tickets'
      /\ UNCHANGED <<status, lines, tickets, phase>>
      /\ \A p \in Orders : PhaseStatus(p)' /\ TicketsOf(p)' = TicketsOf(p)
  BY <1>1, ReservationStays
<1>3. TypeOK'
  BY <1>1, <1>2 DEF TypeOK, TasksTypeOK, ReservationInv, Steps
<1>4. step \in [Sessions -> Steps] /\ job \in [Sessions -> Orders \cup {NoOrder}]
  BY DEF TypeOK
<1>5. \A r \in Sessions : SessionInv(r)'
  <2>1. s \in Workers => status[o] # "none"
    BY BookingAssumption DEF WorkerTake, Pop, TasksInv
  <2>. QED  BY <1>1, <1>2, <1>4, <2>1 DEF SessionInv
<1>6. \A p \in Orders : InHand(p) => InHand(p)'
  BY <1>1, <1>4 DEF InHand, Sessions
<1>7. PendingIsTracked' /\ TasksInv'
  BY <1>1, <1>2, <1>6 DEF PendingIsTracked, TasksInv, Tracked, InHand
<1>. QED  BY <1>2, <1>3, <1>5, <1>7

\* ClaimOrder, MissOrder and TouchTickets: the session goes on with its order.
LEMMA ProceedInv ==
  ASSUME BookingInv, NEW s \in Sessions, ClaimOrder(s) \/ MissOrder(s) \/ TouchTickets(s)
  PROVE  BookingInv'
<1> USE DEF BookingInv
<1>1. /\ step[s] \in {"update", "tickets"} /\ job[s] \in Orders
      /\ UNCHANGED <<reservationVars, paidTickets>>
      /\ UNCHANGED <<schedule, sending, queue, job, mailed, confirmed, lost, faults>>
  BY DEF ClaimOrder, MissOrder, TouchTickets, NoFault, taskVars, answerVars, faultVars, SessionInv
<1>2. /\ ReservationInv' /\ TicketsFollowStatus' /\ ConfirmedIsPaid'
      /\ paidTickets' \subseteq tickets'
      /\ UNCHANGED <<status, lines, tickets, phase>>
      /\ \A p \in Orders : PhaseStatus(p)' /\ TicketsOf(p)' = TicketsOf(p)
  BY <1>1, ReservationStays
<1>3. /\ ordLock \in [Orders -> Sessions \cup {NoSession}]
      /\ step \in [Sessions -> Steps]
      /\ touched \in [Sessions -> SUBSET Ticket]
      /\ tickets \subseteq Ticket
  BY DEF TypeOK, ReservationTypeOK
<1>4. /\ \E next \in {"reread", "tickets", "commit"} : step' = [step EXCEPT ![s] = next]
      /\ ordLock' \in [Orders -> Sessions \cup {NoSession}]
      /\ touched' \in [Sessions -> SUBSET Ticket]
  BY <1>1, <1>3 DEF ClaimOrder, MissOrder, TouchTickets, TicketsOf
<1>5. TypeOK'
  BY <1>1, <1>2, <1>3, <1>4 DEF TypeOK, TasksTypeOK, ReservationInv, Steps
<1>6. \A r \in Sessions : SessionInv(r)'
  <2>1. CASE ClaimOrder(s)
    <3>1. /\ step[s] = "update" /\ status[job[s]] = "pending"
          /\ ordLock[job[s]] = NoSession
          /\ ordLock' = [ordLock EXCEPT ![job[s]] = s]
          /\ touched' = touched
          /\ step' = [step EXCEPT ![s] = "tickets"]
      BY <2>1 DEF ClaimOrder, Claimable
    <3>. QED
      BY <1>1, <1>2, <1>3, <1>4, <3>1, BookingAssumption DEF SessionInv
  <2>2. CASE MissOrder(s)
    <3>1. /\ step[s] = "update" /\ status[job[s]] # "pending"
          /\ step' = [step EXCEPT ![s] = "reread"]
          /\ UNCHANGED <<ordLock, touched>>
      BY <2>2 DEF MissOrder, Claimable
    <3>. QED  BY <1>1, <1>2, <1>3, <3>1 DEF SessionInv
  <2>3. CASE TouchTickets(s)
    <3>1. /\ step[s] = "tickets" /\ ordLock' = ordLock
          /\ step' = [step EXCEPT ![s] = "commit"]
          /\ touched' = [touched EXCEPT ![s] = TicketsOf(job[s])]
      BY <2>3 DEF TouchTickets
    <3>. QED  BY <1>1, <1>2, <1>3, <1>4, <3>1 DEF SessionInv
  <2>. QED  BY <2>1, <2>2, <2>3
<1>7. \A w \in Sessions : step'[w] # "idle" <=> step[w] # "idle"
  BY <1>1, <1>3, <1>4
<1>8. PendingIsTracked' /\ TasksInv'
  BY <1>1, <1>2, <1>7 DEF PendingIsTracked, TasksInv, Tracked, InHand, Sessions
<1>. QED  BY <1>2, <1>5, <1>6, <1>8

\* A session whose transaction ends without changing a table: its answer
\* is given, or it failed.  A worker may end so only on
\* an order that is no longer pending, or one that is recorded as lost.
LEMMA EndWithoutCommit ==
  ASSUME BookingInv, NEW s \in Sessions, EndSettle(s, "idle"),
         step[s] # "idle",
         UNCHANGED <<reservationVars, taskVars, paidTickets>>,
         TypeOK', ConfirmedIsPaid',
         lost \subseteq lost',
         s \in Workers => status[job[s]] # "pending" \/ job[s] \in lost'
  PROVE  BookingInv'
<1> USE DEF BookingInv
<1>1. /\ step' = [step EXCEPT ![s] = "idle"]
      /\ ordLock' = [o \in Orders |-> IF ordLock[o] = s THEN NoSession ELSE ordLock[o]]
      /\ touched' = [touched EXCEPT ![s] = {}]
      /\ UNCHANGED <<job, schedule, sending, queue>>
  BY DEF EndSettle, taskVars
<1>2. /\ ReservationInv' /\ TicketsFollowStatus'
      /\ paidTickets' \subseteq tickets'
      /\ UNCHANGED <<status, lines, tickets, phase>>
      /\ \A p \in Orders : PhaseStatus(p)' /\ TicketsOf(p)' = TicketsOf(p)
  BY ReservationStays
<1>3. /\ ordLock \in [Orders -> Sessions \cup {NoSession}]
      /\ step \in [Sessions -> Steps] /\ job \in [Sessions -> Orders \cup {NoOrder}]
      /\ touched \in [Sessions -> SUBSET Ticket]
  BY DEF TypeOK
<1>4. \A r \in Sessions : SessionInv(r)'
  BY <1>1, <1>2, <1>3 DEF SessionInv
<1>5. \A p \in Orders : status[p] = "pending" /\ InHand(p) => InHand(p)' \/ p \in lost'
  BY <1>1, <1>3 DEF InHand, Sessions
<1>6. PendingIsTracked' /\ TasksInv'
  BY <1>1, <1>2, <1>5 DEF PendingIsTracked, TasksInv, Tracked, InHand
<1>. QED  BY <1>2, <1>4, <1>6

\* The variables that describe sessions keep their types when one ends.
LEMMA EndSettleTypes ==
  ASSUME TypeOK, NEW s \in Sessions, NEW next \in {"idle", "notify"}, EndSettle(s, next)
  PROVE  /\ ordLock' \in [Orders -> Sessions \cup {NoSession}]
         /\ job' \in [Sessions -> Orders \cup {NoOrder}]
         /\ step' \in [Sessions -> Steps]
         /\ touched' \in [Sessions -> SUBSET Ticket]
BY DEF TypeOK, EndSettle, Steps

\* The second SELECT: a worker finds the order settled, as its UPDATE did; a
\* payer may find it in any state, and is told True only if it is paid.
LEMMA RereadInv ==
  ASSUME BookingInv, NEW s \in Sessions, Reread(s)
  PROVE  BookingInv'
<1> USE DEF BookingInv
<1>1. /\ step[s] = "reread" /\ job[s] \in Orders
      /\ s \in Workers => status[job[s]] # "pending"
      /\ EndSettle(s, "idle")
      /\ UNCHANGED <<reservationVars, taskVars, paidTickets, mailed, lost, faults>>
  BY DEF Reread, NoFault, faultVars, SessionInv
<1>2. confirmed' \subseteq confirmed \cup {o \in {job[s]} : status[o] = "paid"}
  BY DEF Reread, PaidAlready
<1>3. /\ ReservationInv' /\ UNCHANGED <<status, lines, tickets, phase>>
      /\ \A p \in Orders : TicketsOf(p)' = TicketsOf(p)
  BY <1>1, ReservationStays
<1>4. TypeOK'
  BY <1>1, <1>2, <1>3, EndSettleTypes DEF TypeOK, TasksTypeOK, ReservationInv, taskVars
<1>5. ConfirmedIsPaid'
  <2>1. \A o \in Orders : Rows(o)' = Rows(o)
    BY <1>3 DEF Rows
  <2>2. \A o \in Orders : status[o] = "paid" => TicketsOf(o) = Rows(o)
    BY DEF TicketsFollowStatus
  <2>. QED  BY <1>1, <1>2, <1>3, <1>4, <2>1, <2>2 DEF ConfirmedIsPaid, TypeOK
<1>. QED  BY <1>1, <1>4, <1>5, EndWithoutCommit

LEMMA PayNotifyInv ==
  ASSUME BookingInv, NEW s \in Sessions, PayNotify(s)
  PROVE  BookingInv'
<1> USE DEF BookingInv
<1>1. /\ step[s] = "notify" /\ job[s] \in Orders /\ status[job[s]] = "paid"
      /\ EndSettle(s, "idle")
      /\ mailed' = mailed \cup {job[s]} /\ confirmed' = confirmed \cup {job[s]}
      /\ UNCHANGED <<reservationVars, taskVars, paidTickets, lost, faults>>
  BY DEF PayNotify, NoFault, faultVars, SessionInv
<1>2. /\ ReservationInv' /\ UNCHANGED <<status, lines, tickets, phase>>
      /\ \A p \in Orders : TicketsOf(p)' = TicketsOf(p)
  BY <1>1, ReservationStays
<1>3. TypeOK'
  BY <1>1, <1>2, EndSettleTypes DEF TypeOK, TasksTypeOK, ReservationInv, taskVars
<1>4. ConfirmedIsPaid'
  <2>1. \A o \in Orders : Rows(o)' = Rows(o)
    BY <1>2 DEF Rows
  <2>. QED  BY <1>1, <1>2, <2>1 DEF ConfirmedIsPaid, TypeOK, TicketsFollowStatus
<1>. QED  BY <1>1, <1>3, <1>4, EndWithoutCommit

LEMMA FailsInv ==
  ASSUME BookingInv, NEW s \in Sessions, NotifyFails(s) \/ SettleFails(s)
  PROVE  BookingInv'
<1> USE DEF BookingInv
<1>1. /\ step[s] # "idle" /\ job[s] \in Orders
      /\ EndSettle(s, "idle")
      /\ lost' \subseteq lost \cup {job[s]} /\ lost \subseteq lost'
      /\ faults < MaxFaults /\ faults' = faults + 1
      /\ UNCHANGED <<reservationVars, taskVars, paidTickets, mailed, confirmed>>
  BY DEF NotifyFails, SettleFails, Fault, answerVars, SessionInv
<1>2. ReservationInv' /\ ConfirmedIsPaid'
  BY <1>1, ReservationStays
<1>3. TypeOK'
  BY <1>1, <1>2, EndSettleTypes, BookingAssumption
     DEF TypeOK, TasksTypeOK, ReservationInv, taskVars
<1>4. s \in Workers => status[job[s]] # "pending" \/ job[s] \in lost'
  BY DEF NotifyFails, SettleFails, Fault, SessionInv
<1>. QED  BY <1>1, <1>2, <1>3, <1>4, EndWithoutCommit

-----------------------------------------------------------------------------
(* The commits of confirm_payment and expire_order *)

\* No two sessions are between the first statement and the commit for the
\* same order: its row lock has one holder.
LEMMA SettledAlone ==
  ASSUME BookingInv, NEW s \in Sessions, step[s] = "commit",
         NEW r \in Sessions, r # s, step[r] \in {"tickets", "commit", "notify"}
  PROVE  job[r] # job[s]
BY DEF BookingInv, SessionInv

LEMMA PayCommitInv ==
  ASSUME BookingInv, NEW s \in Sessions, PayCommit(s)
  PROVE  BookingInv'
<1> USE DEF BookingInv
<1>1. /\ s \in Payers /\ step[s] = "commit" /\ job[s] \in Orders
      /\ status[job[s]] = "pending" /\ ordLock[job[s]] = s
      /\ touched[s] = TicketsOf(job[s])
      /\ status' = [status EXCEPT ![job[s]] = "paid"]
      /\ paidTickets' = paidTickets \cup (touched[s] \cap tickets)
      /\ EndSettle(s, "notify")
      /\ UNCHANGED <<lines, tickets, bookingVars, ownerVars, mailed, confirmed, lost, faults>>
      /\ UNCHANGED <<schedule, sending, queue, phase>>
  BY DEF PayCommit, SessionInv, NoFault, taskVars, answerVars, faultVars, bookingVars
<1>2. /\ step' = [step EXCEPT ![s] = "notify"]
      /\ ordLock' = [o \in Orders |-> IF ordLock[o] = s THEN NoSession ELSE ordLock[o]]
      /\ touched' = [touched EXCEPT ![s] = {}]
      /\ job' = job
  BY <1>1 DEF EndSettle
<1>3. /\ status \in [Orders -> Statuses] /\ tickets \subseteq Ticket
      /\ ordLock \in [Orders -> Sessions \cup {NoSession}]
      /\ step \in [Sessions -> Steps] /\ touched \in [Sessions -> SUBSET Ticket]
      /\ confirmed \subseteq Orders /\ mailed \subseteq Orders
      /\ paidTickets \subseteq tickets
  BY DEF TypeOK, ReservationTypeOK
<1>4. status' \in [Orders -> Statuses]
  BY <1>1, <1>3 DEF Statuses
<1>5. ReservationInv'
  BY <1>1, <1>4, SettleKeepsReservationInv
<1>6. TypeOK'
  BY <1>1, <1>3, <1>5, EndSettleTypes DEF TypeOK, TasksTypeOK, ReservationInv
<1>7. \A o \in Orders : TicketsOf(o)' = TicketsOf(o) /\ Rows(o)' = Rows(o)
  BY <1>1 DEF TicketsOf, Rows
<1>8. \A o \in Orders : PhaseStatus(o)'
  BY <1>1, <1>3 DEF PhaseStatus
<1>9. \A r \in Sessions : SessionInv(r)'
  <2> SUFFICES ASSUME NEW r \in Sessions PROVE SessionInv(r)'
    OBVIOUS
  <2>1. CASE r = s
    BY <1>1, <1>2, <1>3, <2>1 DEF SessionInv
  <2>2. CASE r # s
    <3>1. step'[r] = step[r] /\ job'[r] = job[r] /\ touched'[r] = touched[r]
      BY <1>2, <1>3, <2>2
    <3>2. CASE step[r] \in {"tickets", "commit", "notify"}
      <4>1. job[r] # job[s] /\ job[r] \in Orders
        BY <1>1, <2>2, <3>2, SettledAlone DEF SessionInv
      <4>2. status'[job[r]] = status[job[r]] /\ TicketsOf(job[r])' = TicketsOf(job[r])
        BY <1>1, <1>2, <1>3, <1>7, <4>1
      <4>3. step[r] # "notify" => ordLock'[job[r]] = ordLock[job[r]]
        BY <1>2, <1>3, <2>2, <3>2, <4>1 DEF SessionInv
      <4>. QED  BY <3>1, <4>1, <4>2, <4>3 DEF SessionInv
    <3>3. CASE step[r] \notin {"tickets", "commit", "notify"}
      <4>1. \A o \in Orders : /\ status[o] # "none" => status'[o] # "none"
                              /\ status[o] # "pending" => status'[o] # "pending"
        BY <1>1, <1>3
      <4>. QED  BY <3>1, <3>3, <4>1 DEF SessionInv
    <3>. QED  BY <3>2, <3>3
  <2>. QED  BY <2>1, <2>2
<1>10. TicketsFollowStatus'
  <2> SUFFICES ASSUME NEW o \in Orders
               PROVE  /\ TicketsOf(o) = IF status'[o] \in {"pending", "paid"}
                                          THEN Rows(o) ELSE {}
                      /\ TicketsOf(o) \cap paidTickets' =
                           IF status'[o] = "paid" THEN Rows(o) ELSE {}
    BY <1>7 DEF TicketsFollowStatus
  <2>1. touched[s] \cap tickets = TicketsOf(job[s])
    BY <1>1 DEF TicketsOf
  <2>2. CASE o = job[s]
    BY <1>1, <1>3, <2>1, <2>2 DEF TicketsFollowStatus
  <2>3. CASE o # job[s]
    <3>1. TicketsOf(o) \cap TicketsOf(job[s]) = {}
      BY <2>3 DEF TicketsOf
    <3>. QED  BY <1>1, <1>3, <2>1, <2>3, <3>1 DEF TicketsFollowStatus
  <2>. QED  BY <2>2, <2>3
<1>11. ConfirmedIsPaid' /\ paidTickets' \subseteq tickets'
  BY <1>1, <1>3, <1>7 DEF ConfirmedIsPaid
<1>12. PendingIsTracked' /\ TasksInv'
  BY <1>1, <1>2, <1>3 DEF PendingIsTracked, TasksInv, Tracked, InHand
<1>. QED  BY <1>5, <1>6, <1>8, <1>9, <1>10, <1>11, <1>12

LEMMA ExpireCommitInv ==
  ASSUME BookingInv, NEW s \in Sessions, ExpireCommit(s)
  PROVE  BookingInv'
<1> USE DEF BookingInv
<1>1. /\ s \in Workers /\ step[s] = "commit" /\ job[s] \in Orders
      /\ status[job[s]] = "pending" /\ ordLock[job[s]] = s
      /\ touched[s] = TicketsOf(job[s])
      /\ status' = [status EXCEPT ![job[s]] = "cancelled"]
      /\ tickets' = tickets \ touched[s]
      /\ paidTickets' = paidTickets \ touched[s]
      /\ EndSettle(s, "idle")
      /\ UNCHANGED <<lines, bookingVars, ownerVars, mailed, confirmed, lost, faults>>
      /\ UNCHANGED <<schedule, sending, queue, phase>>
  BY DEF ExpireCommit, SessionInv, NoFault, taskVars, answerVars, faultVars, bookingVars
<1>2. /\ step' = [step EXCEPT ![s] = "idle"]
      /\ ordLock' = [o \in Orders |-> IF ordLock[o] = s THEN NoSession ELSE ordLock[o]]
      /\ touched' = [touched EXCEPT ![s] = {}]
      /\ job' = job
  BY <1>1 DEF EndSettle
<1>3. /\ status \in [Orders -> Statuses] /\ tickets \subseteq Ticket
      /\ ordLock \in [Orders -> Sessions \cup {NoSession}]
      /\ step \in [Sessions -> Steps] /\ touched \in [Sessions -> SUBSET Ticket]
      /\ confirmed \subseteq Orders /\ mailed \subseteq Orders
      /\ paidTickets \subseteq tickets
  BY DEF TypeOK, ReservationTypeOK
<1>4. status' \in [Orders -> Statuses]
  BY <1>1, <1>3 DEF Statuses
<1>5. ReservationInv'
  BY <1>1, <1>4, SettleKeepsReservationInv
<1>6. TypeOK'
  BY <1>1, <1>3, <1>5, EndSettleTypes DEF TypeOK, TasksTypeOK, ReservationInv
<1>7. \A o \in Orders :
        /\ Rows(o)' = Rows(o)
        /\ TicketsOf(o)' = IF o = job[s] THEN {} ELSE TicketsOf(o)
  BY <1>1 DEF TicketsOf, Rows
<1>8. \A o \in Orders : PhaseStatus(o)'
  BY <1>1, <1>3 DEF PhaseStatus
<1>9. \A r \in Sessions : SessionInv(r)'
  <2> SUFFICES ASSUME NEW r \in Sessions PROVE SessionInv(r)'
    OBVIOUS
  <2>1. CASE r = s
    BY <1>1, <1>2, <1>3, <2>1 DEF SessionInv
  <2>2. CASE r # s
    <3>1. step'[r] = step[r] /\ job'[r] = job[r] /\ touched'[r] = touched[r]
      BY <1>2, <1>3, <2>2
    <3>2. CASE step[r] \in {"tickets", "commit", "notify"}
      <4>1. job[r] # job[s] /\ job[r] \in Orders
        BY <1>1, <2>2, <3>2, SettledAlone DEF SessionInv
      <4>2. status'[job[r]] = status[job[r]] /\ TicketsOf(job[r])' = TicketsOf(job[r])
        BY <1>1, <1>2, <1>3, <1>7, <4>1
      <4>3. step[r] # "notify" => ordLock'[job[r]] = ordLock[job[r]]
        BY <1>2, <1>3, <2>2, <3>2, <4>1 DEF SessionInv
      <4>. QED  BY <3>1, <4>1, <4>2, <4>3 DEF SessionInv
    <3>3. CASE step[r] \notin {"tickets", "commit", "notify"}
      <4>1. \A o \in Orders : /\ status[o] # "none" => status'[o] # "none"
                              /\ status[o] # "pending" => status'[o] # "pending"
        BY <1>1, <1>3
      <4>. QED  BY <3>1, <3>3, <4>1 DEF SessionInv
    <3>. QED  BY <3>2, <3>3
  <2>. QED  BY <2>1, <2>2
<1>10. TicketsFollowStatus'
  <2> SUFFICES ASSUME NEW o \in Orders
               PROVE  /\ TicketsOf(o)' = IF status'[o] \in {"pending", "paid"}
                                          THEN Rows(o) ELSE {}
                      /\ TicketsOf(o)' \cap paidTickets' =
                           IF status'[o] = "paid" THEN Rows(o) ELSE {}
    BY <1>7 DEF TicketsFollowStatus
  <2>1. CASE o = job[s]
    BY <1>1, <1>3, <1>7, <2>1
  <2>2. CASE o # job[s]
    <3>1. TicketsOf(o) \cap TicketsOf(job[s]) = {}
      BY <2>2 DEF TicketsOf
    <3>. QED  BY <1>1, <1>3, <1>7, <2>2, <3>1 DEF TicketsFollowStatus
  <2>. QED  BY <2>1, <2>2
<1>11. ConfirmedIsPaid' /\ paidTickets' \subseteq tickets'
  BY <1>1, <1>3, <1>7 DEF ConfirmedIsPaid
<1>12. PendingIsTracked' /\ TasksInv'
  <2>1. \A p \in Orders : p # job[s] /\ InHand(p) => InHand(p)'
    BY <1>1, <1>2, <1>3 DEF InHand, Sessions
  <2>. QED
    BY <1>1, <1>2, <1>3, <2>1 DEF PendingIsTracked, TasksInv, Tracked, InHand
<1>. QED  BY <1>5, <1>6, <1>8, <1>9, <1>10, <1>11, <1>12

-----------------------------------------------------------------------------

LEMMA IdleInv == ASSUME BookingInv, UNCHANGED vars PROVE BookingInv'
<1> USE DEF BookingInv
<1>1. /\ UNCHANGED <<reservationVars, paidTickets>>
      /\ UNCHANGED <<schedule, sending, queue, ordLock, job, step, touched,
                     mailed, confirmed, lost, faults>>
  BY DEF vars, taskVars, settleVars, answerVars, faultVars
<1>2. /\ ReservationInv' /\ TicketsFollowStatus' /\ ConfirmedIsPaid'
      /\ paidTickets' \subseteq tickets'
      /\ UNCHANGED <<status, lines, tickets, phase>>
      /\ \A p \in Orders : PhaseStatus(p)' /\ TicketsOf(p)' = TicketsOf(p)
  BY <1>1, ReservationStays
<1>3. TypeOK'
  BY <1>1, <1>2 DEF TypeOK, TasksTypeOK, ReservationInv
<1>4. \A r \in Sessions : SessionInv(r)'
  BY <1>1, <1>2 DEF SessionInv
<1>5. PendingIsTracked' /\ TasksInv'
  BY <1>1, <1>2 DEF PendingIsTracked, TasksInv, Tracked, InHand
<1>. QED  BY <1>2, <1>3, <1>4, <1>5

LEMMA BookingNextInv == ASSUME BookingInv, [Next]_vars PROVE BookingInv'
<1>1. ASSUME NEW o \in Orders, Book(o) PROVE BookingInv'
  BY <1>1, BookInv
<1>2. ASSUME NEW o \in Orders, ScheduleExpiry(o) PROVE BookingInv'
  BY <1>2, ScheduleExpiryInv
<1>3. ASSUME NEW o \in Orders, CreateFails(o) PROVE BookingInv'
  BY <1>3, CreateFailsInv
<1>4. ASSUME NEW o \in Orders, NEW p \in Orders, ScheduleCollides(o, p) PROVE BookingInv'
  BY <1>4, ScheduleCollidesInv
<1>5. ASSUME NEW o \in Orders, NEW p \in Payers, PayRequest(p, o) PROVE BookingInv'
  <2>1. p \in Sessions
    BY DEF Sessions
  <2>. QED  BY <1>5, <2>1, StartInv
<1>6. ASSUME NEW o \in Orders, NEW w \in Workers, WorkerTake(w, o) PROVE BookingInv'
  <2>1. w \in Sessions
    BY DEF Sessions
  <2>. QED  BY <1>6, <2>1, StartInv
<1>7. CASE Owner
  BY <1>7, OwnerInv
<1>8. CASE Scheduler \/ SchedulerCrash
  BY <1>8, SchedulerInv
<1>9. ASSUME NEW s \in Sessions, SettleStep(s) PROVE BookingInv'
  BY <1>9, ProceedInv, RereadInv, PayCommitInv, ExpireCommitInv, PayNotifyInv DEF SettleStep
<1>10. ASSUME NEW s \in Sessions, NotifyFails(s) \/ SettleFails(s) PROVE BookingInv'
  BY <1>10, FailsInv
<1>11. CASE UNCHANGED vars
  BY <1>11, IdleInv
<1>. QED
  BY <1>1, <1>2, <1>3, <1>4, <1>5, <1>6, <1>7, <1>8, <1>9, <1>10, <1>11 DEF Next

\* The invariant holds throughout every behaviour.
LEMMA BookingInvariance == Spec => []BookingInv
<1>1. Init => BookingInv
  BY BookingInitInv
<1>2. BookingInv /\ [Next]_vars => BookingInv'
  BY BookingNextInv
<1>. QED  BY <1>1, <1>2, PTL DEF Spec

-----------------------------------------------------------------------------
(* The steps a reader of the database can see *)

\* Only three kinds of step write orders or tickets: the commits of create,
\* of confirm_payment and of expire_order.
LEMMA VisibleSteps ==
  ASSUME BookingInv, [Next]_vars
  PROVE  \/ UNCHANGED <<status, tickets, paidTickets>>
         \/ \E o \in Orders : Commit(o) /\ paidTickets' = paidTickets
         \/ \E s \in Sessions : PayCommit(s) \/ ExpireCommit(s)
<1> DEFINE Hidden == UNCHANGED <<status, tickets, paidTickets>>
<1>1. ASSUME NEW o \in Orders, Book(o)
      PROVE  Hidden \/ (Commit(o) /\ paidTickets' = paidTickets)
  BY <1>1 DEF Book, BookingStep, Submit, Select, LockRow, Refuse, Abort, tableVars
<1>2. ASSUME NEW o \in Orders, \/ ScheduleExpiry(o)
                               \/ CreateFails(o)
                               \/ \E p \in Orders : ScheduleCollides(o, p)
      PROVE  Hidden
  BY <1>2 DEF ScheduleExpiry, CreateFails, ScheduleCollides, Answer, FailAfterCommit, tableVars
<1>3. ASSUME NEW o \in Orders, \/ \E p \in Payers : PayRequest(p, o)
                               \/ \E w \in Workers : WorkerTake(w, o)
      PROVE  Hidden
  BY <1>3 DEF PayRequest, WorkerTake, reservationVars, tableVars
<1>4. CASE Owner
  BY <1>4 DEF Owner, OwnerStep, ValidateEdit, ApplyEdit, Publish, tableVars
<1>5. CASE Scheduler \/ SchedulerCrash
  BY <1>5 DEF Scheduler, SchedulerCrash, reservationVars, tableVars
<1>6. ASSUME NEW s \in Sessions, SettleStep(s)
      PROVE  Hidden \/ PayCommit(s) \/ ExpireCommit(s)
  BY <1>6 DEF SettleStep, ClaimOrder, MissOrder, Reread, TouchTickets, PayNotify,
              reservationVars, tableVars
<1>7. ASSUME NEW s \in Sessions, NotifyFails(s) \/ SettleFails(s)
      PROVE  Hidden
  BY <1>7 DEF NotifyFails, SettleFails, reservationVars, tableVars
<1>8. CASE UNCHANGED vars
  BY <1>8 DEF vars, reservationVars, tableVars
<1>. QED  BY <1>1, <1>2, <1>3, <1>4, <1>5, <1>6, <1>7, <1>8 DEF Next

\* The commit of create is Reserve.
LEMMA CommitReserves ==
  ASSUME BookingInv, NEW o \in Orders, Commit(o), paidTickets' = paidTickets
  PROVE  Ledger!Reserve(o)
<1> USE DEF BookingInv
<1>1. /\ phase[o] = "lock" /\ status[o] = "none"
      /\ status' = [status EXCEPT ![o] = "pending"]
      /\ tickets' = tickets \cup Rows(o)
  BY DEF Commit, SelectDone, PhaseStatus
<1>2. lines[o] \in Seq(Line) /\ lines[o] # <<>> /\ tickets \subseteq Ticket
  BY <1>1 DEF ReservationInv, ReservationTypeOK
<1>3. /\ Rows(o) # {} /\ Rows(o) \subseteq Ticket
      /\ \A t \in Rows(o) : t[1] = o
  BY <1>2, RowsProperties
<1>4. \A p \in Orders : TicketsOf(p)' = IF p = o THEN Rows(o) ELSE TicketsOf(p)
  <2>1. TicketsOf(o) = {}
    BY <1>1 DEF TicketsFollowStatus
  <2>. QED  BY <1>1, <1>3, <2>1 DEF TicketsOf
<1>5. Rows(o) \cap paidTickets = {}
  BY <1>1, <1>3 DEF TicketsFollowStatus, TicketsOf
<1>6. \A p \in Orders :
        (TicketsOf(p) \cap paidTickets)' = TicketsOf(p) \cap paidTickets
  BY <1>1, <1>4, <1>5 DEF TicketsFollowStatus
<1>. QED  BY <1>1, <1>3, <1>4, <1>6 DEF Ledger!Reserve

\* The commit of confirm_payment is Settle, that of expire_order GiveBack.
LEMMA SessionCommitSettles ==
  ASSUME BookingInv, NEW s \in Sessions, PayCommit(s)
  PROVE  job[s] \in Orders /\ Ledger!Settle(job[s])
<1> USE DEF BookingInv
<1>1. /\ job[s] \in Orders /\ status[job[s]] = "pending"
      /\ touched[s] = TicketsOf(job[s])
      /\ status' = [status EXCEPT ![job[s]] = "paid"]
      /\ paidTickets' = paidTickets \cup (touched[s] \cap tickets)
      /\ tickets' = tickets
  BY DEF PayCommit, SessionInv
<1>2. \A p \in Orders : TicketsOf(p)' = TicketsOf(p)
  BY <1>1 DEF TicketsOf
<1>3. \A p \in Orders :
        (TicketsOf(p) \cap paidTickets)' =
          IF p = job[s] THEN TicketsOf(p) ELSE TicketsOf(p) \cap paidTickets
  BY <1>1, <1>2 DEF TicketsOf
<1>. QED  BY <1>1, <1>2, <1>3 DEF Ledger!Settle

LEMMA SessionCommitGivesBack ==
  ASSUME BookingInv, NEW s \in Sessions, ExpireCommit(s)
  PROVE  job[s] \in Orders /\ Ledger!GiveBack(job[s])
<1> USE DEF BookingInv
<1>1. /\ job[s] \in Orders /\ status[job[s]] = "pending"
      /\ touched[s] = TicketsOf(job[s])
      /\ status' = [status EXCEPT ![job[s]] = "cancelled"]
      /\ paidTickets' = paidTickets \ touched[s]
      /\ tickets' = tickets \ touched[s]
  BY DEF ExpireCommit, SessionInv
<1>2. \A p \in Orders : TicketsOf(p)' = IF p = job[s] THEN {} ELSE TicketsOf(p)
  BY <1>1 DEF TicketsOf
<1>3. TicketsOf(job[s]) \cap paidTickets = {}
  BY <1>1 DEF TicketsFollowStatus
<1>4. \A p \in Orders :
        (TicketsOf(p) \cap paidTickets)' = TicketsOf(p) \cap paidTickets
  BY <1>1, <1>2, <1>3 DEF TicketsOf
<1>. QED  BY <1>1, <1>2, <1>4 DEF Ledger!GiveBack

LEMMA HiddenStutters ==
  ASSUME UNCHANGED <<status, tickets, paidTickets>>
  PROVE  UNCHANGED Ledger!ledgerVars
BY DEF Ledger!ledgerVars, TicketsOf

LEMMA StepRefines ==
  ASSUME BookingInv, [Next]_vars
  PROVE  [Ledger!LedgerNext]_(Ledger!ledgerVars)
<1>1. CASE UNCHANGED <<status, tickets, paidTickets>>
  BY <1>1, HiddenStutters
<1>2. ASSUME NEW o \in Orders, Commit(o), paidTickets' = paidTickets
      PROVE  Ledger!LedgerNext
  BY <1>2, CommitReserves DEF Ledger!LedgerNext
<1>3. ASSUME NEW s \in Sessions, PayCommit(s)
      PROVE  Ledger!LedgerNext
  BY <1>3, SessionCommitSettles DEF Ledger!LedgerNext
<1>4. ASSUME NEW s \in Sessions, ExpireCommit(s)
      PROVE  Ledger!LedgerNext
  BY <1>4, SessionCommitGivesBack DEF Ledger!LedgerNext
<1>. QED  BY <1>1, <1>2, <1>3, <1>4, VisibleSteps

\* A settled order stays settled in every step.
LEMMA SettledStays ==
  ASSUME BookingInv, [Next]_vars, NEW o \in Orders, status[o] \in {"paid", "cancelled"}
  PROVE  status'[o] = status[o]
<1> USE DEF BookingInv
<1>1. CASE UNCHANGED <<status, tickets, paidTickets>>
  BY <1>1
<1>2. ASSUME NEW p \in Orders, Commit(p) PROVE status'[o] = status[o]
  <2>1. status[p] = "none"
    BY <1>2 DEF Commit, SelectDone, PhaseStatus
  <2>. QED  BY <1>2, <2>1 DEF Commit, TypeOK, ReservationTypeOK
<1>3. ASSUME NEW s \in Sessions, PayCommit(s) \/ ExpireCommit(s) PROVE status'[o] = status[o]
  <2>1. status[job[s]] = "pending"
    BY <1>3 DEF PayCommit, ExpireCommit, SessionInv
  <2>. QED  BY <1>3, <2>1 DEF PayCommit, ExpireCommit, TypeOK, ReservationTypeOK
<1>. QED  BY <1>1, <1>2, <1>3, VisibleSteps

-----------------------------------------------------------------------------
(* Sales, with payments and expiries *)

\* A step of the composed system books as Reservation says, or settles an order
\* and adds no ticket.
LEMMA BooksOrSettles ==
  ASSUME BookingInv, [Next]_vars
  PROVE  \/ [ReservationNext]_reservationVars
         \/ UNCHANGED <<lines, bookingVars, ownerVars>> /\ tickets' \subseteq tickets
<1>1. ASSUME NEW o \in Orders,
             \/ Book(o) \/ ScheduleExpiry(o) \/ CreateFails(o)
             \/ \E p \in Orders : ScheduleCollides(o, p)
      PROVE  ReservationNext
  BY <1>1 DEF Book, ScheduleExpiry, CreateFails, ScheduleCollides, ReservationNext
<1>2. CASE Owner
  BY <1>2 DEF Owner, ReservationNext
<1>3. ASSUME NEW s \in Sessions, SettleStep(s)
      PROVE  \/ UNCHANGED reservationVars
             \/ UNCHANGED <<lines, bookingVars, ownerVars>> /\ tickets' \subseteq tickets
  BY <1>3 DEF SettleStep, ClaimOrder, MissOrder, Reread, TouchTickets,
              PayCommit, ExpireCommit, PayNotify
<1>4. ASSUME NEW o \in Orders, \/ \E p \in Payers : PayRequest(p, o)
                               \/ \E w \in Workers : WorkerTake(w, o)
      PROVE  UNCHANGED reservationVars
  BY <1>4 DEF PayRequest, WorkerTake
<1>5. ASSUME NEW s \in Sessions, NotifyFails(s) \/ SettleFails(s)
      PROVE  UNCHANGED reservationVars
  BY <1>5 DEF NotifyFails, SettleFails
<1>6. ASSUME Scheduler \/ SchedulerCrash \/ UNCHANGED vars
      PROVE  UNCHANGED reservationVars
  BY <1>6 DEF Scheduler, SchedulerCrash, vars
<1>. QED  BY <1>1, <1>2, <1>3, <1>4, <1>5, <1>6 DEF Next

\* Tickets that are given back keep every snapshot's count an upper bound.
LEMMA SettleKeepsSales ==
  ASSUME SalesInv, ReservationInv',
         UNCHANGED <<lines, bookingVars, ownerVars>>, tickets' \subseteq tickets
  PROVE  SalesInv'
<1>1. UNCHANGED <<lines, phase, seen, total>>
  BY DEF bookingVars, ownerVars
<1>2. IsFiniteSet(tickets) /\ ReservationTypeOK
  BY DEF SalesInv, TablesInv, ReservationInv
<1>3. ASSUME NEW c \in Categories
      PROVE  Occupied(c) \in Nat /\ Occupied(c)' \in Nat /\ Occupied(c)' <= Occupied(c)
  <2> DEFINE old == {t \in tickets : lines[t[1]][t[2]].category = c}
             now == {t \in tickets' : lines'[t[1]][t[2]].category = c}
  <2>1. old \in SUBSET tickets /\ now \in SUBSET old
    BY <1>1
  <2>2. IsFiniteSet(old)
    BY <1>2, <2>1, FS_Subset
  <2>3. IsFiniteSet(now) /\ Cardinality(now) <= Cardinality(old)
    BY <2>1, <2>2, FS_Subset
  <2>. QED  BY <2>2, <2>3, FS_CardinalityType DEF Occupied
<1>4. NoOversell'
  <2> SUFFICES ASSUME NEW c \in Categories PROVE Occupied(c)' <= total'[c]
    BY DEF NoOversell
  <2>1. Occupied(c) <= total[c] /\ total[c] \in Nat
    BY <1>2 DEF SalesInv, NoOversell, ReservationTypeOK
  <2>. QED  BY <1>1, <1>3, <2>1
<1>5. ASSUME NEW o \in Orders, phase'[o] = "lock", NEW c \in Wanted(o)'
      PROVE  Occupied(c)' <= seen'[o][c]
  <2>1. c \in Wanted(o) /\ lines[o] \in Seq(Line)
    BY <1>1, <1>2, <1>5 DEF Wanted, ReservationTypeOK
  <2>2. c \in Categories
    BY <2>1, ItemsTyped DEF Wanted
  <2>3. Occupied(c) <= seen[o][c] /\ seen[o][c] \in Nat
    BY <1>1, <1>2, <1>5, <2>1, <2>2 DEF SalesInv, ReservationTypeOK
  <2>. QED  BY <1>1, <1>3, <2>2, <2>3
<1>6. CommittedTickets' /\ \A o \in Orders : phase'[o] # "idle" => NoRepeats(lines'[o])
  BY <1>1 DEF SalesInv, TablesInv, CommittedTickets
<1>. QED  BY <1>4, <1>5, <1>6 DEF SalesInv, TablesInv

LEMMA BookingSalesStep ==
  ASSUME NoRequestRepeats, BookingInv, SalesInv, NoRaces, [Next]_vars,
         \A c \in Categories : total'[c] >= total[c]
  PROVE  SalesInv'
<1>1. CASE [ReservationNext]_reservationVars
  BY <1>1, SalesStep
<1>2. CASE UNCHANGED <<lines, bookingVars, ownerVars>> /\ tickets' \subseteq tickets
  <2>1. ReservationInv'
    BY BookingNextInv DEF BookingInv
  <2>. QED  BY <1>2, <2>1, SettleKeepsSales
<1>. QED  BY <1>1, <1>2, BooksOrSettles

-----------------------------------------------------------------------------
(* Theorems *)

\* Every variable of the composed system keeps its type, faults included.
THEOREM TypeCorrect == Spec => []TypeOK
<1>1. BookingInv => TypeOK
  BY DEF BookingInv
<1>. QED  BY <1>1, BookingInvariance, PTL

\* In every committed state an order's tickets are exactly what its status
\* says: whatever payments and expiries race, fail and are repeated.
THEOREM TicketsAlwaysFollowStatus == Spec => []TicketsFollowStatus
<1>1. BookingInv => TicketsFollowStatus
  BY DEF BookingInv
<1>. QED  BY <1>1, BookingInvariance, PTL

\* Nobody is told that an order is paid, or sent its mail, unless it is
\* paid and keeps all its tickets.
THEOREM ConfirmationIsTrue == Spec => []ConfirmedIsPaid
<1>1. BookingInv => ConfirmedIsPaid
  BY DEF BookingInv
<1>. QED  BY <1>1, BookingInvariance, PTL

\* The three losses recorded in "lost" are the only ways a pending order
\* can be forgotten.
THEOREM NoOtherLoss == Spec => []PendingIsTracked
<1>1. BookingInv => PendingIsTracked
  BY DEF BookingInv
<1>. QED  BY <1>1, BookingInvariance, PTL

\* A settled order stays as it is: a late or repeated payment does not
\* revive a cancelled order, a late or repeated expiry does not cancel a
\* paid one.
StatusIsFinal ==
  [][\A o \in Orders :
       status[o] \in {"paid", "cancelled"} => status'[o] = status[o]]_vars

\* No late or repeated payment or expiry changes a settled order.
THEOREM SettlementIsFinal == Spec => StatusIsFinal
<1>1. BookingInv /\ [Next]_vars =>
        [\A o \in Orders : status[o] \in {"paid", "cancelled"} => status'[o] = status[o]]_vars
  BY SettledStays
<1>. QED  BY <1>1, BookingInvariance, PTL DEF Spec, StatusIsFinal

\* Row locks, snapshots, retries, crashes and lost tasks are invisible to a
\* reader of the database: all it sees is orders being reserved, settled and
\* given back in single steps.
THEOREM BookingImplementsLedger == Spec => ImplementsLedger
<1>1. Init => Ledger!LedgerInit
  BY DEF Init, ReservationInit, Ledger!LedgerInit, TicketsOf
<1>2. BookingInv /\ [Next]_vars => [Ledger!LedgerNext]_(Ledger!ledgerVars)
  BY StepRefines
<1>. QED  BY <1>1, <1>2, BookingInvariance, PTL DEF Spec, ImplementsLedger, Ledger!LedgerSpec

\* A row that create's SELECT returned has room for the request also while
\* orders are paid and expire beside it.
THEOREM AdmissionStaysWithinTotal == Spec => []GrantedFits
<1>1. BookingInv => GrantedFits
  BY DEF BookingInv, ReservationInv, SelectInv, GrantedFits
<1>. QED  BY <1>1, BookingInvariance, PTL

\* No category is sold beyond its total_quantity unless a race, a repeated
\* category or an owner does it, also while orders are paid, expire, and give
\* back tickets that a snapshot still counted.
THEOREM SettlingNeverOversells ==
  ASSUME NoRequestRepeats
  PROVE  Spec /\ []NoRaces /\ [][\A c \in Categories : total'[c] >= total[c]]_vars
           => []NoOversell
<1> DEFINE Enlarges == \A c \in Categories : total'[c] >= total[c]
<1>1. Init => SalesInv
  BY SalesInit DEF Init
<1>2. BookingInv /\ SalesInv /\ NoRaces /\ [Next /\ Enlarges]_vars => SalesInv'
  <2> SUFFICES ASSUME BookingInv, SalesInv, NoRaces, [Next /\ Enlarges]_vars PROVE SalesInv'
    OBVIOUS
  <2>1. \A c \in Categories : total[c] \in Nat
    BY DEF SalesInv, TablesInv, ReservationInv, ReservationTypeOK
  <2>2. Enlarges
    BY <2>1 DEF vars, reservationVars, ownerVars
  <2>. QED  BY <2>2, BookingSalesStep
<1>3. SalesInv => NoOversell
  BY DEF SalesInv
<1>4. Spec /\ [][Enlarges]_vars => Init /\ [][Next /\ Enlarges]_vars
  BY PTL DEF Spec
<1>. QED  BY <1>1, <1>2, <1>3, <1>4, BookingInvariance, PTL
=============================================================================
