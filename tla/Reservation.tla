---------------------------- MODULE Reservation ----------------------------
(***************************************************************************)
(* OrderService.create: an order is booked in one READ COMMITTED           *)
(* transaction that                                                        *)
(*   1. selects the requested ticket categories FOR UPDATE, keeping those  *)
(*      whose available_quantity (total_quantity minus a COUNT of ticket   *)
(*      rows) covers the requested quantity,                               *)
(*   2. refuses the order when a category is missing from the result,      *)
(*   3. inserts the order, its items and one ticket row per unit, commits. *)
(* Only after the commit is the cancellation task handed to the scheduler. *)
(*                                                                         *)
(* The COUNT is evaluated in the snapshot the SELECT statement starts      *)
(* with.  Row locks are then taken one by one; a row changed since the     *)
(* snapshot is re-checked in its new version, but the COUNT subquery still *)
(* reads the old snapshot.  The owner of the event may meanwhile change    *)
(* total_quantity (TicketCategoryService.update) and publish the event.    *)
(***************************************************************************)
EXTENDS Naturals, Sequences, FiniteSets

CONSTANTS
  Orders,         \* booking requests; each makes at most one order
  Categories,     \* rows of ticket_categories, all of one event
  Requests,       \* the item lists a client may send
  TotalQuantity,  \* initial total_quantity of each category
  Resizes,        \* the values an owner may set total_quantity to
  MaxInFlight,    \* bound: bookings between request and answer at a time
  NoOrder         \* nobody holds the row lock

Line == [category : Categories, quantity : Nat \ {0}]

ASSUME ReservationAssumption ==
  /\ NoOrder \notin Orders
  /\ Requests \subseteq Seq(Line) \ {<<>>}
  /\ TotalQuantity \in [Categories -> Nat \ {0}]
  /\ Resizes \subseteq Nat \ {0}
  /\ MaxInFlight \in Nat \ {0}

VARIABLES
  total,    \* ticket_categories.total_quantity, committed
  draft,    \* the event's status is still DRAFT
  edits,    \* categories whose update passed _validate_modification
  status,   \* orders.status, "none" while there is no committed row
  lines,    \* the items of each request; order_items rows once committed
  tickets,  \* committed rows of tickets: <<order, index of the item, unit>>
  phase,    \* where each request is in create
  seen,     \* the COUNT of tickets in the snapshot of the request's SELECT
  need,     \* rows the SELECT still has to lock
  granted,  \* rows the SELECT has returned
  catLock   \* holder of the row lock of each category

tableVars   == <<status, lines, tickets>>
bookingVars == <<phase, seen, need, granted, catLock>>
ownerVars   == <<total, draft, edits>>
reservationVars == <<tableVars, bookingVars, ownerVars>>

Statuses == {"none", "pending", "paid", "cancelled"}
Phases   == {"idle", "select", "lock", "committed", "answered", "refused", "failed"}
Ticket   == Orders \X Nat \X Nat

ReservationTypeOK ==
  /\ total \in [Categories -> Nat \ {0}]
  /\ draft \in BOOLEAN
  /\ edits \subseteq Categories
  /\ status \in [Orders -> Statuses]
  /\ lines \in [Orders -> Seq(Line)]
  /\ tickets \subseteq Ticket
  /\ phase \in [Orders -> Phases]
  /\ seen \in [Orders -> [Categories -> Nat]]
  /\ need \in [Orders -> SUBSET Categories]
  /\ granted \in [Orders -> SUBSET Categories]
  /\ catLock \in [Categories -> Orders \cup {NoOrder}]

-----------------------------------------------------------------------------
(* Queries *)

\* category_ids, the set of requested categories
Wanted(o) == {lines[o][i].category : i \in DOMAIN lines[o]}

\* requested_quantities, a dict: the last item of a category wins
LastLine(o, c) ==
  CHOOSE i \in DOMAIN lines[o] :
    /\ lines[o][i].category = c
    /\ \A j \in DOMAIN lines[o] : lines[o][j].category = c => j <= i
Asked(o, c) == lines[o][LastLine(o, c)].quantity

\* tickets_to_insert: one row per unit of every item
Rows(o) ==
  UNION {{<<o, i, k>> : k \in 1 .. lines[o][i].quantity} : i \in DOMAIN lines[o]}

TicketsOf(o) == {t \in tickets : t[1] = o}

\* _occupied_count_expression: tickets of any status count
Occupied(c) == Cardinality({t \in tickets : lines[t[1]][t[2]].category = c})

\* _available_quantity_expression, greatest(0, total_quantity - count)
Available(c, count) == IF total[c] > count THEN total[c] - count ELSE 0

\* bug: a request has to leave one seat free
HasRoom_Strict(o, c, count) == Available(c, count) > Asked(o, c)

\* When(id=cat_id, available_quantity__gte=qty)
HasRoom(o, c, count) == Available(c, count) >= Asked(o, c)

InFlight == {o \in Orders : phase[o] \in {"select", "lock", "committed"}}

-----------------------------------------------------------------------------
(* Steps of create *)

Released(o) == [c \in Categories |-> IF catLock[c] = o THEN NoOrder ELSE catLock[c]]

\* bug: the locks survive an ended transaction
EndBooking_KeepsLocks(o, outcome) ==
  /\ phase' = [phase EXCEPT ![o] = outcome]
  /\ UNCHANGED <<seen, need, granted, catLock>>

\* __aexit__: commit, or rollback, then close; either way the row locks go
EndBooking(o, outcome) ==
  /\ phase' = [phase EXCEPT ![o] = outcome]
  /\ catLock' = Released(o)
  /\ UNCHANGED <<seen, need, granted>>

\* The request arrives and the transaction opens.
Submit(o) ==
  /\ phase[o] = "idle"
  /\ Cardinality(InFlight) < MaxInFlight
  /\ lines' \in {[lines EXCEPT ![o] = items] : items \in Requests}
  /\ phase' = [phase EXCEPT ![o] = "select"]
  /\ UNCHANGED <<status, tickets, seen, need, granted, catLock, ownerVars>>

\* The SELECT takes its snapshot; only rows with room in it are candidates.
Select(o) ==
  /\ phase[o] = "select"
  /\ phase' = [phase EXCEPT ![o] = "lock"]
  /\ seen' = [seen EXCEPT ![o] = [c \in Categories |-> Occupied(c)]]
  /\ need' = [need EXCEPT ![o] = {c \in Wanted(o) : HasRoom(o, c, Occupied(c))}]
  /\ UNCHANGED <<tableVars, granted, catLock, ownerVars>>

\* bug: a row changed since the snapshot is not checked again
LockRow_NoRecheck(o, c) ==
  /\ phase[o] = "lock" /\ c \in need[o]
  /\ catLock[c] = NoOrder
  /\ catLock' = [catLock EXCEPT ![c] = o]
  /\ need' = [need EXCEPT ![o] = @ \ {c}]
  /\ granted' = [granted EXCEPT ![o] = @ \cup {c}]
  /\ UNCHANGED <<tableVars, phase, seen, ownerVars>>

\* FOR UPDATE reaches row c: it waits until the row is free, locks it, and
\* returns it if it still qualifies -- with the current total_quantity but
\* with the ticket count of the snapshot.
LockRow(o, c) ==
  /\ phase[o] = "lock" /\ c \in need[o]
  /\ catLock[c] = NoOrder
  /\ catLock' = [catLock EXCEPT ![c] = o]
  /\ need' = [need EXCEPT ![o] = @ \ {c}]
  /\ granted' = [granted EXCEPT ![o] =
                   IF HasRoom(o, c, seen[o][c]) THEN @ \cup {c} ELSE @]
  /\ UNCHANGED <<tableVars, phase, seen, ownerVars>>

SelectDone(o) == phase[o] = "lock" /\ need[o] = {}

\* len(categories) != len(category_ids): NoTicketsAvailableException
Refuse(o) ==
  /\ SelectDone(o) /\ granted[o] # Wanted(o)
  /\ EndBooking(o, "refused")
  /\ UNCHANGED <<tableVars, ownerVars>>

\* order, items and tickets are inserted and become visible together
Commit(o) ==
  /\ SelectDone(o) /\ granted[o] = Wanted(o)
  /\ status' = [status EXCEPT ![o] = "pending"]
  /\ tickets' = tickets \cup Rows(o)
  /\ EndBooking(o, "committed")
  /\ UNCHANGED <<lines, ownerVars>>

\* An exception, a lost connection, a crash or Postgres breaking a deadlock
\* rolls the transaction back.
Abort(o) ==
  /\ phase[o] \in {"select", "lock"}
  /\ EndBooking(o, "failed")
  /\ UNCHANGED <<tableVars, ownerVars>>

\* perform_task("order:cancel_reservation") returned and so does create
Answer(o) ==
  /\ phase[o] = "committed"
  /\ EndBooking(o, "answered")
  /\ UNCHANGED <<tableVars, ownerVars>>

\* The process dies, or perform_task raises, after the commit: the client
\* gets an error for an order that exists.
FailAfterCommit(o) ==
  /\ phase[o] = "committed"
  /\ EndBooking(o, "failed")
  /\ UNCHANGED <<tableVars, ownerVars>>

-----------------------------------------------------------------------------
(* The owner of the event *)

\* TicketCategoryService._validate_modification: a plain read of the status
ValidateEdit(c) ==
  /\ Resizes # {} /\ draft
  /\ edits' = edits \cup {c}
  /\ UNCHANGED <<total, draft, tableVars, bookingVars>>

\* UPDATE ticket_categories and commit; waits for the row lock
ApplyEdit(c) ==
  /\ c \in edits /\ catLock[c] = NoOrder
  /\ total' \in {[total EXCEPT ![c] = n] : n \in Resizes}
  /\ edits' = edits \ {c}
  /\ UNCHANGED <<draft, tableVars, bookingVars>>

\* EventService.publish, or cancel: the event leaves DRAFT for good
Publish ==
  /\ draft /\ draft' = FALSE
  /\ UNCHANGED <<total, edits, tableVars, bookingVars>>

-----------------------------------------------------------------------------

ReservationInit ==
  /\ total = TotalQuantity
  /\ draft = TRUE
  /\ edits = {}
  /\ status = [o \in Orders |-> "none"]
  /\ lines = [o \in Orders |-> <<>>]
  /\ tickets = {}
  /\ phase = [o \in Orders |-> "idle"]
  /\ seen = [o \in Orders |-> [c \in Categories |-> 0]]
  /\ need = [o \in Orders |-> {}]
  /\ granted = [o \in Orders |-> {}]
  /\ catLock = [c \in Categories |-> NoOrder]

\* steps of create up to the end of its transaction
BookingStep(o) ==
  \/ Submit(o)
  \/ Select(o)
  \/ \E c \in Categories : LockRow(o, c)
  \/ Refuse(o)
  \/ Commit(o)
  \/ Abort(o)

OwnerStep ==
  \/ \E c \in Categories : ValidateEdit(c) \/ ApplyEdit(c)
  \/ Publish

ReservationNext ==
  \/ \E o \in Orders : BookingStep(o) \/ Answer(o) \/ FailAfterCommit(o)
  \/ OwnerStep

ReservationSpec == ReservationInit /\ [][ReservationNext]_reservationVars

\* A set of transactions each waiting only for rows held by the others.
\* Postgres' deadlock_timeout aborts one of them.
Deadlocked(o) ==
  \E S \in SUBSET Orders :
    /\ o \in S
    /\ \A p \in S : need[p] # {} /\ \A c \in need[p] : catLock[c] \in S \ {p}

\* The API process keeps running its coroutines, Postgres grants free row
\* locks and breaks deadlocks.
ReservationFairness ==
  \A o \in Orders :
    /\ WF_reservationVars(Select(o))
    /\ WF_reservationVars(\E c \in Categories : LockRow(o, c))
    /\ WF_reservationVars(Refuse(o) \/ Commit(o))
    /\ WF_reservationVars(Deadlocked(o) /\ Abort(o))
    /\ WF_reservationVars(Answer(o))

ReservationFairSpec == ReservationSpec /\ ReservationFairness

-----------------------------------------------------------------------------
(* Properties *)

\* Never more ticket rows in a category than its total_quantity: the promise
\* of the quota check in create.
NoOversell == \A c \in Categories : Occupied(c) <= total[c]

\* A row the SELECT has returned had room for the request: the count the
\* snapshot showed plus the requested quantity is within the total_quantity
\* the row has now, however the owner changed it in between.
GrantedFits ==
  \A o \in Orders : phase[o] = "lock" =>
    \A c \in granted[o] : seen[o][c] + Asked(o, c) <= total[c]

\* The items name different categories.
NoRepeats(items) ==
  \A i, j \in DOMAIN items : items[i].category = items[j].category => i = j

\* A commit oversells a category for one of two reasons only: another booking
\* of the category was committed after the snapshot this one was judged by, or
\* the request names a category twice.  Neither the waits for the rows nor an
\* owner who makes the category smaller during them is a third.
OversellNeedsStaleCount ==
  [][\A o \in Orders : phase[o] = "lock" /\ phase'[o] = "committed" =>
       \A c \in Wanted(o) :
         \/ Occupied(c)' <= total[c]
         \/ Occupied(c) > seen[o][c]
         \/ ~NoRepeats(lines[o])]_reservationVars

\* A request is refused only when a category it asks for is really short of
\* seats at that moment, also when the owner shrinks the category meanwhile
\* (nothing may make room after the snapshot: no edit that enlarges it, no
\* cancellation).
RefusedOnlyWhenShort ==
  [][\A o \in Orders :
       phase[o] = "lock" /\ phase'[o] = "refused" =>
         \E c \in Wanted(o) : Occupied(c) + Asked(o, c) > total[c]]_reservationVars

\* Every booking that was begun ends: no wait on a row lock is for ever, not
\* even when requests lock the same categories in opposite orders.
EveryBookingEnds ==
  \A o \in Orders :
    phase[o] = "select" ~> phase[o] \in {"answered", "refused", "failed"}

\* A locked row is being booked from: its holder is in the middle of its SELECT
\* or about to commit, asked for the row and does not wait for it.  So a request
\* that waits is always waiting for somebody who runs.
LockHoldersRun ==
  \A c \in Categories : catLock[c] # NoOrder =>
    LET o == catLock[c] IN phase[o] = "lock" /\ c \in Wanted(o) \ need[o]

\* A published event's categories keep their total_quantity: the update of
\* a category is allowed on DRAFT events only.
FrozenOncePublished == [][~draft => UNCHANGED total]_reservationVars
=============================================================================
