------------------------- MODULE ReservationProofs -------------------------
(***************************************************************************)
(* What create guarantees for any orders, categories and requests.         *)
(* Whatever the owner edits, its variables keep their types (the counts it *)
(* compares are numbers) and an order is admitted only with room for it.   *)
(* While the owner only shrinks categories, a refusal is justified; while  *)
(* the owner only enlarges them and no two transactions that overlap ask   *)
(* for a common category, nothing is oversold.                             *)
(***************************************************************************)
EXTENDS Reservation, TLAPS, FiniteSetTheorems, SequenceTheorems

\* A set that can be numbered from 1 to n has n elements.
LEMMA Numbered ==
  ASSUME NEW n \in Nat, NEW S, NEW f \in Bijection(1 .. n, S)
  PROVE  IsFiniteSet(S) /\ Cardinality(S) = n
<1>1. ExistsBijection(1 .. n, S)
  BY DEF ExistsBijection
<1>2. IsFiniteSet(1 .. n) /\ Cardinality(1 .. n) = n
  BY FS_Interval
<1>. QED  BY <1>1, <1>2, FS_Bijection

\* An item's rows are finitely many.
LEMMA ItemRowsFinite ==
  ASSUME NEW o, NEW i, NEW q \in Nat
  PROVE  IsFiniteSet({<<o, i, k>> : k \in 1 .. q})
<1> DEFINE f == [k \in 1 .. q |-> <<o, i, k>>]
<1>1. f \in Bijection(1 .. q, {<<o, i, k>> : k \in 1 .. q})
  BY DEF Bijection, Injection, Surjection, IsInjective
<1>. QED  BY <1>1, Numbered

\* The items of a request are numbered 1 to its length.
LEMMA ItemsTyped ==
  ASSUME NEW o \in Orders, lines[o] \in Seq(Line)
  PROVE  /\ Len(lines[o]) \in Nat
         /\ DOMAIN lines[o] = 1 .. Len(lines[o])
         /\ \A i \in DOMAIN lines[o] :
              /\ lines[o][i].category \in Categories
              /\ lines[o][i].quantity \in Nat \ {0}
<1>1. /\ Len(lines[o]) \in Nat
      /\ DOMAIN lines[o] = 1 .. Len(lines[o])
  BY LenProperties
<1>2. \A i \in DOMAIN lines[o] : lines[o][i] \in Line
  BY <1>1, ElementOfSeq
<1>. QED  BY <1>1, <1>2 DEF Line

\* The ticket rows create inserts for a request: a finite set of tickets of
\* that order, and at least one.
LEMMA RowsProperties ==
  ASSUME NEW o \in Orders, lines[o] \in Seq(Line)
  PROVE  /\ Rows(o) \subseteq Ticket
         /\ IsFiniteSet(Rows(o))
         /\ \A t \in Rows(o) : t[1] = o
         /\ lines[o] # <<>> => Rows(o) # {}
<1>1. \A i \in DOMAIN lines[o] : i \in Nat /\ lines[o][i].quantity \in Nat \ {0}
  BY ItemsTyped
<1>2. Rows(o) \subseteq Ticket /\ \A t \in Rows(o) : t[1] = o
  BY <1>1 DEF Rows, Ticket
<1>3. IsFiniteSet(Rows(o))
  <2> DEFINE item(i) == {<<o, i, k>> : k \in 1 .. lines[o][i].quantity}
             items == {item(i) : i \in DOMAIN lines[o]}
             f == [i \in DOMAIN lines[o] |-> item(i)]
  <2>1. f \in Surjection(DOMAIN lines[o], items)
    BY DEF Surjection
  <2>2. IsFiniteSet(DOMAIN lines[o])
    BY ItemsTyped, FS_Interval
  <2>3. IsFiniteSet(items)
    BY <2>1, <2>2, FS_Surjection
  <2>4. ASSUME NEW i \in DOMAIN lines[o] PROVE IsFiniteSet(item(i))
    <3> DEFINE q == lines[o][i].quantity
    <3>1. q \in Nat
      BY <1>1
    <3> HIDE DEF q
    <3>2. IsFiniteSet({<<o, i, k>> : k \in 1 .. q})
      BY <3>1, ItemRowsFinite
    <3>. QED  BY <3>2 DEF q
  <2>5. IsFiniteSet(UNION items)
    BY <2>3, <2>4, FS_UNION
  <2>. QED  BY <2>5 DEF Rows
<1>4. ASSUME lines[o] # <<>> PROVE Rows(o) # {}
  <2>1. 1 \in DOMAIN lines[o]
    BY <1>4, ItemsTyped, EmptySeq
  <2> DEFINE first == {<<o, 1, k>> : k \in 1 .. lines[o][1].quantity}
  <2>2. first # {}
    <3>1. 1 \in 1 .. lines[o][1].quantity
      BY <1>1, <2>1
    <3>. QED  BY <3>1
  <2>3. first \in {{<<o, i, k>> : k \in 1 .. lines[o][i].quantity} : i \in DOMAIN lines[o]}
    BY <2>1
  <2>. QED  BY <2>2, <2>3 DEF Rows
<1>. QED  BY <1>2, <1>3, <1>4

\* A non-empty set of indices has a last one.
LEMMA LastIndex ==
  ASSUME NEW n \in Nat, NEW S, S \subseteq 1 .. n, S # {}
  PROVE  \E l \in S : \A j \in S : j <= l
<1> DEFINE fromEnd == {n - i : i \in S}
<1>1. fromEnd \subseteq Nat
  BY SMT
<1>2. fromEnd # {}
  OBVIOUS
<1>3. \E m \in fromEnd : \A k \in fromEnd : ~ (<<k, m>> \in OpToRel(<, Nat))
  <2> HIDE DEF fromEnd
  <2>. QED  BY <1>1, <1>2, WFMin, NatLessThanWellFounded
<1>4. PICK m \in fromEnd : \A k \in fromEnd : ~ (<<k, m>> \in OpToRel(<, Nat))
  BY <1>3
<1>5. ASSUME NEW k \in fromEnd PROVE m <= k
  <2>1. k \in Nat /\ m \in Nat
    BY <1>1
  <2>2. ~ (k < m)
    <3>1. ~ (<<k, m>> \in OpToRel(<, Nat))
      BY <1>4
    <3>. QED  BY <2>1, <3>1 DEF OpToRel
  <2>. QED  BY <2>1, <2>2
<1>6. PICK l \in S : m = n - l
  BY <1>4
<1>7. ASSUME NEW j \in S PROVE j <= l
  <2>1. m <= n - j
    BY <1>5
  <2>. QED  BY <1>6, <2>1
<1>. QED  BY <1>7

\* The dict of requested quantities has an entry, a positive number, for
\* every requested category: the quantity of its last item.
LEMMA AskedPositive ==
  ASSUME NEW o \in Orders, lines[o] \in Seq(Line), NEW c \in Wanted(o)
  PROVE  Asked(o, c) \in Nat \ {0}
<1> DEFINE at == {i \in DOMAIN lines[o] : lines[o][i].category = c}
<1>1. /\ Len(lines[o]) \in Nat
      /\ at \subseteq 1 .. Len(lines[o])
      /\ at # {}
  BY ItemsTyped DEF Wanted
<1>2. PICK l \in at : \A j \in at : j <= l
  BY <1>1, LastIndex
<1>3. LastLine(o, c) \in DOMAIN lines[o]
  BY <1>2 DEF LastLine
<1>. QED  BY <1>3, ItemsTyped DEF Asked

-----------------------------------------------------------------------------
(* The inductive invariant *)

\* What holds of a request's SELECT: rows it has returned are rows it asked
\* for, are locked by it, and had room when they were re-checked.
SelectInv(o) ==
  /\ phase[o] \in {"idle", "select"} => need[o] = {} /\ granted[o] = {}
  /\ phase[o] = "lock" =>
       /\ need[o] \subseteq Wanted(o)
       /\ \A c \in granted[o] :
            /\ c \in Wanted(o)
            /\ catLock[c] = o
            /\ seen[o][c] + Asked(o, c) <= total[c]

\* The count of ticket rows is a number because the table is finite; a
\* submitted request has an item.
ReservationInv ==
  /\ ReservationTypeOK
  /\ IsFiniteSet(tickets)
  /\ \A o \in Orders : phase[o] # "idle" => lines[o] # <<>>
  /\ \A o \in Orders : SelectInv(o)

LEMMA OccupiedNat ==
  ASSUME IsFiniteSet(tickets), NEW c \in Categories
  PROVE  Occupied(c) \in Nat
<1> DEFINE of == {t \in tickets : lines[t[1]][t[2]].category = c}
<1>1. of \in SUBSET tickets
  OBVIOUS
<1>2. IsFiniteSet(of)
  BY <1>1, FS_Subset
<1>. QED  BY <1>2, FS_CardinalityType DEF Occupied

\* A row the WHERE clause accepts has room for the requested quantity.
LEMMA RoomFits ==
  ASSUME ReservationTypeOK, NEW o \in Orders, NEW c \in Wanted(o), NEW n \in Nat,
         HasRoom(o, c, n)
  PROVE  n + Asked(o, c) <= total[c]
<1>1. lines[o] \in Seq(Line)
  BY DEF ReservationTypeOK
<1>2. c \in Categories
  BY <1>1, ItemsTyped DEF Wanted
<1>3. total[c] \in Nat \ {0}
  BY <1>2 DEF ReservationTypeOK
<1>4. Asked(o, c) \in Nat \ {0}
  BY <1>1, AskedPositive
<1>. QED  BY <1>3, <1>4 DEF HasRoom, Available

\* Ending a transaction frees exactly the locks of that transaction.
LEMMA EndBookingInv ==
  ASSUME ReservationInv, NEW o \in Orders, NEW outcome \in Phases,
         phase[o] # "idle",
         outcome \notin {"idle", "select", "lock"}, EndBooking(o, outcome),
         UNCHANGED <<lines, total>>
  PROVE  /\ phase' \in [Orders -> Phases]
         /\ catLock' \in [Categories -> Orders \cup {NoOrder}]
         /\ need' = need /\ granted' = granted /\ seen' = seen
         /\ \A p \in Orders : phase'[p] # "idle" => lines'[p] # <<>>
         /\ \A p \in Orders : SelectInv(p)'
<1> USE DEF ReservationInv, ReservationTypeOK
<1>1. /\ phase' = [phase EXCEPT ![o] = outcome]
      /\ catLock' = [c \in Categories |-> IF catLock[c] = o THEN NoOrder ELSE catLock[c]]
      /\ need' = need /\ granted' = granted /\ seen' = seen
  BY DEF EndBooking, Released
<1>2. \A p \in Orders : phase'[p] = IF p = o THEN outcome ELSE phase[p]
  BY <1>1
<1>3. ASSUME NEW p \in Orders PROVE SelectInv(p)'
  <2>1. CASE p = o
    BY <1>2, <2>1 DEF SelectInv
  <2>2. CASE p # o
    <3>1. \A c \in Categories : catLock[c] = p => catLock'[c] = p
      BY <1>1, <2>2
    <3>2. Wanted(p)' = Wanted(p) /\ \A c : Asked(p, c)' = Asked(p, c)
      BY DEF Wanted, Asked, LastLine
    <3>. QED  BY <1>1, <1>2, <2>2, <3>1, <3>2 DEF SelectInv
  <2>. QED  BY <2>1, <2>2
<1>. QED  BY <1>1, <1>2, <1>3

LEMMA InitInv == ASSUME ReservationInit PROVE ReservationInv
<1> USE ReservationAssumption
<1>1. ReservationTypeOK
  <2>1. lines \in [Orders -> Seq(Line)]
    BY EmptySeq DEF ReservationInit
  <2>. QED  BY <2>1 DEF ReservationInit, ReservationTypeOK, Statuses, Phases
<1>2. IsFiniteSet(tickets)
  BY FS_EmptySet DEF ReservationInit
<1>. QED  BY <1>1, <1>2 DEF ReservationInit, ReservationInv, SelectInv

LEMMA SubmitInv ==
  ASSUME ReservationInv, NEW o \in Orders, Submit(o)
  PROVE  ReservationInv'
<1> USE DEF ReservationInv, ReservationTypeOK
<1>1. PICK items \in Requests : lines' = [lines EXCEPT ![o] = items]
  BY DEF Submit
<1>2. items \in Seq(Line) /\ items # <<>>
  BY <1>1, ReservationAssumption
<1>3. /\ phase[o] = "idle" /\ phase' = [phase EXCEPT ![o] = "select"]
      /\ UNCHANGED <<status, tickets, seen, need, granted, catLock, total, draft, edits>>
  BY DEF Submit, ownerVars
<1>4. ReservationTypeOK'
  BY <1>1, <1>2, <1>3 DEF Phases
<1>5. ASSUME NEW p \in Orders PROVE SelectInv(p)'
  <2>1. CASE p = o
    BY <1>3, <2>1 DEF SelectInv
  <2>2. CASE p # o
    <3>1. lines'[p] = lines[p]
      BY <1>1, <2>2
    <3>2. Wanted(p)' = Wanted(p) /\ \A c : Asked(p, c)' = Asked(p, c)
      BY <3>1 DEF Wanted, Asked, LastLine
    <3>. QED  BY <1>3, <2>2, <3>2 DEF SelectInv
  <2>. QED  BY <2>1, <2>2
<1>. QED  BY <1>1, <1>2, <1>3, <1>4, <1>5

LEMMA SelectKeepsInv ==
  ASSUME ReservationInv, NEW o \in Orders, Select(o)
  PROVE  ReservationInv'
<1> USE DEF ReservationInv, ReservationTypeOK
<1>1. \A c \in Categories : Occupied(c) \in Nat
  BY OccupiedNat
<1>2. /\ phase[o] = "select" /\ phase' = [phase EXCEPT ![o] = "lock"]
      /\ seen' = [seen EXCEPT ![o] = [c \in Categories |-> Occupied(c)]]
      /\ need' = [need EXCEPT ![o] = {c \in Wanted(o) : HasRoom(o, c, Occupied(c))}]
      /\ UNCHANGED <<status, lines, tickets, granted, catLock, total, draft, edits>>
  BY DEF Select, tableVars, ownerVars
<1>3. Wanted(o) \subseteq Categories
  BY ItemsTyped DEF Wanted
<1>4. ReservationTypeOK'
  <2>1. [c \in Categories |-> Occupied(c)] \in [Categories -> Nat]
    BY <1>1
  <2>2. seen' \in [Orders -> [Categories -> Nat]]
    BY <1>2, <2>1
  <2>3. need' \in [Orders -> SUBSET Categories]
    BY <1>2, <1>3
  <2>4. phase' \in [Orders -> Phases]
    BY <1>2 DEF Phases
  <2>. QED  BY <1>2, <2>2, <2>3, <2>4
<1>5. ASSUME NEW p \in Orders PROVE SelectInv(p)'
  <2>1. Wanted(p)' = Wanted(p) /\ \A c : Asked(p, c)' = Asked(p, c)
    BY <1>2 DEF Wanted, Asked, LastLine
  <2>2. CASE p = o
    BY <1>2, <2>1, <2>2 DEF SelectInv
  <2>3. CASE p # o
    BY <1>2, <2>1, <2>3 DEF SelectInv
  <2>. QED  BY <2>2, <2>3
<1>. QED  BY <1>2, <1>4, <1>5

LEMMA LockRowInv ==
  ASSUME ReservationInv, NEW o \in Orders, NEW c \in Categories, LockRow(o, c)
  PROVE  ReservationInv'
<1> USE DEF ReservationInv, ReservationTypeOK
<1>1. /\ phase[o] = "lock" /\ c \in need[o] /\ catLock[c] = NoOrder
      /\ catLock' = [catLock EXCEPT ![c] = o]
      /\ need' = [need EXCEPT ![o] = need[o] \ {c}]
      /\ granted' = [granted EXCEPT ![o] =
           IF HasRoom(o, c, seen[o][c]) THEN granted[o] \cup {c} ELSE granted[o]]
      /\ UNCHANGED <<status, lines, tickets, phase, seen, total, draft, edits>>
  BY DEF LockRow, tableVars, ownerVars
<1>2. ReservationTypeOK'
  BY <1>1
<1>3. ASSUME NEW p \in Orders PROVE SelectInv(p)'
  <2>1. Wanted(p)' = Wanted(p) /\ \A d : Asked(p, d)' = Asked(p, d)
    BY <1>1 DEF Wanted, Asked, LastLine
  <2>2. \A d \in Categories : catLock[d] = p => catLock'[d] = p
    BY <1>1, ReservationAssumption
  <2>3. CASE p = o
    <3>1. c \in Wanted(o) /\ seen[o][c] \in Nat
      BY <1>1 DEF SelectInv
    <3>2. HasRoom(o, c, seen[o][c]) => seen[o][c] + Asked(o, c) <= total[c]
      BY <3>1, RoomFits
    <3>3. catLock'[c] = o
      BY <1>1
    <3>. QED  BY <1>1, <2>1, <2>2, <2>3, <3>1, <3>2, <3>3 DEF SelectInv
  <2>4. CASE p # o
    BY <1>1, <2>1, <2>2, <2>4 DEF SelectInv
  <2>. QED  BY <2>3, <2>4
<1>. QED  BY <1>1, <1>2, <1>3

LEMMA CommitInv ==
  ASSUME ReservationInv, NEW o \in Orders, Commit(o)
  PROVE  ReservationInv'
<1> USE DEF ReservationInv, ReservationTypeOK
<1>1. /\ status' = [status EXCEPT ![o] = "pending"]
      /\ tickets' = tickets \cup Rows(o)
      /\ EndBooking(o, "committed") /\ phase[o] = "lock"
      /\ UNCHANGED <<lines, total, draft, edits>>
  BY DEF Commit, SelectDone, ownerVars
<1>2. Rows(o) \subseteq Ticket /\ IsFiniteSet(Rows(o))
  BY RowsProperties
<1>3. IsFiniteSet(tickets')
  BY <1>1, <1>2, FS_Union
<1>. QED  BY <1>1, <1>2, <1>3, EndBookingInv DEF Statuses, Phases

LEMMA EndInv ==
  ASSUME ReservationInv, NEW o \in Orders,
         Refuse(o) \/ Abort(o) \/ Answer(o) \/ FailAfterCommit(o)
  PROVE  ReservationInv'
<1>1. PICK outcome \in {"refused", "failed", "answered"} :
        /\ phase[o] # "idle" /\ EndBooking(o, outcome)
        /\ UNCHANGED <<status, lines, tickets, total, draft, edits>>
  BY DEF Refuse, Abort, Answer, FailAfterCommit, SelectDone, tableVars, ownerVars
<1>. QED  BY <1>1, EndBookingInv DEF ReservationInv, ReservationTypeOK, Phases

LEMMA OwnerStepInv ==
  ASSUME ReservationInv, OwnerStep
  PROVE  ReservationInv'
<1> USE DEF ReservationInv, ReservationTypeOK
<1>1. UNCHANGED <<status, lines, tickets, phase, seen, need, granted, catLock>>
  BY DEF OwnerStep, ValidateEdit, ApplyEdit, Publish, tableVars, bookingVars
<1>2. ASSUME NEW c \in Categories, ApplyEdit(c) PROVE ReservationInv'
  <2>1. PICK n \in Resizes : total' = [total EXCEPT ![c] = n]
    BY <1>2 DEF ApplyEdit
  <2>2. n \in Nat \ {0}
    BY ReservationAssumption
  <2>3. ReservationTypeOK'
    BY <1>1, <1>2, <2>1, <2>2 DEF ApplyEdit
  <2>4. ASSUME NEW p \in Orders PROVE SelectInv(p)'
    <3>1. Wanted(p)' = Wanted(p) /\ \A d : Asked(p, d)' = Asked(p, d)
      BY <1>1 DEF Wanted, Asked, LastLine
    <3>2. \A d \in Categories : catLock[d] = p => total'[d] = total[d]
      BY <1>2, <2>1, ReservationAssumption DEF ApplyEdit
    <3>. QED  BY <1>1, <3>1, <3>2 DEF SelectInv
  <2>. QED  BY <1>1, <2>3, <2>4
<1>3. ASSUME UNCHANGED total, draft' \in BOOLEAN, edits' \subseteq Categories
      PROVE  ReservationInv'
  <2>1. \A p \in Orders : Wanted(p)' = Wanted(p) /\ \A d : Asked(p, d)' = Asked(p, d)
    BY <1>1 DEF Wanted, Asked, LastLine
  <2>. QED  BY <1>1, <1>3, <2>1 DEF SelectInv
<1>. QED  BY <1>2, <1>3 DEF OwnerStep, ValidateEdit, Publish

LEMMA StutterInv ==
  ASSUME ReservationInv, UNCHANGED reservationVars
  PROVE  ReservationInv'
<1>1. UNCHANGED <<status, lines, tickets, phase, seen, need, granted, catLock, total, draft, edits>>
  BY DEF reservationVars, tableVars, bookingVars, ownerVars
<1>2. \A p \in Orders : Wanted(p)' = Wanted(p) /\ \A d : Asked(p, d)' = Asked(p, d)
  BY <1>1 DEF Wanted, Asked, LastLine
<1>. QED  BY <1>1, <1>2 DEF ReservationInv, ReservationTypeOK, SelectInv

LEMMA NextInv ==
  ASSUME ReservationInv, [ReservationNext]_reservationVars
  PROVE  ReservationInv'
BY SubmitInv, SelectKeepsInv, LockRowInv, CommitInv, EndInv, OwnerStepInv, StutterInv
   DEF ReservationNext, BookingStep

-----------------------------------------------------------------------------
(* Theorems *)

LEMMA Invariance == ReservationSpec => []ReservationInv
<1>1. ReservationInit => ReservationInv
  BY InitInv
<1>2. ReservationInv /\ [ReservationNext]_reservationVars => ReservationInv'
  BY NextInv
<1>. QED  BY <1>1, <1>2, PTL DEF ReservationSpec

\* The variables of create keep their types; in particular every count the
\* quota check compares is a natural number.
THEOREM ReservationTypeCorrect == ReservationSpec => []ReservationTypeOK
<1>1. ReservationInv => ReservationTypeOK
  BY DEF ReservationInv
<1>. QED  BY <1>1, Invariance, PTL

\* Every row the SELECT of create has returned is within total_quantity by
\* the count of its snapshot, whatever bookings and owner edits run.
THEOREM AdmissionIsWithinTotal == ReservationSpec => []GrantedFits
<1>1. ReservationInv => GrantedFits
  BY DEF ReservationInv, SelectInv, GrantedFits
<1>. QED  BY <1>1, Invariance, PTL

-----------------------------------------------------------------------------
(* Counting tickets *)

\* An order that names a category once has Asked rows in it.
LEMMA RowsOfCategory ==
  ASSUME NEW o \in Orders, lines[o] \in Seq(Line), NoRepeats(lines[o]),
         NEW c \in Wanted(o)
  PROVE  LET rows == {t \in Rows(o) : lines[t[1]][t[2]].category = c}
         IN  IsFiniteSet(rows) /\ Cardinality(rows) = Asked(o, c)
<1> DEFINE rows == {t \in Rows(o) : lines[t[1]][t[2]].category = c}
           n == Asked(o, c)
<1>1. PICK i \in DOMAIN lines[o] : lines[o][i].category = c
  BY DEF Wanted
<1>2. \A j \in DOMAIN lines[o] : lines[o][j].category = c => j = i
  BY <1>1 DEF NoRepeats
<1>3. LastLine(o, c) = i
  <2>1. i <= i
    BY <1>1, ItemsTyped
  <2>2. LastLine(o, c) \in {j \in DOMAIN lines[o] : lines[o][j].category = c}
    BY <1>1, <1>2, <2>1 DEF LastLine
  <2>. QED  BY <1>2, <2>2
<1>4. n = lines[o][i].quantity /\ n \in Nat \ {0}
  BY <1>1, <1>3, ItemsTyped DEF Asked
<1>5. rows = {<<o, i, k>> : k \in 1 .. n}
  BY <1>1, <1>2, <1>4 DEF Rows
<1>6. IsFiniteSet(rows) /\ Cardinality(rows) = n
  <2>1. n \in Nat
    BY <1>4
  <2> DEFINE f == [k \in 1 .. n |-> <<o, i, k>>]
  <2> HIDE DEF n, rows
  <2>2. f \in Bijection(1 .. n, rows)
    BY <1>5, <2>1 DEF Bijection, Injection, Surjection, IsInjective
  <2> HIDE DEF f
  <2>. QED  BY <2>1, <2>2, Numbered
<1>. QED  BY <1>6

\* Occupied only depends on the tickets and the items they belong to.
LEMMA OccupiedStays ==
  ASSUME tickets' = tickets, \A t \in tickets : lines'[t[1]] = lines[t[1]], NEW c
  PROVE  Occupied(c)' = Occupied(c)
<1>1. {t \in tickets : lines'[t[1]][t[2]].category = c}
        = {t \in tickets : lines[t[1]][t[2]].category = c}
  OBVIOUS
<1>. QED  BY <1>1 DEF Occupied

\* A commit adds what was asked for, and nothing to the other categories.
LEMMA OccupiedAfterCommit ==
  ASSUME NEW o \in Orders, lines[o] \in Seq(Line), NoRepeats(lines[o]),
         IsFiniteSet(tickets), \A t \in tickets : t[1] # o,
         tickets' = tickets \cup Rows(o), lines' = lines, NEW c \in Categories
  PROVE  Occupied(c)' = IF c \in Wanted(o) THEN Occupied(c) + Asked(o, c)
                                           ELSE Occupied(c)
<1> DEFINE old == {t \in tickets : lines[t[1]][t[2]].category = c}
           new == {t \in Rows(o) : lines[t[1]][t[2]].category = c}
<1>1. Occupied(c)' = Cardinality(old \cup new)
  <2>1. {t \in tickets' : lines'[t[1]][t[2]].category = c} = old \cup new
    OBVIOUS
  <2>. QED  BY <2>1 DEF Occupied
<1>2. old \in SUBSET tickets /\ IsFiniteSet(old) /\ Occupied(c) = Cardinality(old)
  BY FS_Subset DEF Occupied
<1>3. \A t \in Rows(o) : t[1] = o
  BY RowsProperties
<1>4. CASE c \in Wanted(o)
  <2>1. IsFiniteSet(new) /\ Cardinality(new) = Asked(o, c)
    BY <1>4, RowsOfCategory
  <2>2. old \cap new = {}
    BY <1>3
  <2>3. Cardinality(old \cap new) = 0
    BY <2>2, FS_EmptySet
  <2>4. Cardinality(old \cup new) = Cardinality(old) + Cardinality(new) - Cardinality(old \cap new)
    BY <1>2, <2>1, FS_Union
  <2>5. Cardinality(old) \in Nat /\ Asked(o, c) \in Nat
    BY <1>2, <1>4, FS_CardinalityType, AskedPositive
  <2> HIDE DEF old, new
  <2>6. Cardinality(old \cup new) = Occupied(c) + Asked(o, c)
    BY <1>2, <2>1, <2>3, <2>4, <2>5
  <2>. QED  BY <1>1, <1>4, <2>6
<1>5. CASE c \notin Wanted(o)
  <2>1. new = {}
    BY <1>5 DEF Rows, Wanted
  <2>. QED  BY <1>1, <1>2, <1>5, <2>1
<1>. QED  BY <1>4, <1>5

\* Tickets belong to orders whose transaction was committed.
CommittedTickets == \A t \in tickets : phase[t[1]] \in {"committed", "answered", "failed"}

TablesInv == ReservationInv /\ CommittedTickets

LEMMA CommittedTicketsStep ==
  ASSUME TablesInv, [ReservationNext]_reservationVars
  PROVE  CommittedTickets'
<1> USE DEF TablesInv, CommittedTickets
<1>1. /\ phase \in [Orders -> Phases]
      /\ \A t \in tickets : t[1] \in Orders
  BY DEF ReservationInv, ReservationTypeOK, Ticket
<1>2. ASSUME NEW o \in Orders, Submit(o) \/ Select(o) PROVE CommittedTickets'
  BY <1>1, <1>2 DEF Submit, Select, tableVars
<1>3. ASSUME NEW o \in Orders, NEW c \in Categories, LockRow(o, c) PROVE CommittedTickets'
  BY <1>3 DEF LockRow, tableVars
<1>4. ASSUME NEW o \in Orders, Refuse(o) \/ Abort(o) \/ Answer(o) \/ FailAfterCommit(o)
      PROVE  CommittedTickets'
  BY <1>1, <1>4 DEF Refuse, Abort, Answer, FailAfterCommit, SelectDone, EndBooking, tableVars
<1>5. ASSUME NEW o \in Orders, Commit(o) PROVE CommittedTickets'
  <2>1. \A t \in Rows(o) : t[1] = o
    BY RowsProperties DEF ReservationInv, ReservationTypeOK
  <2>2. tickets' = tickets \cup Rows(o) /\ phase' = [phase EXCEPT ![o] = "committed"]
    BY <1>5 DEF Commit, EndBooking
  <2>. QED  BY <1>1, <2>1, <2>2
<1>6. CASE OwnerStep \/ UNCHANGED reservationVars
  BY <1>6 DEF OwnerStep, ValidateEdit, ApplyEdit, Publish, reservationVars, tableVars, bookingVars
<1>. QED  BY <1>2, <1>3, <1>4, <1>5, <1>6 DEF ReservationNext, BookingStep

\* Without cancellations a count only grows, and only by a commit of an order
\* that asks for the category.
LEMMA CountStep ==
  ASSUME TablesInv, [ReservationNext]_reservationVars, NEW c \in Categories
  PROVE  /\ Occupied(c) \in Nat /\ Occupied(c)' \in Nat
         /\ Occupied(c) <= Occupied(c)'
         /\ Occupied(c)' = Occupied(c) \/ \E o \in Orders : Commit(o) /\ c \in Wanted(o)
<1> USE DEF TablesInv
<1>1. /\ phase \in [Orders -> Phases] /\ lines \in [Orders -> Seq(Line)]
      /\ \A t \in tickets : t[1] \in Orders
  BY DEF ReservationInv, ReservationTypeOK, Ticket
<1>2. Occupied(c) \in Nat /\ Occupied(c)' \in Nat
  <2>1. IsFiniteSet(tickets) /\ IsFiniteSet(tickets')
    BY NextInv DEF ReservationInv
  <2> DEFINE of == {t \in tickets' : lines'[t[1]][t[2]].category = c}
  <2>2. of \in SUBSET tickets'
    OBVIOUS
  <2>3. IsFiniteSet(of)
    BY <2>1, <2>2, FS_Subset
  <2>. QED  BY <2>1, <2>3, OccupiedNat, FS_CardinalityType DEF Occupied
<1>3. ASSUME tickets' = tickets, \A t \in tickets : lines'[t[1]] = lines[t[1]]
      PROVE  Occupied(c)' = Occupied(c)
  BY <1>3, OccupiedStays
<1>4. ASSUME NEW o \in Orders, Submit(o) PROVE Occupied(c)' = Occupied(c)
  <2>1. \A t \in tickets : t[1] # o
    BY <1>4 DEF Submit, CommittedTickets
  <2>. QED  BY <1>1, <1>3, <1>4, <2>1 DEF Submit
<1>5. ASSUME NEW o \in Orders,
             \/ Select(o) \/ \E d \in Categories : LockRow(o, d)
             \/ Refuse(o) \/ Abort(o) \/ Answer(o) \/ FailAfterCommit(o)
      PROVE  Occupied(c)' = Occupied(c)
  BY <1>3, <1>5 DEF Select, LockRow, Refuse, Abort, Answer, FailAfterCommit, tableVars
<1>6. ASSUME OwnerStep \/ UNCHANGED reservationVars PROVE Occupied(c)' = Occupied(c)
  BY <1>3, <1>6 DEF OwnerStep, ValidateEdit, ApplyEdit, Publish, reservationVars, tableVars
<1>7. ASSUME NEW o \in Orders, Commit(o)
      PROVE  /\ Occupied(c) <= Occupied(c)'
             /\ c \notin Wanted(o) => Occupied(c)' = Occupied(c)
  <2> DEFINE old == {t \in tickets : lines[t[1]][t[2]].category = c}
             now == {t \in tickets' : lines'[t[1]][t[2]].category = c}
  <2>1. tickets' = tickets \cup Rows(o) /\ lines' = lines
    BY <1>7 DEF Commit
  <2>2. now \in SUBSET tickets' /\ IsFiniteSet(tickets')
    BY NextInv DEF ReservationInv
  <2>3. IsFiniteSet(now) /\ old \in SUBSET now
    BY <2>1, <2>2, FS_Subset
  <2>4. Cardinality(old) <= Cardinality(now)
    BY <2>3, FS_Subset
  <2>5. ASSUME c \notin Wanted(o) PROVE now = old
    BY <1>1, <2>1, <2>5 DEF Rows, Wanted
  <2>. QED  BY <2>4, <2>5 DEF Occupied
<1>8. Occupied(c)' = Occupied(c) \/ \E o \in Orders : Commit(o)
  BY <1>4, <1>5, <1>6 DEF ReservationNext, BookingStep
<1>. QED  BY <1>2, <1>7, <1>8

\* A request that is locking rows has just taken its snapshot, or keeps it.
LEMMA LockingStep ==
  ASSUME TablesInv, [ReservationNext]_reservationVars, NEW p \in Orders, phase'[p] = "lock"
  PROVE  /\ lines'[p] = lines[p]
         /\ \/ /\ Select(p)
               /\ seen'[p] = [c \in Categories |-> Occupied(c)]
               /\ need'[p] = {c \in Wanted(p) : HasRoom(p, c, Occupied(c))}
               /\ \A c \in Categories : total'[c] = total[c]
            \/ /\ phase[p] = "lock" /\ seen'[p] = seen[p]
               /\ \A c \in Categories :
                    /\ c \in (need[p] \cup granted[p]) \ (need'[p] \cup granted'[p]) =>
                         ~HasRoom(p, c, seen[p][c]) /\ total'[c] = total[c]
<1>1. /\ phase \in [Orders -> Phases] /\ lines \in [Orders -> Seq(Line)]
      /\ seen \in [Orders -> [Categories -> Nat]]
      /\ need \in [Orders -> SUBSET Categories] /\ granted \in [Orders -> SUBSET Categories]
  BY DEF TablesInv, ReservationInv, ReservationTypeOK
<1>2. ASSUME NEW o \in Orders, Select(o), o = p PROVE Select(p) /\ need'[p] = {c \in Wanted(p) : HasRoom(p, c, Occupied(c))}
  BY <1>1, <1>2 DEF Select
<1>3. ASSUME NEW o \in Orders, NEW d \in Categories, LockRow(o, d)
      PROVE  /\ phase[p] = "lock" /\ lines'[p] = lines[p] /\ seen'[p] = seen[p]
             /\ \A c \in Categories :
                    /\ c \in (need[p] \cup granted[p]) \ (need'[p] \cup granted'[p]) =>
                         ~HasRoom(p, c, seen[p][c]) /\ total'[c] = total[c]
  BY <1>1, <1>3 DEF LockRow, tableVars, ownerVars
<1>4. ASSUME NEW o \in Orders, Submit(o) PROVE p # o
  BY <1>1, <1>4 DEF Submit
<1>5. ASSUME NEW o \in Orders, Refuse(o) \/ Commit(o) \/ Abort(o) \/ Answer(o) \/ FailAfterCommit(o)
      PROVE  p # o
  BY <1>1, <1>5 DEF Refuse, Commit, Abort, Answer, FailAfterCommit, EndBooking
<1>6. ASSUME phase'[p] = phase[p], lines'[p] = lines[p], seen'[p] = seen[p],
             need'[p] = need[p], granted'[p] = granted[p]
      PROVE  lines'[p] = lines[p] /\ phase[p] = "lock" /\ seen'[p] = seen[p]
             /\ need'[p] \cup granted'[p] = need[p] \cup granted[p]
  BY <1>6
<1>7. ASSUME NEW o \in Orders, BookingStep(o) \/ Answer(o) \/ FailAfterCommit(o), o # p,
             ~\E d \in Categories : LockRow(o, d)
      PROVE  /\ phase'[p] = phase[p] /\ lines'[p] = lines[p] /\ seen'[p] = seen[p]
             /\ need'[p] = need[p] /\ granted'[p] = granted[p]
  BY <1>1, <1>7 DEF BookingStep, Submit, Select, Refuse, Commit, Abort, Answer, FailAfterCommit,
                    EndBooking, tableVars
<1>8. ASSUME OwnerStep \/ UNCHANGED reservationVars
      PROVE  /\ phase'[p] = phase[p] /\ lines'[p] = lines[p] /\ seen'[p] = seen[p]
             /\ need'[p] = need[p] /\ granted'[p] = granted[p]
  BY <1>8 DEF OwnerStep, ValidateEdit, ApplyEdit, Publish, reservationVars, tableVars, bookingVars
<1>9. ASSUME Select(p)
      PROVE  /\ lines'[p] = lines[p] /\ seen'[p] = [c \in Categories |-> Occupied(c)]
             /\ total' = total
  BY <1>1, <1>9 DEF Select, tableVars, ownerVars
<1>. QED
  BY <1>2, <1>3, <1>4, <1>5, <1>6, <1>7, <1>8, <1>9 DEF ReservationNext, BookingStep

-----------------------------------------------------------------------------
(* Refusals *)

\* The owner makes no category larger.
OnlyShrinks == [][\A c \in Categories : total'[c] <= total[c]]_reservationVars

\* A row that was asked for and is neither returned nor still to be locked is
\* short of seats, because what the snapshot counted is still there.
RefusalInv ==
  /\ TablesInv
  /\ \A o \in Orders : phase[o] = "lock" =>
       \A c \in Wanted(o) :
         /\ seen[o][c] <= Occupied(c)
         /\ c \in need[o] \cup granted[o] \/ Occupied(c) + Asked(o, c) > total[c]

\* A row the WHERE clause rejects is short of seats.
LEMMA NoRoomMeansShort ==
  ASSUME ReservationTypeOK, NEW o \in Orders, NEW c \in Wanted(o), NEW n \in Nat,
         ~HasRoom(o, c, n)
  PROVE  n + Asked(o, c) > total[c]
<1>1. lines[o] \in Seq(Line)
  BY DEF ReservationTypeOK
<1>2. c \in Categories
  BY <1>1, ItemsTyped DEF Wanted
<1>3. total[c] \in Nat \ {0}
  BY <1>2 DEF ReservationTypeOK
<1>4. Asked(o, c) \in Nat \ {0}
  BY <1>1, AskedPositive
<1>. QED  BY <1>3, <1>4 DEF HasRoom, Available

LEMMA RefusalStep ==
  ASSUME RefusalInv, [ReservationNext]_reservationVars,
         \A c \in Categories : total'[c] <= total[c]
  PROVE  RefusalInv'
<1> USE DEF RefusalInv
<1>1. TablesInv'
  BY NextInv, CommittedTicketsStep DEF TablesInv
<1>2. ASSUME NEW p \in Orders, phase'[p] = "lock", NEW c \in Wanted(p)'
      PROVE  /\ seen'[p][c] <= Occupied(c)'
             /\ c \in need'[p] \cup granted'[p] \/ Occupied(c)' + Asked(p, c)' > total'[c]
  <2>1. lines'[p] = lines[p]
    BY <1>2, LockingStep
  <2>2. c \in Wanted(p) /\ Asked(p, c)' = Asked(p, c)
    BY <1>2, <2>1 DEF Wanted, Asked, LastLine
  <2>3. lines[p] \in Seq(Line) /\ ReservationTypeOK
    BY DEF TablesInv, ReservationInv, ReservationTypeOK
  <2>4. c \in Categories
    BY <2>2, <2>3, ItemsTyped DEF Wanted
  <2>5. /\ Occupied(c) \in Nat /\ Occupied(c)' \in Nat /\ Occupied(c) <= Occupied(c)'
        /\ Asked(p, c) \in Nat /\ total[c] \in Nat /\ total'[c] \in Nat /\ total'[c] <= total[c]
        /\ seen[p][c] \in Nat
    <3>1. total' \in [Categories -> Nat \ {0}]
      BY <1>1 DEF TablesInv, ReservationInv, ReservationTypeOK
    <3>. QED  BY <2>2, <2>3, <2>4, <3>1, CountStep, AskedPositive DEF ReservationTypeOK
  <2>6. CASE Select(p) /\ seen'[p] = [d \in Categories |-> Occupied(d)]
             /\ need'[p] = {d \in Wanted(p) : HasRoom(p, d, Occupied(d))}
    <3>1. seen'[p][c] = Occupied(c)
      BY <2>4, <2>6
    <3>2. c \notin need'[p] => Occupied(c) + Asked(p, c) > total[c]
      BY <2>2, <2>3, <2>5, <2>6, NoRoomMeansShort
    <3>. QED  BY <2>2, <2>5, <3>1, <3>2
  <2>7. CASE /\ phase[p] = "lock" /\ seen'[p] = seen[p]
             /\ c \in (need[p] \cup granted[p]) \ (need'[p] \cup granted'[p]) =>
                  ~HasRoom(p, c, seen[p][c])
    <3>1. seen[p][c] <= Occupied(c)
      BY <2>2, <2>7
    <3>2. c \in need[p] \cup granted[p] \/ Occupied(c) + Asked(p, c) > total[c]
      BY <2>2, <2>7
    <3>3. CASE c \in (need[p] \cup granted[p]) \ (need'[p] \cup granted'[p])
      <4>1. seen[p][c] + Asked(p, c) > total[c]
        BY <2>2, <2>3, <2>5, <2>7, <3>3, NoRoomMeansShort
      <4>. QED  BY <2>2, <2>5, <2>7, <3>1, <4>1
    <3>. QED  BY <2>2, <2>5, <2>7, <3>1, <3>2, <3>3
  <2>. QED  BY <1>2, <2>4, <2>6, <2>7, LockingStep
<1>. QED  BY <1>1, <1>2

\* As long as no category gets larger, create refuses a request only when a
\* category it asks for is short of seats at the moment of the refusal: neither
\* the old snapshot nor the owner's edits can turn somebody away for nothing.
THEOREM RefusalsAreJustified == ReservationSpec /\ OnlyShrinks => RefusedOnlyWhenShort
<1> DEFINE Shrinks == \A c \in Categories : total'[c] <= total[c]
           Justified == \A o \in Orders :
             phase[o] = "lock" /\ phase'[o] = "refused" =>
               \E c \in Wanted(o) : Occupied(c) + Asked(o, c) > total[c]
<1>1. ReservationInit => RefusalInv
  <2> SUFFICES ASSUME ReservationInit PROVE RefusalInv
    OBVIOUS
  <2>1. tickets = {} /\ \A o \in Orders : phase[o] = "idle"
    BY DEF ReservationInit
  <2>. QED  BY <2>1, InitInv DEF RefusalInv, TablesInv, CommittedTickets
<1>2. RefusalInv /\ [ReservationNext /\ Shrinks]_reservationVars => RefusalInv'
  <2> SUFFICES ASSUME RefusalInv, [ReservationNext /\ Shrinks]_reservationVars
               PROVE  RefusalInv'
    OBVIOUS
  <2>1. \A c \in Categories : total[c] \in Nat
    BY DEF RefusalInv, TablesInv, ReservationInv, ReservationTypeOK
  <2>2. Shrinks
    BY <2>1 DEF reservationVars, ownerVars
  <2>. QED  BY <2>2, RefusalStep
<1>3. RefusalInv /\ [ReservationNext]_reservationVars => [Justified]_reservationVars
  <2> SUFFICES ASSUME RefusalInv, [ReservationNext]_reservationVars,
                      NEW o \in Orders, phase[o] = "lock", phase'[o] = "refused"
               PROVE  \E c \in Wanted(o) : Occupied(c) + Asked(o, c) > total[c]
    OBVIOUS
  <2>1. phase \in [Orders -> Phases]
    BY DEF RefusalInv, TablesInv, ReservationInv, ReservationTypeOK
  <2>2. Refuse(o)
    <3>1. ASSUME NEW p \in Orders, BookingStep(p) \/ Answer(p) \/ FailAfterCommit(p), ~Refuse(p)
          PROVE  phase'[o] = phase[o] \/ phase'[o] # "refused"
      BY <2>1, <3>1 DEF BookingStep, Submit, Select, LockRow, Commit, Abort, Answer, FailAfterCommit, EndBooking
    <3>2. ASSUME NEW p \in Orders, Refuse(p) PROVE p = o
      BY <2>1, <3>2 DEF Refuse, EndBooking
    <3>3. CASE OwnerStep \/ UNCHANGED reservationVars
      BY <3>3 DEF OwnerStep, ValidateEdit, ApplyEdit, Publish, reservationVars, bookingVars
    <3>. QED  BY <3>1, <3>2, <3>3 DEF ReservationNext
  <2>3. granted[o] \subseteq Wanted(o) /\ granted[o] # Wanted(o) /\ need[o] = {}
    BY <2>2 DEF Refuse, SelectDone, RefusalInv, TablesInv, ReservationInv, SelectInv
  <2>4. PICK c \in Wanted(o) : c \notin need[o] \cup granted[o]
    BY <2>3
  <2>. QED  BY <2>4 DEF RefusalInv
<1>4. ReservationSpec /\ OnlyShrinks => RefusalInv /\ [][ReservationNext /\ Shrinks]_reservationVars /\ [][ReservationNext]_reservationVars
  BY <1>1, PTL DEF ReservationSpec, OnlyShrinks
<1>. QED  BY <1>2, <1>3, <1>4, PTL DEF RefusedOnlyWhenShort

-----------------------------------------------------------------------------
(* Sales *)

\* Whoever oversells a category was judged by a stale count or named a category
\* twice, for any number of bookings, categories and edits: the row was within
\* the total_quantity it has at the commit by the count of the snapshot, and a
\* commit adds what was asked for.
THEOREM OnlyStaleCountsOversell == ReservationSpec => OversellNeedsStaleCount
<1> DEFINE Explained == \A o \in Orders : phase[o] = "lock" /\ phase'[o] = "committed" =>
             \A c \in Wanted(o) :
               \/ Occupied(c)' <= total[c]
               \/ Occupied(c) > seen[o][c]
               \/ ~NoRepeats(lines[o])
<1>1. ReservationInit => TablesInv
  <2>1. ReservationInit => tickets = {}
    BY DEF ReservationInit
  <2>. QED  BY <2>1, InitInv DEF TablesInv, CommittedTickets
<1>2. TablesInv /\ [ReservationNext]_reservationVars => TablesInv'
  BY NextInv, CommittedTicketsStep DEF TablesInv
<1>3. TablesInv /\ [ReservationNext]_reservationVars => [Explained]_reservationVars
  <2> SUFFICES ASSUME TablesInv, [ReservationNext]_reservationVars,
                      NEW o \in Orders, phase[o] = "lock", phase'[o] = "committed",
                      NEW c \in Wanted(o),
                      ~(Occupied(c) > seen[o][c]), NoRepeats(lines[o])
               PROVE  Occupied(c)' <= total[c]
    OBVIOUS
  <2>1. /\ phase \in [Orders -> Phases] /\ lines[o] \in Seq(Line) /\ IsFiniteSet(tickets)
        /\ total \in [Categories -> Nat \ {0}] /\ seen \in [Orders -> [Categories -> Nat]]
    BY DEF TablesInv, ReservationInv, ReservationTypeOK
  <2>2. c \in Categories
    BY <2>1, ItemsTyped DEF Wanted
  <2>3. Commit(o)
    <3>1. ASSUME NEW p \in Orders, BookingStep(p) \/ Answer(p) \/ FailAfterCommit(p), ~Commit(p)
          PROVE  phase'[o] = phase[o] \/ phase'[o] # "committed"
      BY <2>1, <3>1 DEF BookingStep, Submit, Select, LockRow, Refuse, Abort, Answer, FailAfterCommit, EndBooking
    <3>2. ASSUME NEW p \in Orders, Commit(p) PROVE p = o
      BY <2>1, <3>2 DEF Commit, EndBooking
    <3>3. CASE OwnerStep \/ UNCHANGED reservationVars
      BY <3>3 DEF OwnerStep, ValidateEdit, ApplyEdit, Publish, reservationVars, bookingVars
    <3>. QED  BY <3>1, <3>2, <3>3 DEF ReservationNext
  <2>4. Occupied(c)' = Occupied(c) + Asked(o, c)
    <3>1. \A t \in tickets : t[1] # o
      BY DEF TablesInv, CommittedTickets
    <3>2. tickets' = tickets \cup Rows(o) /\ lines' = lines
      BY <2>3 DEF Commit
    <3>. QED  BY <2>1, <2>2, <3>1, <3>2, OccupiedAfterCommit
  <2>5. seen[o][c] + Asked(o, c) <= total[c]
    BY <2>3 DEF Commit, SelectDone, TablesInv, ReservationInv, SelectInv
  <2>6. Occupied(c) \in Nat /\ Asked(o, c) \in Nat /\ seen[o][c] \in Nat /\ total[c] \in Nat
    BY <2>1, <2>2, OccupiedNat, AskedPositive
  <2>. QED  BY <2>4, <2>5, <2>6
<1>. QED  BY <1>1, <1>2, <1>3, PTL DEF ReservationSpec, OversellNeedsStaleCount

NoRequestRepeats == \A items \in Requests : NoRepeats(items)

\* Transactions that overlap ask for different categories.
Open(o) == phase[o] \in {"select", "lock"}
NoRaces == \A p, q \in Orders : Open(p) /\ Open(q) /\ p # q => Wanted(p) \cap Wanted(q) = {}

\* The owner makes no category smaller.
OnlyEnlarges == [][\A c \in Categories : total'[c] >= total[c]]_reservationVars

\* The snapshot of a request counted every ticket of what it asks for.
SalesInv ==
  /\ TablesInv
  /\ \A o \in Orders : phase[o] # "idle" => NoRepeats(lines[o])
  /\ NoOversell
  /\ \A o \in Orders : phase[o] = "lock" =>
       \A c \in Wanted(o) : Occupied(c) <= seen[o][c]

LEMMA SalesInit == ASSUME ReservationInit PROVE SalesInv
<1>1. ReservationInv
  BY InitInv
<1>2. tickets = {} /\ \A o \in Orders : phase[o] = "idle"
  BY DEF ReservationInit
<1>3. NoOversell
  <2>1. \A c \in Categories : Occupied(c) = 0
    BY <1>2, FS_EmptySet DEF Occupied
  <2>. QED  BY <2>1, <1>1 DEF NoOversell, ReservationInv, ReservationTypeOK
<1>. QED  BY <1>1, <1>2, <1>3 DEF SalesInv, TablesInv, CommittedTickets

\* The items of a submitted request are never replaced.
LEMMA LinesStep ==
  ASSUME NoRequestRepeats, SalesInv, [ReservationNext]_reservationVars
  PROVE  \A p \in Orders : phase'[p] # "idle" => NoRepeats(lines'[p])
<1>1. phase \in [Orders -> Phases] /\ lines \in [Orders -> Seq(Line)]
  BY DEF SalesInv, TablesInv, ReservationInv, ReservationTypeOK
<1>2. SUFFICES ASSUME NEW p \in Orders, phase'[p] # "idle" PROVE NoRepeats(lines'[p])
  OBVIOUS
<1>3. ASSUME Submit(p) PROVE NoRepeats(lines'[p])
  BY <1>1, <1>3 DEF Submit, NoRequestRepeats
<1>4. ASSUME ~Submit(p) PROVE lines'[p] = lines[p] /\ phase[p] # "idle"
  <2>1. ASSUME NEW o \in Orders, BookingStep(o) \/ Answer(o) \/ FailAfterCommit(o)
        PROVE  lines'[p] = lines[p] /\ phase[p] # "idle"
    BY <1>1, <1>2, <1>4, <2>1
       DEF BookingStep, Submit, Select, LockRow, Refuse, Commit, Abort, Answer, FailAfterCommit,
           SelectDone, EndBooking, tableVars
  <2>2. CASE OwnerStep \/ UNCHANGED reservationVars
    BY <1>2, <2>2 DEF OwnerStep, ValidateEdit, ApplyEdit, Publish, reservationVars, tableVars, bookingVars
  <2>. QED  BY <2>1, <2>2 DEF ReservationNext
<1>. QED  BY <1>3, <1>4 DEF SalesInv

\* What a commit adds fits the snapshot it was granted on, and nobody else
\* added to the category since.
LEMMA SalesStep ==
  ASSUME NoRequestRepeats, SalesInv, NoRaces, [ReservationNext]_reservationVars,
         \A c \in Categories : total'[c] >= total[c]
  PROVE  SalesInv'
<1> USE DEF SalesInv
<1>1. TablesInv'
  BY NextInv, CommittedTicketsStep DEF TablesInv
<1>2. /\ phase \in [Orders -> Phases] /\ lines \in [Orders -> Seq(Line)] /\ IsFiniteSet(tickets)
      /\ total \in [Categories -> Nat \ {0}] /\ total' \in [Categories -> Nat \ {0}]
      /\ seen \in [Orders -> [Categories -> Nat]] /\ ReservationTypeOK
  BY <1>1 DEF TablesInv, ReservationInv, ReservationTypeOK
<1>3. ASSUME NEW o \in Orders, Commit(o)
      PROVE  /\ phase[o] = "lock" /\ granted[o] = Wanted(o)
             /\ phase' = [phase EXCEPT ![o] = "committed"]
             /\ tickets' = tickets \cup Rows(o) /\ lines' = lines /\ total' = total
  BY <1>3 DEF Commit, SelectDone, EndBooking, ownerVars
<1>4. ASSUME NEW c \in Categories PROVE Occupied(c)' <= total'[c]
  <2>1. Occupied(c) <= total[c] /\ total'[c] >= total[c]
    BY <1>4 DEF NoOversell
  <2>2. Occupied(c) \in Nat /\ Occupied(c)' \in Nat /\ total[c] \in Nat /\ total'[c] \in Nat
    BY <1>2, CountStep
  <2>3. ASSUME NEW o \in Orders, Commit(o), c \in Wanted(o) PROVE Occupied(c)' <= total[c]
    <3>1. \A t \in tickets : t[1] # o
      BY <1>3, <2>3 DEF TablesInv, CommittedTickets
    <3>2. Occupied(c)' = Occupied(c) + Asked(o, c)
      BY <1>2, <1>3, <2>3, <3>1, OccupiedAfterCommit
    <3>3. seen[o][c] + Asked(o, c) <= total[c]
      BY <1>3, <2>3 DEF TablesInv, ReservationInv, SelectInv
    <3>4. Occupied(c) <= seen[o][c] /\ seen[o][c] \in Nat /\ Asked(o, c) \in Nat
      BY <1>2, <1>3, <2>3, AskedPositive
    <3>. QED  BY <2>2, <3>2, <3>3, <3>4
  <2>. QED  BY <2>1, <2>2, <2>3, CountStep
<1>5. ASSUME NEW p \in Orders, phase'[p] = "lock", NEW c \in Wanted(p)'
      PROVE  Occupied(c)' <= seen'[p][c]
  <2>1. c \in Wanted(p)
    BY <1>5, LockingStep DEF Wanted
  <2>2. c \in Categories
    BY <1>2, <2>1, ItemsTyped DEF Wanted
  <2>3. Occupied(c)' = Occupied(c)
    <3>1. ASSUME NEW o \in Orders, Commit(o), c \in Wanted(o) PROVE FALSE
      <4>1. phase[p] = "lock" /\ phase[o] = "lock" /\ p # o
        BY <1>2, <1>3, <1>5, <3>1
      <4>. QED  BY <2>1, <3>1, <4>1 DEF NoRaces, Open
    <3>. QED  BY <2>2, <3>1, CountStep
  <2>4. Occupied(c) \in Nat
    BY <2>2, CountStep
  <2>5. CASE seen'[p] = [d \in Categories |-> Occupied(d)]
    BY <2>2, <2>3, <2>4, <2>5
  <2>6. CASE phase[p] = "lock" /\ seen'[p] = seen[p]
    BY <2>1, <2>3, <2>6
  <2>. QED  BY <1>5, <2>5, <2>6, LockingStep
<1>. QED  BY <1>1, <1>4, <1>5, LinesStep DEF NoOversell

\* Only a race oversells: if no order names a category twice, the owner only
\* enlarges categories, and transactions of create that overlap do not share a
\* category, no category is sold beyond its total_quantity.
THEOREM OnlyRacesOversell ==
  ASSUME NoRequestRepeats
  PROVE  ReservationSpec /\ []NoRaces /\ OnlyEnlarges => []NoOversell
<1> DEFINE Enlarges == \A c \in Categories : total'[c] >= total[c]
<1>1. ReservationInit => SalesInv
  BY SalesInit
<1>2. SalesInv /\ NoRaces /\ [ReservationNext /\ Enlarges]_reservationVars => SalesInv'
  <2> SUFFICES ASSUME SalesInv, NoRaces, [ReservationNext /\ Enlarges]_reservationVars
               PROVE  SalesInv'
    OBVIOUS
  <2>1. \A c \in Categories : total[c] \in Nat
    BY DEF SalesInv, TablesInv, ReservationInv, ReservationTypeOK
  <2>2. Enlarges
    BY <2>1 DEF reservationVars, ownerVars
  <2>. QED  BY <2>2, SalesStep
<1>3. SalesInv => NoOversell
  BY DEF SalesInv
<1>4. ReservationSpec /\ OnlyEnlarges => ReservationInit /\ [][ReservationNext /\ Enlarges]_reservationVars
  BY PTL DEF ReservationSpec, OnlyEnlarges
<1>. QED  BY <1>1, <1>2, <1>3, <1>4, PTL

\* One booking at a time, no edits, no repeated category.  Each is needed: the
\* run OversellRace drops the first, an owner may set total_quantity below what
\* is sold, and of an order that repeats a category only the last line is
\* checked while every line is inserted.
Serial == MaxInFlight = 1 /\ Resizes = {} /\ NoRequestRepeats

\* Bookings that do not overlap never sell more tickets of a category than
\* its total_quantity, whatever is refused, rolled back or abandoned after
\* its commit.
THEOREM SerialBookingNeverOversells ==
  ASSUME Serial
  PROVE  ReservationSpec => []NoOversell
<1> DEFINE OneInFlight == IsFiniteSet(InFlight) /\ \A p, q \in InFlight : p = q
           Enlarges == \A c \in Categories : total'[c] >= total[c]
<1>1. ReservationInit => OneInFlight
  <2>1. ReservationInit => InFlight = {}
    BY DEF ReservationInit, InFlight
  <2>. QED  BY <2>1, FS_EmptySet
<1>2. ReservationInv /\ OneInFlight /\ [ReservationNext]_reservationVars => OneInFlight'
  <2> SUFFICES ASSUME ReservationInv, OneInFlight, [ReservationNext]_reservationVars
               PROVE  OneInFlight'
    OBVIOUS
  <2>1. phase \in [Orders -> Phases]
    BY DEF ReservationInv, ReservationTypeOK
  <2>2. ASSUME InFlight' \in SUBSET InFlight PROVE OneInFlight'
    BY <2>2, FS_Subset
  <2>3. ASSUME NEW o \in Orders, Submit(o) PROVE OneInFlight'
    <3>1. Cardinality(InFlight) \in Nat /\ Cardinality(InFlight) < 1
      BY <2>3, FS_CardinalityType DEF Submit, Serial
    <3>2. InFlight = {}
      BY <3>1, FS_EmptySet
    <3>3. InFlight' = {o}
      BY <2>1, <2>3, <3>2 DEF Submit, InFlight
    <3>. QED  BY <3>3, FS_Singleton
  <2>4. ASSUME NEW o \in Orders, BookingStep(o) \/ Answer(o) \/ FailAfterCommit(o), ~Submit(o)
        PROVE  InFlight' \in SUBSET InFlight
    BY <2>1, <2>4
       DEF BookingStep, Select, LockRow, Refuse, Commit, Abort, Answer, FailAfterCommit,
           SelectDone, EndBooking, InFlight
  <2>5. CASE OwnerStep \/ UNCHANGED reservationVars
    <3>1. phase' = phase
      BY <2>5 DEF OwnerStep, ValidateEdit, ApplyEdit, Publish, reservationVars, bookingVars
    <3>. QED  BY <2>2, <3>1 DEF InFlight
  <2>. QED  BY <2>2, <2>3, <2>4, <2>5 DEF ReservationNext
<1>3. OneInFlight => NoRaces
  BY DEF NoRaces, Open, InFlight
<1>4. ReservationInv /\ [ReservationNext]_reservationVars => [Enlarges]_reservationVars
  <2> SUFFICES ASSUME ReservationInv, ReservationNext PROVE Enlarges \/ UNCHANGED reservationVars
    OBVIOUS
  <2>1. \A c \in Categories : total[c] \in Nat
    BY DEF ReservationInv, ReservationTypeOK
  <2>2. total' = total
    BY DEF ReservationNext, BookingStep, Submit, Select, LockRow, Refuse, Commit, Abort, Answer,
           FailAfterCommit, OwnerStep, ValidateEdit, ApplyEdit, Publish, Serial, ownerVars
  <2>. QED  BY <2>1, <2>2
<1>5. ReservationSpec => []NoRaces
  BY <1>1, <1>2, <1>3, Invariance, PTL DEF ReservationSpec
<1>6. ReservationSpec => OnlyEnlarges
  BY <1>4, Invariance, PTL DEF ReservationSpec, OnlyEnlarges
<1>. QED  BY <1>5, <1>6, OnlyRacesOversell, PTL DEF Serial

-----------------------------------------------------------------------------
(* Edits and publication *)

\* No update of a category is between its check of the event's status and its
\* UPDATE when the event leaves DRAFT.
PublishedBetweenEdits == [][draft /\ ~draft' => edits = {}]_reservationVars

\* A published event's total_quantity changes only by an edit that was checked
\* before the publication: the check is all that is wrong with the update.
THEOREM OnlyEarlierEditsApply == ReservationSpec /\ PublishedBetweenEdits => FrozenOncePublished
<1> DEFINE NoneWaits == draft \/ edits = {}
           Between == draft /\ ~draft' => edits = {}
<1>1. ReservationInit => NoneWaits
  BY DEF ReservationInit
<1>2. ASSUME NoneWaits, ReservationNext, Between
      PROVE  NoneWaits' /\ (~draft => UNCHANGED total)
  <2>1. ASSUME NEW o \in Orders, BookingStep(o) \/ Answer(o) \/ FailAfterCommit(o)
        PROVE  UNCHANGED ownerVars
    BY <2>1
       DEF BookingStep, Submit, Select, LockRow, Refuse, Commit, Abort, Answer, FailAfterCommit
  <2>2. ASSUME NEW c \in Categories, ValidateEdit(c) \/ ApplyEdit(c)
        PROVE  NoneWaits' /\ (~draft => UNCHANGED total)
    BY <1>2, <2>2 DEF ValidateEdit, ApplyEdit
  <2>3. CASE Publish
    BY <1>2, <2>3 DEF Publish
  <2>. QED  BY <1>2, <2>1, <2>2, <2>3 DEF ReservationNext, OwnerStep, ownerVars
<1>3. NoneWaits /\ [ReservationNext /\ Between]_reservationVars =>
        NoneWaits' /\ [~draft => UNCHANGED total]_reservationVars
  BY <1>2 DEF reservationVars, ownerVars
<1>4. ReservationSpec /\ PublishedBetweenEdits =>
        ReservationInit /\ [][ReservationNext /\ Between]_reservationVars
  BY PTL DEF ReservationSpec, PublishedBetweenEdits
<1>. QED  BY <1>1, <1>3, <1>4, PTL DEF FrozenOncePublished

-----------------------------------------------------------------------------
(* Waiting *)

LEMMA LockHoldersStep ==
  ASSUME ReservationInv, LockHoldersRun, [ReservationNext]_reservationVars
  PROVE  LockHoldersRun'
<1> USE DEF LockHoldersRun
<1>1. /\ phase \in [Orders -> Phases] /\ lines \in [Orders -> Seq(Line)]
      /\ need \in [Orders -> SUBSET Categories]
      /\ catLock \in [Categories -> Orders \cup {NoOrder}]
  BY DEF ReservationInv, ReservationTypeOK
<1>2. ASSUME NEW o \in Orders, NEW outcome, EndBooking(o, outcome), lines' = lines
      PROVE  LockHoldersRun'
  <2>1. /\ phase' = [phase EXCEPT ![o] = outcome] /\ need' = need
        /\ catLock' = [c \in Categories |-> IF catLock[c] = o THEN NoOrder ELSE catLock[c]]
    BY <1>2 DEF EndBooking, Released
  <2>. QED  BY <1>1, <1>2, <2>1 DEF Wanted
<1>3. ASSUME NEW o \in Orders, Submit(o) PROVE LockHoldersRun'
  <2>1. \A c \in Categories : catLock[c] # o
    BY <1>3, ReservationAssumption DEF Submit
  <2>. QED  BY <1>1, <1>3, <2>1 DEF Submit, Wanted
<1>4. ASSUME NEW o \in Orders, Select(o) PROVE LockHoldersRun'
  <2>1. \A c \in Categories : catLock[c] # o
    BY <1>4, ReservationAssumption DEF Select
  <2>. QED  BY <1>1, <1>4, <2>1 DEF Select, Wanted, tableVars
<1>5. ASSUME NEW o \in Orders, NEW c \in Categories, LockRow(o, c) PROVE LockHoldersRun'
  <2>1. c \in Wanted(o)
    BY <1>5 DEF LockRow, ReservationInv, SelectInv
  <2>. QED  BY <1>1, <1>5, <2>1 DEF LockRow, Wanted, tableVars
<1>6. ASSUME NEW o \in Orders,
             Refuse(o) \/ Commit(o) \/ Abort(o) \/ Answer(o) \/ FailAfterCommit(o)
      PROVE  LockHoldersRun'
  BY <1>2, <1>6 DEF Refuse, Commit, Abort, Answer, FailAfterCommit, tableVars
<1>7. CASE OwnerStep \/ UNCHANGED reservationVars
  BY <1>7 DEF OwnerStep, ValidateEdit, ApplyEdit, Publish, Wanted, reservationVars, tableVars, bookingVars
<1>. QED  BY <1>3, <1>4, <1>5, <1>6, <1>7 DEF ReservationNext, BookingStep

\* However a booking ends, refused, committed, rolled back or abandoned, no row
\* stays locked by it: nobody waits for a transaction that is over.
THEOREM LocksEndWithTransactions == ReservationSpec => []LockHoldersRun
<1>1. ReservationInit => LockHoldersRun
  BY DEF ReservationInit, LockHoldersRun
<1>2. ReservationInv /\ LockHoldersRun /\ [ReservationNext]_reservationVars => LockHoldersRun'
  BY LockHoldersStep
<1>. QED  BY <1>1, <1>2, Invariance, PTL DEF ReservationSpec

\* o asks for more than one category.
AsksForTwo(o) == \E c, d \in Wanted(o) : c # d

\* Bookings deadlock only if two of them ask for more than one category each:
\* requests for a single category never make Postgres break a deadlock.
THEOREM DeadlockNeedsTwo ==
  ReservationSpec =>
    [](\A o \in Orders : Deadlocked(o) =>
         \E q, r \in Orders : q # r /\ AsksForTwo(q) /\ AsksForTwo(r))
<1> DEFINE Two == \E q, r \in Orders : q # r /\ AsksForTwo(q) /\ AsksForTwo(r)
<1>1. ASSUME ReservationInv, LockHoldersRun, NEW o \in Orders, Deadlocked(o) PROVE Two
  <2>1. PICK S \in SUBSET Orders :
          o \in S /\ \A p \in S : need[p] # {} /\ \A c \in need[p] : catLock[c] \in S \ {p}
    BY <1>1 DEF Deadlocked
  <2>2. \A p \in Orders : need[p] \subseteq Categories
    BY <1>1 DEF ReservationInv, ReservationTypeOK
  <2>3. ASSUME NEW p \in S
        PROVE  \E c \in need[p] : catLock[c] \in S \ {p} /\ AsksForTwo(catLock[c])
    <3>1. PICK c \in need[p] : catLock[c] \in S \ {p}
      BY <2>1
    <3> DEFINE q == catLock[c]
    <3>2. q \in Orders /\ c \in Categories /\ q # NoOrder
      BY <2>1, <2>2, <3>1, ReservationAssumption
    <3>3. c \in Wanted(q) \ need[q] /\ phase[q] = "lock"
      BY <1>1, <3>2 DEF LockHoldersRun
    <3>4. PICK d \in need[q] : TRUE
      BY <2>1, <3>1
    <3>5. d \in Wanted(q) /\ d # c
      BY <1>1, <3>2, <3>3, <3>4 DEF ReservationInv, SelectInv
    <3>. QED  BY <3>1, <3>3, <3>5 DEF AsksForTwo
  <2>4. PICK q \in S : AsksForTwo(q)
    BY <2>1, <2>3
  <2>5. PICK r \in S \ {q} : AsksForTwo(r)
    BY <2>3
  <2>. QED  BY <2>4, <2>5
<1>2. ReservationInv /\ LockHoldersRun => \A o \in Orders : Deadlocked(o) => Two
  BY <1>1
<1>. QED  BY <1>2, Invariance, LocksEndWithTransactions, PTL
=============================================================================
