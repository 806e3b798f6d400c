--------------------------- MODULE AccountsProofs ---------------------------
(***************************************************************************)
(* Accounts for any number of addresses and requests: what a handler knows *)
(* of the row it acts on, and where the orders of an address can be.       *)
(***************************************************************************)
EXTENDS Accounts, TLAPS

\* A request that is under way has an address, a call an operation, and
\* neither has an answer.
Underway ==
  /\ \A q \in Requests : pc[q] \in {"insert", "publish", "verify", "reread", "commit"} =>
                           about[q] \in Emails
  /\ \A c \in Calls : pc[c] \in {"insert", "reread"} => op[c] \in Ops
  /\ \A q \in Requests : answer[q] # Nothing => pc[q] = "done"

\* An order has the address of the booking that ended with it.
OrdersOfEndedBookings ==
  \A k \in Bookings : orders[k] # Nothing =>
    /\ pc[k] = "done" /\ about[k] \in Emails
    /\ about[k] \in {orders[k].user, orders[k].anonymous}

\* Where the transfer of an account is.
TransferOf(e) ==
  e \in transfers \cup dropped \cup migrated \/ \E r \in Registrations : pc[r] = "publish" /\ about[r] = e
EveryAccountHasTransfer == \A e \in Emails : users[e] # Nothing => TransferOf(e)

\* ApprovalHolds needs that accounts are not deleted.
VerifiedIsThere ==
  \A c \in Calls : op[c] = "approve" /\ answer[c] = "true" =>
    users[about[c]] # Nothing /\ users[about[c]].role = "verified_user"

\* What a request that has not raced knows of its row.
KnowsItsRow ==
  /\ \A c \in Calls : pc[c] = "reread" /\ c \notin raced /\ users[about[c]] # Nothing =>
       ~Matches(op[c], users[about[c]])
  /\ \A l \in Logins : pc[l] = "verify" /\ l \notin raced => seen[l] = users[about[l]]

AccountsInv ==
  /\ TypeOK
  /\ Underway
  /\ OrdersOfEndedBookings
  /\ EveryAccountHasTransfer
  /\ OrphanIsExplained
  /\ VerifiedIsThere
  /\ KnowsItsRow

-----------------------------------------------------------------------------

LEMMA AccountsInit == Init => AccountsInv
<1>. SUFFICES ASSUME Init PROVE AccountsInv
  OBVIOUS
<1>. USE AccountsAssumption DEF Init
<1>1. TypeOK
  BY DEF TypeOK, Accounts, Roles, Tokens, Pcs, Requests
<1>2. Underway /\ OrdersOfEndedBookings /\ OrphanIsExplained /\ VerifiedIsThere /\ KnowsItsRow
  BY DEF Underway, OrdersOfEndedBookings, OrphanIsExplained, Orphans, VerifiedIsThere, KnowsItsRow,
         Requests
<1>3. EveryAccountHasTransfer
  BY DEF EveryAccountHasTransfer, TransferOf
<1>. QED  BY <1>1, <1>2, <1>3 DEF AccountsInv

\* the values that handlers write
LEMMA WrittenAccounts ==
  ASSUME NEW o \in Ops, NEW account \in Accounts
  PROVE  /\ Applied(o, account) \in Accounts
         /\ Verdict(o, account) \in Answers
         /\ Matches(o, account) /\ account.role = "verified_user" =>
              Applied(o, account).role = "verified_user"
         /\ Matches(o, account) /\ o = "approve" => Applied(o, account).role = "verified_user"
         /\ Verdict(o, account) = "true" /\ o = "approve" => account.role = "verified_user"
  BY DEF Ops, Accounts, Roles, Applied, Verdict, Matches, Target, Expected, Answers

-----------------------------------------------------------------------------
(* One lemma per conjunct *)

LEMMA TypeStep ==
  ASSUME TypeOK, Underway, [Next]_vars
  PROVE  TypeOK'
<1>. USE AccountsAssumption DEF TypeOK, Requests, requestVars, historyVars
<1>1. ASSUME NEW r \in Registrations \cup Commands, Register(r) PROVE TypeOK'
  <2>1. ASSUME NEW e \in Emails, CheckEmail(r, e) PROVE TypeOK'
    BY <2>1 DEF CheckEmail, Concerns, Ends, Moves, Pcs, Answers
  <2>2. ASSUME NEW made \in Accounts, Insert(r, made), dropped' \subseteq dropped \cup {about[r]}
        PROVE  TypeOK'
    <3>1. about[r] \in Emails
      BY <2>2 DEF Insert, At, Underway
    <3>. QED  BY <2>2, <3>1 DEF Insert, Writes, Looking, Ends, Moves, Pcs, Answers
  <2>3. CASE InsertUser(r)
    BY <2>2, <2>3 DEF InsertUser, Accounts, Roles
  <2>4. CASE CommandInserts(r)
    BY <2>2, <2>4 DEF CommandInserts, Accounts
  <2>5. CASE Publish(r)
    BY <2>5 DEF Publish, At, Underway, Ends, Moves, Pcs, Answers
  <2>6. CASE PublishFails(r)
    BY <2>6 DEF PublishFails, At, Underway, Ends, Moves, Fault, Pcs, Answers
  <2>. QED  BY <1>1, <2>1, <2>3, <2>4, <2>5, <2>6 DEF Register
<1>2. ASSUME NEW l \in Logins, Login(l) PROVE TypeOK'
  <2>1. ASSUME NEW e \in Emails, LoginReads(l, e) PROVE TypeOK'
    BY <2>1 DEF LoginReads, Concerns, Moves, Pcs
  <2>2. CASE Authenticate(l)
    <3>1. about[l] \in Emails /\ seen[l] \in Accounts \cup {Nothing}
      BY <2>2 DEF Authenticate, At, Underway
    <3>. QED  BY <2>2, <3>1 DEF Authenticate, Ends, Moves, Pcs, Answers, Tokens, Accounts
  <2>. QED  BY <1>2, <2>1, <2>2 DEF Login
<1>3. ASSUME NEW c \in Calls, Call(c) PROVE TypeOK'
  <2>1. ASSUME NEW o \in Ops, NEW e \in Emails, StartCall(c, o, e) PROVE TypeOK'
    BY <2>1 DEF StartCall, Concerns, Ends, Moves, Pcs, Answers
  <2>2. CASE Update(c)
    <3>1. about[c] \in Emails /\ op[c] \in Ops
      BY <2>2 DEF Update, At, Underway
    <3>2. CASE users[about[c]] # Nothing /\ Matches(op[c], users[about[c]])
      <4>1. Applied(op[c], users[about[c]]) \in Accounts
        BY <3>1, <3>2, WrittenAccounts
      <4>. QED  BY <2>2, <3>1, <3>2, <4>1 DEF Update, Writes, Looking, Ends, Moves, Pcs, Answers
    <3>3. CASE ~(users[about[c]] # Nothing /\ Matches(op[c], users[about[c]]))
      BY <2>2, <3>3 DEF Update, Moves, Pcs
    <3>. QED  BY <3>2, <3>3
  <2>3. CASE Reread(c)
    <3>1. about[c] \in Emails /\ op[c] \in Ops
      BY <2>3 DEF Reread, At, Underway
    <3>2. users[about[c]] # Nothing => Verdict(op[c], users[about[c]]) \in Answers
      BY <3>1, WrittenAccounts
    <3>. QED  BY <2>3, <3>2 DEF Reread, Ends, Moves, Pcs, Answers
  <2>. QED  BY <1>3, <2>1, <2>2, <2>3 DEF Call
<1>4. ASSUME NEW k \in Bookings, Book(k) PROVE TypeOK'
  <2>1. ASSUME NEW user \in Emails \cup {Nothing}, NEW email \in Emails \cup {Nothing},
               BookFor(k, user, email)
        PROVE  TypeOK'
    BY <2>1 DEF BookFor, Concerns, Ends, Moves, Pcs, Answers
  <2>2. CASE CommitOwned(k)
    <3>1. about[k] \in Emails
      BY <2>2 DEF CommitOwned, At, Underway
    <3>. QED  BY <2>2, <3>1 DEF CommitOwned, Places, Owners, Ends, Moves, Pcs, Answers
  <2>3. CASE CommitAnonymous(k)
    <3>1. about[k] \in Emails
      BY <2>3 DEF CommitAnonymous, At, Underway
    <3>. QED  BY <2>3, <3>1 DEF CommitAnonymous, Places, Owners, Ends, Moves, Pcs, Answers
  <2>. QED  BY <1>4, <2>1, <2>2, <2>3 DEF Book
<1>5. ASSUME NEW e \in Emails, MigrateAnonymousOrders(e) PROVE TypeOK'
  BY <1>5 DEF MigrateAnonymousOrders, Moved, Orphans, OwnedBy, Owners
<1>6. ASSUME NEW e \in Emails, TransferFails(e) PROVE TypeOK'
  BY <1>6 DEF TransferFails, Fault
<1>7. ASSUME NEW t \in Tokens, Expire(t) PROVE TypeOK'
  BY <1>7 DEF Expire
<1>8. CASE UNCHANGED vars
  BY <1>8 DEF vars
<1>. QED  BY <1>1, <1>2, <1>3, <1>4, <1>5, <1>6, <1>7, <1>8 DEF Next

LEMMA UnderwayStep ==
  ASSUME TypeOK, Underway, [Next]_vars
  PROVE  Underway'
<1>. USE AccountsAssumption DEF TypeOK, Underway, Requests, requestVars, historyVars
<1>1. ASSUME NEW r \in Registrations \cup Commands, Register(r) PROVE Underway'
  <2>1. ASSUME NEW e \in Emails, CheckEmail(r, e) PROVE Underway'
    BY <2>1 DEF CheckEmail, At, Concerns, Ends, Moves
  <2>2. ASSUME NEW made, Insert(r, made) PROVE Underway'
    BY <2>2 DEF Insert, At, Ends, Moves
  <2>3. CASE InsertUser(r) \/ CommandInserts(r)
    BY <2>2, <2>3 DEF InsertUser, CommandInserts
  <2>4. CASE Publish(r) \/ PublishFails(r)
    BY <2>4 DEF Publish, PublishFails, Ends, Moves
  <2>. QED  BY <1>1, <2>1, <2>3, <2>4 DEF Register
<1>2. ASSUME NEW l \in Logins, Login(l) PROVE Underway'
  <2>1. ASSUME NEW e \in Emails, LoginReads(l, e) PROVE Underway'
    BY <2>1 DEF LoginReads, At, Concerns, Moves
  <2>2. CASE Authenticate(l)
    BY <2>2 DEF Authenticate, Ends, Moves
  <2>. QED  BY <1>2, <2>1, <2>2 DEF Login
<1>3. ASSUME NEW c \in Calls, Call(c) PROVE Underway'
  <2>1. ASSUME NEW o \in Ops, NEW e \in Emails, StartCall(c, o, e) PROVE Underway'
    BY <2>1 DEF StartCall, At, Concerns, Ends, Moves
  <2>2. CASE Update(c)
    BY <2>2 DEF Update, At, Ends, Moves
  <2>3. CASE Reread(c)
    BY <2>3 DEF Reread, Ends, Moves
  <2>. QED  BY <1>3, <2>1, <2>2, <2>3 DEF Call
<1>4. ASSUME NEW k \in Bookings, Book(k) PROVE Underway'
  <2>1. ASSUME NEW user \in Emails \cup {Nothing}, NEW email \in Emails \cup {Nothing},
               BookFor(k, user, email)
        PROVE  Underway'
    BY <2>1 DEF BookFor, At, Concerns, Ends, Moves
  <2>2. CASE CommitOwned(k) \/ CommitAnonymous(k)
    BY <2>2 DEF CommitOwned, CommitAnonymous, Places, Ends, Moves
  <2>. QED  BY <1>4, <2>1, <2>2 DEF Book
<1>5. ASSUME NEW e \in Emails, MigrateAnonymousOrders(e) \/ TransferFails(e) PROVE Underway'
  BY <1>5 DEF MigrateAnonymousOrders, TransferFails
<1>6. ASSUME NEW t \in Tokens, Expire(t) PROVE Underway'
  BY <1>6 DEF Expire
<1>7. CASE UNCHANGED vars
  BY <1>7 DEF vars
<1>. QED  BY <1>1, <1>2, <1>3, <1>4, <1>5, <1>6, <1>7 DEF Next

\* A request changes its own address only, and only at its start; orders
\* change by two steps.
LEMMA OrdersStep ==
  ASSUME TypeOK, Underway, OrdersOfEndedBookings, [Next]_vars
  PROVE  OrdersOfEndedBookings'
<1>. USE AccountsAssumption DEF TypeOK, OrdersOfEndedBookings, Requests, requestVars, historyVars
<1>1. ASSUME NEW r \in Registrations \cup Commands, Register(r) PROVE OrdersOfEndedBookings'
  <2>1. ASSUME NEW e \in Emails, CheckEmail(r, e) PROVE OrdersOfEndedBookings'
    BY <2>1 DEF CheckEmail, At, Concerns, Ends, Moves
  <2>2. ASSUME NEW made, Insert(r, made) PROVE OrdersOfEndedBookings'
    BY <2>2 DEF Insert, At, Ends, Moves
  <2>3. CASE InsertUser(r) \/ CommandInserts(r)
    BY <2>2, <2>3 DEF InsertUser, CommandInserts
  <2>4. CASE Publish(r) \/ PublishFails(r)
    BY <2>4 DEF Publish, PublishFails, Ends, Moves
  <2>. QED  BY <1>1, <2>1, <2>3, <2>4 DEF Register
<1>2. ASSUME NEW l \in Logins, Login(l) PROVE OrdersOfEndedBookings'
  BY <1>2 DEF Login, LoginReads, Authenticate, At, Concerns, Ends, Moves
<1>3. ASSUME NEW c \in Calls, Call(c) PROVE OrdersOfEndedBookings'
  BY <1>3 DEF Call, StartCall, Update, Reread, At, Concerns, Ends, Moves
<1>4. ASSUME NEW k \in Bookings, Book(k) PROVE OrdersOfEndedBookings'
  <2>1. ASSUME NEW user, NEW email, BookFor(k, user, email) PROVE OrdersOfEndedBookings'
    BY <2>1 DEF BookFor, At, Concerns, Ends, Moves
  <2>2. CASE CommitOwned(k)
    BY <2>2 DEF CommitOwned, Underway, At, Places, Owners, Ends, Moves
  <2>3. CASE CommitAnonymous(k)
    BY <2>3 DEF CommitAnonymous, Underway, At, Places, Owners, Ends, Moves
  <2>. QED  BY <1>4, <2>1, <2>2, <2>3 DEF Book
<1>5. ASSUME NEW e \in Emails, MigrateAnonymousOrders(e) PROVE OrdersOfEndedBookings'
  <2>. SUFFICES ASSUME NEW k \in Bookings, orders'[k] # Nothing
                PROVE  /\ pc[k] = "done" /\ about[k] \in Emails
                       /\ about[k] \in {orders'[k].user, orders'[k].anonymous}
    BY <1>5 DEF MigrateAnonymousOrders
  <2>1. CASE k \in Moved(e)
    BY <1>5, <2>1 DEF MigrateAnonymousOrders, Moved, Orphans, OwnedBy, Owners
  <2>2. CASE k \notin Moved(e)
    BY <1>5, <2>2 DEF MigrateAnonymousOrders
  <2>. QED  BY <2>1, <2>2
<1>6. ASSUME NEW e \in Emails, TransferFails(e) PROVE OrdersOfEndedBookings'
  BY <1>6 DEF TransferFails
<1>7. ASSUME NEW t \in Tokens, Expire(t) PROVE OrdersOfEndedBookings'
  BY <1>7 DEF Expire
<1>8. CASE UNCHANGED vars
  BY <1>8 DEF vars
<1>. QED  BY <1>1, <1>2, <1>3, <1>4, <1>5, <1>6, <1>7, <1>8 DEF Next

\* An account appears together with what will transfer its orders.
LEMMA TransferStep ==
  ASSUME TypeOK, Underway, EveryAccountHasTransfer, [Next]_vars
  PROVE  EveryAccountHasTransfer'
<1>. USE AccountsAssumption
     DEF TypeOK, EveryAccountHasTransfer, TransferOf, Requests, requestVars, historyVars
<1>1. ASSUME NEW r \in Registrations \cup Commands, Register(r) PROVE EveryAccountHasTransfer'
  <2>1. ASSUME NEW e \in Emails, CheckEmail(r, e) PROVE EveryAccountHasTransfer'
    BY <2>1 DEF CheckEmail, At, Concerns, Ends, Moves
  <2>2. CASE InsertUser(r)
    BY <2>2 DEF InsertUser, Insert, At, Writes, Ends, Moves
  <2>3. CASE CommandInserts(r)
    BY <2>3 DEF CommandInserts, Insert, At, Writes, Ends, Moves
  <2>4. CASE Publish(r)
    BY <2>4 DEF Publish, Ends, Moves
  <2>5. CASE PublishFails(r)
    BY <2>5 DEF PublishFails, Ends, Moves
  <2>. QED  BY <1>1, <2>1, <2>2, <2>3, <2>4, <2>5 DEF Register
<1>2. ASSUME NEW l \in Logins, Login(l) PROVE EveryAccountHasTransfer'
  BY <1>2 DEF Login, LoginReads, Authenticate, At, Concerns, Ends, Moves
<1>3. ASSUME NEW c \in Calls, Call(c) PROVE EveryAccountHasTransfer'
  BY <1>3 DEF Call, StartCall, Update, Reread, At, Writes, Concerns, Ends, Moves
<1>4. ASSUME NEW k \in Bookings, Book(k) PROVE EveryAccountHasTransfer'
  BY <1>4 DEF Book, BookFor, CommitOwned, CommitAnonymous, Places, At, Concerns, Ends, Moves
<1>5. ASSUME NEW e \in Emails, MigrateAnonymousOrders(e) \/ TransferFails(e)
      PROVE  EveryAccountHasTransfer'
  BY <1>5 DEF MigrateAnonymousOrders, TransferFails
<1>6. ASSUME NEW t \in Tokens, Expire(t) PROVE EveryAccountHasTransfer'
  BY <1>6 DEF Expire
<1>7. CASE UNCHANGED vars
  BY <1>7 DEF vars
<1>. QED  BY <1>1, <1>2, <1>3, <1>4, <1>5, <1>6, <1>7 DEF Next

\* A registration that is about to queue the transfer stays so until it has
\* queued or dropped it.
LEMMA OrphanStep ==
  ASSUME TypeOK, Underway, EveryAccountHasTransfer, OrphanIsExplained, [Next]_vars
  PROVE  OrphanIsExplained'
<1>. USE AccountsAssumption
     DEF TypeOK, OrphanIsExplained, Orphans, Requests, requestVars, historyVars
<1>1. ASSUME NEW r \in Registrations \cup Commands, Register(r) PROVE OrphanIsExplained'
  <2>1. ASSUME NEW e \in Emails, CheckEmail(r, e) PROVE OrphanIsExplained'
    BY <2>1 DEF CheckEmail, At, Concerns, Ends, Moves
  <2>2. CASE InsertUser(r)
    BY <2>2 DEF InsertUser, Insert, At, Writes, Ends, Moves
  <2>3. CASE CommandInserts(r)
    BY <2>3 DEF CommandInserts, Insert, At, Writes, Ends, Moves
  <2>4. CASE Publish(r)
    BY <2>4 DEF Publish, Ends, Moves
  <2>5. CASE PublishFails(r)
    BY <2>5 DEF PublishFails, Ends, Moves
  <2>. QED  BY <1>1, <2>1, <2>2, <2>3, <2>4, <2>5 DEF Register
<1>2. ASSUME NEW l \in Logins, Login(l) PROVE OrphanIsExplained'
  BY <1>2 DEF Login, LoginReads, Authenticate, At, Concerns, Ends, Moves
<1>3. ASSUME NEW c \in Calls, Call(c) PROVE OrphanIsExplained'
  BY <1>3 DEF Call, StartCall, Update, Reread, At, Writes, Concerns, Ends, Moves
<1>4. ASSUME NEW k \in Bookings, Book(k) PROVE OrphanIsExplained'
  <2>1. ASSUME NEW user, NEW email, BookFor(k, user, email) PROVE OrphanIsExplained'
    BY <2>1 DEF BookFor, At, Concerns, Ends, Moves
  <2>2. CASE CommitOwned(k)
    BY <2>2 DEF CommitOwned, Places, Ends, Moves, At
  <2>3. CASE CommitAnonymous(k)
    BY <2>3 DEF CommitAnonymous, EveryAccountHasTransfer, TransferOf, Places, Ends, Moves, At
  <2>. QED  BY <1>4, <2>1, <2>2, <2>3 DEF Book
<1>5. ASSUME NEW e \in Emails, MigrateAnonymousOrders(e) PROVE OrphanIsExplained'
  BY <1>5 DEF MigrateAnonymousOrders, Moved, OwnedBy
<1>6. ASSUME NEW e \in Emails, TransferFails(e) PROVE OrphanIsExplained'
  BY <1>6 DEF TransferFails
<1>7. ASSUME NEW t \in Tokens, Expire(t) PROVE OrphanIsExplained'
  BY <1>7 DEF Expire
<1>8. CASE UNCHANGED vars
  BY <1>8 DEF vars
<1>. QED  BY <1>1, <1>2, <1>3, <1>4, <1>5, <1>6, <1>7, <1>8 DEF Next

LEMMA VerifiedStep ==
  ASSUME TypeOK, Underway, VerifiedIsThere, [Next]_vars
  PROVE  VerifiedIsThere'
<1>. USE AccountsAssumption
     DEF TypeOK, VerifiedIsThere, Requests, Answers, requestVars, historyVars
<1>0. ASSUME NEW e \in Emails, NEW account, account # Nothing,
             users' = [users EXCEPT ![e] = account], UNCHANGED <<op, about>>,
             users[e] # Nothing /\ users[e].role = "verified_user" => account.role = "verified_user",
             \A b \in Calls : answer'[b] = "true" /\ op[b] = "approve" =>
               answer[b] = "true" \/ (about[b] = e /\ account.role = "verified_user")
      PROVE  VerifiedIsThere'
  BY <1>0
<1>1. ASSUME NEW r \in Registrations \cup Commands, Register(r) PROVE VerifiedIsThere'
  <2>1. ASSUME NEW e \in Emails, CheckEmail(r, e) PROVE VerifiedIsThere'
    BY <2>1 DEF CheckEmail, At, Concerns, Ends, Moves
  <2>2. ASSUME NEW made \in Accounts, Insert(r, made) PROVE VerifiedIsThere'
    <3>1. about[r] \in Emails /\ UNCHANGED <<op, about>> /\ made # Nothing
      BY <2>2 DEF Insert, At, Underway
    <3>2. \A b \in Calls : answer'[b] = "true" => answer[b] = "true"
      BY <2>2 DEF Insert, Ends
    <3>3. CASE users[about[r]] # Nothing
      BY <2>2, <3>1, <3>2, <3>3 DEF Insert
    <3>4. CASE users[about[r]] = Nothing
      <4>1. users' = [users EXCEPT ![about[r]] = made]
        BY <2>2, <3>4 DEF Insert, Writes
      <4>. QED  BY <1>0, <3>1, <3>2, <3>4, <4>1
    <3>. QED  BY <3>3, <3>4
  <2>3. CASE InsertUser(r) \/ CommandInserts(r)
    BY <2>2, <2>3 DEF InsertUser, CommandInserts, Accounts, Roles
  <2>4. CASE Publish(r) \/ PublishFails(r)
    BY <2>4 DEF Publish, PublishFails, Ends, Moves
  <2>. QED  BY <1>1, <2>1, <2>3, <2>4 DEF Register
<1>2. ASSUME NEW l \in Logins, Login(l) PROVE VerifiedIsThere'
  BY <1>2 DEF Login, LoginReads, Authenticate, At, Concerns, Ends, Moves
<1>3. ASSUME NEW c \in Calls, Call(c) PROVE VerifiedIsThere'
  <2>1. ASSUME NEW o \in Ops, NEW e \in Emails, StartCall(c, o, e) PROVE VerifiedIsThere'
    BY <2>1 DEF StartCall, Underway, At, Concerns, Ends, Moves
  <2>2. CASE Update(c)
    <3>1. about[c] \in Emails /\ op[c] \in Ops
      BY <2>2 DEF Update, At, Underway
    <3>2. CASE users[about[c]] # Nothing /\ Matches(op[c], users[about[c]])
      <4>1. /\ Applied(op[c], users[about[c]]) \in Accounts
            /\ users[about[c]].role = "verified_user" \/ op[c] = "approve" =>
                 Applied(op[c], users[about[c]]).role = "verified_user"
        BY <3>1, <3>2, WrittenAccounts
      <4>2. /\ users' = [users EXCEPT ![about[c]] = Applied(op[c], users[about[c]])]
            /\ UNCHANGED <<op, about>>
        BY <2>2, <3>2 DEF Update, Writes
      <4>3. \A b \in Calls : b # c => answer'[b] = answer[b]
        BY <2>2, <3>2 DEF Update, Ends
      <4>. QED  BY <1>0, <3>1, <4>1, <4>2, <4>3
    <3>3. CASE ~(users[about[c]] # Nothing /\ Matches(op[c], users[about[c]]))
      BY <2>2, <3>3 DEF Update, Moves
    <3>. QED  BY <3>2, <3>3
  <2>3. CASE Reread(c)
    <3>1. about[c] \in Emails /\ op[c] \in Ops
      BY <2>3 DEF Reread, At, Underway
    <3>2. users[about[c]] # Nothing /\ Verdict(op[c], users[about[c]]) = "true" /\ op[c] = "approve" =>
            users[about[c]].role = "verified_user"
      BY <3>1, WrittenAccounts
    <3>. QED  BY <2>3, <3>2 DEF Reread, Ends, Moves
  <2>. QED  BY <1>3, <2>1, <2>2, <2>3 DEF Call
<1>4. ASSUME NEW k \in Bookings, Book(k) PROVE VerifiedIsThere'
  BY <1>4 DEF Book, BookFor, CommitOwned, CommitAnonymous, Places, At, Concerns, Ends, Moves
<1>5. ASSUME NEW e \in Emails, MigrateAnonymousOrders(e) \/ TransferFails(e) PROVE VerifiedIsThere'
  BY <1>5 DEF MigrateAnonymousOrders, TransferFails
<1>6. ASSUME NEW t \in Tokens, Expire(t) PROVE VerifiedIsThere'
  BY <1>6 DEF Expire
<1>7. CASE UNCHANGED vars
  BY <1>7 DEF vars
<1>. QED  BY <1>1, <1>2, <1>3, <1>4, <1>5, <1>6, <1>7 DEF Next

\* Every write of an account makes those that look at it racers.
LEMMA RowStep ==
  ASSUME TypeOK, Underway, KnowsItsRow, [Next]_vars
  PROVE  KnowsItsRow'
<1>. USE AccountsAssumption DEF TypeOK, KnowsItsRow, Requests, requestVars, historyVars
<1>1. ASSUME NEW e \in Emails, NEW account, Writes(e, account), UNCHANGED <<op, about, seen>>,
             \A c \in Calls : pc'[c] = "reread" => pc[c] = "reread",
             \A l \in Logins : pc'[l] = "verify" => pc[l] = "verify"
      PROVE  KnowsItsRow'
  BY <1>1 DEF Writes, Looking
<1>2. ASSUME NEW r \in Registrations \cup Commands, Register(r) PROVE KnowsItsRow'
  <2>1. ASSUME NEW e \in Emails, CheckEmail(r, e) PROVE KnowsItsRow'
    BY <2>1 DEF CheckEmail, At, Concerns, Ends, Moves
  <2>2. ASSUME NEW made, Insert(r, made) PROVE KnowsItsRow'
    <3>1. CASE users[about[r]] # Nothing
      BY <2>2, <3>1 DEF Insert, At, Ends, Moves
    <3>2. CASE users[about[r]] = Nothing
      <4>1. about[r] \in Emails /\ Writes(about[r], made) /\ UNCHANGED <<op, about, seen>>
        BY <2>2, <3>2 DEF Insert, At, Underway
      <4>2. /\ \A c \in Calls : pc'[c] = "reread" => pc[c] = "reread"
            /\ \A l \in Logins : pc'[l] = "verify" => pc[l] = "verify"
        BY <2>2, <3>2 DEF Insert, Ends, Moves
      <4>. QED  BY <1>1, <4>1, <4>2
    <3>. QED  BY <3>1, <3>2
  <2>3. CASE InsertUser(r) \/ CommandInserts(r)
    BY <2>2, <2>3 DEF InsertUser, CommandInserts
  <2>4. CASE Publish(r) \/ PublishFails(r)
    BY <2>4 DEF Publish, PublishFails, Ends, Moves
  <2>. QED  BY <1>2, <2>1, <2>3, <2>4 DEF Register
<1>3. ASSUME NEW l \in Logins, Login(l) PROVE KnowsItsRow'
  BY <1>3 DEF Login, LoginReads, Authenticate, At, Concerns, Ends, Moves
<1>4. ASSUME NEW c \in Calls, Call(c) PROVE KnowsItsRow'
  <2>1. ASSUME NEW o \in Ops, NEW e \in Emails, StartCall(c, o, e) PROVE KnowsItsRow'
    BY <2>1 DEF StartCall, At, Concerns, Ends, Moves
  <2>2. CASE Update(c)
    <3>1. CASE users[about[c]] # Nothing /\ Matches(op[c], users[about[c]])
      <4>1. /\ about[c] \in Emails
            /\ Writes(about[c], Applied(op[c], users[about[c]])) /\ UNCHANGED <<op, about, seen>>
        BY <2>2, <3>1 DEF Update, At, Underway
      <4>2. /\ \A b \in Calls : pc'[b] = "reread" => pc[b] = "reread"
            /\ \A l \in Logins : pc'[l] = "verify" => pc[l] = "verify"
        BY <2>2, <3>1 DEF Update, Ends, Moves
      <4>. QED  BY <1>1, <4>1, <4>2
    <3>2. CASE ~(users[about[c]] # Nothing /\ Matches(op[c], users[about[c]]))
      BY <2>2, <3>2 DEF Update, Moves
    <3>. QED  BY <3>1, <3>2
  <2>3. CASE Reread(c)
    BY <2>3 DEF Reread, Ends, Moves
  <2>. QED  BY <1>4, <2>1, <2>2, <2>3 DEF Call
<1>5. ASSUME NEW k \in Bookings, Book(k) PROVE KnowsItsRow'
  BY <1>5 DEF Book, BookFor, CommitOwned, CommitAnonymous, Places, At, Concerns, Ends, Moves
<1>6. ASSUME NEW e \in Emails, MigrateAnonymousOrders(e) \/ TransferFails(e) PROVE KnowsItsRow'
  BY <1>6 DEF MigrateAnonymousOrders, TransferFails
<1>7. ASSUME NEW t \in Tokens, Expire(t) PROVE KnowsItsRow'
  BY <1>7 DEF Expire
<1>8. CASE UNCHANGED vars
  BY <1>8 DEF vars
<1>. QED  BY <1>2, <1>3, <1>4, <1>5, <1>6, <1>7, <1>8 DEF Next

-----------------------------------------------------------------------------
(* The theorems *)

\* The invariant the others follow from: types; no request under way without
\* address; and the parts above (user/services.py 36-167, order/services.py
\* 157-167).
THEOREM AccountsInvariant == Spec => []AccountsInv
<1>1. AccountsInv /\ [Next]_vars => AccountsInv'
  BY TypeStep, UnderwayStep, OrdersStep, TransferStep, OrphanStep, VerifiedStep, RowStep
     DEF AccountsInv
<1>. QED  BY AccountsInit, <1>1, PTL DEF Spec

\* The model of users and orders keeps its types, and no order loses its owner
\* (the CHECK constraint of orders).
THEOREM AccountsTypeCorrect == Spec => []TypeOK
<1>1. AccountsInv => TypeOK
  BY DEF AccountsInv
<1>. QED  BY AccountsInvariant, <1>1, PTL

\* Orders stay with the address that placed them (order/services.py 157-167).
THEOREM OrdersKeepTheirEmail == Spec => []OrdersFollowTheirEmail
<1>1. AccountsInv => OrdersFollowTheirEmail
  BY DEF AccountsInv, OrdersOfEndedBookings, OrdersFollowTheirEmail
<1>. QED  BY AccountsInvariant, <1>1, PTL

\* An order of a registered address without a user has one of the listed
\* reasons (user/services.py 46-47).
THEOREM OrphansAreExplained == Spec => []OrphanIsExplained
<1>1. AccountsInv => OrphanIsExplained
  BY DEF AccountsInv
<1>. QED  BY AccountsInvariant, <1>1, PTL

\* "Approved" stays true (user/services.py 97-122).
THEOREM ApprovalIsTrue == Spec => []ApprovalHolds
<1>1. AccountsInv => ApprovalHolds
  BY DEF AccountsInv, VerifiedIsThere, ApprovalHolds
<1>. QED  BY AccountsInvariant, <1>1, PTL

\* An absurd verdict needs a change between UPDATE and SELECT
\* (user/services.py 79-95, 139-146, 160-167).
THEOREM ParadoxOnlyByRace == Spec => ParadoxNeedsRace
<1>1. ASSUME AccountsInv, NEW c \in Calls, Reread(c), c \notin raced, users[about[c]] # Nothing
      PROVE  /\ answer'[c] # "unexpected"
             /\ answer'[c] = "wrong" => users[about[c]].role # Expected(op[c])
  <2>1. /\ op[c] \in Ops /\ about[c] \in Emails /\ users[about[c]] \in Accounts
        /\ ~Matches(op[c], users[about[c]])
        /\ c \in Requests
    BY <1>1 DEF AccountsInv, TypeOK, Underway, KnowsItsRow, Reread, At, Requests
  <2>2. answer'[c] = Verdict(op[c], users[about[c]])
    BY <1>1, <2>1 DEF AccountsInv, TypeOK, Reread, Ends
  <2>. QED  BY <2>1, <2>2 DEF Verdict, Matches, Ops, Accounts, Expected, Target
<1>2. AccountsInv => [\A c \in Calls : Reread(c) /\ c \notin raced /\ users[about[c]] # Nothing =>
                        /\ answer'[c] # "unexpected"
                        /\ answer'[c] = "wrong" => users[about[c]].role # Expected(op[c])]_vars
  BY <1>1
<1>. QED  BY AccountsInvariant, <1>2, PTL DEF ParadoxNeedsRace

\* A login that raced with nothing shows the account as it is
\* (user/services.py 54-68).
THEOREM TokensAreCurrent == Spec => TokenIsCurrentUnlessRaced
<1>. DEFINE Current == \A t \in tokens' \ tokens : \A l \in Logins :
              answer[l] = Nothing /\ answer'[l] = "token" /\ l \notin raced =>
                users[t.sub] = [role |-> t.role, active |-> TRUE]
<1>1. ASSUME AccountsInv, Next PROVE Current
  <2>. SUFFICES ASSUME NEW t \in tokens' \ tokens, NEW l \in Logins,
                       answer[l] = Nothing, answer'[l] = "token", l \notin raced
                PROVE  users[t.sub] = [role |-> t.role, active |-> TRUE]
    OBVIOUS
  <2>. USE DEF requestVars, historyVars
  <2>1. PICK m \in Logins : Authenticate(m)
    BY <1>1 DEF Next, Register, CheckEmail, InsertUser, CommandInserts, Insert, Publish, PublishFails,
       Login, LoginReads, Call, StartCall, Update, Reread, Book, BookFor, CommitOwned,
       CommitAnonymous, Places, MigrateAnonymousOrders, TransferFails, Expire
  <2>2. m = l
    BY <1>1, <2>1, AccountsAssumption DEF AccountsInv, TypeOK, Requests, Answers, Authenticate, Ends
  <2>3. t = [sub |-> about[l], role |-> seen[l].role] /\ seen[l] # Nothing /\ seen[l].active
    BY <2>1, <2>2 DEF Authenticate, Ends
  <2>4. about[l] \in Emails /\ seen[l] = users[about[l]] /\ seen[l] \in Accounts
    BY <1>1, <2>1, <2>2, <2>3 DEF AccountsInv, TypeOK, Underway, KnowsItsRow, Authenticate, At, Requests
  <2>. QED  BY <2>3, <2>4 DEF Accounts
<1>2. AccountsInv /\ [Next]_vars => [Current]_vars
  BY <1>1
<1>. QED  BY AccountsInvariant, <1>2, PTL DEF Spec, TokenIsCurrentUnlessRaced
=============================================================================
