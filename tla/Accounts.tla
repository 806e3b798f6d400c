------------------------------ MODULE Accounts ------------------------------
(***************************************************************************)
(* Users: registration (UserService.create and the create-user command),   *)
(* login, roles and bans, and the hand-over of the orders an e-mail        *)
(* address placed before it was registered (migrate_anonymous_orders, run  *)
(* by the task order:transfer_anonym_orders).                              *)
(*                                                                         *)
(* A user is named by its address.  Handlers that change an account try    *)
(* one conditional UPDATE and look at the row only when it missed, in the  *)
(* same READ COMMITTED transaction but by a later statement; a login makes *)
(* the token from a row it read before the slow password check.            *)
(***************************************************************************)
EXTENDS Naturals

CONSTANTS
  Emails,
  Admins,        \* those that create-user made administrators at set-up
  Registrations, \* POST /users
  Commands,      \* runs of create-user
  Logins,        \* POST /users/login
  Calls,         \* apply, moderate, ban and unban requests
  Bookings,      \* POST /orders
  Arrivals,      \* bound: which of them come, one set of them in a behaviour
  Nothing,
  MaxFaults      \* bound: lost messages, failing tasks and crashes

Requests == Registrations \cup Commands \cup Logins \cup Calls \cup Bookings

VARIABLES
  users,     \* the table: a role and is_active for an address
  tokens,    \* JWTs that have not expired
  transfers, \* addresses in the queue of the transfer task
  orders,    \* user_id and anonymous_email of a committed order
  pc, op, about, seen, answer,
  arrived,   \* the requests of this behaviour
  raced,     \* history: requests whose account changed after they looked at it
  dropped,   \* history: addresses registered for which no transfer will run
  migrated,  \* history: addresses whose transfer has run
  late,      \* history: bookings committed after the transfer of their address
  faults

requestVars == <<pc, op, about, seen, answer>>
historyVars == <<dropped, migrated, late>>
vars == <<users, tokens, transfers, orders, requestVars, arrived, raced, historyVars, faults>>

Roles == {"user", "on_verification", "verified_user", "moderator", "admin"}
Accounts == [role : Roles, active : BOOLEAN]
Tokens == [sub : Emails, role : Roles]
Owners == [user : Emails \cup {Nothing}, anonymous : Emails \cup {Nothing}]
Ops == {"apply", "approve", "reject", "ban", "unban"}
Pcs == {"start", "insert", "publish", "verify", "reread", "commit", "done"}
Answers == {"taken", "conflict", "created", "error", "incorrect", "token", "banned", "yourself",
            "true", "admin", "unexpected", "wrong", "missing", "value_error", "placed"}

ASSUME AccountsAssumption ==
  /\ Admins \subseteq Emails /\ MaxFaults \in Nat
  /\ \A A \in Arrivals : A \subseteq Requests
  /\ Registrations \cap (Commands \cup Logins \cup Calls \cup Bookings) = {}
  /\ Commands \cap (Logins \cup Calls \cup Bookings) = {}
  /\ Logins \cap (Calls \cup Bookings) = {} /\ Calls \cap Bookings = {}
  /\ Nothing \notin Emails \cup Accounts \cup Owners \cup Ops \cup Answers

\* Types, and the CHECK constraint check_order_owner, for orders never without owner.
TypeOK ==
  /\ users \in [Emails -> Accounts \cup {Nothing}]
  /\ tokens \subseteq Tokens /\ transfers \subseteq Emails
  /\ orders \in [Bookings -> Owners \cup {Nothing}]
  /\ \A k \in Bookings : orders[k] # Nothing =>
       (orders[k].user = Nothing) # (orders[k].anonymous = Nothing)
  /\ pc \in [Requests -> Pcs]
  /\ op \in [Calls -> Ops \cup {Nothing}]
  /\ about \in [Requests -> Emails \cup {Nothing}]
  /\ seen \in [Logins -> Accounts \cup {Nothing}]
  /\ answer \in [Requests -> Answers \cup {Nothing}]
  /\ arrived \subseteq Requests /\ raced \subseteq Requests
  /\ dropped \cup migrated \subseteq Emails /\ late \subseteq Bookings
  /\ faults \in 0..MaxFaults

Weight ==
  [user |-> 10, on_verification |-> 10, verified_user |-> 20, moderator |-> 30, admin |-> 40]

-----------------------------------------------------------------------------
(* Requests *)

Fault == faults < MaxFaults /\ faults' = faults + 1
At(q, label) == q \in arrived /\ pc[q] = label
Moves(q, next) == pc' = [pc EXCEPT ![q] = next]
Ends(q, result) == Moves(q, "done") /\ answer' = [answer EXCEPT ![q] = result]
Concerns(q, e) == about' = [about EXCEPT ![q] = e]

\* requests that have looked at the row of e and not answered yet
Looking(e) == {q \in Logins \cup Calls : pc[q] \in {"verify", "reread"} /\ about[q] = e}

Writes(e, account) ==
  /\ users' = [users EXCEPT ![e] = account]
  /\ raced' = raced \cup Looking(e)

-----------------------------------------------------------------------------
(* Registration *)

\* SELECT by e-mail; then the password is hashed
CheckEmail(r, e) ==
  /\ r \in Registrations \cup Commands /\ At(r, "start") /\ Concerns(r, e)
  /\ \/ users[e] # Nothing /\ Ends(r, "taken")
     \/ users[e] = Nothing /\ Moves(r, "insert") /\ UNCHANGED answer
  /\ UNCHANGED <<users, tokens, transfers, orders, op, seen, arrived, raced, historyVars, faults>>

\* INSERT and commit; the unique index refuses a second row, which nobody catches
Insert(r, made) ==
  /\ At(r, "insert")
  /\ IF users[about[r]] # Nothing
       THEN Ends(r, "conflict") /\ UNCHANGED <<users, raced>>
       ELSE /\ Writes(about[r], made)
            /\ IF r \in Registrations THEN Moves(r, "publish") /\ UNCHANGED answer
                                      ELSE Ends(r, "created")
  /\ UNCHANGED <<tokens, transfers, orders, op, about, seen, arrived, migrated, late, faults>>

InsertUser(r) ==
  /\ r \in Registrations /\ Insert(r, [role |-> "user", active |-> TRUE])
  /\ UNCHANGED dropped

\* create-user: any role, and no transfer of orders
CommandInserts(r) ==
  /\ r \in Commands
  /\ \E role \in Roles : Insert(r, [role |-> role, active |-> TRUE])
  /\ dropped' = IF users[about[r]] = Nothing THEN dropped \cup {about[r]} ELSE dropped

\* perform_task, after the commit
Publish(r) ==
  /\ At(r, "publish") /\ Ends(r, "created")
  /\ transfers' = transfers \cup {about[r]}
  /\ UNCHANGED <<users, tokens, orders, op, about, seen, arrived, raced, historyVars, faults>>

PublishFails(r) ==
  /\ At(r, "publish") /\ Fault /\ Ends(r, "error")
  /\ dropped' = dropped \cup {about[r]}
  /\ UNCHANGED <<users, tokens, transfers, orders, op, about, seen, arrived, raced, migrated, late>>

-----------------------------------------------------------------------------
(* Login *)

LoginReads(l, e) ==
  /\ l \in Logins /\ At(l, "start") /\ Moves(l, "verify") /\ Concerns(l, e)
  /\ seen' = [seen EXCEPT ![l] = users[e]]
  /\ UNCHANGED <<users, tokens, transfers, orders, op, answer, arrived, raced, historyVars, faults>>

\* bug: the ban is not looked at
Authenticate_Banned(l) ==
  /\ At(l, "verify")
  /\ \/ Ends(l, "incorrect") /\ UNCHANGED tokens
     \/ /\ seen[l] # Nothing /\ Ends(l, "token")
        /\ tokens' = tokens \cup {[sub |-> about[l], role |-> seen[l].role]}
  /\ UNCHANGED <<users, transfers, orders, op, about, seen, arrived, raced, historyVars, faults>>

\* password, ban, token: all from the row read before
Authenticate(l) ==
  /\ At(l, "verify")
  /\ \/ Ends(l, "incorrect") /\ UNCHANGED tokens
     \/ /\ seen[l] # Nothing
        /\ IF seen[l].active
             THEN /\ Ends(l, "token")
                  /\ tokens' = tokens \cup {[sub |-> about[l], role |-> seen[l].role]}
             ELSE Ends(l, "banned") /\ UNCHANGED tokens
  /\ UNCHANGED <<users, transfers, orders, op, about, seen, arrived, raced, historyVars, faults>>

Expire(t) ==
  /\ t \in tokens /\ tokens' = tokens \ {t}
  /\ UNCHANGED <<users, transfers, orders, requestVars, arrived, raced, historyVars, faults>>

-----------------------------------------------------------------------------
(* Roles and bans *)

Required(o) ==
  CASE o = "apply" -> "user" [] o \in {"approve", "reject"} -> "moderator" [] OTHER -> "admin"
Target(o) == IF o = "approve" THEN "verified_user" ELSE IF o = "reject" THEN "user" ELSE "on_verification"
Expected(o) == IF o = "apply" THEN "user" ELSE "on_verification"

\* RoleChecker: the role is the token's; the account is not looked at
Permits(t, o) == Weight[t.role] >= Weight[Required(o)]

\* a call on account e; one applies for oneself, and does not ban oneself
StartCall(c, o, e) ==
  /\ c \in Calls /\ At(c, "start") /\ Concerns(c, e)
  /\ op' = [op EXCEPT ![c] = o]
  /\ \E t \in tokens :
       /\ Permits(t, o)
       /\ o = "apply" => t.sub = e
       /\ IF o \in {"ban", "unban"} /\ t.sub = e THEN Ends(c, "yourself")
                                                 ELSE Moves(c, "insert") /\ UNCHANGED answer
  /\ UNCHANGED <<users, tokens, transfers, orders, seen, arrived, raced, historyVars, faults>>

\* bug: verify compares the ban only
Matches_AnyRole(o, account) ==
  CASE o = "apply"                -> account.role = Expected(o) /\ account.active
    [] o \in {"approve", "reject"} -> account.active
    [] o = "ban"                  -> account.role # "admin"
    [] o = "unban"                -> TRUE

\* the WHERE and the SET of the conditional UPDATE
Matches(o, account) ==
  CASE o \in {"apply", "approve", "reject"} -> account.role = Expected(o) /\ account.active
    [] o = "ban"                            -> account.role # "admin"
    [] o = "unban"                          -> TRUE

Applied(o, account) ==
  IF o \in {"ban", "unban"} THEN [account EXCEPT !.active = (o = "unban")]
                            ELSE [account EXCEPT !.role = Target(o)]

\* UPDATE ... WHERE, and commit when a row was hit
Update(c) ==
  /\ c \in Calls /\ At(c, "insert")
  /\ LET e == about[c] IN
     IF users[e] # Nothing /\ Matches(op[c], users[e])
       THEN Writes(e, Applied(op[c], users[e])) /\ Ends(c, "true")
       ELSE Moves(c, "reread") /\ UNCHANGED <<users, raced, answer>>
  /\ UNCHANGED <<tokens, transfers, orders, op, about, seen, arrived, historyVars, faults>>

\* bug: an application by a banned user is not told apart
Verdict_Unbanned(o, account) ==
  IF o \in {"ban", "unban"}
    THEN IF account.role = "admin" /\ o = "ban" THEN "admin"
         ELSE IF account.active = (o = "unban") THEN "true" ELSE "unexpected"
    ELSE IF account.role = Target(o) THEN "true" ELSE "wrong"

\* why the UPDATE missed, from the row as it is now
Verdict(o, account) ==
  IF o \in {"ban", "unban"}
    THEN IF account.role = "admin" /\ o = "ban" THEN "admin"
         ELSE IF account.active = (o = "unban") THEN "true" ELSE "unexpected"
    ELSE IF ~account.active THEN "banned"
         ELSE IF account.role = Target(o) THEN "true" ELSE "wrong"

Reread(c) ==
  /\ c \in Calls /\ At(c, "reread")
  /\ LET account == users[about[c]] IN
     Ends(c, IF account = Nothing THEN "missing" ELSE Verdict(op[c], account))
  /\ UNCHANGED <<users, tokens, transfers, orders, op, about, seen, arrived, raced, historyVars, faults>>

-----------------------------------------------------------------------------
(* Orders without a user *)

\* POST /orders with or without a valid token (an invalid one counts as none)
\* and with or without an address; exactly one must be there
BookFor(k, user, email) ==
  /\ k \in Bookings /\ At(k, "start")
  /\ user # Nothing => \E t \in tokens : t.sub = user
  /\ IF (user = Nothing) = (email = Nothing)
       THEN Ends(k, "value_error") /\ UNCHANGED about
       ELSE /\ Concerns(k, IF user = Nothing THEN email ELSE user)
            /\ Moves(k, IF user = Nothing THEN "commit" ELSE "insert") /\ UNCHANGED answer
  /\ UNCHANGED <<users, tokens, transfers, orders, op, seen, arrived, raced, historyVars, faults>>

Places(k, owner) ==
  /\ k \in Bookings /\ Ends(k, "placed")
  /\ orders' = [orders EXCEPT ![k] = owner]
  /\ UNCHANGED <<users, tokens, transfers, op, about, seen, arrived, raced, dropped, migrated, faults>>

CommitOwned(k) ==
  /\ At(k, "insert") /\ Places(k, [user |-> about[k], anonymous |-> Nothing])
  /\ UNCHANGED late

CommitAnonymous(k) ==
  /\ At(k, "commit") /\ Places(k, [user |-> Nothing, anonymous |-> about[k]])
  /\ late' = IF about[k] \in migrated THEN late \cup {k} ELSE late

Orphans(e) == {k \in Bookings : orders[k] # Nothing /\ orders[k].anonymous = e}
OwnedBy(e) == [user |-> e, anonymous |-> Nothing]

\* bug: the UPDATE forgets the WHERE
Moved_Everybody(e) == {k \in Bookings : orders[k] # Nothing /\ orders[k].anonymous # Nothing}

\* the rows of UPDATE orders ... WHERE anonymous_email = e
Moved(e) == Orphans(e)

\* bug: anonymous_email is left as it was
MigrateAnonymousOrders_KeepsEmail(e) ==
  /\ e \in transfers /\ users[e] # Nothing
  /\ transfers' = transfers \ {e} /\ migrated' = migrated \cup {e}
  /\ orders' = [k \in Bookings |->
                 IF k \in Moved(e) THEN [orders[k] EXCEPT !.user = e] ELSE orders[k]]
  /\ UNCHANGED <<users, tokens, requestVars, arrived, raced, dropped, late, faults>>

\* bug: the commit is forgotten
MigrateAnonymousOrders_NoCommit(e) ==
  /\ e \in transfers /\ users[e] # Nothing
  /\ transfers' = transfers \ {e} /\ migrated' = migrated \cup {e}
  /\ UNCHANGED <<users, tokens, orders, requestVars, arrived, raced, dropped, late, faults>>

\* the task: the user exists, since its registration was committed before;
\* nothing to commit when no row was hit
MigrateAnonymousOrders(e) ==
  /\ e \in transfers /\ users[e] # Nothing
  /\ transfers' = transfers \ {e} /\ migrated' = migrated \cup {e}
  /\ orders' = [k \in Bookings |-> IF k \in Moved(e) THEN OwnedBy(e) ELSE orders[k]]
  /\ UNCHANGED <<users, tokens, requestVars, arrived, raced, dropped, late, faults>>

\* the worker dies with the message, or the task raises: it is not tried again
TransferFails(e) ==
  /\ e \in transfers /\ Fault
  /\ transfers' = transfers \ {e} /\ dropped' = dropped \cup {e}
  /\ UNCHANGED <<users, tokens, orders, requestVars, arrived, raced, migrated, late>>

-----------------------------------------------------------------------------

Init ==
  /\ users = [e \in Emails |-> IF e \in Admins THEN [role |-> "admin", active |-> TRUE] ELSE Nothing]
  /\ tokens = {[sub |-> e, role |-> "admin"] : e \in Admins}
  /\ transfers = {} /\ orders = [k \in Bookings |-> Nothing]
  /\ pc = [q \in Requests |-> "start"] /\ op = [c \in Calls |-> Nothing]
  /\ about = [q \in Requests |-> Nothing] /\ seen = [l \in Logins |-> Nothing]
  /\ answer = [q \in Requests |-> Nothing]
  /\ arrived \in Arrivals /\ raced = {}
  /\ dropped = Admins /\ migrated = {} /\ late = {} /\ faults = 0

Register(r) ==
  \/ \E e \in Emails : CheckEmail(r, e)
  \/ InsertUser(r) \/ CommandInserts(r) \/ Publish(r) \/ PublishFails(r)
Login(l) == (\E e \in Emails : LoginReads(l, e)) \/ Authenticate(l)
Call(c) == (\E o \in Ops, e \in Emails : StartCall(c, o, e)) \/ Update(c) \/ Reread(c)
Book(k) ==
  \/ \E user, email \in Emails \cup {Nothing} : BookFor(k, user, email)
  \/ CommitOwned(k) \/ CommitAnonymous(k)

Next ==
  \/ \E r \in Registrations \cup Commands : Register(r)
  \/ \E l \in Logins : Login(l)
  \/ \E c \in Calls : Call(c)
  \/ \E k \in Bookings : Book(k)
  \/ \E e \in Emails : MigrateAnonymousOrders(e) \/ TransferFails(e)
  \/ \E t \in Tokens : Expire(t)

Spec == Init /\ [][Next]_vars

\* asyncio runs a handler until it ends; a worker takes what is queued
FairSpec ==
  /\ Spec
  /\ \A r \in Registrations : WF_vars(Publish(r) \/ PublishFails(r))
  /\ \A e \in Emails : WF_vars(MigrateAnonymousOrders(e) \/ TransferFails(e))

-----------------------------------------------------------------------------

\* An order belongs to the address that placed it, as a user or without one,
\* through every transfer (order/services.py 157-167).
OrdersFollowTheirEmail ==
  \A k \in Bookings : orders[k] # Nothing => about[k] \in {orders[k].user, orders[k].anonymous}

\* An order without a user whose address has an account is on its way to that
\* account, or the transfer was lost or never asked for (create-user), or the
\* order was committed after the transfer had run (user/services.py 46-47).
OrphanIsExplained ==
  \A e \in Emails : \A k \in Orphans(e) : users[e] # Nothing =>
    \/ e \in transfers \cup dropped \/ k \in late
    \/ \E r \in Registrations : pc[r] = "publish" /\ about[r] = e

\* A call that was told the user is verified was told the truth, and a later
\* verdict does not take it back (user/services.py 97-122).
ApprovalHolds ==
  \A c \in Calls : op[c] = "approve" /\ answer[c] = "true" =>
    users[about[c]].role = "verified_user"

\* "Unexpected user state", and a WrongStateException whose current and
\* expected role are the same, happen only to a call whose account was changed
\* between its UPDATE and its SELECT (user/services.py 79-95, 139-146, 160-167).
ParadoxNeedsRace ==
  [][\A c \in Calls : Reread(c) /\ c \notin raced /\ users[about[c]] # Nothing =>
       /\ answer'[c] # "unexpected"
       /\ answer'[c] = "wrong" => users[about[c]].role # Expected(op[c])]_vars

\* A new token shows an account that is not banned and its role, unless the
\* account was changed during the login (user/services.py 54-68).
TokenIsCurrentUnlessRaced ==
  [][\A t \in tokens' \ tokens : \A l \in Logins :
       answer[l] = Nothing /\ answer'[l] = "token" /\ l \notin raced =>
         users[t.sub] = [role |-> t.role, active |-> TRUE]]_vars

\* An order placed without a user before the transfer of its address gets its
\* user, unless the transfer is lost (order/tasks.py 64-82).
EventuallyMigrated ==
  \A e \in Emails : \A k \in Bookings :
    (k \in Orphans(e) /\ \E r \in Registrations : about[r] = e /\ pc[r] = "publish")
      ~> (orders[k] = OwnedBy(e) \/ e \in dropped)
=============================================================================
