------------------------------- MODULE Events -------------------------------
(***************************************************************************)
(* EventService: events move from draft over moderation to approved or     *)
(* rejected, or are cancelled; they hang in a tree of event categories     *)
(* that admins grow.                                                       *)
(*                                                                         *)
(* publish, cancel, moderate and update are one guarded UPDATE ... WHERE   *)
(* state IN (...) RETURNING, then the commit.  An UPDATE that matches no   *)
(* row is followed by a second query that decides between success ("it is  *)
(* already so") and an error; the two see different snapshots.             *)
(* create and create_category check first and insert afterwards, with      *)
(* nothing locked in between.                                              *)
(***************************************************************************)
EXTENDS FiniteSets

CONSTANTS
  EventIds,    \* bound: rows of events there may be
  CategoryIds, \* bound: rows of event_categories there may be
  Sessions,    \* requests served at a time
  NoCategory,  \* a root's parent; the category of an event not created
  NoEvent, NoSession

ASSUME EventsAssumption == NoSession \notin Sessions /\ NoEvent \notin EventIds

VARIABLES
  state,    \* events.state, "none" for an event not created
  category, \* events.category_id
  parent,   \* event_categories.parent_id
  exists,   \* categories created
  rowLock,  \* holder of the row lock of each event
  kind,     \* the operation a session serves
  target,   \* the event it is about
  place,    \* the category it is about: where an event goes, or a parent
  pc,
  told      \* <<operation, event>> that some client was told succeeded

vars == <<state, category, parent, exists, rowLock, kind, target, place, pc, told>>
tableVars == <<state, category, parent, exists>>
requestVars == <<kind, target, place>>

EventState == {"draft", "on_moderation", "approved", "rejected", "cancelled"}
Moves == {"publish", "cancel", "approve", "reject"}
Kinds == Moves \cup {"update", "create", "create_category"}

\* Types; only a session that ran its UPDATE holds the row it changes, and every
\* event is in a category that exists.
TypeOK ==
  /\ state \in [EventIds -> EventState \cup {"none"}]
  /\ category \in [EventIds -> CategoryIds \cup {NoCategory}]
  /\ parent \in [CategoryIds -> CategoryIds \cup {NoCategory}]
  /\ exists \subseteq CategoryIds
  /\ rowLock \in [EventIds -> Sessions \cup {NoSession}]
  /\ kind \in [Sessions -> Kinds \cup {"none"}]
  /\ target \in [Sessions -> EventIds \cup {NoEvent}]
  /\ place \in [Sessions -> CategoryIds \cup {NoCategory}]
  /\ pc \in [Sessions -> {"idle", "query", "commit", "reread", "events", "insert"}]
  /\ told \subseteq Moves \X EventIds
  \* a row is locked only between an UPDATE and its commit, by one session
  /\ \A e \in EventIds : rowLock[e] # NoSession =>
       pc[rowLock[e]] = "commit" /\ target[rowLock[e]] = e
  /\ \A e \in EventIds : IF state[e] = "none" THEN category[e] = NoCategory
                                             ELSE category[e] \in exists

-----------------------------------------------------------------------------
(* The guarded updates *)

\* the states in the WHERE clause of each operation
From(op) ==
  CASE op = "publish" -> {"draft"}
    [] op = "update"  -> {"draft"}
    [] op = "cancel"  -> {"draft", "on_moderation"}
    [] op \in {"approve", "reject"} -> {"on_moderation"}

\* the state it sets, and accepts as "already so" when it matched no row
To(op) ==
  CASE op = "publish" -> "on_moderation"
    [] op = "cancel"  -> "cancelled"
    [] op = "approve" -> "approved"
    [] op = "reject"  -> "rejected"

\* bug: a session goes back to the pool with its transaction open
Finish_KeepsLocks(s) ==
  /\ pc' = [pc EXCEPT ![s] = "idle"]
  /\ UNCHANGED <<rowLock, requestVars>>

\* the request is answered, its transaction is over
Finish(s) ==
  /\ pc' = [pc EXCEPT ![s] = "idle"]
  /\ rowLock' = [e \in EventIds |-> IF rowLock[e] = s THEN NoSession ELSE rowLock[e]]
  /\ UNCHANGED requestVars

\* what a request can name: a new event names a category, a new category its
\* parent or none, an edit the event and its new category.
Asks(op, e, c) ==
  CASE op \in Moves             -> e \in EventIds /\ c = NoCategory
    [] op = "update"            -> e \in EventIds /\ c \in CategoryIds
    [] op = "create"            -> e = NoEvent /\ c \in CategoryIds
    [] op = "create_category"   -> e = NoEvent

Request(s) ==
  /\ pc[s] = "idle"
  /\ \E op \in Kinds, e \in EventIds \cup {NoEvent}, c \in CategoryIds \cup {NoCategory} :
       /\ Asks(op, e, c)
       /\ kind' = [kind EXCEPT ![s] = op]
       /\ target' = [target EXCEPT ![s] = e]
       /\ place' = [place EXCEPT ![s] = c]
  /\ pc' = [pc EXCEPT ![s] = "query"]
  /\ UNCHANGED <<tableVars, rowLock, told>>

\* the check passed: on to the next statement
Continue(s, next) ==
  /\ pc' = [pc EXCEPT ![s] = next]
  /\ UNCHANGED <<rowLock, requestVars>>

IsUpdate(s) == pc[s] = "query" /\ kind[s] \in Moves \cup {"update"}

\* the row is found by the WHERE clause
Matches(s) == state[target[s]] \in From(kind[s])

\* bug: an edit reads the state first and writes the row at the end
Match_EditUnlocked(s) ==
  /\ IsUpdate(s) /\ Matches(s)
  /\ rowLock[target[s]] = NoSession
  /\ rowLock' = IF kind[s] = "update" THEN rowLock ELSE [rowLock EXCEPT ![target[s]] = s]
  /\ pc' = [pc EXCEPT ![s] = "commit"]
  /\ UNCHANGED <<tableVars, requestVars, told>>

\* ... and locked; an UPDATE that waited looks at the newest version again
Match(s) ==
  /\ IsUpdate(s) /\ Matches(s)
  /\ rowLock[target[s]] = NoSession
  /\ rowLock' = [rowLock EXCEPT ![target[s]] = s]
  /\ pc' = [pc EXCEPT ![s] = "commit"]
  /\ UNCHANGED <<tableVars, requestVars, told>>

Miss(s) ==
  /\ IsUpdate(s) /\ ~ Matches(s)
  /\ Continue(s, "reread")
  /\ UNCHANGED <<tableVars, told>>

CommitMove(s) ==
  /\ pc[s] = "commit" /\ kind[s] \in Moves
  /\ state' = [state EXCEPT ![target[s]] = To(kind[s])]
  /\ told' = told \cup {<<kind[s], target[s]>>}
  /\ Finish(s)
  /\ UNCHANGED <<category, parent, exists>>

\* update may set any column, category_id too: the foreign key wants an
\* existing category, nothing wants a leaf
CommitUpdate(s) ==
  /\ pc[s] = "commit" /\ kind[s] = "update"
  /\ category' = IF place[s] \in exists
                   THEN [category EXCEPT ![target[s]] = place[s]] ELSE category
  /\ Finish(s)
  /\ UNCHANGED <<state, parent, exists, told>>

\* bug: the second query only asks whether there is such an event
AlreadySo_Exists(s) == kind[s] \in Moves /\ state[target[s]] # "none"

\* the second query finds the event in the state the request wanted
AlreadySo(s) == kind[s] \in Moves /\ state[target[s]] = To(kind[s])

Reread(s) ==
  /\ pc[s] = "reread"
  /\ told' = IF AlreadySo(s) THEN told \cup {<<kind[s], target[s]>>} ELSE told
  /\ Finish(s)
  /\ UNCHANGED tableVars

\* a crash or an exception rolls the transaction back
Fail(s) ==
  /\ pc[s] # "idle"
  /\ Finish(s)
  /\ UNCHANGED <<tableVars, told>>

-----------------------------------------------------------------------------
(* The category tree *)

Children(c) == {d \in exists : parent[d] = c}
EventsIn(c) == {e \in EventIds : category[e] = c}

\* create: the filter children__has_no names no column and no operator of
\* the query builder, which drops it; what is left asks that the category
\* exists.
CheckCategory(s) ==
  /\ pc[s] = "query" /\ kind[s] = "create"
  /\ IF place[s] \in exists THEN Continue(s, "insert") ELSE Finish(s)
  /\ UNCHANGED <<tableVars, told>>

InsertEvent(s) ==
  /\ pc[s] = "insert" /\ kind[s] = "create"
  /\ \E e \in EventIds :
       /\ state[e] = "none"
       /\ state' = [state EXCEPT ![e] = "draft"]
       /\ category' = [category EXCEPT ![e] = place[s]]
  /\ Finish(s)
  /\ UNCHANGED <<parent, exists, told>>

\* create_category: the parent, if there is one, exists ...
CheckParent(s) ==
  /\ pc[s] = "query" /\ kind[s] = "create_category"
  /\ IF place[s] = NoCategory THEN Continue(s, "insert")
     ELSE IF place[s] \in exists THEN Continue(s, "events")
     ELSE Finish(s)
  /\ UNCHANGED <<tableVars, told>>

\* ... and has no events
CheckNoEvents(s) ==
  /\ pc[s] = "events"
  /\ IF EventsIn(place[s]) = {} THEN Continue(s, "insert") ELSE Finish(s)
  /\ UNCHANGED <<tableVars, told>>

\* the name is unique: a name already taken ends the request in an error
InsertCategory(s) ==
  /\ pc[s] = "insert" /\ kind[s] = "create_category"
  /\ \E c \in CategoryIds \ exists :
       /\ exists' = exists \cup {c}
       /\ parent' = [parent EXCEPT ![c] = place[s]]
  /\ Finish(s)
  /\ UNCHANGED <<state, category, told>>

\* bound: no row is left for what the request would insert
NoRowLeft(s) ==
  /\ pc[s] = "insert"
  /\ IF kind[s] = "create" THEN \A e \in EventIds : state[e] # "none"
                           ELSE exists = CategoryIds
  /\ Finish(s)
  /\ UNCHANGED <<tableVars, told>>

-----------------------------------------------------------------------------
Init ==
  /\ state = [e \in EventIds |-> "none"]
  /\ category = [e \in EventIds |-> NoCategory]
  /\ parent = [c \in CategoryIds |-> NoCategory]
  /\ exists = {}
  /\ rowLock = [e \in EventIds |-> NoSession]
  /\ kind = [s \in Sessions |-> "none"]
  /\ target = [s \in Sessions |-> NoEvent]
  /\ place = [s \in Sessions |-> NoCategory]
  /\ pc = [s \in Sessions |-> "idle"]
  /\ told = {}

Step(s) ==
  \/ Match(s) \/ Miss(s) \/ CommitMove(s) \/ CommitUpdate(s) \/ Reread(s)
  \/ CheckCategory(s) \/ InsertEvent(s)
  \/ CheckParent(s) \/ CheckNoEvents(s) \/ InsertCategory(s) \/ NoRowLeft(s)

Next == \E s \in Sessions : Request(s) \/ Step(s) \/ Fail(s)

Spec == Init /\ [][Next]_vars

\* A request that is being served goes on; waiters for a row are served in
\* turn (strong fairness).  Nobody has to send one, nothing has to fail.
FairSpec == Spec /\ \A s \in Sessions : SF_vars(Step(s))

-----------------------------------------------------------------------------
(* Properties *)

\* What a client was told stays true: a cancelled event stays cancelled, a
\* moderator's decision stands (so no two moderators are told opposite
\* outcomes), a published event never is a draft again.  The answer may come
\* from a second query that sees a later state than the UPDATE did.
AcknowledgedHolds ==
  \A e \in EventIds :
    /\ \A op \in Moves \ {"publish"} : <<op, e>> \in told => state[e] = To(op)
    /\ <<"publish", e>> \in told => state[e] \notin {"none", "draft"}

Lifecycle == INSTANCE EventLifecycle

\* Guarded UPDATEs that wait for a row, second queries in a later snapshot,
\* rollbacks and edits beside a publication look like single steps along the
\* chart of an event's life (event/services.py 24-190).
ImplementsLifecycle == Lifecycle!LifecycleSpec

\* Every request is answered: two operations that wait for the same row
\* never keep each other out for ever.
EveryRequestEnds == \A s \in Sessions : pc[s] # "idle" ~> pc[s] = "idle"

\* Only leaves of the category tree hold events.
LeafOnly == \A c \in exists : Children(c) = {} \/ EventsIn(c) = {}

\* A category that has events gets no subcategory, as create_category checks
\* two statements before its INSERT (event/services.py 64-69).
SubcategoriesOfEmptyOnly ==
  [][\A c \in exists' \ exists :
       parent'[c] # NoCategory => EventsIn(parent'[c]) = {}]_vars
=============================================================================
