------------------------------ MODULE DataLayer ------------------------------
(***************************************************************************)
(* SQLAlchemyUnitOfWork and the statements the query builder makes, for    *)
(* the rows of one table (tickets) and its many-to-one relation "item".    *)
(* One unit of work serves one request, in blocks                          *)
(*     async with uow [.as_readonly()]: ...                                *)
(* one after the other or nested.  A statement a builder executes is named *)
(* by its filters; the columns it may compare are those the properties     *)
(* tell apart.  A writing session is a PostgreSQL transaction, a read-only *)
(* one is in AUTOCOMMIT.                                                   *)
(***************************************************************************)
EXTENDS Integers, Sequences, SequencesExt, FiniteSets

CONSTANTS
  Tickets, Items, Statuses,
  ItemOf,      \* item_id of a ticket
  OrderOf,     \* order_id of an item
  Queries,     \* what filter() was told: sets of [key, values, null]
  Nothing,
  MaxBlocks,   \* bound: nesting
  MaxWrites,   \* bound: statements that change something
  MaxFaults    \* bound: nested blocks that cannot be entered

ASSUME DataLayerAssumption ==
  /\ MaxBlocks \in Nat /\ MaxWrites \in Nat /\ MaxFaults \in Nat
  /\ Nothing \notin Tickets \cup Items \cup Statuses
  /\ IsFiniteSet(Tickets)
  /\ ItemOf \in [Tickets -> Items]  \* every ticket is made with its item

VARIABLES
  committed,  \* the table, for everybody else
  work,       \* the table as the session sees it
  session,    \* None, or which session maker made it
  readonly, depth, stack,  \* _is_readonly, _depth, _transaction_stack
  aborted,    \* PostgreSQL ignores statements until a rollback
  raising,    \* an exception is propagating
  blocks,     \* the blocks that were entered: work as each found it, and
              \* whether it was committed since
  leaked,     \* history: a nested block could not be entered
  writes, faults

uowVars == <<session, readonly, depth, stack>>
vars == <<committed, work, uowVars, aborted, raising, blocks, leaked, writes, faults>>

\* the status of each ticket that is there
Tables == [Tickets -> Statuses \cup {Nothing}]

\* Types; a session is there while blocks run, unless one could not be entered.
TypeOK ==
  /\ committed \in Tables /\ work \in Tables
  /\ session \in {"none", "write", "read"} /\ readonly \in BOOLEAN
  /\ depth \in Nat /\ aborted \in BOOLEAN /\ raising \in BOOLEAN
  /\ stack \in Seq([table : Tables, open : BOOLEAN])
  /\ blocks \in Seq([table : Tables, committed : BOOLEAN])
  /\ leaked \in BOOLEAN /\ writes \in 0..MaxWrites /\ faults \in 0..MaxFaults
  /\ ~leaked => (session = "none") = (blocks = <<>>)

Rows(T) == {t \in Tickets : T[t] # Nothing}

-----------------------------------------------------------------------------
(* The builder: filters and what they are compiled to *)

Operators == {"ne", "in"}  \* of those in OPERATORS; "eq" goes without saying
Columns == [ticket |-> {"id", "status", "item_id"}, item |-> {"id", "order_id"}]
Relations == {"item"}      \* of a ticket

\* The keyword arguments the services pass, [relation__]name[__operator], in
\* pieces; what a status is compared with is a status.
Keys(name) ==
  {<<name>>} \cup {<<name, op>> : op \in Operators}
  \cup {<<relation, name>> : relation \in Relations}
  \cup {<<relation, name, op>> : relation \in Relations, op \in Operators}
ASSUME FilterAssumption ==
  \A query \in Queries : \A f \in query :
    /\ \E name \in Range(f.key) \ (Operators \cup Relations) : f.key \in Keys(name)
    /\ f.key = <<"status">> => f.values \subseteq Statuses

\* filter(): a later argument of the same name replaces the earlier one
Filter(query, f) == {g \in query : g.key # f.key} \cup {f}

\* FilterResolver.resolve: an operator is what follows the first "__", all of it
Resolve(key) ==
  LET single == Len(key) = 2 /\ key[2] \in Operators
      path == IF single THEN <<key[1]>> ELSE key
      related == \E i \in 1..(Len(path) - 1) : path[i] \in Relations
  IN  [model |-> IF related THEN "item" ELSE "ticket", field |-> Last(path),
       op |-> IF single THEN key[2] ELSE "eq"]

\* bug: None is compared with
Conditions_None(query) ==
  { [at |-> Resolve(f.key), values |-> f.values] :
      f \in {g \in query : Resolve(g.key).field \in Columns[Resolve(g.key).model]} }

\* _prepare_filters: None and what is no column of the model are left out
Conditions(query) ==
  { [at |-> Resolve(f.key), values |-> f.values] :
      f \in {g \in query : ~g.null /\ Resolve(g.key).field \in Columns[Resolve(g.key).model]} }

Column(T, t, field) ==
  CASE field = "id" -> t [] field = "status" -> T[t] [] field = "item_id" -> ItemOf[t]
ItemColumn(i, field) == IF field = "id" THEN i ELSE OrderOf[i]

Test(c, value) == IF c.at.op = "ne" THEN value \notin c.values ELSE value \in c.values
Own == [query \in Queries |-> {c \in Conditions(query) : c.at.model = "ticket"}]
Related == [query \in Queries |-> Conditions(query) \ Own[query]]
MeetsOwn(T, query) ==
  {t \in Rows(T) : \A c \in Own[query] : Test(c, Column(T, t, c.at.field))}

\* apply_context_filters: the related rows are joined
Selected(T, query) ==
  {t \in MeetsOwn(T, query) : \A c \in Related[query] : Test(c, ItemColumn(ItemOf[t], c.at.field))}

\* bug: the subqueries are not correlated by the foreign key
Deleted_Exists(T, query) ==
  {t \in MeetsOwn(T, query) : \A c \in Related[query] : \E i \in Items : Test(c, ItemColumn(i, c.at.field))}

\* apply_modification_filters: one IN-subquery for each related condition
Deleted(T, query) ==
  {t \in MeetsOwn(T, query) :
     \A c \in Related[query] : ItemOf[t] \in {i \in Items : Test(c, ItemColumn(i, c.at.field))}}

\* update() takes the WHERE of the SELECT without its joins: any item will do
Updated(T, query) ==
  {t \in MeetsOwn(T, query) :
     \E i \in Items : \A c \in Related[query] : Test(c, ItemColumn(i, c.at.field))}

\* get(): of the repository, which takes both ValueErrors for None
Get(T, query) ==
  LET found == Selected(T, query) IN
  IF Cardinality(found) = 1 THEN CHOOSE t \in found : TRUE ELSE Nothing
Count(T, query) == Cardinality(Selected(T, query))
Exists(T, query) == Selected(T, query) # {}

\* the rows of one page, in an order that does not change between two calls
Slice(rows, offset, limit) ==
  [i \in 1..(IF Len(rows) - offset < limit THEN Len(rows) - offset ELSE limit) |-> rows[offset + i]]

\* paginate(): the total is a column of the rows, so an empty page has none
Paginate(T, query, offset, limit) ==
  LET page == Slice(SetToSeq(Selected(T, query)), offset, limit) IN
  [page |-> page, total |-> IF page = <<>> THEN 0 ELSE Count(T, query)]

-----------------------------------------------------------------------------
(* Blocks *)

Inside == ~raising /\ blocks # <<>>

Opens(mode) ==
  /\ session' = IF session # "none" THEN session ELSE IF mode THEN "read" ELSE "write"
  /\ work' = IF session # "none" THEN work ELSE committed
  /\ depth' = depth + 1 /\ readonly' = mode
Enters(T) ==
  /\ blocks' = Append(blocks, [table |-> T, committed |-> FALSE])
  /\ UNCHANGED <<committed, aborted, raising, leaked, writes, faults>>

\* uow.as_readonly() in a writing session, before __aenter__
ReadonlyRefused ==
  /\ Inside /\ session = "write" /\ ~readonly
  /\ raising' = TRUE
  /\ UNCHANGED <<committed, work, uowVars, aborted, blocks, leaked, writes, faults>>

\* the mode of "async with uow", with or without as_readonly()
Mode(asked) == asked \/ readonly

EnterFlat(asked) ==
  /\ ~raising /\ Len(blocks) < MaxBlocks
  /\ asked => session = "none" \/ readonly
  /\ depth = 0 \/ Mode(asked)
  /\ Opens(Mode(asked)) /\ Enters(work')
  /\ UNCHANGED stack

\* begin_nested
EnterNested ==
  /\ ~raising /\ Len(blocks) < MaxBlocks
  /\ depth > 0 /\ ~readonly /\ ~aborted
  /\ Opens(FALSE) /\ Enters(work')
  /\ stack' = Append(stack, [table |-> work, open |-> TRUE])

\* SAVEPOINT fails or is cancelled, as it always is refused in an aborted
\* transaction, when the depth has been counted already
EnterFails ==
  /\ ~raising /\ depth > 0 /\ ~readonly
  /\ faults < MaxFaults /\ faults' = faults + 1
  /\ Opens(FALSE)
  /\ raising' = TRUE /\ leaked' = TRUE
  /\ UNCHANGED <<committed, stack, aborted, blocks, writes>>

Leaves == blocks' = Front(blocks)

\* bug: an exception in a nested block does not roll back
ExitNested_Commits ==
  /\ blocks # <<>> /\ depth > 1 /\ ~readonly /\ stack # <<>> /\ Leaves
  /\ depth' = depth - 1 /\ stack' = Front(stack)
  /\ raising' = (raising \/ ~Last(stack).open)
  /\ UNCHANGED <<committed, work, session, readonly, aborted, leaked, writes, faults>>

\* __aexit__ of a nested block of a writing session: the savepoint is rolled
\* back or released, unless a commit has closed it
ExitNested ==
  /\ blocks # <<>> /\ depth > 1 /\ ~readonly /\ stack # <<>> /\ Leaves
  /\ depth' = depth - 1 /\ stack' = Front(stack)
  /\ IF ~Last(stack).open THEN raising' = TRUE /\ UNCHANGED <<work, aborted>>
     ELSE IF raising     THEN work' = Last(stack).table /\ aborted' = FALSE /\ UNCHANGED raising
     ELSE raising' = aborted /\ UNCHANGED <<work, aborted>>
  /\ UNCHANGED <<committed, session, readonly, leaked, writes, faults>>

\* ... when a failed enter has left the depth one too high
ExitUnmatched ==
  /\ blocks # <<>> /\ depth > 1 /\ ~readonly /\ stack = <<>> /\ Leaves
  /\ depth' = depth - 1 /\ raising' = TRUE
  /\ UNCHANGED <<committed, work, session, readonly, stack, aborted, leaked, writes, faults>>

ExitReadonly ==
  /\ blocks # <<>> /\ depth > 1 /\ readonly /\ Leaves
  /\ depth' = depth - 1
  /\ UNCHANGED <<committed, work, session, readonly, stack, aborted, raising, leaked, writes, faults>>

\* bug: the session is closed and kept
ExitOuter_KeepsSession ==
  /\ blocks # <<>> /\ depth = 1 /\ Leaves
  /\ depth' = 0 /\ readonly' = FALSE /\ work' = committed /\ aborted' = FALSE
  /\ UNCHANGED <<committed, session, stack, raising, leaked, writes, faults>>

\* bug: the mode is kept for the next block
ExitOuter_KeepsMode ==
  /\ blocks # <<>> /\ depth = 1 /\ Leaves
  /\ depth' = 0 /\ session' = "none" /\ work' = committed /\ aborted' = FALSE
  /\ UNCHANGED <<committed, readonly, stack, raising, leaked, writes, faults>>

\* __aexit__ of the outermost block: with or without exception, what was not
\* committed is gone when the session is closed
ExitOuter ==
  /\ blocks # <<>> /\ depth = 1 /\ Leaves
  /\ depth' = 0 /\ session' = "none" /\ readonly' = FALSE
  /\ work' = committed /\ aborted' = FALSE
  /\ UNCHANGED <<committed, stack, raising, leaked, writes, faults>>

\* commit(): of the whole transaction, in whatever block; of an aborted one
\* PostgreSQL makes a rollback and does not complain
Commit ==
  /\ Inside
  /\ IF readonly THEN raising' = TRUE /\ UNCHANGED <<committed, work, stack, aborted, blocks>>
     ELSE /\ committed' = IF aborted THEN committed ELSE work
          /\ work' = committed' /\ aborted' = FALSE
          /\ stack' = [i \in DOMAIN stack |-> [stack[i] EXCEPT !.open = FALSE]]
          /\ blocks' = [i \in DOMAIN blocks |-> [blocks[i] EXCEPT !.committed = TRUE]]
          /\ UNCHANGED raising
  /\ UNCHANGED <<session, readonly, depth, leaked, writes, faults>>

-----------------------------------------------------------------------------
(* Statements *)

\* in AUTOCOMMIT a statement is committed at once; nothing keeps it from writing
Writes(T) ==
  /\ Inside /\ ~aborted
  /\ writes < MaxWrites /\ writes' = writes + 1
  /\ work' = T
  /\ committed' = IF session = "read" THEN T ELSE committed
  /\ UNCHANGED <<uowVars, aborted, raising, blocks, leaked, faults>>

\* a violated constraint, or any statement in an aborted transaction
StatementFails ==
  /\ Inside /\ raising' = TRUE
  /\ aborted' = (session = "write")
  /\ UNCHANGED <<committed, work, uowVars, blocks, leaked, writes, faults>>

\* delete() of a builder that has gone through a relation forgets the filters of
\* the parent, so this is one of its own
Delete(query) ==
  /\ Deleted(work, query) # {}
  /\ Writes([t \in Tickets |-> IF t \in Deleted(work, query) THEN Nothing ELSE work[t]])

Update(query, status) ==
  /\ Updated(work, query) # {}
  /\ Writes([t \in Tickets |->
              IF t \in Updated(work, query) THEN status ELSE work[t]])

\* create() of a row: what it does not say it takes from the filters that are
\* plain names
Filled(query, given) ==
  IF given # Nothing THEN {given}
  ELSE UNION {f.values : f \in {g \in query : g.key = <<"status">> /\ ~g.null}}

Create(query, t, given) ==
  /\ work[t] = Nothing
  /\ \E status \in Filled(query, given) : Writes([work EXCEPT ![t] = status])

\* an exception of the service itself; or get, update and create of a builder
\* that has gone through a relation: it refers to _build_final_criteria, which
\* is not there, and takes a pair for a SELECT
Raise ==
  /\ Inside /\ raising' = TRUE
  /\ UNCHANGED <<committed, work, uowVars, aborted, blocks, leaked, writes, faults>>

\* a handler in the block where it was raised or around it
Catch ==
  /\ raising /\ raising' = FALSE
  /\ UNCHANGED <<committed, work, uowVars, aborted, blocks, leaked, writes, faults>>

\* the next request has a unit of work of its own
NextRequest ==
  /\ blocks = <<>> /\ leaked
  /\ session' = "none" /\ readonly' = FALSE /\ depth' = 0 /\ stack' = <<>>
  /\ work' = committed /\ aborted' = FALSE /\ raising' = FALSE /\ leaked' = FALSE
  /\ UNCHANGED <<committed, blocks, writes, faults>>

-----------------------------------------------------------------------------

Init ==
  /\ committed \in Tables /\ work = committed
  /\ session = "none" /\ readonly = FALSE /\ depth = 0 /\ stack = <<>>
  /\ aborted = FALSE /\ raising = FALSE /\ blocks = <<>> /\ leaked = FALSE
  /\ writes = 0 /\ faults = 0

Block ==
  \/ \E asked \in BOOLEAN : EnterFlat(asked)
  \/ ReadonlyRefused \/ EnterNested \/ EnterFails
  \/ ExitNested \/ ExitUnmatched \/ ExitReadonly \/ ExitOuter \/ Commit
Statement ==
  \/ \E query \in Queries : Delete(query) \/ (\E v \in Statuses : Update(query, v))
  \/ \E query \in Queries, t \in Tickets, given \in Statuses \cup {Nothing} : Create(query, t, given)
  \/ StatementFails
Next == Block \/ Statement \/ Raise \/ Catch \/ NextRequest

Spec == Init /\ [][Next]_vars

-----------------------------------------------------------------------------

\* The counters agree with the blocks that run, so that the last one closes the
\* session and the next one chooses its mode freely, as long as no nested block
\* failed to start: that one is counted and never left (sql_alchemy.py 53-92).
BookkeepingFollowsBlocks ==
  ~leaked =>
    /\ depth = Len(blocks)
    /\ session = "none" => ~readonly
    /\ session # "none" => readonly = (session = "read")
    /\ Len(stack) = IF readonly \/ depth = 0 THEN 0 ELSE depth - 1

\* A block of a writing session that ends with an exception leaves the table as
\* it found it, also what blocks inside it did that ended well, unless somebody
\* committed in it or PostgreSQL has given the whole transaction up (sql_alchemy.py 73-92, 115-119).
FailedBlockIsUndone ==
  [][ Len(blocks') < Len(blocks) /\ raising' /\ session = "write" /\ ~leaked =>
        Last(blocks).committed \/ aborted' \/ work' = Last(blocks).table ]_vars

\* What a filter says, by the convention relation__name__operator.
Path(key) == IF Last(key) \in Operators THEN Front(key) ELSE key
Known(f) ==
  LET path == Path(f.key) IN
  IF Len(path) = 2 THEN path[2] \in Columns.item ELSE path[1] \in Columns.ticket
Meant(f, t) ==
  LET path == Path(f.key)
      value == IF Len(path) = 2 THEN ItemColumn(ItemOf[t], path[2]) ELSE Column(work, t, path[1])
  IN  IF Last(f.key) = "ne" THEN value \notin f.values ELSE value \in f.values

\* A filter that is not understood only widens what a query finds, and that
\* happens only to a relation together with an operator, to None and to a name
\* that is no column (resolver.py 12-32, applier.py 22-41).
DroppedFiltersWiden ==
  \A query \in Queries :
    LET clear == {f \in query : ~f.null /\ Known(f)}
        meant == {t \in Rows(work) : \A f \in clear : Meant(f, t)}
    IN  /\ meant \subseteq Selected(work, query)
        /\ (\A f \in clear : Len(f.key) < 3) => Selected(work, query) = meant

\* For the same filters every statement is about the rows that all() returns:
\* delete() hits them, and update() too if no filter goes through a relation and
\* never less; get() finds the only one; the pages show each of them, and a page
\* that is not empty has their number for its total
\* (filters/applier.py 45-132, mutation.py 105-116, read.py 28-124).
EveryStatementMeansTheSameRows ==
  \A query \in Queries :
    LET all == Selected(work, query)
        Page(n) == Paginate(work, query, n, 1)
    IN  /\ Deleted(work, query) = all
        /\ all \subseteq Updated(work, query)
        /\ Related[query] = {} => Updated(work, query) = all
        /\ Exists(work, query) = (Count(work, query) > 0)
        /\ Get(work, query) # Nothing <=> Count(work, query) = 1
        /\ \A n \in 0..Cardinality(Tickets) :
             Page(n).total = IF n < Cardinality(all) THEN Cardinality(all) ELSE 0
        /\ UNION {Range(Page(n).page) : n \in 0..Cardinality(Tickets)} = all
=============================================================================
