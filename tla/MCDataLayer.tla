----------------------------- MODULE MCDataLayer -----------------------------
(* DataLayer for TLC: two tickets of items of two orders. *)
EXTENDS DataLayer

CONSTANTS t1, t2, i1, i2, o1, o2, held, paid, red

MCItemOf == [t \in Tickets |-> IF t = t1 THEN i1 ELSE i2]
MCOrderOf == [i \in Items |-> IF i = i1 THEN o1 ELSE o2]

Says(key, values) == [key |-> key, values |-> values, null |-> FALSE]

ByStatus == Says(<<"status">>, {held})
ByOrder == Says(<<"item", "order_id">>, {o1})

\* alone and together: columns, operators, a relation, and what is dropped
MCQueries ==
  { {}, {ByStatus}, {ByOrder}, {ByOrder, Says(<<"status", "ne">>, {held})},
    {Says(<<"id", "in">>, {t1}), ByStatus}, {Says(<<"item_id">>, {i1})},
    {Says(<<"item", "id">>, {i2}), ByOrder},
    {Says(<<"item", "order_id", "in">>, {o2}), ByStatus},
    {Says(<<"colour">>, {red})}, {Says(<<"item", "colour">>, {red}), ByStatus}, {[ByStatus EXCEPT !.null = TRUE]},
    Filter({ByOrder, ByStatus}, Says(<<"status">>, {paid})) }
=============================================================================
