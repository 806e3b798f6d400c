----------------------------- MODULE ViewCounts -----------------------------
(***************************************************************************)
(* The view counters: ViewableServiceMixin, the Kafka topic                *)
(* view_logs_queue and the worker that fills the table view_logs.          *)
(*                                                                         *)
(* A view passes three stores: a HyperLogLog per object that filters       *)
(* repeated visitors, a counter per object that is shown, and the log      *)
(* table, unique per visitor, from which a missing counter is refilled.    *)
(* Nothing ties the three together but the order of the awaits; both Redis *)
(* keys have a TTL that not every path sets.                               *)
(***************************************************************************)
EXTENDS Naturals, FiniteSets

CONSTANTS
  Objects, Visitors,
  Requests,    \* calls of increment_views
  Readers,     \* calls of get_views
  NoReader, Abandoned,  \* lock free; lock taken, its owner gone
  MaxBatch,    \* max_records of the subscriber
  MaxFaults,   \* bound: Redis failures, crashes, HyperLogLog collisions
  MaxExpiries  \* bound: keys whose TTL runs out

ASSUME ViewCountsAssumption ==
  /\ IsFiniteSet(Objects) /\ IsFiniteSet(Visitors) /\ IsFiniteSet(Requests)
  /\ NoReader \notin Readers \cup {Abandoned} /\ Abandoned \notin Readers
  /\ MaxBatch \in Nat /\ MaxFaults \in Nat /\ MaxExpiries \in Nat

VARIABLES
  hll,       \* views:<model>:<id>:daily_hll, the visitors it takes for known
  hllTtl,    \* the keys that have a TTL
  counter,   \* views:<model>:<id>
  queue,     \* messages in the topic
  batch,     \* messages handed to handle_view_logs
  logs,      \* rows of view_logs
  pc, visitor, ids, unique,       \* a registering request
  rpc, single, missing, counted,  \* a get_views call
  lock,      \* holder of lock:views:<model>:<id>
  answered,  \* history: views a client was told are registered (202)
  forgotten, \* history: views dropped between two stores
  newViews,  \* history: how often a view of the object passed for a new one
  faults, expiries

redisVars == <<hll, hllTtl, counter>>
kafkaVars == <<queue, batch, logs>>
requestVars == <<pc, visitor, ids, unique>>
readerVars == <<rpc, single, missing, counted, lock>>
historyVars == <<answered, forgotten, newViews>>
vars == <<redisVars, kafkaVars, requestVars, readerVars, historyVars, faults, expiries>>

NoCounter == [views |-> 0, ttl |-> FALSE, set |-> FALSE]
Counter(n, ttl) == [views |-> n, ttl |-> ttl, set |-> TRUE]
Pairs(objects, v) == objects \X {v}

\* the payload of a message
Message == [ids : (SUBSET Objects) \ {{}}, visitor : Visitors]
Payload(objects, v) == [ids |-> objects, visitor |-> v]
Flat(messages) == UNION {Pairs(m.ids, m.visitor) : m \in messages}

\* Types; a reader past the lock holds it, unless it ran out, and nobody else does.
TypeOK ==
  /\ hll \in [Objects -> SUBSET Visitors] /\ hllTtl \subseteq Objects
  /\ counter \in [Objects -> [views : Nat, ttl : BOOLEAN, set : BOOLEAN]]
  /\ queue \subseteq Message /\ batch \subseteq queue /\ Cardinality(batch) <= MaxBatch
  /\ logs \subseteq Objects \X Visitors
  /\ pc \in [Requests -> {"pfadd", "incr", "send", "done"}]
  /\ visitor \in [Requests -> Visitors]
  /\ ids \in [Requests -> SUBSET Objects]
  /\ unique \in [Requests -> SUBSET Objects]
  /\ \A r \in Requests : unique[r] \subseteq ids[r] /\ (unique[r] # {} <=> pc[r] \in {"incr", "send"})
  /\ rpc \in [Readers -> {"get", "lock", "again", "count", "direct", "set", "done"}]
  /\ single \in [Readers -> BOOLEAN] /\ missing \in [Readers -> SUBSET Objects]
  /\ counted \in [Readers -> [Objects -> Nat]]
  /\ lock \in [Objects -> Readers \cup {NoReader, Abandoned}]
  /\ answered \cup forgotten \subseteq Objects \X Visitors /\ newViews \in [Objects -> Nat]
  /\ faults \in 0..MaxFaults /\ expiries \in 0..MaxExpiries
  /\ \A o \in Objects : lock[o] \in Readers =>
       single[lock[o]] /\ rpc[lock[o]] \in {"again", "count", "set"} /\ missing[lock[o]] = {o}

-----------------------------------------------------------------------------
(* increment_views *)

Fault == faults < MaxFaults /\ faults' = faults + 1
Goto(r, next, objects) ==
  /\ pc' = [pc EXCEPT ![r] = next]
  /\ unique' = [unique EXCEPT ![r] = objects]
  /\ UNCHANGED visitor
Sets(r, objects) == ids' = [ids EXCEPT ![r] = objects]
AsNew(objects) ==
  newViews' = [o \in Objects |-> IF o \in objects THEN newViews[o] + 1 ELSE newViews[o]]
Known(r, objects) == [o \in Objects |-> IF o \in objects THEN hll[o] \cup {visitor[r]} ELSE hll[o]]
New(r, objects) == {o \in objects : visitor[r] \notin hll[o]}
Answer(r, objects) == answered' = answered \cup Pairs(objects, visitor[r])

\* HyperLogLog estimates: it may take a new visitor for one it has seen.
PfAdd(r) ==
  /\ pc[r] = "pfadd"
  /\ \E objects \in (SUBSET Objects) \ {{}} :
       \E found \in SUBSET New(r, objects) :
         /\ IF found = New(r, objects) THEN UNCHANGED faults ELSE Fault
         /\ IF found = {} THEN Goto(r, "done", {}) /\ Answer(r, objects) /\ UNCHANGED ids
                          ELSE Goto(r, "incr", found) /\ Sets(r, objects) /\ UNCHANGED answered
         /\ AsNew(found)
         /\ forgotten' = forgotten \cup Pairs(New(r, objects) \ found, visitor[r])
         /\ hll' = Known(r, objects)
  /\ UNCHANGED <<hllTtl, counter, kafkaVars, readerVars, expiries>>

\* CacheUnavailableError: every view is sent.  The command may have been carried out.
PfAddFails(r) ==
  /\ pc[r] = "pfadd" /\ Fault
  /\ \E objects \in (SUBSET Objects) \ {{}} :
       /\ hll' \in {hll, Known(r, objects)}
       /\ Goto(r, "send", objects) /\ Sets(r, objects)
       /\ AsNew(objects)
  /\ UNCHANGED <<hllTtl, counter, kafkaVars, readerVars, answered, forgotten, expiries>>

\* INCR keeps the TTL of the key and makes a missing one without TTL.
Incremented(objects) ==
  [o \in Objects |-> IF o \in objects THEN Counter(counter[o].views + 1, counter[o].ttl)
                                      ELSE counter[o]]

Incr(r) ==
  /\ pc[r] = "incr"
  /\ counter' = Incremented(unique[r])
  /\ hllTtl' = hllTtl \cup unique[r]
  /\ Goto(r, "send", unique[r]) /\ UNCHANGED ids
  /\ UNCHANGED <<hll, kafkaVars, readerVars, historyVars, faults, expiries>>

\* bug: a failing counter loses the request
IncrFails_GivesUp(r) ==
  /\ pc[r] = "incr" /\ Fault
  /\ Goto(r, "done", {}) /\ Sets(r, {}) /\ Answer(r, ids[r])
  /\ UNCHANGED <<redisVars, kafkaVars, readerVars, forgotten, newViews, expiries>>

\* again every view is sent, the known ones too
IncrFails(r) ==
  /\ pc[r] = "incr" /\ Fault
  /\ \E done \in SUBSET unique[r] : counter' = Incremented(done)
  /\ hllTtl' \in {hllTtl, hllTtl \cup unique[r]}
  /\ Goto(r, "send", ids[r]) /\ UNCHANGED ids
  /\ AsNew(ids[r] \ unique[r])
  /\ UNCHANGED <<hll, kafkaVars, readerVars, answered, forgotten, expiries>>

Send(r) ==
  /\ pc[r] = "send"
  /\ queue' = queue \cup {Payload(unique[r], visitor[r])}
  /\ Goto(r, "done", {}) /\ Sets(r, {}) /\ Answer(r, ids[r])
  /\ UNCHANGED <<redisVars, batch, logs, readerVars, forgotten, newViews, faults, expiries>>

\* bug: the message is sent before the counter is incremented
SendFirst(r) ==
  /\ pc[r] = "incr"
  /\ queue' = queue \cup {Payload(unique[r], visitor[r])}
  /\ pc' = [pc EXCEPT ![r] = "send"]
  /\ UNCHANGED <<redisVars, batch, logs, visitor, ids, unique, readerVars, historyVars, faults, expiries>>

IncrLast(r) ==
  /\ pc[r] = "send"
  /\ counter' = Incremented(unique[r])
  /\ Goto(r, "done", {}) /\ Sets(r, {}) /\ Answer(r, ids[r])
  /\ UNCHANGED <<hll, hllTtl, kafkaVars, readerVars, forgotten, newViews, faults, expiries>>

\* the process dies, or Kafka does not take the message and the client gets a 500
Die(r) ==
  /\ pc[r] \in {"incr", "send"} /\ Fault
  /\ forgotten' = forgotten \cup Pairs(unique[r], visitor[r])
  /\ Goto(r, "done", {}) /\ Sets(r, {})
  /\ UNCHANGED <<redisVars, kafkaVars, readerVars, answered, newViews, expiries>>

RequestStep_SendFirst(r) == PfAdd(r) \/ PfAddFails(r) \/ SendFirst(r) \/ IncrLast(r)
RequestStep(r) == PfAdd(r) \/ PfAddFails(r) \/ Incr(r) \/ IncrFails(r) \/ Send(r) \/ Die(r)

-----------------------------------------------------------------------------
(* handle_view_logs: one consumer, batches of messages *)

TakeBatch ==
  /\ batch = {}
  /\ batch' \in {b \in SUBSET queue : b # {} /\ Cardinality(b) <= MaxBatch}
  /\ UNCHANGED <<redisVars, queue, logs, requestVars, readerVars, historyVars, faults, expiries>>

Handled(rows, left) ==
  /\ batch # {} /\ batch' = {}
  /\ logs' = logs \cup rows
  /\ queue' = left
  /\ UNCHANGED <<redisVars, requestVars, readerVars, answered, newViews, expiries>>

InsertBatch == Handled(Flat(batch), queue \ batch) /\ UNCHANGED <<forgotten, faults>>

\* bug: the handler swallows the exception, with it the batch
Redeliver_Swallows == Handled({}, queue \ batch) /\ Fault /\ UNCHANGED forgotten

\* the handler raises, or the worker dies before or after its commit: the
\* offset is not stored and the batch is read again
Redeliver == Handled({}, queue) /\ Fault /\ UNCHANGED forgotten
InsertTwice == Handled(Flat(batch), queue) /\ Fault /\ UNCHANGED forgotten

\* the offset was stored ahead of the insertion
SkipBatch ==
  /\ Handled({}, queue \ batch) /\ Fault
  /\ forgotten' = forgotten \cup Flat(batch)

Worker == TakeBatch \/ InsertBatch \/ Redeliver \/ InsertTwice \/ SkipBatch

-----------------------------------------------------------------------------
(* get_views *)

Logged(o) == Cardinality({v \in Visitors : <<o, v>> \in logs})
Shows(o) == counter[o].set
None == [o \in Objects |-> 0]
At(d, next, objects, one, counts) ==
  /\ rpc' = [rpc EXCEPT ![d] = next]
  /\ missing' = [missing EXCEPT ![d] = objects]
  /\ single' = [single EXCEPT ![d] = one]
  /\ counted' = [counted EXCEPT ![d] = counts]
Moves(d, next) == At(d, next, missing[d], single[d], counted[d])
Ends(d) == At(d, "done", {}, FALSE, None)
\* bug: the lock is never released
Handover_Keeps(d, heir) == lock' = lock
Handover(d, heir) == lock' = [o \in Objects |-> IF lock[o] = d THEN heir ELSE lock[o]]
ReaderOnly == UNCHANGED <<hll, hllTtl, kafkaVars, requestVars, historyVars, expiries>>
Asked == {call \in ((SUBSET Objects) \ {{}}) \X BOOLEAN : call[2] => Cardinality(call[1]) = 1}
Absent(objects) == {o \in objects : ~Shows(o)}

\* GET or MGET
Get(d) ==
  /\ rpc[d] = "get"
  /\ \E call \in Asked :
       \/ Absent(call[1]) = {} /\ Ends(d)
       \/ Absent(call[1]) # {} /\ At(d, IF call[2] THEN "lock" ELSE "count", Absent(call[1]), call[2], None)
  /\ ReaderOnly /\ UNCHANGED <<counter, lock, faults>>

GetFails(d) ==
  /\ rpc[d] = "get" /\ Fault
  /\ \E call \in Asked : At(d, IF call[2] THEN "lock" ELSE "direct", call[1], call[2], None)
  /\ ReaderOnly /\ UNCHANGED <<counter, lock>>

\* cache.lock(timeout=5.0, blocking_timeout=3.0); without it a TimeoutError, which nobody catches
Acquire(d) ==
  /\ rpc[d] = "lock" /\ Moves(d, "again")
  /\ \A o \in missing[d] : lock[o] = NoReader
  /\ lock' = [o \in Objects |-> IF o \in missing[d] THEN d ELSE lock[o]]
  /\ ReaderOnly /\ UNCHANGED <<counter, faults>>

TimesOut_Waits(d) == FALSE  \* bug: no blocking_timeout

TimesOut(d) ==
  /\ rpc[d] = "lock" /\ Ends(d)
  /\ \E o \in missing[d] : lock[o] # NoReader
  /\ ReaderOnly /\ UNCHANGED <<counter, lock, faults>>

AcquireFails(d) ==
  /\ rpc[d] = "lock" /\ Fault /\ Moves(d, "direct")
  /\ lock' \in {lock, [o \in Objects |-> IF o \in missing[d] /\ lock[o] = NoReader
                                         THEN Abandoned ELSE lock[o]]}
  /\ ReaderOnly /\ UNCHANGED counter

Again(d) ==
  /\ rpc[d] = "again"
  /\ \/ Absent(missing[d]) = {} /\ Ends(d) /\ Handover(d, NoReader)
     \/ Absent(missing[d]) # {} /\ Moves(d, "count") /\ UNCHANGED lock
  /\ ReaderOnly /\ UNCHANGED <<counter, faults>>

\* A command under the lock fails.  Its CacheUnavailableError leads to the plain
\* query, unless the release fails too: then that error, caught nowhere, wins.
LockedFails(d) ==
  /\ single[d] /\ Fault
  /\ \/ Moves(d, "direct") /\ Handover(d, NoReader)
     \/ Ends(d) /\ Handover(d, Abandoned)

AgainFails(d) ==
  /\ rpc[d] = "again" /\ LockedFails(d)
  /\ ReaderOnly /\ UNCHANGED counter

Count(d) ==
  /\ rpc[d] = "count"
  /\ At(d, "set", missing[d], single[d], [o \in Objects |-> IF o \in missing[d] THEN Logged(o) ELSE 0])
  /\ ReaderOnly /\ UNCHANGED <<counter, lock, faults>>

\* SET EX 86400, whatever the counter is by now
Filled(d, objects) ==
  [o \in Objects |-> IF o \in objects THEN Counter(counted[d][o], TRUE) ELSE counter[o]]

Set(d) ==
  /\ rpc[d] = "set" /\ Ends(d)
  /\ counter' = Filled(d, missing[d])
  /\ \/ Handover(d, NoReader) /\ UNCHANGED faults
     \/ single[d] /\ Handover(d, Abandoned) /\ Fault
  /\ ReaderOnly

SetFails(d) ==
  /\ rpc[d] = "set"
  /\ \E done \in SUBSET missing[d] : counter' = Filled(d, done)
  /\ \/ LockedFails(d)
     \/ ~single[d] /\ Fault /\ Ends(d) /\ UNCHANGED lock
  /\ ReaderOnly

Direct(d) ==
  /\ rpc[d] = "direct" /\ Ends(d)
  /\ ReaderOnly /\ UNCHANGED <<counter, lock, faults>>

ReaderStep(d) ==
  \/ Get(d) \/ GetFails(d) \/ Acquire(d) \/ TimesOut(d) \/ AcquireFails(d) \/ Again(d)
  \/ AgainFails(d) \/ Count(d) \/ Set(d) \/ SetFails(d) \/ Direct(d)

-----------------------------------------------------------------------------
(* keys that run out *)

Expires ==
  /\ expiries < MaxExpiries /\ expiries' = expiries + 1
  /\ UNCHANGED <<kafkaVars, requestVars, rpc, single, missing, counted, historyVars, faults>>

HllExpires(o) ==
  /\ o \in hllTtl /\ Expires
  /\ hllTtl' = hllTtl \ {o}
  /\ hll' = [hll EXCEPT ![o] = {}]
  /\ UNCHANGED <<counter, lock>>

CounterExpires(o) ==
  /\ Shows(o) /\ counter[o].ttl /\ Expires
  /\ counter' = [counter EXCEPT ![o] = NoCounter]
  /\ UNCHANGED <<hll, hllTtl, lock>>

\* five seconds, also under a slow holder
LockExpires(o) ==
  /\ lock[o] # NoReader
  /\ lock' = [lock EXCEPT ![o] = NoReader]
  /\ UNCHANGED <<redisVars, kafkaVars, requestVars, rpc, single, missing, counted, historyVars,
                 faults, expiries>>

-----------------------------------------------------------------------------

\* an earlier reader left a lock, which may run out at once
Init ==
  /\ hll = [o \in Objects |-> {}] /\ hllTtl = {}
  /\ counter = [o \in Objects |-> NoCounter]
  /\ queue = {} /\ batch = {} /\ logs = {}
  /\ pc = [r \in Requests |-> "pfadd"] /\ visitor \in [Requests -> Visitors]
  /\ ids = [r \in Requests |-> {}] /\ unique = [r \in Requests |-> {}]
  /\ rpc = [d \in Readers |-> "get"] /\ single = [d \in Readers |-> FALSE]
  /\ missing = [d \in Readers |-> {}] /\ counted = [d \in Readers |-> None]
  /\ lock \in {l \in [Objects -> {NoReader, Abandoned}] :
                Cardinality({o \in Objects : l[o] = Abandoned}) = 1}
  /\ answered = {} /\ forgotten = {} /\ newViews = [o \in Objects |-> 0]
  /\ faults = 0 /\ expiries = 0

Next ==
  \/ \E r \in Requests : RequestStep(r)
  \/ Worker
  \/ \E d \in Readers : ReaderStep(d)
  \/ \E o \in Objects : HllExpires(o) \/ CounterExpires(o) \/ LockExpires(o)

Spec == Init /\ [][Next]_vars

\* A handler runs until it ends (asyncio), the worker polls its topic for ever.
FairSpec ==
  /\ Spec
  /\ \A d \in Readers : WF_vars(ReaderStep(d))
  /\ WF_vars(TakeBatch \/ InsertBatch)

-----------------------------------------------------------------------------

InFlight == UNION {Pairs(unique[r], visitor[r]) : r \in Requests}
KnownViews == {p \in Objects \X Visitors : p[2] \in hll[p[1]]}
Kept == logs \cup Flat(queue) \cup InFlight \cup forgotten

\* A view a client was told about, and one the HyperLogLog will not let pass
\* again, is in the table, in the topic, in a request, or was dropped in one of
\* the ways that lose views: a crash before the send, a false positive of the
\* HyperLogLog, a batch skipped by the consumer (mixins.py 145-192).
VisitIsKept == answered \cup KnownViews \subseteq Kept

\* The counter never shows more views than ever passed for new ones, whatever
\* the races of increments and refills and the redeliveries do: INCR goes
\* before the message, so a refill never counts a view that is still to be
\* incremented (mixins.py 158-170, 104-114).
NoDoubleCount == \A o \in Objects : counter[o].views <= newViews[o]

\* What is in the topic reaches the table or is skipped with its batch
\* (consumers.py 29-34).
EventuallyLogged ==
  \A p \in Objects \X Visitors : p \in Flat(queue) ~> p \in logs \cup forgotten

\* A read ends, also behind a lock nobody will release (mixins.py 97-127).
EveryReadEnds == \A d \in Readers : <>(rpc[d] = "done")
=============================================================================
