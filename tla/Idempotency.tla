---------------------------- MODULE Idempotency ----------------------------
(***************************************************************************)
(* The decorator idempotent_endpoint around POST /orders (it also wraps    *)
(* PATCH /orders/{id}/pay, whose endpoint is harmless to repeat).  Calls   *)
(* with the same Idempotency-Key look up a stored answer, else take a      *)
(* Redis lock, look again, run the endpoint, store a 2xx answer and        *)
(* release the lock.                                                       *)
(*                                                                         *)
(* Two except clauses decide what a failure means: CacheUnavailableError   *)
(* is answered 503; every other exception makes the wrapper run the        *)
(* endpoint (again), now without the lock.  Among the others are           *)
(*   - the TimeoutError of a lock not obtained within 0.1 s,               *)
(*   - an exception of the endpoint itself, such as a refused order or     *)
(*     any error after its commit that is not a Redis error,               *)
(*   - a Redis error while the lock is released, which RedisCacheManager   *)
(*     does not convert.                                                   *)
(* Every Redis call is an await: calls interleave between any two.         *)
(***************************************************************************)
EXTENDS Naturals

CONSTANTS
  Calls,       \* HTTP requests, retries and duplicates included
  Keys,        \* idempotency keys
  KeyOf,       \* the key each call carries
  MaxFaults,   \* bound: failing Redis calls, errors after a commit, crashed processes
  MaxExpiries, \* bound: locks and answers whose TTL runs out
  NoCall       \* no lock holder, no stored answer

ASSUME IdempotencyAssumption ==
  /\ KeyOf \in [Calls -> Keys]
  /\ NoCall \notin Calls
  /\ MaxFaults \in Nat /\ MaxExpiries \in Nat

VARIABLES
  pc,       \* where each call is in the wrapper
  then,     \* what the call does once its lock is released
  code,     \* the answer the client gets
  lock,     \* holder of lock:idempotency:<key>
  cache,    \* idempotency:<key>, told apart by the call that stored it
  orders,   \* orders committed under each key
  made,     \* orders committed by each call
  slipped,  \* keys for which the protection was left (history)
  faults, expiries

vars == <<pc, then, code, lock, cache, orders, made, slipped, faults, expiries>>
storeVars == <<lock, cache>>
orderVars == <<orders, made>>
limitVars == <<faults, expiries>>

PCs == {"new", "lock", "again", "run", "store", "release", "bare", "done", "gone"}
Codes == {"none", "created", "replayed", "refused", "unavailable", "failed"}

TypeOK ==
  /\ pc \in [Calls -> PCs]
  /\ then \in [Calls -> {"done", "bare"}]
  /\ code \in [Calls -> Codes]
  /\ lock \in [Keys -> Calls \cup {NoCall}]
  /\ cache \in [Keys -> Calls \cup {NoCall}]
  /\ orders \in [Keys -> Nat]
  /\ made \in [Calls -> Nat]
  /\ slipped \subseteq Keys
  /\ faults \in 0 .. MaxFaults
  /\ expiries \in 0 .. MaxExpiries

-----------------------------------------------------------------------------
(* Building blocks *)

Goto(c, step) == pc' = [pc EXCEPT ![c] = step] /\ UNCHANGED <<then, code>>

Done(c, answer) ==
  /\ pc' = [pc EXCEPT ![c] = "done"]
  /\ code' = [code EXCEPT ![c] = answer]
  /\ UNCHANGED then

\* bug: answer and continuation swapped
Leave_Swapped(c, answer, next) ==
  /\ pc' = [pc EXCEPT ![c] = "release"]
  /\ then' = [then EXCEPT ![c] = answer]
  /\ code' = [code EXCEPT ![c] = next]

\* The block under the lock is left, with a return or with an exception
\* that the wrapper handles after the release.
Leave(c, answer, next) ==
  /\ pc' = [pc EXCEPT ![c] = "release"]
  /\ then' = [then EXCEPT ![c] = next]
  /\ code' = [code EXCEPT ![c] = answer]

NoLimit == UNCHANGED <<limitVars, slipped>>
Slip(k) == slipped' = slipped \cup {k}
Fault(k) ==
  /\ faults < MaxFaults /\ faults' = faults + 1
  /\ Slip(k)
  /\ UNCHANGED expiries

OrderMade(c) ==
  /\ orders' = [orders EXCEPT ![KeyOf[c]] = @ + 1]
  /\ made' = [made EXCEPT ![c] = @ + 1]

-----------------------------------------------------------------------------
(* The wrapper *)

\* cached_data = await cache_manager.get(cache_key)
Look(c) ==
  /\ pc[c] = "new"
  /\ IF cache[KeyOf[c]] # NoCall THEN Done(c, "replayed") ELSE Goto(c, "lock")
  /\ NoLimit /\ UNCHANGED <<storeVars, orderVars>>

\* bug: the second look under the lock is left out
Acquire_NoSecondLook(c) ==
  /\ pc[c] = "lock" /\ lock[KeyOf[c]] = NoCall
  /\ lock' = [lock EXCEPT ![KeyOf[c]] = c]
  /\ Goto(c, "run")
  /\ NoLimit /\ UNCHANGED <<cache, orderVars>>

Acquire(c) ==
  /\ pc[c] = "lock" /\ lock[KeyOf[c]] = NoCall
  /\ lock' = [lock EXCEPT ![KeyOf[c]] = c]
  /\ Goto(c, "again")
  /\ NoLimit /\ UNCHANGED <<cache, orderVars>>

\* bug: a busy lock is waited for without a limit
AcquireTimeout_Never(c) == FALSE /\ UNCHANGED vars

\* The lock is busy for 0.1 s: TimeoutError, and the endpoint runs anyway.
AcquireTimeout(c) ==
  /\ pc[c] = "lock" /\ lock[KeyOf[c]] # NoCall
  /\ Goto(c, "bare")
  /\ Slip(KeyOf[c])
  /\ UNCHANGED <<limitVars, storeVars, orderVars>>

Again(c) ==
  /\ pc[c] = "again"
  /\ IF cache[KeyOf[c]] # NoCall THEN Leave(c, "replayed", "done") ELSE Goto(c, "run")
  /\ NoLimit /\ UNCHANGED <<storeVars, orderVars>>

\* the endpoint under the lock: it commits an order ...
RunCreates(c) ==
  /\ pc[c] = "run"
  /\ Goto(c, "store")
  /\ OrderMade(c)
  /\ NoLimit /\ UNCHANGED storeVars

\* bug: the endpoint raises after its commit as if it had refused
RunRefuses_AfterCommit(c) ==
  /\ pc[c] = "run"
  /\ Leave(c, "none", "bare")
  /\ OrderMade(c)
  /\ Slip(KeyOf[c])
  /\ UNCHANGED <<limitVars, storeVars>>

\* ... or raises without one (NoTicketsAvailableException, say) ...
RunRefuses(c) ==
  /\ pc[c] = "run"
  /\ Leave(c, "none", "bare")
  /\ Slip(KeyOf[c])
  /\ UNCHANGED <<limitVars, storeVars, orderVars>>

\* ... or commits one and then fails to reach Redis for the cancellation
\* task, which the lock turns into CacheUnavailableError.
RunBreaks(c) ==
  /\ pc[c] = "run"
  /\ Leave(c, "unavailable", "done")
  /\ OrderMade(c)
  /\ Fault(KeyOf[c])
  /\ UNCHANGED storeVars

\* ... or commits one and then raises something else, or its answer cannot be
\* serialised: the endpoint is run again, without the lock
RunRaises(c) ==
  /\ pc[c] = "run"
  /\ Leave(c, "none", "bare")
  /\ OrderMade(c)
  /\ Fault(KeyOf[c])
  /\ UNCHANGED storeVars

\* a 2xx answer is stored
Store(c) ==
  /\ pc[c] = "store"
  /\ cache' = [cache EXCEPT ![KeyOf[c]] = c]
  /\ Leave(c, "created", "done")
  /\ NoLimit /\ UNCHANGED <<lock, orderVars>>

\* The lock is deleted only by its holder; LockNotOwnedError is swallowed.
Release(c) ==
  /\ pc[c] = "release"
  /\ lock' = [lock EXCEPT ![KeyOf[c]] = IF @ = c THEN NoCall ELSE @]
  /\ Goto(c, then[c])
  /\ NoLimit /\ UNCHANGED <<cache, orderVars>>

\* the endpoint without the lock: its answer, whatever it is, is returned
BareCreates(c) ==
  /\ pc[c] = "bare"
  /\ Done(c, "created")
  /\ OrderMade(c)
  /\ NoLimit /\ UNCHANGED storeVars

BareRefuses(c) ==
  /\ pc[c] = "bare"
  /\ Done(c, "refused")
  /\ NoLimit /\ UNCHANGED <<storeVars, orderVars>>

-----------------------------------------------------------------------------
(* Failures *)

\* get or acquire raises CacheUnavailableError outside the lock: 503
LookFails(c) ==
  /\ pc[c] \in {"new", "lock"}
  /\ Done(c, "unavailable")
  /\ Fault(KeyOf[c])
  /\ UNCHANGED <<storeVars, orderVars>>

\* get or set raises it under the lock: 503 after the release, also when
\* the endpoint has committed
CacheFails(c) ==
  /\ pc[c] \in {"again", "store"}
  /\ Leave(c, "unavailable", "done")
  /\ Fault(KeyOf[c])
  /\ UNCHANGED <<storeVars, orderVars>>

\* redis_lock.release raises another Redis error, which replaces the return
\* value or the exception in flight
ReleaseFails(c) ==
  /\ pc[c] = "release"
  /\ Goto(c, "bare")
  /\ Fault(KeyOf[c])
  /\ UNCHANGED <<storeVars, orderVars>>

BareBreaks(c) ==
  /\ pc[c] = "bare"
  /\ Done(c, "failed")
  /\ OrderMade(c)
  /\ Fault(KeyOf[c])
  /\ UNCHANGED storeVars

\* the API process dies: no answer, and the lock stays
Crash(c) ==
  /\ pc[c] \notin {"done", "gone"}
  /\ Goto(c, "gone")
  /\ Fault(KeyOf[c])
  /\ UNCHANGED <<storeVars, orderVars>>

Expiry(k) ==
  /\ expiries < MaxExpiries /\ expiries' = expiries + 1
  /\ Slip(k)
  /\ UNCHANGED <<pc, then, code, faults, orderVars>>

\* the lock's 10 s are over, whether or not its holder still runs
LockExpires(k) ==
  /\ lock[k] # NoCall
  /\ lock' = [lock EXCEPT ![k] = NoCall]
  /\ Expiry(k)
  /\ UNCHANGED cache

\* the answer's 3600 s are over
AnswerExpires(k) ==
  /\ cache[k] # NoCall
  /\ cache' = [cache EXCEPT ![k] = NoCall]
  /\ Expiry(k)
  /\ UNCHANGED lock

-----------------------------------------------------------------------------

Init ==
  /\ pc = [c \in Calls |-> "new"]
  /\ then = [c \in Calls |-> "done"]
  /\ code = [c \in Calls |-> "none"]
  /\ lock = [k \in Keys |-> NoCall]
  /\ cache = [k \in Keys |-> NoCall]
  /\ orders = [k \in Keys |-> 0]
  /\ made = [c \in Calls |-> 0]
  /\ slipped = {} /\ faults = 0 /\ expiries = 0

Step(c) ==
  \/ Look(c) \/ Acquire(c) \/ AcquireTimeout(c) \/ Again(c)
  \/ RunCreates(c) \/ RunRefuses(c) \/ Store(c) \/ Release(c)
  \/ BareCreates(c) \/ BareRefuses(c)

Failure(c) ==
  \/ LookFails(c) \/ RunBreaks(c) \/ RunRaises(c) \/ CacheFails(c)
  \/ ReleaseFails(c) \/ BareBreaks(c) \/ Crash(c)

Next ==
  \/ \E c \in Calls : Step(c) \/ Failure(c)
  \/ \E k \in Keys : LockExpires(k) \/ AnswerExpires(k)

Spec == Init /\ [][Next]_vars

\* the event loop runs every coroutine on
FairSpec == Spec /\ \A c \in Calls : WF_vars(Step(c))

-----------------------------------------------------------------------------
(* Properties *)

\* One key, at most one order -- as long as the wrapper neither gives up on
\* the lock nor meets a refused order, a failing Redis call, a crash or a
\* TTL that ran out.  These are the only ways to a second order.
OneOrderUnlessSlipped == \A k \in Keys : orders[k] > 1 => k \in slipped

\* A stored answer is what every later call gets: it is never replaced while
\* it lives and no lock has expired under its holder.
AnswerIsStable ==
  [][\A k \in Keys : cache[k] # NoCall =>
       cache'[k] = cache[k] \/ expiries > 0 \/ expiries' > 0]_vars

\* A call commits at most one order, however often it runs the endpoint,
\* unless something failed: a release that fails after the commit, or an
\* endpoint that raises after it, makes the wrapper run the endpoint again.
OneOrderPerCall == \A c \in Calls : made[c] > 1 => faults > 0

\* Every call is answered, unless its process dies; no lock left behind by a
\* crash or a failed release makes a later call wait for ever.
EveryCallEnds == \A c \in Calls : pc[c] = "lock" ~> pc[c] \in {"done", "gone"}
=============================================================================
