------------------------- MODULE IdempotencyProofs -------------------------
(***************************************************************************)
(* The idempotency wrapper for any number of calls, keys, failures and     *)
(* expired keys: while a lock has not run out, one call at a time is       *)
(* between its second look and its release, so that it stores under an     *)
(* empty key and books for a key that has no order.                        *)
(***************************************************************************)
EXTENDS Idempotency, TLAPS

\* the lock of k was never taken from its holder
Guarded(k) == expiries = 0 \/ k \notin slipped
UnderLock == {"again", "run", "store", "release"}

HolderIsInside ==
  \A c \in Calls : Guarded(KeyOf[c]) =>
    /\ pc[c] \in UnderLock => lock[KeyOf[c]] = c
    /\ pc[c] \in {"run", "store"} => cache[KeyOf[c]] = NoCall

\* A key that did not slip has the order of the call that stores, or stored, it.
OrderIsStored ==
  \A k \in Keys \ slipped :
    /\ orders[k] <= 1
    /\ orders[k] = 1 => cache[k] # NoCall \/ \E c \in Calls : KeyOf[c] = k /\ pc[c] = "store"
    /\ \A c \in Calls : KeyOf[c] = k => pc[c] # "bare" /\ then[c] = "done"

\* Without a failure a call comes to its endpoint with no order yet.
OrderOfCall ==
  faults = 0 => \A c \in Calls :
    /\ made[c] <= 1
    /\ pc[c] \in {"new", "lock", "again", "run", "bare"} => made[c] = 0
    /\ pc[c] = "release" /\ then[c] = "bare" => made[c] = 0

IdempotencyInv == TypeOK /\ HolderIsInside /\ OrderIsStored /\ OrderOfCall

-----------------------------------------------------------------------------

LEMMA IdempotencyInit == Init => IdempotencyInv
BY IdempotencyAssumption
   DEF Init, IdempotencyInv, TypeOK, PCs, Codes, HolderIsInside, UnderLock, OrderIsStored, OrderOfCall

LEMMA TypeStep ==
  ASSUME TypeOK, [Next]_vars
  PROVE  TypeOK'
<1>. USE IdempotencyAssumption DEF TypeOK, PCs, Codes, storeVars, orderVars, limitVars, NoLimit
<1>1. ASSUME NEW c \in Calls, Step(c) PROVE TypeOK'
  <2>1. CASE Look(c)
    BY <2>1 DEF Look, Done, Goto
  <2>2. CASE Acquire(c)
    BY <2>2 DEF Acquire, Goto
  <2>3. CASE AcquireTimeout(c)
    BY <2>3 DEF AcquireTimeout, Goto, Slip
  <2>4. CASE Again(c)
    BY <2>4 DEF Again, Leave, Goto
  <2>5. CASE RunCreates(c)
    BY <2>5 DEF RunCreates, Goto, OrderMade
  <2>6. CASE RunRefuses(c)
    BY <2>6 DEF RunRefuses, Leave, Slip
  <2>7. CASE Store(c)
    BY <2>7 DEF Store, Leave
  <2>8. CASE Release(c)
    BY <2>8 DEF Release, Goto
  <2>9. CASE BareCreates(c)
    BY <2>9 DEF BareCreates, Done, OrderMade
  <2>10. CASE BareRefuses(c)
    BY <2>10 DEF BareRefuses, Done
  <2>. QED  BY <1>1, <2>1, <2>2, <2>3, <2>4, <2>5, <2>6, <2>7, <2>8, <2>9, <2>10 DEF Step
<1>2. ASSUME NEW c \in Calls, Failure(c) PROVE TypeOK'
  <2>. USE DEF Fault, Slip
  <2>1. CASE LookFails(c)
    BY <2>1 DEF LookFails, Done
  <2>2. CASE RunBreaks(c) \/ RunRaises(c)
    BY <2>2 DEF RunBreaks, RunRaises, Leave, OrderMade
  <2>3. CASE CacheFails(c)
    BY <2>3 DEF CacheFails, Leave
  <2>4. CASE ReleaseFails(c)
    BY <2>4 DEF ReleaseFails, Goto
  <2>5. CASE BareBreaks(c)
    BY <2>5 DEF BareBreaks, Done, OrderMade
  <2>6. CASE Crash(c)
    BY <2>6 DEF Crash, Goto
  <2>. QED  BY <1>2, <2>1, <2>2, <2>3, <2>4, <2>5, <2>6 DEF Failure
<1>3. ASSUME NEW k \in Keys, LockExpires(k) PROVE TypeOK'
  BY <1>3 DEF LockExpires, Expiry, Slip
<1>4. ASSUME NEW k \in Keys, AnswerExpires(k) PROVE TypeOK'
  BY <1>4 DEF AnswerExpires, Expiry, Slip
<1>5. CASE UNCHANGED vars
  BY <1>5 DEF vars
<1>. QED  BY <1>1, <1>2, <1>3, <1>4, <1>5 DEF Next

\* A lock changes hands by its release, or runs out.
LEMMA HolderStep ==
  ASSUME TypeOK, HolderIsInside, [Next]_vars
  PROVE  HolderIsInside'
<1>. USE IdempotencyAssumption
     DEF TypeOK, HolderIsInside, Guarded, UnderLock, storeVars, orderVars, limitVars, NoLimit
<1>1. ASSUME NEW c \in Calls, Step(c) PROVE HolderIsInside'
  <2>1. CASE Look(c)
    BY <2>1 DEF Look, Done, Goto
  <2>2. CASE Acquire(c)
    BY <2>2 DEF Acquire, Goto
  <2>3. CASE AcquireTimeout(c)
    BY <2>3 DEF AcquireTimeout, Goto, Slip
  <2>4. CASE Again(c)
    BY <2>4 DEF Again, Leave, Goto
  <2>5. CASE RunCreates(c)
    BY <2>5 DEF RunCreates, Goto
  <2>6. CASE RunRefuses(c)
    BY <2>6 DEF RunRefuses, Leave, Slip
  <2>7. CASE Store(c)
    BY <2>7 DEF Store, Leave
  <2>8. CASE Release(c)
    BY <2>8 DEF Release, Goto
  <2>9. CASE BareCreates(c)
    BY <2>9 DEF BareCreates, Done
  <2>10. CASE BareRefuses(c)
    BY <2>10 DEF BareRefuses, Done
  <2>. QED  BY <1>1, <2>1, <2>2, <2>3, <2>4, <2>5, <2>6, <2>7, <2>8, <2>9, <2>10 DEF Step
<1>2. ASSUME NEW c \in Calls, Failure(c) PROVE HolderIsInside'
  <2>. USE DEF Fault, Slip
  <2>1. CASE LookFails(c)
    BY <2>1 DEF LookFails, Done
  <2>2. CASE RunBreaks(c) \/ RunRaises(c)
    BY <2>2 DEF RunBreaks, RunRaises, Leave
  <2>3. CASE CacheFails(c)
    BY <2>3 DEF CacheFails, Leave
  <2>4. CASE ReleaseFails(c)
    BY <2>4 DEF ReleaseFails, Goto
  <2>5. CASE BareBreaks(c)
    BY <2>5 DEF BareBreaks, Done
  <2>6. CASE Crash(c)
    BY <2>6 DEF Crash, Goto
  <2>. QED  BY <1>2, <2>1, <2>2, <2>3, <2>4, <2>5, <2>6 DEF Failure
<1>3. ASSUME NEW k \in Keys, LockExpires(k) PROVE HolderIsInside'
  BY <1>3 DEF LockExpires, Expiry, Slip
<1>4. ASSUME NEW k \in Keys, AnswerExpires(k) PROVE HolderIsInside'
  BY <1>4 DEF AnswerExpires, Expiry, Slip
<1>5. CASE UNCHANGED vars
  BY <1>5 DEF vars
<1>. QED  BY <1>1, <1>2, <1>3, <1>4, <1>5 DEF Next

\* The endpoint runs under the lock, for a key without an order.
LEMMA OrderStep ==
  ASSUME TypeOK, HolderIsInside, OrderIsStored, [Next]_vars
  PROVE  OrderIsStored'
<1>. USE IdempotencyAssumption
     DEF TypeOK, OrderIsStored, storeVars, orderVars, limitVars, NoLimit
<1>1. ASSUME NEW c \in Calls, Step(c) PROVE OrderIsStored'
  <2>1. CASE Look(c)
    BY <2>1 DEF Look, Done, Goto
  <2>2. CASE Acquire(c)
    BY <2>2 DEF Acquire, Goto
  <2>3. CASE AcquireTimeout(c)
    BY <2>3 DEF AcquireTimeout, Goto, Slip
  <2>4. CASE Again(c)
    BY <2>4 DEF Again, Leave, Goto
  <2>5. CASE RunCreates(c)
    <3>1. KeyOf[c] \notin slipped => orders[KeyOf[c]] = 0
      BY <2>5 DEF RunCreates, HolderIsInside, Guarded, UnderLock
    <3>. QED  BY <2>5, <3>1 DEF RunCreates, Goto, OrderMade
  <2>6. CASE RunRefuses(c)
    BY <2>6 DEF RunRefuses, Leave, Slip
  <2>7. CASE Store(c)
    BY <2>7 DEF Store, Leave
  <2>8. CASE Release(c)
    BY <2>8 DEF Release, Goto
  <2>9. CASE BareCreates(c)
    BY <2>9 DEF BareCreates, Done, OrderMade
  <2>10. CASE BareRefuses(c)
    BY <2>10 DEF BareRefuses, Done
  <2>. QED  BY <1>1, <2>1, <2>2, <2>3, <2>4, <2>5, <2>6, <2>7, <2>8, <2>9, <2>10 DEF Step
<1>2. ASSUME NEW c \in Calls, Failure(c) PROVE OrderIsStored'
  <2>. USE DEF Fault, Slip
  <2>1. CASE LookFails(c)
    BY <2>1 DEF LookFails, Done
  <2>2. CASE RunBreaks(c) \/ RunRaises(c)
    BY <2>2 DEF RunBreaks, RunRaises, Leave, OrderMade
  <2>3. CASE CacheFails(c)
    BY <2>3 DEF CacheFails, Leave
  <2>4. CASE ReleaseFails(c)
    BY <2>4 DEF ReleaseFails, Goto
  <2>5. CASE BareBreaks(c)
    BY <2>5 DEF BareBreaks, Done, OrderMade
  <2>6. CASE Crash(c)
    BY <2>6 DEF Crash, Goto
  <2>. QED  BY <1>2, <2>1, <2>2, <2>3, <2>4, <2>5, <2>6 DEF Failure
<1>3. ASSUME NEW k \in Keys, LockExpires(k) PROVE OrderIsStored'
  BY <1>3 DEF LockExpires, Expiry, Slip
<1>4. ASSUME NEW k \in Keys, AnswerExpires(k) PROVE OrderIsStored'
  BY <1>4 DEF AnswerExpires, Expiry, Slip
<1>5. CASE UNCHANGED vars
  BY <1>5 DEF vars
<1>. QED  BY <1>1, <1>2, <1>3, <1>4, <1>5 DEF Next

LEMMA CallStep ==
  ASSUME TypeOK, OrderOfCall, [Next]_vars
  PROVE  OrderOfCall'
<1>. USE IdempotencyAssumption DEF TypeOK, OrderOfCall, storeVars, orderVars, limitVars, NoLimit
<1>1. ASSUME NEW c \in Calls, Step(c) PROVE OrderOfCall'
  <2>1. CASE Look(c)
    BY <2>1 DEF Look, Done, Goto
  <2>2. CASE Acquire(c)
    BY <2>2 DEF Acquire, Goto
  <2>3. CASE AcquireTimeout(c)
    BY <2>3 DEF AcquireTimeout, Goto
  <2>4. CASE Again(c)
    BY <2>4 DEF Again, Leave, Goto
  <2>5. CASE RunCreates(c)
    BY <2>5 DEF RunCreates, Goto, OrderMade
  <2>6. CASE RunRefuses(c)
    BY <2>6 DEF RunRefuses, Leave
  <2>7. CASE Store(c)
    BY <2>7 DEF Store, Leave
  <2>8. CASE Release(c)
    BY <2>8 DEF Release, Goto
  <2>9. CASE BareCreates(c)
    BY <2>9 DEF BareCreates, Done, OrderMade
  <2>10. CASE BareRefuses(c)
    BY <2>10 DEF BareRefuses, Done
  <2>. QED  BY <1>1, <2>1, <2>2, <2>3, <2>4, <2>5, <2>6, <2>7, <2>8, <2>9, <2>10 DEF Step
<1>2. ASSUME NEW c \in Calls, Failure(c) PROVE OrderOfCall'
  <2>1. faults' > 0
    BY <1>2 DEF Failure, LookFails, RunBreaks, RunRaises, CacheFails, ReleaseFails, BareBreaks, Crash, Fault
  <2>. QED  BY <2>1
<1>3. ASSUME NEW k \in Keys, LockExpires(k) \/ AnswerExpires(k) PROVE OrderOfCall'
  BY <1>3 DEF LockExpires, AnswerExpires, Expiry
<1>4. CASE UNCHANGED vars
  BY <1>4 DEF vars
<1>. QED  BY <1>1, <1>2, <1>3, <1>4 DEF Next

-----------------------------------------------------------------------------
(* The theorems *)

\* The invariant the others follow from: who is between the second look and
\* the release holds the lock and finds the key empty (idempotency/decorators.py
\* 40-57).
THEOREM IdempotencyInvariant == Spec => []IdempotencyInv
<1>1. IdempotencyInv /\ [Next]_vars => IdempotencyInv'
  BY TypeStep, HolderStep, OrderStep, CallStep DEF IdempotencyInv
<1>. QED  BY IdempotencyInit, <1>1, PTL DEF Spec

\* The wrapper's state keeps its types (idempotency/decorators.py 26-67).
THEOREM IdempotencyTypeCorrect == Spec => []TypeOK
<1>1. IdempotencyInv => TypeOK
  BY DEF IdempotencyInv
<1>. QED  BY IdempotencyInvariant, <1>1, PTL

\* Two orders for one key only where the wrapper gave its protection up
\* (idempotency/decorators.py 40-66).
THEOREM OneOrderForAKey == Spec => []OneOrderUnlessSlipped
<1>1. IdempotencyInv => OneOrderUnlessSlipped
  BY DEF IdempotencyInv, TypeOK, OrderIsStored, OneOrderUnlessSlipped
<1>. QED  BY IdempotencyInvariant, <1>1, PTL

\* Two orders of one call only after a failing Redis call
\* (redis_manager.py 98-113).
THEOREM OneOrderForACall == Spec => []OneOrderPerCall
<1>1. IdempotencyInv => OneOrderPerCall
  BY DEF IdempotencyInv, TypeOK, OrderOfCall, OneOrderPerCall
<1>. QED  BY IdempotencyInvariant, <1>1, PTL

\* A stored answer is replaced only after a TTL ran out
\* (idempotency/decorators.py 40-52).
THEOREM AnswersAreStable == Spec => AnswerIsStable
<1>. DEFINE Stable == \A k \in Keys : cache[k] # NoCall =>
                        cache'[k] = cache[k] \/ expiries > 0 \/ expiries' > 0
<1>1. ASSUME IdempotencyInv, Next PROVE Stable
  <2>. USE DEF IdempotencyInv, TypeOK, storeVars, orderVars, limitVars
  <2>1. ASSUME NEW c \in Calls, Store(c) PROVE Stable
    <3>1. expiries = 0 => cache[KeyOf[c]] = NoCall
      BY <1>1, <2>1, IdempotencyAssumption DEF Store, HolderIsInside, Guarded
    <3>. QED  BY <1>1, <2>1, <3>1, IdempotencyAssumption DEF Store
  <2>2. ASSUME NEW k \in Keys, AnswerExpires(k) PROVE Stable
    BY <1>1, <2>2 DEF AnswerExpires, Expiry
  <2>3. CASE UNCHANGED cache
    BY <2>3
  <2>. QED
    BY <1>1, <2>1, <2>2, <2>3
       DEF Next, Step, Failure, Look, Acquire, AcquireTimeout, Again, RunCreates, RunRefuses, Release,
           BareCreates, BareRefuses, LookFails, RunBreaks, RunRaises, CacheFails, ReleaseFails, BareBreaks,
           Crash, LockExpires
<1>2. IdempotencyInv /\ [Next]_vars => [Stable]_vars
  BY <1>1
<1>. QED  BY IdempotencyInvariant, <1>2, PTL DEF Spec, AnswerIsStable
=============================================================================
