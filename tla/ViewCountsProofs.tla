-------------------------- MODULE ViewCountsProofs --------------------------
(***************************************************************************)
(* The view counters for any number of objects, visitors, requests and     *)
(* readers: no view gets lost unseen, and no counter is ahead of the views *)
(* that passed for new ones.                                               *)
(***************************************************************************)
EXTENDS ViewCounts, FiniteSetTheorems, TLAPS

\* A reader waits for the lock of one counter.
WaitsForOne ==
  \A d \in Readers : rpc[d] = "lock" => single[d] /\ \E o \in Objects : missing[d] = {o}

\* Whatever a request was called for is kept, the views it does not send too.
IdsAreKept == \A r \in Requests : Pairs(ids[r], visitor[r]) \subseteq Kept

\* Views of o: sent to the table, to be sent, and to be counted
Sent(o) == {v \in Visitors : <<o, v>> \in logs \cup Flat(queue)}
Pending(o) == {r \in Requests : pc[r] \in {"incr", "send"} /\ o \in unique[r]}
Uncounted(o) == {r \in Requests : pc[r] = "incr" /\ o \in unique[r]}

\* The views sent or pending passed for new ones; so did those shown, or counted
\* by a reader that is going to show them, and those to be counted yet.
CountsInv ==
  \A o \in Objects :
    /\ Cardinality(Sent(o)) + Cardinality(Pending(o)) <= newViews[o]
    /\ counter[o].views + Cardinality(Uncounted(o)) <= newViews[o]
    /\ \A d \in Readers : rpc[d] = "set" /\ o \in missing[d] =>
         counted[d][o] + Cardinality(Uncounted(o)) <= newViews[o]

ViewsInv == TypeOK /\ WaitsForOne /\ VisitIsKept /\ IdsAreKept /\ CountsInv

-----------------------------------------------------------------------------
(* Cardinalities *)

LEMMA AtMostOneMore ==
  ASSUME NEW S, IsFiniteSet(S), NEW x, NEW T, T \subseteq S \cup {x}
  PROVE  Cardinality(T) \in Nat /\ Cardinality(S) \in Nat /\ Cardinality(T) <= Cardinality(S) + 1
<1>1. IsFiniteSet(S \cup {x}) /\ Cardinality(S \cup {x}) <= Cardinality(S) + 1
      /\ Cardinality(S) \in Nat /\ Cardinality(S \cup {x}) \in Nat
  BY FS_AddElement, FS_CardinalityType
<1>2. IsFiniteSet(T) /\ Cardinality(T) <= Cardinality(S \cup {x}) /\ Cardinality(T) \in Nat
  BY <1>1, FS_Subset, FS_CardinalityType
<1>. QED  BY <1>1, <1>2

LEMMA OneLess ==
  ASSUME NEW S, IsFiniteSet(S), NEW x \in S, NEW T, T \subseteq S \ {x}
  PROVE  Cardinality(T) \in Nat /\ Cardinality(S) \in Nat /\ Cardinality(T) + 1 <= Cardinality(S)
<1>1. /\ IsFiniteSet(S \ {x}) /\ Cardinality(S \ {x}) = Cardinality(S) - 1
      /\ Cardinality(S) \in Nat /\ Cardinality(S \ {x}) \in Nat
  BY FS_RemoveElement, FS_CardinalityType
<1>2. IsFiniteSet(T) /\ Cardinality(T) <= Cardinality(S \ {x}) /\ Cardinality(T) \in Nat
  BY <1>1, FS_Subset, FS_CardinalityType
<1>. QED  BY <1>1, <1>2

LEMMA NoMore ==
  ASSUME NEW S, IsFiniteSet(S), NEW T, T \subseteq S
  PROVE  Cardinality(T) \in Nat /\ Cardinality(S) \in Nat /\ Cardinality(T) <= Cardinality(S)
BY FS_Subset, FS_CardinalityType

LEMMA ViewsAreFinite ==
  \A o : IsFiniteSet(Sent(o)) /\ IsFiniteSet(Pending(o)) /\ IsFiniteSet(Uncounted(o))
BY FS_Subset, ViewCountsAssumption DEF Sent, Pending, Uncounted

-----------------------------------------------------------------------------
(* Types *)

LEMMA OneObject ==
  ASSUME NEW objects \in SUBSET Objects, Cardinality(objects) = 1,
         NEW T \in SUBSET objects, T # {}
  PROVE  \E o \in Objects : T = {o}
<1>1. IsFiniteSet(objects)
  BY FS_Subset, ViewCountsAssumption
<1>2. PICK o : objects = {o}
  BY <1>1, FS_Singleton
<1>. QED  BY <1>2

ReaderPc == {"get", "lock", "again", "count", "direct", "set", "done"}

\* A reader moves on: nobody else gets or loses a lock, unless it is freed.
ReaderTyped ==
  /\ rpc \in [Readers -> ReaderPc] /\ single \in [Readers -> BOOLEAN]
  /\ missing \in [Readers -> SUBSET Objects] /\ counted \in [Readers -> [Objects -> Nat]]

LEMMA ReaderMoves ==
  ASSUME TypeOK, WaitsForOne, NEW d \in Readers, ReaderOnly, ReaderTyped',
         \A e \in Readers \ {d} :
           rpc'[e] = rpc[e] /\ single'[e] = single[e] /\ missing'[e] = missing[e],
         rpc'[d] = "lock" => single'[d] /\ \E o \in Objects : missing'[d] = {o},
         lock' \in [Objects -> Readers \cup {NoReader, Abandoned}],
         \A o \in Objects : lock'[o] = d =>
           single'[d] /\ rpc'[d] \in {"again", "count", "set"} /\ missing'[d] = {o},
         \A o \in Objects : lock'[o] \in Readers \ {d} => lock'[o] = lock[o],
         counter' \in [Objects -> [views : Nat, ttl : BOOLEAN, set : BOOLEAN]],
         faults' \in 0..MaxFaults
  PROVE  TypeOK' /\ WaitsForOne'
<1>1. \A o \in Objects : lock'[o] \in Readers =>
        single'[lock'[o]] /\ rpc'[lock'[o]] \in {"again", "count", "set"} /\ missing'[lock'[o]] = {o}
  <2>. SUFFICES ASSUME NEW o \in Objects, lock'[o] \in Readers
                PROVE  /\ single'[lock'[o]] /\ rpc'[lock'[o]] \in {"again", "count", "set"}
                       /\ missing'[lock'[o]] = {o}
    OBVIOUS
  <2>1. CASE lock'[o] = d
    BY <2>1
  <2>2. CASE lock'[o] # d
    BY <2>2 DEF TypeOK
  <2>. QED  BY <2>1, <2>2
<1>2. WaitsForOne'
  BY DEF WaitsForOne
<1>. QED
  BY <1>1, <1>2 DEF TypeOK, ReaderOnly, kafkaVars, requestVars, historyVars, ReaderTyped, ReaderPc

\* A reader's step, by where it goes and what becomes of its lock.
LEMMA ReaderTypes ==
  ASSUME TypeOK, WaitsForOne, NEW d \in Readers, ReaderStep(d)
  PROVE  TypeOK' /\ WaitsForOne'
<1>. USE ViewCountsAssumption
<1>. DEFINE NobodyElse == \A o \in Objects : lock'[o] \in Readers \ {d} => lock'[o] = lock[o]
            Locks == lock' \in [Objects -> Readers \cup {NoReader, Abandoned}]
            Counters == counter' \in [Objects -> [views : Nat, ttl : BOOLEAN, set : BOOLEAN]]
            Faults == faults' \in 0..MaxFaults
            Around == ReaderOnly /\ Locks /\ NobodyElse /\ Counters /\ Faults
            Free == \A o \in Objects : lock'[o] # d
<1>1. /\ missing[d] \in SUBSET Objects /\ single[d] \in BOOLEAN /\ counted[d] \in [Objects -> Nat]
      /\ None \in [Objects -> Nat] /\ {} \in SUBSET Objects /\ rpc[d] \in ReaderPc
      /\ faults \in Nat /\ ReaderTyped
  BY DEF TypeOK, None, ReaderPc, ReaderTyped
<1>2. UNCHANGED faults \/ Fault => Faults
  BY DEF TypeOK, Fault
<1>3. UNCHANGED counter => Counters
  BY DEF TypeOK
<1>4. ASSUME NEW heir \in {NoReader, Abandoned}, Handover(d, heir)
      PROVE  Locks /\ NobodyElse /\ Free
  BY <1>4 DEF Handover, TypeOK
<1>5. UNCHANGED lock => Locks /\ NobodyElse
  BY DEF TypeOK
<1>6. rpc[d] \notin {"again", "count", "set"} \/ ~single[d] => \A o \in Objects : lock[o] # d
  BY DEF TypeOK
<1>7. ASSUME Ends(d), Around, Free PROVE TypeOK' /\ WaitsForOne'
  <2>1. /\ ReaderTyped' /\ rpc'[d] = "done"
        /\ \A e \in Readers \ {d} :
             rpc'[e] = rpc[e] /\ single'[e] = single[e] /\ missing'[e] = missing[e]
    BY <1>1, <1>7 DEF Ends, At, ReaderTyped, ReaderPc
  <2>. QED  BY <1>7, <2>1, ReaderMoves
<1>8. ASSUME NEW next \in {"again", "count", "set", "direct"}, Moves(d, next), Around,
             next = "direct" => Free,
             \A o \in Objects : lock'[o] = d => single[d] /\ missing[d] = {o}
      PROVE  TypeOK' /\ WaitsForOne'
  <2>1. /\ ReaderTyped' /\ rpc'[d] = next /\ single'[d] = single[d] /\ missing'[d] = missing[d]
        /\ \A e \in Readers \ {d} :
             rpc'[e] = rpc[e] /\ single'[e] = single[e] /\ missing'[e] = missing[e]
    BY <1>1, <1>8 DEF Moves, At, ReaderTyped, ReaderPc
  <2>. QED  BY <1>8, <2>1, ReaderMoves
<1>9. ASSUME LockedFails(d), ReaderOnly, Counters PROVE TypeOK' /\ WaitsForOne'
  BY <1>9, <1>2, <1>4, <1>7, <1>8 DEF LockedFails
<1>10. ASSUME NEW done \in SUBSET Objects, counter' = Filled(d, done) PROVE Counters
  BY <1>1, <1>10 DEF TypeOK, Filled, Counter
<1>. HIDE DEF Around, Free, Locks, Counters, Faults, NobodyElse
<1>11. CASE Get(d) \/ GetFails(d)
  <2>1. Around /\ Free
    BY <1>11, <1>2, <1>3, <1>5, <1>6 DEF Get, GetFails, Around, Free
  <2>2. ASSUME NEW call \in Asked, NEW objects \in SUBSET call[1], objects # {},
               NEW next \in ReaderPc, next = "lock" => call[2], At(d, next, objects, call[2], None)
        PROVE  TypeOK' /\ WaitsForOne'
    <3>1. /\ call[2] \in BOOLEAN /\ call[1] \in SUBSET Objects
          /\ call[2] => \E o \in Objects : objects = {o}
      <4>1. call[2] \in BOOLEAN /\ call[1] \in SUBSET Objects /\ (call[2] => Cardinality(call[1]) = 1)
        BY <2>2 DEF Asked
      <4>2. ASSUME call[2] PROVE \E o \in Objects : objects = {o}
        BY <2>2, <4>1, <4>2, OneObject
      <4>. QED  BY <4>1, <4>2
    <3>2. /\ ReaderTyped' /\ rpc'[d] = next /\ single'[d] = call[2] /\ missing'[d] = objects
          /\ \A e \in Readers \ {d} :
               rpc'[e] = rpc[e] /\ single'[e] = single[e] /\ missing'[e] = missing[e]
      BY <1>1, <2>2, <3>1 DEF At, ReaderTyped
    <3>3. next = "lock" => single'[d] /\ \E o \in Objects : missing'[d] = {o}
      BY <2>2, <3>1, <3>2
    <3>. QED  BY <2>1, <3>2, <3>3, ReaderMoves DEF Around, Free, Locks, Counters, Faults, NobodyElse
  <2>3. CASE Get(d)
    <3>1. PICK call \in Asked : \/ Absent(call[1]) = {} /\ Ends(d)
                                \/ /\ Absent(call[1]) # {}
                                   /\ At(d, IF call[2] THEN "lock" ELSE "count", Absent(call[1]), call[2], None)
      BY <2>3 DEF Get
    <3>2. CASE Ends(d)
      BY <1>7, <2>1, <3>2
    <3>3. CASE /\ Absent(call[1]) # {}
               /\ At(d, IF call[2] THEN "lock" ELSE "count", Absent(call[1]), call[2], None)
      <4>1. CASE call[2]
        BY <2>2, <3>3, <4>1 DEF ReaderPc, Absent
      <4>2. CASE ~call[2]
        BY <2>2, <3>3, <4>2 DEF ReaderPc, Absent
      <4>. QED  BY <4>1, <4>2
    <3>. QED  BY <3>1, <3>2, <3>3
  <2>4. CASE GetFails(d)
    <3>1. PICK call \in Asked : At(d, IF call[2] THEN "lock" ELSE "direct", call[1], call[2], None)
      BY <2>4 DEF GetFails
    <3>2. call[1] # {}
      BY DEF Asked
    <3>3. CASE call[2]
      BY <2>2, <3>1, <3>2, <3>3 DEF ReaderPc
    <3>4. CASE ~call[2]
      BY <2>2, <3>1, <3>2, <3>4 DEF ReaderPc
    <3>. QED  BY <3>3, <3>4
  <2>. QED  BY <1>11, <2>3, <2>4
<1>12. CASE Acquire(d)
  <2>1. PICK p \in Objects : single[d] /\ missing[d] = {p}
    BY <1>12 DEF Acquire, WaitsForOne
  <2>2. Locks /\ NobodyElse /\ \A o \in Objects : lock'[o] = d => o = p
    BY <1>12, <1>6, <2>1 DEF Acquire, TypeOK, Locks, NobodyElse
  <2>3. Around
    BY <1>12, <1>2, <1>3, <2>2 DEF Acquire, Around
  <2>. QED  BY <1>12, <1>8, <2>1, <2>2, <2>3 DEF Acquire
<1>13. CASE TimesOut(d) \/ Direct(d)
  <2>1. Around /\ Free
    BY <1>13, <1>2, <1>3, <1>5, <1>6 DEF TimesOut, Direct, Around, Free
  <2>. QED  BY <1>13, <1>7, <2>1 DEF TimesOut, Direct
<1>14. CASE AcquireFails(d)
  <2>1. Locks /\ NobodyElse /\ Free
    BY <1>14, <1>6 DEF AcquireFails, TypeOK, Locks, NobodyElse, Free
  <2>2. Around
    BY <1>14, <1>2, <1>3, <2>1 DEF AcquireFails, Around
  <2>. QED  BY <1>14, <1>8, <2>1, <2>2 DEF AcquireFails, Free
<1>15. CASE Again(d)
  <2>1. ReaderOnly /\ Faults /\ Counters
    BY <1>15, <1>2, <1>3 DEF Again
  <2>2. CASE Ends(d) /\ Handover(d, NoReader)
    BY <1>4, <1>7, <2>1, <2>2 DEF Around
  <2>3. CASE Moves(d, "count") /\ UNCHANGED lock
    <3>1. \A o \in Objects : lock'[o] = d => single[d] /\ missing[d] = {o}
      BY <2>3 DEF TypeOK
    <3>. QED  BY <1>5, <1>8, <2>1, <2>3, <3>1 DEF Around
  <2>. QED  BY <1>15, <2>2, <2>3 DEF Again
<1>16. CASE AgainFails(d)
  BY <1>16, <1>3, <1>9 DEF AgainFails
<1>17. CASE Count(d)
  <2>1. \A o \in Objects : Logged(o) \in Nat
    <3>. SUFFICES ASSUME NEW o \in Objects PROVE Logged(o) \in Nat
      OBVIOUS
    <3>. QED  BY NoMore, {v \in Visitors : <<o, v>> \in logs} \subseteq Visitors DEF Logged
  <2>2. Around /\ \A o \in Objects : lock'[o] = d => single[d] /\ missing[d] = {o}
    BY <1>17, <1>2, <1>3, <1>5 DEF Count, TypeOK, Around
  <2>3. /\ ReaderTyped' /\ rpc'[d] = "set" /\ single'[d] = single[d] /\ missing'[d] = missing[d]
        /\ \A e \in Readers \ {d} :
             rpc'[e] = rpc[e] /\ single'[e] = single[e] /\ missing'[e] = missing[e]
    BY <1>1, <1>17, <2>1 DEF Count, At, ReaderTyped, ReaderPc
  <2>. QED  BY <2>2, <2>3, ReaderMoves DEF Around, Locks, Counters, Faults, NobodyElse
<1>18. CASE Set(d)
  <2>1. ReaderOnly /\ Counters /\ Faults /\ Ends(d)
    BY <1>18, <1>1, <1>2, <1>10 DEF Set
  <2>2. Locks /\ NobodyElse /\ Free
    BY <1>18, <1>4 DEF Set
  <2>. QED  BY <1>7, <2>1, <2>2 DEF Around
<1>19. CASE SetFails(d)
  <2>1. ReaderOnly /\ Counters
    BY <1>19, <1>1, <1>10 DEF SetFails
  <2>2. CASE LockedFails(d)
    BY <1>9, <2>1, <2>2
  <2>3. CASE ~single[d] /\ Fault /\ Ends(d) /\ UNCHANGED lock
    <3>1. Around /\ Free
      BY <1>2, <1>5, <1>6, <2>1, <2>3 DEF Around, Free
    <3>. QED  BY <1>7, <2>3, <3>1
  <2>. QED  BY <1>19, <2>2, <2>3 DEF SetFails
<1>. QED
  BY <1>11, <1>12, <1>13, <1>14, <1>15, <1>16, <1>17, <1>18, <1>19 DEF ReaderStep

LEMMA RequestMoves ==
  ASSUME TypeOK, NEW r \in Requests, NEW next \in {"incr", "send", "done"},
         NEW objects \in SUBSET Objects, NEW kept \in SUBSET Objects, objects \subseteq kept,
         objects # {} <=> next \in {"incr", "send"},
         Goto(r, next, objects), Sets(r, kept) \/ (UNCHANGED ids /\ kept = ids[r])
  PROVE  /\ pc' \in [Requests -> {"pfadd", "incr", "send", "done"}]
         /\ visitor' \in [Requests -> Visitors]
         /\ ids' \in [Requests -> SUBSET Objects] /\ unique' \in [Requests -> SUBSET Objects]
         /\ \A q \in Requests :
              unique'[q] \subseteq ids'[q] /\ (unique'[q] # {} <=> pc'[q] \in {"incr", "send"})
BY DEF TypeOK, Goto, Sets

LEMMA RequestTypes ==
  ASSUME TypeOK, WaitsForOne, NEW r \in Requests, RequestStep(r)
  PROVE  TypeOK' /\ WaitsForOne'
<1>. DEFINE Requested ==
              /\ pc' \in [Requests -> {"pfadd", "incr", "send", "done"}]
              /\ visitor' \in [Requests -> Visitors]
              /\ ids' \in [Requests -> SUBSET Objects] /\ unique' \in [Requests -> SUBSET Objects]
              /\ \A q \in Requests :
                   unique'[q] \subseteq ids'[q] /\ (unique'[q] # {} <=> pc'[q] \in {"incr", "send"})
            Stored == /\ hll' \in [Objects -> SUBSET Visitors] /\ hllTtl' \subseteq Objects
                      /\ counter' \in [Objects -> [views : Nat, ttl : BOOLEAN, set : BOOLEAN]]
                      /\ queue' \subseteq Message /\ queue \subseteq queue'
            Told == /\ answered' \cup forgotten' \subseteq Objects \X Visitors
                    /\ newViews' \in [Objects -> Nat] /\ faults' \in 0..MaxFaults
            Others == UNCHANGED <<batch, logs, readerVars, expiries>>
<1>1. Requested /\ Stored /\ Told /\ Others => TypeOK' /\ WaitsForOne'
  <2>. SUFFICES ASSUME Requested, Stored, Told, Others PROVE TypeOK' /\ WaitsForOne'
    OBVIOUS
  <2>1. WaitsForOne'
    BY DEF WaitsForOne, readerVars
  <2>2. batch' \subseteq queue'
    BY DEF TypeOK
  <2>. QED  BY <2>1, <2>2 DEF TypeOK, readerVars
<1>2. /\ visitor[r] \in Visitors /\ ids[r] \in SUBSET Objects /\ unique[r] \in SUBSET Objects
      /\ unique[r] \subseteq ids[r] /\ (unique[r] # {} <=> pc[r] \in {"incr", "send"})
      /\ {} \in SUBSET Objects
  BY DEF TypeOK
<1>3. UNCHANGED faults \/ Fault => faults' \in 0..MaxFaults
  BY ViewCountsAssumption DEF TypeOK, Fault
<1>4. ASSUME NEW objects \in SUBSET Objects
      PROVE  /\ Known(r, objects) \in [Objects -> SUBSET Visitors]
             /\ Incremented(objects) \in [Objects -> [views : Nat, ttl : BOOLEAN, set : BOOLEAN]]
             /\ AsNew(objects) => newViews' \in [Objects -> Nat]
             /\ Pairs(objects, visitor[r]) \subseteq Objects \X Visitors
  BY <1>2 DEF TypeOK, Known, Incremented, Counter, AsNew, Pairs
<1>. HIDE DEF Requested, Stored, Told, Others
<1>5. CASE PfAdd(r)
  <2>1. PICK objects \in (SUBSET Objects) \ {{}} :
          \E found \in SUBSET New(r, objects) :
          /\ IF found = New(r, objects) THEN UNCHANGED faults ELSE Fault
          /\ IF found = {} THEN Goto(r, "done", {}) /\ Answer(r, objects) /\ UNCHANGED ids
                           ELSE Goto(r, "incr", found) /\ Sets(r, objects) /\ UNCHANGED answered
          /\ AsNew(found)
          /\ forgotten' = forgotten \cup Pairs(New(r, objects) \ found, visitor[r])
          /\ hll' = Known(r, objects)
    BY <1>5 DEF PfAdd
  <2>2. PICK found \in SUBSET New(r, objects) :
          /\ UNCHANGED faults \/ Fault
          /\ \/ found = {} /\ Goto(r, "done", {}) /\ Answer(r, objects) /\ UNCHANGED ids
             \/ found # {} /\ Goto(r, "incr", found) /\ Sets(r, objects) /\ UNCHANGED answered
          /\ AsNew(found) /\ hll' = Known(r, objects)
          /\ forgotten' = forgotten \cup Pairs(New(r, objects) \ found, visitor[r])
    BY <2>1
  <2>3. found \subseteq objects /\ found \in SUBSET Objects
        /\ New(r, objects) \ found \in SUBSET Objects
    BY DEF New
  <2>4. Requested
    <3>1. CASE found = {} /\ Goto(r, "done", {}) /\ UNCHANGED ids
      BY <1>2, <3>1, RequestMoves DEF Requested
    <3>2. CASE found # {} /\ Goto(r, "incr", found) /\ Sets(r, objects)
      BY <2>3, <3>2, RequestMoves DEF Requested
    <3>. QED  BY <2>2, <3>1, <3>2
  <2>5. Stored /\ Others
    BY <1>4, <1>5, <2>2 DEF PfAdd, TypeOK, Stored, Others, kafkaVars
  <2>6. Told
    BY <1>3, <1>4, <2>2, <2>3 DEF TypeOK, Told, Answer
  <2>. QED  BY <1>1, <2>4, <2>5, <2>6
<1>6. CASE PfAddFails(r)
  <2>1. PICK objects \in (SUBSET Objects) \ {{}} :
          /\ hll' \in {hll, Known(r, objects)}
          /\ Goto(r, "send", objects) /\ Sets(r, objects) /\ AsNew(objects)
    BY <1>6 DEF PfAddFails
  <2>2. Requested
    BY <2>1, RequestMoves DEF Requested
  <2>3. Stored /\ Others /\ Told
    BY <1>3, <1>4, <1>6, <2>1 DEF PfAddFails, TypeOK, Stored, Others, Told, kafkaVars
  <2>. QED  BY <1>1, <2>2, <2>3
<1>7. CASE Incr(r)
  <2>1. Requested
    BY <1>2, <1>7, RequestMoves DEF Incr, Requested
  <2>2. Stored /\ Others /\ Told
    BY <1>2, <1>3, <1>4, <1>7 DEF Incr, TypeOK, Stored, Others, Told, kafkaVars, historyVars
  <2>. QED  BY <1>1, <2>1, <2>2
<1>8. CASE IncrFails(r)
  <2>1. Requested
    BY <1>2, <1>8, RequestMoves DEF IncrFails, Requested
  <2>2. PICK done \in SUBSET unique[r] : counter' = Incremented(done)
    BY <1>8 DEF IncrFails
  <2>3. done \in SUBSET Objects /\ ids[r] \ unique[r] \in SUBSET Objects
    BY <1>2, <2>2
  <2>4. Stored /\ Others
    BY <1>2, <1>4, <1>8, <2>2, <2>3 DEF IncrFails, TypeOK, Stored, Others, kafkaVars
  <2>5. Told
    BY <1>3, <1>4, <1>8, <2>3 DEF IncrFails, TypeOK, Told
  <2>. QED  BY <1>1, <2>1, <2>4, <2>5
<1>9. CASE Send(r)
  <2>1. Requested
    BY <1>2, <1>9, RequestMoves DEF Send, Requested
  <2>2. Payload(unique[r], visitor[r]) \in Message
    BY <1>2, <1>9 DEF Send, Payload, Message
  <2>3. Stored /\ Others /\ Told
    BY <1>2, <1>3, <1>4, <1>9, <2>2 DEF Send, TypeOK, Stored, Others, Told, redisVars, Answer
  <2>. QED  BY <1>1, <2>1, <2>3
<1>10. CASE Die(r)
  <2>1. Requested
    BY <1>2, <1>10, RequestMoves DEF Die, Requested
  <2>2. Stored /\ Others /\ Told
    BY <1>2, <1>3, <1>4, <1>10 DEF Die, TypeOK, Stored, Others, Told, redisVars, kafkaVars
  <2>. QED  BY <1>1, <2>1, <2>2
<1>. QED  BY <1>5, <1>6, <1>7, <1>8, <1>9, <1>10 DEF RequestStep

LEMMA WorkerTypes ==
  ASSUME TypeOK, WaitsForOne, Worker
  PROVE  TypeOK' /\ WaitsForOne'
<1>1. WaitsForOne'
  BY DEF Worker, TakeBatch, InsertBatch, Redeliver, InsertTwice, SkipBatch, Handled,
         WaitsForOne, readerVars
<1>2. Flat(batch) \subseteq Objects \X Visitors
  BY DEF TypeOK, Flat, Pairs, Message
<1>3. Cardinality({}) = 0 /\ 0 <= MaxBatch
  BY FS_EmptySet, ViewCountsAssumption
<1>4. CASE TakeBatch
  <2>1. batch' \subseteq queue' /\ Cardinality(batch') <= MaxBatch
    BY <1>4 DEF TakeBatch
  <2>2. UNCHANGED <<hll, hllTtl, counter, queue, logs, pc, visitor, ids, unique, rpc, single, missing,
                    counted, lock, answered, forgotten, newViews, faults, expiries>>
    BY <1>4 DEF TakeBatch, redisVars, requestVars, readerVars, historyVars
  <2>. QED  BY <1>1, <2>1, <2>2 DEF TypeOK
<1>5. ASSUME NEW rows \in SUBSET (Objects \X Visitors), NEW left \in SUBSET queue,
             Handled(rows, left), UNCHANGED faults \/ Fault,
             forgotten' \subseteq forgotten \cup Flat(batch)
      PROVE  TypeOK'
  <2>1. faults' \in 0..MaxFaults
    BY <1>5, ViewCountsAssumption DEF TypeOK, Fault
  <2>. QED
    BY <1>2, <1>3, <1>5, <2>1 DEF Handled, TypeOK, redisVars, requestVars, readerVars
<1>6. {} \in SUBSET (Objects \X Visitors) /\ queue \in SUBSET queue /\ queue \ batch \in SUBSET queue
  OBVIOUS
<1>. QED
  BY <1>1, <1>2, <1>4, <1>5, <1>6 DEF Worker, InsertBatch, Redeliver, InsertTwice, SkipBatch

LEMMA ExpiryTypes ==
  ASSUME TypeOK, WaitsForOne, NEW o \in Objects,
         HllExpires(o) \/ CounterExpires(o) \/ LockExpires(o)
  PROVE  TypeOK' /\ WaitsForOne'
<1>1. WaitsForOne'
  BY DEF HllExpires, CounterExpires, LockExpires, Expires, WaitsForOne
<1>2. CASE HllExpires(o)
  <2>1. hll' \in [Objects -> SUBSET Visitors] /\ hllTtl' \subseteq Objects
    BY <1>2 DEF HllExpires, TypeOK
  <2>2. expiries' \in 0..MaxExpiries
    BY <1>2, ViewCountsAssumption DEF HllExpires, Expires, TypeOK
  <2>3. UNCHANGED <<counter, queue, batch, logs, pc, visitor, ids, unique, rpc, single, missing, counted,
                    lock, answered, forgotten, newViews, faults>>
    BY <1>2 DEF HllExpires, Expires, kafkaVars, requestVars, historyVars
  <2>. QED  BY <1>1, <2>1, <2>2, <2>3 DEF TypeOK
<1>3. CASE CounterExpires(o)
  <2>1. counter' \in [Objects -> [views : Nat, ttl : BOOLEAN, set : BOOLEAN]]
    BY <1>3 DEF CounterExpires, NoCounter, TypeOK
  <2>2. expiries' \in 0..MaxExpiries
    BY <1>3, ViewCountsAssumption DEF CounterExpires, Expires, TypeOK
  <2>3. UNCHANGED <<hll, hllTtl, queue, batch, logs, pc, visitor, ids, unique, rpc, single, missing,
                    counted, lock, answered, forgotten, newViews, faults>>
    BY <1>3 DEF CounterExpires, Expires, kafkaVars, requestVars, historyVars
  <2>. QED  BY <1>1, <2>1, <2>2, <2>3 DEF TypeOK
<1>4. CASE LockExpires(o)
  <2>1. \A p \in Objects : lock'[p] \in Readers => lock'[p] = lock[p]
    BY <1>4, ViewCountsAssumption DEF LockExpires, TypeOK
  <2>2. lock' \in [Objects -> Readers \cup {NoReader, Abandoned}]
    BY <1>4 DEF LockExpires, TypeOK
  <2>3. UNCHANGED <<hll, hllTtl, counter, queue, batch, logs, pc, visitor, ids, unique, rpc, single,
                    missing, counted, answered, forgotten, newViews, faults, expiries>>
    BY <1>4 DEF LockExpires, redisVars, kafkaVars, requestVars, historyVars
  <2>. QED  BY <1>1, <2>1, <2>2, <2>3 DEF TypeOK
<1>. QED  BY <1>1, <1>2, <1>3, <1>4

LEMMA TypesHold ==
  ASSUME TypeOK, WaitsForOne, [Next]_vars
  PROVE  TypeOK' /\ WaitsForOne'
<1>1. CASE UNCHANGED vars
  BY <1>1 DEF TypeOK, WaitsForOne, vars, redisVars, kafkaVars, requestVars, readerVars, historyVars
<1>. QED
  BY <1>1, RequestTypes, WorkerTypes, ReaderTypes, ExpiryTypes DEF Next

-----------------------------------------------------------------------------
(* No view is lost unseen *)

\* A step that moves at most the views of one request keeps what was kept.
LEMMA StillKept ==
  ASSUME TypeOK, NEW r \in Requests, NEW objects,
         Goto(r, pc'[r], objects), logs \subseteq logs', Flat(queue) \subseteq Flat(queue)',
         forgotten \subseteq forgotten',
         Pairs(unique[r], visitor[r]) \subseteq
           Pairs(objects, visitor[r]) \cup Flat(queue)' \cup forgotten'
  PROVE  Kept \subseteq Kept' /\ Pairs(objects, visitor[r]) \subseteq Kept'
<1>1. /\ visitor' = visitor /\ unique'[r] = objects
      /\ \A q \in Requests : q # r => unique'[q] = unique[q]
  BY DEF Goto, TypeOK
<1>2. ASSUME NEW q \in Requests PROVE Pairs(unique'[q], visitor[q]) \subseteq Kept'
  BY <1>1 DEF Kept, InFlight
<1>3. Pairs(objects, visitor[r]) \subseteq Kept'
  BY <1>1, <1>2
<1>4. ASSUME NEW q \in Requests PROVE Pairs(unique[q], visitor[q]) \subseteq Kept'
  <2>1. CASE q = r
    BY <1>3, <2>1 DEF Kept
  <2>. QED  BY <1>1, <1>2, <2>1
<1>5. InFlight \subseteq Kept'
  BY <1>4 DEF InFlight
<1>6. logs' \cup Flat(queue)' \cup forgotten' \subseteq Kept'
  BY DEF Kept
<1>. QED  BY <1>3, <1>5, <1>6 DEF Kept

LEMMA VisitsAreKept ==
  ASSUME TypeOK, VisitIsKept, IdsAreKept, Kept \subseteq Kept', visitor' = visitor,
         answered' \cup KnownViews' \subseteq answered \cup KnownViews \cup Kept',
         \A q \in Requests : ids'[q] \subseteq ids[q] \/ Pairs(ids'[q], visitor[q]) \subseteq Kept'
  PROVE  VisitIsKept' /\ IdsAreKept'
<1>1. VisitIsKept'
  BY DEF VisitIsKept
<1>2. ASSUME NEW q \in Requests PROVE Pairs(ids'[q], visitor'[q]) \subseteq Kept'
  <2>1. Pairs(ids[q], visitor[q]) \subseteq Kept'
    BY DEF IdsAreKept
  <2>2. ids'[q] \subseteq ids[q] => Pairs(ids'[q], visitor[q]) \subseteq Pairs(ids[q], visitor[q])
    BY DEF Pairs
  <2>. QED  BY <2>1, <2>2
<1>. QED  BY <1>1, <1>2 DEF IdsAreKept

\* The HyperLogLog gets to know what it is asked about, and loses what expires.
LEMMA KnownGrows ==
  ASSUME TypeOK, NEW r \in Requests, NEW objects \in SUBSET Objects, hll' \in {hll, Known(r, objects)}
  PROVE  /\ KnownViews' \subseteq KnownViews \cup Pairs(objects, visitor[r])
         /\ Pairs(objects \ New(r, objects), visitor[r]) \subseteq KnownViews
BY DEF KnownViews, Known, TypeOK, Pairs, New

LEMMA RequestKeeps ==
  ASSUME TypeOK, VisitIsKept, IdsAreKept, NEW r \in Requests, RequestStep(r)
  PROVE  VisitIsKept' /\ IdsAreKept'
<1>1. /\ visitor[r] \in Visitors /\ ids \in [Requests -> SUBSET Objects]
      /\ unique[r] \subseteq ids[r] /\ unique[r] \in SUBSET Objects
      /\ pc[r] \in {"pfadd", "done"} => unique[r] = {}
  BY DEF TypeOK
<1>2. Pairs({}, visitor[r]) = {} /\ \A A, B : A \subseteq B => Pairs(A, visitor[r]) \subseteq Pairs(B, visitor[r])
  BY DEF Pairs
<1>3. Pairs(ids[r], visitor[r]) \subseteq Kept /\ answered \cup KnownViews \subseteq Kept
  BY DEF IdsAreKept, VisitIsKept
<1>4. ASSUME NEW objects, Sets(r, objects)
      PROVE  ids'[r] = objects /\ \A q \in Requests : q # r => ids'[q] = ids[q]
  BY <1>1, <1>4 DEF Sets
<1>5. ASSUME NEW next, NEW objects, Goto(r, next, objects) PROVE Goto(r, pc'[r], objects) /\ visitor' = visitor
  BY <1>5 DEF Goto, TypeOK
<1>6. CASE PfAdd(r)
  <2>1. PICK objects \in (SUBSET Objects) \ {{}} :
          \E found \in SUBSET New(r, objects) :
          /\ IF found = New(r, objects) THEN UNCHANGED faults ELSE Fault
          /\ IF found = {} THEN Goto(r, "done", {}) /\ Answer(r, objects) /\ UNCHANGED ids
                           ELSE Goto(r, "incr", found) /\ Sets(r, objects) /\ UNCHANGED answered
          /\ AsNew(found)
          /\ forgotten' = forgotten \cup Pairs(New(r, objects) \ found, visitor[r])
          /\ hll' = Known(r, objects)
    BY <1>6 DEF PfAdd
  <2>2. PICK found \in SUBSET New(r, objects) :
          /\ \/ found = {} /\ Goto(r, "done", {}) /\ Answer(r, objects) /\ UNCHANGED ids
             \/ found # {} /\ Goto(r, "incr", found) /\ Sets(r, objects) /\ UNCHANGED answered
          /\ hll' = Known(r, objects)
          /\ forgotten' = forgotten \cup Pairs(New(r, objects) \ found, visitor[r])
    BY <2>1
  <2>3. Goto(r, pc'[r], found) /\ visitor' = visitor
    BY <1>5, <2>2
  <2>4. logs' = logs /\ Flat(queue)' = Flat(queue) /\ Pairs(unique[r], visitor[r]) = {}
    BY <1>1, <1>2, <1>6 DEF PfAdd, kafkaVars, Flat
  <2>5. Kept \subseteq Kept' /\ Pairs(found, visitor[r]) \subseteq Kept'
    BY <2>2, <2>3, <2>4, StillKept
  <2>6. Pairs(New(r, objects) \ found, visitor[r]) \subseteq Kept'
    BY <2>2 DEF Kept
  <2>7. /\ KnownViews' \subseteq KnownViews \cup Pairs(objects, visitor[r])
        /\ Pairs(objects \ New(r, objects), visitor[r]) \subseteq KnownViews
    BY <2>2, KnownGrows
  <2>8. Pairs(objects, visitor[r]) \subseteq Kept'
    <3>1. Pairs(objects, visitor[r]) \subseteq Pairs(objects \ New(r, objects), visitor[r])
            \cup Pairs(New(r, objects) \ found, visitor[r]) \cup Pairs(found, visitor[r])
      BY DEF Pairs
    <3>. QED  BY <1>3, <2>5, <2>6, <2>7, <3>1
  <2>9. answered' \subseteq answered \cup Pairs(objects, visitor[r])
    BY <2>2 DEF Answer
  <2>10. \A q \in Requests : ids'[q] \subseteq ids[q] \/ Pairs(ids'[q], visitor[q]) \subseteq Kept'
    BY <1>4, <2>2, <2>8
  <2>. QED  BY <2>3, <2>5, <2>7, <2>8, <2>9, <2>10, VisitsAreKept
<1>7. CASE PfAddFails(r)
  <2>1. PICK objects \in (SUBSET Objects) \ {{}} :
          /\ hll' \in {hll, Known(r, objects)}
          /\ Goto(r, "send", objects) /\ Sets(r, objects)
    BY <1>7 DEF PfAddFails
  <2>2. /\ logs' = logs /\ Flat(queue)' = Flat(queue) /\ Pairs(unique[r], visitor[r]) = {}
        /\ answered' = answered /\ forgotten' = forgotten
    BY <1>1, <1>2, <1>7 DEF PfAddFails, kafkaVars, Flat
  <2>3. Goto(r, pc'[r], objects) /\ visitor' = visitor
    BY <1>5, <2>1
  <2>4. Kept \subseteq Kept' /\ Pairs(objects, visitor[r]) \subseteq Kept'
    BY <2>2, <2>3, StillKept
  <2>5. KnownViews' \subseteq KnownViews \cup Pairs(objects, visitor[r])
    BY <2>1, KnownGrows
  <2>6. \A q \in Requests : ids'[q] \subseteq ids[q] \/ Pairs(ids'[q], visitor[q]) \subseteq Kept'
    BY <1>4, <2>1, <2>4
  <2>. QED  BY <2>2, <2>3, <2>4, <2>5, <2>6, VisitsAreKept
<1>8. CASE Incr(r) \/ IncrFails(r)
  <2>1. PICK objects : Goto(r, "send", objects) /\ unique[r] \subseteq objects
    BY <1>1, <1>8 DEF Incr, IncrFails
  <2>2. /\ logs' = logs /\ Flat(queue)' = Flat(queue) /\ ids' = ids
        /\ answered' = answered /\ forgotten' = forgotten /\ KnownViews' = KnownViews
    BY <1>8 DEF Incr, IncrFails, kafkaVars, historyVars, Flat, KnownViews
  <2>3. Goto(r, pc'[r], objects) /\ visitor' = visitor
    BY <1>5, <2>1
  <2>4. Kept \subseteq Kept'
    BY <1>2, <2>1, <2>2, <2>3, StillKept
  <2>. QED  BY <2>2, <2>3, <2>4, VisitsAreKept
<1>9. CASE Send(r)
  <2>1. Goto(r, pc'[r], {}) /\ visitor' = visitor
    BY <1>5, <1>9 DEF Send
  <2>2. Flat(queue)' = Flat(queue) \cup Pairs(unique[r], visitor[r])
    <3>1. ASSUME NEW m PROVE Flat(queue \cup {m}) = Flat(queue) \cup Pairs(m.ids, m.visitor)
      BY DEF Flat
    <3>2. Flat(queue)' = Flat(queue \cup {Payload(unique[r], visitor[r])})
      BY <1>9 DEF Send, Flat
    <3>. QED  BY <3>1, <3>2 DEF Payload
  <2>3. logs' = logs /\ forgotten' = forgotten /\ KnownViews' = KnownViews
    BY <1>9 DEF Send, redisVars, KnownViews
  <2>4. Kept \subseteq Kept'
    BY <2>1, <2>2, <2>3, StillKept
  <2>5. answered' = answered \cup Pairs(ids[r], visitor[r])
    BY <1>9 DEF Send, Answer
  <2>6. \A q \in Requests : ids'[q] \subseteq ids[q]
    BY <1>4, <1>9 DEF Send
  <2>. QED  BY <1>3, <2>1, <2>3, <2>4, <2>5, <2>6, VisitsAreKept
<1>10. CASE Die(r)
  <2>1. Goto(r, pc'[r], {}) /\ visitor' = visitor
    BY <1>5, <1>10 DEF Die
  <2>2. /\ logs' = logs /\ KnownViews' = KnownViews /\ answered' = answered
        /\ Flat(queue)' = Flat(queue) /\ forgotten' = forgotten \cup Pairs(unique[r], visitor[r])
    BY <1>10 DEF Die, redisVars, kafkaVars, KnownViews, Flat
  <2>3. Kept \subseteq Kept'
    BY <2>1, <2>2, StillKept
  <2>4. \A q \in Requests : ids'[q] \subseteq ids[q]
    BY <1>4, <1>10 DEF Die
  <2>. QED  BY <2>1, <2>2, <2>3, <2>4, VisitsAreKept
<1>. QED  BY <1>6, <1>7, <1>8, <1>9, <1>10 DEF RequestStep

LEMMA OthersKeep ==
  ASSUME TypeOK, VisitIsKept, IdsAreKept, UNCHANGED requestVars, UNCHANGED answered,
         hll' = hll \/ \E o \in Objects : hll' = [hll EXCEPT ![o] = {}],
         logs \cup Flat(queue) \cup forgotten \subseteq logs' \cup Flat(queue)' \cup forgotten'
  PROVE  VisitIsKept' /\ IdsAreKept'
<1>1. InFlight' = InFlight /\ ids' = ids /\ visitor' = visitor
  BY DEF InFlight, requestVars
<1>2. KnownViews' \subseteq KnownViews
  BY DEF KnownViews, TypeOK
<1>3. Kept \subseteq Kept'
  BY <1>1 DEF Kept
<1>. QED  BY <1>1, <1>2, <1>3, VisitsAreKept

LEMMA KeptHolds ==
  ASSUME TypeOK, VisitIsKept, IdsAreKept, [Next]_vars
  PROVE  VisitIsKept' /\ IdsAreKept'
<1>. USE DEF kafkaVars, requestVars, historyVars, redisVars, readerVars
<1>1. CASE UNCHANGED vars
  BY <1>1, OthersKeep DEF vars, Flat
<1>2. ASSUME NEW r \in Requests, RequestStep(r) PROVE VisitIsKept' /\ IdsAreKept'
  BY <1>2, RequestKeeps
<1>3. CASE Worker
  <2>1. UNCHANGED requestVars /\ UNCHANGED answered /\ hll' = hll
    BY <1>3 DEF Worker, TakeBatch, InsertBatch, Redeliver, InsertTwice, SkipBatch, Handled
  <2>2. CASE TakeBatch
    BY <2>1, <2>2, OthersKeep DEF TakeBatch, Flat
  <2>3. CASE InsertBatch \/ SkipBatch
    <3>1. logs' \cup forgotten' = logs \cup forgotten \cup Flat(batch) /\ queue' = queue \ batch
      BY <2>3 DEF InsertBatch, SkipBatch, Handled
    <3>2. Flat(queue) \subseteq Flat(batch) \cup Flat(queue \ batch)
      BY DEF Flat
    <3>3. Flat(queue)' = Flat(queue \ batch)
      BY <3>1 DEF Flat
    <3>4. logs \cup Flat(queue) \cup forgotten \subseteq logs' \cup Flat(queue)' \cup forgotten'
      BY <3>1, <3>2, <3>3
    <3>. QED  BY <2>1, <3>4, OthersKeep
  <2>4. CASE Redeliver \/ InsertTwice
    <3>1. logs \subseteq logs' /\ queue' = queue /\ forgotten' = forgotten
      BY <2>4 DEF Redeliver, InsertTwice, Handled
    <3>2. Flat(queue)' = Flat(queue)
      BY <3>1 DEF Flat
    <3>. QED  BY <2>1, <3>1, <3>2, OthersKeep
  <2>. QED  BY <1>3, <2>2, <2>3, <2>4 DEF Worker
<1>4. ASSUME NEW d \in Readers, ReaderStep(d) PROVE VisitIsKept' /\ IdsAreKept'
  <2>1. ReaderOnly
    BY <1>4 DEF ReaderStep, Get, GetFails, Acquire, TimesOut, AcquireFails, Again, AgainFails, Count,
                Set, SetFails, Direct
  <2>. QED  BY <2>1, OthersKeep DEF ReaderOnly, Flat
<1>5. ASSUME NEW o \in Objects, HllExpires(o) \/ CounterExpires(o) \/ LockExpires(o)
      PROVE  VisitIsKept' /\ IdsAreKept'
  <2>1. /\ UNCHANGED requestVars /\ UNCHANGED answered /\ logs' = logs /\ forgotten' = forgotten
        /\ hll' = hll \/ hll' = [hll EXCEPT ![o] = {}]
        /\ Flat(queue)' = Flat(queue)
    BY <1>5 DEF HllExpires, CounterExpires, LockExpires, Expires, Flat
  <2>2. logs \cup Flat(queue) \cup forgotten \subseteq logs' \cup Flat(queue)' \cup forgotten'
    BY <2>1
  <2>3. hll' = hll \/ \E p \in Objects : hll' = [hll EXCEPT ![p] = {}]
    BY <2>1
  <2>. QED  BY <2>1, <2>2, <2>3, OthersKeep
<1>. QED  BY <1>1, <1>2, <1>3, <1>4, <1>5 DEF Next

-----------------------------------------------------------------------------
(* Nothing is counted twice *)

\* The numbers CountsInv compares
LEMMA Numbers ==
  ASSUME NEW o \in Objects
  PROVE  /\ Cardinality(Sent(o)) \in Nat /\ Cardinality(Pending(o)) \in Nat
         /\ Cardinality(Uncounted(o)) \in Nat
BY ViewsAreFinite, FS_CardinalityType

\* A request's step: each sum stays behind the views that passed for new ones.
SumsKept(o) ==
  /\ Cardinality(Sent(o)') + Cardinality(Pending(o)') + newViews[o]
       <= Cardinality(Sent(o)) + Cardinality(Pending(o)) + newViews'[o]
  /\ counter'[o].views + Cardinality(Uncounted(o)') + newViews[o]
       <= counter[o].views + Cardinality(Uncounted(o)) + newViews'[o]
  /\ Cardinality(Uncounted(o)') + newViews[o] <= Cardinality(Uncounted(o)) + newViews'[o]
  /\ Cardinality(Sent(o)') \in Nat /\ Cardinality(Pending(o)') \in Nat
  /\ Cardinality(Uncounted(o)') \in Nat

LEMMA SumsSuffice ==
  ASSUME TypeOK, TypeOK', CountsInv, UNCHANGED readerVars, \A o \in Objects : SumsKept(o)
  PROVE  CountsInv'
<1>. SUFFICES ASSUME NEW o \in Objects
     PROVE  /\ Cardinality(Sent(o)') + Cardinality(Pending(o)') <= newViews'[o]
            /\ counter'[o].views + Cardinality(Uncounted(o)') <= newViews'[o]
            /\ \A d \in Readers : rpc'[d] = "set" /\ o \in missing'[d] =>
                 counted'[d][o] + Cardinality(Uncounted(o)') <= newViews'[o]
  BY DEF CountsInv
<1>1. /\ newViews[o] \in Nat /\ newViews'[o] \in Nat
      /\ counter[o].views \in Nat /\ counter'[o].views \in Nat
  BY DEF TypeOK
<1>2. SumsKept(o)
  OBVIOUS
<1>3. ASSUME NEW d \in Readers, rpc'[d] = "set", o \in missing'[d]
      PROVE  counted'[d][o] + Cardinality(Uncounted(o)') <= newViews'[o]
  <2>1. counted'[d][o] = counted[d][o] /\ counted[d][o] \in Nat
    BY DEF readerVars, TypeOK
  <2>2. counted[d][o] + Cardinality(Uncounted(o)) <= newViews[o]
    BY <1>3 DEF CountsInv, readerVars
  <2>. QED  BY <1>1, <1>2, <2>1, <2>2, Numbers DEF SumsKept
<1>. QED  BY <1>1, <1>2, <1>3, Numbers DEF SumsKept, CountsInv

\* Where the step of a request leaves it, by object
LEMMA WhereItGoes ==
  ASSUME TypeOK, NEW r \in Requests, NEW next \in {"incr", "send", "done"}, NEW objects,
         Goto(r, next, objects), NEW o \in Objects
  PROVE  /\ Pending(o)' \subseteq Pending(o) \cup {r}
         /\ Uncounted(o)' \subseteq Uncounted(o) \cup {r}
         /\ o \notin objects => r \notin Pending(o)' /\ r \notin Uncounted(o)'
         /\ next # "incr" => r \notin Uncounted(o)'
         /\ next = "done" => r \notin Pending(o)'
BY DEF Goto, TypeOK, Pending, Uncounted

LEMMA RequestCounts ==
  ASSUME TypeOK, TypeOK', CountsInv, NEW r \in Requests, RequestStep(r)
  PROVE  CountsInv'
<1>. DEFINE C(S) == Cardinality(S)
<1>1. UNCHANGED readerVars
  BY DEF RequestStep, PfAdd, PfAddFails, Incr, IncrFails, Send, Die
<1>. SUFFICES ASSUME NEW o \in Objects PROVE SumsKept(o)
  BY <1>1, SumsSuffice
<1>2. /\ newViews[o] \in Nat /\ newViews'[o] \in Nat /\ counter[o] \in [views : Nat, ttl : BOOLEAN, set : BOOLEAN]
      /\ counter[o].views \in Nat /\ counter'[o].views \in Nat
      /\ unique[r] \in SUBSET Objects
  BY DEF TypeOK
<1>3. /\ IsFiniteSet(Sent(o)) /\ IsFiniteSet(Pending(o)) /\ IsFiniteSet(Uncounted(o))
      /\ Cardinality(Sent(o)) \in Nat /\ Cardinality(Pending(o)) \in Nat
      /\ Cardinality(Uncounted(o)) \in Nat
  BY ViewsAreFinite, Numbers
<1>4. ASSUME NEW objects, AsNew(objects)
      PROVE  newViews'[o] = IF o \in objects THEN newViews[o] + 1 ELSE newViews[o]
  BY <1>4 DEF AsNew
<1>5. ASSUME NEW objects, counter' = Incremented(objects)
      PROVE  counter'[o].views = IF o \in objects THEN counter[o].views + 1 ELSE counter[o].views
  BY <1>5 DEF Incremented, Counter
<1>6. CASE PfAdd(r)
  <2>1. PICK objects \in (SUBSET Objects) \ {{}} :
          \E found \in SUBSET New(r, objects) :
          /\ IF found = New(r, objects) THEN UNCHANGED faults ELSE Fault
          /\ IF found = {} THEN Goto(r, "done", {}) /\ Answer(r, objects) /\ UNCHANGED ids
                           ELSE Goto(r, "incr", found) /\ Sets(r, objects) /\ UNCHANGED answered
          /\ AsNew(found)
          /\ forgotten' = forgotten \cup Pairs(New(r, objects) \ found, visitor[r])
          /\ hll' = Known(r, objects)
    BY <1>6 DEF PfAdd
  <2>2. PICK found \in SUBSET New(r, objects), next \in {"incr", "done"} : Goto(r, next, found) /\ AsNew(found)
    <3>1. PICK found \in SUBSET New(r, objects) :
            AsNew(found) /\ (Goto(r, "done", found) \/ Goto(r, "incr", found))
      BY <2>1
    <3>. QED  BY <3>1
  <2>3. Sent(o)' = Sent(o) /\ counter' = counter
    BY <1>6 DEF PfAdd, kafkaVars, Sent, Flat
  <2>4. CASE o \in found
    <3>1. Pending(o)' \subseteq Pending(o) \cup {r} /\ Uncounted(o)' \subseteq Uncounted(o) \cup {r}
      BY <2>2, WhereItGoes
    <3>2. /\ C(Pending(o)') <= C(Pending(o)) + 1 /\ C(Pending(o)') \in Nat
          /\ C(Uncounted(o)') <= C(Uncounted(o)) + 1 /\ C(Uncounted(o)') \in Nat
      BY <1>3, <3>1, AtMostOneMore
    <3>. QED  BY <1>2, <1>3, <1>4, <2>2, <2>3, <2>4, <3>2 DEF SumsKept
  <2>5. CASE o \notin found
    <3>1. Pending(o)' \subseteq Pending(o) /\ Uncounted(o)' \subseteq Uncounted(o)
      BY <2>2, <2>5, WhereItGoes
    <3>2. /\ C(Pending(o)') <= C(Pending(o)) /\ C(Pending(o)') \in Nat
          /\ C(Uncounted(o)') <= C(Uncounted(o)) /\ C(Uncounted(o)') \in Nat
      BY <1>3, <3>1, NoMore
    <3>. QED  BY <1>2, <1>3, <1>4, <2>2, <2>3, <2>5, <3>2 DEF SumsKept
  <2>. QED  BY <2>4, <2>5
<1>7. CASE PfAddFails(r)
  <2>1. PICK objects : Goto(r, "send", objects) /\ AsNew(objects)
    BY <1>7 DEF PfAddFails
  <2>2. Sent(o)' = Sent(o) /\ counter' = counter
    BY <1>7 DEF PfAddFails, kafkaVars, Sent, Flat
  <2>3. Uncounted(o)' \subseteq Uncounted(o)
    BY <2>1, WhereItGoes
  <2>4. C(Uncounted(o)') <= C(Uncounted(o)) /\ C(Uncounted(o)') \in Nat
    BY <1>3, <2>3, NoMore
  <2>5. CASE o \in objects
    <3>1. Pending(o)' \subseteq Pending(o) \cup {r}
      BY <2>1, WhereItGoes
    <3>2. C(Pending(o)') <= C(Pending(o)) + 1 /\ C(Pending(o)') \in Nat
      BY <1>3, <3>1, AtMostOneMore
    <3>. QED  BY <1>2, <1>3, <1>4, <2>1, <2>2, <2>4, <2>5, <3>2 DEF SumsKept
  <2>6. CASE o \notin objects
    <3>1. Pending(o)' \subseteq Pending(o)
      BY <2>1, <2>6, WhereItGoes
    <3>2. C(Pending(o)') <= C(Pending(o)) /\ C(Pending(o)') \in Nat
      BY <1>3, <3>1, NoMore
    <3>. QED  BY <1>2, <1>3, <1>4, <2>1, <2>2, <2>4, <2>6, <3>2 DEF SumsKept
  <2>. QED  BY <2>5, <2>6
<1>8. CASE Incr(r) \/ IncrFails(r)
  <2>1. PICK objects \in SUBSET Objects, done \in SUBSET unique[r] :
          /\ Goto(r, "send", objects) /\ unique[r] \subseteq objects /\ counter' = Incremented(done)
          /\ newViews'[o] = IF o \in objects \ unique[r] THEN newViews[o] + 1 ELSE newViews[o]
    <3>1. CASE Incr(r)
      <4>1. /\ Goto(r, "send", unique[r]) /\ counter' = Incremented(unique[r])
            /\ newViews'[o] = newViews[o]
        BY <3>1 DEF Incr, historyVars
      <4>. QED  BY <1>2, <4>1
    <3>2. CASE IncrFails(r)
      <4>1. PICK done \in SUBSET unique[r] : counter' = Incremented(done)
        BY <3>2 DEF IncrFails
      <4>2. /\ Goto(r, "send", ids[r]) /\ AsNew(ids[r] \ unique[r]) /\ unique[r] \subseteq ids[r]
            /\ ids[r] \in SUBSET Objects
        BY <3>2 DEF IncrFails, TypeOK
      <4>3. newViews'[o] = IF o \in ids[r] \ unique[r] THEN newViews[o] + 1 ELSE newViews[o]
        BY <1>4, <4>2
      <4>. QED  BY <4>1, <4>2, <4>3
    <3>. QED  BY <1>8, <3>1, <3>2
  <2>2. Sent(o)' = Sent(o)
    BY <1>8 DEF Incr, IncrFails, kafkaVars, Sent, Flat
  <2>3. Uncounted(o)' \subseteq Uncounted(o) \ {r}
    BY <2>1, WhereItGoes
  <2>4. CASE o \in unique[r]
    <3>1. r \in Pending(o) /\ r \in Uncounted(o)
      BY <1>8, <2>4 DEF Incr, IncrFails, Pending, Uncounted
    <3>2. C(Uncounted(o)') + 1 <= C(Uncounted(o)) /\ C(Uncounted(o)') \in Nat
      BY <1>3, <2>3, <3>1, OneLess
    <3>3. Pending(o)' \subseteq Pending(o)
      BY <2>1, <3>1, WhereItGoes
    <3>4. C(Pending(o)') <= C(Pending(o)) /\ C(Pending(o)') \in Nat
      BY <1>3, <3>3, NoMore
    <3>5. counter'[o].views <= counter[o].views + 1 /\ newViews'[o] = newViews[o]
      BY <1>2, <1>5, <2>1, <2>4
    <3>. QED  BY <1>2, <1>3, <2>2, <3>2, <3>4, <3>5 DEF SumsKept
  <2>5. CASE o \notin unique[r]
    <3>1. C(Uncounted(o)') <= C(Uncounted(o)) /\ C(Uncounted(o)') \in Nat
      BY <1>3, <2>3, NoMore
    <3>2. counter'[o].views = counter[o].views
      BY <1>5, <2>1, <2>5
    <3>3. CASE o \in objects
      <4>1. Pending(o)' \subseteq Pending(o) \cup {r}
        BY <2>1, WhereItGoes
      <4>2. C(Pending(o)') <= C(Pending(o)) + 1 /\ C(Pending(o)') \in Nat
        BY <1>3, <4>1, AtMostOneMore
      <4>. QED  BY <1>2, <1>3, <2>1, <2>2, <2>5, <3>1, <3>2, <3>3, <4>2 DEF SumsKept
    <3>4. CASE o \notin objects
      <4>1. Pending(o)' \subseteq Pending(o)
        BY <2>1, <3>4, WhereItGoes
      <4>2. C(Pending(o)') <= C(Pending(o)) /\ C(Pending(o)') \in Nat
        BY <1>3, <4>1, NoMore
      <4>. QED  BY <1>2, <1>3, <2>1, <2>2, <3>1, <3>2, <3>4, <4>2 DEF SumsKept
    <3>. QED  BY <3>3, <3>4
  <2>. QED  BY <2>4, <2>5
<1>9. CASE Send(r) \/ Die(r)
  <2>1. Goto(r, "done", {}) /\ newViews' = newViews /\ counter' = counter
    BY <1>9 DEF Send, Die, redisVars
  <2>2. Pending(o)' \subseteq Pending(o) \ {r} /\ Uncounted(o)' \subseteq Uncounted(o)
    BY <2>1, WhereItGoes
  <2>3. C(Uncounted(o)') <= C(Uncounted(o)) /\ C(Uncounted(o)') \in Nat
    BY <1>3, <2>2, NoMore
  <2>4. CASE Send(r) /\ o \in unique[r]
    <3>1. r \in Pending(o)
      BY <2>4 DEF Send, Pending
    <3>2. C(Pending(o)') + 1 <= C(Pending(o)) /\ C(Pending(o)') \in Nat
      BY <1>3, <2>2, <3>1, OneLess
    <3>3. Sent(o)' \subseteq Sent(o) \cup {visitor[r]}
      BY <2>4 DEF Send, Sent, Flat, Payload, Pairs
    <3>4. C(Sent(o)') <= C(Sent(o)) + 1 /\ C(Sent(o)') \in Nat
      BY <1>3, <3>3, AtMostOneMore
    <3>. QED  BY <1>2, <1>3, <2>1, <2>3, <3>2, <3>4 DEF SumsKept
  <2>5. CASE Die(r) \/ o \notin unique[r]
    <3>1. Sent(o)' \subseteq Sent(o)
      BY <1>9, <2>5 DEF Send, Die, kafkaVars, Sent, Flat, Payload, Pairs
    <3>2. /\ C(Sent(o)') <= C(Sent(o)) /\ C(Sent(o)') \in Nat
          /\ C(Pending(o)') <= C(Pending(o)) /\ C(Pending(o)') \in Nat
      BY <1>3, <2>2, <3>1, NoMore
    <3>. QED  BY <1>2, <1>3, <2>1, <2>3, <3>2 DEF SumsKept
  <2>. QED  BY <1>9, <2>4, <2>5
<1>. QED  BY <1>6, <1>7, <1>8, <1>9 DEF RequestStep

LEMMA WorkerCounts ==
  ASSUME TypeOK, TypeOK', CountsInv, Worker
  PROVE  CountsInv'
<1>1. UNCHANGED <<counter, newViews, requestVars, readerVars>>
  BY DEF Worker, TakeBatch, InsertBatch, Redeliver, InsertTwice, SkipBatch, Handled,
         redisVars, historyVars
<1>2. Flat(batch) \subseteq Flat(queue)
  BY DEF TypeOK, Flat
<1>3. logs' \cup Flat(queue)' \subseteq logs \cup Flat(queue)
  <2>1. CASE TakeBatch
    BY <2>1 DEF TakeBatch, Flat
  <2>2. ASSUME NEW rows \in SUBSET Flat(batch), NEW left \in SUBSET queue, Handled(rows, left)
        PROVE  logs' \cup Flat(queue)' \subseteq logs \cup Flat(queue)
    <3>1. Flat(left) \subseteq Flat(queue)
      BY DEF Flat
    <3>2. Flat(queue)' = Flat(left)
      BY <2>2 DEF Handled, Flat
    <3>. QED  BY <1>2, <2>2, <3>1, <3>2 DEF Handled
  <2>3. queue \in SUBSET queue /\ queue \ batch \in SUBSET queue
        /\ {} \in SUBSET Flat(batch) /\ Flat(batch) \in SUBSET Flat(batch)
    OBVIOUS
  <2>. QED
    BY <2>1, <2>2, <2>3 DEF Worker, InsertBatch, Redeliver, InsertTwice, SkipBatch
<1>. SUFFICES ASSUME NEW o \in Objects PROVE SumsKept(o)
  BY <1>1, SumsSuffice
<1>4. Sent(o)' \subseteq Sent(o) /\ Pending(o)' = Pending(o) /\ Uncounted(o)' = Uncounted(o)
  BY <1>1, <1>3 DEF Sent, Pending, Uncounted, requestVars
<1>5. Cardinality(Sent(o)') \in Nat /\ Cardinality(Sent(o)') <= Cardinality(Sent(o))
  BY <1>4, ViewsAreFinite, NoMore
<1>6. newViews[o] \in Nat /\ counter[o].views \in Nat
  BY DEF TypeOK
<1>. QED  BY <1>1, <1>4, <1>5, <1>6, Numbers DEF SumsKept

\* A reader shows what the table held when it counted; a refill is never ahead.
LEMMA ReaderCounts ==
  ASSUME TypeOK, TypeOK', CountsInv, NEW d \in Readers, ReaderStep(d)
  PROVE  CountsInv'
<1>. SUFFICES ASSUME NEW o \in Objects
     PROVE  /\ Cardinality(Sent(o)') + Cardinality(Pending(o)') <= newViews'[o]
            /\ counter'[o].views + Cardinality(Uncounted(o)') <= newViews'[o]
            /\ \A e \in Readers : rpc'[e] = "set" /\ o \in missing'[e] =>
                 counted'[e][o] + Cardinality(Uncounted(o)') <= newViews'[o]
  BY DEF CountsInv
<1>1. ReaderOnly
  BY DEF ReaderStep, Get, GetFails, Acquire, TimesOut, AcquireFails, Again, AgainFails, Count,
         Set, SetFails, Direct
<1>2. /\ Sent(o)' = Sent(o) /\ Pending(o)' = Pending(o) /\ Uncounted(o)' = Uncounted(o)
      /\ newViews' = newViews
  BY <1>1 DEF ReaderOnly, kafkaVars, requestVars, historyVars, Sent, Flat, Pending, Uncounted
<1>3. /\ Cardinality(Sent(o)) + Cardinality(Pending(o)) <= newViews[o]
      /\ counter[o].views + Cardinality(Uncounted(o)) <= newViews[o]
      /\ \A e \in Readers : rpc[e] = "set" /\ o \in missing[e] =>
           counted[e][o] + Cardinality(Uncounted(o)) <= newViews[o]
  BY DEF CountsInv
<1>4. /\ newViews[o] \in Nat /\ counter[o].views \in Nat
      /\ \A e \in Readers : counted[e][o] \in Nat
  BY DEF TypeOK
<1>5. Logged(o) \in Nat /\ Logged(o) + Cardinality(Uncounted(o)) <= newViews[o]
  <2>1. /\ Cardinality({v \in Visitors : <<o, v>> \in logs}) \in Nat
        /\ Cardinality({v \in Visitors : <<o, v>> \in logs}) <= Cardinality(Sent(o))
    <3>1. {v \in Visitors : <<o, v>> \in logs} \subseteq Sent(o)
      BY DEF Sent
    <3>. QED  BY <3>1, ViewsAreFinite, NoMore
  <2>2. Cardinality(Uncounted(o)) <= Cardinality(Pending(o))
    <3>1. Uncounted(o) \subseteq Pending(o)
      BY DEF Uncounted, Pending
    <3>. QED  BY <3>1, ViewsAreFinite, NoMore
  <2>. QED  BY <1>3, <1>4, <2>1, <2>2, Numbers DEF Logged
<1>6. CASE counter' = counter
  <2>1. ASSUME NEW e \in Readers, rpc'[e] = "set", o \in missing'[e]
        PROVE  counted'[e][o] + Cardinality(Uncounted(o)) <= newViews[o]
    <3>1. CASE rpc[e] = "set" /\ o \in missing[e] /\ counted'[e] = counted[e]
      BY <1>3, <3>1
    <3>2. CASE e = d /\ Count(d)
      <4>1. counted'[d][o] = Logged(o)
        BY <2>1, <3>2 DEF Count, At, TypeOK
      <4>. QED  BY <1>5, <3>2, <4>1
    <3>3. (rpc[e] = "set" /\ o \in missing[e] /\ counted'[e] = counted[e]) \/ (e = d /\ Count(d))
      BY <2>1 DEF ReaderStep, Get, GetFails, Acquire, TimesOut, AcquireFails, Again, AgainFails, Count,
                  Set, SetFails, Direct, LockedFails, Moves, Ends, At, TypeOK
    <3>. QED  BY <3>1, <3>2, <3>3
  <2>. QED  BY <1>2, <1>3, <1>6, <2>1
<1>7. CASE Set(d) \/ SetFails(d)
  <2>1. PICK done \in SUBSET missing[d] : counter' = Filled(d, done)
    BY <1>7 DEF Set, SetFails
  <2>2. rpc[d] = "set"
    BY <1>7 DEF Set, SetFails
  <2>3. counter'[o].views + Cardinality(Uncounted(o)) <= newViews[o]
    <3>1. CASE o \in done
      <4>1. counter'[o].views = counted[d][o]
        BY <2>1, <3>1 DEF Filled, Counter
      <4>. QED  BY <1>3, <2>1, <2>2, <3>1, <4>1
    <3>2. CASE o \notin done
      <4>1. counter'[o] = counter[o]
        BY <2>1, <3>2 DEF Filled
      <4>. QED  BY <1>3, <4>1
    <3>. QED  BY <3>1, <3>2
  <2>4. ASSUME NEW e \in Readers, rpc'[e] = "set", o \in missing'[e]
        PROVE  counted'[e][o] + Cardinality(Uncounted(o)) <= newViews[o]
    <3>1. rpc[e] = "set" /\ o \in missing[e] /\ counted'[e] = counted[e]
      BY <1>7, <2>4 DEF Set, SetFails, LockedFails, Moves, Ends, At, TypeOK
    <3>. QED  BY <1>3, <3>1
  <2>. QED  BY <1>2, <1>3, <2>3, <2>4
<1>8. counter' = counter \/ Set(d) \/ SetFails(d)
  BY DEF ReaderStep, Get, GetFails, Acquire, TimesOut, AcquireFails, Again, AgainFails, Count, Direct
<1>. QED  BY <1>6, <1>7, <1>8

LEMMA ExpiryCounts ==
  ASSUME TypeOK, CountsInv, NEW p \in Objects,
         HllExpires(p) \/ CounterExpires(p) \/ LockExpires(p)
  PROVE  CountsInv'
<1>. USE DEF redisVars, kafkaVars, requestVars, historyVars
<1>1. /\ UNCHANGED <<rpc, missing, counted, newViews, pc, unique, queue, logs>>
      /\ counter' = counter \/ counter' = [counter EXCEPT ![p] = NoCounter]
  BY DEF HllExpires, CounterExpires, LockExpires, Expires
<1>. SUFFICES ASSUME NEW o \in Objects
     PROVE  /\ Cardinality(Sent(o)') + Cardinality(Pending(o)') <= newViews'[o]
            /\ counter'[o].views + Cardinality(Uncounted(o)') <= newViews'[o]
            /\ \A e \in Readers : rpc'[e] = "set" /\ o \in missing'[e] =>
                 counted'[e][o] + Cardinality(Uncounted(o)') <= newViews'[o]
  BY DEF CountsInv
<1>2. Sent(o)' = Sent(o) /\ Pending(o)' = Pending(o) /\ Uncounted(o)' = Uncounted(o)
  BY <1>1 DEF Sent, Flat, Pending, Uncounted
<1>3. counter'[o].views <= counter[o].views /\ counter'[o].views \in Nat /\ counter[o].views \in Nat
  BY <1>1 DEF TypeOK, NoCounter
<1>4. newViews[o] \in Nat
  BY DEF TypeOK
<1>. QED  BY <1>1, <1>2, <1>3, <1>4, Numbers DEF CountsInv

-----------------------------------------------------------------------------

LEMMA ViewsInit == Init => ViewsInv
<1>. SUFFICES ASSUME Init PROVE ViewsInv
  OBVIOUS
<1>1. Cardinality({}) = 0
  BY FS_EmptySet
<1>2. TypeOK
  BY <1>1, ViewCountsAssumption DEF Init, TypeOK, NoCounter, None
<1>3. WaitsForOne
  BY DEF Init, WaitsForOne
<1>4. VisitIsKept /\ IdsAreKept
  BY DEF Init, VisitIsKept, IdsAreKept, KnownViews, Pairs
<1>5. ASSUME NEW o \in Objects PROVE Sent(o) = {} /\ Pending(o) = {} /\ Uncounted(o) = {}
  BY DEF Init, Sent, Pending, Uncounted, Flat
<1>6. ASSUME NEW o \in Objects PROVE counter[o].views = 0 /\ newViews[o] = 0
  BY DEF Init, NoCounter
<1>7. \A d \in Readers : rpc[d] # "set"
  BY DEF Init
<1>8. CountsInv
  <2>. SUFFICES ASSUME NEW o \in Objects
       PROVE  /\ Cardinality(Sent(o)) + Cardinality(Pending(o)) <= newViews[o]
              /\ counter[o].views + Cardinality(Uncounted(o)) <= newViews[o]
    BY <1>7 DEF CountsInv
  <2>1. Cardinality(Sent(o)) = 0 /\ Cardinality(Pending(o)) = 0 /\ Cardinality(Uncounted(o)) = 0
    BY <1>1, <1>5
  <2>. QED  BY <1>6, <2>1
<1>. QED  BY <1>2, <1>3, <1>4, <1>8 DEF ViewsInv

\* The inductive invariant
THEOREM ViewsInvariant == Spec => []ViewsInv
<1>1. ViewsInv /\ [Next]_vars => ViewsInv'
  <2>. SUFFICES ASSUME ViewsInv, [Next]_vars PROVE ViewsInv'
    OBVIOUS
  <2>1. TypeOK' /\ WaitsForOne' /\ VisitIsKept' /\ IdsAreKept'
    BY TypesHold, KeptHolds DEF ViewsInv
  <2>2. CountsInv'
    <3>1. CASE UNCHANGED vars
      BY <3>1 DEF ViewsInv, CountsInv, Sent, Pending, Uncounted, Flat, vars, redisVars, kafkaVars,
                  requestVars, readerVars, historyVars
    <3>. QED
      BY <2>1, <3>1, RequestCounts, WorkerCounts, ReaderCounts, ExpiryCounts DEF ViewsInv, Next
  <2>. QED  BY <2>1, <2>2 DEF ViewsInv
<1>. QED  BY <1>1, ViewsInit, PTL DEF Spec

\* The types: a lock is held by the one reader that refills its counter, and a
\* request past PFADD has views to send (mixins.py 97-127, 145-192).
THEOREM ViewCountsTypeCorrect == Spec => []TypeOK
BY ViewsInvariant, PTL DEF ViewsInv

\* Every view that was answered, or that the HyperLogLog will not let pass
\* again, is in the table, in the topic, in a request, or was dropped in a way
\* the code accepts (mixins.py 145-192, consumers.py 29-34).
THEOREM EveryVisitIsKept == Spec => []VisitIsKept
BY ViewsInvariant, PTL DEF ViewsInv

\* No counter shows more views than passed for new ones, however increments,
\* refills and redeliveries interleave (mixins.py 104-114, 158-170).
THEOREM NothingCountedTwice == Spec => []NoDoubleCount
<1>1. ViewsInv => NoDoubleCount
  <2>. SUFFICES ASSUME ViewsInv, NEW o \in Objects PROVE counter[o].views <= newViews[o]
    BY DEF NoDoubleCount
  <2>1. counter[o].views \in Nat /\ newViews[o] \in Nat
    BY DEF ViewsInv, TypeOK
  <2>2. counter[o].views + Cardinality(Uncounted(o)) <= newViews[o]
    BY DEF ViewsInv, CountsInv
  <2>. QED  BY <2>1, <2>2, Numbers
<1>. QED  BY <1>1, ViewsInvariant, PTL
=============================================================================
