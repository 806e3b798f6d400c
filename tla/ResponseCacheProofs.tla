------------------------ MODULE ResponseCacheProofs ------------------------
(***************************************************************************)
(* The response cache for any number of readers and writers, any clock and *)
(* any number of edits and faults: nobody who comes after an invalidation  *)
(* is shown data from before it, unless a millisecond was taken twice.     *)
(***************************************************************************)
EXTENDS ResponseCache, TLAPS

\* Who took a version and has not set it yet, and who works with one.
Setting(a) == pc[a] = "set"
Works(a) == pc[a] \in {"set", "get", "query", "store"}

\* What is stored under t, and what will be, is not older than revision f.
NotBefore(t, f) ==
  /\ body[t] # Nothing => f <= body[t]
  /\ \A d \in Actors : pc[d] = "store" /\ stamp[d] = t => f <= data[d]

\* Versions in use were taken by somebody.
InUse ==
  /\ version # Nothing => version \in taken
  /\ \A a \in Actors : Works(a) => stamp[a] \in taken

\* A version that waits to be set is nobody else's, and nothing is stored
\* under it: a late set puts an empty version in force, not an old one.
SetOnce ==
  \A a \in Actors : Setting(a) =>
    /\ version # stamp[a] /\ body[stamp[a]] = Nothing
    /\ \A b \in Actors : Works(b) /\ stamp[b] = stamp[a] => a = b

\* The version in force shows no data from before the last invalidation, that
\* of a reader none from before its own.
VersionIsFresh == version # Nothing => NotBefore(version, floor)
ReadersAreFresh ==
  \A d \in Readers : pc[d] \in {"get", "query", "store"} => NotBefore(stamp[d], since[d])

\* A reader answers last.
AnswersLast == \A d \in Readers : answer[d] # Nothing => pc[d] = "done"

CacheInv ==
  /\ TypeOK /\ InUse /\ AnswersLast /\ FreshAfterInvalidation
  /\ ~reused => SetOnce /\ VersionIsFresh /\ ReadersAreFresh

-----------------------------------------------------------------------------

LEMMA CacheInit == Init => CacheInv
<1>. SUFFICES ASSUME Init PROVE CacheInv
  OBVIOUS
<1>1. TypeOK
  <2>1. /\ now = 0 /\ revision = 0 /\ edits = 0 /\ faults = 0 /\ floor = 0
        /\ taken = {} /\ since \in [Readers -> {0}]
    BY DEF Init
  <2>2. /\ version = Nothing /\ body \in [Versions -> Nat \cup {Nothing}]
        /\ \A t \in Versions : body[t] = Nothing
        /\ answer \in [Readers -> Nat \cup {Nothing}]
        /\ pc \in [Actors -> ReaderPc \cup WriterPc]
    BY DEF Init, ReaderPc, WriterPc
  <2>3. /\ stamp \in [Actors -> Versions] /\ data \in [Actors -> Nat]
        /\ \A a \in Actors : stamp[a] = 0 /\ data[a] = 0
    BY <2>1, CacheAssumption DEF Init, Versions
  <2>4. 0 \in Versions /\ 0 \in 0..MaxEdits /\ 0 \in 0..MaxFaults /\ 0 \in Nat /\ 0..0 = {0}
    BY CacheAssumption DEF Versions
  <2>5. floor \in 0..revision /\ since \in [Readers -> 0..floor] /\ taken \subseteq 0..now
    BY <2>1, <2>4
  <2>6. reused \in BOOLEAN
    BY DEF Init
  <2>7. \A a \in Actors : data[a] <= revision /\ stamp[a] <= now
    BY <2>1, <2>3
  <2>. QED  BY <2>1, <2>2, <2>3, <2>4, <2>5, <2>6, <2>7 DEF TypeOK
<1>2. \A a \in Actors : ~Works(a) /\ ~Setting(a) /\ pc[a] # "store"
  BY DEF Init, Works, Setting
<1>3. InUse /\ AnswersLast /\ FreshAfterInvalidation /\ SetOnce /\ VersionIsFresh /\ ReadersAreFresh
  BY <1>2 DEF Init, InUse, AnswersLast, FreshAfterInvalidation, SetOnce, VersionIsFresh, ReadersAreFresh, Works, Actors
<1>. QED  BY <1>1, <1>3 DEF CacheInv

\* What a step of one caller leaves alone
Alone(a) ==
  \A b \in Actors : b # a => pc'[b] = pc[b] /\ stamp'[b] = stamp[b] /\ data'[b] = data[b]

Calls == pc' \in [Actors -> ReaderPc \cup WriterPc] /\ stamp' \in [Actors -> Versions] /\ data' \in [Actors -> Nat]

\* A call moves to its next step, with the version it holds and the revision
\* it read; Step names them for the lemmas below.
Step(a, next, t, n) ==
  /\ next \in ReaderPc \cup WriterPc /\ t \in Versions /\ n \in Nat
  /\ Calls /\ Alone(a) /\ pc'[a] = next /\ stamp'[a] = t /\ data'[a] = n

LEMMA Steps ==
  ASSUME TypeOK, NEW a \in Actors
  PROVE  /\ \A next \in ReaderPc \cup WriterPc :
              Moves(a, next) /\ UNCHANGED <<stamp, data>> => Step(a, next, stamp[a], data[a])
         /\ \A next \in ReaderPc \cup WriterPc, t \in Versions :
              Moves(a, next) /\ Holds(a, t) /\ UNCHANGED data => Step(a, next, t, data[a])
         /\ \A next \in ReaderPc \cup WriterPc, n \in Nat :
              Moves(a, next) /\ Reads(a, n) /\ UNCHANGED stamp => Step(a, next, stamp[a], n)
         /\ \A next \in ReaderPc \cup WriterPc :
              Moves(a, next) /\ Holds(a, 0) /\ Reads(a, 0) => Step(a, next, 0, 0)
<1>1. stamp[a] \in Versions /\ data[a] \in Nat /\ 0 \in Versions /\ 0 \in Nat
  BY CacheAssumption DEF TypeOK, Versions
<1>2. ASSUME NEW next \in ReaderPc \cup WriterPc, Moves(a, next)
      PROVE  /\ UNCHANGED <<stamp, data>> => Step(a, next, stamp[a], data[a])
             /\ \A t \in Versions : Holds(a, t) /\ UNCHANGED data => Step(a, next, t, data[a])
             /\ \A n \in Nat : Reads(a, n) /\ UNCHANGED stamp => Step(a, next, stamp[a], n)
             /\ Holds(a, 0) /\ Reads(a, 0) => Step(a, next, 0, 0)
  <2>. DEFINE StampIs(t) == /\ stamp' \in [Actors -> Versions] /\ stamp'[a] = t
                            /\ \A b \in Actors : b # a => stamp'[b] = stamp[b]
              DataIs(n) == /\ data' \in [Actors -> Nat] /\ data'[a] = n
                           /\ \A b \in Actors : b # a => data'[b] = data[b]
  <2>1. /\ pc' \in [Actors -> ReaderPc \cup WriterPc] /\ pc'[a] = next
        /\ \A b \in Actors : b # a => pc'[b] = pc[b]
    BY <1>2 DEF TypeOK, Moves
  <2>2. \A t \in Versions : Holds(a, t) => StampIs(t)
    BY DEF TypeOK, Holds
  <2>3. \A n \in Nat : Reads(a, n) => DataIs(n)
    BY DEF TypeOK, Reads
  <2>4. (stamp' = stamp => StampIs(stamp[a])) /\ (data' = data => DataIs(data[a]))
    BY DEF TypeOK
  <2>5. \A t \in Versions, n \in Nat : StampIs(t) /\ DataIs(n) => Step(a, next, t, n)
    BY <2>1 DEF Step, Calls, Alone
  <2>. HIDE DEF StampIs, DataIs
  <2>. QED  BY <1>1, <2>2, <2>3, <2>4, <2>5
<1>. QED  BY <1>2

-----------------------------------------------------------------------------
(* Types *)

Keys ==
  /\ version' \in Versions \cup {Nothing} /\ (version' # Nothing => version' \in taken')
  /\ body' \in [Versions -> Nat \cup {Nothing}]
  /\ \A t \in Versions : body'[t] # Nothing => t \in taken' /\ body'[t] <= revision'
Takings == now' = now /\ taken \subseteq taken' /\ taken' \subseteq 0..now /\ reused' \in BOOLEAN
Shown ==
  /\ revision' \in Nat /\ revision <= revision' /\ edits' \in 0..MaxEdits /\ faults' \in 0..MaxFaults
  /\ floor' \in 0..revision' /\ since' \in [Readers -> 0..floor']
  /\ answer' \in [Readers -> Nat \cup {Nothing}]

LEMMA StepTypes ==
  ASSUME TypeOK, InUse, NEW a \in Actors, NEW next, NEW t, NEW n, Step(a, next, t, n),
         Keys, Takings, Shown, t <= now, n <= revision',
         next \in {"set", "get", "query", "store"} => t \in taken'
  PROVE  TypeOK' /\ InUse'
<1>1. \A b \in Actors : data'[b] <= revision' /\ stamp'[b] <= now'
  <2>. SUFFICES ASSUME NEW b \in Actors PROVE data'[b] <= revision' /\ stamp'[b] <= now'
    OBVIOUS
  <2>1. CASE b = a
    BY <2>1 DEF Step, Takings
  <2>2. CASE b # a
    <3>1. data'[b] = data[b] /\ stamp'[b] = stamp[b]
      BY <2>2 DEF Step, Alone
    <3>2. data[b] \in Nat /\ data[b] <= revision /\ stamp[b] <= now /\ revision \in Nat
      BY DEF TypeOK
    <3>. QED  BY <3>1, <3>2 DEF Takings, Shown
  <2>. QED  BY <2>1, <2>2
<1>2. \A b \in Actors : pc'[b] \in {"set", "get", "query", "store"} => stamp'[b] \in taken'
  BY DEF Step, Alone, InUse, Works, Takings
<1>3. InUse'
  BY <1>2 DEF InUse, Works, Keys
<1>4. TypeOK'
  BY <1>1 DEF TypeOK, Step, Calls, Keys, Takings, Shown
<1>. QED  BY <1>3, <1>4

\* What stays as it is has its type.
LEMMA Unchanged ==
  ASSUME TypeOK, InUse
  PROVE  /\ UNCHANGED <<now, taken, reused>> => Takings
         /\ UNCHANGED keyVars /\ taken \subseteq taken' /\ revision' \in Nat /\ revision <= revision' => Keys
         /\ UNCHANGED <<revision, edits, floor, since, answer, faults>> => Shown
<1>1. UNCHANGED <<now, taken, reused>> => Takings
  BY DEF TypeOK, Takings
<1>2. ASSUME UNCHANGED keyVars, taken \subseteq taken', revision' \in Nat, revision <= revision' PROVE Keys
  <2>1. \A t \in Versions : body[t] # Nothing => body[t] \in Nat /\ body[t] <= revision'
    BY <1>2 DEF TypeOK
  <2>. QED  BY <1>2, <2>1 DEF keyVars, TypeOK, InUse, Keys
<1>3. UNCHANGED <<revision, edits, floor, since, answer, faults>> => Shown
  BY DEF TypeOK, Shown
<1>. QED  BY <1>1, <1>2, <1>3

LEMMA CacheTypes ==
  ASSUME TypeOK, InUse, Next
  PROVE  TypeOK' /\ InUse'
<1>. USE DEF ReaderPc, WriterPc
<1>1. /\ now \in Versions /\ revision \in Nat /\ floor \in 0..revision /\ taken \subseteq 0..now
      /\ edits \in 0..MaxEdits /\ faults \in 0..MaxFaults /\ version \in Versions \cup {Nothing}
      /\ body \in [Versions -> Nat \cup {Nothing}] /\ answer \in [Readers -> Nat \cup {Nothing}]
      /\ since \in [Readers -> 0..floor] /\ reused \in BOOLEAN /\ 0 <= now /\ now <= now
  BY CacheAssumption DEF TypeOK, Versions
<1>2. /\ \A a \in Actors : stamp[a] \in Versions /\ data[a] \in Nat
                           /\ data[a] <= revision /\ stamp[a] <= now
                           /\ (pc[a] \in {"set", "get", "query", "store"} => stamp[a] \in taken)
      /\ Readers \subseteq Actors /\ Writers \subseteq Actors
      /\ \A t \in Versions : body[t] # Nothing => t \in taken /\ body[t] \in Nat /\ body[t] <= revision
      /\ \A t \in taken : t \in Versions /\ t <= now
  BY CacheAssumption DEF TypeOK, Actors, InUse, Works, Versions
<1>3. Fault => faults' \in 0..MaxFaults
  BY CacheAssumption DEF Fault, TypeOK
<1>4. taken \subseteq taken \cup {now} /\ taken \cup {now} \subseteq 0..now /\ now \in 0..now
  BY <1>1 DEF Versions
<1>5. \A d \in Readers : [since EXCEPT ![d] = floor] \in [Readers -> 0..floor]
  BY <1>1
<1>6. \A d \in Readers, n \in Nat : [answer EXCEPT ![d] = n] \in [Readers -> Nat \cup {Nothing}]
  BY <1>1
<1>7. ASSUME NEW d \in Readers, GetVersions(d) PROVE TypeOK' /\ InUse'
  <2>1. Shown
    BY <1>1, <1>5, <1>7 DEF GetVersions, Shown
  <2>2. CASE version = Nothing /\ Moves(d, "set") /\ Takes(d)
    <3>1. Step(d, "set", now, data[d])
      BY <1>1, <1>2, <1>7, <2>2, Steps DEF GetVersions, Takes
    <3>2. Takings /\ now \in taken'
      BY <1>1, <1>4, <1>7, <2>2 DEF GetVersions, Takes, Takings
    <3>3. Keys
      BY <1>1, <1>7, <3>2, Unchanged DEF GetVersions, Takings
    <3>. QED  BY <1>1, <1>2, <1>7, <2>1, <3>1, <3>2, <3>3, StepTypes DEF GetVersions
  <2>3. CASE /\ version # Nothing /\ Moves(d, "get") /\ Holds(d, version)
             /\ UNCHANGED <<taken, reused>>
    <3>1. version \in Versions /\ version \in taken
      BY <1>1, <2>3 DEF InUse
    <3>2. Step(d, "get", version, data[d])
      BY <1>1, <1>2, <1>7, <2>3, <3>1, Steps DEF GetVersions
    <3>3. Takings /\ Keys
      BY <1>1, <1>7, <2>3, Unchanged DEF GetVersions
    <3>. QED  BY <1>1, <1>2, <1>7, <2>1, <2>3, <3>1, <3>2, <3>3, StepTypes DEF GetVersions
  <2>. QED  BY <1>7, <2>2, <2>3 DEF GetVersions
<1>8. ASSUME NEW d \in Readers, SetVersion(d) PROVE TypeOK' /\ InUse'
  <2>1. Step(d, "get", stamp[d], data[d])
    BY <1>2, <1>8, Steps DEF SetVersion
  <2>2. Takings /\ Shown
    BY <1>8, Unchanged DEF SetVersion, historyVars
  <2>3. Keys
    BY <1>1, <1>2, <1>8 DEF SetVersion, Keys, historyVars
  <2>. QED  BY <1>1, <1>2, <1>8, <2>1, <2>2, <2>3, StepTypes DEF SetVersion, historyVars
<1>9. ASSUME NEW d \in Readers, GetBody(d) PROVE TypeOK' /\ InUse'
  <2>1. Takings /\ Keys
    BY <1>1, <1>9, Unchanged DEF GetBody, historyVars
  <2>2. CASE body[stamp[d]] # Nothing /\ Answers(d, body[stamp[d]])
    <3>1. Step(d, "done", 0, 0)
      BY <1>2, <2>2, Steps DEF Answers, Ends
    <3>2. Shown
      BY <1>1, <1>2, <1>6, <1>9, <2>2 DEF GetBody, Answers, Shown, historyVars
    <3>. QED  BY <1>1, <1>2, <1>9, <2>1, <3>1, <3>2, StepTypes DEF GetBody
  <2>3. CASE Moves(d, "query") /\ UNCHANGED <<stamp, data, answer>>
    <3>1. Step(d, "query", stamp[d], data[d])
      BY <1>2, <2>3, Steps
    <3>2. Shown
      BY <1>9, <2>3, Unchanged DEF GetBody, historyVars
    <3>. QED  BY <1>2, <1>9, <2>1, <3>1, <3>2, StepTypes DEF GetBody, historyVars
  <2>. QED  BY <1>9, <2>2, <2>3 DEF GetBody
<1>10. ASSUME NEW d \in Readers, Query(d) PROVE TypeOK' /\ InUse'
  <2>1. Takings /\ Keys /\ Shown
    BY <1>1, <1>10, Unchanged DEF Query, historyVars
  <2>2. CASE Moves(d, "store") /\ Reads(d, revision) /\ UNCHANGED stamp
    <3>1. Step(d, "store", stamp[d], revision)
      BY <1>1, <1>2, <2>2, Steps
    <3>. QED  BY <1>1, <1>2, <1>10, <2>1, <3>1, StepTypes DEF Query, historyVars
  <2>3. CASE Ends(d)
    <3>1. Step(d, "done", 0, 0)
      BY <1>2, <2>3, Steps DEF Ends
    <3>. QED  BY <1>1, <1>2, <1>10, <2>1, <3>1, StepTypes DEF Query
  <2>. QED  BY <1>10, <2>2, <2>3 DEF Query
<1>11. ASSUME NEW d \in Readers, Store(d) PROVE TypeOK' /\ InUse'
  <2>1. Step(d, "done", 0, 0)
    BY <1>2, <1>11, Steps DEF Store, Answers, Ends
  <2>2. Takings
    BY <1>11, Unchanged DEF Store, historyVars
  <2>3. Shown
    BY <1>1, <1>2, <1>6, <1>11 DEF Store, Answers, Shown, historyVars
  <2>4. Keys
    BY <1>1, <1>2, <1>11 DEF Store, Keys, historyVars, InUse
  <2>. QED  BY <1>1, <1>2, <1>11, <2>1, <2>2, <2>3, <2>4, StepTypes DEF Store
<1>12. ASSUME NEW d \in Readers, Fails(d) PROVE TypeOK' /\ InUse'
  <2>1. Step(d, "bypass", 0, 0)
    BY <1>2, <1>12, Steps DEF Fails
  <2>2. Takings /\ Keys
    BY <1>1, <1>12, Unchanged DEF Fails
  <2>3. Shown
    BY <1>1, <1>3, <1>5, <1>12 DEF Fails, Shown
  <2>. QED  BY <1>1, <1>2, <1>12, <2>1, <2>2, <2>3, StepTypes DEF Fails
<1>13. ASSUME NEW d \in Readers, Bypass(d) PROVE TypeOK' /\ InUse'
  <2>1. Step(d, "done", 0, 0)
    BY <1>2, <1>13, Steps DEF Bypass, Answers, Ends
  <2>2. Takings /\ Keys
    BY <1>1, <1>13, Unchanged DEF Bypass, historyVars
  <2>3. Shown
    BY <1>1, <1>6, <1>13 DEF Bypass, Answers, Shown, historyVars
  <2>. QED  BY <1>1, <1>2, <1>13, <2>1, <2>2, <2>3, StepTypes DEF Bypass
<1>14. ASSUME NEW w \in Writers, Change(w) PROVE TypeOK' /\ InUse'
  <2>1. Step(w, "stamp", stamp[w], revision + 1)
    BY <1>1, <1>2, <1>14, Steps DEF Change
  <2>2. Takings /\ Keys
    BY <1>1, <1>14, Unchanged DEF Change, historyVars
  <2>3. Shown
    BY <1>1, <1>14 DEF Change, Shown, historyVars
  <2>. QED  BY <1>1, <1>2, <1>14, <2>1, <2>2, <2>3, StepTypes DEF Change
<1>15. ASSUME NEW w \in Writers, Stamp(w) PROVE TypeOK' /\ InUse'
  <2>1. Step(w, "set", now, data[w])
    BY <1>1, <1>2, <1>15, Steps DEF Stamp, Takes
  <2>2. Takings /\ now \in taken'
    BY <1>1, <1>4, <1>15 DEF Stamp, Takes, Takings
  <2>3. Keys /\ Shown
    BY <1>1, <1>15, <2>2, Unchanged DEF Stamp, Takings
  <2>. QED  BY <1>1, <1>2, <1>15, <2>1, <2>2, <2>3, StepTypes DEF Stamp
<1>16. ASSUME NEW w \in Writers, Invalidate(w) PROVE TypeOK' /\ InUse'
  <2>1. Step(w, "done", 0, 0)
    BY <1>2, <1>16, Steps DEF Invalidate, Ends
  <2>2. Takings
    BY <1>16, Unchanged DEF Invalidate
  <2>3. Keys
    BY <1>1, <1>2, <1>16 DEF Invalidate, Keys
  <2>4. floor' \in 0..revision /\ floor <= floor' /\ floor \in Nat
    BY <1>1, <1>2, <1>16 DEF Invalidate, Higher
  <2>5. since \in [Readers -> 0..floor']
    <3>1. 0..floor \subseteq 0..floor'
      BY <2>4
    <3>. QED  BY <1>1, <3>1
  <2>6. Shown
    BY <1>1, <1>16, <2>4, <2>5 DEF Invalidate, Shown
  <2>. QED  BY <1>1, <1>2, <1>16, <2>1, <2>2, <2>3, <2>6, StepTypes DEF Invalidate
<1>17. ASSUME NEW w \in Writers, InvalidateFails(w) PROVE TypeOK' /\ InUse'
  <2>1. Step(w, "done", 0, 0)
    BY <1>2, <1>17, Steps DEF InvalidateFails, Ends
  <2>2. Takings /\ Keys
    BY <1>1, <1>17, Unchanged DEF InvalidateFails, historyVars
  <2>3. Shown
    BY <1>1, <1>3, <1>17 DEF InvalidateFails, Shown, historyVars
  <2>. QED  BY <1>1, <1>2, <1>17, <2>1, <2>2, <2>3, StepTypes DEF InvalidateFails
<1>18. CASE Edit
  <2>1. floor \in 0..revision' /\ revision' \in Nat /\ edits' \in 0..MaxEdits
    BY <1>1, <1>18, CacheAssumption DEF Edit
  <2>2. \A a \in Actors : data[a] <= revision'
    BY <1>1, <1>2, <1>18 DEF Edit
  <2>3. \A t \in Versions : body[t] # Nothing => t \in taken /\ body[t] <= revision'
    BY <1>1, <1>2, <1>18 DEF Edit
  <2>. QED  BY <1>18, <2>1, <2>2, <2>3 DEF Edit, TypeOK, InUse, Works, keyVars, callVars, historyVars
<1>19. CASE Tick
  <2>1. now' \in Versions /\ taken \subseteq 0..now' /\ \A a \in Actors : stamp[a] <= now'
    BY <1>1, <1>2, <1>19, CacheAssumption DEF Tick, Versions
  <2>. QED  BY <1>19, <2>1 DEF Tick, TypeOK, InUse, Works, keyVars, callVars, historyVars
<1>20. CASE VersionExpires
  BY <1>20 DEF VersionExpires, TypeOK, InUse, Works, callVars, historyVars
<1>21. ASSUME NEW t \in Versions, BodyExpires(t) PROVE TypeOK' /\ InUse'
  BY <1>21 DEF BodyExpires, TypeOK, InUse, Works, callVars, historyVars
<1>. QED
  BY <1>7, <1>8, <1>9, <1>10, <1>11, <1>12, <1>13, <1>14, <1>15, <1>16, <1>17, <1>18, <1>19, <1>20,
     <1>21 DEF Next, ReaderStep, WriterStep

-----------------------------------------------------------------------------
(* Freshness *)

InForce == {"set", "get", "query", "store"}

\* NotBefore, of the next state
NotBeforeNext(t, f) ==
  /\ body'[t] # Nothing => f <= body'[t]
  /\ \A d \in Actors : pc'[d] = "store" /\ stamp'[d] = t => f <= data'[d]

\* The three parts of the next state's invariant, spelled out
LEMMA NextState ==
  /\ SetOnce' <=> \A a \in Actors : pc'[a] = "set" =>
                    /\ version' # stamp'[a] /\ body'[stamp'[a]] = Nothing
                    /\ \A b \in Actors : pc'[b] \in InForce /\ stamp'[b] = stamp'[a] => a = b
  /\ VersionIsFresh' <=> (version' # Nothing => NotBeforeNext(version', floor'))
  /\ ReadersAreFresh' <=> \A d \in Readers :
       pc'[d] \in {"get", "query", "store"} => NotBeforeNext(stamp'[d], since'[d])
  /\ InUse' <=> /\ version' # Nothing => version' \in taken'
                /\ \A a \in Actors : pc'[a] \in InForce => stamp'[a] \in taken'
BY DEF SetOnce, Setting, Works, InForce, VersionIsFresh, ReadersAreFresh, NotBefore, NotBeforeNext, InUse

LEMMA ThisState ==
  /\ SetOnce <=> \A a \in Actors : pc[a] = "set" =>
                   /\ version # stamp[a] /\ body[stamp[a]] = Nothing
                   /\ \A b \in Actors : pc[b] \in InForce /\ stamp[b] = stamp[a] => a = b
  /\ InUse <=> /\ version # Nothing => version \in taken
               /\ \A a \in Actors : pc[a] \in InForce => stamp[a] \in taken
BY DEF SetOnce, Setting, Works, InForce, InUse

\* A step that stores nothing, reads nothing for a later store, takes no
\* version and puts none in force.
Quiet ==
  /\ \A t \in Versions : body'[t] \in {body[t], Nothing}
  /\ version' \in {version, Nothing} /\ floor' = floor
  /\ \A b \in Actors : pc'[b] \in InForce =>
       /\ stamp'[b] = stamp[b] /\ data'[b] = data[b]
       /\ pc[b] \in InForce
       /\ pc'[b] = "set" => pc[b] = "set"
       /\ pc'[b] = "store" => pc[b] = "store"
       /\ b \in Readers /\ pc'[b] # "set" => pc[b] # "set" /\ since'[b] = since[b]

LEMMA QuietSteps ==
  ASSUME TypeOK, SetOnce, VersionIsFresh, ReadersAreFresh, Quiet
  PROVE  SetOnce' /\ VersionIsFresh' /\ ReadersAreFresh'
<1>1. /\ \A a \in Actors : stamp[a] \in Versions /\ stamp[a] # Nothing
      /\ version # Nothing => version \in Versions
      /\ Readers \subseteq Actors
  BY CacheAssumption DEF TypeOK, Versions, Actors
<1>2. SetOnce'
  <2>. SUFFICES ASSUME NEW a \in Actors, pc'[a] = "set"
       PROVE  /\ version' # stamp'[a] /\ body'[stamp'[a]] = Nothing
              /\ \A b \in Actors : pc'[b] \in InForce /\ stamp'[b] = stamp'[a] => a = b
    BY NextState
  <2>1. pc[a] = "set" /\ stamp'[a] = stamp[a]
    BY DEF Quiet, InForce
  <2>2. /\ version # stamp[a] /\ body[stamp[a]] = Nothing
        /\ \A b \in Actors : pc[b] \in InForce /\ stamp[b] = stamp[a] => a = b
    BY <2>1, ThisState
  <2>. QED  BY <1>1, <2>1, <2>2 DEF Quiet
<1>3. ASSUME NEW t \in Versions, NEW f, NotBefore(t, f) PROVE NotBeforeNext(t, f)
  BY <1>3 DEF NotBefore, NotBeforeNext, Quiet, InForce
<1>4. VersionIsFresh'
  <2>. SUFFICES ASSUME version' # Nothing PROVE NotBeforeNext(version', floor')
    BY NextState
  <2>1. version' = version /\ floor' = floor /\ version \in Versions
    BY <1>1 DEF Quiet
  <2>. QED  BY <1>3, <2>1 DEF VersionIsFresh
<1>5. ReadersAreFresh'
  <2>. SUFFICES ASSUME NEW d \in Readers, pc'[d] \in {"get", "query", "store"}
                PROVE NotBeforeNext(stamp'[d], since'[d])
    BY NextState
  <2>1. /\ stamp'[d] = stamp[d] /\ since'[d] = since[d] /\ stamp[d] \in Versions
        /\ pc[d] \in {"get", "query", "store"}
    BY <1>1 DEF Quiet, InForce
  <2>. QED  BY <1>3, <2>1 DEF ReadersAreFresh
<1>. QED  BY <1>2, <1>4, <1>5

\* Taking the time for a version nobody took: it is empty and nobody else's.
LEMMA TakingSteps ==
  ASSUME TypeOK, InUse, SetOnce, VersionIsFresh, ReadersAreFresh,
         NEW a \in Actors, Step(a, "set", now, data[a]), now \notin taken,
         body' = body, version' = version, floor' = floor,
         \A d \in Readers : d # a => since'[d] = since[d]
  PROVE  SetOnce' /\ VersionIsFresh' /\ ReadersAreFresh'
<1>1. /\ now \in Versions /\ body[now] = Nothing /\ now # version
      /\ \A b \in Actors : pc[b] \in InForce => stamp[b] # now
      /\ Readers \subseteq Actors
  BY CacheAssumption, ThisState DEF TypeOK, Versions, Actors
<1>2. pc'[a] = "set" /\ stamp'[a] = now
      /\ \A b \in Actors : b # a => pc'[b] = pc[b] /\ stamp'[b] = stamp[b] /\ data'[b] = data[b]
  BY DEF Step, Alone
<1>3. SetOnce'
  <2>. SUFFICES ASSUME NEW c \in Actors, pc'[c] = "set"
       PROVE  /\ version' # stamp'[c] /\ body'[stamp'[c]] = Nothing
              /\ \A b \in Actors : pc'[b] \in InForce /\ stamp'[b] = stamp'[c] => c = b
    BY NextState
  <2>1. CASE c = a
    BY <1>1, <1>2, <2>1
  <2>2. CASE c # a
    BY <1>1, <1>2, <2>2, ThisState DEF InForce
  <2>. QED  BY <2>1, <2>2
<1>4. ASSUME NEW t, NEW f, NotBefore(t, f) PROVE NotBeforeNext(t, f)
  BY <1>2, <1>4 DEF NotBefore, NotBeforeNext
<1>5. VersionIsFresh'
  BY <1>4, NextState DEF VersionIsFresh
<1>6. ReadersAreFresh'
  <2>. SUFFICES ASSUME NEW d \in Readers, pc'[d] \in {"get", "query", "store"}
                PROVE NotBeforeNext(stamp'[d], since'[d])
    BY NextState
  <2>. QED  BY <1>1, <1>2, <1>4 DEF ReadersAreFresh
<1>. QED  BY <1>3, <1>5, <1>6

\* Putting the version one took in force: nothing is stored under it, and
\* nobody else is going to store anything older.
LEMMA SettingSteps ==
  ASSUME TypeOK, SetOnce, ReadersAreFresh,
         NEW a \in Actors, pc[a] = "set", NEW next \in {"get", "done"},
         NEW t, NEW n, Step(a, next, t, n), next = "get" => t = stamp[a],
         version' = stamp[a], body' = body, since' = since
  PROVE  SetOnce' /\ VersionIsFresh' /\ ReadersAreFresh'
<1>1. pc'[a] = next /\ stamp'[a] = t
      /\ \A b \in Actors : b # a => pc'[b] = pc[b] /\ stamp'[b] = stamp[b] /\ data'[b] = data[b]
  BY DEF Step, Alone
<1>2. /\ version # stamp[a] /\ body[stamp[a]] = Nothing
      /\ \A b \in Actors : pc[b] \in InForce /\ stamp[b] = stamp[a] => a = b
      /\ Readers \subseteq Actors
  BY ThisState DEF Actors
<1>3. SetOnce'
  <2>. SUFFICES ASSUME NEW c \in Actors, pc'[c] = "set"
       PROVE  /\ version' # stamp'[c] /\ body'[stamp'[c]] = Nothing
              /\ \A b \in Actors : pc'[b] \in InForce /\ stamp'[b] = stamp'[c] => c = b
    BY NextState
  <2>1. c # a /\ pc[c] = "set" /\ stamp'[c] = stamp[c]
    BY <1>1
  <2>2. /\ body[stamp[c]] = Nothing
        /\ \A b \in Actors : pc[b] \in InForce /\ stamp[b] = stamp[c] => c = b
    BY <2>1, ThisState
  <2>3. stamp[a] # stamp[c]
    BY <1>2, <2>1 DEF InForce
  <2>. QED  BY <1>1, <2>1, <2>2, <2>3 DEF InForce
<1>4. \A f : NotBeforeNext(stamp[a], f)
  BY <1>1, <1>2 DEF NotBeforeNext, InForce
<1>5. VersionIsFresh'
  BY <1>4, NextState
<1>6. ReadersAreFresh'
  <2>. SUFFICES ASSUME NEW d \in Readers, pc'[d] \in {"get", "query", "store"}
                PROVE NotBeforeNext(stamp'[d], since'[d])
    BY NextState
  <2>1. CASE d = a
    BY <1>1, <1>4, <2>1
  <2>2. CASE d # a
    <3>1. NotBefore(stamp[d], since[d])
      BY <1>1, <1>2, <2>2 DEF ReadersAreFresh
    <3>2. NotBeforeNext(stamp[d], since[d])
      BY <1>1, <3>1 DEF NotBefore, NotBeforeNext
    <3>. QED  BY <1>1, <1>2, <2>2, <3>2
  <2>. QED  BY <2>1, <2>2
<1>. QED  BY <1>3, <1>5, <1>6

\* Reading under the version in force
LEMMA GettingSteps ==
  ASSUME TypeOK, SetOnce, VersionIsFresh, ReadersAreFresh,
         NEW d \in Readers, pc[d] = "versions", version # Nothing,
         Step(d, "get", version, data[d]), since' = [since EXCEPT ![d] = floor],
         version' = version, body' = body, floor' = floor
  PROVE  SetOnce' /\ VersionIsFresh' /\ ReadersAreFresh'
<1>1. pc'[d] = "get" /\ stamp'[d] = version
      /\ \A b \in Actors : b # d => pc'[b] = pc[b] /\ stamp'[b] = stamp[b] /\ data'[b] = data[b]
  BY DEF Step, Alone
<1>2. Readers \subseteq Actors /\ since'[d] = floor /\ \A e \in Readers : e # d => since'[e] = since[e]
  BY DEF Actors, TypeOK
<1>3. SetOnce'
  <2>. SUFFICES ASSUME NEW c \in Actors, pc'[c] = "set"
       PROVE  /\ version' # stamp'[c] /\ body'[stamp'[c]] = Nothing
              /\ \A b \in Actors : pc'[b] \in InForce /\ stamp'[b] = stamp'[c] => c = b
    BY NextState
  <2>1. c # d /\ pc[c] = "set" /\ stamp'[c] = stamp[c]
    BY <1>1
  <2>2. /\ version # stamp[c] /\ body[stamp[c]] = Nothing
        /\ \A b \in Actors : pc[b] \in InForce /\ stamp[b] = stamp[c] => c = b
    BY <2>1, ThisState
  <2>. QED  BY <1>1, <2>1, <2>2
<1>4. ASSUME NEW t, NEW f, NotBefore(t, f) PROVE NotBeforeNext(t, f)
  BY <1>1, <1>4 DEF NotBefore, NotBeforeNext
<1>5. VersionIsFresh' /\ NotBeforeNext(version, floor)
  BY <1>4, NextState DEF VersionIsFresh
<1>6. ReadersAreFresh'
  <2>. SUFFICES ASSUME NEW e \in Readers, pc'[e] \in {"get", "query", "store"}
                PROVE NotBeforeNext(stamp'[e], since'[e])
    BY NextState
  <2>. QED  BY <1>1, <1>2, <1>4, <1>5 DEF ReadersAreFresh
<1>. QED  BY <1>3, <1>5, <1>6

\* What a query reads is not older than any invalidation, and what it stores
\* is what it was to store.
LEMMA StoringSteps ==
  ASSUME TypeOK, SetOnce, VersionIsFresh, ReadersAreFresh,
         NEW d \in Readers, Query(d) \/ Store(d)
  PROVE  SetOnce' /\ VersionIsFresh' /\ ReadersAreFresh'
<1>. USE DEF ReaderPc, WriterPc
<1>1. /\ version' = version /\ floor' = floor /\ since' = since
      /\ stamp[d] \in Versions /\ revision \in Nat /\ data[d] \in Nat /\ pc[d] \in {"query", "store"}
      /\ d \in Actors /\ Readers \subseteq Actors /\ body \in [Versions -> Nat \cup {Nothing}]
      /\ floor \in Nat /\ floor <= revision /\ \A e \in Readers : since[e] \in Nat /\ since[e] <= revision
  BY DEF Query, Store, historyVars, keyVars, TypeOK, Actors
<1>2. \A b \in Actors : b # d => pc'[b] = pc[b] /\ stamp'[b] = stamp[b] /\ data'[b] = data[b]
  BY DEF Query, Store, Answers, Ends, Moves, Holds, Reads, TypeOK
<1>3. pc'[d] \in InForce => pc'[d] = "store" /\ stamp'[d] = stamp[d] /\ data'[d] = revision /\ body' = body
  BY <1>1 DEF Query, Store, Answers, Ends, Moves, Holds, Reads, TypeOK, InForce, keyVars
<1>4. body' = body \/ (pc[d] = "store" /\ body' = [body EXCEPT ![stamp[d]] = data[d]])
  BY DEF Query, Store, keyVars
<1>5. SetOnce'
  <2>. SUFFICES ASSUME NEW c \in Actors, pc'[c] = "set"
       PROVE  /\ version' # stamp'[c] /\ body'[stamp'[c]] = Nothing
              /\ \A b \in Actors : pc'[b] \in InForce /\ stamp'[b] = stamp'[c] => c = b
    BY NextState
  <2>1. c # d /\ pc[c] = "set" /\ stamp'[c] = stamp[c]
    BY <1>2, <1>3 DEF InForce
  <2>2. /\ version # stamp[c] /\ body[stamp[c]] = Nothing
        /\ \A b \in Actors : pc[b] \in InForce /\ stamp[b] = stamp[c] => c = b
    BY <2>1, ThisState
  <2>3. stamp[d] # stamp[c]
    BY <1>1, <2>1, <2>2 DEF InForce
  <2>4. body'[stamp[c]] = Nothing
    <3>1. stamp[c] \in Versions
      BY DEF TypeOK
    <3>. QED  BY <1>1, <1>4, <2>2, <2>3, <3>1
  <2>. QED  BY <1>1, <1>2, <1>3, <2>1, <2>2, <2>3, <2>4
<1>6. ASSUME NEW t \in Versions, NEW f \in Nat, f <= revision, NotBefore(t, f)
      PROVE  NotBeforeNext(t, f)
  <2>1. body'[t] # Nothing => f <= body'[t]
    BY <1>1, <1>4, <1>6 DEF NotBefore
  <2>2. ASSUME NEW b \in Actors, pc'[b] = "store", stamp'[b] = t PROVE f <= data'[b]
    <3>1. CASE b = d
      BY <1>3, <1>6, <2>2, <3>1 DEF InForce
    <3>2. CASE b # d
      BY <1>2, <1>6, <2>2, <3>2 DEF NotBefore
    <3>. QED  BY <3>1, <3>2
  <2>. QED  BY <2>1, <2>2 DEF NotBeforeNext
<1>7. VersionIsFresh'
  <2>1. version # Nothing => version \in Versions
    BY DEF TypeOK
  <2>. QED  BY <1>1, <1>6, <2>1, NextState DEF VersionIsFresh
<1>8. ReadersAreFresh'
  <2>. SUFFICES ASSUME NEW e \in Readers, pc'[e] \in {"get", "query", "store"}
                PROVE NotBeforeNext(stamp'[e], since'[e])
    BY NextState
  <2>1. pc[e] \in {"get", "query", "store"} /\ stamp'[e] = stamp[e] /\ stamp[e] \in Versions
    BY <1>1, <1>2, <1>3 DEF InForce, TypeOK
  <2>. QED  BY <1>1, <1>6, <2>1 DEF ReadersAreFresh
<1>. QED  BY <1>5, <1>7, <1>8

LEMMA FreshHolds ==
  ASSUME TypeOK, InUse, SetOnce, VersionIsFresh, ReadersAreFresh, Next, ~reused'
  PROVE  SetOnce' /\ VersionIsFresh' /\ ReadersAreFresh'
<1>. USE DEF ReaderPc, WriterPc
<1>1. /\ Readers \subseteq Actors /\ Writers \subseteq Actors
      /\ now \in Versions /\ version \in Versions \cup {Nothing}
      /\ \A a \in Actors : stamp[a] \in Versions /\ data[a] \in Nat
  BY CacheAssumption DEF TypeOK, Actors, Versions
<1>2. ASSUME NEW a \in Actors, NEW next \in ReaderPc \cup WriterPc, NEW t, NEW n, Step(a, next, t, n),
             \/ next \notin InForce
             \/ pc[a] = "get" /\ next = "query" /\ t = stamp[a] /\ n = data[a],
             body' = body, version' = version, floor' = floor,
             \A d \in Readers : since'[d] = since[d] \/ (d = a /\ next \notin InForce)
      PROVE  SetOnce' /\ VersionIsFresh' /\ ReadersAreFresh'
  <2>1. Quiet
    BY <1>2 DEF Step, Alone, Quiet, InForce
  <2>. QED  BY <2>1, QuietSteps
<1>3. ASSUME NEW d \in Readers, GetVersions(d) PROVE SetOnce' /\ VersionIsFresh' /\ ReadersAreFresh'
  <2>1. CASE version = Nothing /\ Moves(d, "set") /\ Takes(d)
    <3>1. Step(d, "set", now, data[d])
      BY <1>1, <1>3, <2>1, Steps DEF GetVersions, Takes
    <3>2. now \notin taken
      BY <2>1 DEF Takes
    <3>. QED  BY <1>1, <1>3, <3>1, <3>2, TakingSteps DEF GetVersions, keyVars, TypeOK
  <2>2. CASE version # Nothing /\ Moves(d, "get") /\ Holds(d, version)
    <3>1. Step(d, "get", version, data[d])
      BY <1>1, <1>3, <2>2, Steps DEF GetVersions
    <3>. QED  BY <1>3, <2>2, <3>1, GettingSteps DEF GetVersions, keyVars
  <2>. QED  BY <1>3, <2>1, <2>2 DEF GetVersions
<1>4. ASSUME NEW d \in Readers, SetVersion(d) PROVE SetOnce' /\ VersionIsFresh' /\ ReadersAreFresh'
  <2>1. Step(d, "get", stamp[d], data[d])
    BY <1>1, <1>4, Steps DEF SetVersion
  <2>. QED  BY <1>1, <1>4, <2>1, SettingSteps DEF SetVersion, historyVars
<1>5. ASSUME NEW d \in Readers, GetBody(d) PROVE SetOnce' /\ VersionIsFresh' /\ ReadersAreFresh'
  <2>1. Step(d, "done", 0, 0) \/ Step(d, "query", stamp[d], data[d])
    BY <1>1, <1>5, Steps DEF GetBody, Answers, Ends
  <2>. QED  BY <1>1, <1>2, <1>5, <2>1 DEF GetBody, historyVars, keyVars, InForce
<1>6. ASSUME NEW d \in Readers, Fails(d) PROVE SetOnce' /\ VersionIsFresh' /\ ReadersAreFresh'
  <2>1. Step(d, "bypass", 0, 0)
    BY <1>1, <1>6, Steps DEF Fails
  <2>2. \A e \in Readers : e # d => since'[e] = since[e]
    BY <1>6 DEF Fails, TypeOK
  <2>. QED  BY <1>1, <1>2, <1>6, <2>1, <2>2 DEF Fails, keyVars, InForce
<1>7. ASSUME NEW d \in Readers, Bypass(d) PROVE SetOnce' /\ VersionIsFresh' /\ ReadersAreFresh'
  <2>1. Step(d, "done", 0, 0)
    BY <1>1, <1>7, Steps DEF Bypass, Answers, Ends
  <2>. QED  BY <1>1, <1>2, <1>7, <2>1 DEF Bypass, keyVars, historyVars, InForce
<1>8. ASSUME NEW w \in Writers, Change(w) PROVE SetOnce' /\ VersionIsFresh' /\ ReadersAreFresh'
  <2>1. Step(w, "stamp", stamp[w], revision + 1)
    BY <1>1, <1>8, Steps DEF Change, TypeOK
  <2>. QED  BY <1>1, <1>2, <1>8, <2>1 DEF Change, keyVars, historyVars, InForce
<1>9. ASSUME NEW w \in Writers, Stamp(w) PROVE SetOnce' /\ VersionIsFresh' /\ ReadersAreFresh'
  <2>1. Step(w, "set", now, data[w])
    BY <1>1, <1>9, Steps DEF Stamp, Takes
  <2>2. now \notin taken
    BY <1>9 DEF Stamp, Takes
  <2>. QED  BY <1>1, <1>9, <2>1, <2>2, TakingSteps DEF Stamp, keyVars
<1>10. ASSUME NEW w \in Writers, Invalidate(w) PROVE SetOnce' /\ VersionIsFresh' /\ ReadersAreFresh'
  <2>1. Step(w, "done", 0, 0)
    BY <1>1, <1>10, Steps DEF Invalidate, Ends
  <2>. QED  BY <1>1, <1>10, <2>1, SettingSteps DEF Invalidate
<1>11. ASSUME NEW w \in Writers, InvalidateFails(w) PROVE SetOnce' /\ VersionIsFresh' /\ ReadersAreFresh'
  <2>1. Step(w, "done", 0, 0)
    BY <1>1, <1>11, Steps DEF InvalidateFails, Ends
  <2>. QED  BY <1>1, <1>2, <1>11, <2>1 DEF InvalidateFails, keyVars, historyVars, InForce
<1>12. CASE Edit \/ Tick \/ VersionExpires \/ \E t \in Versions : BodyExpires(t)
  <2>1. /\ UNCHANGED <<pc, stamp, data, floor, since>> /\ version' \in {version, Nothing}
        /\ body' = body \/ \E t \in Versions : body' = [body EXCEPT ![t] = Nothing]
    BY <1>12 DEF Edit, Tick, VersionExpires, BodyExpires, keyVars, callVars, historyVars
  <2>2. \A t \in Versions : body'[t] \in {body[t], Nothing}
    BY <2>1 DEF TypeOK
  <2>3. Quiet
    BY <2>1, <2>2 DEF Quiet
  <2>. QED  BY <2>3, QuietSteps
<1>. QED
  BY <1>3, <1>4, <1>5, <1>6, <1>7, <1>8, <1>9, <1>10, <1>11, <1>12, StoringSteps
  DEF Next, ReaderStep, WriterStep

LEMMA AnswersAreFresh ==
  ASSUME TypeOK, AnswersLast, FreshAfterInvalidation, ~reused => ReadersAreFresh, Next
  PROVE  AnswersLast' /\ FreshAfterInvalidation'
<1>1. /\ Readers \subseteq Actors /\ revision \in Nat /\ Nothing \notin Nat
      /\ \A d \in Readers : /\ since[d] \in Nat /\ since[d] <= revision
                            /\ answer[d] \in Nat \cup {Nothing} /\ stamp[d] \in Versions
  BY CacheAssumption DEF TypeOK, Actors
<1>2. reused => reused'
  BY DEF Next, ReaderStep, GetVersions, SetVersion, GetBody, Query, Store, Fails, Bypass,
         WriterStep, Change, Stamp, Invalidate, InvalidateFails, Edit, Tick, VersionExpires, BodyExpires,
         Takes, historyVars
\* the end of a reader's call
<1>3. ASSUME NEW e \in Readers, NEW shown, Answers(e, shown), since' = since,
             ~reused => since[e] <= shown
      PROVE  AnswersLast' /\ FreshAfterInvalidation'
  <2>1. pc'[e] = "done" /\ \A d \in Readers : d # e => pc'[d] = pc[d] /\ answer'[d] = answer[d]
    BY <1>1, <1>3 DEF Answers, Ends, Moves, TypeOK
  <2>2. answer'[e] = shown
    BY <1>3 DEF Answers, TypeOK
  <2>3. AnswersLast'
    BY <2>1 DEF AnswersLast
  <2>4. \A d \in Readers : answer'[d] # Nothing => answer'[d] >= since'[d] \/ reused'
    <3>. SUFFICES ASSUME NEW d \in Readers, answer'[d] # Nothing, ~reused' PROVE answer'[d] >= since'[d]
      OBVIOUS
    <3>1. CASE d = e
      BY <1>2, <1>3, <2>2, <3>1
    <3>2. CASE d # e
      BY <1>2, <1>3, <2>1, <3>2 DEF FreshAfterInvalidation
    <3>. QED  BY <3>1, <3>2
  <2>. QED  BY <2>3, <2>4 DEF FreshAfterInvalidation
\* every other step
<1>4. ASSUME answer' = answer,
             \A d \in Readers : pc[d] = "done" => pc'[d] = "done" /\ since'[d] = since[d]
      PROVE  AnswersLast' /\ FreshAfterInvalidation'
  BY <1>2, <1>4 DEF AnswersLast, FreshAfterInvalidation
<1>5. ASSUME NEW d \in Readers, GetBody(d) PROVE AnswersLast' /\ FreshAfterInvalidation'
  <2>1. CASE body[stamp[d]] # Nothing /\ Answers(d, body[stamp[d]])
    <3>1. ~reused => since[d] <= body[stamp[d]]
      BY <1>5, <2>1 DEF GetBody, ReadersAreFresh, NotBefore
    <3>. QED  BY <1>3, <1>5, <2>1, <3>1 DEF GetBody, historyVars
  <2>2. CASE Moves(d, "query") /\ UNCHANGED <<stamp, data, answer>>
    BY <1>4, <1>5, <2>2 DEF GetBody, Moves, historyVars, TypeOK
  <2>. QED  BY <1>5, <2>1, <2>2 DEF GetBody
<1>6. ASSUME NEW d \in Readers, Store(d) PROVE AnswersLast' /\ FreshAfterInvalidation'
  <2>1. ~reused => since[d] <= data[d]
    BY <1>1, <1>6 DEF Store, ReadersAreFresh, NotBefore
  <2>. QED  BY <1>3, <1>6, <2>1 DEF Store, historyVars
<1>7. ASSUME NEW d \in Readers, Bypass(d) PROVE AnswersLast' /\ FreshAfterInvalidation'
  <2>1. CASE Answers(d, revision)
    BY <1>1, <1>3, <1>7, <2>1 DEF Bypass, historyVars
  <2>2. CASE Ends(d) /\ UNCHANGED answer
    BY <1>4, <1>7, <2>2 DEF Bypass, Ends, Moves, historyVars, TypeOK
  <2>. QED  BY <1>7, <2>1, <2>2 DEF Bypass
<1>8. ASSUME NEW d \in Readers, GetVersions(d) \/ SetVersion(d) \/ Query(d) \/ Fails(d)
      PROVE  AnswersLast' /\ FreshAfterInvalidation'
  <2>1. answer' = answer
    BY <1>8 DEF GetVersions, SetVersion, Query, Fails
  <2>2. pc[d] # "done" /\ \A e \in Readers : e # d => pc'[e] = pc[e] /\ since'[e] = since[e]
    BY <1>1, <1>8 DEF GetVersions, SetVersion, Query, Fails, Ends, Moves, historyVars, TypeOK
  <2>. QED  BY <1>4, <2>1, <2>2
<1>9. ASSUME NEW w \in Writers, WriterStep(w) PROVE AnswersLast' /\ FreshAfterInvalidation'
  <2>1. answer' = answer /\ since' = since /\ \A d \in Readers : pc'[d] = pc[d]
    BY <1>1, <1>9, CacheAssumption
       DEF WriterStep, Change, Stamp, Invalidate, InvalidateFails, Ends, Moves, historyVars, TypeOK
  <2>. QED  BY <1>4, <2>1
<1>10. CASE Edit \/ Tick \/ VersionExpires \/ \E t \in Versions : BodyExpires(t)
  BY <1>4, <1>10 DEF Edit, Tick, VersionExpires, BodyExpires, callVars, historyVars
<1>. QED
  BY <1>5, <1>6, <1>7, <1>8, <1>9, <1>10 DEF Next, ReaderStep

-----------------------------------------------------------------------------

\* The inductive invariant
THEOREM CacheInvariant == Spec => []CacheInv
<1>1. CacheInv /\ [Next]_vars => CacheInv'
  <2>. SUFFICES ASSUME CacheInv, [Next]_vars PROVE CacheInv'
    OBVIOUS
  <2>1. CASE UNCHANGED vars
    BY <2>1 DEF vars, keyVars, callVars, historyVars, CacheInv, TypeOK, InUse, Works, AnswersLast,
                FreshAfterInvalidation, SetOnce, Setting, VersionIsFresh, ReadersAreFresh, NotBefore
  <2>2. CASE Next
    <3>1. TypeOK' /\ InUse'
      BY <2>2, CacheTypes DEF CacheInv
    <3>2. AnswersLast' /\ FreshAfterInvalidation'
      BY <2>2, AnswersAreFresh DEF CacheInv
    <3>3. reused => reused'
      BY <2>2 DEF Next, ReaderStep, GetVersions, SetVersion, GetBody, Query, Store, Fails, Bypass,
                  WriterStep, Change, Stamp, Invalidate, InvalidateFails, Edit, Tick, VersionExpires,
                  BodyExpires, Takes, historyVars
    <3>4. ~reused' => SetOnce' /\ VersionIsFresh' /\ ReadersAreFresh'
      BY <2>2, <3>3, FreshHolds DEF CacheInv
    <3>. QED  BY <3>1, <3>2, <3>4 DEF CacheInv
  <2>. QED  BY <2>1, <2>2
<1>. QED  BY <1>1, CacheInit, PTL DEF Spec

\* The types: what is stored was in the table once, under a version somebody
\* took (decorators.py 38-60).
THEOREM CacheTypeCorrect == Spec => []TypeOK
BY CacheInvariant, PTL DEF CacheInv

\* Who asks after an invalidation is complete is shown nothing older, whatever
\* late stores, late sets, expiring keys and failing reads do, unless a
\* millisecond served twice as a version (decorators.py 38-60, 82-87).
THEOREM ReadsAreFresh == Spec => []FreshAfterInvalidation
BY CacheInvariant, PTL DEF CacheInv
=============================================================================
