--------------------------- MODULE ResponseCache ---------------------------
(***************************************************************************)
(* cached_endpoint and invalidates_cache, for one tag and one query.       *)
(*                                                                         *)
(* A response is stored under a key that contains the version of its tag.  *)
(* A version is a time in milliseconds: an invalidation sets a new one and *)
(* so abandons every stored response; a reader that finds no version makes *)
(* one itself.  Neither looks at what the key holds when it sets it, and   *)
(* both take the time before they wait for Redis.  The tags and queries    *)
(* do not share keys, so one of each shows the protocol.                   *)
(***************************************************************************)
EXTENDS Integers

CONSTANTS
  Readers,  \* requests to a cached endpoint
  Writers,  \* requests to an endpoint that invalidates the tag
  Nothing,  \* no version, no response
  MaxNow,   \* bound: milliseconds
  MaxEdits, \* bound: changes made elsewhere, which invalidate nothing
  MaxFaults \* bound: Redis failures and crashes

ASSUME CacheAssumption ==
  /\ MaxNow \in Nat /\ MaxEdits \in Nat /\ MaxFaults \in Nat
  /\ Readers \cap Writers = {} /\ Nothing \notin Nat

VARIABLES
  now,      \* time.time() * 1000
  revision, \* the data behind the endpoint: how often it was changed
  edits,    \* those of the changes that no writer made
  version,  \* <tag>:version
  body,     \* cache:<tag>:<version>:<query>, the revision it shows
  pc, stamp, data,
  answer,   \* the revision a reader's client was shown
  taken,    \* history: the milliseconds somebody took for a version
  reused,   \* history: one was taken twice
  floor,    \* history: the last revision whose invalidation is complete
  since,    \* history: floor when a reader began
  faults

keyVars == <<version, body>>
callVars == <<pc, stamp, data>>
historyVars == <<taken, reused, floor, since>>
vars == <<now, revision, edits, keyVars, callVars, answer, historyVars, faults>>

Versions == 0..MaxNow
Actors == Readers \cup Writers
ReaderPc == {"versions", "set", "get", "query", "store", "bypass", "done"}
WriterPc == {"change", "stamp", "set", "done"}

\* Types; what is stored was in the table once, and is stored under a version
\* that somebody took.
TypeOK ==
  /\ now \in Versions /\ revision \in Nat /\ edits \in 0..MaxEdits
  /\ version \in Versions \cup {Nothing}
  /\ body \in [Versions -> Nat \cup {Nothing}]
  /\ pc \in [Actors -> ReaderPc \cup WriterPc]
  /\ stamp \in [Actors -> Versions] /\ data \in [Actors -> Nat]
  /\ answer \in [Readers -> Nat \cup {Nothing}]
  /\ taken \subseteq 0..now /\ reused \in BOOLEAN
  /\ floor \in 0..revision /\ since \in [Readers -> 0..floor]
  /\ faults \in 0..MaxFaults
  /\ \A t \in Versions : body[t] # Nothing => t \in taken /\ body[t] <= revision
  /\ \A a \in Actors : data[a] <= revision /\ stamp[a] <= now

-----------------------------------------------------------------------------
(* The protocol *)

Fault == faults < MaxFaults /\ faults' = faults + 1
Moves(a, next) == pc' = [pc EXCEPT ![a] = next]
Holds(a, t) == stamp' = [stamp EXCEPT ![a] = t]
Reads(a, shown) == data' = [data EXCEPT ![a] = shown]
Takes(a) ==
  /\ Holds(a, now)
  /\ taken' = taken \cup {now}
  /\ reused' = (reused \/ now \in taken)
\* the end of a call, with the revision it shows
Ends(a) == Moves(a, "done") /\ Holds(a, 0) /\ Reads(a, 0)
Answers(d, shown) == Ends(d) /\ answer' = [answer EXCEPT ![d] = shown]

\* bug: a missing version is as good as any
GetVersions_Default(d) ==
  /\ d \in Readers /\ pc[d] = "versions" /\ Moves(d, "get")
  /\ since' = [since EXCEPT ![d] = floor]
  /\ version # Nothing => Holds(d, version)
  /\ version = Nothing => UNCHANGED stamp
  /\ UNCHANGED <<now, revision, edits, keyVars, data, answer, taken, reused, floor, faults>>

\* MGET of the versions; a missing one is replaced by the time
GetVersions(d) ==
  /\ d \in Readers /\ pc[d] = "versions"
  /\ since' = [since EXCEPT ![d] = floor]
  /\ \/ version = Nothing /\ Moves(d, "set") /\ Takes(d)
     \/ /\ version # Nothing /\ Moves(d, "get")
        /\ Holds(d, version) /\ UNCHANGED <<taken, reused>>
  /\ UNCHANGED <<now, revision, edits, keyVars, data, answer, floor, faults>>

\* SET without NX: it replaces whatever version was set meanwhile
SetVersion(d) ==
  /\ d \in Readers /\ pc[d] = "set" /\ Moves(d, "get")
  /\ version' = stamp[d]
  /\ UNCHANGED <<now, revision, edits, body, stamp, data, answer, historyVars, faults>>

GetBody(d) ==
  /\ pc[d] = "get"
  /\ LET found == body[stamp[d]] IN
     \/ found # Nothing /\ Answers(d, found)
     \/ found = Nothing /\ Moves(d, "query") /\ UNCHANGED <<stamp, data, answer>>
  /\ UNCHANGED <<now, revision, edits, keyVars, historyVars, faults>>

Query(d) ==
  /\ pc[d] = "query"
  /\ \/ Moves(d, "store") /\ Reads(d, revision) /\ UNCHANGED stamp
     \/ Ends(d)  \* ServiceException
  /\ UNCHANGED <<now, revision, edits, keyVars, answer, historyVars, faults>>

Store(d) ==
  /\ pc[d] = "store"
  /\ Answers(d, data[d])
  /\ body' = [body EXCEPT ![stamp[d]] = data[d]]
  /\ UNCHANGED <<now, revision, edits, version, historyVars, faults>>

\* an exception in any of these awaits, the endpoint's included: the endpoint
\* runs, after a failing query or store for the second time
Fails(d) ==
  /\ d \in Readers /\ pc[d] \in {"versions", "set", "get", "query", "store"} /\ Fault
  /\ Moves(d, "bypass") /\ Holds(d, 0) /\ Reads(d, 0)
  /\ since' = IF pc[d] = "versions" THEN [since EXCEPT ![d] = floor] ELSE since
  /\ UNCHANGED <<now, revision, edits, keyVars, answer, taken, reused, floor>>

Bypass(d) ==
  /\ pc[d] = "bypass"
  /\ \/ Answers(d, revision)
     \/ Ends(d) /\ UNCHANGED answer
  /\ UNCHANGED <<now, revision, edits, keyVars, historyVars, faults>>

ReaderStep(d) ==
  \/ GetVersions(d) \/ SetVersion(d) \/ GetBody(d) \/ Query(d) \/ Store(d) \/ Fails(d) \/ Bypass(d)

\* the wrapped handler commits
Change(w) ==
  /\ w \in Writers /\ pc[w] = "change" /\ Moves(w, "stamp")
  /\ revision' = revision + 1
  /\ Reads(w, revision + 1)
  /\ UNCHANGED <<now, edits, keyVars, stamp, answer, historyVars, faults>>

Stamp(w) ==
  /\ pc[w] = "stamp" /\ Moves(w, "set")
  /\ Takes(w)
  /\ UNCHANGED <<now, revision, edits, keyVars, data, answer, floor, since, faults>>

Higher(a, b) == IF a < b THEN b ELSE a

Invalidate(w) ==
  /\ w \in Writers /\ pc[w] = "set" /\ Ends(w)
  /\ version' = stamp[w]
  /\ floor' = Higher(floor, data[w])
  /\ UNCHANGED <<now, revision, edits, body, answer, taken, reused, since, faults>>

\* the failure is logged and the client told of success; or the process dies
InvalidateFails(w) ==
  /\ w \in Writers /\ pc[w] \in {"stamp", "set"} /\ Fault
  /\ Ends(w)
  /\ UNCHANGED <<now, revision, edits, keyVars, answer, historyVars>>

\* bug: the new version is set before the change is committed
StampFirst(w) ==
  /\ w \in Writers /\ pc[w] = "change" /\ Moves(w, "set")
  /\ Takes(w)
  /\ UNCHANGED <<now, revision, edits, keyVars, data, answer, floor, since, faults>>
SetFirst(w) ==
  /\ w \in Writers /\ pc[w] = "set" /\ Moves(w, "stamp")
  /\ version' = stamp[w]
  /\ UNCHANGED <<now, revision, edits, body, stamp, data, answer, historyVars, faults>>
ChangeLast(w) ==
  /\ pc[w] = "stamp" /\ Moves(w, "done")
  /\ revision' = revision + 1 /\ floor' = revision + 1
  /\ UNCHANGED <<now, edits, keyVars, stamp, data, answer, taken, reused, since, faults>>
WriterStep_SetFirst(w) == StampFirst(w) \/ SetFirst(w) \/ ChangeLast(w)

WriterStep(w) == Change(w) \/ Stamp(w) \/ Invalidate(w) \/ InvalidateFails(w)

-----------------------------------------------------------------------------
(* Around it *)

\* a booking, an edit, a new subcategory, the start of an event: changes the
\* endpoints show and no invalidates_cache follows
Edit ==
  /\ edits < MaxEdits /\ edits' = edits + 1
  /\ revision' = revision + 1
  /\ UNCHANGED <<now, keyVars, callVars, answer, historyVars, faults>>

Tick ==
  /\ now < MaxNow /\ now' = now + 1
  /\ UNCHANGED <<revision, edits, keyVars, callVars, answer, historyVars, faults>>

\* ttl * 2 for a reader's version; any key goes when the store restarts
VersionExpires ==
  /\ version # Nothing /\ version' = Nothing
  /\ UNCHANGED <<now, revision, edits, body, callVars, answer, historyVars, faults>>

\* ttl
BodyExpires(t) ==
  /\ body[t] # Nothing /\ body' = [body EXCEPT ![t] = Nothing]
  /\ UNCHANGED <<now, revision, edits, version, callVars, answer, historyVars, faults>>

Init ==
  /\ now = 0 /\ revision = 0 /\ edits = 0
  /\ version = Nothing /\ body = [t \in Versions |-> Nothing]
  /\ pc = [a \in Actors |-> IF a \in Readers THEN "versions" ELSE "change"]
  /\ stamp = [a \in Actors |-> 0] /\ data = [a \in Actors |-> 0]
  /\ answer = [d \in Readers |-> Nothing]
  /\ taken = {} /\ reused = FALSE
  /\ floor = 0 /\ since = [d \in Readers |-> 0]
  /\ faults = 0

Next ==
  \/ \E d \in Readers : ReaderStep(d)
  \/ \E w \in Writers : WriterStep(w)
  \/ Edit \/ Tick \/ VersionExpires
  \/ \E t \in Versions : BodyExpires(t)

Spec == Init /\ [][Next]_vars

-----------------------------------------------------------------------------

\* A reader that comes after an invalidation is not shown the data from before
\* it, in spite of late stores, late sets that put an older version back and
\* failing reads, as long as nobody takes the same millisecond for a version
\* twice (decorators.py 38-60, 82-87).
FreshAfterInvalidation ==
  \A d \in Readers : answer[d] # Nothing => answer[d] >= since[d] \/ reused
=============================================================================
