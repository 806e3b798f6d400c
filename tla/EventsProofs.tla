---------------------------- MODULE EventsProofs ----------------------------
(***************************************************************************)
(* The event operations for any number of events, categories and sessions: *)
(* a session that has run its UPDATE holds the row in the state its WHERE  *)
(* clause asked for, until it commits.                                     *)
(***************************************************************************)
EXTENDS Events, TLAPS

Updates == Moves \cup {"update"}

\* What a session is about to do next, and on what.
SessionsInv ==
  \A s \in Sessions :
    /\ pc[s] \in {"query", "commit", "reread"} /\ kind[s] \in Updates => target[s] \in EventIds
    /\ pc[s] \in {"commit", "reread"} => kind[s] \in Updates
    /\ pc[s] = "commit" => rowLock[target[s]] = s /\ Matches(s)
    /\ pc[s] = "events" => kind[s] = "create_category"
    /\ pc[s] = "insert" /\ kind[s] = "create" => place[s] \in exists

EventsInv == TypeOK /\ SessionsInv /\ AcknowledgedHolds

-----------------------------------------------------------------------------

\* From the states a moderated or cancelled event is in, no operation leads away.
LEMMA StateChart ==
  ASSUME NEW op \in Updates
  PROVE  /\ From(op) \subseteq {"draft", "on_moderation"}
         /\ op \in Moves => To(op) \in EventState \ {"draft"}
         /\ op \in Moves \ {"publish"} => To(op) \in {"cancelled", "approved", "rejected"}
         /\ op \in {"update", "publish"} => From(op) = {"draft"}
  BY DEF Updates, Moves, From, To, EventState

LEMMA EventsInit == Init => EventsInv
BY EventsAssumption
   DEF Init, EventsInv, TypeOK, SessionsInv, AcknowledgedHolds, EventState, Kinds

\* The end of a request frees its row and leaves everybody else's.
LEMMA FinishStep ==
  ASSUME TypeOK, SessionsInv, NEW s \in Sessions, Finish(s), UNCHANGED tableVars
  PROVE  SessionsInv'
BY EventsAssumption DEF TypeOK, SessionsInv, Matches, Finish, tableVars, requestVars

LEMMA ContinueStep ==
  ASSUME TypeOK, SessionsInv, NEW s \in Sessions, NEW next \in {"events", "insert"},
         Continue(s, next), UNCHANGED tableVars,
         next = "events" => kind[s] = "create_category",
         next = "insert" /\ kind[s] = "create" => place[s] \in exists
  PROVE  SessionsInv'
BY EventsAssumption DEF TypeOK, SessionsInv, Matches, Continue, tableVars, requestVars

LEMMA TypeStep ==
  ASSUME TypeOK, SessionsInv, [Next]_vars
  PROVE  TypeOK'
<1>. USE EventsAssumption DEF TypeOK, tableVars, requestVars
<1>1. ASSUME NEW s \in Sessions, Request(s) PROVE TypeOK'
  BY <1>1 DEF Request, Kinds
<1>2. ASSUME NEW s \in Sessions, Match(s) PROVE TypeOK'
  BY <1>2 DEF Match, IsUpdate, SessionsInv, Updates
<1>3. ASSUME NEW s \in Sessions, Miss(s) PROVE TypeOK'
  BY <1>3 DEF Miss, IsUpdate, Continue
<1>4. ASSUME NEW s \in Sessions, CommitMove(s) PROVE TypeOK'
  <2>1. /\ target[s] \in EventIds /\ state[target[s]] \in {"draft", "on_moderation"}
        /\ To(kind[s]) \in EventState /\ To(kind[s]) # "none" /\ state[target[s]] # "none"
    BY <1>4, StateChart DEF CommitMove, SessionsInv, Matches, Updates, EventState
  <2>. QED  BY <1>4, <2>1 DEF CommitMove, Finish
<1>5. ASSUME NEW s \in Sessions, CommitUpdate(s) PROVE TypeOK'
  <2>1. target[s] \in EventIds /\ state[target[s]] # "none"
    BY <1>5, StateChart DEF CommitUpdate, SessionsInv, Matches, Updates
  <2>. QED  BY <1>5, <2>1 DEF CommitUpdate, Finish
<1>6. ASSUME NEW s \in Sessions, Reread(s) PROVE TypeOK'
  BY <1>6 DEF Reread, AlreadySo, Finish, SessionsInv, Updates
<1>7. ASSUME NEW s \in Sessions, CheckCategory(s) PROVE TypeOK'
  BY <1>7 DEF CheckCategory, Finish, Continue
<1>8. ASSUME NEW s \in Sessions, InsertEvent(s) PROVE TypeOK'
  BY <1>8 DEF InsertEvent, Finish, SessionsInv, EventState
<1>9. ASSUME NEW s \in Sessions, CheckParent(s) PROVE TypeOK'
  BY <1>9 DEF CheckParent, Finish, Continue
<1>10. ASSUME NEW s \in Sessions, CheckNoEvents(s) PROVE TypeOK'
  BY <1>10 DEF CheckNoEvents, Finish, Continue
<1>11. ASSUME NEW s \in Sessions, InsertCategory(s) PROVE TypeOK'
  BY <1>11 DEF InsertCategory, Finish
<1>12. ASSUME NEW s \in Sessions, NoRowLeft(s) \/ Fail(s) PROVE TypeOK'
  BY <1>12 DEF NoRowLeft, Fail, Finish
<1>13. CASE UNCHANGED vars
  BY <1>13 DEF vars
<1>. QED
  BY <1>1, <1>2, <1>3, <1>4, <1>5, <1>6, <1>7, <1>8, <1>9, <1>10, <1>11, <1>12, <1>13 DEF Next, Step

\* A row keeps the state its holder has found.
LEMMA SessionsStep ==
  ASSUME TypeOK, SessionsInv, [Next]_vars
  PROVE  SessionsInv'
<1>. USE EventsAssumption DEF TypeOK, tableVars, requestVars
<1>1. ASSUME NEW s \in Sessions, Request(s) PROVE SessionsInv'
  <2>1. PICK op \in Kinds, e \in EventIds \cup {NoEvent}, c \in CategoryIds \cup {NoCategory} :
          /\ Asks(op, e, c)
          /\ kind' = [kind EXCEPT ![s] = op] /\ target' = [target EXCEPT ![s] = e]
          /\ place' = [place EXCEPT ![s] = c]
    BY <1>1 DEF Request
  <2>2. op \in Updates => e \in EventIds
    BY <2>1 DEF Asks, Updates, Moves
  <2>3. /\ pc[s] = "idle" /\ pc' = [pc EXCEPT ![s] = "query"]
        /\ UNCHANGED <<state, exists, rowLock>>
    BY <1>1 DEF Request
  <2>. QED  BY <2>1, <2>2, <2>3 DEF SessionsInv, Matches
<1>2. ASSUME NEW s \in Sessions, Match(s) PROVE SessionsInv'
  BY <1>2 DEF Match, IsUpdate, SessionsInv, Updates, Matches
<1>3. ASSUME NEW s \in Sessions, Miss(s) PROVE SessionsInv'
  BY <1>3 DEF Miss, IsUpdate, Continue, SessionsInv, Updates, Matches
<1>4. ASSUME NEW s \in Sessions, CommitMove(s) PROVE SessionsInv'
  <2>1. \A r \in Sessions : r # s /\ pc[r] = "commit" => target[r] # target[s]
    BY <1>4 DEF CommitMove, SessionsInv
  <2>. QED  BY <1>4, <2>1 DEF CommitMove, Finish, SessionsInv, Matches
<1>5. ASSUME NEW s \in Sessions, CommitUpdate(s) PROVE SessionsInv'
  BY <1>5 DEF CommitUpdate, Finish, SessionsInv, Matches
<1>6. ASSUME NEW s \in Sessions, Reread(s) \/ NoRowLeft(s) \/ Fail(s) PROVE SessionsInv'
  BY <1>6, FinishStep DEF Reread, NoRowLeft, Fail
<1>7. ASSUME NEW s \in Sessions, CheckCategory(s) PROVE SessionsInv'
  BY <1>7, FinishStep, ContinueStep DEF CheckCategory
<1>8. ASSUME NEW s \in Sessions, InsertEvent(s) PROVE SessionsInv'
  <2>1. \A r \in Sessions, e \in EventIds : pc[r] = "commit" /\ state[e] = "none" => target[r] # e
    BY StateChart DEF SessionsInv, Matches, Updates
  <2>. QED  BY <1>8, <2>1 DEF InsertEvent, Finish, SessionsInv, Matches
<1>9. ASSUME NEW s \in Sessions, CheckParent(s) PROVE SessionsInv'
  BY <1>9, FinishStep, ContinueStep DEF CheckParent
<1>10. ASSUME NEW s \in Sessions, CheckNoEvents(s) PROVE SessionsInv'
  BY <1>10, FinishStep, ContinueStep DEF CheckNoEvents, SessionsInv
<1>11. ASSUME NEW s \in Sessions, InsertCategory(s) PROVE SessionsInv'
  BY <1>11 DEF InsertCategory, Finish, SessionsInv, Matches
<1>12. CASE UNCHANGED vars
  BY <1>12 DEF vars, SessionsInv, Matches
<1>. QED
  BY <1>1, <1>2, <1>3, <1>4, <1>5, <1>6, <1>7, <1>8, <1>9, <1>10, <1>11, <1>12 DEF Next, Step

LEMMA AnswersStep ==
  ASSUME TypeOK, SessionsInv, AcknowledgedHolds, [Next]_vars
  PROVE  AcknowledgedHolds'
<1>. USE DEF TypeOK, tableVars, requestVars
<1>1. ASSUME NEW s \in Sessions, CommitMove(s) PROVE AcknowledgedHolds'
  <2>1. target[s] \in EventIds /\ state[target[s]] \in From(kind[s]) /\ kind[s] \in Moves
    BY <1>1 DEF CommitMove, SessionsInv, Matches, Updates
  <2>2. /\ state' = [state EXCEPT ![target[s]] = To(kind[s])]
        /\ told' = told \cup {<<kind[s], target[s]>>}
    BY <1>1 DEF CommitMove
  <2>3. /\ state[target[s]] \in {"draft", "on_moderation"} /\ To(kind[s]) \notin {"none", "draft"}
        /\ \A op \in Moves \ {"publish"} : To(op) \notin {"draft", "on_moderation"}
    BY <2>1, StateChart DEF Updates, EventState
  <2>4. ASSUME NEW e \in EventIds, NEW op \in Moves \ {"publish"}, <<op, e>> \in told'
        PROVE  state'[e] = To(op)
    <3>1. CASE <<op, e>> \in told
      <4>1. state[e] = To(op)
        BY <3>1 DEF AcknowledgedHolds
      <4>2. e # target[s]
        BY <2>3, <4>1
      <4>. QED  BY <2>1, <2>2, <4>1, <4>2
    <3>2. CASE op = kind[s] /\ e = target[s]
      BY <2>1, <2>2, <3>2
    <3>. QED  BY <2>2, <2>4, <3>1, <3>2
  <2>5. ASSUME NEW e \in EventIds, <<"publish", e>> \in told'
        PROVE  state'[e] \notin {"none", "draft"}
    <3>1. CASE <<"publish", e>> \in told
      BY <2>1, <2>2, <2>3, <3>1 DEF AcknowledgedHolds
    <3>2. CASE e = target[s]
      BY <2>1, <2>2, <2>3, <3>2
    <3>. QED  BY <2>2, <2>5, <3>1, <3>2
  <2>. QED  BY <2>4, <2>5 DEF AcknowledgedHolds
<1>2. ASSUME NEW s \in Sessions, Reread(s) PROVE AcknowledgedHolds'
  <2>1. CASE AlreadySo(s)
    BY <1>2, <2>1 DEF Reread, AlreadySo, SessionsInv, Updates, AcknowledgedHolds, Moves, To
  <2>2. CASE ~AlreadySo(s)
    BY <1>2, <2>2 DEF Reread, AcknowledgedHolds
  <2>. QED  BY <2>1, <2>2
<1>3. ASSUME NEW s \in Sessions, InsertEvent(s) PROVE AcknowledgedHolds'
  <2>1. PICK e \in EventIds : state[e] = "none" /\ state' = [state EXCEPT ![e] = "draft"]
    BY <1>3 DEF InsertEvent
  <2>2. told' = told /\ \A op \in Moves \ {"publish"} : To(op) # "none"
    BY <1>3, StateChart DEF InsertEvent, Updates
  <2>3. ASSUME NEW d \in EventIds, NEW op \in Moves \ {"publish"}, <<op, d>> \in told
        PROVE  state'[d] = To(op)
    <3>1. state[d] = To(op)
      BY <2>3 DEF AcknowledgedHolds
    <3>2. d # e
      BY <2>1, <2>2, <3>1
    <3>. QED  BY <2>1, <3>1, <3>2
  <2>4. ASSUME NEW d \in EventIds, <<"publish", d>> \in told
        PROVE  state'[d] \notin {"none", "draft"}
    BY <2>1, <2>4 DEF AcknowledgedHolds
  <2>. QED  BY <2>2, <2>3, <2>4 DEF AcknowledgedHolds
<1>4. CASE UNCHANGED <<state, told>>
  BY <1>4 DEF AcknowledgedHolds
<1>. QED
  BY <1>1, <1>2, <1>3, <1>4
     DEF Next, Step, Request, Match, Miss, CommitUpdate, CheckCategory, CheckParent, CheckNoEvents,
         InsertCategory, NoRowLeft, Fail, vars

-----------------------------------------------------------------------------
(* The steps a reader of the table, or a client, can see *)

\* The arrow of a chart that a matched move follows, or a repeated one has
\* followed.
LEMMA ArrowOfMove ==
  ASSUME NEW op \in Moves
  PROVE  /\ \A from \in From(op) : <<op, from, To(op)>> \in Lifecycle!Chart
         /\ \E from \in From(op) : TRUE
BY DEF Moves, From, To, Lifecycle!Chart

LEMMA CommitMoveIsMove ==
  ASSUME EventsInv, NEW s \in Sessions, CommitMove(s)
  PROVE  Lifecycle!LifecycleNext
<1>1. /\ kind[s] \in Moves /\ target[s] \in EventIds /\ state[target[s]] \in From(kind[s])
      /\ state' = [state EXCEPT ![target[s]] = To(kind[s])]
      /\ told' = told \cup {<<kind[s], target[s]>>}
      /\ category' = category
  BY DEF CommitMove, EventsInv, SessionsInv, Matches, Updates
<1> DEFINE arrow == <<kind[s], state[target[s]], To(kind[s])>>
<1>2. arrow \in Lifecycle!Chart
  BY <1>1, ArrowOfMove
<1>3. Lifecycle!Move(target[s], arrow)
  BY <1>1 DEF Lifecycle!Move
<1>. QED  BY <1>1, <1>2, <1>3 DEF Lifecycle!LifecycleNext

LEMMA RereadIsRepeat ==
  ASSUME EventsInv, NEW s \in Sessions, Reread(s)
  PROVE  Lifecycle!LifecycleNext \/ UNCHANGED Lifecycle!lifecycleVars
<1>1. CASE ~AlreadySo(s)
  BY <1>1 DEF Reread, tableVars, Lifecycle!lifecycleVars
<1>2. CASE AlreadySo(s)
  <2>1. /\ kind[s] \in Moves /\ target[s] \in EventIds /\ state[target[s]] = To(kind[s])
        /\ told' = told \cup {<<kind[s], target[s]>>}
        /\ UNCHANGED <<state, category>>
    BY <1>2 DEF Reread, AlreadySo, EventsInv, SessionsInv, Updates, tableVars
  <2>2. PICK from \in From(kind[s]) : <<kind[s], from, To(kind[s])>> \in Lifecycle!Chart
    BY <2>1, ArrowOfMove
  <2> DEFINE arrow == <<kind[s], from, To(kind[s])>>
  <2>3. Lifecycle!Repeat(target[s], arrow)
    BY <2>1 DEF Lifecycle!Repeat
  <2>. QED  BY <2>1, <2>2, <2>3 DEF Lifecycle!LifecycleNext
<1>. QED  BY <1>1, <1>2

LEMMA LifecycleStep ==
  ASSUME EventsInv, [Next]_vars
  PROVE  [Lifecycle!LifecycleNext]_(Lifecycle!lifecycleVars)
<1>1. ASSUME NEW s \in Sessions, CommitUpdate(s)
      PROVE  Lifecycle!LifecycleNext \/ UNCHANGED <<state, category, told>>
  <2>1. target[s] \in EventIds /\ state[target[s]] = "draft"
    BY <1>1, StateChart DEF CommitUpdate, EventsInv, SessionsInv, Matches, Updates
  <2>2. CASE place[s] \in exists
    <3>1. place[s] \in CategoryIds
      BY <2>2 DEF EventsInv, TypeOK
    <3>2. Lifecycle!Edit(target[s])
      BY <1>1, <2>1, <2>2, <3>1 DEF CommitUpdate, Lifecycle!Edit
    <3>. QED  BY <2>1, <3>2 DEF Lifecycle!LifecycleNext
  <2>. QED  BY <1>1, <2>2 DEF CommitUpdate
<1>2. ASSUME NEW s \in Sessions, InsertEvent(s) PROVE Lifecycle!LifecycleNext
  <2>1. place[s] \in CategoryIds
    BY <1>2 DEF InsertEvent, EventsInv, SessionsInv, TypeOK
  <2>2. PICK e \in EventIds : Lifecycle!Create(e)
    BY <1>2, <2>1 DEF InsertEvent, Lifecycle!Create
  <2>. QED  BY <2>2 DEF Lifecycle!LifecycleNext
<1>3. CASE UNCHANGED <<state, category, told>>
  BY <1>3 DEF Lifecycle!lifecycleVars
<1>. QED
  BY <1>1, <1>2, <1>3, CommitMoveIsMove, RereadIsRepeat
     DEF Next, Step, Request, Match, Miss, CheckCategory, CheckParent, CheckNoEvents,
         InsertCategory, NoRowLeft, Fail, vars, tableVars, Lifecycle!lifecycleVars

-----------------------------------------------------------------------------
(* The theorems *)

\* The invariant the others follow from: a row between UPDATE and commit is
\* locked and in a state of the WHERE clause (event/services.py 86-175).
THEOREM EventsInvariant == Spec => []EventsInv
<1>1. EventsInv /\ [Next]_vars => EventsInv'
  BY TypeStep, SessionsStep, AnswersStep DEF EventsInv
<1>. QED  BY EventsInit, <1>1, PTL DEF Spec

\* Types, one holder for a row, and an existing category for every event.
THEOREM EventsTypeCorrect == Spec => []TypeOK
<1>1. EventsInv => TypeOK
  BY DEF EventsInv
<1>. QED  BY EventsInvariant, <1>1, PTL

\* Clients were told the truth, and it stays true (event/services.py 141-175).
THEOREM AnswersStayTrue == Spec => []AcknowledgedHolds
<1>1. EventsInv => AcknowledgedHolds
  BY DEF EventsInv
<1>. QED  BY EventsInvariant, <1>1, PTL

\* Once an event left the draft state nothing about it is edited, however an
\* edit and a publication of it interleave: moderators decide on what is sold.
FrozenOnceSubmitted ==
  [][\A e \in EventIds : state[e] \notin {"none", "draft"} =>
       /\ category'[e] = category[e]
       /\ state[e] # "on_moderation" => state'[e] = state[e]]_vars

\* A submitted event is not edited, and moderated ones do not move
\* (event/services.py 107-139).
THEOREM SubmittedEventsAreFrozen == Spec => FrozenOnceSubmitted
<1>. DEFINE Frozen == \A e \in EventIds : state[e] \notin {"none", "draft"} =>
                        /\ category'[e] = category[e]
                        /\ state[e] # "on_moderation" => state'[e] = state[e]
<1>1. ASSUME EventsInv, Next PROVE Frozen
  <2>. USE <1>1 DEF EventsInv, TypeOK, tableVars
  <2>1. ASSUME NEW s \in Sessions, CommitMove(s) PROVE Frozen
    <3>1. state[target[s]] \in {"draft", "on_moderation"}
      BY <2>1, StateChart DEF CommitMove, SessionsInv, Matches, Updates
    <3>. QED  BY <2>1, <3>1 DEF CommitMove
  <2>2. ASSUME NEW s \in Sessions, CommitUpdate(s) PROVE Frozen
    <3>1. state[target[s]] = "draft"
      BY <2>2, StateChart DEF CommitUpdate, SessionsInv, Matches, Updates
    <3>. QED  BY <2>2, <3>1 DEF CommitUpdate
  <2>3. ASSUME NEW s \in Sessions, InsertEvent(s) PROVE Frozen
    BY <2>3 DEF InsertEvent
  <2>4. CASE UNCHANGED <<state, category>>
    BY <2>4
  <2>. QED
    BY <2>1, <2>2, <2>3, <2>4
       DEF Next, Step, Request, Match, Miss, Reread, CheckCategory, CheckParent, CheckNoEvents,
           InsertCategory, NoRowLeft, Fail
<1>2. EventsInv /\ [Next]_vars => [Frozen]_vars
  BY <1>1
<1>. QED  BY EventsInvariant, <1>2, PTL DEF Spec, FrozenOnceSubmitted

\* Every request, however many statements it takes and whoever runs beside it,
\* acts in one step of the chart, or not at all (event/services.py 24-190).
THEOREM EventsImplementLifecycle == Spec => ImplementsLifecycle
<1>1. Init => Lifecycle!LifecycleInit
  BY DEF Init, Lifecycle!LifecycleInit
<1>2. EventsInv /\ [Next]_vars => [Lifecycle!LifecycleNext]_(Lifecycle!lifecycleVars)
  BY LifecycleStep
<1>. QED
  BY EventsInvariant, <1>1, <1>2, PTL DEF Spec, ImplementsLifecycle, Lifecycle!LifecycleSpec
=============================================================================
