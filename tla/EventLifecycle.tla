--------------------------- MODULE EventLifecycle ---------------------------
(***************************************************************************)
(* What the event operations promise to the people who use them: an event  *)
(* moves along a fixed chart, one arrow at a time and each in one step; it *)
(* can be edited as a draft only; and who asks for a move is told that it  *)
(* succeeded only at a moment when the event is where the move leads.      *)
(***************************************************************************)
CONSTANTS EventIds, CategoryIds, NoCategory

VARIABLES state, category, told

lifecycleVars == <<state, category, told>>

\* <<operation, from, to>>
Chart ==
  { <<"publish", "draft", "on_moderation">>,
    <<"approve", "on_moderation", "approved">>,
    <<"reject",  "on_moderation", "rejected">>,
    <<"cancel",  "draft", "cancelled">>,
    <<"cancel",  "on_moderation", "cancelled">> }

LifecycleInit ==
  /\ state = [e \in EventIds |-> "none"]
  /\ category = [e \in EventIds |-> NoCategory]
  /\ told = {}

Create(e) ==
  /\ state[e] = "none"
  /\ state' = [state EXCEPT ![e] = "draft"]
  /\ \E c \in CategoryIds : category' = [category EXCEPT ![e] = c]
  /\ UNCHANGED told

Edit(e) ==
  /\ state[e] = "draft"
  /\ \E c \in CategoryIds : category' = [category EXCEPT ![e] = c]
  /\ UNCHANGED <<state, told>>

Move(e, arrow) ==
  /\ state[e] = arrow[2]
  /\ state' = [state EXCEPT ![e] = arrow[3]]
  /\ told' = told \cup {<<arrow[1], e>>}
  /\ UNCHANGED category

\* the move was made before: the answer is the same
Repeat(e, arrow) ==
  /\ state[e] = arrow[3]
  /\ told' = told \cup {<<arrow[1], e>>}
  /\ UNCHANGED <<state, category>>

LifecycleNext ==
  \E e \in EventIds :
    \/ Create(e) \/ Edit(e)
    \/ \E arrow \in Chart : Move(e, arrow) \/ Repeat(e, arrow)

LifecycleSpec == LifecycleInit /\ [][LifecycleNext]_lifecycleVars
=============================================================================
