------------------------------- MODULE Tasks -------------------------------
(***************************************************************************)
(* Background tasks: TaskIqTaskManager.perform_task and the TaskIQ parts   *)
(* it hands work to.  A delayed task is an entry of the Redis schedule     *)
(* source, stored under "delayed:<name>:<timestamp>"; the scheduler kicks  *)
(* a due entry to the Redis list of the broker and then deletes it; a      *)
(* worker pops the list, which takes the message off Redis for good.       *)
(* There is no clock here: an entry may become due any time after it is    *)
(* added.                                                                  *)
(***************************************************************************)
EXTENDS Naturals

CONSTANT Messages   \* task invocations, told apart by name and arguments

VARIABLES
  schedule,  \* entries of RedisScheduleSource
  sending,   \* entries the scheduler has kicked but not yet deleted
  queue      \* messages in the list of ListQueueBroker

taskVars == <<schedule, sending, queue>>

TasksTypeOK ==
  /\ schedule \subseteq Messages
  /\ sending \subseteq schedule
  /\ queue \subseteq Messages

TasksInit == schedule = {} /\ sending = {} /\ queue = {}

\* perform_task with a delay, when schedule_id is new
AddSchedule(m) ==
  /\ schedule' = schedule \cup {m}
  /\ UNCHANGED <<sending, queue>>

\* bug: the scheduler takes the new entry of an id for one it has kicked
OverwriteSchedule_KeepsSending(m, n) ==
  /\ n \in schedule \ {m}
  /\ schedule' = (schedule \ {n}) \cup {m}
  /\ UNCHANGED <<sending, queue>>

\* perform_task with a delay in the same microsecond as another call for
\* entry n: both have the same schedule_id and n is overwritten
OverwriteSchedule(m, n) ==
  /\ n \in schedule \ {m}
  /\ schedule' = (schedule \ {n}) \cup {m}
  /\ sending' = sending \ {n}
  /\ UNCHANGED queue

\* the scheduler kicks a due entry ...
SendDue(m) ==
  /\ m \in schedule \ sending
  /\ queue' = queue \cup {m}
  /\ sending' = sending \cup {m}
  /\ UNCHANGED schedule

\* ... and deletes it
DeleteSent(m) ==
  /\ m \in sending
  /\ schedule' = schedule \ {m}
  /\ sending' = sending \ {m}
  /\ UNCHANGED queue

\* The scheduler restarts and no longer knows what it has already kicked.
SchedulerRestart ==
  /\ sending # {}
  /\ sending' = {}
  /\ UNCHANGED <<schedule, queue>>

\* a worker pops a message
Pop(m) ==
  /\ m \in queue
  /\ queue' = queue \ {m}
  /\ UNCHANGED <<schedule, sending>>
=============================================================================
