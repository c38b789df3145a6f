----------------------------- MODULE DelayQueue -----------------------------
(***************************************************************************)
(* What base::task_queue promises the threads that share it: a set of      *)
(* tasks with due times, from which a consumer takes everything that is    *)
(* due, nothing before its time and nothing twice, and in which no due     *)
(* task stays forever unless the queue is cleared.                         *)
(*                                                                         *)
(* TaskQueue is shown to implement it, and BaseThread is built on it.      *)
(***************************************************************************)
EXTENDS Naturals

CONSTANTS
  Tasks,    \* the timed_tasks, each pushed at most once
  Delays,   \* the delays tasks are posted with
  MaxTime   \* bound: the clock stops here, and no task is due later

VARIABLES
  clock,   \* high_steady_clock::now()
  status,  \* what has become of each task
  when     \* timed_task::when

dqVars == <<clock, status, when>>

Init ==
  /\ clock = 0
  /\ status = [t \in Tasks |-> "new"]
  /\ when = [t \in Tasks |-> 0]

Pending == {t \in Tasks : status[t] = "pending"}
Due == {t \in Pending : when[t] <= clock}
Mark(S, s) == status' = [t \in Tasks |-> IF t \in S THEN s ELSE status[t]]

\* The due time is fixed when the timed_task is built, before it is pushed.
Stamp(t, d) ==
  /\ status[t] = "new" /\ clock + d <= MaxTime
  /\ Mark({t}, "stamped") /\ when' = [when EXCEPT ![t] = clock + d]
  /\ UNCHANGED clock

Push(t) == status[t] = "stamped" /\ Mark({t}, "pending") /\ UNCHANGED <<clock, when>>

\* A wait_and_pop() returns all that is due, which may be nothing.
Take == Mark(Due, "taken") /\ UNCHANGED <<clock, when>>

Clear == Mark(Pending, "dropped") /\ UNCHANGED <<clock, when>>

Tick == clock < MaxTime /\ clock' = clock + 1 /\ UNCHANGED <<status, when>>

Next ==
  \/ \E t \in Tasks : Push(t) \/ \E d \in Delays : Stamp(t, d)
  \/ Take \/ Clear \/ Tick

SafeSpec == Init /\ [][Next]_dqVars

Spec == SafeSpec /\ WF_dqVars(Take)
=============================================================================
