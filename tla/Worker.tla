------------------------------- MODULE Worker -------------------------------
(***************************************************************************)
(* What a base::thread promises those who post to it, without its clock,   *)
(* queue, batches and stop tasks:                                          *)
(*                                                                         *)
(*   - a task runs once at most, while the thread exists, and not before   *)
(*     one that it was posted behind;                                      *)
(*   - a stop() owes a run to each undelayed task posted before it, and    *)
(*     the thread does not end before it has paid;                         *)
(*   - a stopping thread may drop the other tasks.                         *)
(*                                                                         *)
(* BaseThread is shown to implement it, and Engine is built on it.         *)
(***************************************************************************)
CONSTANT Tasks   \* the tasks, each posted at most once

VARIABLES
  phase,   \* whether the thread exists, and is being started or stopped
  status,  \* what has become of each task
  ahead    \* <<t, u>> if both wait, and t runs before u or not at all

workerVars == <<phase, status, ahead>>

Kinds == {"prompt", "delayed"}

WorkerTypeOK ==
  /\ phase \in {"off", "starting", "on", "stopping"}
  /\ status \in [Tasks -> Kinds \cup {"new", "owed", "ran", "dropped"}]
  /\ ahead \subseteq Tasks \X Tasks

Init ==
  /\ phase = "off" /\ status = [t \in Tasks |-> "new"] /\ ahead = {}

Waiting == {t \in Tasks : status[t] \in Kinds \cup {"owed"}}

\* Those of T wait no longer.
Leave(T, s) ==
  /\ status' = [t \in Tasks |-> IF t \in T THEN s ELSE status[t]]
  /\ ahead' = {p \in ahead : p[1] \notin T /\ p[2] \notin T}

(***************************************************************************)
(* What others do.  The assertion of post_task() is theirs to fulfil: the  *)
(* post of a task may overlap a stop(), and outlast it.                    *)
(***************************************************************************)

\* t is posted behind the tasks of S: those due earlier that were there before.
Post(t, S, kind) ==
  /\ status[t] = "new" /\ S \subseteq Waiting
  /\ status' = [status EXCEPT ![t] = kind] /\ ahead' = ahead \cup (S \X {t})
  /\ UNCHANGED phase

Start == phase = "off" /\ phase' = "starting" /\ UNCHANGED <<status, ahead>>

\* stop() is called.
Stop ==
  /\ phase = "on" /\ phase' = "stopping"
  /\ status' = [t \in Tasks |-> IF status[t] = "prompt" THEN "owed" ELSE status[t]]
  /\ UNCHANGED ahead

(***************************************************************************)
(* What the thread does.                                                   *)
(***************************************************************************)
Up == phase = "starting" /\ phase' = "on" /\ UNCHANGED <<status, ahead>>

IsNext(t) == t \in Waiting /\ \A u \in Tasks : <<u, t>> \notin ahead

Run(t) == phase # "off" /\ IsNext(t) /\ Leave({t}, "ran") /\ UNCHANGED phase

Drop(T) ==
  /\ phase = "stopping" /\ T \subseteq {t \in Waiting : status[t] # "owed"}
  /\ Leave(T, "dropped") /\ UNCHANGED phase

Down ==
  /\ phase = "stopping" /\ \A t \in Tasks : status[t] # "owed"
  /\ phase' = "off" /\ UNCHANGED <<status, ahead>>

Work == \E t \in Tasks : Run(t)

Next ==
  \/ Start \/ Up \/ Stop \/ Down \/ Work
  \/ \E T \in SUBSET Tasks : Drop(T)
  \/ \E t \in Tasks, S \in SUBSET Tasks, kind \in Kinds : Post(t, S, kind)

SafeSpec == Init /\ [][Next]_workerVars

\* A thread that exists runs its tasks; start() and stop() return.
Spec ==
  SafeSpec /\ WF_workerVars(Up) /\ WF_workerVars(Down) /\ WF_workerVars(Work)
=============================================================================
