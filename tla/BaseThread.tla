----------------------------- MODULE BaseThread -----------------------------
(***************************************************************************)
(* base::thread with its message loop and its start event (base/thread.cc, *)
(* base/message_loop.cc, base/waitable_event.cc), over the DelayQueue that *)
(* base/task_queue.cc implements.                                          *)
(*                                                                         *)
(* The owner starts and stops the thread, again and again; any threads,    *)
(* the loop's own included, post tasks to it meanwhile.  A step is one     *)
(* operation on the queue, on active_ or on the event, or one task run.    *)
(***************************************************************************)
EXTENDS Naturals

CONSTANTS
  Tasks,      \* the tasks posted with post_task()
  StopTasks,  \* bound: the tasks stop() posts, one for each call
  Delays,     \* the delays tasks are posted with
  MaxTime     \* bound: the clock stops here, and no task is due later

AllTasks == Tasks \cup StopTasks

ASSUME BaseThreadAssumption ==
  /\ Tasks \cap StopTasks = {}
  /\ MaxTime \in Nat /\ Delays \subseteq Nat

VARIABLES
  clock, status, when,  \* the queue
  active,     \* message_loop::active_
  joinable,   \* thread_.joinable()
  signaled,   \* waiter_.signaled_, never reset
  owner,      \* where the owner is in start() or stop()
  loop,       \* where the platform thread is, "none" without one
  batch,      \* the tasks popped and not yet run
  ran,        \* history: the tasks that were run
  settling,   \* history: the tasks posted, not dropped, when stop() was last called
  delayed,    \* history: the tasks that were posted with a delay
  precedes    \* history: <<t, u>> if t was posted before u was built

queueVars == <<clock, status, when>>
historyVars == <<ran, settling, delayed, precedes>>
vars == <<queueVars, active, joinable, signaled, owner, loop, batch, historyVars>>

\* stop() posts without a delay, whatever others do.
DQ == INSTANCE DelayQueue WITH Tasks <- AllTasks, Delays <- Delays \cup {0}

TypeOK ==
  /\ clock \in 0..MaxTime
  /\ status \in [AllTasks -> {"new", "stamped", "pending", "taken", "dropped"}]
  /\ when \in [AllTasks -> 0..MaxTime]
  /\ active \in BOOLEAN /\ joinable \in BOOLEAN /\ signaled \in BOOLEAN
  /\ owner \in {"idle", "starting", "stopping", "stamped", "joining"}
  /\ loop \in {"none", "spawned", "signaled", "testing", "popping", "running",
               "cleared", "exited"}
  /\ joinable <=> loop # "none"
  /\ batch \subseteq AllTasks
  /\ ran \subseteq AllTasks /\ settling \subseteq Tasks /\ delayed \subseteq Tasks
  /\ precedes \subseteq Tasks \X Tasks

Init ==
  /\ DQ!Init
  /\ active = FALSE /\ joinable = FALSE /\ signaled = FALSE
  /\ owner = "idle" /\ loop = "none" /\ batch = {}
  /\ ran = {} /\ settling = {} /\ delayed = {} /\ precedes = {}

Posted == {t \in Tasks : status[t] \in {"pending", "taken", "dropped"}}

(***************************************************************************)
(* post_task(): the assertion that the thread is joinable and the          *)
(* construction of the timed_task, then the push, which may come late.     *)
(***************************************************************************)
post_task(t, d) ==
  /\ joinable /\ DQ!Stamp(t, d)
  /\ precedes' = precedes \cup (Posted \X {t})
  /\ delayed' = IF d > 0 THEN delayed \cup {t} ELSE delayed
  /\ UNCHANGED <<active, joinable, signaled, owner, loop, batch, ran, settling>>

\* Mutant of push: the line post_timed_task() has commented out, which discards a
\* task while the loop is not active.
push_IfActive(t) ==
  /\ status[t] = "stamped"
  /\ DQ!Mark({t}, IF active THEN "pending" ELSE "dropped") /\ UNCHANGED <<clock, when>>
  /\ UNCHANGED <<active, joinable, signaled, owner, loop, batch, historyVars>>

push(t) ==
  /\ DQ!Push(t)
  /\ UNCHANGED <<active, joinable, signaled, owner, loop, batch, historyVars>>

(***************************************************************************)
(* The owner.                                                              *)
(***************************************************************************)
start ==
  /\ owner = "idle" /\ ~joinable
  /\ joinable' = TRUE /\ owner' = "starting" /\ loop' = "spawned"
  /\ UNCHANGED <<queueVars, active, signaled, batch, historyVars>>

\* Mutant of Started: start() does not wait for the event.
Started_NoWait ==
  /\ owner = "starting" /\ owner' = "idle"
  /\ UNCHANGED <<queueVars, active, joinable, signaled, loop, batch, historyVars>>

\* waiter_.wait() does not reset the event: a later start() does not block.
Started ==
  /\ owner = "starting" /\ signaled /\ owner' = "idle"
  /\ UNCHANGED <<queueVars, active, joinable, signaled, loop, batch, historyVars>>

stop ==
  /\ owner = "idle" /\ joinable /\ \E s \in StopTasks : status[s] = "new"
  /\ owner' = "stopping" /\ settling' = {t \in Posted : status[t] # "dropped"}
  /\ UNCHANGED <<queueVars, active, joinable, signaled, loop, batch, ran, delayed,
                 precedes>>

\* message_loop::stop() posts a task: stamped, then pushed.
StampStop ==
  /\ owner = "stopping" /\ owner' = "stamped"
  /\ \E s \in StopTasks : DQ!Stamp(s, 0)
  /\ UNCHANGED <<active, joinable, signaled, loop, batch, historyVars>>

\* Mutant of PushStop: the line message_loop::stop() has commented out, instead of
\* the task.
PushStop_Directly ==
  /\ owner = "stamped" /\ owner' = "joining" /\ active' = FALSE
  /\ UNCHANGED <<queueVars, joinable, signaled, loop, batch, historyVars>>

PushStop ==
  /\ owner = "stamped" /\ owner' = "joining"
  /\ \E s \in StopTasks : DQ!Push(s)
  /\ UNCHANGED <<active, joinable, signaled, loop, batch, historyVars>>

\* Mutant of Joined: the platform thread is detached instead of joined.
Joined_Detach ==
  /\ owner = "joining"
  /\ owner' = "idle" /\ joinable' = FALSE
  /\ UNCHANGED <<queueVars, active, signaled, loop, batch, historyVars>>

Joined ==
  /\ owner = "joining" /\ loop = "exited"
  /\ owner' = "idle" /\ joinable' = FALSE /\ loop' = "none"
  /\ UNCHANGED <<queueVars, active, signaled, batch, historyVars>>

(***************************************************************************)
(* The platform thread: thread::exec(), message_loop::start() and exec().  *)
(***************************************************************************)
Signal ==
  /\ loop = "spawned" /\ loop' = "signaled" /\ signaled' = TRUE
  /\ UNCHANGED <<queueVars, active, joinable, owner, batch, historyVars>>

EnterLoop ==
  /\ loop = "signaled"
  /\ \/ active /\ loop' = "exited" /\ UNCHANGED active
     \/ ~active /\ loop' = "testing" /\ active' = TRUE
  /\ UNCHANGED <<queueVars, joinable, signaled, owner, batch, historyVars>>

\* while (active_)
TestActive ==
  /\ loop = "testing" /\ loop' = (IF active THEN "popping" ELSE "exited")
  /\ UNCHANGED <<queueVars, active, joinable, signaled, owner, batch, historyVars>>

wait_and_pop ==
  /\ loop = "popping" /\ loop' = "running" /\ batch' = DQ!Due /\ DQ!Take
  /\ UNCHANGED <<active, joinable, signaled, owner, historyVars>>

\* Mutant of IsNext: a batch in no order.
IsNext_Any(t) == t \in batch

\* The batch is in the order the heap gave it: by due time, ties in any order.
IsNext(t) == t \in batch /\ \A u \in batch : when[t] <= when[u]

\* Mutant of RunTask: only the first task of a batch is run.
RunTask_FirstOnly(t) ==
  /\ loop = "running" /\ IsNext(t) /\ t \in Tasks
  /\ batch' = {} /\ ran' = ran \cup {t}
  /\ UNCHANGED <<queueVars, active, joinable, signaled, owner, loop, settling,
                 delayed, precedes>>

RunTask(t) ==
  /\ loop = "running" /\ IsNext(t) /\ t \in Tasks
  /\ batch' = batch \ {t} /\ ran' = ran \cup {t}
  /\ UNCHANGED <<queueVars, active, joinable, signaled, owner, loop, settling,
                 delayed, precedes>>

\* The task of stop() clears the queue, then ends the loop; the rest of the batch
\* is run all the same.
RunStop(s) ==
  /\ loop = "running" /\ IsNext(s) /\ s \in StopTasks
  /\ batch' = batch \ {s} /\ ran' = ran \cup {s}
  /\ DQ!Clear /\ loop' = "cleared"
  /\ UNCHANGED <<active, joinable, signaled, owner, settling, delayed, precedes>>

\* Mutant of Deactivate: the loop is left without resetting active_.
Deactivate_Leaves ==
  /\ loop = "cleared" /\ loop' = "exited"
  /\ UNCHANGED <<queueVars, active, joinable, signaled, owner, batch, historyVars>>

Deactivate ==
  /\ loop = "cleared" /\ loop' = "running" /\ active' = FALSE
  /\ UNCHANGED <<queueVars, joinable, signaled, owner, batch, historyVars>>

\* Mutant of EndOfBatch: active_ is tested after each task.
EndOfBatch_Early ==
  /\ loop = "running" /\ (batch = {} \/ ~active) /\ loop' = "testing"
  /\ UNCHANGED <<queueVars, active, joinable, signaled, owner, batch, historyVars>>

EndOfBatch ==
  /\ loop = "running" /\ batch = {} /\ loop' = "testing"
  /\ UNCHANGED <<queueVars, active, joinable, signaled, owner, batch, historyVars>>

Tick ==
  /\ DQ!Tick
  /\ UNCHANGED <<active, joinable, signaled, owner, loop, batch, historyVars>>

Owner == Started \/ StampStop \/ PushStop \/ Joined
Platform ==
  \/ Signal \/ EnterLoop \/ TestActive \/ wait_and_pop \/ Deactivate \/ EndOfBatch
  \/ \E t \in AllTasks : RunTask(t) \/ RunStop(t)

Next ==
  \/ \E t \in Tasks : push(t) \/ \E d \in Delays : post_task(t, d)
  \/ start \/ stop \/ Owner \/ Platform \/ Tick

Spec == Init /\ [][Next]_vars

\* Time passes, a call that was begun goes on when it can, and the platform
\* thread runs; a task returns.  Nobody has to call start(), stop() or post_task().
\* That the platform thread takes what is due is what DelayQueue promises, and TaskQueue
\* keeps only while a dangling deadline shows no time that is far off (Garbage there;
\* EveryTaskTaken fails without).  What is live here, and in the modules that rest on
\* Worker, rests on that.
FairSpec == Spec /\ WF_vars(Tick) /\ WF_vars(Owner) /\ WF_vars(Platform)
-----------------------------------------------------------------------------
(***************************************************************************)
(* Properties.                                                             *)
(***************************************************************************)

\* stop() settles what was posted before it was called: when it has returned,
\* each of those tasks was run, or it was delayed beyond the stop and dropped
\* (tests/base/thread.cc, TCBaseThread).  Only a post that overlaps stop() leaves
\* its task in the queue.
StopSettles ==
  ~joinable =>
    /\ batch = {}
    /\ \A t \in settling :
         \/ t \in ran
         \/ status[t] = "dropped" /\ \E s \in StopTasks \cap ran : when[s] < when[t]

\* A new platform thread finds active_ false, however start() and stop() follow
\* each other; otherwise message_loop::start() would return at once.
FreshLoop == loop \in {"spawned", "signaled"} => ~active

\* Of two tasks posted one after the other, the one due earlier is run first, or is
\* dropped by a stop() (the heap of task_queue, the batches of message_loop::exec).
RunInOrder ==
  \A p \in precedes :
    when[p[1]] < when[p[2]] /\ p[2] \in ran => p[1] \in ran \/ status[p[1]] = "dropped"

\* The start event: the first start() returns only when the new platform thread
\* is running (thread::start, thread::exec).
StartSynchronised ==
  joinable /\ owner # "starting" /\ (\A s \in StopTasks : s \notin ran) => loop # "spawned"

\* stop() returns, even if it is called before the loop has begun.
StopReturns == (owner = "stopping") ~> (owner = "idle")

\* A task posted to a running thread is run or dropped unless the thread stops.
TaskSettles ==
  \A t \in Tasks : (status[t] = "pending" /\ joinable)
                      ~> (t \in ran \/ status[t] = "dropped" \/ ~joinable)
-----------------------------------------------------------------------------
(***************************************************************************)
(* The thread as its users see it: a Worker.                               *)
(***************************************************************************)
WorkerPhase ==
  CASE ~joinable -> "off"
    [] joinable /\ owner = "starting" -> "starting"
    [] joinable /\ owner = "idle" -> "on"
    [] OTHER -> "stopping"

Waiting(t) == status[t] \in {"pending", "taken"} /\ t \notin ran

WorkerStatus ==
  [t \in Tasks |->
     CASE status[t] \in {"new", "stamped"} -> "new"
       [] status[t] = "dropped" -> "dropped"
       [] status[t] = "taken" /\ t \in ran -> "ran"
       [] Waiting(t) /\ t \in delayed -> "delayed"
       [] Waiting(t) /\ t \in settling \ delayed -> "owed"
       [] OTHER -> "prompt"]

WorkerAhead ==
  {p \in precedes : Waiting(p[1]) /\ Waiting(p[2]) /\ when[p[1]] < when[p[2]]}

W == INSTANCE Worker WITH
  phase <- WorkerPhase, status <- WorkerStatus, ahead <- WorkerAhead

\* The loop, the queue, the stop task and the event implement the promise that the
\* engine relies on, liveness included (thread.cc, message_loop.cc) as far as the
\* queue's goes (FairSpec).
IsWorker == W!Spec
=============================================================================
