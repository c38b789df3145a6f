-------------------------- MODULE BaseThreadProofs ---------------------------
(***************************************************************************)
(* Proofs about BaseThread, for any tasks, any number of stops, any delays *)
(* and any bound on the clock: the types, the safety invariants of the run *)
(* base_thread, and that every step of the thread is a step of Worker or   *)
(* a stutter.                                                              *)
(*                                                                         *)
(* The invariant is built in layers: how the loop, active_ and the batch   *)
(* go together (LoopInv), what a stop() has done by when (StartInv,        *)
(* StopInv, SettleInv), and the order tasks are taken and run in           *)
(* (OrderInv).                                                             *)
(***************************************************************************)
EXTENDS BaseThread, WellFoundedInduction, TLAPS

\* The platform thread exists while thread_ is joinable, and a batch exists only
\* while its tasks are run, each once.
LoopInv ==
  /\ joinable <=> loop # "none"
  /\ ~joinable => owner = "idle"
  /\ loop \in {"none", "spawned", "signaled", "exited"} => ~active
  /\ loop = "popping" => active
  /\ loop \notin {"running", "cleared"} => batch = {}
  /\ \A t \in AllTasks : status[t] = "taken" <=> t \in ran \cup batch
  /\ ran \cap batch = {}

\* The task of a stop() was run, and the thread has not ended yet.
Over == loop \in {"cleared", "exited"} \/ (~active /\ loop \in {"running", "testing"})
Stopped == \E s \in StopTasks : s \in ran

\* Only a stop() ends a loop, and only a thread that was started before finds the
\* event signaled.
StartInv ==
  /\ Over => Stopped
  /\ signaled /\ loop \in {"none", "spawned"} => Stopped
  /\ loop = "spawned" /\ ~signaled => owner = "starting"

\* There is one task of a stop() on its way at a time, while its caller waits.
StopInv ==
  /\ \A r, s \in StopTasks : status[r] = "stamped" /\ status[s] = "stamped" => r = s
  /\ \A s \in StopTasks :
       /\ status[s] = "stamped" => owner = "stamped"
       /\ status[s] = "pending" \/ s \in batch => owner = "joining"
  /\ Over => owner = "joining" /\ \A s \in StopTasks : status[s] # "pending"

\* What is posted when stop() is called is taken with its task or before, unless
\* it is due later; and what is due later is dropped.
SettleInv ==
  \A t \in settling :
    /\ status[t] \in {"pending", "taken", "dropped"}
    /\ Over \/ loop = "none" => status[t] # "pending"
    /\ status[t] = "dropped" => \E s \in StopTasks \cap ran : when[s] < when[t]
    /\ status[t] = "pending" => \A s \in StopTasks \cap batch : when[s] < when[t]

\* Of two tasks posted one after the other, the earlier due is not left behind.
OrderInv ==
  \A p \in precedes :
    /\ status[p[1]] \in {"pending", "taken", "dropped"} /\ status[p[2]] # "new"
    /\ when[p[1]] < when[p[2]] =>
         /\ status[p[2]] = "taken" => status[p[1]] # "pending"
         /\ p[2] \in ran => p[1] \notin batch

IInv == TypeOK /\ LoopInv /\ StartInv /\ StopInv /\ SettleInv /\ OrderInv

\* An undelayed task that was posted before a stop() is not due after its task.
StampInv ==
  /\ \A t \in Tasks \ delayed : when[t] <= clock
  /\ \A t \in settling \ delayed, s \in StopTasks :
       status[s] \in {"stamped", "pending"} \/ s \in batch => when[t] <= when[s]
-----------------------------------------------------------------------------
\* The start: no thread, no task.
LEMMA InitialState == Init => IInv
<1> SUFFICES ASSUME Init PROVE IInv OBVIOUS
<1> USE BaseThreadAssumption DEF Init, DQ!Init, AllTasks
<1>1. TypeOK
  <2>1. 0 \in 0..MaxTime OBVIOUS
  <2>2. precedes \subseteq Tasks \X Tasks /\ settling \subseteq Tasks OBVIOUS
  <2>3. /\ when \in [AllTasks -> 0..MaxTime]
        /\ status \in [AllTasks -> {"new", "stamped", "pending", "taken", "dropped"}]
    BY <2>1
  <2> QED BY <2>1, <2>2, <2>3 DEF TypeOK
<1>2. LoopInv BY DEF LoopInv
<1>3. StartInv BY DEF StartInv, Over
<1>4. StopInv BY DEF StopInv, Over
<1>5. SettleInv BY DEF SettleInv
<1>6. OrderInv BY DEF OrderInv
<1> QED BY <1>1, <1>2, <1>3, <1>4, <1>5, <1>6 DEF IInv

\* Every step keeps the types.
LEMMA TypeStep ==
  ASSUME TypeOK, [Next]_vars
  PROVE  TypeOK'
<1> USE BaseThreadAssumption DEF AllTasks, queueVars, historyVars, DQ!Mark, TypeOK
<1>1. ASSUME NEW t \in Tasks, push(t) PROVE TypeOK'
  BY <1>1 DEF push, DQ!Push
<1>2. ASSUME NEW t \in Tasks, NEW d \in Delays, post_task(t, d) PROVE TypeOK'
  BY <1>2 DEF post_task, DQ!Stamp, Posted
<1>3. CASE start
  BY <1>3 DEF start
<1>4. CASE stop
  BY <1>4 DEF stop, Posted
<1>5. CASE Started
  BY <1>5 DEF Started
<1>6. ASSUME NEW s \in StopTasks, StampStop, DQ!Stamp(s, 0) PROVE TypeOK'
  BY <1>6 DEF StampStop, DQ!Stamp
<1>7. ASSUME NEW s \in StopTasks, PushStop, DQ!Push(s) PROVE TypeOK'
  BY <1>7 DEF PushStop, DQ!Push
<1>8. CASE Joined
  BY <1>8 DEF Joined
<1>9. CASE Signal
  BY <1>9 DEF Signal
<1>10. CASE EnterLoop
  BY <1>10 DEF EnterLoop
<1>11. CASE TestActive
  BY <1>11 DEF TestActive
<1>12. CASE wait_and_pop
  BY <1>12 DEF wait_and_pop, DQ!Take, DQ!Due, DQ!Pending
<1>13. CASE Deactivate
  BY <1>13 DEF Deactivate
<1>14. CASE EndOfBatch
  BY <1>14 DEF EndOfBatch
<1>15. ASSUME NEW t \in AllTasks, RunTask(t) PROVE TypeOK'
  BY <1>15 DEF RunTask, IsNext
<1>16. ASSUME NEW t \in AllTasks, RunStop(t) PROVE TypeOK'
  BY <1>16 DEF RunStop, IsNext, DQ!Clear, DQ!Pending
<1>17. CASE Tick
  BY <1>17 DEF Tick, DQ!Tick
<1>18. CASE UNCHANGED vars
  BY <1>18 DEF vars
<1> QED
  BY <1>1, <1>2, <1>3, <1>4, <1>5, <1>6, <1>7, <1>8, <1>9, <1>10, <1>11, <1>12,
     <1>13, <1>14, <1>15, <1>16, <1>17, <1>18
  DEF Next, Owner, Platform, StampStop, PushStop

\* Every step keeps the loop, active_ and the batch together.
LEMMA LoopStep ==
  ASSUME TypeOK, LoopInv, [Next]_vars
  PROVE  LoopInv'
<1> USE BaseThreadAssumption
    DEF AllTasks, queueVars, historyVars, DQ!Mark, TypeOK, LoopInv
<1>1. ASSUME NEW t \in Tasks, push(t) PROVE LoopInv'
  BY <1>1 DEF push, DQ!Push
<1>2. ASSUME NEW t \in Tasks, NEW d \in Delays, post_task(t, d) PROVE LoopInv'
  BY <1>2 DEF post_task, DQ!Stamp, Posted
<1>3. CASE start
  BY <1>3 DEF start
<1>4. CASE stop
  BY <1>4 DEF stop, Posted
<1>5. CASE Started
  BY <1>5 DEF Started
<1>6. ASSUME NEW s \in StopTasks, StampStop, DQ!Stamp(s, 0) PROVE LoopInv'
  BY <1>6 DEF StampStop, DQ!Stamp
<1>7. ASSUME NEW s \in StopTasks, PushStop, DQ!Push(s) PROVE LoopInv'
  BY <1>7 DEF PushStop, DQ!Push
<1>8. CASE Joined
  BY <1>8 DEF Joined
<1>9. CASE Signal
  BY <1>9 DEF Signal
<1>10. CASE EnterLoop
  BY <1>10 DEF EnterLoop
<1>11. CASE TestActive
  BY <1>11 DEF TestActive
<1>12. CASE wait_and_pop
  BY <1>12 DEF wait_and_pop, DQ!Take, DQ!Due, DQ!Pending
<1>13. CASE Deactivate
  BY <1>13 DEF Deactivate
<1>14. CASE EndOfBatch
  BY <1>14 DEF EndOfBatch
<1>15. ASSUME NEW t \in AllTasks, RunTask(t) PROVE LoopInv'
  BY <1>15 DEF RunTask, IsNext
<1>16. ASSUME NEW t \in AllTasks, RunStop(t) PROVE LoopInv'
  BY <1>16 DEF RunStop, IsNext, DQ!Clear, DQ!Pending
<1>17. CASE Tick
  BY <1>17 DEF Tick, DQ!Tick
<1>18. CASE UNCHANGED vars
  BY <1>18 DEF vars
<1> QED
  BY <1>1, <1>2, <1>3, <1>4, <1>5, <1>6, <1>7, <1>8, <1>9, <1>10, <1>11, <1>12,
     <1>13, <1>14, <1>15, <1>16, <1>17, <1>18
  DEF Next, Owner, Platform, StampStop, PushStop

\* Every step keeps what is known of earlier starts and stops.
LEMMA StartStep ==
  ASSUME TypeOK, LoopInv, StartInv, [Next]_vars
  PROVE  StartInv'
<1> USE BaseThreadAssumption
    DEF AllTasks, queueVars, historyVars, DQ!Mark, TypeOK, LoopInv, StartInv, Over, Stopped
<1>1. ASSUME NEW t \in Tasks, push(t) PROVE StartInv'
  BY <1>1 DEF push, DQ!Push
<1>2. ASSUME NEW t \in Tasks, NEW d \in Delays, post_task(t, d) PROVE StartInv'
  BY <1>2 DEF post_task, DQ!Stamp, Posted
<1>3. CASE start
  BY <1>3 DEF start
<1>4. CASE stop
  BY <1>4 DEF stop, Posted
<1>5. CASE Started
  BY <1>5 DEF Started
<1>6. ASSUME NEW s \in StopTasks, StampStop, DQ!Stamp(s, 0) PROVE StartInv'
  BY <1>6 DEF StampStop, DQ!Stamp
<1>7. ASSUME NEW s \in StopTasks, PushStop, DQ!Push(s) PROVE StartInv'
  BY <1>7 DEF PushStop, DQ!Push
<1>8. CASE Joined
  BY <1>8 DEF Joined
<1>9. CASE Signal
  BY <1>9 DEF Signal
<1>10. CASE EnterLoop
  BY <1>10 DEF EnterLoop
<1>11. CASE TestActive
  BY <1>11 DEF TestActive
<1>12. CASE wait_and_pop
  BY <1>12 DEF wait_and_pop, DQ!Take, DQ!Due, DQ!Pending
<1>13. CASE Deactivate
  BY <1>13 DEF Deactivate
<1>14. CASE EndOfBatch
  BY <1>14 DEF EndOfBatch
<1>15. ASSUME NEW t \in AllTasks, RunTask(t) PROVE StartInv'
  BY <1>15 DEF RunTask, IsNext
<1>16. ASSUME NEW t \in AllTasks, RunStop(t) PROVE StartInv'
  BY <1>16 DEF RunStop, IsNext, DQ!Clear, DQ!Pending
<1>17. CASE Tick
  BY <1>17 DEF Tick, DQ!Tick
<1>18. CASE UNCHANGED vars
  BY <1>18 DEF vars
<1> QED
  BY <1>1, <1>2, <1>3, <1>4, <1>5, <1>6, <1>7, <1>8, <1>9, <1>10, <1>11, <1>12,
     <1>13, <1>14, <1>15, <1>16, <1>17, <1>18
  DEF Next, Owner, Platform, StampStop, PushStop

\* Every step keeps the single stop() and its task.
LEMMA StopStep ==
  ASSUME TypeOK, LoopInv, StopInv, [Next]_vars
  PROVE  StopInv'
<1> USE BaseThreadAssumption
    DEF AllTasks, queueVars, historyVars, DQ!Mark, TypeOK, LoopInv, StopInv, Over
<1>1. ASSUME NEW t \in Tasks, push(t) PROVE StopInv'
  BY <1>1 DEF push, DQ!Push
<1>2. ASSUME NEW t \in Tasks, NEW d \in Delays, post_task(t, d) PROVE StopInv'
  BY <1>2 DEF post_task, DQ!Stamp, Posted
<1>3. CASE start
  BY <1>3 DEF start
<1>4. CASE stop
  BY <1>4 DEF stop, Posted
<1>5. CASE Started
  BY <1>5 DEF Started
<1>6. ASSUME NEW s \in StopTasks, StampStop, DQ!Stamp(s, 0) PROVE StopInv'
  BY <1>6 DEF StampStop, DQ!Stamp
<1>7. ASSUME NEW s \in StopTasks, PushStop, DQ!Push(s) PROVE StopInv'
  BY <1>7 DEF PushStop, DQ!Push
<1>8. CASE Joined
  BY <1>8 DEF Joined
<1>9. CASE Signal
  BY <1>9 DEF Signal
<1>10. CASE EnterLoop
  BY <1>10 DEF EnterLoop
<1>11. CASE TestActive
  BY <1>11 DEF TestActive
<1>12. CASE wait_and_pop
  BY <1>12 DEF wait_and_pop, DQ!Take, DQ!Due, DQ!Pending
<1>13. CASE Deactivate
  BY <1>13 DEF Deactivate
<1>14. CASE EndOfBatch
  BY <1>14 DEF EndOfBatch
<1>15. ASSUME NEW t \in AllTasks, RunTask(t) PROVE StopInv'
  BY <1>15 DEF RunTask, IsNext
<1>16. ASSUME NEW t \in AllTasks, RunStop(t) PROVE StopInv'
  BY <1>16 DEF RunStop, IsNext, DQ!Clear, DQ!Pending
<1>17. CASE Tick
  BY <1>17 DEF Tick, DQ!Tick
<1>18. CASE UNCHANGED vars
  BY <1>18 DEF vars
<1> QED
  BY <1>1, <1>2, <1>3, <1>4, <1>5, <1>6, <1>7, <1>8, <1>9, <1>10, <1>11, <1>12,
     <1>13, <1>14, <1>15, <1>16, <1>17, <1>18
  DEF Next, Owner, Platform, StampStop, PushStop

\* Every step keeps the promise of stop().
LEMMA SettleStep ==
  ASSUME TypeOK, LoopInv, StopInv, SettleInv, [Next]_vars
  PROVE  SettleInv'
<1> USE BaseThreadAssumption
    DEF AllTasks, queueVars, historyVars, DQ!Mark, TypeOK, LoopInv, StopInv, SettleInv, Over
<1>1. ASSUME NEW t \in Tasks, push(t) PROVE SettleInv'
  BY <1>1 DEF push, DQ!Push
<1>2. ASSUME NEW t \in Tasks, NEW d \in Delays, post_task(t, d) PROVE SettleInv'
  BY <1>2 DEF post_task, DQ!Stamp, Posted
<1>3. CASE start
  BY <1>3 DEF start
<1>4. CASE stop
  BY <1>4 DEF stop, Posted
<1>5. CASE Started
  BY <1>5 DEF Started
<1>6. ASSUME NEW s \in StopTasks, StampStop, DQ!Stamp(s, 0) PROVE SettleInv'
  BY <1>6 DEF StampStop, DQ!Stamp
<1>7. ASSUME NEW s \in StopTasks, PushStop, DQ!Push(s) PROVE SettleInv'
  BY <1>7 DEF PushStop, DQ!Push
<1>8. CASE Joined
  BY <1>8 DEF Joined
<1>9. CASE Signal
  BY <1>9 DEF Signal
<1>10. CASE EnterLoop
  BY <1>10 DEF EnterLoop
<1>11. CASE TestActive
  BY <1>11 DEF TestActive
<1>12. CASE wait_and_pop
  BY <1>12 DEF wait_and_pop, DQ!Take, DQ!Due, DQ!Pending
<1>13. CASE Deactivate
  BY <1>13 DEF Deactivate
<1>14. CASE EndOfBatch
  BY <1>14 DEF EndOfBatch
<1>15. ASSUME NEW t \in AllTasks, RunTask(t) PROVE SettleInv'
  BY <1>15 DEF RunTask, IsNext
<1>16. ASSUME NEW t \in AllTasks, RunStop(t) PROVE SettleInv'
  BY <1>16 DEF RunStop, IsNext, DQ!Clear, DQ!Pending
<1>17. CASE Tick
  BY <1>17 DEF Tick, DQ!Tick
<1>18. CASE UNCHANGED vars
  BY <1>18 DEF vars
<1> QED
  BY <1>1, <1>2, <1>3, <1>4, <1>5, <1>6, <1>7, <1>8, <1>9, <1>10, <1>11, <1>12,
     <1>13, <1>14, <1>15, <1>16, <1>17, <1>18
  DEF Next, Owner, Platform, StampStop, PushStop

\* Every step keeps the order.
LEMMA OrderStep ==
  ASSUME TypeOK, LoopInv, OrderInv, [Next]_vars
  PROVE  OrderInv'
<1> USE BaseThreadAssumption
    DEF AllTasks, queueVars, historyVars, DQ!Mark, TypeOK, LoopInv, OrderInv
<1>1. ASSUME NEW t \in Tasks, push(t) PROVE OrderInv'
  BY <1>1 DEF push, DQ!Push
<1>2. ASSUME NEW t \in Tasks, NEW d \in Delays, post_task(t, d) PROVE OrderInv'
  BY <1>2 DEF post_task, DQ!Stamp, Posted
<1>3. CASE start
  BY <1>3 DEF start
<1>4. CASE stop
  BY <1>4 DEF stop, Posted
<1>5. CASE Started
  BY <1>5 DEF Started
<1>6. ASSUME NEW s \in StopTasks, StampStop, DQ!Stamp(s, 0) PROVE OrderInv'
  BY <1>6 DEF StampStop, DQ!Stamp
<1>7. ASSUME NEW s \in StopTasks, PushStop, DQ!Push(s) PROVE OrderInv'
  BY <1>7 DEF PushStop, DQ!Push
<1>8. CASE Joined
  BY <1>8 DEF Joined
<1>9. CASE Signal
  BY <1>9 DEF Signal
<1>10. CASE EnterLoop
  BY <1>10 DEF EnterLoop
<1>11. CASE TestActive
  BY <1>11 DEF TestActive
<1>12. CASE wait_and_pop
  BY <1>12 DEF wait_and_pop, DQ!Take, DQ!Due, DQ!Pending
<1>13. CASE Deactivate
  BY <1>13 DEF Deactivate
<1>14. CASE EndOfBatch
  BY <1>14 DEF EndOfBatch
<1>15. ASSUME NEW t \in AllTasks, RunTask(t) PROVE OrderInv'
  BY <1>15 DEF RunTask, IsNext
<1>16. ASSUME NEW t \in AllTasks, RunStop(t) PROVE OrderInv'
  BY <1>16 DEF RunStop, IsNext, DQ!Clear, DQ!Pending
<1>17. CASE Tick
  BY <1>17 DEF Tick, DQ!Tick
<1>18. CASE UNCHANGED vars
  BY <1>18 DEF vars
<1> QED
  BY <1>1, <1>2, <1>3, <1>4, <1>5, <1>6, <1>7, <1>8, <1>9, <1>10, <1>11, <1>12,
     <1>13, <1>14, <1>15, <1>16, <1>17, <1>18
  DEF Next, Owner, Platform, StampStop, PushStop

\* IInv is inductive, and so it always holds.
LEMMA Inductive == IInv /\ [Next]_vars => IInv'
BY TypeStep, LoopStep, StartStep, StopStep, SettleStep, OrderStep DEF IInv

LEMMA Invariance == Spec => []IInv
<1>1. Init => IInv BY InitialState
<1>2. IInv /\ [Next]_vars => IInv' BY Inductive
<1> QED BY <1>1, <1>2, PTL DEF Spec

\* Every variable keeps its type.
THEOREM TypeCorrect == Spec => []TypeOK
<1>1. IInv => TypeOK BY DEF IInv
<1> QED BY <1>1, Invariance, PTL

\* A new platform thread finds active_ false (message_loop::start).
THEOREM LoopIsFresh == Spec => []FreshLoop
<1>1. IInv => FreshLoop BY DEF IInv, LoopInv, FreshLoop
<1> QED BY <1>1, Invariance, PTL

\* The first start() returns only when the platform thread runs (thread::start).
THEOREM StartWaits == Spec => []StartSynchronised
<1>1. IInv => StartSynchronised
  BY DEF IInv, LoopInv, StartInv, Stopped, StartSynchronised
<1> QED BY <1>1, Invariance, PTL

\* A stop() that has returned has settled all that was posted before it
\* (thread::stop, message_loop::stop).
THEOREM StopHasSettled == Spec => []StopSettles
<1>1. IInv => StopSettles
  <2> SUFFICES ASSUME IInv, ~joinable PROVE
        /\ batch = {}
        /\ \A t \in settling :
             \/ t \in ran
             \/ status[t] = "dropped" /\ \E s \in StopTasks \cap ran : when[s] < when[t]
    BY DEF StopSettles
  <2>1. loop = "none" /\ batch = {} BY DEF IInv, LoopInv
  <2>2. settling \subseteq AllTasks BY DEF IInv, TypeOK, AllTasks
  <2> QED BY <2>1, <2>2 DEF IInv, LoopInv, SettleInv
<1> QED BY <1>1, Invariance, PTL

\* Of two tasks posted one after the other, the earlier due is run first or is
\* dropped (task_queue::wait_and_pop, message_loop::exec).
THEOREM OrderKept == Spec => []RunInOrder
<1>1. IInv => RunInOrder
  <2> SUFFICES ASSUME IInv, NEW p \in precedes, when[p[1]] < when[p[2]], p[2] \in ran
               PROVE  p[1] \in ran \/ status[p[1]] = "dropped"
    BY DEF RunInOrder
  <2>1. p[1] \in AllTasks /\ p[2] \in AllTasks BY DEF IInv, TypeOK, AllTasks
  <2>2. status[p[2]] = "taken" BY <2>1 DEF IInv, LoopInv
  <2>3. p[1] \notin batch /\ status[p[1]] \in {"taken", "dropped"}
    BY <2>2 DEF IInv, OrderInv
  <2> QED BY <2>1, <2>3 DEF IInv, LoopInv
<1> QED BY <1>1, Invariance, PTL
-----------------------------------------------------------------------------
\* The stop task is stamped when the tasks it is to settle have been.
LEMMA StampStep ==
  ASSUME IInv, StampInv, [Next]_vars
  PROVE  StampInv'
<1> USE BaseThreadAssumption
    DEF AllTasks, queueVars, historyVars, DQ!Mark, IInv, TypeOK, LoopInv, StopInv, SettleInv,
        StampInv
<1>1. ASSUME NEW t \in Tasks, push(t) PROVE StampInv'
  BY <1>1 DEF push, DQ!Push
<1>2. ASSUME NEW t \in Tasks, NEW d \in Delays, post_task(t, d) PROVE StampInv'
  BY <1>2 DEF post_task, DQ!Stamp, Posted
<1>3. CASE stop
  BY <1>3 DEF stop, Posted
<1>4. ASSUME NEW s \in StopTasks, StampStop, DQ!Stamp(s, 0) PROVE StampInv'
  BY <1>4 DEF StampStop, DQ!Stamp
<1>5. ASSUME NEW s \in StopTasks, PushStop, DQ!Push(s) PROVE StampInv'
  BY <1>5 DEF PushStop, DQ!Push
<1>6. CASE wait_and_pop
  BY <1>6 DEF wait_and_pop, DQ!Take, DQ!Due, DQ!Pending
<1>7. ASSUME NEW t \in AllTasks, RunTask(t) PROVE StampInv'
  BY <1>7 DEF RunTask, IsNext
<1>8. ASSUME NEW t \in AllTasks, RunStop(t) PROVE StampInv'
  BY <1>8 DEF RunStop, IsNext, DQ!Clear, DQ!Pending
<1>9. CASE Tick
  BY <1>9 DEF Tick, DQ!Tick
<1>10. CASE UNCHANGED <<queueVars, batch, settling, delayed>>
  BY <1>10
<1> QED
  BY <1>1, <1>2, <1>3, <1>4, <1>5, <1>6, <1>7, <1>8, <1>9, <1>10
  DEF Next, vars, Owner, Platform, StampStop, PushStop, start, Started, Joined, Signal,
      EnterLoop, TestActive, Deactivate, EndOfBatch

\* A step that changes nothing of the tasks but their way through the queue is
\* hidden from the users of the thread.
LEMMA TasksHidden ==
  ASSUME UNCHANGED <<ran, settling, delayed, precedes>>,
         \A t \in AllTasks : when'[t] = when[t] \/ (~Waiting(t) /\ ~Waiting(t)'),
         \A t \in Tasks :
           \/ status'[t] = status[t]
           \/ status[t] = "pending" /\ status'[t] = "taken" /\ t \notin ran
           \/ status[t] = "new" /\ status'[t] = "stamped",
         precedes \subseteq Tasks \X Tasks
  PROVE  UNCHANGED <<WorkerStatus, WorkerAhead>>
<1>1. \A t \in Tasks : Waiting(t)' = Waiting(t) BY DEF Waiting
<1>2. WorkerStatus' = WorkerStatus BY <1>1 DEF WorkerStatus, Waiting
<1>3. WorkerAhead' = WorkerAhead BY <1>1 DEF WorkerAhead, AllTasks
<1> QED BY <1>2, <1>3

\* push() is the step at which a task is posted.
LEMMA PushIsPost ==
  ASSUME IInv, NEW t \in Tasks, push(t)
  PROVE  W!Next
<1> USE DEF IInv, TypeOK, AllTasks, historyVars
<1> DEFINE S == {u \in Tasks : <<u, t>> \in precedes /\ Waiting(u) /\ when[u] < when[t]}
           kind == IF t \in delayed THEN "delayed" ELSE "prompt"
<1>1. /\ status[t] = "stamped" /\ t \notin settling /\ t \notin ran
      /\ status' = [u \in AllTasks |-> IF u = t THEN "pending" ELSE status[u]]
      /\ UNCHANGED <<clock, when, active, joinable, signaled, owner, loop, batch, ran,
                     settling, delayed, precedes>>
  BY DEF push, DQ!Push, DQ!Mark, SettleInv, LoopInv
<1>2. WorkerStatus[t] = "new" /\ S \subseteq W!Waiting
  BY <1>1 DEF WorkerStatus, W!Waiting, W!Kinds, Waiting
<1>3. WorkerStatus' = [WorkerStatus EXCEPT ![t] = kind]
  BY <1>1 DEF WorkerStatus, Waiting
<1>4. WorkerAhead' = WorkerAhead \cup (S \X {t})
  <2>1. ~Waiting(t) /\ Waiting(t)' BY <1>1 DEF Waiting
  <2>2. \A u \in Tasks : u # t => Waiting(u)' = Waiting(u) BY <1>1 DEF Waiting
  <2>3. \A u \in Tasks : <<t, u>> \notin precedes BY <1>1 DEF OrderInv
  <2>4. \A p \in precedes : p = <<p[1], p[2]>> /\ p[1] \in Tasks /\ p[2] \in Tasks
    OBVIOUS
  <2> QED BY <1>1, <2>1, <2>2, <2>3, <2>4 DEF WorkerAhead
<1>5. WorkerPhase' = WorkerPhase BY <1>1 DEF WorkerPhase
<1>6. S \in SUBSET Tasks /\ kind \in W!Kinds BY DEF W!Kinds
<1> HIDE DEF S, kind
<1>7. W!Post(t, S, kind) BY <1>2, <1>3, <1>4, <1>5 DEF W!Post
<1> QED BY <1>6, <1>7 DEF W!Next

\* A task is run when nothing it was posted behind waits.
LEMMA RunIsRun ==
  ASSUME IInv, NEW t \in AllTasks, RunTask(t)
  PROVE  W!Next
<1> USE DEF IInv, TypeOK, AllTasks
<1>1. /\ t \in Tasks /\ t \in batch /\ (\A u \in batch : when[t] <= when[u])
      /\ loop = "running" /\ ran' = ran \cup {t}
      /\ UNCHANGED <<clock, status, when, active, joinable, signaled, owner, loop,
                     settling, delayed, precedes>>
  BY DEF RunTask, IsNext, queueVars
<1>2. status[t] = "taken" BY <1>1 DEF LoopInv
<1>3. WorkerStatus[t] # "new" /\ t \in W!Waiting
  BY <1>1, <1>2 DEF LoopInv, WorkerStatus, W!Waiting, W!Kinds, Waiting
<1>4. \A u \in Tasks : <<u, t>> \notin WorkerAhead
  <2> SUFFICES ASSUME NEW u \in Tasks, <<u, t>> \in precedes, Waiting(u), when[u] < when[t]
               PROVE  FALSE
    BY DEF WorkerAhead
  <2>1. status[u] # "pending" BY <1>2 DEF OrderInv
  <2>2. u \in batch BY <2>1 DEF LoopInv, Waiting
  <2>3. when[t] \in Nat /\ when[u] \in Nat BY BaseThreadAssumption
  <2> QED BY <1>1, <2>2, <2>3
<1>5. /\ Waiting(t) /\ ~Waiting(t)'
      /\ \A u \in Tasks : u # t => Waiting(u)' = Waiting(u)
  BY <1>1, <1>2 DEF LoopInv, Waiting
<1>6. WorkerStatus' = [u \in Tasks |-> IF u \in {t} THEN "ran" ELSE WorkerStatus[u]]
  BY <1>1, <1>2, <1>5 DEF WorkerStatus
<1>7. WorkerAhead' = {p \in WorkerAhead : p[1] \notin {t} /\ p[2] \notin {t}}
  BY <1>1, <1>5 DEF WorkerAhead
<1>8. WorkerPhase # "off" /\ WorkerPhase' = WorkerPhase
  BY <1>1 DEF LoopInv, WorkerPhase
<1>9. W!Run(t) BY <1>3, <1>4, <1>6, <1>7, <1>8 DEF W!Run, W!IsNext, W!Leave
<1> QED BY <1>1, <1>9 DEF W!Next, W!Work

\* The stop task drops what is not owed.
LEMMA StopIsDrop ==
  ASSUME IInv, StampInv, NEW s \in AllTasks, RunStop(s)
  PROVE  W!Next
<1> USE DEF IInv, TypeOK, AllTasks
<1> DEFINE T == {t \in Tasks : status[t] = "pending"}
<1>1. /\ s \in StopTasks /\ s \in batch /\ s \notin Tasks /\ loop = "running"
      /\ ran' = ran \cup {s}
      /\ status' = [t \in AllTasks |-> IF status[t] = "pending" THEN "dropped" ELSE status[t]]
      /\ UNCHANGED <<clock, when, active, joinable, owner, settling, delayed, precedes>>
  BY BaseThreadAssumption DEF RunStop, IsNext, DQ!Clear, DQ!Mark, DQ!Pending
<1>2. \A t \in T : t \notin settling \ delayed
  <2> SUFFICES ASSUME NEW t \in T, t \in settling \ delayed PROVE FALSE OBVIOUS
  <2>1. when[s] < when[t] BY <1>1 DEF SettleInv
  <2>2. when[t] <= when[s] BY <1>1 DEF StampInv
  <2>3. when[t] \in Nat /\ when[s] \in Nat BY BaseThreadAssumption
  <2> QED BY <2>1, <2>2, <2>3
<1>3. \A t \in T : t \notin ran BY DEF LoopInv
<1>4. T \subseteq {t \in W!Waiting : WorkerStatus[t] # "owed"}
  BY <1>2, <1>3 DEF WorkerStatus, W!Waiting, W!Kinds, Waiting
<1>5. \A t \in Tasks : Waiting(t)' <=> Waiting(t) /\ t \notin T
  BY <1>1, <1>3 DEF Waiting
<1>6. WorkerStatus' = [t \in Tasks |-> IF t \in T THEN "dropped" ELSE WorkerStatus[t]]
  BY <1>1, <1>3, <1>5 DEF WorkerStatus, Waiting
<1>7. WorkerAhead' = {p \in WorkerAhead : p[1] \notin T /\ p[2] \notin T}
  BY <1>1, <1>5 DEF WorkerAhead
<1>8. WorkerPhase = "stopping" /\ WorkerPhase' = WorkerPhase
  BY <1>1 DEF LoopInv, StopInv, WorkerPhase
<1>9. T \in SUBSET Tasks OBVIOUS
<1> HIDE DEF T
<1>10. W!Drop(T) BY <1>4, <1>6, <1>7, <1>8 DEF W!Drop, W!Leave
<1> QED BY <1>9, <1>10 DEF W!Next

\* A step of the owner is a step of the worker's life, or hidden.
LEMMA OwnerIsLife ==
  ASSUME IInv, start \/ stop \/ Started \/ Joined
  PROVE  W!Next
<1> USE DEF IInv, TypeOK, AllTasks, queueVars, historyVars
<1>1. ASSUME UNCHANGED <<status, when, ran, settling, delayed, precedes>>
      PROVE  UNCHANGED <<WorkerStatus, WorkerAhead>>
  BY <1>1, TasksHidden
<1>2. CASE start
  <2>1. WorkerPhase = "off" /\ WorkerPhase' = "starting" BY <1>2 DEF start, WorkerPhase
  <2>2. UNCHANGED <<WorkerStatus, WorkerAhead>> BY <1>1, <1>2 DEF start
  <2> QED BY <2>1, <2>2 DEF W!Start, W!Next
<1>3. CASE Started
  <2>1. joinable BY <1>3 DEF Started, LoopInv
  <2>2. WorkerPhase = "starting" /\ WorkerPhase' = "on"
    BY <1>3, <2>1 DEF Started, WorkerPhase
  <2>3. UNCHANGED <<WorkerStatus, WorkerAhead>> BY <1>1, <1>3 DEF Started
  <2> QED BY <2>2, <2>3 DEF W!Up, W!Next
<1>4. CASE stop
  <2>1. WorkerPhase = "on" /\ WorkerPhase' = "stopping" BY <1>4 DEF stop, WorkerPhase
  <2>2. /\ UNCHANGED <<status, when, ran, delayed, precedes>>
        /\ settling' = {t \in Posted : status[t] # "dropped"}
    BY <1>4 DEF stop
  <2>3. \A t \in Tasks : Waiting(t) => t \in settling' BY <2>2 DEF Posted, Waiting
  <2>4. WorkerStatus' =
          [t \in Tasks |-> IF WorkerStatus[t] = "prompt" THEN "owed" ELSE WorkerStatus[t]]
    BY <2>2, <2>3 DEF WorkerStatus, Waiting, LoopInv
  <2>5. WorkerAhead' = WorkerAhead BY <2>2 DEF WorkerAhead, Waiting
  <2> QED BY <2>1, <2>4, <2>5 DEF W!Stop, W!Next
<1>5. CASE Joined
  <2>1. WorkerPhase = "stopping" /\ WorkerPhase' = "off"
    BY <1>5 DEF Joined, LoopInv, WorkerPhase
  <2>2. UNCHANGED <<WorkerStatus, WorkerAhead>> BY <1>1, <1>5 DEF Joined
  <2>3. \A t \in settling : status[t] # "pending" BY <1>5 DEF Joined, SettleInv, Over
  <2>4. \A t \in Tasks : WorkerStatus[t] # "owed"
    BY <1>5, <2>3 DEF Joined, LoopInv, WorkerStatus, Waiting
  <2> QED BY <2>1, <2>2, <2>4 DEF W!Down, W!Next
<1> QED BY <1>2, <1>3, <1>4, <1>5

\* Every step of the thread is a step of Worker or changes nothing its users see.
LEMMA StepRefines == IInv /\ StampInv /\ [Next]_vars => [W!Next]_(W!workerVars)
<1> SUFFICES ASSUME IInv, StampInv, [Next]_vars PROVE [W!Next]_(W!workerVars) OBVIOUS
<1> USE DEF W!workerVars
<1>1. ASSUME UNCHANGED <<joinable, owner>> \/ (joinable /\ UNCHANGED joinable
               /\ owner \in {"stopping", "stamped"} /\ owner' \in {"stamped", "joining"})
      PROVE  UNCHANGED WorkerPhase
  BY <1>1 DEF WorkerPhase
<1>2. precedes \subseteq Tasks \X Tasks BY DEF IInv, TypeOK
<1>3. ASSUME NEW t \in Tasks, push(t) PROVE W!Next
  BY <1>3, PushIsPost
<1>4. ASSUME NEW t \in Tasks, NEW d \in Delays, post_task(t, d) PROVE UNCHANGED W!workerVars
  <2> USE DEF IInv, TypeOK, AllTasks
  <2>1. /\ status[t] = "new"
        /\ status' = [u \in AllTasks |-> IF u = t THEN "stamped" ELSE status[u]]
        /\ \A u \in AllTasks : u # t => when'[u] = when[u]
        /\ precedes \subseteq precedes'
        /\ \A p \in precedes' \ precedes : p[2] = t
        /\ \A u \in Tasks : u # t => (u \in delayed' <=> u \in delayed)
        /\ UNCHANGED <<joinable, owner, ran, settling>>
    BY <1>4 DEF post_task, DQ!Stamp, DQ!Mark
  <2>2. \A u \in Tasks : Waiting(u)' = Waiting(u) BY <2>1 DEF Waiting
  <2>3. ~Waiting(t) BY <2>1 DEF Waiting
  <2>4. WorkerStatus' = WorkerStatus BY <2>1, <2>2 DEF WorkerStatus, Waiting
  <2>5. WorkerAhead' = WorkerAhead
    <3>1. precedes' \subseteq Tasks \X Tasks BY TypeStep
    <3>2. \A p \in Tasks \X Tasks : Waiting(p[1]) /\ Waiting(p[2]) =>
            /\ p \in precedes' <=> p \in precedes
            /\ when'[p[1]] = when[p[1]] /\ when'[p[2]] = when[p[2]]
      BY <2>1, <2>3
    <3> QED BY <1>2, <2>2, <3>1, <3>2 DEF WorkerAhead
  <2> QED BY <1>1, <2>1, <2>4, <2>5
<1>5. CASE start \/ stop \/ Started \/ Joined
  BY <1>5, OwnerIsLife
<1>6. ASSUME NEW s \in StopTasks, StampStop, DQ!Stamp(s, 0) PROVE UNCHANGED W!workerVars
  <2>1. joinable BY <1>6 DEF IInv, LoopInv, StampStop
  <2>2. UNCHANGED WorkerPhase BY <1>1, <1>6, <2>1 DEF StampStop
  <2>3. UNCHANGED <<WorkerStatus, WorkerAhead>>
    BY <1>2, <1>6, TasksHidden, BaseThreadAssumption
       DEF StampStop, historyVars, DQ!Stamp, DQ!Mark, Waiting, IInv, TypeOK, AllTasks
  <2> QED BY <2>2, <2>3
<1>7. ASSUME NEW s \in StopTasks, PushStop, DQ!Push(s) PROVE UNCHANGED W!workerVars
  <2>1. joinable BY <1>7 DEF IInv, LoopInv, PushStop
  <2>2. UNCHANGED WorkerPhase BY <1>1, <1>7, <2>1 DEF PushStop
  <2>3. UNCHANGED <<WorkerStatus, WorkerAhead>>
    BY <1>2, <1>7, TasksHidden, BaseThreadAssumption
       DEF PushStop, historyVars, DQ!Push, DQ!Mark, IInv, TypeOK, AllTasks
  <2> QED BY <2>2, <2>3
<1>8. CASE wait_and_pop
  <2>1. UNCHANGED WorkerPhase BY <1>1, <1>8 DEF wait_and_pop
  <2>2. \A t \in Tasks :
          \/ status'[t] = status[t]
          \/ status[t] = "pending" /\ status'[t] = "taken" /\ t \notin ran
    BY <1>8 DEF wait_and_pop, DQ!Take, DQ!Due, DQ!Pending, DQ!Mark, IInv, LoopInv, AllTasks
  <2>3. UNCHANGED <<WorkerStatus, WorkerAhead>>
    BY <1>2, <1>8, <2>2, TasksHidden DEF wait_and_pop, historyVars, DQ!Take
  <2> QED BY <2>1, <2>3
<1>9. ASSUME NEW t \in AllTasks, RunTask(t) \/ RunStop(t) PROVE W!Next
  BY <1>9, RunIsRun, StopIsDrop
<1>10. CASE UNCHANGED <<status, when, joinable, owner, historyVars>>
  <2>1. UNCHANGED <<WorkerStatus, WorkerAhead>> BY <1>2, <1>10, TasksHidden DEF historyVars
  <2> QED BY <1>1, <1>10, <2>1
<1> QED
  BY <1>3, <1>4, <1>5, <1>6, <1>7, <1>8, <1>9, <1>10
  DEF Next, vars, queueVars, historyVars, Owner, Platform, StampStop, PushStop, Signal,
      EnterLoop, TestActive, Deactivate, EndOfBatch, Tick, DQ!Tick

\* The loop, its queue, the stop task and the start event implement a Worker, as far
\* as safety goes (thread.cc, message_loop.cc).
THEOREM Refinement == Spec => W!SafeSpec
<1>1. Init => W!Init
  BY BaseThreadAssumption
  DEF Init, DQ!Init, W!Init, AllTasks, WorkerPhase, WorkerStatus, WorkerAhead, Waiting
<1>2. Init => StampInv
  BY BaseThreadAssumption DEF Init, DQ!Init, AllTasks, StampInv
<1>3. IInv /\ StampInv /\ [Next]_vars => StampInv' BY StampStep
<1> QED BY <1>1, <1>2, <1>3, Invariance, StepRefines, PTL DEF Spec, W!SafeSpec
-----------------------------------------------------------------------------
\* The loop and those who post use the queue as DelayQueue says it may be used, so
\* that TaskQueue, which implements it, may take its place (message_loop.cc).
THEOREM QueueIsUsed == Spec => DQ!SafeSpec
<1>1. Init => DQ!Init
  BY DEF Init
<1>2. [Next]_vars => [DQ!Next]_(DQ!dqVars)
  <2> SUFFICES ASSUME [Next]_vars PROVE [DQ!Next]_(DQ!dqVars)
    OBVIOUS
  <2> USE DEF DQ!dqVars, queueVars, AllTasks
  <2>1. ASSUME NEW t \in Tasks, push(t) PROVE DQ!Next
    BY <2>1 DEF push, DQ!Next
  <2>2. ASSUME NEW t \in Tasks, NEW d \in Delays, post_task(t, d) PROVE DQ!Next
    BY <2>2 DEF post_task, DQ!Next
  <2>3. ASSUME NEW t \in AllTasks, RunStop(t) PROVE DQ!Next
    BY <2>3 DEF RunStop, DQ!Next
  <2>4. CASE wait_and_pop \/ Tick
    BY <2>4 DEF wait_and_pop, Tick, DQ!Next
  <2>5. CASE StampStop \/ PushStop
    BY <2>5 DEF StampStop, PushStop, DQ!Next
  <2> QED
    BY <2>1, <2>2, <2>3, <2>4, <2>5
    DEF Next, vars, Owner, Platform, start, stop, Started, Joined, Signal, EnterLoop,
        TestActive, Deactivate, EndOfBatch, RunTask
<1> QED BY <1>1, <1>2, PTL DEF Spec, DQ!SafeSpec
-----------------------------------------------------------------------------
\* A start() on its way has its signal, or a thread that is to give it; a stop() has
\* its task where it needs it, and the task is due at once.
WayInv ==
  /\ owner = "starting" => signaled \/ loop = "spawned"
  /\ owner = "stopping" => \E s \in StopTasks : status[s] = "new"
  /\ owner = "stamped" => \E s \in StopTasks : status[s] = "stamped"
  /\ owner = "joining" => Over \/ \E s \in StopTasks : status[s] = "pending" \/ s \in batch
  /\ \A s \in StopTasks : status[s] \in {"stamped", "pending"} => when[s] <= clock

\* The task of a stop() is in the batch, or was run from it.
Ending == owner = "joining" /\ (Over \/ \E s \in StopTasks : s \in batch)

LEMMA WayStep == IInv /\ WayInv /\ [Next]_vars => WayInv'
<1> SUFFICES ASSUME IInv, WayInv, [Next]_vars PROVE WayInv'
  OBVIOUS
<1> USE BaseThreadAssumption
    DEF AllTasks, queueVars, historyVars, DQ!Mark, IInv, TypeOK, WayInv, Over
<1>1. ASSUME NEW t \in Tasks, push(t) PROVE WayInv'
  BY <1>1 DEF push, DQ!Push
<1>2. ASSUME NEW t \in Tasks, NEW d \in Delays, post_task(t, d) PROVE WayInv'
  BY <1>2 DEF post_task, DQ!Stamp
<1>3. CASE stop
  BY <1>3 DEF stop
<1>4. ASSUME NEW s \in StopTasks, StampStop, DQ!Stamp(s, 0) PROVE WayInv'
  BY <1>4 DEF StampStop, DQ!Stamp
<1>5. ASSUME NEW s \in StopTasks, PushStop, DQ!Push(s) PROVE WayInv'
  BY <1>5 DEF PushStop, DQ!Push
<1>6. CASE wait_and_pop
  BY <1>6 DEF wait_and_pop, DQ!Take, DQ!Due, DQ!Pending, LoopInv
<1>7. ASSUME NEW t \in AllTasks, RunTask(t) PROVE WayInv'
  BY <1>7 DEF RunTask
<1>8. ASSUME NEW t \in AllTasks, RunStop(t) PROVE WayInv'
  <2>1. owner = "joining"
    BY <1>8 DEF RunStop, IsNext, StopInv
  <2> QED BY <1>8, <2>1 DEF RunStop, DQ!Clear, DQ!Pending
<1>9. CASE Tick
  BY <1>9 DEF Tick, DQ!Tick
<1>10. CASE start \/ Started \/ Joined
  BY <1>10 DEF start, Started, Joined, LoopInv
<1>11. CASE Signal \/ EnterLoop \/ TestActive \/ Deactivate \/ EndOfBatch
  BY <1>11 DEF Signal, EnterLoop, TestActive, Deactivate, EndOfBatch, LoopInv
<1>12. CASE UNCHANGED vars
  BY <1>12 DEF vars
<1> QED
  BY <1>1, <1>2, <1>3, <1>4, <1>5, <1>6, <1>7, <1>8, <1>9, <1>10, <1>11, <1>12
  DEF Next, Owner, Platform, StampStop, PushStop

LEMMA WayInvariance == Spec => []WayInv
<1>1. Init => WayInv
  BY BaseThreadAssumption DEF Init, DQ!Init, AllTasks, WayInv
<1> QED BY <1>1, WayStep, Invariance, PTL DEF Spec

\* A set of due times has an earliest.
LEMMA Smallest ==
  ASSUME NEW S, S \subseteq Nat, S # {}
  PROVE  \E n \in S : \A m \in S : n <= m
<1>1. PICK Less : IsWellFoundedOn(Less, Nat) /\ \A m, n \in Nat : m < n => <<m, n>> \in Less
  <2>1. \A m, n \in Nat : m < n => <<m, n>> \in OpToRel(<, Nat)
    BY Zenon DEF OpToRel
  <2> QED BY <2>1, NatLessThanWellFounded, Zenon
<1>2. IsWellFoundedOn(Less, Nat)
  BY <1>1
<1>3. PICK n \in S : \A m \in S : <<m, n>> \notin Less
  BY <1>2, WFMin
<1>4. ASSUME NEW m \in S PROVE n <= m
  <2>1. m \in Nat /\ n \in Nat /\ ~(m < n)
    BY <1>1, <1>3
  <2> QED BY <2>1
<1> QED BY <1>4

\* The owner is never stuck in start() or stop(): it can go on itself, or the platform
\* thread can, which has a task that is due when it waits for one, and a next task
\* to run while its batch is not empty (base/thread.cc, message_loop::exec).
THEOREM OwnerNotStuck ==
  Spec => [](/\ owner = "starting" => signaled \/ loop = "spawned"
             /\ owner = "stopping" => \E s \in StopTasks : status[s] = "new"
             /\ owner = "stamped" => \E s \in StopTasks : status[s] = "stamped"
             /\ owner = "joining" =>
                  \/ loop \in {"exited", "spawned", "signaled", "testing", "cleared"}
                  \/ loop = "popping" /\ DQ!Due # {}
                  \/ loop = "running" /\ (batch = {} \/ \E t \in AllTasks : IsNext(t)))
<1>1. batch # {} /\ TypeOK => \E t \in AllTasks : IsNext(t)
  <2> SUFFICES ASSUME batch # {}, TypeOK PROVE \E t \in AllTasks : IsNext(t)
    OBVIOUS
  <2> DEFINE R == {when[t] : t \in batch}
  <2>1. R \subseteq Nat /\ R # {}
    BY BaseThreadAssumption DEF TypeOK
  <2> HIDE DEF R
  <2>2. PICK n \in R : \A m \in R : n <= m
    BY <2>1, Smallest
  <2> QED BY <2>2 DEF R, IsNext, TypeOK
<1>2. IInv /\ WayInv =>
        /\ owner = "starting" => signaled \/ loop = "spawned"
        /\ owner = "stopping" => \E s \in StopTasks : status[s] = "new"
        /\ owner = "stamped" => \E s \in StopTasks : status[s] = "stamped"
        /\ owner = "joining" =>
             \/ loop \in {"exited", "spawned", "signaled", "testing", "cleared"}
             \/ loop = "popping" /\ DQ!Due # {}
             \/ loop = "running" /\ (batch = {} \/ \E t \in AllTasks : IsNext(t))
  BY <1>1 DEF IInv, TypeOK, LoopInv, StartInv, WayInv, Over, AllTasks, DQ!Due, DQ!Pending
<1> QED BY <1>2, Invariance, WayInvariance, PTL

\* A stop() needs no more than one more batch of the loop: the first one taken after its
\* task was pushed has the task in it, and once that is so the loop takes no other
\* before stop() returns (message_loop::stop, message_loop::exec).
THEOREM StopEndsWithBatch ==
  Spec => /\ [][owner = "joining" /\ wait_and_pop => Ending']_vars
          /\ [](Ending => loop # "popping")
          /\ [][Ending => Ending' \/ Joined]_vars
<1>1. IInv /\ WayInv /\ owner = "joining" /\ wait_and_pop => Ending'
  BY BaseThreadAssumption
  DEF WayInv, Ending, Over, wait_and_pop, DQ!Take, DQ!Due, DQ!Pending, AllTasks, IInv, LoopInv
<1>2. IInv /\ Ending => loop # "popping"
  BY DEF IInv, LoopInv, Ending, Over
<1>3. IInv /\ Ending /\ [Next]_vars => Ending' \/ Joined
  <2> SUFFICES ASSUME IInv, Ending, [Next]_vars, ~Joined PROVE Ending'
    OBVIOUS
  <2> USE DEF IInv, TypeOK, AllTasks, Ending, Over
  <2>1. loop # "popping" /\ owner = "joining"
    BY <1>2
  <2>2. ASSUME NEW t \in AllTasks, RunTask(t) PROVE Ending'
    BY <2>2, BaseThreadAssumption DEF RunTask
  <2>3. ASSUME NEW t \in AllTasks, RunStop(t) PROVE Ending'
    BY <2>3 DEF RunStop
  <2>4. CASE Signal \/ EnterLoop \/ TestActive \/ Deactivate \/ EndOfBatch
    BY <2>4 DEF Signal, EnterLoop, TestActive, Deactivate, EndOfBatch, LoopInv
  <2>5. CASE UNCHANGED <<owner, loop, active, batch>>
    BY <2>5
  <2> QED
    BY <2>1, <2>2, <2>3, <2>4, <2>5
    DEF Next, vars, historyVars, Owner, Platform, push, post_task, start, stop, Started,
        StampStop, PushStop, wait_and_pop, Tick
<1> QED BY <1>1, <1>2, <1>3, Invariance, WayInvariance, PTL DEF Spec
=============================================================================
