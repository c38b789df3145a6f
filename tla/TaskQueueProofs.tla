-------------------------- MODULE TaskQueueProofs ---------------------------
(***************************************************************************)
(* Proofs about TaskQueue, for any sets of tasks and consumers, any        *)
(* capacity, and whatever a dangling reference shows: the types, and that  *)
(* every step of the queue is a step of DelayQueue or a stutter.           *)
(***************************************************************************)
EXTENDS TaskQueue, FiniteSetTheorems, TLAPS

\* A task is in the queue or has been in it only if its push got that far, and it
\* leaves the queue when it is taken.
PushInv ==
  /\ \A t \in queue \cup taken : pc[t] \in {"notifying", "pushed"}
  /\ queue \cap taken = {}
  /\ IsFiniteSet(queue)

IInv == TypeOK /\ PushInv

\* What NothingOverlooked rests on: a task that was due when it was pushed is due
\* as long as it stays.
WakeInv ==
  /\ \A t \in queue \ early : when[t] <= clock
  /\ NothingOverlooked
-----------------------------------------------------------------------------
\* The queue starts empty.
LEMMA InitialState == Init => IInv
<1> SUFFICES ASSUME Init PROVE IInv OBVIOUS
<1>1. IsFiniteSet({}) /\ Cardinality({}) = 0 BY FS_EmptySet
<1> QED BY <1>1, TaskQueueAssumption DEF Init, IInv, TypeOK, PushInv

\* Taking tasks out leaves a finite queue that still fits its buffer.
LEMMA Smaller ==
  ASSUME IInv, NEW q, q \subseteq queue
  PROVE  IsFiniteSet(q) /\ Cardinality(q) <= capacity
<1>1. IsFiniteSet(queue) /\ Cardinality(queue) <= capacity /\ capacity \in Nat
  BY DEF IInv, TypeOK, PushInv
<1>2. IsFiniteSet(q) /\ Cardinality(q) <= Cardinality(queue) BY <1>1, FS_Subset
<1>3. Cardinality(q) \in Nat /\ Cardinality(queue) \in Nat
  BY <1>1, <1>2, FS_CardinalityType
<1> QED BY <1>1, <1>2, <1>3

\* push_back() has room for the task: the buffer was doubled if it was full.
LEMMA InsertStep ==
  ASSUME IInv, NEW t \in Tasks, Insert(t)
  PROVE  IInv'
<1> USE DEF IInv, TypeOK, PushInv
<1>1. IsFiniteSet(queue') /\ Cardinality(queue') <= Cardinality(queue) + 1
  <2>1. queue' = queue \cup {t} BY DEF Insert
  <2>2. IsFiniteSet(queue) OBVIOUS
  <2>3. Cardinality(queue) \in Nat BY <2>2, FS_CardinalityType
  <2>4. /\ IsFiniteSet(queue \cup {t})
        /\ Cardinality(queue \cup {t}) =
             IF t \in queue THEN Cardinality(queue) ELSE Cardinality(queue) + 1
    BY <2>2, FS_AddElement
  <2> HIDE DEF IInv, TypeOK, PushInv
  <2> QED BY <2>1, <2>3, <2>4
<1>2. Cardinality(queue) \in Nat BY FS_CardinalityType
<1>3. Cardinality(queue') \in Nat BY <1>1, FS_CardinalityType
<1>4. capacity' \in Nat /\ Cardinality(queue') <= capacity'
  BY <1>1, <1>2, <1>3 DEF Insert, Grow
<1>5. dangling' \subseteq asleep' BY DEF Insert, Grow
<1>6. t \notin queue /\ t \notin taken BY DEF Insert
<1>7. pc' \in [Tasks -> {"idle", "stamped", "notifying", "pushed"}]
  BY DEF Insert
<1>8. PushInv' BY <1>1, <1>6 DEF Insert
<1> QED BY <1>4, <1>5, <1>7, <1>8 DEF Insert

\* Every step keeps the types and the bookkeeping.
LEMMA Inductive == IInv /\ [Next]_vars => IInv'
<1> SUFFICES ASSUME IInv, [Next]_vars PROVE IInv' OBVIOUS
<1> USE TaskQueueAssumption DEF IInv, TypeOK, PushInv, producerVars, waitVars
<1>1. ASSUME NEW t \in Tasks, Insert(t) PROVE IInv'
  BY <1>1, InsertStep
<1>2. ASSUME NEW t \in Tasks, Notify(t) PROVE IInv'
  BY <1>2 DEF Notify
<1>3. ASSUME NEW t \in Tasks, NEW d \in Delays, Stamp(t, d) PROVE IInv'
  BY <1>3 DEF Stamp
<1>4. ASSUME NEW c \in Consumers, EnterEmpty(c) PROVE IInv'
  <2>1. IsFiniteSet(queue') /\ Cardinality(queue') <= capacity
    BY <1>4, Smaller DEF EnterEmpty, PopDue
  <2> QED BY <1>4, <2>1 DEF EnterEmpty, PopDue, Due
<1>5. ASSUME NEW c \in Consumers, EnterWait(c) PROVE IInv'
  BY <1>5 DEF EnterWait, IsFront
<1>6. ASSUME NEW c \in Consumers, c \in asleep, Wakeup(c),
             UNCHANGED <<clock, producerVars, capacity, early>>
      PROVE  IInv'
  <2>1. CASE PopDue(c) /\ LeaveSleep(c)
    <3>1. IsFiniteSet(queue') /\ Cardinality(queue') <= capacity
      BY <2>1, Smaller DEF PopDue
    <3> QED BY <1>6, <2>1, <3>1 DEF PopDue, LeaveSleep, Due
  <2>2. ASSUME NEW a \in Atime(c), deadline' = [deadline EXCEPT ![c] = a],
               notified' = notified \ {c},
               UNCHANGED <<queue, asleep, dangling, result, taken>>
        PROVE  IInv'
    <3>1. a \in 0..MaxTime \cup Garbage BY DEF Atime, IsFront
    <3> QED BY <1>6, <2>2, <3>1
  <2> QED BY <1>6, <2>1, <2>2 DEF Wakeup
<1>7. CASE Clear
  <2>1. IsFiniteSet(queue') /\ Cardinality(queue') <= capacity
    BY <1>7, Smaller DEF Clear
  <2> QED BY <1>7, <2>1 DEF Clear
<1>8. CASE Tick
  BY <1>8 DEF Tick
<1>9. CASE UNCHANGED vars
  BY <1>9 DEF vars
<1> QED BY <1>1, <1>2, <1>3, <1>4, <1>5, <1>6, <1>7, <1>8, <1>9
   DEF Next, WaitAndPop, Resume, SpuriousWakeup

\* IInv holds in every reachable state.
LEMMA Invariance == Spec => []IInv
BY InitialState, Inductive, PTL DEF Spec

\* Whatever threads do with the queue, its variables keep their types, and the
\* heap never outgrows its buffer (task_queue::push).
THEOREM TypeCorrect == Spec => []TypeOK
<1>1. IInv => TypeOK BY DEF IInv
<1> QED BY Invariance, <1>1, PTL
-----------------------------------------------------------------------------
\* A wait_and_pop() that returns takes exactly the tasks that are due.
LEMMA PopIsTake ==
  ASSUME IInv, NEW c \in Consumers, PopDue(c), UNCHANGED <<clock, producerVars>>
  PROVE  DQ!Take
<1> USE DEF IInv, TypeOK, PushInv, producerVars
<1>1. DQ!Due = Due BY DEF DQ!Due, DQ!Pending, Due, AbstractStatus
<1>2. AbstractStatus' = [t \in Tasks |-> IF t \in Due THEN "taken" ELSE AbstractStatus[t]]
  BY DEF PopDue, AbstractStatus, Due
<1> QED BY <1>1, <1>2 DEF DQ!Take, DQ!Mark

\* Every step of the queue is a step of DelayQueue or changes nothing it sees.
LEMMA StepRefines == IInv /\ [Next]_vars => [DQ!Next]_(DQ!dqVars)
<1> SUFFICES ASSUME IInv, [Next]_vars PROVE [DQ!Next]_(DQ!dqVars) OBVIOUS
<1> USE DEF IInv, TypeOK, PushInv, producerVars, waitVars, DQ!dqVars, DQ!Mark
<1>1. ASSUME NEW t \in Tasks, Insert(t) PROVE DQ!Push(t)
  BY <1>1 DEF Insert, DQ!Push, AbstractStatus
<1>2. ASSUME NEW t \in Tasks, Notify(t) PROVE UNCHANGED DQ!dqVars
  BY <1>2 DEF Notify, AbstractStatus
<1>3. ASSUME NEW t \in Tasks, NEW d \in Delays, Stamp(t, d) PROVE DQ!Stamp(t, d)
  BY <1>3 DEF Stamp, DQ!Stamp, AbstractStatus
<1>4. ASSUME NEW c \in Consumers, EnterEmpty(c) PROVE DQ!Take
  BY <1>4, PopIsTake DEF EnterEmpty
<1>5. ASSUME NEW c \in Consumers, EnterWait(c) PROVE UNCHANGED DQ!dqVars
  BY <1>5 DEF EnterWait, AbstractStatus
<1>6. ASSUME NEW c \in Consumers, Wakeup(c), UNCHANGED <<clock, producerVars>>
      PROVE  DQ!Take \/ UNCHANGED DQ!dqVars
  <2>1. CASE PopDue(c) BY <1>6, <2>1, PopIsTake
  <2>2. CASE UNCHANGED <<queue, taken>> BY <1>6, <2>2 DEF AbstractStatus
  <2> QED BY <1>6, <2>1, <2>2 DEF Wakeup
<1>7. CASE Clear
  <2>1. DQ!Pending = queue BY DEF DQ!Pending, AbstractStatus
  <2>2. AbstractStatus' = [t \in Tasks |-> IF t \in queue THEN "dropped" ELSE AbstractStatus[t]]
    BY <1>7 DEF Clear, AbstractStatus
  <2> QED BY <1>7, <2>1, <2>2 DEF Clear, DQ!Clear, DQ!Next
<1>8. CASE Tick
  BY <1>8 DEF Tick, DQ!Tick, DQ!Next, AbstractStatus
<1>9. CASE UNCHANGED vars
  BY <1>9 DEF vars, AbstractStatus
<1> QED BY <1>1, <1>2, <1>3, <1>4, <1>5, <1>6, <1>7, <1>8, <1>9
   DEF Next, WaitAndPop, Resume, SpuriousWakeup, DQ!Next

\* The heap, the condition variable and the reference it waits on implement the
\* queue of due tasks, as far as safety goes: no task is taken before its time,
\* twice or after a clear(), and none that is due is left behind by a taker.
THEOREM Refinement == Spec => DQ!SafeSpec
<1>1. Init => DQ!Init BY DEF Init, DQ!Init, AbstractStatus
<1> QED BY <1>1, Invariance, StepRefines, PTL DEF Spec, DQ!SafeSpec
-----------------------------------------------------------------------------
\* The returned tasks of different consumers were popped from the one queue.
LEMMA TakenStep ==
  ASSUME IInv, \A c \in Consumers : result[c] \subseteq taken, TakenOnce, [Next]_vars
  PROVE  (\A c \in Consumers : result'[c] \subseteq taken') /\ TakenOnce'
<1> USE DEF IInv, TypeOK, PushInv, TakenOnce
<1>1. ASSUME NEW c \in Consumers, PopDue(c)
      PROVE  (\A e \in Consumers : result'[e] \subseteq taken') /\ TakenOnce'
  BY <1>1 DEF PopDue, Due
<1>2. ASSUME NEW t \in Tasks, Insert(t)
      PROVE  (\A e \in Consumers : result'[e] \subseteq taken') /\ TakenOnce'
  BY <1>2 DEF Insert
<1>3. CASE queue' \subseteq queue /\ UNCHANGED <<result, taken>>
  BY <1>3
<1> QED BY <1>1, <1>2, <1>3
   DEF Next, vars, Notify, Stamp, WaitAndPop, EnterEmpty, EnterWait, Resume,
       SpuriousWakeup, Wakeup, Clear, Tick

\* No task is returned twice, by one consumer or by two (task_queue::wait_and_pop).
THEOREM TakenAtMostOnce == Spec => []TakenOnce
<1> DEFINE Kept == (\A c \in Consumers : result[c] \subseteq taken) /\ TakenOnce
<1>1. Init => Kept BY DEF Init, TakenOnce
<1>2. IInv /\ Kept /\ [Next]_vars => Kept' BY TakenStep
<1>3. Kept => TakenOnce OBVIOUS
<1> QED BY <1>1, <1>2, <1>3, Invariance, PTL DEF Spec

\* No step hides a due task from the consumers: it makes one attentive, or leaves
\* a notification under way.
LEMMA WakeStep ==
  ASSUME IInv, WakeInv, [Next]_vars
  PROVE  WakeInv'
<1> USE TaskQueueAssumption
    DEF IInv, TypeOK, PushInv, WakeInv, NothingOverlooked, Attentive, Due, producerVars,
        waitVars
<1>1. ASSUME NEW t \in Tasks, Insert(t) PROVE WakeInv'
  BY <1>1 DEF Insert, Grow
<1>2. ASSUME NEW t \in Tasks, Notify(t) PROVE WakeInv'
  <2>1. CASE asleep = notified
    <3>1. Attentive' = Consumers BY <1>2, <2>1 DEF Notify
    <3> QED BY <1>2, <3>1 DEF Notify
  <2>2. ASSUME NEW c \in asleep \ notified, notified' = notified \cup {c} PROVE WakeInv'
    <3>1. c \in Attentive' BY <2>2
    <3> QED BY <1>2, <3>1 DEF Notify
  <2> QED BY <1>2, <2>1, <2>2 DEF Notify
<1>3. ASSUME NEW t \in Tasks, NEW d \in Delays, Stamp(t, d) PROVE WakeInv'
  BY <1>3 DEF Stamp
<1>4. ASSUME NEW c \in Consumers, c \notin asleep', PopDue(c), UNCHANGED <<clock, when, early>>
      PROVE  WakeInv'
  BY <1>4 DEF PopDue
<1>5. ASSUME NEW c \in Consumers, EnterWait(c) PROVE WakeInv'
  BY <1>5 DEF EnterWait, IsFront
<1>6. ASSUME NEW c \in Consumers, c \in asleep, NEW a \in Atime(c), a > clock,
             deadline' = [deadline EXCEPT ![c] = a], notified' = notified \ {c},
             UNCHANGED <<clock, producerVars, queue, asleep, dangling, early>>
      PROVE  WakeInv'
  <2>1. CASE c \in dangling BY <1>6, <2>1
  <2>2. CASE c \notin dangling
    <3>1. Due = {} BY <1>6, <2>2 DEF Atime, IsFront
    <3> QED BY <1>6, <3>1
  <2> QED BY <2>1, <2>2
<1>7. CASE Clear
  BY <1>7 DEF Clear
<1>8. CASE Tick
  <2>1. Due' \ early' = Due \ early BY <1>8 DEF Tick
  <2>2. Attentive \subseteq Attentive'
    <3>1. \A c \in Consumers : deadline[c] \in Nat
      <4>1. \A c \in Consumers : deadline[c] \in 0..MaxTime \cup Garbage OBVIOUS
      <4>2. Garbage \subseteq Nat /\ 0..MaxTime \subseteq Nat OBVIOUS
      <4> QED BY <4>1, <4>2, Zenon
    <3>2. clock' = clock + 1 /\ clock \in Nat /\ UNCHANGED <<asleep, notified, deadline>>
      BY <1>8 DEF Tick
    <3> QED BY <3>1, <3>2
  <2>3. \A t \in queue' \ early' : when'[t] <= clock' BY <1>8 DEF Tick
  <2> HIDE DEF Due, Attentive
  <2>4. NothingOverlooked' BY <1>8, <2>1, <2>2 DEF Tick
  <2> QED BY <2>3, <2>4
<1>9. CASE UNCHANGED vars
  BY <1>9 DEF vars
<1> HIDE DEF WakeInv
<1>10. ASSUME NEW c \in Consumers, WaitAndPop(c) \/ SpuriousWakeup(c) PROVE WakeInv'
  BY <1>4, <1>5, <1>6, <1>10
     DEF WaitAndPop, EnterEmpty, Resume, SpuriousWakeup, Wakeup, LeaveSleep
<1> QED BY <1>1, <1>2, <1>3, <1>7, <1>8, <1>9, <1>10 DEF Next

\* While no reference dangles, a task that was due when pushed finds an attentive
\* consumer or a notification under way: no wakeup for it is lost
\* (task_queue::push and wait_and_pop).
THEOREM NoWakeupLost == Spec => []NothingOverlooked
<1>1. Init => WakeInv BY DEF Init, WakeInv, NothingOverlooked, Due
<1>2. IInv /\ WakeInv /\ [Next]_vars => WakeInv' BY WakeStep
<1>3. WakeInv => NothingOverlooked BY DEF WakeInv
<1> QED BY <1>1, <1>2, <1>3, Invariance, PTL DEF Spec
-----------------------------------------------------------------------------
\* Whatever ends a sleep, a consumer whose reference does not dangle finds the front
\* due and takes it (task_queue.cc:31).
THEOREM SleeperGetsTask == Spec => SleepReturnsTask
<1>1. IInv /\ [Next]_vars =>
        [\A c \in asleep \ asleep' : queue = {} \/ c \in dangling \/ result'[c] # {}]_vars
  <2> SUFFICES ASSUME IInv, Next, NEW c \in asleep \ asleep', queue # {}, c \notin dangling
               PROVE  result'[c] # {}
    OBVIOUS
  <2>1. c \in Consumers /\ result \in [Consumers -> SUBSET Tasks]
    BY DEF IInv, TypeOK
  <2>2. PICK d \in Consumers : Resume(d) \/ SpuriousWakeup(d)
    BY <2>1 DEF Next, Insert, Notify, Stamp, EnterEmpty, EnterWait, WaitAndPop, Clear, Tick,
                waitVars, producerVars
  <2>3. PICK a \in Atime(d) : a <= clock /\ PopDue(d) /\ LeaveSleep(d)
    BY <2>2 DEF Resume, SpuriousWakeup, Wakeup
  <2>4. d = c
    BY <2>3 DEF LeaveSleep
  <2>5. PICK t \in queue : when[t] <= clock
    BY <2>3, <2>4 DEF Atime
  <2> QED BY <2>1, <2>3, <2>4, <2>5 DEF PopDue, Due
<1> QED BY <1>1, Invariance, PTL DEF Spec, SleepReturnsTask
=============================================================================
