----------------------------- MODULE TaskQueue ------------------------------
(***************************************************************************)
(* base::task_queue (base/task_queue.cc): a heap of timed_tasks under a    *)
(* mutex, with a condition variable on which consumers sleep.  Any thread  *)
(* pushes, any thread may sit in wait_and_pop().                           *)
(*                                                                         *)
(* A step is one critical section of lock_, or what lies between two: the  *)
(* construction of the timed_task, the notification, the return of the     *)
(* condition variable.  Both predicates of wait_and_pop() read             *)
(* `queue_.empty()`, so an empty queue is not waited for, and a wait on a  *)
(* filled one ends when its deadline passes or the queue becomes empty.    *)
(*                                                                         *)
(* wait_until() takes the deadline by reference, into the vector, and      *)
(* reads it again after every wakeup.  While the vector keeps its buffer   *)
(* the reference shows the due time of the present front; once push_back() *)
(* has moved the buffer it dangles, and a read returns any member of       *)
(* Garbage.                                                                *)
(***************************************************************************)
EXTENDS Naturals, FiniteSets

CONSTANTS
  Tasks,         \* the timed_tasks, each pushed at most once
  Consumers,     \* the threads that call wait_and_pop(), over and over
  Delays,        \* the delays tasks are posted with
  MaxTime,       \* bound: the clock stops here, and no task is due later
  FirstCapacity, \* the capacity queue_ has acquired in earlier use
  Garbage,       \* the values a read through a dangling reference returns
  MayClear       \* whether the queue is cleared at times

ASSUME TaskQueueAssumption ==
  /\ MaxTime \in Nat /\ FirstCapacity \in Nat /\ Consumers # {}
  /\ Delays \subseteq Nat /\ Garbage \subseteq Nat /\ MayClear \in BOOLEAN

VARIABLES
  clock,     \* high_steady_clock::now()
  pc,        \* where the push of each task is
  when,      \* timed_task::when
  queue,     \* queue_, as the set of its tasks
  capacity,  \* queue_.capacity()
  asleep,    \* the consumers blocked on cv_ in wait_until()
  notified,  \* those of them that a notify_one() has reached
  deadline,  \* the time the blocked call of each of them ends by itself
  dangling,  \* those whose reference no longer points into queue_
  result,    \* what the last wait_and_pop() of each consumer returned
  early,     \* history: the tasks that were pushed before they were due
  taken      \* history: all tasks ever returned

producerVars == <<pc, when>>
waitVars == <<asleep, notified, deadline, dangling>>
vars == <<clock, producerVars, queue, capacity, waitVars, early, result, taken>>

TypeOK ==
  /\ clock \in 0..MaxTime
  /\ pc \in [Tasks -> {"idle", "stamped", "notifying", "pushed"}]
  /\ when \in [Tasks -> 0..MaxTime]
  /\ queue \subseteq Tasks
  /\ capacity \in Nat /\ Cardinality(queue) <= capacity
  /\ asleep \subseteq Consumers /\ notified \subseteq asleep
  /\ dangling \subseteq asleep
  /\ deadline \in [Consumers -> 0..MaxTime \cup Garbage]
  /\ result \in [Consumers -> SUBSET Tasks]
  /\ early \subseteq Tasks /\ taken \subseteq Tasks

Init ==
  /\ clock = 0
  /\ pc = [t \in Tasks |-> "idle"] /\ when = [t \in Tasks |-> 0]
  /\ queue = {} /\ capacity = FirstCapacity
  /\ asleep = {} /\ notified = {} /\ dangling = {}
  /\ deadline = [c \in Consumers |-> 0]
  /\ result = [c \in Consumers |-> {}] /\ early = {} /\ taken = {}

Due == {t \in queue : when[t] <= clock}

\* operator< is inverted: the front of the heap is a task due first.
IsFront(t) == t \in queue /\ \A u \in queue : when[t] <= when[u]

(***************************************************************************)
(* push().                                                                 *)
(***************************************************************************)

\* Mutant of Stamp: the delay is added by the caller and again by the constructor.
Stamp_Twice(t, d) ==
  /\ pc[t] = "idle" /\ clock + d <= MaxTime
  /\ pc' = [pc EXCEPT ![t] = "stamped"]
  /\ when' = [when EXCEPT ![t] = clock + d + d]
  /\ UNCHANGED <<clock, queue, capacity, waitVars, early, result, taken>>

\* The constructor of the timed_task reads the clock, before the lock is taken.
Stamp(t, d) ==
  /\ pc[t] = "idle" /\ clock + d <= MaxTime
  /\ pc' = [pc EXCEPT ![t] = "stamped"]
  /\ when' = [when EXCEPT ![t] = clock + d]
  /\ UNCHANGED <<clock, queue, capacity, waitVars, early, result, taken>>

\* push_back() doubles a full buffer, which leaves every reference into the old
\* one behind.
Grow ==
  IF Cardinality(queue) = capacity
  THEN capacity' = (IF capacity = 0 THEN 1 ELSE 2 * capacity) /\ dangling' = asleep
  ELSE UNCHANGED <<capacity, dangling>>

\* Mutant of Insert: `<` for `<=` in the test for the notification.
Insert_StrictlyDue(t) ==
  /\ pc[t] = "stamped" /\ Grow /\ queue' = queue \cup {t}
  /\ pc' = [pc EXCEPT ![t] = IF \E u \in queue' : when[u] < clock
                             THEN "notifying" ELSE "pushed"]
  /\ early' = early \cup {u \in {t} : when[u] > clock}
  /\ UNCHANGED <<clock, when, asleep, notified, deadline, result, taken>>

\* Notify only if the front is due by now.
Insert(t) ==
  /\ pc[t] = "stamped" /\ Grow /\ queue' = queue \cup {t}
  /\ pc' = [pc EXCEPT ![t] = IF \E u \in queue' : when[u] <= clock
                             THEN "notifying" ELSE "pushed"]
  /\ early' = early \cup {u \in {t} : when[u] > clock}
  /\ UNCHANGED <<clock, when, asleep, notified, deadline, result, taken>>

\* notify_one(), after the lock is released.
Notify(t) ==
  /\ pc[t] = "notifying" /\ pc' = [pc EXCEPT ![t] = "pushed"]
  /\ \/ asleep = notified /\ UNCHANGED notified
     \/ \E c \in asleep \ notified : notified' = notified \cup {c}
  /\ UNCHANGED <<clock, when, queue, capacity, asleep, deadline, dangling, early,
                 result, taken>>

(***************************************************************************)
(* wait_and_pop().                                                         *)
(***************************************************************************)
LeaveSleep(c) ==
  /\ asleep' = asleep \ {c} /\ notified' = notified \ {c} /\ dangling' = dangling \ {c}
  /\ UNCHANGED deadline

\* Mutants of PopDue: the tasks are copied out and stay; the due time is not tested.
PopDue_Copies(c) ==
  /\ result' = [result EXCEPT ![c] = Due]
  /\ queue' = queue /\ taken' = taken \cup Due

PopDue_All(c) ==
  /\ result' = [result EXCEPT ![c] = queue]
  /\ queue' = {} /\ taken' = taken \cup queue

\* The loop that pops while the front is due, and the return.
PopDue(c) ==
  /\ result' = [result EXCEPT ![c] = Due]
  /\ queue' = queue \ Due /\ taken' = taken \cup Due

\* An empty queue: cv_.wait() returns at once, and nothing is popped.
EnterEmpty(c) ==
  /\ c \notin asleep /\ queue = {} /\ PopDue(c)
  /\ UNCHANGED <<clock, producerVars, capacity, waitVars, early>>

\* A filled one: block until the front is due.
EnterWait(c) ==
  /\ c \notin asleep /\ asleep' = asleep \cup {c}
  /\ \E t \in queue : IsFront(t) /\ deadline' = [deadline EXCEPT ![c] = when[t]]
  /\ UNCHANGED <<clock, producerVars, queue, capacity, notified, dangling, early,
                 result, taken>>

\* What wait_until() reads through its reference.
Atime(c) == IF c \in dangling THEN Garbage ELSE {when[t] : t \in {u \in queue : IsFront(u)}}

\* Mutant of Wakeup: a wait without the loop that tells a wakeup from the end.
Wakeup_Once(c) == PopDue(c) /\ LeaveSleep(c)

\* The blocked call has returned, its thread has lock_ again: the wait is over if
\* the queue is empty or the time read now has passed, and goes on otherwise.
Wakeup(c) ==
  \/ queue = {} /\ PopDue(c) /\ LeaveSleep(c)
  \/ \E a \in Atime(c) :
       /\ queue # {}
       /\ \/ a <= clock /\ PopDue(c) /\ LeaveSleep(c)
          \/ /\ a > clock /\ deadline' = [deadline EXCEPT ![c] = a]
             /\ notified' = notified \ {c}
             /\ UNCHANGED <<queue, asleep, dangling, result, taken>>

Resume(c) ==
  /\ c \in asleep /\ (c \in notified \/ deadline[c] <= clock)
  /\ Wakeup(c) /\ UNCHANGED <<clock, producerVars, capacity, early>>

SpuriousWakeup(c) ==
  /\ c \in asleep /\ c \notin notified /\ deadline[c] > clock
  /\ Wakeup(c) /\ UNCHANGED <<clock, producerVars, capacity, early>>

(***************************************************************************)
(* clear() notifies nobody.                                                *)
(***************************************************************************)
Clear ==
  /\ MayClear /\ queue # {} /\ queue' = {}
  /\ UNCHANGED <<clock, producerVars, capacity, waitVars, early, result, taken>>

Tick ==
  /\ clock < MaxTime /\ clock' = clock + 1
  /\ UNCHANGED <<producerVars, queue, capacity, waitVars, early, result, taken>>

WaitAndPop(c) == EnterEmpty(c) \/ EnterWait(c) \/ Resume(c)

Next ==
  \/ \E t \in Tasks : Insert(t) \/ Notify(t) \/ \E d \in Delays : Stamp(t, d)
  \/ \E c \in Consumers : WaitAndPop(c) \/ SpuriousWakeup(c)
  \/ Clear \/ Tick

Spec == Init /\ [][Next]_vars

\* Time passes, and a consumer calls wait_and_pop() again when it returned, as
\* message_loop::exec() does.
FairSpec ==
  Spec /\ WF_vars(Tick) /\ \A c \in Consumers : WF_vars(WaitAndPop(c))
-----------------------------------------------------------------------------
(***************************************************************************)
(* Properties.                                                             *)
(***************************************************************************)

\* The queue is a DelayQueue: wait_and_pop() takes all that is due and nothing
\* before its time, a task leaves only by being taken or cleared, and a due task
\* does not stay forever.
AbstractStatus ==
  [t \in Tasks |->
     CASE pc[t] = "idle"    -> "new"
       [] pc[t] = "stamped" -> "stamped"
       [] OTHER -> IF t \in queue THEN "pending"
                   ELSE IF t \in taken THEN "taken" ELSE "dropped"]

DQ == INSTANCE DelayQueue WITH status <- AbstractStatus

IsDelayQueue == DQ!Spec

\* However consumers and pushes interleave, a task is returned by at most one
\* wait_and_pop(), and is not in the queue any more when it was.
TakenOnce ==
  /\ taken \cap queue = {}
  /\ \A c, d \in Consumers : c # d => result[c] \cap result[d] = {}

\* Consumers that will look at the queue without further help.
Attentive ==
  {c \in Consumers : c \notin asleep \/ c \in notified \/ deadline[c] <= clock}

\* Where no reference dangles, a task that was due when it was pushed is never
\* overlooked: a consumer is attentive, or a push is about to notify one.  (Who
\* pushes a task before it is due has no such promise: nobody is told, and a
\* consumer that sleeps for a later one oversleeps it.)
NothingOverlooked ==
  dangling = {} /\ Attentive = {} /\ Due \ early # {} =>
    \E t \in Tasks : pc[t] = "notifying"

\* A sleep in wait_and_pop() does not end empty-handed while the queue holds tasks,
\* whatever wakes it, unless its reference dangles: a consumer on its own gets a
\* task (tests/base/task_queue.cc, TCTaskQueue2, takes at(0) of the result).
SleepReturnsTask ==
  [][\A c \in asleep \ asleep' :
       queue = {} \/ c \in dangling \/ result'[c] # {}]_vars

\* Every task that is pushed is returned by a wait_and_pop() in the end
\* (tests/base/message_loop.cc, TCBaseMessageLoop).
EveryTaskTaken == \A t \in Tasks : (t \in queue) ~> (t \in taken)
=============================================================================
