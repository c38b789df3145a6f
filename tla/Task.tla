-------------------------------- MODULE Task --------------------------------
(***************************************************************************)
(* base::task, base::task_handle and the shared state between them         *)
(* (base/task.h, base/detail/task.h).                                      *)
(*                                                                         *)
(* One task object, its shared state and its one handle.  The task is      *)
(* invoked and destroyed by the thread that owns it; wait(), get() and     *)
(* cancel() come from other threads at any time.  A step is one access to  *)
(* the atomic state_, or one critical section of wait_mutex_, or one call  *)
(* of the condition variable; the wait itself is two steps, the evaluation *)
(* of the predicate and the block, because make_ready() does not take the  *)
(* mutex between them.                                                     *)
(*                                                                         *)
(* Each element of Invocations is one call of operator(), each element of  *)
(* Waits or Gets one call of wait() or get().                              *)
(***************************************************************************)
EXTENDS Naturals

CONSTANTS
  Invocations,  \* the calls of task::operator()
  Waits,        \* the calls of task_handle::wait()
  Gets,         \* the calls of task_handle::get()
  MayCancel     \* whether some thread calls task_handle::cancel()

HandleCalls == Waits \cup Gets

ASSUME TaskAssumption == Waits \cap Gets = {} /\ MayCancel \in BOOLEAN

VARIABLES
  state,         \* state_, the atomic task_state
  exception,     \* exception_, the exception stored for the getter
  storage,       \* whether storage holds the result of the callable
  callable,      \* whether callable_ has a target (never changes)
  continuation,  \* continuation_, and what became of the task it held
  acquired,      \* handle_acquired_
  valid,         \* whether the handle still points to the shared state
  object,        \* the task object: alive, inside ~task(), or gone
  rpc,           \* where each invocation of operator() is
  upc,           \* where each wait() or get() is
  outcome,       \* how each wait() or get() ended
  calls,         \* history: how often callable_ was executed
  cancelWon      \* history: whether a cancel() returned true

taskVars   == <<exception, storage, continuation, calls>>
handleVars == <<acquired, valid, cancelWon>>
vars == <<state, taskVars, callable, handleVars, object, rpc, upc, outcome>>

Ready == {"cancelled", "finished"}
Winning == {"calling", "posting", "storing", "notifying"}

TypeOK ==
  /\ state \in {"initialized", "running"} \cup Ready
  /\ exception \in {"none", "not_run", "thrown"}
  /\ storage \in BOOLEAN /\ callable \in BOOLEAN
  /\ continuation \in {"none", "set", "posted", "dropped"}
  /\ acquired \in BOOLEAN /\ valid \in BOOLEAN
  /\ object \in {"alive", "abandoning", "storing", "notifying", "gone"}
  /\ rpc \in [Invocations -> {"idle", "lost", "done", "already_called"} \cup Winning]
  /\ upc \in [HandleCalls -> {"idle", "entered", "locking", "blocking", "asleep",
                              "ready", "reading", "done"}]
  /\ outcome \in [HandleCalls -> {"none", "returned", "value", "thrown", "not_run",
                                  "cancelled", "no_state"}]
  /\ calls \in {0, 1} /\ cancelWon \in BOOLEAN

Init ==
  /\ state = "initialized" /\ exception = "none" /\ storage = FALSE
  /\ callable \in BOOLEAN
  /\ continuation = "none" /\ acquired = FALSE /\ valid = FALSE
  /\ object = "alive"
  /\ rpc = [i \in Invocations |-> "idle"]
  /\ upc = [u \in HandleCalls |-> "idle"]
  /\ outcome = [u \in HandleCalls |-> "none"]
  /\ calls = 0 /\ cancelWon = FALSE

(***************************************************************************)
(* The shared state.                                                       *)
(***************************************************************************)
is_ready == state \in Ready
is_cancelled == state = "cancelled"

\* compare_exchange_strong(initialized, s): the result is the guard, a failed
\* exchange leaves state_ alone.
CompareExchange(s) == state = "initialized" /\ state' = s

\* notify_all(): every thread blocked on wait_cv_ goes for the mutex again.
notify_all ==
  upc' = [u \in HandleCalls |-> IF upc[u] = "asleep" THEN "locking" ELSE upc[u]]

\* The exception and the result of the callable.  get_result() moves the result out
\* and leaves an empty storage, as for any type that is not integral.
set_exception(e) == exception' = e
set_result == storage' = TRUE
get_result == storage' = FALSE

\* The continuation leaves its holder, which is empty then, for the queue of the
\* thread ("posted") or with the task object ("dropped").
is_set == continuation = "set"
move_task(to) == continuation' = IF is_set THEN to ELSE continuation

(***************************************************************************)
(* The owner of the task: get_handle(), then(), operator(), ~task().       *)
(***************************************************************************)
Owned == object = "alive" /\ \A i \in Invocations : rpc[i] \notin Winning \cup {"lost"}

get_handle ==
  /\ Owned /\ ~acquired
  /\ acquired' = TRUE /\ valid' = TRUE
  /\ UNCHANGED <<state, taskVars, callable, cancelWon, object, rpc, upc, outcome>>

\* One continuation, attached before the task is invoked.
then ==
  /\ Owned /\ continuation = "none" /\ \A i \in Invocations : rpc[i] = "idle"
  /\ continuation' = "set"
  /\ UNCHANGED <<state, exception, storage, calls, callable, handleVars, object,
                 rpc, upc, outcome>>

Goto(i, l) == rpc' = [rpc EXCEPT ![i] = l]

\* Mutant of Invoke: mark_running() as a test and a plain store.
Invoke_PlainStore(i) ==
  /\ object = "alive" /\ rpc[i] = "idle"
  /\ callable /\ state # "finished" /\ state' = "running" /\ Goto(i, "calling")
  /\ UNCHANGED <<taskVars, callable, handleVars, object, upc, outcome>>

\* operator() up to the result of mark_running().
Invoke(i) ==
  /\ object = "alive" /\ rpc[i] = "idle"
  /\ \/ ~callable /\ Goto(i, "done") /\ UNCHANGED state
     \/ callable /\ CompareExchange("running") /\ Goto(i, "calling")
     \/ callable /\ state # "initialized" /\ Goto(i, "lost") /\ UNCHANGED state
  /\ UNCHANGED <<taskVars, callable, handleVars, object, upc, outcome>>

\* Mutant of Lost: every lost exchange throws.
Lost_NoCancelTest(i) ==
  /\ rpc[i] = "lost" /\ Goto(i, "already_called")
  /\ UNCHANGED <<state, taskVars, callable, handleVars, object, upc, outcome>>

\* mark_running() failed: a cancelled task is skipped, any other throws.
Lost(i) ==
  /\ rpc[i] = "lost"
  /\ Goto(i, IF is_cancelled THEN "done" ELSE "already_called")
  /\ UNCHANGED <<state, taskVars, callable, handleVars, object, upc, outcome>>

\* Mutant of Execute: the result is published without posting the continuation.
Execute_PostsLate(i) ==
  /\ rpc[i] = "calling" /\ calls' = calls + 1 /\ Goto(i, "storing")
  /\ \/ set_result /\ UNCHANGED exception
     \/ set_exception("thrown") /\ UNCHANGED storage
  /\ UNCHANGED <<state, continuation, callable, handleVars, object, upc, outcome>>

\* callable_() returns and its result is stored, or it throws.
Execute(i) ==
  /\ rpc[i] = "calling" /\ calls' = calls + 1
  /\ \/ set_result /\ Goto(i, "posting") /\ UNCHANGED exception
     \/ set_exception("thrown") /\ Goto(i, "storing") /\ UNCHANGED storage
  /\ UNCHANGED <<state, continuation, callable, handleVars, object, upc, outcome>>

post_continuation(i) ==
  /\ rpc[i] = "posting" /\ Goto(i, "storing") /\ move_task("posted")
  /\ UNCHANGED <<state, exception, storage, calls, callable, handleVars, object,
                 upc, outcome>>

\* make_ready() of the invocation: the store, then the notification.
StoreFinished(i) ==
  /\ rpc[i] = "storing" /\ state' = "finished" /\ Goto(i, "notifying")
  /\ UNCHANGED <<taskVars, callable, handleVars, object, upc, outcome>>

\* Mutant of NotifyFinished: the notification is forgotten.
NotifyFinished_Silent(i) ==
  /\ rpc[i] = "notifying" /\ Goto(i, "done")
  /\ UNCHANGED <<state, taskVars, callable, handleVars, object, upc, outcome>>

NotifyFinished(i) ==
  /\ rpc[i] = "notifying" /\ notify_all /\ Goto(i, "done")
  /\ UNCHANGED <<state, taskVars, callable, handleVars, object, outcome>>

\* The destructor drops the continuation with the other members.
Drop == object' = "gone" /\ move_task("dropped")

\* ~task(): reads is_ready(), and only then, in further steps, stores not_run
\* and makes the state ready.
Destroy ==
  /\ Owned
  /\ \/ acquired /\ ~is_ready /\ object' = "abandoning" /\ UNCHANGED continuation
     \/ (~acquired \/ is_ready) /\ Drop
  /\ UNCHANGED <<state, exception, storage, calls, callable, handleVars, rpc, upc,
                 outcome>>

\* Mutant of SetNotRun: the state is made ready without an exception.
SetNotRun_NoException ==
  /\ object = "abandoning" /\ object' = "storing"
  /\ UNCHANGED <<state, taskVars, callable, handleVars, rpc, upc, outcome>>

SetNotRun ==
  /\ object = "abandoning" /\ object' = "storing" /\ set_exception("not_run")
  /\ UNCHANGED <<state, storage, continuation, calls, callable, handleVars, rpc,
                 upc, outcome>>

StoreNotRun ==
  /\ object = "storing" /\ object' = "notifying" /\ state' = "finished"
  /\ UNCHANGED <<taskVars, callable, handleVars, rpc, upc, outcome>>

NotifyNotRun ==
  /\ object = "notifying" /\ notify_all /\ Drop
  /\ UNCHANGED <<state, exception, storage, calls, callable, handleVars, rpc,
                 outcome>>

(***************************************************************************)
(* The users of the handle.                                                *)
(***************************************************************************)
cancel ==
  /\ MayCancel /\ valid /\ CompareExchange("cancelled")
  /\ cancelWon' = TRUE
  /\ UNCHANGED <<taskVars, callable, acquired, valid, object, rpc, upc, outcome>>

Move(u, l) == upc' = [upc EXCEPT ![u] = l]
End(u, o) == Move(u, "done") /\ outcome' = [outcome EXCEPT ![u] = o]

\* wait(), also as the first call of get(): throws no_state once a get() has
\* released the shared state.  get() moves the result out, so its callers take
\* turns; wait() and cancel() may overlap it.
Enter(u) ==
  /\ upc[u] = "idle" /\ acquired
  /\ u \in Gets => \A v \in Gets : upc[v] \in {"idle", "done"}
  /\ \/ valid /\ Move(u, "entered") /\ UNCHANGED outcome
     \/ ~valid /\ End(u, "no_state")
  /\ UNCHANGED <<state, taskVars, callable, handleVars, object, rpc>>

Proceed(u) ==
  \/ u \in Waits /\ End(u, "returned")
  \/ u \in Gets /\ Move(u, "ready") /\ UNCHANGED outcome

\* The is_ready() that wait() makes before it takes the mutex.
FastCheck(u) ==
  /\ upc[u] = "entered"
  /\ \/ is_ready /\ Proceed(u)
     \/ ~is_ready /\ Move(u, "locking") /\ UNCHANGED outcome
  /\ UNCHANGED <<state, taskVars, callable, handleVars, object, rpc>>

\* A thread that is about to block holds wait_mutex_.
LockedCheck(u) ==
  /\ upc[u] = "locking" /\ \A v \in HandleCalls : upc[v] # "blocking"
  /\ \/ is_ready /\ Proceed(u)
     \/ ~is_ready /\ Move(u, "blocking") /\ UNCHANGED outcome
  /\ UNCHANGED <<state, taskVars, callable, handleVars, object, rpc>>

Block(u) ==
  /\ upc[u] = "blocking" /\ Move(u, "asleep")
  /\ UNCHANGED <<state, taskVars, callable, handleVars, object, rpc, outcome>>

SpuriousWakeup(u) ==
  /\ upc[u] = "asleep" /\ Move(u, "locking")
  /\ UNCHANGED <<state, taskVars, callable, handleVars, object, rpc, outcome>>

\* get() resets the handle however it ends.  Nobody may be inside another call
\* on the handle then: the shared state may go with it.
Release(u) ==
  /\ \A v \in HandleCalls \ {u} : upc[v] \in {"idle", "done"}
  /\ valid' = FALSE

TestCancelled(u) ==
  /\ upc[u] = "ready"
  /\ \/ is_cancelled /\ End(u, "cancelled") /\ Release(u)
     \/ ~is_cancelled /\ Move(u, "reading") /\ UNCHANGED <<valid, outcome>>
  /\ UNCHANGED <<state, taskVars, callable, acquired, cancelWon, object, rpc>>

\* Mutant of ReadOutcome: the stored exception is not looked at.
ReadOutcome_NoRethrow(u) ==
  /\ upc[u] = "reading" /\ Release(u) /\ End(u, "value") /\ get_result
  /\ UNCHANGED <<state, exception, continuation, calls, callable, acquired,
                 cancelWon, object, rpc>>

\* Rethrow the stored exception, or move the result out of the storage.
ReadOutcome(u) ==
  /\ upc[u] = "reading" /\ Release(u)
  /\ \/ exception # "none" /\ End(u, exception) /\ UNCHANGED storage
     \/ exception = "none" /\ End(u, "value") /\ get_result
  /\ UNCHANGED <<state, exception, continuation, calls, callable, acquired,
                 cancelWon, object, rpc>>

Operator(i) == \/ Lost(i) \/ Execute(i) \/ post_continuation(i)
               \/ StoreFinished(i) \/ NotifyFinished(i)
Destructor == Destroy \/ SetNotRun \/ StoreNotRun \/ NotifyNotRun
WaitOrGet(u) == \/ FastCheck(u) \/ LockedCheck(u) \/ Block(u)
                \/ TestCancelled(u) \/ ReadOutcome(u)

\* What the task object does, and what is done through its handle.
TaskStep ==
  \/ get_handle \/ then \/ Destructor
  \/ \E i \in Invocations : Invoke(i) \/ Operator(i)
HandleStep ==
  \/ cancel
  \/ \E u \in HandleCalls : Enter(u) \/ WaitOrGet(u) \/ SpuriousWakeup(u)

Next == TaskStep \/ HandleStep

Spec == Init /\ [][Next]_vars

\* Threads keep running, a callable returns or throws, and the owner destroys
\* the task in the end.  Nobody has to acquire the handle, invoke the task, call
\* wait(), get() or cancel(), and a spurious wakeup may never come.
Fairness ==
  /\ WF_vars(Destructor)
  /\ \A i \in Invocations : WF_vars(Operator(i))
  /\ \A u \in HandleCalls : WF_vars(WaitOrGet(u))

FairSpec == Spec /\ Fairness
-----------------------------------------------------------------------------
(***************************************************************************)
(* Properties.                                                             *)
(***************************************************************************)

\* The outcome a get() reports is what happened: a value only if the callable
\* ran to its end, its exception only if it ran and threw, not_run only if the
\* task was destroyed without having run, cancelled only if a cancel() won; and
\* the callable never ran twice (task_handle::get, task::operator()).
OutcomeIsTrue ==
  /\ calls <= 1
  /\ \A u \in HandleCalls :
       CASE outcome[u] = "value"     -> calls = 1 /\ exception = "none"
         [] outcome[u] = "thrown"    -> calls = 1 /\ exception = "thrown"
         [] outcome[u] = "not_run"   -> calls = 0 /\ object # "alive"
         [] outcome[u] = "cancelled" -> calls = 0 /\ cancelWon
         [] OTHER                    -> TRUE

\* When cancel() returned true the callable is not executed, now or ever, by
\* however many invocations race with it (the two exchanges on state_).
CancelExcludesRun ==
  cancelWon => calls = 0 /\ \A i \in Invocations : rpc[i] \notin Winning

\* A reader that finds the state finished through a valid handle finds exactly
\* one of a result and an exception: get_value() never meets an empty storage
\* (the assertion of base/detail/task.h:43).
FinishedHasOutcome ==
  state = "finished" /\ valid => (storage <=> exception = "none")

\* The continuation is posted only by an invocation that produced a result, and
\* before anybody can learn that result: when get() returns the value the
\* continuation is no longer waiting inside the task.
ContinuationBeforeResult ==
  /\ continuation = "posted" => calls = 1 /\ exception = "none"
  /\ \A u \in HandleCalls : outcome[u] = "value" => continuation # "set"

\* An invocation throws already_called only if the callable was really claimed by
\* another invocation, never because of a cancel() (the comment at task.h:155).
AlreadyCalledIsTrue ==
  \A i \in Invocations :
    rpc[i] = "already_called" =>
      /\ ~cancelWon
      /\ calls = 1 \/ \E j \in Invocations : rpc[j] \in Winning

\* A thread that sleeps in wait() before the task is over is woken when the task
\* finishes or is destroyed without having run; only a cancel() leaves it asleep.
SleeperWoken ==
  \A u \in HandleCalls :
    (upc[u] = "asleep" /\ ~is_ready) ~> (upc[u] # "asleep" \/ cancelWon)

\* Every wait() and get() on the handle of a task that is run or destroyed returns
\* (tests/base/task.cc, TCExecuteOnDifferentThread).
GetReturns == \A u \in HandleCalls : (upc[u] = "entered") ~> (upc[u] = "done")

\* A wait() that blocks before somebody cancels the task returns, as a wait() that
\* comes after the cancel() does (tests/base/task.cc, TCExecuteCancelledTask).
CancelReleasesWaiters ==
  \A u \in HandleCalls : (upc[u] = "asleep" /\ cancelWon) ~> (upc[u] = "done")

\* Once cancel() has returned true, get() reports cancelled and nothing else (the
\* documented return value of task_handle::cancel, and TCGetResultWhenCancelled).
CancelIsFinal ==
  cancelWon => \A u \in Gets : outcome[u] \in {"none", "cancelled", "no_state"}
=============================================================================
