# micro-spotify in TLA+

micro-spotify is a small C++11 client library: `base/` holds tasks with
handles, a delayed task queue, a message loop and threads made of them;
`engine/` wraps libspotify's session in those threads. The program's own logic
is concurrency: who runs what, where, in which order, and what happens to a
task, a thread or a session that is cancelled, stopped or destroyed meanwhile.
That is what these modules specify. They are checked with TLC on small
instances, and seven of them (all but `DelayQueue`, which the others rest on) are
proved about with TLAPS for every instance.

## Inventory

| Part | State | Operations | Talks to |
|---|---|---|---|
| `base/task.h`, `base/detail/task.h` | shared state: `state_`, `exception_`, storage, a mutex and a condition variable; the task: callable, continuation, `handle_acquired_` | `get_handle`, `then`, `operator()`, `~task`; `wait`, `get`, `cancel` on the handle | the handle and the task share the state through a `shared_ptr`; the continuation is posted to the current thread |
| `base/task_queue.*`, `base/timed_task.h` | heap of `(action, when)`, mutex, condition variable | `push`, `wait_and_pop`, `clear` | called by message loops and by everyone who posts |
| `base/message_loop.*` | `active_`, a task queue | `start`, `stop`, `post_task` | runs the actions it pops |
| `base/waitable_event.*` | `signaled_` | `wait`, `wait_and_reset`, `signal` | `thread::start` waits for `thread::exec` |
| `base/thread.*` | platform thread, loop, event | `start`, `stop`, `post_task`, `current` | owner on one side, platform thread on the other |
| `engine/session.*` | libspotify's session, two task handles, `cb_thread`, four signals | construct, destroy, `log_in`, `log_out`, `search`; libspotify's callbacks | the spotify thread, `cb_thread`, libspotify |
| `engine/search_response*` | owns an `sp_search` | `query`, `track` | waits for the spotify thread |
| `engine/global_thread_manager.*` | the spotify and audio threads | `get_thread`, constructor, destructor | constructed by the first `get_thread()`, destroyed with the statics of the process |
| `engine/player.h`, `music_delivery` | a session pointer, frames | `play`; the frames libspotify delivers | spotify thread, audio thread |
| `base/configuration_element.h` | a locked value and a signal | assign, read | its listeners |
| `base/request_map.h`, `cancellation_token.h`, `scoped_thread.*` | a counter and a map; a count; a thread | | unused by the engine |
| `callable.h`, `log.*`, `exception.*`, `track.*`, headers without behaviour | | | |

What is hard, and what makes each part correct:

- **task**: invocation, destruction, waiting and cancelling come from different
  threads, with an atomic `state_` and almost no locking. Cancellation and
  execution must exclude each other, an outcome must be what happened, every
  waiter must be woken.
- **task_queue**: the notification is sent outside the lock, only if the front
  is due, to one consumer. No task may be taken twice or early, no due task may
  be overlooked by sleeping consumers.
- **thread and message_loop**: `stop()` is itself a task, in a queue that others
  post to, perhaps before the loop has begun; the rest of its batch runs after
  it. Threads are restarted with the same loop and event.
- **waitable_event**: the notification follows the unlock and wakes one thread,
  which may come too late. No signal may be taken twice, and none may find only
  sleepers.
- **session**: `process_events()` reposts itself with a delay, while
  notifications from another thread replace the waiting call. The chain must
  neither fork nor end. Destruction must leave nothing of its own behind that
  uses the session, and must not wait forever for a slot that waits for the
  spotify thread.
- **the engine as a whole**: the owner, slots on `cb_thread`, slots on the audio
  thread and libspotify all post to threads that others start and stop. Everybody
  must find the thread he posts to, no `stop()` may drop what somebody waits for,
  a search must be released exactly once although copies of its response are
  dropped on three threads, and two teardowns must not wait in a circle.

`PROJECT.json` lists each hazard at its line with the properties that cover it,
or the reason why none does.

## Modules

| Module | Models | Built on |
|---|---|---|
| `Task` | task, handle and shared state | |
| `TaskProofs` | theorems about `Task` | `Task` |
| `DelayQueue` | what `task_queue` promises (abstract) | |
| `TaskQueue` | `task_queue.cc` | implements `DelayQueue` |
| `TaskQueueProofs` | theorems about `TaskQueue` | `TaskQueue` |
| `Worker` | what a `base::thread` promises those who post to it (abstract) | |
| `WorkerProofs` | what that promise implies, for any tasks | `Worker` |
| `BaseThread` | `thread.cc`, `message_loop.cc`, the start event | instantiates `DelayQueue`, implements `Worker` |
| `BaseThreadProofs` | theorems about `BaseThread` | `BaseThread` |
| `WaitableEvent` | `waitable_event.cc` | |
| `WaitableEventProofs` | theorems about `WaitableEvent` | `WaitableEvent` |
| `Session` | `session.cc`, the search response | what `BaseThread` and `Task` show |
| `SessionProofs` | theorems about `Session` | `Session` |
| `Engine` | `global_thread_manager.cc`, `player.h`, `music_delivery`, the search response on three threads | three instances of `Worker` |
| `EngineProofs` | theorems about `Engine` | `Engine` |
| `EngineProgress` | `Engine` as three `Worker`s; nobody waits in a circle | `EngineProofs`, three instances of `WorkerProofs` |
| `MC*` | constants for TLC | one for each module that is run |

**Task.** One task, its shared state and its handle. An action is one access to
`state_`, one critical section of `wait_mutex_` or one call of the condition
variable. `Invoke`, `Lost`, `Execute`, `post_continuation`, `StoreFinished` and
`NotifyFinished` are `operator()`; `Destroy`, `SetNotRun`, `StoreNotRun` and
`NotifyNotRun` are `~task()`; `Enter`, `FastCheck`, `LockedCheck`, `Block`,
`TestCancelled` and `ReadOutcome` are `wait()` and `get()`. The wait of the
condition variable is two actions, because `make_ready()` does not take the
mutex between the predicate and the block. `task<void>` and `task<R>` are the
same but for the result. A value is abstracted to whether the storage holds
one. Histories: `calls`, `cancelWon`.

**DelayQueue and TaskQueue.** The detailed queue is a set of tasks with due
times, the pushes in progress (built, inserted, about to notify) and the
consumers (between two calls, or asleep with a deadline). An action is one
critical section of `lock_`, or the notification after it. Both predicates of
`wait_and_pop()` are inverted in the code, and are modelled as they are written:
an empty queue is not waited for. `wait_until()` keeps a reference to the due
time of the front, inside the vector, and reads it again after each wakeup; the
reference follows the front while the buffer stays, and shows any element of
the constant `Garbage` after `push_back()` has moved it. The vector's growth (a
full buffer is doubled) is the standard library's. The mapping to `DelayQueue`
reads the status of a task off the push's place, the queue and `taken`.

**BaseThread.** The owner (`start`, `Started`, `stop`, `StampStop`, `PushStop`,
`Joined`), the platform thread (`Signal`, `EnterLoop`, `TestActive`,
`wait_and_pop`, `RunTask`, `RunStop`, `Deactivate`, `EndOfBatch`) and everybody
else (`post_task`, `push`). The stop task clears the queue and resets `active_`
in two steps. A batch is run in the order of due times, equal ones in any order,
as the heap leaves them. The owner is one thread: the code says that `start()`
is not thread-safe.

**Worker.** A thread without clock, queue, batches and stop tasks: a phase, the
status of each task, and the pairs of waiting tasks of which the first is due
before the second. `Stop` turns each undelayed task that waits into one that is
*owed* a run; `Down` is possible when nothing is owed; `Drop` may take the other
tasks of a stopping thread. `BaseThread` maps the place of the stop task and of
the platform thread to the phase, and a task to `owed` when it was due before
the stop task was. It implements `Worker` with its fairness (`IsWorker`).

**Engine.** The spotify thread, the audio thread and `cb_thread` are each a
`Worker`. The owner goes from the first `get_thread()` through `session()` and
`~session()` to the end of the static destruction (`StartThreads`, `Construct`,
`Destruct`, `StopThreads`). Three actors may play and ask a response for its
query or a track: the owner, a slot of `search_completed` on `cb_thread`
(`BeginSlot` to `EndSlot`), and a slot of `frames_delivered` on the audio thread
(`BeginFrame` to `EndFrame`), which got its copy of the response from the slot
on `cb_thread` (`Copy`). `holders` is the reference count of a response with
names; the task that carries the response to `cb_thread` holds one until the
batch it was in is destroyed (`FreeTask`). `Earlier` says what is due before a
post: all that the same actor has posted, and whatever of the others' tasks was
due earlier. The owner may destroy its player at any time in its own code, before
the session or after it; `orphans` are its plays that wait then, whose captured
`this` is gone. The pump of events and the cancellation of notifications are in
`Session` and left out here.

**WaitableEvent.** Each call of `wait()`, `wait_and_reset()` and `signal()` by any
thread. An action is one critical section of `m_` (the predicate, and with it
the return or the block), or the `notify_one()` after it. `BaseThread` has the
event of a thread as one flag: it has one waiter and is never reset there.

**Session.** The owner, the spotify thread with its queue, libspotify (external:
it calls back from inside `sp_session_process_events()`, and for
`notify_main_thread` from a thread of its own) and `cb_thread`. A task on the
queue is its function, a number and whether it has a delay. Undelayed tasks run
in the order posted, a delayed one at any time that does not overtake an
undelayed one posted before it: that is the heap order, without the clock,
provided the clock advances between two posts. `log_in()`, `log_out()` and
a player's `play()` differ only in what they call and are one task, posted by the
owner or from a slot, one at a time; the two login callbacks are one callback.
`sp_session_release()` is taken to end the callbacks of event processing, but not
`notify_main_thread`, of which the comment in `~session()` doubts it: one may be
under way during the release, and more may come until the session is gone
(`late`). The handle it assigns on its own thread without synchronisation is seen
by the spotify thread old or new; a torn one is not modelled.

**A `get()` that oversleeps.** `Task` shows that a `get()` whose task is run by
another thread may miss the wakeup and sleep on (run `task_lost_wakeup`). The
modules above it keep that: in `Session` and `Engine`, running a task that
somebody waits for (`MakeReady`) may put the waiter into `asleep`, and only
`SpuriousWakeup` takes it out again. The three `get()`s of `~session()`, the one
of `session()`, and those of `query()` and `track()` return when the task was run
and the caller is not asleep (`Returned`, `Waits`). Safety properties therefore
hold whether or not a wakeup is lost. Liveness cannot be had without it, and
`DestructionEnds` and `TeardownEnds` say so: they begin with `[]<>(asleep = {})`.

## Runs

Every run uses a module `MC*` and a cfg; together they are `PROJECT.json`'s
"runs".

| Run | Instance | Distinct states | Shows |
|---|---|---|---|
| `task` | 2 invocations, 2 waits, 1 get, cancel | 44,802 | `OutcomeIsTrue`, `CancelExcludesRun`, `FinishedHasOutcome`, `ContinuationBeforeResult`, `AlreadyCalledIsTrue`, `SleeperWoken` hold |
| `task_lost_wakeup` | 1 invocation, 1 get | | `GetReturns` fails |
| `task_cancel_wait` | 1 invocation, 1 wait, cancel | | `CancelReleasesWaiters` fails |
| `task_cancel_destroy` | 1 invocation, 1 get, cancel | | `CancelIsFinal` fails |
| `task_queue` | 2 tasks, 2 consumers, times 0..2, first capacity 0, clear | 77,320 | `TakenOnce`, `NothingOverlooked`, `SleepReturnsTask`, `IsDelayQueue` hold |
| `task_queue_dangling` | 2 tasks, 1 consumer, arbitrary garbage | | `EveryTaskTaken` fails |
| `base_thread` | 2 tasks, 2 stops, delays 0 and 1, times 0..2 | 758,055 | `StopSettles`, `FreshLoop`, `RunInOrder`, `StartSynchronised`, `StopReturns`, `TaskSettles`, `IsWorker` hold |
| `waitable_event` | 2 `wait`s, 2 `wait_and_reset`s, 3 `signal`s | 8,012 | `SignalTakenOnce`, `NobodyStranded`, `SignalIsSeen` hold |
| `session` | 1 search, 2 notifications, creation may fail | 295,111 | `OnePump`, `SessionSettled`, `CallbacksHaveThread`, `NotifyHeard`, `DestructionEnds`, `EventsKeepComing` hold |
| `engine` | 1 search, 1 play by each of 3 actors, 2 frames | 419,566 | `NothingDropped`, `QueryFindsSearch`, `PlaysInTime`, `FramesInOrder`, `ReleasedByLast`, `NoCircularWait`, `PostsFindThread`, `TeardownEnds` hold |
| `session_create_fails` | no search | | `CbThreadStopped` fails |
| `session_search_query` | 1 search | | `QueryIntact` fails |

Bounds. Two invocations are what it takes for one to lose to the other and to a
cancel; two waits and a get, for one to hold the mutex while another wants it.
Two tasks and two consumers are what it takes for a notification to reach the
wrong one, for a buffer to move under a sleeper (capacity 0 grows at 1 and at 2)
and for two due times in either order. Two stops make a thread start again with
a used loop and event and stop again. Two calls of either kind that waits and
three signals are enough for a signal to reach a thread that another has
overtaken, and for a signal to be merged with one not yet taken. Two
notifications overlap each other and each other's handle. In `engine` one search
has up to four copies of its response, in the hands of three threads and a task;
the plays and queries of three actors overlap on the spotify thread with each
other and with the owner's own tasks, and two frames are what an order takes.
The safety properties of all six passing runs are proved for all instances
besides. `MaxTime`, `MaxNotifies`, `MaxFrames` and the sets of tasks, calls,
plays and searches bound the runs; a push or a post that would be due after
`MaxTime` is not made.

Deadlock is not checked where the system may stop: all calls on a task or an
event made, a thread stopped for the last time, a session gone, a process at its
end. The queue's runs check it; elsewhere a circle of waits shows as a violation
of `StopReturns`, `DestructionEnds`, `NoCircularWait` or `TeardownEnds`.

`SessionSettled` says what `~session()` leaves behind, which is not nothing. After
the release the spotify thread has no event processing, search or release of the
session's left, but it may have queries and plays of slots that still run,
because `cb_thread` is stopped last, and notifications. After `~session()` it may
have plays of the last slots and notifications that came after the release.
Frames on the audio thread may be run after `~session()`, too (FIXME at
`session.cc:260`); they are `Engine`'s. Nothing in the code prevents either.

`PlaysInTime` is about the owner: what it plays is run before the release, so a
player destroyed after its session leaves no play behind. A player destroyed
before its session leaves the plays that wait, and they read `session_` through a
`this` that is gone (`player.h:23`); this is the order of
`tests/engine/session.cc:141,165`, and nothing in the code rules it out. Such a
play is taken to find what it finds there, and is run before the release like the
others. The players that slots have, or the owner's player when a slot has a
reference to it (as in `tests/engine/session.cc:166`), are not followed: a slot's
play may come after the release.

### Disagreements with the repository's own words

- A `get()` or `wait()` can miss the wakeup of `make_ready()` and sleep forever
  (`GetReturns`; `base/detail/task.h:79`). Taking `wait_mutex_` around the store
  would close the window.
- `cancel()` wakes nobody (`CancelReleasesWaiters`; `base/detail/task.h:100`).
- A `cancel()` that returned true can be overwritten by `~task()`
  (`CancelIsFinal`; `base/task.h:122`).
- A deadline read through a dangling reference may keep a consumer asleep
  (`EveryTaskTaken`; `base/task_queue.cc:31`). A copy of the time point would do.
- A failed `sp_session_create()` destroys a running `cb_thread`
  (`CbThreadStopped`; `engine/session.cc:73`).
- `search()` hands a pointer into its argument to another thread
  (`QueryIntact`; `engine/session.cc:182`).

## Fairness

- `Task`: threads keep running, a callable returns, and the owner destroys the
  task in the end. Nobody has to invoke the task, acquire the handle or call
  anything on it; spurious wakeups need not come.
- `TaskQueue`: time passes up to the bound, and each consumer keeps calling
  `wait_and_pop()`, as `message_loop::exec()` does. Pushes need not complete.
- `BaseThread`: time passes, a call the owner has begun goes on when it can, the
  platform thread runs. Nobody has to start, stop or post. That the platform
  thread takes the tasks that are due is the liveness of `DelayQueue`, and
  `TaskQueue` has it only on the condition the run `task_queue` states: the memory
  a dangling deadline refers to (`Garbage`) shows no time that never comes. The run
  `task_queue_dangling` shows what happens otherwise. `StopReturns`, `TaskSettles`
  and the liveness half of `IsWorker` rest on that condition, and so do the
  liveness properties of `Session` and `Engine`, whose threads are `Worker`s.
- `WaitableEvent`: a thread that has left the condition variable goes on, and a
  `signal()` that has set the flag notifies. Nobody has to call anything.
- `Session`: calls return unless asleep in a `get()`, the spotify thread and `cb_thread` run their tasks, a
  `notify_main_thread()` under way assigns its handle. Strong fairness of
  running a `process_events()` says that delays end: a task whose due time has
  passed is before all later ones in the heap. Nobody has to begin the
  destruction, libspotify need not call back, and nothing wakes a `get()` that
  missed its wakeup: spurious wakeups have no fairness.
- `Engine`: the three threads run, a task or a slot returns when it need not
  wait, and the owner goes on with what it has begun: each is the fairness of
  `Worker`, which `BaseThread` implements. Nobody has to destroy the session or
  end the program, slots need not post anything, libspotify need not call
  back, and nothing wakes a `get()` that missed its wakeup.

## Proofs

TLAPS checks every step of `TaskProofs`, `TaskQueueProofs`, `WorkerProofs`,
`BaseThreadProofs`, `WaitableEventProofs`, `SessionProofs`, `EngineProofs` and
`EngineProgress`. They assume what the modules assume of their constants
(`TaskAssumption`, `TaskQueueAssumption`, `BaseThreadAssumption`,
`WaitableEventAssumption`, `SessionAssumption`, `EngineAssumption`) and nothing
else, but for `OnlyFailureLeavesCb`, which assumes `~MayFail`; the sets of calls,
tasks, consumers, stops, searches and plays may be of any size (finite for the
resets and signals, which are counted). Each module proves that an invariant
(`IInv`, `WorkerInv`) holds initially and is kept by every action, and that it
implies the properties.

The layers fit together for safety by proof: `TaskQueue` implements `DelayQueue`
(`Refinement`), `BaseThread` takes only steps of a `DelayQueue` on its queue
(`QueueIsUsed`) and implements `Worker` (`Refinement`), and `Engine` takes only
steps of a `Worker` on each of its threads (`Composition`). What is proved of any
`Worker` therefore holds of each `base::thread`, and of the three of the engine.

**Task.** The properties speak of what a reader finds at the end, while the
reason lies in the order in which the winning invocation has stored the result,
posted the continuation and published the state; none is inductive. `IInv` is
`TypeOK` with four layers, each kept relative to those before it:

1. `ClaimInv`: at most one invocation is past `mark_running()`, and `state_` and
   the task object agree with where it is;
2. `GetInv`: what a `get()` has seen of `state_` at each of its steps;
3. `RunInv`: what the invocation (`WriteInv`) and the destructor or a `cancel()`
   (`OverInv`) have written at each of theirs;
4. `UserInv`: what callers were told (`OutcomeIsTrue`, `AlreadyCalledIsTrue`).

The theorems are `TypeCorrect`, `OutcomeTrue`, `CancelWins`, `OutcomePresent`,
`ContinuationFirst` and `AlreadyCalledTrue`. `ResultTakenOnce` adds `InsideInv`:
whoever is inside a call has the shared state, and a `get()` that returned the
result has released it. `CancelIsFinal` fails (run `task_cancel_destroy`);
`CancelledOrNotRun` says what is left of it: after a successful `cancel()` a
`get()` reports `cancelled`, or `not_run` once the destructor was entered, and
never a value.

**TaskQueue.** `PushInv` ties the queue and `taken` to the place of each push,
keeps the two apart and the queue finite; from it follow `TypeCorrect`
(the queue fits its buffer) and `TakenAtMostOnce`. `WakeInv` adds to
`NothingOverlooked` that a task due when it was pushed stays due: a consumer
that goes to sleep on a queue with such a task sleeps until a time that has
passed (`NoWakeupLost`). `SleeperGetsTask` is the action property
`SleepReturnsTask`. `Refinement` is the step simulation: initial states map
to initial states, and each step to a step or a stutter of `DelayQueue` (a
return of `wait_and_pop()` to `Take`, whatever a dangling reference showed).

**Worker.** `WorkerInv` says that `ahead` relates waiting tasks only, that it is
well-founded, and that runs are owed only while the thread is being stopped. A
post puts a task behind tasks that wait, never before one. So among any tasks
that wait one is next (`SomebodyIsNext`; the set of tasks need not be finite).
`BehindIsLater`, `OwedIsPaid` and `OutcomeIsFinal` follow tasks over time, as
formulas `[](P => []Q)`: a task is not run before those it was posted behind;
what a `stop()` owes is run when the thread is gone; what was run or dropped
stays so.

**BaseThread.** `LoopInv` says how the loop, `active_` and the batch go together;
`StartInv`, that only a `stop()` ends a loop and only a thread that was started
before finds the event signaled; `StopInv`, that one stop task is on its way at
a time, while its caller waits, and none is left when its loop is over;
`SettleInv`, that a task posted before the `stop()` is taken with the stop task
or before, unless it is due later. `OrderInv` says that an earlier due task is
taken no later than one posted after it. The theorems are `TypeCorrect`,
`LoopIsFresh`, `StartWaits`, `StopHasSettled` and `OrderKept`. `Refinement` maps
every step to a step or a stutter of `Worker`. It needs `StampInv` besides: the
time of a stop task on its way is the time it was built, which tells the tasks
that are owed a run from those that may be dropped. `QueueIsUsed` is the other
side: every step is a step or a stutter of `DelayQueue`.

`WayInv` follows the owner through `start()` and `stop()`: where its task is at each
step, and that the task is due at once. From it follow `StopEndsWithBatch` (the
first batch taken after the stop task was pushed contains it, and the loop takes
none after it before `stop()` returns) and `OwnerNotStuck` (whoever the owner waits
for has something to do; the task that is run next exists by the minimum of the
due times, `Smallest`). They are the safety half of `StopReturns`.

**WaitableEvent.** `TypeOK`, `SignalTakenOnce` and `NobodyStranded` are inductive
together: a reset takes the one signal that was counted for nobody, and a
notification either wakes a sleeper or finds none. The theorems are
`TypeCorrect`, `SignalNotShared` and `OneIsEnough`.

**Session.** `OnePump` is not inductive: whether the chain goes on depends on
where the owner is, which of its tasks wait and in which order. `IInv` is
`TypeOK` with

1. `QueueInv`: no task is queued twice, and the tasks `cancel_events` and
   `cancel_notify` are behind what was posted before them;
2. `WhereInv`: where the owner is while each of its tasks is queued, and what has
   become of a search whose task or slot is about;
3. `LifeInv`: which session of libspotify there is then, and that `cb_thread`
   runs from the constructor to the end;
4. `PumpInv`: an uncancelled `process_events()` is the one of the handle, and
   between its start and its cancellation it waits or runs;
5. `NotifyInv`: no notification made before the release is left when
   `cancel_notify` was run.

The spotify thread runs undelayed tasks in the order posted, so a task of the
owner's that runs has none of those left before it (`LastBefore`): the boot of
the chain when the chain is cancelled, the notifications when the last handle
is. The proof shows by the way that `nmh` never belongs to a waiting task when
`cancel_notify` runs: that cancellation never has anything to do as long as
notifications are undelayed. The theorems are `TypeCorrect`, `ChainIsOne`,
`WhatIsLeft`, `CallbacksFindThread` and `NotificationHeard`. `CbThreadStopped` fails
when the creation does (run `session_create_fails`); `OnlyFailureLeavesCb` proves it
under `~MayFail`, so nothing else leads to the assertion of `~thread`.

**Engine.** The properties relate three threads and the owner, and none is
inductive, `TypeOK` included, which says that no thread is left running before the
first `get_thread()` or after the static destruction. `IInv` is `TypeOK` with seven
layers:

1. `PhaseInv`: how far each thread is for where the owner is;
2. `OwnInv`: which of the owner's tasks were posted and run by then;
3. `KindInv`: no task of the engine is delayed or dropped;
4. `SlotInv`: a slot is in progress while its task is not run yet; only an actor
   in a slot, or the owner in its own code, waits for a query, and only they, or
   the owner in `session()` or `~session()`, are asleep;
5. `NothingDropped`: what is left on a stopping thread is owed a run;
6. `CopyInv`: a response that is asked has a holder, and a search is released
   when it failed or has no holder left;
7. `BehindInv`: what `ahead` says of the tasks of one actor and of the frames.

The argument for `NothingDropped` is the order of the teardown: nobody posts to
`cb_thread` after the task `cancel_events` was run, the audio thread gets no
frame after the release, and the spotify thread is stopped last, when the slots
of the other two are over. The theorems are `TypeCorrect`, `ThreadFound`,
`AllIsRun`, `SearchFound`, `PlayedInTime`, `FramesKeepOrder` and `LastReleases`;
`ReleasedOnce` says of `LastReleases` that no step releases a search again.

**Engine, who waits for whom.** `NoCircularWait` says of every wait in the engine (the
`get()` of `query()` and `track()`, the tasks `session()` and `~session()` wait for,
the joins of the two teardowns) that the thread waited for has a task it can run
now, or waits itself for the spotify thread, whose tasks wait for nobody; the one
exception is an actor that is asleep though its task was run. Its proof
takes `SomebodyIsNext` of each thread from `WorkerProofs`, through `Composition`
(`NextTaskInv`), adds that a slot in progress is the next task of its thread
(`TurnInv`), and shows with `IInv` that what is waited for is among what waits
there. The guards of `NoCircularWait` restate those of `BeginSlot`, `EndSlot`,
`FreeTask`, `BeginFrame`, `EndFrame` and `Run`, since ENABLED cannot be proved
about; on the instance of the run TLC finds them equal to ENABLED of `SpotifyThread`,
`AudioThread` and `CbThread`. With the fairness of those three it is the reason
why `TeardownEnds` holds, which is checked and not proved. `ActorsKeepOrder` is
`BehindIsLater` for what one actor posts to the spotify thread, whatever others
post in between.

Model-checked only: every liveness property (`SleeperWoken`, `StopReturns`,
`TaskSettles`, `SignalIsSeen`, `DestructionEnds`, `EventsKeepComing`, `TeardownEnds`),
and the liveness halves of `IsDelayQueue` and `IsWorker`: liveness and ENABLED are
beyond the proof system. Every safety property of a passing run is proved.

## Not modelled, and why

- `configuration_element`: `session()` ignores the configuration it is given
  and nothing assigns one, so its listeners are never called in this program;
  that two assignments may notify in the other order is left to a later module.
- `request_map` is used by nothing. `cancellation_token.h` is included nowhere
  and does not compile on its own, and its copy assignment calls itself.
  `scoped_thread` tests its argument after having moved from it.
- Continuations: one is modelled (`post_continuation` of `Task`), chains of them
  are not.
- The main thread of `global_thread_manager` gets no tasks from the code.
- Memory: lifetimes appear where code outside a destructor relies on them
  (`query`, `valid`, `object`, `dangling`, `holders`). Allocation failure does not.
  A player that plays when its session is gone, a play that runs when its player
  is gone, and a frame that runs after `~session()` and calls a signal that is
  gone, are undefined behaviour that nothing in the code rules out. `Engine` lets
  the owner play only while the session lives, has the owner's player destroyed
  before or after the session (`orphans`), and lets a frame's slot run whenever
  its thread does.
- A slot may call `search()`, too: neither `Session` nor `Engine` has it.
- `process_events()` is cancelled by `~session()` but stays in the queue until it
  is due; the `stop()` of the spotify thread at static destruction may drop it
  instead of skipping it. `Engine` leaves it out: a cancelled task does nothing
  either way, and nobody waits for it.
- Exceptions out of a bare callable, `get()` on the own thread, `stop()` on the
  own thread (it joins itself): the process ends or the caller errs. An idle
  loop spins, because the predicate of `wait_and_pop()` is inverted: it costs
  time and changes no state.
- Two posts of one actor between which the clock does not advance: the heap may
  then swap them, and the results that rest on the order of undelayed tasks
  (`Session`, `Engine`) are for a clock that does.
- `callable`, `log`, `exception`, `track`, empty headers, the PulseAudio example,
  build files: no state of interest.

## Plan

In the order of what the system depends on most:

1. `Task`, `TaskProofs` (done).
2. `DelayQueue`, `TaskQueue`, `TaskQueueProofs` (done).
3. `BaseThread`, `BaseThreadProofs` (done), over `DelayQueue` (proved).
4. `Session`, `SessionProofs` (done), over what 1 and 3 show.
5. `WaitableEvent`, `WaitableEventProofs` (done); open: the start event of
   `BaseThread` as its client.
6. `Worker`, `WorkerProofs`, which `BaseThread` implements (done, with its proof).
7. `Engine`, `EngineProofs`, `EngineProgress` (done), composed from three `Worker`s.
8. `Continuation`: a chain of tasks over a `Worker` that may stop; every link
   runs once and in order, or its handle reports `not_run`.
9. `ConfigurationElement` and `RequestMap`: listeners against values, and the
   wrap of `next_id` at a small width.
