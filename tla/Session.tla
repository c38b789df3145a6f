------------------------------ MODULE Session -------------------------------
(***************************************************************************)
(* engine::session (engine/session.cc): the owner that constructs, uses    *)
(* and destroys it, the tasks it runs on the spotify thread, the callback  *)
(* thread cb_thread, and libspotify, which is external: it calls back from *)
(* inside sp_session_process_events() and, for notify_main_thread, from a  *)
(* thread of its own.                                                      *)
(*                                                                         *)
(* The two base::threads appear by what BaseThread and Task show of them.  *)
(* The spotify thread runs the tasks of q one at a time, skips those that  *)
(* are cancelled, and runs tasks without delay in the order of their due   *)
(* times, which is the order they were posted in unless the clock did not  *)
(* advance between two posts; a delayed task may come at any time, but not *)
(* before a task that was posted undelayed ahead of it.  cb_thread.stop()  *)
(* returns after everything posted to cb_thread before it was run.         *)
(*                                                                         *)
(* A get() whose task has been run may sleep on: the notification of       *)
(* make_ready() is lost between the test and the block of the wait (Task,  *)
(* GetReturns).  ~session() and the slots of search_completed call get().  *)
(*                                                                         *)
(* sp_session_release() is taken to end the callbacks of event processing  *)
(* but not notify_main_thread(), of which the comment in ~session() doubts *)
(* it: one may be under way, and more may come until the session is gone.  *)
(***************************************************************************)
EXTENDS Naturals, SequencesExt

CONSTANTS
  Searches,    \* the calls of search()
  MaxNotifies, \* bound: how often libspotify calls notify_main_thread()
  MayFail      \* whether sp_session_create() may fail

\* cbq holds searches and the one name for the other callbacks.
ASSUME SessionAssumption ==
  MaxNotifies \in Nat /\ MayFail \in BOOLEAN /\ "logged_in_or_out" \notin Searches

VARIABLES
  life,       \* where the owner is in session() or ~session()
  asleep,     \* whose get() has missed its wakeup: the owner's, cb_thread's
  spSession,  \* what session_ points to
  q,          \* the tasks on the spotify thread's queue, in the order posted
  running,    \* what the spotify thread is inside of
  cancelled,  \* the tasks of q whose shared state is cancelled
  peh,        \* process_events_handle_: the task it belongs to
  nmh,        \* notify_main_thread_handle_: likewise
  notifying,  \* the task a notify_main_thread() has posted, its handle unassigned
  notifies,   \* how often it was called
  late,       \* history: the notifications made after the release
  cb,         \* cb_thread, stopped or running
  cbq,        \* what is posted to cb_thread
  slot,       \* the search (a set of one) whose slot cb_thread is in
  search,     \* what has become of each search
  query,      \* the searches whose request, with the query string, still exists
  garbled     \* history: the searches made with a query that did not exist

pumpVars == <<q, running, cancelled, peh>>
notifyVars == <<nmh, notifying, notifies, late>>
cbVars == <<cb, cbq, slot>>
searchVars == <<search, query, garbled>>
vars == <<life, asleep, spSession, pumpVars, notifyVars, cbVars, searchVars>>

\* A task: its function, a number that tells tasks of one function apart, and
\* whether it was posted with a delay.
Task(f, n, d) == [fun |-> f, num |-> n, delayed |-> d]
Now(f) == Task(f, 0, FALSE)
Invalid == Now("nothing")   \* a handle without a shared state

PumpTasks == [fun : {"process_events"}, num : 1..(MaxNotifies + 2), delayed : BOOLEAN]
NotifyTasks == [fun : {"notify_main_thread"}, num : 1..MaxNotifies, delayed : {FALSE}]
SearchTasks == [fun : {"search_create", "query"}, num : Searches, delayed : {FALSE}]
OwnTasks == {Now(f) : f \in {"create_session", "boot", "cancel_events", "release",
                             "cancel_notify", "log_in_or_out"}}
Tasks == PumpTasks \cup NotifyTasks \cup SearchTasks \cup OwnTasks

TypeOK ==
  /\ life \in {"none", "creating", "alive", "cancelling_events", "releasing",
               "cancelling_notify", "stopping", "dead", "failed"}
  /\ asleep \subseteq {"owner", "cb"}
  /\ spSession \in {"none", "live", "released", "failed"}
  /\ q \in Seq(Tasks)
  /\ running \in {"none", "creating", "events", "once"}
  /\ cancelled \subseteq ToSet(q)
  /\ peh \in PumpTasks \cup {Invalid} /\ nmh \in NotifyTasks \cup {Invalid}
  /\ notifying \in NotifyTasks \cup {Invalid} /\ notifies \in 0..MaxNotifies
  /\ late \subseteq NotifyTasks
  /\ cb \in {"stopped", "running"}
  /\ cbq \subseteq {"logged_in_or_out"} \cup Searches
  /\ slot \subseteq Searches
  /\ search \in [Searches -> {"idle", "posted", "created", "delivered", "released"}]
  /\ query \subseteq Searches /\ garbled \subseteq Searches

Init ==
  /\ life = "none" /\ asleep = {} /\ spSession = "none"
  /\ q = <<>> /\ running = "none" /\ cancelled = {} /\ peh = Invalid
  /\ nmh = Invalid /\ notifying = Invalid /\ notifies = 0 /\ late = {}
  /\ cb = "stopped" /\ cbq = {} /\ slot = {}
  /\ search = [s \in Searches |-> "idle"] /\ query = {} /\ garbled = {}

Queued == ToSet(q)
Live == Queued \ cancelled
post(t) == q' = Append(q, t)
Posted(f) == \E t \in Queued : t.fun = f

\* task_handle::cancel(): succeeds if the task waits and is not cancelled yet.
Cancellable(h) == h \in Live

\* make_ready() of a task for which a get() waits: the get() may miss it.
MakeReady(who) == asleep' \in {asleep, asleep \cup {who}}

SpuriousWakeup(who) ==
  /\ who \in asleep /\ asleep' = asleep \ {who}
  /\ UNCHANGED <<life, spSession, pumpVars, notifyVars, cbVars, searchVars>>

(***************************************************************************)
(* The owner: session(), the public operations, ~session().  A call that   *)
(* posts a task and waits for it is an action that posts and one that is   *)
(* enabled when the task was run.                                          *)
(***************************************************************************)
\* Mutant: cb_thread is started by whoever needs it first.
Construct_CbLater ==
  /\ life = "none" /\ life' = "creating" /\ post(Now("create_session"))
  /\ UNCHANGED <<asleep, spSession, running, cancelled, peh, notifyVars, cbVars, searchVars>>

Construct ==
  /\ life = "none" /\ life' = "creating"
  /\ cb' = "running" /\ post(Now("create_session"))
  /\ UNCHANGED <<asleep, spSession, running, cancelled, peh, notifyVars, cbq, slot, searchVars>>

\* A get() that overslept its task returns when the wait wakes up for no reason.
Created ==
  /\ life = "creating" /\ spSession = "live" /\ "owner" \notin asleep
  /\ life' = "alive" /\ post(Now("boot"))
  /\ UNCHANGED <<asleep, spSession, running, cancelled, peh, notifyVars, cbVars, searchVars>>

\* get() throws out of the constructor, which destroys the members, cb_thread too:
\* whatever happens after that happens to a process that std::terminate has ended.
CreationThrows ==
  /\ life = "creating" /\ spSession = "failed" /\ "owner" \notin asleep
  /\ life' = "failed"
  /\ UNCHANGED <<asleep, spSession, pumpVars, notifyVars, cbVars, searchVars>>

\* log_in(), log_out() and play() of a player: a task that only calls libspotify, by
\* whoever it is posted.  One waits at a time.
PostLogInOrOut == ~Posted("log_in_or_out") /\ post(Now("log_in_or_out"))

LogInOrOut ==
  /\ life = "alive" /\ query = {} /\ PostLogInOrOut
  /\ UNCHANGED <<life, asleep, spSession, running, cancelled, peh, notifyVars, cbVars,
                 searchVars>>

\* search() binds the c_str() of its argument, which dies when it returns.
StartSearch(s) ==
  /\ life = "alive" /\ query = {} /\ search[s] = "idle"
  /\ search' = [search EXCEPT ![s] = "posted"] /\ query' = {s}
  /\ post(Task("search_create", s, FALSE))
  /\ UNCHANGED <<life, asleep, spSession, running, cancelled, peh, notifyVars, cbVars, garbled>>

EndSearch(s) ==
  /\ s \in query /\ query' = query \ {s}
  /\ UNCHANGED <<life, asleep, spSession, pumpVars, notifyVars, cbVars, search, garbled>>

\* ~session(): three tasks, each waited for with get(), then cb_thread.stop().
NextTask(f) == /\ post(Now(f))
               /\ UNCHANGED <<running, cancelled, peh>>

Returned(f) == ~Posted(f) /\ "owner" \notin asleep

Destruct ==
  /\ \/ life = "alive" /\ query = {} /\ life' = "cancelling_events"
        /\ NextTask("cancel_events")
     \/ life = "cancelling_events" /\ Returned("cancel_events") /\ life' = "releasing"
        /\ NextTask("release")
     \/ life = "releasing" /\ Returned("release") /\ life' = "cancelling_notify"
        /\ NextTask("cancel_notify")
     \/ life = "cancelling_notify" /\ Returned("cancel_notify") /\ life' = "stopping"
        /\ UNCHANGED pumpVars
  /\ UNCHANGED <<asleep, spSession, notifyVars, cbVars, searchVars>>

CbStopped ==
  /\ life = "stopping" /\ cbq = {} /\ slot = {}
  /\ life' = "dead" /\ cb' = "stopped"
  /\ UNCHANGED <<asleep, spSession, pumpVars, notifyVars, cbq, slot, searchVars>>

(***************************************************************************)
(* The spotify thread.                                                     *)
(***************************************************************************)

\* The i-th task may be the next to run.
Runnable(i) == running = "none" /\ \A j \in 1..(i - 1) : q[j].delayed

\* The queue without its i-th task.
Pop(i) == RemoveAt(q, i)

Skip(i) ==
  /\ Runnable(i) /\ q[i] \in cancelled
  /\ q' = Pop(i) /\ cancelled' = cancelled \ {q[i]}
  /\ UNCHANGED <<life, asleep, spSession, running, peh, notifyVars, cbVars, searchVars>>

Run(i, f) == Runnable(i) /\ q[i] \notin cancelled /\ q[i].fun = f

RunCreate(i) ==
  /\ Run(i, "create_session") /\ q' = Pop(i) /\ running' = "creating"
  /\ UNCHANGED <<life, asleep, spSession, cancelled, peh, notifyVars, cbVars, searchVars>>

EndCreate ==
  /\ running = "creating" /\ running' = "none"
  /\ \/ spSession' = "live"
     \/ MayFail /\ spSession' = "failed"
  /\ MakeReady("owner")
  /\ UNCHANGED <<life, q, cancelled, peh, notifyVars, cbVars, searchVars>>

\* post_task_with_handle() of the next process_events(), a task whose number is free.
Repost(rest, d) ==
  LET free == {n \in 1..(MaxNotifies + 2) :
                 /\ peh.num # n
                 /\ \A u \in ToSet(rest) : u.fun = "process_events" => u.num # n}
  IN  \E n \in free :
        /\ \A m \in free : n <= m
        /\ peh' = Task("process_events", n, d) /\ q' = Append(rest, peh')

\* The first process_events() is posted by a task of its own, on this thread.
RunBoot(i) ==
  /\ Run(i, "boot") /\ Repost(Pop(i), FALSE)
  /\ UNCHANGED <<life, asleep, spSession, running, cancelled, notifyVars, cbVars, searchVars>>

RunEvents(i) ==
  /\ Run(i, "process_events") /\ q' = Pop(i) /\ running' = "events"
  /\ UNCHANGED <<life, asleep, spSession, cancelled, peh, notifyVars, cbVars, searchVars>>

\* Mutants: the next process_events() is posted without a handle; or not at all.
EndEvents_NoHandle ==
  /\ running = "events" /\ running' = "none" /\ UNCHANGED peh
  /\ \E t \in PumpTasks \ (Queued \cup {peh}) : post(t)
  /\ UNCHANGED <<life, asleep, spSession, cancelled, notifyVars, cbVars, searchVars>>
EndEvents_NoRepost ==
  /\ running = "events" /\ running' = "none"
  /\ UNCHANGED <<life, asleep, spSession, q, cancelled, peh, notifyVars, cbVars, searchVars>>

\* sp_session_process_events() has returned with the timeout for the next call.
EndEvents ==
  /\ running = "events" /\ running' = "none" /\ Repost(q, TRUE)
  /\ UNCHANGED <<life, asleep, spSession, cancelled, notifyVars, cbVars, searchVars>>

EndOnce ==
  /\ running = "once" /\ running' = "none"
  /\ UNCHANGED <<life, asleep, spSession, q, cancelled, peh, notifyVars, cbVars, searchVars>>

\* Mutant: process events now and leave the waiting process_events() where it is.
RunNotify_Forks(i) ==
  /\ Run(i, "notify_main_thread") /\ q' = Pop(i)
  /\ running' = IF peh = Invalid THEN "once" ELSE "events"
  /\ UNCHANGED <<life, asleep, spSession, cancelled, peh, notifyVars, cbVars, searchVars>>

\* notify_main_thread(): replace the waiting process_events() by a call now; before
\* there is one, process events once.
RunNotify(i) ==
  /\ Run(i, "notify_main_thread") /\ q' = Pop(i)
  /\ \/ peh = Invalid /\ running' = "once" /\ UNCHANGED cancelled
     \/ Cancellable(peh) /\ cancelled' = cancelled \cup {peh} /\ running' = "events"
     \/ peh # Invalid /\ ~Cancellable(peh) /\ UNCHANGED <<cancelled, running>>
  /\ UNCHANGED <<life, asleep, spSession, peh, notifyVars, cbVars, searchVars>>

RunClient(i) ==
  /\ Run(i, "log_in_or_out") /\ q' = Pop(i)
  /\ UNCHANGED <<life, asleep, spSession, running, cancelled, peh, notifyVars, cbVars,
                 searchVars>>

\* What a slot asks of a response, and waits for.
RunQuery(i) ==
  /\ Run(i, "query") /\ q' = Pop(i) /\ MakeReady("cb")
  /\ UNCHANGED <<life, spSession, running, cancelled, peh, notifyVars, cbVars, searchVars>>

RunSearch(i) ==
  /\ Run(i, "search_create") /\ q' = Pop(i)
  /\ search' = [search EXCEPT ![q[i].num] = "created"]
  /\ garbled' = garbled \cup ({q[i].num} \ query)
  /\ UNCHANGED <<life, asleep, spSession, running, cancelled, peh, notifyVars, cbVars, query>>

\* Mutant: cancel() of whatever the handle is of.
CancelWaiting_Unchecked(h, i) == cancelled' = cancelled \cup {h} /\ q' = Pop(i)

CancelWaiting(h, i) ==
  /\ cancelled' = IF Cancellable(h) THEN cancelled \cup {h} ELSE cancelled
  /\ q' = Pop(i)

\* Mutant: process_events() is not cancelled.
RunCancelEvents_Nothing(i) ==
  /\ Run(i, "cancel_events") /\ q' = Pop(i) /\ MakeReady("owner")
  /\ UNCHANGED <<life, spSession, running, cancelled, peh, notifyVars, cbVars, searchVars>>

RunCancelEvents(i) ==
  /\ Run(i, "cancel_events") /\ CancelWaiting(peh, i) /\ MakeReady("owner")
  /\ UNCHANGED <<life, spSession, running, peh, notifyVars, cbVars, searchVars>>

\* Mutant: cb_thread.stop() is called in the last task, not after it.
RunCancelNotify_StopsCb(i) ==
  /\ Run(i, "cancel_notify") /\ cbq = {} /\ slot = {} /\ CancelWaiting(nmh, i)
  /\ MakeReady("owner")
  /\ UNCHANGED <<life, spSession, running, peh, notifyVars, cbVars, searchVars>>

RunCancelNotify(i) ==
  /\ Run(i, "cancel_notify") /\ CancelWaiting(nmh, i) /\ MakeReady("owner")
  /\ UNCHANGED <<life, spSession, running, peh, notifyVars, cbVars, searchVars>>

RunRelease(i) ==
  /\ Run(i, "release") /\ q' = Pop(i) /\ spSession' = "released" /\ MakeReady("owner")
  /\ UNCHANGED <<life, running, cancelled, peh, notifyVars, cbVars, searchVars>>

RunTask(i) ==
  \/ Skip(i) \/ RunCreate(i) \/ RunBoot(i) \/ RunEvents(i) \/ RunNotify(i)
  \/ RunClient(i) \/ RunQuery(i) \/ RunSearch(i)
  \/ RunCancelEvents(i) \/ RunRelease(i) \/ RunCancelNotify(i)

SpotifyThread == EndCreate \/ EndEvents \/ EndOnce \/ \E i \in DOMAIN q : RunTask(i)

(***************************************************************************)
(* libspotify.                                                             *)
(***************************************************************************)

\* The static notify_main_thread(): post the task, then keep its handle, over the
\* one of the notification before.
Notify ==
  /\ (spSession \in {"live", "released"} /\ life # "dead") \/ running = "creating"
  /\ notifying = Invalid /\ notifies < MaxNotifies /\ notifies' = notifies + 1
  /\ notifying' = Task("notify_main_thread", notifies', FALSE) /\ post(notifying')
  /\ late' = IF spSession = "released" THEN late \cup {notifying'} ELSE late
  /\ UNCHANGED <<life, asleep, spSession, running, cancelled, peh, nmh, cbVars, searchVars>>

KeepHandle ==
  /\ notifying # Invalid /\ nmh' = notifying /\ notifying' = Invalid
  /\ UNCHANGED <<life, asleep, spSession, pumpVars, notifies, late, cbVars, searchVars>>

InEvents == running \in {"events", "once"}

\* logged_in(), logged_out().  One of them waits at cb_thread at a time.
LoggedInOrOut ==
  /\ InEvents /\ cb = "running" /\ "logged_in_or_out" \notin cbq
  /\ cbq' = cbq \cup {"logged_in_or_out"}
  /\ UNCHANGED <<life, asleep, spSession, pumpVars, notifyVars, cb, slot, searchVars>>

\* search_completed(): release a failed search, or pass it on, owned by the task.
SearchCompleted(s) ==
  /\ InEvents /\ search[s] = "created"
  /\ \/ search' = [search EXCEPT ![s] = "released"] /\ UNCHANGED cbq
     \/ cb = "running" /\ search' = [search EXCEPT ![s] = "delivered"]
        /\ cbq' = cbq \cup {s}
  /\ UNCHANGED <<life, asleep, spSession, pumpVars, notifyVars, cb, slot, query, garbled>>

(***************************************************************************)
(* cb_thread: the slots of the signals.  A slot of search_completed may    *)
(* ask the response for its query or for a track, which waits for the      *)
(* spotify thread; the search is released with the last copy of the        *)
(* response.  Any slot may call play(), log_in() or log_out().             *)
(***************************************************************************)
SlotPosts == UNCHANGED q \/ PostLogInOrOut

LoginSlot ==
  /\ slot = {} /\ "logged_in_or_out" \in cbq /\ cbq' = cbq \ {"logged_in_or_out"}
  /\ SlotPosts
  /\ UNCHANGED <<life, asleep, spSession, running, cancelled, peh, notifyVars, cb, slot,
                 searchVars>>

SearchSlot(s) ==
  /\ slot = {} /\ s \in cbq /\ cbq' = cbq \ {s} /\ slot' = {s}
  /\ \/ post(Task("query", s, FALSE))
     \/ UNCHANGED q
  /\ UNCHANGED <<life, asleep, spSession, running, cancelled, peh, notifyVars, cb, searchVars>>

EndSlot ==
  /\ slot # {} /\ \A s \in slot : Task("query", s, FALSE) \notin Queued
  /\ "cb" \notin asleep /\ SlotPosts
  /\ slot' = {} /\ search' = [s \in Searches |-> IF s \in slot THEN "released" ELSE search[s]]
  /\ UNCHANGED <<life, asleep, spSession, running, cancelled, peh, notifyVars, cb, cbq, query,
                 garbled>>

CbThread == EndSlot \/ LoginSlot \/ \E s \in Searches : SearchSlot(s)

Owner == Created \/ CreationThrows \/ (Destruct /\ life # "alive") \/ CbStopped

Next ==
  \/ Construct \/ Created \/ CreationThrows \/ Destruct \/ CbStopped
  \/ LogInOrOut \/ SpotifyThread \/ Notify \/ KeepHandle \/ LoggedInOrOut \/ CbThread
  \/ \E s \in Searches : StartSearch(s) \/ EndSearch(s) \/ SearchCompleted(s)
  \/ \E who \in {"owner", "cb"} : SpuriousWakeup(who)

Spec == Init /\ [][Next]_vars

\* The threads run and take the tasks that are due, calls return unless asleep, and
\* delays end: a task whose due time has passed is due before every task posted
\* since, so a process_events() that may be next again and again is next.  Nobody has
\* to construct the session, use it or begin to destroy it, libspotify need not call
\* back, and nothing wakes a get() that missed its wakeup.
FairSpec ==
  /\ Spec /\ WF_vars(Owner) /\ WF_vars(SpotifyThread) /\ WF_vars(KeepHandle)
  /\ SF_vars(\E i \in DOMAIN q : RunEvents(i))
  /\ WF_vars(CbThread) /\ \A s \in Searches : WF_vars(EndSearch(s))
-----------------------------------------------------------------------------
(***************************************************************************)
(* Properties.                                                             *)
(***************************************************************************)

\* Event processing forms one chain: between its start and its cancellation exactly
\* one process_events() waits uncancelled or runs, and the handle is that of the one
\* that waits; notifications and reposts neither fork the chain nor drop it.
OnePump ==
  LET waiting == Live \cap PumpTasks
      Pumping == ~Posted("create_session") /\ ~Posted("boot") /\ life = "alive"
  IN  /\ running = "events" => waiting = {}
      /\ \A t \in waiting : waiting = {t} /\ peh = t
      /\ Pumping => waiting # {} \/ running = "events"

\* What ~session() leaves behind: after the release no event is processed, no search
\* made and no further release waits on the spotify thread, only what slots that still
\* run have asked for and notifications; after ~session() nothing of the session's is
\* left on either thread but play()s of its last slots and notifications libspotify
\* made after the release, which the comment in ~session() hopes away.  (Frames on the
\* audio thread are Engine's.)
SessionSettled ==
  /\ spSession = "released" =>
       /\ running = "none"
       /\ \A t \in Live :
            t.fun \in {"notify_main_thread", "cancel_notify", "query", "log_in_or_out"}
  /\ life = "dead" =>
       /\ \A t \in Live : t = Now("log_in_or_out") \/ t \in late
       /\ cbq = {} /\ slot = {}

\* A notification is acted on at once: the task finds a process_events() to replace
\* unless ~session() has cancelled it (the comment in notify_main_thread()).
NotifyHeard ==
  [][\A i \in DOMAIN q :
       RunNotify(i) /\ (life = "alive" \/ Posted("cancel_events")) => InEvents']_vars

\* The callbacks that post to cb_thread find it running (the assertion in
\* base::thread::post_task).
CallbacksHaveThread == InEvents \/ running = "creating" => cb = "running"

\* The owner does not wait forever in ~session(), whatever is still in flight and
\* whatever slots ask of the spotify thread, unless a get(), its own or that of a slot,
\* sleeps forever after its task was run (Task, GetReturns).
DestructionEnds ==
  []<>(asleep = {}) => ((life = "cancelling_events") ~> (life = "dead"))

\* While the session is not destroyed events are processed again and again.
EventsKeepComing == (life = "alive") ~> (InEvents \/ life # "alive")

\* cb_thread is stopped before it is destroyed (the assertion in base::~thread).
CbThreadStopped == life \in {"dead", "failed"} => cb = "stopped"

\* A search is made with the query of its request (tests/engine/session.cc).
QueryIntact == garbled = {}
=============================================================================
