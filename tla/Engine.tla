------------------------------- MODULE Engine -------------------------------
(***************************************************************************)
(* The threads of the engine put together: the spotify and audio threads   *)
(* of global_thread_manager, the cb_thread of the session, the owner of    *)
(* the session, and libspotify, which is external.  Each base::thread is   *)
(* a Worker, which BaseThread implements.                                  *)
(*                                                                         *)
(* What Session has in detail, the pump of process_events() and the        *)
(* cancellation of notifications, is left out here; what it leaves out is  *)
(* here: the global threads from their start to their static destruction,  *)
(* the player, the frames of music_delivery(), and the copies of a         *)
(* search_response in the hands of several threads.                        *)
(*                                                                         *)
(* Three actors post to the spotify thread: the owner, the slots of        *)
(* search_completed on cb_thread and the slots of frames_delivered on the  *)
(* audio thread.  Tasks of one actor are due in the order it posts them    *)
(* (the clock advances between two posts), those of different actors in    *)
(* any order.  A get() whose task has been run may sleep on: it can miss   *)
(* the wakeup (Task, GetReturns).                                          *)
(***************************************************************************)
EXTENDS Naturals

CONSTANTS
  Searches,  \* the calls of search()
  Plays,     \* each actor plays each of these once at most
  MaxFrames  \* bound: how often libspotify calls music_delivery()

ASSUME EngineAssumption == MaxFrames \in Nat

VARIABLES
  life,                        \* where the owner is, from the first get_thread()
                               \* to the end of the static destruction
  asleep,                      \* the actors whose get() has missed its wakeup
  orphans,                     \* the owner's plays that wait, their player destroyed
  spPhase, spStatus, spAhead,  \* the spotify thread
  auPhase, auStatus, auAhead,  \* the audio thread
  cbPhase, cbStatus, cbAhead,  \* cb_thread
  slot,       \* the search (a set of one) whose slot cb_thread is in
  frameSlot,  \* the frame (a set of one) whose slot the audio thread is in
  completed,  \* the searches search_completed() was called for
  holders,    \* who has a copy of the response to each search
  released    \* the searches sp_search_release() was called for

spotifyVars == <<spPhase, spStatus, spAhead>>
audioVars == <<auPhase, auStatus, auAhead>>
cbVars == <<cbPhase, cbStatus, cbAhead>>
responseVars == <<completed, holders, released>>
actorVars == <<asleep, orphans>>
vars == <<life, actorVars, spotifyVars, audioVars, cbVars, slot, frameSlot, responseVars>>

Actors == {"owner", "cb", "audio"}
Frames == 1..MaxFrames

\* A task on the spotify thread: its function, who posts it, and what it is about.
Task(f, a, x) == [fun |-> f, by |-> a, of |-> x]
Own(f) == Task(f, "owner", "session")
OwnPlays == {Task("play", "owner", p) : p \in Plays}

SpotifyTasks ==
  {Own(f) : f \in {"create_session", "cancel_events", "release", "cancel_notify"}}
  \cup {Task("search", "owner", s) : s \in Searches}
  \cup {Task("play", a, p) : a \in Actors, p \in Plays}
  \cup {Task("query", a, s) : a \in Actors, s \in Searches}

Spotify == INSTANCE Worker WITH
  Tasks <- SpotifyTasks, phase <- spPhase, status <- spStatus, ahead <- spAhead
Audio == INSTANCE Worker WITH
  Tasks <- Frames, phase <- auPhase, status <- auStatus, ahead <- auAhead
Cb == INSTANCE Worker WITH
  Tasks <- Searches, phase <- cbPhase, status <- cbStatus, ahead <- cbAhead

Lives == {"none", "starting_spotify", "starting_audio", "starting_cb", "creating",
          "alive", "cancelling_events", "releasing", "cancelling_notify", "stopping_cb",
          "gone", "stopping_audio", "stopping_spotify", "exited"}

TypeOK ==
  /\ life \in Lives
  /\ life \in {"none", "exited"} => spPhase = "off" /\ auPhase = "off" /\ cbPhase = "off"
  /\ asleep \subseteq Actors /\ orphans \subseteq OwnPlays \cap Spotify!Waiting
  /\ Spotify!WorkerTypeOK /\ Audio!WorkerTypeOK /\ Cb!WorkerTypeOK
  /\ slot \subseteq Searches /\ frameSlot \subseteq Frames
  /\ completed \subseteq Searches /\ released \subseteq Searches
  /\ holders \in [Searches -> SUBSET (Actors \cup {"task"})]

Init ==
  /\ life = "none" /\ asleep = {} /\ orphans = {} /\ Spotify!Init /\ Audio!Init /\ Cb!Init
  /\ slot = {} /\ frameSlot = {}
  /\ completed = {} /\ released = {} /\ holders = [s \in Searches |-> {}]

Ran(t) == spStatus[t] = "ran"

\* session_ points to a session of libspotify between these two tasks.
Live == Ran(Own("create_session")) /\ ~Ran(Own("release"))

\* An actor waits in the get() of query() or track(), or overslept.
Waits(a) ==
  \/ \E s \in Searches : spStatus[Task("query", a, s)] \notin {"new", "ran"}
  \/ a \in asleep

\* The get() of session() or ~session() has returned.
Returned(f) == Ran(Own(f)) /\ "owner" \notin asleep

\* make_ready() of a task for which a get() waits: the get() may miss it.
MakeReady(a) == asleep' \in {asleep, asleep \cup {a}}

SpuriousWakeup(a) ==
  /\ a \in asleep /\ asleep' = asleep \ {a}
  /\ UNCHANGED <<life, orphans, spotifyVars, audioVars, cbVars, slot, frameSlot, responseVars>>

\* Mutant: tasks run in no order.
Earlier_None(t) == {}

Earlier(t) == {u \in Spotify!Waiting : u.by = t.by}

\* spotify_thread().post_task(t): behind some tasks, and what those are behind.
post(t) ==
  \E T \in SUBSET {u \in Spotify!Waiting : u.by # t.by} :
    LET S == Earlier(t) \cup T
    IN  /\ \A p \in spAhead : p[2] \in S => p[1] \in S
        /\ Spotify!Post(t, S, "prompt")

(***************************************************************************)
(* The owner: the first get_thread(), inside session(), starts the threads *)
(* of global_thread_manager in their order, and its static destruction     *)
(* stops them in the reverse order, after the session is gone.             *)
(***************************************************************************)
StartThreads ==
  /\ \/ /\ life = "none" /\ life' = "starting_spotify"
        /\ Spotify!Start /\ UNCHANGED <<audioVars, cbVars>>
     \/ /\ life = "starting_spotify" /\ spPhase = "on" /\ life' = "starting_audio"
        /\ Audio!Start /\ UNCHANGED <<spotifyVars, cbVars>>
     \/ /\ life = "starting_audio" /\ auPhase = "on" /\ life' = "starting_cb"
        /\ Cb!Start /\ UNCHANGED <<spotifyVars, audioVars>>
  /\ UNCHANGED <<actorVars, slot, frameSlot, responseVars>>

Construct ==
  /\ \/ /\ life = "starting_cb" /\ cbPhase = "on" /\ life' = "creating"
        /\ post(Own("create_session"))
     \/ /\ life = "creating" /\ Returned("create_session") /\ life' = "alive"
        /\ UNCHANGED spotifyVars
  /\ UNCHANGED <<actorVars, audioVars, cbVars, slot, frameSlot, responseVars>>

Search(s) ==
  /\ life = "alive" /\ ~Waits("owner") /\ post(Task("search", "owner", s))
  /\ UNCHANGED <<life, actorVars, audioVars, cbVars, slot, frameSlot, responseVars>>

\* Mutant: cb_thread.stop() comes first.
Destruct_CbFirst ==
  /\ \/ /\ life = "alive" /\ ~Waits("owner") /\ life' = "stopping_cb" /\ Cb!Stop
        /\ UNCHANGED spotifyVars
     \/ /\ life = "stopping_cb" /\ cbPhase = "off" /\ life' = "releasing"
        /\ post(Own("release")) /\ UNCHANGED cbVars
     \/ /\ life = "releasing" /\ Returned("release") /\ life' = "gone"
        /\ UNCHANGED <<spotifyVars, cbVars>>
  /\ UNCHANGED <<actorVars, audioVars, slot, frameSlot, responseVars>>

\* ~session(): three tasks, each waited for with get(), then cb_thread.stop().
Destruct ==
  /\ \/ /\ life = "alive" /\ ~Waits("owner") /\ life' = "cancelling_events"
        /\ post(Own("cancel_events")) /\ UNCHANGED cbVars
     \/ /\ life = "cancelling_events" /\ Returned("cancel_events") /\ life' = "releasing"
        /\ post(Own("release")) /\ UNCHANGED cbVars
     \/ /\ life = "releasing" /\ Returned("release") /\ life' = "cancelling_notify"
        /\ post(Own("cancel_notify")) /\ UNCHANGED cbVars
     \/ /\ life = "cancelling_notify" /\ Returned("cancel_notify")
        /\ life' = "stopping_cb" /\ Cb!Stop /\ UNCHANGED spotifyVars
     \/ /\ life = "stopping_cb" /\ cbPhase = "off" /\ life' = "gone"
        /\ UNCHANGED <<spotifyVars, cbVars>>
  /\ UNCHANGED <<actorVars, audioVars, slot, frameSlot, responseVars>>

\* Mutant: the threads are stopped in the order they were started in.
StopThreads_Ascending ==
  /\ \/ /\ life = "gone" /\ ~Waits("owner") /\ life' = "stopping_spotify"
        /\ Spotify!Stop /\ UNCHANGED audioVars
     \/ /\ life = "stopping_spotify" /\ spPhase = "off" /\ life' = "stopping_audio"
        /\ Audio!Stop /\ UNCHANGED spotifyVars
     \/ /\ life = "stopping_audio" /\ auPhase = "off" /\ life' = "exited"
        /\ UNCHANGED <<spotifyVars, audioVars>>
  /\ UNCHANGED <<actorVars, cbVars, slot, frameSlot, responseVars>>

\* Mutant: the loop begins one short, and the last thread is not stopped.
StopThreads_SkipsLast ==
  /\ \/ /\ life = "gone" /\ ~Waits("owner") /\ life' = "stopping_spotify"
        /\ Spotify!Stop
     \/ /\ life = "stopping_spotify" /\ spPhase = "off" /\ life' = "exited"
        /\ UNCHANGED spotifyVars
  /\ UNCHANGED <<actorVars, audioVars, cbVars, slot, frameSlot, responseVars>>

\* ~global_thread_manager()
StopThreads ==
  /\ \/ /\ life = "gone" /\ ~Waits("owner") /\ life' = "stopping_audio"
        /\ Audio!Stop /\ UNCHANGED spotifyVars
     \/ /\ life = "stopping_audio" /\ auPhase = "off" /\ life' = "stopping_spotify"
        /\ Spotify!Stop /\ UNCHANGED audioVars
     \/ /\ life = "stopping_spotify" /\ spPhase = "off" /\ life' = "exited"
        /\ UNCHANGED <<spotifyVars, audioVars>>
  /\ UNCHANGED <<actorVars, cbVars, slot, frameSlot, responseVars>>

(***************************************************************************)
(* What actors do with a player and with their copies of a response.       *)
(***************************************************************************)

\* The owner is in its own code, or the actor's thread is in a slot.
Acts(a) ==
  /\ ~Waits(a)
  /\ \/ a = "owner" /\ life \in {"alive", "gone"}
     \/ a = "cb" /\ slot # {}
     \/ a = "audio" /\ frameSlot # {}

\* The owner destroys its player, before or after the session.  (A play without its
\* player reads what is left of it; it is taken to find the session_ there.)
DestroyPlayer ==
  /\ Acts("owner") /\ orphans' = OwnPlays \cap Spotify!Waiting
  /\ UNCHANGED <<life, asleep, spotifyVars, audioVars, cbVars, slot, frameSlot, responseVars>>

\* player::play() of the owner's player, or by a slot of one that it has.  The task
\* captures the player's this; the owner plays nothing when its session is gone.
play(a, p) ==
  /\ Acts(a) /\ (a = "owner" => life = "alive") /\ post(Task("play", a, p))
  /\ UNCHANGED <<life, actorVars, audioVars, cbVars, slot, frameSlot, responseVars>>

\* search_response::query() and track(): the task is posted, then waited for.
query(a, s) ==
  /\ Acts(a) /\ a \in holders[s] /\ post(Task("query", a, s))
  /\ UNCHANGED <<life, actorVars, audioVars, cbVars, slot, frameSlot, responseVars>>

\* A slot of search_completed gives a copy of its response to another thread.
Copy(s, a) ==
  /\ Acts("cb") /\ s \in slot /\ a # "cb" /\ holders' = [holders EXCEPT ![s] = @ \cup {a}]
  /\ UNCHANGED <<life, actorVars, spotifyVars, audioVars, cbVars, slot, frameSlot, completed,
                 released>>

\* Mutant of Forget: a response holds the bare sp_search, each copy releases it.
Forget_Bare(s, a) ==
  /\ holders' = [holders EXCEPT ![s] = @ \ {a}]
  /\ released' = released \cup {s} /\ UNCHANGED completed

\* A copy is destroyed, the last one with the search_response_impl.
Forget(s, a) ==
  /\ holders' = [holders EXCEPT ![s] = @ \ {a}]
  /\ released' = IF holders[s] = {a} THEN released \cup {s} ELSE released
  /\ UNCHANGED completed

DropCopy(a, s) ==
  /\ a # "cb" /\ Acts(a) /\ a \in holders[s] /\ Forget(s, a)
  /\ UNCHANGED <<life, actorVars, spotifyVars, audioVars, cbVars, slot, frameSlot>>

(***************************************************************************)
(* The threads.  A task that takes several steps is run when it returns.   *)
(***************************************************************************)
\* Of a play or a search nobody has a handle.
HasHandle(t) == t.fun \notin {"play", "search"}

\* Mutant: cb_thread.stop() is called in the last task of ~session().
RunSpotify_StopsCb(t) ==
  /\ Spotify!Run(t) /\ (t = Own("cancel_notify") => slot = {} /\ Cb!Waiting = {})
  /\ IF HasHandle(t) THEN MakeReady(t.by) ELSE UNCHANGED asleep
  /\ orphans' = orphans \ {t}
  /\ UNCHANGED <<life, audioVars, cbVars, slot, frameSlot, responseVars>>

RunSpotify(t) ==
  /\ Spotify!Run(t)
  /\ IF HasHandle(t) THEN MakeReady(t.by) ELSE UNCHANGED asleep
  /\ orphans' = orphans \ {t}
  /\ UNCHANGED <<life, audioVars, cbVars, slot, frameSlot, responseVars>>

BeginSlot(s) ==
  /\ cbPhase # "off" /\ slot = {} /\ Cb!IsNext(s) /\ slot' = {s}
  /\ holders' = [holders EXCEPT ![s] = @ \cup {"cb"}]
  /\ UNCHANGED <<life, actorVars, spotifyVars, audioVars, cbVars, frameSlot, completed, released>>

\* Mutant: query() does not wait.
EndSlot_NoWait(s) ==
  /\ s \in slot /\ Cb!Run(s) /\ slot' = {} /\ Forget(s, "cb")
  /\ UNCHANGED <<life, actorVars, spotifyVars, audioVars, frameSlot>>

EndSlot(s) ==
  /\ s \in slot /\ ~Waits("cb") /\ Cb!Run(s) /\ slot' = {} /\ Forget(s, "cb")
  /\ UNCHANGED <<life, actorVars, spotifyVars, audioVars, frameSlot>>

\* The tasks of a batch are destroyed after the last of them was run.
FreeTask(s) ==
  /\ cbStatus[s] = "ran" /\ slot = {} /\ "task" \in holders[s] /\ Forget(s, "task")
  /\ UNCHANGED <<life, actorVars, spotifyVars, audioVars, cbVars, slot, frameSlot>>

BeginFrame(n) ==
  /\ auPhase # "off" /\ frameSlot = {} /\ Audio!IsNext(n) /\ frameSlot' = {n}
  /\ UNCHANGED <<life, actorVars, spotifyVars, audioVars, cbVars, slot, responseVars>>

EndFrame(n) ==
  /\ n \in frameSlot /\ ~Waits("audio") /\ Audio!Run(n) /\ frameSlot' = {}
  /\ UNCHANGED <<life, actorVars, spotifyVars, cbVars, slot, responseVars>>

StartOrEnd ==
  /\ \/ (Spotify!Up \/ Spotify!Down) /\ UNCHANGED <<audioVars, cbVars>>
     \/ (Audio!Up \/ Audio!Down) /\ UNCHANGED <<spotifyVars, cbVars>>
     \/ (Cb!Up \/ (Cb!Down /\ \A s \in Searches : "task" \notin holders[s]))
        /\ UNCHANGED <<spotifyVars, audioVars>>
  /\ UNCHANGED <<life, actorVars, slot, frameSlot, responseVars>>

(***************************************************************************)
(* libspotify.                                                             *)
(***************************************************************************)

\* search_completed(), from inside process_events(): release a failed search, or
\* post the response, owned by the task.
SearchCompleted(s) ==
  /\ Live /\ ~Ran(Own("cancel_events")) /\ Ran(Task("search", "owner", s))
  /\ s \notin completed /\ completed' = completed \cup {s}
  /\ \/ released' = released \cup {s} /\ UNCHANGED <<holders, cbVars>>
     \/ /\ holders' = [holders EXCEPT ![s] = {"task"}]
        /\ Cb!Post(s, Cb!Waiting, "prompt") /\ UNCHANGED released
  /\ UNCHANGED <<life, actorVars, spotifyVars, audioVars, slot, frameSlot>>

\* Mutant: frames are posted without regard to those before.
MusicDelivery_Unordered(n) ==
  /\ Live /\ Audio!Post(n, {}, "prompt")
  /\ UNCHANGED <<life, actorVars, spotifyVars, cbVars, slot, frameSlot, responseVars>>

\* music_delivery(), from a thread of libspotify's, once something is played.
MusicDelivery(n) ==
  /\ Live /\ \E a \in Actors, p \in Plays : Ran(Task("play", a, p))
  /\ \A m \in 1..(n - 1) : auStatus[m] # "new"
  /\ Audio!Post(n, Audio!Waiting, "prompt")
  /\ UNCHANGED <<life, actorVars, spotifyVars, cbVars, slot, frameSlot, responseVars>>

Owner ==
  \/ StartThreads \/ Construct
  \/ Destruct /\ life # "alive"
  \/ StopThreads /\ life # "gone"
CbThread == \E s \in Searches : BeginSlot(s) \/ EndSlot(s) \/ FreeTask(s)
AudioThread == \E n \in Frames : BeginFrame(n) \/ EndFrame(n)
SpotifyThread == \E t \in SpotifyTasks : RunSpotify(t)

Next ==
  \/ StartThreads \/ Construct \/ Destruct \/ StopThreads \/ DestroyPlayer
  \/ SpotifyThread \/ CbThread \/ AudioThread \/ StartOrEnd
  \/ \E n \in Frames : MusicDelivery(n)
  \/ \E s \in Searches : Search(s) \/ SearchCompleted(s)
  \/ \E a \in Actors, p \in Plays : play(a, p)
  \/ \E a \in Actors, s \in Searches : query(a, s) \/ Copy(s, a) \/ DropCopy(a, s)
  \/ \E a \in Actors : SpuriousWakeup(a)

Spec == Init /\ [][Next]_vars

\* The threads run and take the tasks that are due, tasks return when they need not
\* wait, and the owner goes on with what it has begun.  Nobody has to destroy the
\* session or end the program, slots need not post anything, libspotify need not call
\* back, and nothing wakes a get() that missed its wakeup.
FairSpec ==
  /\ Spec /\ WF_vars(Owner) /\ WF_vars(SpotifyThread) /\ WF_vars(CbThread)
  /\ WF_vars(AudioThread) /\ WF_vars(StartOrEnd)
-----------------------------------------------------------------------------
(***************************************************************************)
(* Properties.                                                             *)
(***************************************************************************)

Posted(old, new) == \E t \in DOMAIN old : old[t] = "new" /\ new[t] # "new"

\* Whoever posts, the thread is there: the assertion in base::thread::post_task, for
\* the owner, for slots on two threads and for libspotify, from the first
\* get_thread() to the static destruction (thread.cc:59).
PostsFindThread ==
  [][/\ Posted(spStatus, spStatus') => spPhase # "off"
     /\ Posted(auStatus, auStatus') => auPhase # "off"
     /\ Posted(cbStatus, cbStatus') => cbPhase # "off"]_vars

\* No stop() of the engine finds a task it may drop, and no thread leaves one behind:
\* what is posted is run, so that no get() throws not_run (message_loop::stop,
\* ~session, ~global_thread_manager).
NothingDropped ==
  LET Settled(phase, waiting, owed) ==
        /\ phase = "off" => waiting = {}
        /\ phase = "stopping" => waiting \subseteq owed
      Owed(status) == {t \in DOMAIN status : status[t] = "owed"}
  IN  /\ Settled(spPhase, Spotify!Waiting, Owed(spStatus))
      /\ Settled(auPhase, Audio!Waiting, Owed(auStatus))
      /\ Settled(cbPhase, Cb!Waiting, Owed(cbStatus))

\* The task of a query() or track(), which has a bare this, finds its search: no
\* matter who else drops copies meanwhile (search_response_impl.cc:21,42).
QueryFindsSearch ==
  \A a \in Actors, s \in Searches :
    Task("query", a, s) \in Spotify!Waiting => s \notin released

\* What the owner plays reaches libspotify before the session is released, so that a
\* player destroyed after the session, whose this the task has (player.h:23), leaves
\* no play behind.  One destroyed before the session may: then the orphan runs before
\* the release all the same.
PlaysInTime == Ran(Own("release")) => OwnPlays \cap Spotify!Waiting = {} /\ orphans = {}

\* Frames are heard in the order libspotify delivers them (music_delivery).
FramesInOrder ==
  \A n \in Frames : auStatus[n] = "ran" => \A m \in 1..n : auStatus[m] = "ran"

\* A search that was completed is released when the last copy of its response is
\* gone, whichever thread that is on, and not before; a copy in a task counts
\* (the comment in search_completed()).
ReleasedByLast ==
  \A s \in completed : s \in released <=> holders[s] = {}

\* Whoever waits for a thread finds that it can go on, or that it waits in its turn for
\* the spotify thread, which waits for nobody: the get() of query() and track(), the
\* waits of session() and ~session() for their tasks, and every stop() and join of the
\* teardown (session.cc:118, global_thread_manager.cc:37).  The one wait that nobody
\* need end is that of a get() that overslept.
NoCircularWait ==
  LET Awaited == [creating |-> "create_session", cancelling_events |-> "cancel_events",
                  releasing |-> "release", cancelling_notify |-> "cancel_notify"]
      SpotifyCan == spPhase # "off" /\ \E t \in SpotifyTasks : Spotify!IsNext(t)
      AudioCan == auPhase # "off" /\ \E n \in Frames :
        Audio!IsNext(n) /\ (frameSlot = {} \/ (n \in frameSlot /\ ~Waits("audio")))
      CbCan == cbPhase # "off" /\ \E s \in Searches :
        \/ Cb!IsNext(s) /\ (slot = {} \/ (s \in slot /\ ~Waits("cb")))
        \/ cbStatus[s] = "ran" /\ slot = {} /\ "task" \in holders[s]
      Paid(status) == \A t \in DOMAIN status : status[t] # "owed"
  IN  /\ \A a \in Actors : Waits(a) => a \in asleep \/ SpotifyCan
      /\ life \in DOMAIN Awaited => Ran(Own(Awaited[life])) \/ SpotifyCan
      /\ life = "stopping_cb" /\ cbPhase # "off" =>
           \/ CbCan \/ Waits("cb")
           \/ Paid(cbStatus) /\ \A s \in Searches : "task" \notin holders[s]
      /\ life = "stopping_audio" /\ auPhase # "off" =>
           AudioCan \/ Waits("audio") \/ Paid(auStatus)
      /\ life = "stopping_spotify" /\ spPhase # "off" => SpotifyCan \/ Paid(spStatus)

\* Neither ~session() nor the static destruction waits forever for a thread whose
\* slots wait for another (session.cc:118, global_thread_manager.cc:37), unless a
\* get(), the owner's or one in a slot, sleeps forever after its task was run (Task,
\* GetReturns).
TeardownEnds ==
  []<>(asleep = {}) =>
    ((life \in {"cancelling_events", "stopping_audio"}) ~> (life \in {"gone", "exited"}))
=============================================================================
