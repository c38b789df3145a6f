---------------------------- MODULE EngineProofs ----------------------------
(***************************************************************************)
(* Proofs about Engine, for any searches, plays and number of frames: the  *)
(* types and the safety properties of the run engine.                      *)
(*                                                                         *)
(* The invariant says how far each thread is for where the owner is        *)
(* (PhaseInv), which of the owner's tasks were run by then (OwnInv), that  *)
(* nothing but run tasks remains on a stopped thread (KindInv with         *)
(* NothingDropped), who is in a slot or waits (SlotInv), who has copies of *)
(* a response (CopyInv), and what is posted behind what (BehindInv).       *)
(***************************************************************************)
EXTENDS Engine, TLAPS

Early == {"none", "starting_spotify", "starting_audio", "starting_cb"}
Late == {"stopping_cb", "gone", "stopping_audio", "stopping_spotify", "exited"}

PhaseInv ==
  /\ life = "none" => spPhase = "off" /\ auPhase = "off" /\ cbPhase = "off"
  /\ life = "starting_spotify" =>
       spPhase \in {"starting", "on"} /\ auPhase = "off" /\ cbPhase = "off"
  /\ life = "starting_audio" =>
       spPhase = "on" /\ auPhase \in {"starting", "on"} /\ cbPhase = "off"
  /\ life = "starting_cb" =>
       spPhase = "on" /\ auPhase = "on" /\ cbPhase \in {"starting", "on"}
  /\ life \notin Early \cup Late => spPhase = "on" /\ auPhase = "on" /\ cbPhase = "on"
  /\ life = "stopping_cb" =>
       spPhase = "on" /\ auPhase = "on" /\ cbPhase \in {"stopping", "off"}
  /\ life = "gone" => spPhase = "on" /\ auPhase = "on" /\ cbPhase = "off"
  /\ life = "stopping_audio" =>
       spPhase = "on" /\ auPhase \in {"stopping", "off"} /\ cbPhase = "off"
  /\ life = "stopping_spotify" =>
       spPhase \in {"stopping", "off"} /\ auPhase = "off" /\ cbPhase = "off"
  /\ life = "exited" => spPhase = "off" /\ auPhase = "off" /\ cbPhase = "off"

\* The owner waits for each of its tasks before it goes on.
OwnInv ==
  /\ spStatus[Own("create_session")] = "new" <=> life \in Early
  /\ life \notin Early \cup {"creating"} => Ran(Own("create_session"))
  /\ spStatus[Own("cancel_events")] = "new" <=> life \in Early \cup {"creating", "alive"}
  /\ life \in Late \cup {"releasing", "cancelling_notify"} => Ran(Own("cancel_events"))
  /\ spStatus[Own("release")] = "new"
       <=> life \in Early \cup {"creating", "alive", "cancelling_events"}
  /\ life \in Late \cup {"cancelling_notify"} => Ran(Own("release"))
  /\ spStatus[Own("cancel_notify")] = "new"
       <=> life \in Early \cup {"creating", "alive", "cancelling_events", "releasing"}
  /\ life \in Late => Ran(Own("cancel_notify"))

Kind == {"new", "prompt", "owed", "ran"}

\* Where the owner can be while it is in a get(): in its own code or with a task.
Calling == {"creating", "alive", "cancelling_events", "releasing", "cancelling_notify", "gone"}

\* An actor waits for the task of a query() or track().
Asks(a) == \E s \in Searches : spStatus[Task("query", a, s)] \notin {"new", "ran"}

\* A step of no thread: a player is destroyed, a get() wakes up.
Aside == DestroyPlayer \/ (\E a \in Actors : SpuriousWakeup(a)) \/ UNCHANGED vars

\* Nothing in the engine is posted with a delay.
KindInv ==
  /\ \A t \in SpotifyTasks : spStatus[t] \in Kind
  /\ \A n \in Frames : auStatus[n] \in Kind
  /\ \A s \in Searches : cbStatus[s] \in Kind

\* A slot is in progress while its task waits to be run, and whoever waits in a
\* get() is where it can call one.
SlotInv ==
  /\ \A s \in slot : slot = {s} /\ s \in Cb!Waiting
  /\ \A n \in frameSlot : frameSlot = {n} /\ n \in Audio!Waiting
  /\ Asks("owner") => life \in {"alive", "gone"}
  /\ "owner" \in asleep => life \in Calling
  /\ Waits("cb") => slot # {}
  /\ Waits("audio") => frameSlot # {}

\* The response to a search is copied from one that is there.
CopyInv ==
  \A s \in Searches :
    /\ s \in released => s \in completed /\ holders[s] = {}
    /\ s \notin completed => holders[s] = {} /\ cbStatus[s] = "new"
    /\ s \in completed \ released => holders[s] # {}
    /\ s \in Cb!Waiting => "task" \in holders[s]
    /\ "cb" \in holders[s] <=> s \in slot
    /\ \A a \in Actors : Task("query", a, s) \in Spotify!Waiting => a \in holders[s]

\* The release is posted behind what the owner played, a frame behind the frames
\* before it.
BehindInv ==
  /\ \A p \in Plays :
       LET t == Task("play", "owner", p)
       IN  /\ t \in Spotify!Waiting => ~Ran(Own("release"))
           /\ {t, Own("release")} \subseteq Spotify!Waiting => <<t, Own("release")>> \in spAhead
  /\ \A n \in Frames : \A m \in 1..(n - 1) :
       /\ auStatus[n] # "new" => auStatus[m] # "new"
       /\ auStatus[n] = "ran" => auStatus[m] = "ran"
       /\ {m, n} \subseteq Audio!Waiting => <<m, n>> \in auAhead

IInv ==
  /\ TypeOK /\ PhaseInv /\ OwnInv /\ KindInv /\ SlotInv /\ NothingDropped /\ CopyInv
  /\ BehindInv
-----------------------------------------------------------------------------
OwnFuns == {"create_session", "cancel_events", "release", "cancel_notify"}

\* What tells tasks apart.
LEMMA TaskFacts ==
  /\ \A f \in {"create_session", "cancel_events", "release", "cancel_notify"} :
       /\ Own(f) \in SpotifyTasks /\ Own(f).by = "owner"
       /\ \A g \in {"create_session", "cancel_events", "release", "cancel_notify"} :
            Own(f) = Own(g) => f = g
       /\ \A a \in Actors, p \in Plays : Own(f) # Task("play", a, p)
       /\ \A a \in Actors, s \in Searches : Own(f) # Task("query", a, s)
       /\ \A s \in Searches : Own(f) # Task("search", "owner", s)
  /\ \A s \in Searches : Task("search", "owner", s) \in SpotifyTasks
  /\ \A a \in Actors, p \in Plays :
       Task("play", a, p) \in SpotifyTasks /\ Task("play", a, p).by = a
  /\ \A a \in Actors, s \in Searches :
       /\ Task("query", a, s) \in SpotifyTasks
       /\ Task("query", a, s) # Task("search", "owner", s)
       /\ \A u \in Searches : Task("query", a, s) # Task("search", "owner", u)
       /\ \A b \in Actors, p \in Plays : Task("query", a, s) # Task("play", b, p)
       /\ \A b \in Actors, u \in Searches :
            Task("query", a, s) = Task("query", b, u) => a = b /\ s = u
<1>1. \A f, a, x, g, b, y :
        Task(f, a, x) = Task(g, b, y) <=> f = g /\ a = b /\ x = y
  <2> SUFFICES ASSUME NEW f, NEW a, NEW x, NEW g, NEW b, NEW y
               PROVE  Task(f, a, x) = Task(g, b, y) <=> f = g /\ a = b /\ x = y
    OBVIOUS
  <2>1. /\ Task(f, a, x).fun = f /\ Task(f, a, x).by = a /\ Task(f, a, x).of = x
        /\ Task(g, b, y).fun = g /\ Task(g, b, y).by = b /\ Task(g, b, y).of = y
    BY DEF Task
  <2> QED BY <2>1
<1>2. \A f, a, x : Task(f, a, x).by = a
  BY DEF Task
<1> QED BY <1>1, <1>2 DEF SpotifyTasks, Own, Actors

LEMMA PostEffect ==
  ASSUME Spotify!WorkerTypeOK, NEW t \in SpotifyTasks, post(t)
  PROVE  /\ spStatus[t] = "new" /\ spStatus' = [spStatus EXCEPT ![t] = "prompt"]
         /\ spPhase' = spPhase /\ Spotify!WorkerTypeOK'
         /\ \E S \in SUBSET Spotify!Waiting :
              Earlier(t) \subseteq S /\ spAhead' = spAhead \cup (S \X {t})
<1>1. PICK T \in SUBSET {u \in Spotify!Waiting : u.by # t.by} :
        Spotify!Post(t, Earlier(t) \cup T, "prompt")
  BY Zenon DEF post
<1>2. Earlier(t) \cup T \in SUBSET Spotify!Waiting
  BY DEF Earlier
<1>3. Spotify!Waiting \subseteq SpotifyTasks
  BY DEF Spotify!Waiting
<1> QED
  BY <1>1, <1>2, <1>3 DEF Spotify!Post, Spotify!WorkerTypeOK, Spotify!Kinds

LEMMA RunEffect ==
  ASSUME Spotify!WorkerTypeOK, NEW t \in SpotifyTasks, Spotify!Run(t)
  PROVE  /\ t \in Spotify!Waiting /\ \A u \in SpotifyTasks : <<u, t>> \notin spAhead
         /\ spStatus' = [spStatus EXCEPT ![t] = "ran"]
         /\ spAhead' = {p \in spAhead : p[1] # t /\ p[2] # t}
         /\ spPhase' = spPhase /\ spPhase # "off" /\ Spotify!WorkerTypeOK'
<1>1. spStatus' = [spStatus EXCEPT ![t] = "ran"]
  BY DEF Spotify!Run, Spotify!Leave, Spotify!WorkerTypeOK
<1>2. spAhead' = {p \in spAhead : p[1] # t /\ p[2] # t}
  BY DEF Spotify!Run, Spotify!Leave
<1> QED
  BY <1>1, <1>2 DEF Spotify!Run, Spotify!IsNext, Spotify!WorkerTypeOK

LEMMA FrameRunEffect ==
  ASSUME Audio!WorkerTypeOK, NEW n \in Frames, Audio!Run(n)
  PROVE  /\ n \in Audio!Waiting /\ \A m \in Frames : <<m, n>> \notin auAhead
         /\ auStatus' = [auStatus EXCEPT ![n] = "ran"]
         /\ auAhead' = {p \in auAhead : p[1] # n /\ p[2] # n}
         /\ auPhase' = auPhase /\ auPhase # "off" /\ Audio!WorkerTypeOK'
<1>1. auStatus' = [auStatus EXCEPT ![n] = "ran"]
  BY DEF Audio!Run, Audio!Leave, Audio!WorkerTypeOK
<1>2. auAhead' = {p \in auAhead : p[1] # n /\ p[2] # n}
  BY DEF Audio!Run, Audio!Leave
<1> QED
  BY <1>1, <1>2 DEF Audio!Run, Audio!IsNext, Audio!WorkerTypeOK

LEMMA SlotRunEffect ==
  ASSUME Cb!WorkerTypeOK, NEW s \in Searches, Cb!Run(s)
  PROVE  /\ s \in Cb!Waiting /\ cbStatus' = [cbStatus EXCEPT ![s] = "ran"]
         /\ cbPhase' = cbPhase /\ Cb!WorkerTypeOK'
<1>1. cbStatus' = [cbStatus EXCEPT ![s] = "ran"]
  BY DEF Cb!Run, Cb!Leave, Cb!WorkerTypeOK
<1>2. cbAhead' \subseteq cbAhead
  BY DEF Cb!Run, Cb!Leave
<1> QED
  BY <1>1, <1>2 DEF Cb!Run, Cb!IsNext, Cb!WorkerTypeOK

\* A post to the audio thread or to cb_thread.
LEMMA OtherPostEffect ==
  /\ \A n \in Frames : Audio!WorkerTypeOK /\ Audio!Post(n, Audio!Waiting, "prompt")
       => /\ auStatus[n] = "new" /\ auStatus' = [auStatus EXCEPT ![n] = "prompt"]
          /\ auAhead' = auAhead \cup (Audio!Waiting \X {n})
          /\ auPhase' = auPhase /\ Audio!WorkerTypeOK'
  /\ \A s \in Searches : Cb!WorkerTypeOK /\ Cb!Post(s, Cb!Waiting, "prompt")
       => /\ cbStatus[s] = "new" /\ cbStatus' = [cbStatus EXCEPT ![s] = "prompt"]
          /\ cbPhase' = cbPhase /\ Cb!WorkerTypeOK'
<1>1. ASSUME NEW n \in Frames, Audio!WorkerTypeOK, Audio!Post(n, Audio!Waiting, "prompt")
      PROVE  /\ auStatus[n] = "new" /\ auStatus' = [auStatus EXCEPT ![n] = "prompt"]
             /\ auAhead' = auAhead \cup (Audio!Waiting \X {n})
             /\ auPhase' = auPhase /\ Audio!WorkerTypeOK'
  <2>1. Audio!Waiting \subseteq Frames
    BY DEF Audio!Waiting
  <2> QED BY <1>1, <2>1 DEF Audio!Post, Audio!WorkerTypeOK, Audio!Kinds
<1>2. ASSUME NEW s \in Searches, Cb!WorkerTypeOK, Cb!Post(s, Cb!Waiting, "prompt")
      PROVE  /\ cbStatus[s] = "new" /\ cbStatus' = [cbStatus EXCEPT ![s] = "prompt"]
             /\ cbPhase' = cbPhase /\ Cb!WorkerTypeOK'
  <2>1. Cb!Waiting \subseteq Searches
    BY DEF Cb!Waiting
  <2> QED BY <1>2, <2>1 DEF Cb!Post, Cb!WorkerTypeOK, Cb!Kinds
<1> QED BY <1>1, <1>2

\* The calls of start() and stop(), and their ends.
LEMMA ControlTypes ==
  /\ Spotify!WorkerTypeOK /\ (Spotify!Start \/ Spotify!Up \/ Spotify!Stop \/ Spotify!Down)
       => Spotify!WorkerTypeOK'
  /\ Audio!WorkerTypeOK /\ (Audio!Start \/ Audio!Up \/ Audio!Stop \/ Audio!Down)
       => Audio!WorkerTypeOK'
  /\ Cb!WorkerTypeOK /\ (Cb!Start \/ Cb!Up \/ Cb!Stop \/ Cb!Down) => Cb!WorkerTypeOK'
<1>1. Spotify!WorkerTypeOK /\ (Spotify!Start \/ Spotify!Up \/ Spotify!Stop \/ Spotify!Down)
        => Spotify!WorkerTypeOK'
  BY DEF Spotify!Start, Spotify!Up, Spotify!Stop, Spotify!Down, Spotify!WorkerTypeOK
<1>2. Audio!WorkerTypeOK /\ (Audio!Start \/ Audio!Up \/ Audio!Stop \/ Audio!Down)
        => Audio!WorkerTypeOK'
  BY DEF Audio!Start, Audio!Up, Audio!Stop, Audio!Down, Audio!WorkerTypeOK
<1>3. Cb!WorkerTypeOK /\ (Cb!Start \/ Cb!Up \/ Cb!Stop \/ Cb!Down) => Cb!WorkerTypeOK'
  BY DEF Cb!Start, Cb!Up, Cb!Stop, Cb!Down, Cb!WorkerTypeOK
<1> QED BY <1>1, <1>2, <1>3

LEMMA Untouched ==
  /\ Spotify!WorkerTypeOK /\ UNCHANGED spotifyVars => Spotify!WorkerTypeOK'
  /\ Audio!WorkerTypeOK /\ UNCHANGED audioVars => Audio!WorkerTypeOK'
  /\ Cb!WorkerTypeOK /\ UNCHANGED cbVars => Cb!WorkerTypeOK'
BY DEF spotifyVars, audioVars, cbVars, Spotify!WorkerTypeOK, Audio!WorkerTypeOK,
       Cb!WorkerTypeOK
-----------------------------------------------------------------------------
(***************************************************************************)
(* Types.                                                                  *)
(***************************************************************************)

\* Those of the variables that are not a thread's.
RestOK ==
  /\ life \in Lives /\ asleep \subseteq Actors
  /\ slot \subseteq Searches /\ frameSlot \subseteq Frames
  /\ completed \subseteq Searches /\ released \subseteq Searches
  /\ holders \in [Searches -> SUBSET (Actors \cup {"task"})]

LEMMA TypeParts ==
  TypeOK => RestOK /\ Spotify!WorkerTypeOK /\ Audio!WorkerTypeOK /\ Cb!WorkerTypeOK
BY DEF TypeOK, RestOK

LEMMA ForgetTypes ==
  ASSUME RestOK, NEW s \in Searches, NEW a \in Actors \cup {"task"}, Forget(s, a)
  PROVE  /\ holders' \in [Searches -> SUBSET (Actors \cup {"task"})]
         /\ released' \subseteq Searches /\ completed' \subseteq Searches
BY DEF RestOK, Forget

LEMMA TypeInit == Init => TypeOK
BY DEF Init, Spotify!Init, Audio!Init, Cb!Init, TypeOK, Lives, OwnPlays,
       Spotify!WorkerTypeOK, Audio!WorkerTypeOK, Cb!WorkerTypeOK

LEMMA RestStep == TypeOK /\ [Next]_vars => RestOK'
<1> SUFFICES ASSUME TypeOK, [Next]_vars PROVE RestOK'
  OBVIOUS
<1>0. RestOK
  BY TypeParts
<1> USE <1>0
<1>1. CASE StartThreads \/ Construct \/ Destruct \/ StopThreads
  BY <1>1 DEF StartThreads, Construct, Destruct, StopThreads, RestOK, Lives, responseVars,
              actorVars
<1>2. ASSUME NEW s \in Searches, BeginSlot(s)
      PROVE  RestOK'
  BY <1>2 DEF BeginSlot, RestOK, Actors, actorVars
<1>3. ASSUME NEW s \in Searches, EndSlot(s) \/ FreeTask(s)
      PROVE  RestOK'
  <2>1. Forget(s, "cb") \/ Forget(s, "task")
    BY <1>3 DEF EndSlot, FreeTask
  <2>2. /\ holders' \in [Searches -> SUBSET (Actors \cup {"task"})]
        /\ released' \subseteq Searches /\ completed' \subseteq Searches
    BY <2>1, ForgetTypes DEF Actors
  <2> QED BY <1>3, <2>2 DEF EndSlot, FreeTask, RestOK, actorVars
<1>4. ASSUME NEW n \in Frames, BeginFrame(n) \/ EndFrame(n) \/ MusicDelivery(n)
      PROVE  RestOK'
  BY <1>4 DEF BeginFrame, EndFrame, MusicDelivery, RestOK, responseVars, actorVars
<1>5. CASE SpotifyThread \/ StartOrEnd
  <2>1. ASSUME NEW t \in SpotifyTasks, RunSpotify(t)
        PROVE  RestOK'
    <3>1. t.by \in Actors
      BY DEF SpotifyTasks, Own, Task, Actors
    <3> QED BY <2>1, <3>1 DEF RunSpotify, MakeReady, RestOK, responseVars
  <2> QED BY <1>5, <2>1 DEF SpotifyThread, StartOrEnd, RestOK, responseVars, actorVars
<1>6. ASSUME NEW s \in Searches, Search(s)
      PROVE  RestOK'
  BY <1>6 DEF Search, RestOK, responseVars, actorVars
<1>7. ASSUME NEW s \in Searches, SearchCompleted(s)
      PROVE  RestOK'
  BY <1>7 DEF SearchCompleted, RestOK, actorVars
<1>8. ASSUME NEW a \in Actors, NEW p \in Plays, play(a, p)
      PROVE  RestOK'
  BY <1>8 DEF play, RestOK, responseVars, actorVars
<1>9. ASSUME NEW a \in Actors, NEW s \in Searches, query(a, s)
      PROVE  RestOK'
  BY <1>9 DEF query, RestOK, responseVars, actorVars
<1>10. ASSUME NEW a \in Actors, NEW s \in Searches, Copy(s, a)
       PROVE  RestOK'
  BY <1>10 DEF Copy, RestOK, actorVars
<1>11. ASSUME NEW a \in Actors, NEW s \in Searches, DropCopy(a, s)
       PROVE  RestOK'
  BY <1>11, ForgetTypes DEF DropCopy, RestOK, actorVars
<1>12. CASE Aside
  BY <1>12 DEF Aside, DestroyPlayer, SpuriousWakeup, vars, RestOK, responseVars, actorVars
<1> QED
  BY <1>1, <1>2, <1>3, <1>4, <1>5, <1>6, <1>7, <1>8, <1>9, <1>10, <1>11, <1>12
  DEF Next, CbThread, AudioThread, Aside

\* What may happen to each thread.
SpotifyStep ==
  \/ UNCHANGED spotifyVars \/ Spotify!Start \/ Spotify!Up \/ Spotify!Stop \/ Spotify!Down
  \/ \E t \in SpotifyTasks : post(t) \/ Spotify!Run(t)
AudioStep ==
  \/ UNCHANGED audioVars \/ Audio!Start \/ Audio!Up \/ Audio!Stop \/ Audio!Down
  \/ \E n \in Frames : Audio!Post(n, Audio!Waiting, "prompt") \/ Audio!Run(n)
CbStep ==
  \/ UNCHANGED cbVars \/ Cb!Start \/ Cb!Up \/ Cb!Stop \/ Cb!Down
  \/ \E s \in Searches : Cb!Post(s, Cb!Waiting, "prompt") \/ Cb!Run(s)

LEMMA ThreadSteps == [Next]_vars => SpotifyStep /\ AudioStep /\ CbStep
<1> SUFFICES ASSUME [Next]_vars PROVE SpotifyStep /\ AudioStep /\ CbStep
  OBVIOUS
<1>1. CASE StartThreads \/ Construct \/ Destruct \/ StopThreads
  <2>1. \A f \in {"create_session", "cancel_events", "release", "cancel_notify"} :
          Own(f) \in SpotifyTasks
    BY TaskFacts
  <2> QED
    BY <1>1, <2>1 DEF StartThreads, Construct, Destruct, StopThreads, SpotifyStep,
                      AudioStep, CbStep
<1>2. CASE SpotifyThread \/ CbThread \/ AudioThread \/ StartOrEnd
  BY <1>2 DEF SpotifyThread, CbThread, AudioThread, StartOrEnd, RunSpotify, BeginSlot,
              EndSlot, FreeTask, BeginFrame, EndFrame, SpotifyStep, AudioStep, CbStep
<1>3. CASE \/ \E n \in Frames : MusicDelivery(n)
           \/ \E s \in Searches : Search(s) \/ SearchCompleted(s)
  BY <1>3, TaskFacts DEF MusicDelivery, Search, SearchCompleted, SpotifyStep, AudioStep,
                         CbStep
<1>4. CASE \/ \E a \in Actors, p \in Plays : play(a, p)
           \/ \E a \in Actors, s \in Searches : query(a, s) \/ Copy(s, a) \/ DropCopy(a, s)
  BY <1>4, TaskFacts DEF play, query, Copy, DropCopy, SpotifyStep, AudioStep, CbStep
<1>5. CASE Aside
  BY <1>5 DEF Aside, DestroyPlayer, SpuriousWakeup, vars, SpotifyStep, AudioStep, CbStep
<1> QED BY <1>1, <1>2, <1>3, <1>4, <1>5 DEF Next, Aside
-----------------------------------------------------------------------------
(***************************************************************************)
(* How far the threads and the owner's tasks are for where the owner is.   *)
(***************************************************************************)
\* A step that is not the owner's, nor the start or the end of a thread.
Elsewhere ==
  /\ UNCHANGED <<life, spPhase, auPhase, cbPhase>>
  /\ \/ UNCHANGED spotifyVars
     \/ \E t \in SpotifyTasks : Spotify!Run(t)
     \/ \E t \in SpotifyTasks : post(t) /\ \A f \in OwnFuns : t # Own(f)

LEMMA PhasesKept ==
  /\ \A t : post(t) \/ Spotify!Run(t) => spPhase' = spPhase
  /\ \A n : Audio!Run(n) \/ Audio!Post(n, Audio!Waiting, "prompt") => auPhase' = auPhase
  /\ \A s : Cb!Run(s) \/ Cb!Post(s, Cb!Waiting, "prompt") => cbPhase' = cbPhase
BY DEF post, Spotify!Post, Spotify!Run, Audio!Post, Audio!Run, Cb!Post, Cb!Run

LEMMA Cases ==
  [Next]_vars =>
    StartThreads \/ Construct \/ Destruct \/ StopThreads \/ StartOrEnd \/ Elsewhere
<1> SUFFICES ASSUME [Next]_vars
             PROVE  \/ StartThreads \/ Construct \/ Destruct \/ StopThreads \/ StartOrEnd
                    \/ Elsewhere
  OBVIOUS
<1>1. CASE SpotifyThread
  <2>1. PICK t \in SpotifyTasks : RunSpotify(t)
    BY <1>1 DEF SpotifyThread
  <2> QED BY <2>1, PhasesKept DEF RunSpotify, Elsewhere, audioVars, cbVars
<1>2. CASE CbThread \/ AudioThread
  BY <1>2, PhasesKept DEF CbThread, AudioThread, BeginSlot, EndSlot, FreeTask, BeginFrame,
     EndFrame, Elsewhere, spotifyVars, audioVars, cbVars
<1>3. CASE \E n \in Frames : MusicDelivery(n)
  BY <1>3, PhasesKept DEF MusicDelivery, Elsewhere, spotifyVars, cbVars
<1>4. CASE \E s \in Searches : SearchCompleted(s)
  BY <1>4, PhasesKept DEF SearchCompleted, Elsewhere, spotifyVars, audioVars, cbVars
<1>5. CASE \E s \in Searches : Search(s)
  <2>1. PICK s \in Searches : Search(s)
    BY <1>5
  <2>2. /\ Task("search", "owner", s) \in SpotifyTasks
        /\ \A f \in OwnFuns : Task("search", "owner", s) # Own(f)
    BY TaskFacts DEF OwnFuns
  <2> QED BY <2>1, <2>2, PhasesKept DEF Search, Elsewhere, audioVars, cbVars
<1>6. CASE \E a \in Actors, p \in Plays : play(a, p)
  <2>1. PICK a \in Actors, p \in Plays : play(a, p)
    BY <1>6
  <2>2. /\ Task("play", a, p) \in SpotifyTasks
        /\ \A f \in OwnFuns : Task("play", a, p) # Own(f)
    BY TaskFacts DEF OwnFuns
  <2> QED BY <2>1, <2>2, PhasesKept DEF play, Elsewhere, audioVars, cbVars
<1>7. CASE \E a \in Actors, s \in Searches : query(a, s)
  <2>1. PICK a \in Actors, s \in Searches : query(a, s)
    BY <1>7
  <2>2. /\ Task("query", a, s) \in SpotifyTasks
        /\ \A f \in OwnFuns : Task("query", a, s) # Own(f)
    BY TaskFacts DEF OwnFuns
  <2> QED BY <2>1, <2>2, PhasesKept DEF query, Elsewhere, audioVars, cbVars
<1>8. CASE \E a \in Actors, s \in Searches : Copy(s, a) \/ DropCopy(a, s)
  BY <1>8 DEF Copy, DropCopy, Elsewhere, spotifyVars, audioVars, cbVars
<1>9. CASE Aside
  BY <1>9 DEF Aside, DestroyPlayer, SpuriousWakeup, vars, Elsewhere, spotifyVars, audioVars,
              cbVars
<1> QED BY <1>1, <1>2, <1>3, <1>4, <1>5, <1>6, <1>7, <1>8, <1>9 DEF Next, Aside

LEMMA PhaseStep == TypeOK /\ PhaseInv /\ [Next]_vars => PhaseInv'
<1> SUFFICES ASSUME TypeOK, PhaseInv, [Next]_vars PROVE PhaseInv'
  OBVIOUS
<1> USE DEF Early, Late
<1>0. /\ life \in Lives
      /\ spPhase \in {"off", "starting", "on", "stopping"}
      /\ auPhase \in {"off", "starting", "on", "stopping"}
      /\ cbPhase \in {"off", "starting", "on", "stopping"}
  BY DEF TypeOK, Spotify!WorkerTypeOK, Audio!WorkerTypeOK, Cb!WorkerTypeOK
<1>1. CASE StartThreads
  BY <1>1 DEF PhaseInv, StartThreads, Spotify!Start, Audio!Start, Cb!Start, spotifyVars,
              audioVars, cbVars
<1>2. CASE Construct
  BY <1>2, PhasesKept DEF PhaseInv, Construct, spotifyVars, audioVars, cbVars
<1>3. CASE Destruct
  BY <1>3, PhasesKept DEF PhaseInv, Destruct, Cb!Stop, spotifyVars, audioVars, cbVars
<1>4. CASE StopThreads
  BY <1>4 DEF PhaseInv, StopThreads, Spotify!Stop, Audio!Stop, spotifyVars, audioVars, cbVars
<1>5. CASE StartOrEnd
  <2>0. life' = life
    BY <1>5 DEF StartOrEnd
  <2>1. CASE (Spotify!Up \/ Spotify!Down) /\ UNCHANGED <<audioVars, cbVars>>
    BY <2>0, <2>1, <1>0 DEF PhaseInv, Spotify!Up, Spotify!Down, audioVars, cbVars, Lives
  <2>2. CASE (Audio!Up \/ Audio!Down) /\ UNCHANGED <<spotifyVars, cbVars>>
    BY <2>0, <2>2, <1>0 DEF PhaseInv, Audio!Up, Audio!Down, spotifyVars, cbVars, Lives
  <2>3. CASE (Cb!Up \/ Cb!Down) /\ UNCHANGED <<spotifyVars, audioVars>>
    BY <2>0, <2>3, <1>0 DEF PhaseInv, Cb!Up, Cb!Down, spotifyVars, audioVars, Lives
  <2> QED BY <1>5, <2>1, <2>2, <2>3 DEF StartOrEnd
<1>6. CASE Elsewhere
  BY <1>6 DEF PhaseInv, Elsewhere
<1> QED BY <1>1, <1>2, <1>3, <1>4, <1>5, <1>6, Cases

\* The owner's plays left without a player wait until they are run.
LEMMA OrphanCases ==
  ASSUME [Next]_vars
  PROVE  \/ \E t \in SpotifyTasks : Spotify!Run(t) /\ orphans' = orphans \ {t}
         \/ DestroyPlayer
         \/ /\ orphans' = orphans
            /\ \/ UNCHANGED spotifyVars \/ Spotify!Start \/ Spotify!Up \/ Spotify!Stop
               \/ Spotify!Down \/ \E t \in SpotifyTasks : post(t)
<1>1. CASE StartThreads \/ Construct \/ Destruct \/ StopThreads
  <2>1. \A f \in OwnFuns : Own(f) \in SpotifyTasks
    BY TaskFacts DEF OwnFuns
  <2> QED BY <1>1, <2>1 DEF StartThreads, Construct, Destruct, StopThreads, OwnFuns, actorVars
<1>2. CASE SpotifyThread \/ CbThread \/ AudioThread \/ StartOrEnd
  BY <1>2 DEF SpotifyThread, CbThread, AudioThread, StartOrEnd, RunSpotify, BeginSlot,
              EndSlot, FreeTask, BeginFrame, EndFrame, actorVars
<1>3. CASE \/ \E n \in Frames : MusicDelivery(n)
           \/ \E s \in Searches : Search(s) \/ SearchCompleted(s)
  BY <1>3, TaskFacts DEF MusicDelivery, Search, SearchCompleted, actorVars
<1>4. CASE \/ \E a \in Actors, p \in Plays : play(a, p)
           \/ \E a \in Actors, s \in Searches : query(a, s) \/ Copy(s, a) \/ DropCopy(a, s)
  BY <1>4, TaskFacts DEF play, query, Copy, DropCopy, actorVars
<1>5. CASE Aside
  BY <1>5 DEF Aside, SpuriousWakeup, vars, actorVars
<1> QED BY <1>1, <1>2, <1>3, <1>4, <1>5 DEF Next, Aside

LEMMA OrphanStep ==
  TypeOK /\ [Next]_vars => orphans' \subseteq OwnPlays \cap Spotify!Waiting'
<1> SUFFICES ASSUME TypeOK, [Next]_vars
             PROVE  orphans' \subseteq OwnPlays \cap Spotify!Waiting'
  OBVIOUS
<1>0. Spotify!WorkerTypeOK /\ orphans \subseteq OwnPlays \cap Spotify!Waiting
  BY DEF TypeOK
<1>1. ASSUME NEW t \in SpotifyTasks, Spotify!Run(t)
      PROVE  Spotify!Waiting \ {t} \subseteq Spotify!Waiting'
  <2>1. spStatus' = [spStatus EXCEPT ![t] = "ran"]
    BY <1>0, <1>1, RunEffect
  <2> QED BY <1>0, <2>1 DEF Spotify!Waiting, Spotify!WorkerTypeOK
<1>2. ASSUME NEW t \in SpotifyTasks, post(t)
      PROVE  Spotify!Waiting \subseteq Spotify!Waiting'
  <2>1. spStatus' = [spStatus EXCEPT ![t] = "prompt"]
    BY <1>0, <1>2, PostEffect
  <2> QED BY <1>0, <2>1 DEF Spotify!Waiting, Spotify!WorkerTypeOK, Spotify!Kinds
<1>3. UNCHANGED spotifyVars \/ Spotify!Start \/ Spotify!Up \/ Spotify!Stop \/ Spotify!Down
      => Spotify!Waiting' = Spotify!Waiting
  BY <1>0 DEF spotifyVars, Spotify!Start, Spotify!Up, Spotify!Stop, Spotify!Down,
              Spotify!Waiting, Spotify!Kinds, Spotify!WorkerTypeOK
<1>4. DestroyPlayer => orphans' \subseteq OwnPlays \cap Spotify!Waiting'
  BY <1>3 DEF DestroyPlayer
<1> QED BY <1>0, <1>1, <1>2, <1>3, <1>4, OrphanCases

LEMMA TypeStep == TypeOK /\ PhaseInv /\ [Next]_vars => TypeOK'
<1> SUFFICES ASSUME TypeOK, PhaseInv, [Next]_vars PROVE TypeOK'
  OBVIOUS
<1>1. /\ SpotifyStep /\ AudioStep /\ CbStep /\ RestOK' /\ PhaseInv'
      /\ orphans' \subseteq OwnPlays \cap Spotify!Waiting'
  BY ThreadSteps, RestStep, PhaseStep, OrphanStep
<1>2. Spotify!WorkerTypeOK'
  BY <1>1, TypeParts, PostEffect, RunEffect, ControlTypes, Untouched DEF SpotifyStep
<1>3. Audio!WorkerTypeOK'
  BY <1>1, TypeParts, OtherPostEffect, FrameRunEffect, ControlTypes, Untouched
  DEF AudioStep
<1>4. Cb!WorkerTypeOK'
  BY <1>1, TypeParts, OtherPostEffect, SlotRunEffect, ControlTypes, Untouched DEF CbStep
<1> QED BY <1>1, <1>2, <1>3, <1>4 DEF TypeOK, RestOK, PhaseInv

\* Every variable keeps its type, for any searches, plays and number of frames, and no
\* thread is left running outside the life of the program's threads.
THEOREM TypeCorrect == Spec => []TypeOK
<1>1. Init => PhaseInv
  BY DEF Init, Spotify!Init, Audio!Init, Cb!Init, PhaseInv, Early, Late
<1> QED BY <1>1, TypeInit, TypeStep, PhaseStep, PTL DEF Spec

\* A post by the owner, or the return of a get(), and the owner's other tasks.
LEMMA OwnStep == TypeOK /\ OwnInv /\ [Next]_vars => OwnInv'
<1> SUFFICES ASSUME TypeOK, OwnInv, [Next]_vars PROVE OwnInv'
  OBVIOUS
<1> USE DEF Early, Late
<1>0. /\ \A f \in OwnFuns : Own(f) \in SpotifyTasks
      /\ \A f, g \in OwnFuns : Own(f) = Own(g) => f = g
      /\ Spotify!WorkerTypeOK /\ life \in Lives
  BY TaskFacts DEF OwnFuns, TypeOK
<1>1. CASE StartThreads
  <2>1. spStatus' = spStatus
    BY <1>1 DEF StartThreads, Spotify!Start, spotifyVars
  <2> QED BY <1>1, <2>1 DEF OwnInv, Ran, StartThreads
<1>2. ASSUME NEW f \in OwnFuns, post(Own(f))
      PROVE  /\ spStatus[Own(f)] = "new" /\ spStatus'[Own(f)] = "prompt"
             /\ \A g \in OwnFuns : g # f => spStatus'[Own(g)] = spStatus[Own(g)]
  <2>1. spStatus[Own(f)] = "new" /\ spStatus' = [spStatus EXCEPT ![Own(f)] = "prompt"]
    BY <1>0, <1>2, PostEffect
  <2> QED BY <1>0, <2>1 DEF Spotify!WorkerTypeOK
<1>3. CASE Construct
  <2>1. CASE life = "starting_cb" /\ life' = "creating" /\ post(Own("create_session"))
    BY <2>1, <1>2 DEF OwnInv, Ran, OwnFuns
  <2>2. CASE /\ life = "creating" /\ Ran(Own("create_session")) /\ life' = "alive"
             /\ UNCHANGED spotifyVars
    BY <2>2 DEF OwnInv, Ran, spotifyVars
  <2> QED BY <1>3, <2>1, <2>2 DEF Construct, Returned
<1>4. CASE Destruct
  <2>1. CASE life = "alive" /\ life' = "cancelling_events" /\ post(Own("cancel_events"))
    BY <2>1, <1>2 DEF OwnInv, Ran, OwnFuns
  <2>2. CASE /\ life = "cancelling_events" /\ Ran(Own("cancel_events"))
             /\ life' = "releasing" /\ post(Own("release"))
    BY <2>2, <1>2 DEF OwnInv, Ran, OwnFuns
  <2>3. CASE /\ life = "releasing" /\ Ran(Own("release"))
             /\ life' = "cancelling_notify" /\ post(Own("cancel_notify"))
    BY <2>3, <1>2 DEF OwnInv, Ran, OwnFuns
  <2>4. CASE /\ life = "cancelling_notify" /\ Ran(Own("cancel_notify"))
             /\ life' = "stopping_cb" /\ UNCHANGED spotifyVars
    BY <2>4 DEF OwnInv, Ran, spotifyVars
  <2>5. CASE life = "stopping_cb" /\ life' = "gone" /\ UNCHANGED spotifyVars
    BY <2>5 DEF OwnInv, Ran, spotifyVars
  <2> QED BY <1>4, <2>1, <2>2, <2>3, <2>4, <2>5 DEF Destruct, Returned
<1>5. CASE StopThreads
  <2>0. life \in Late /\ life' \in Late
    BY <1>5 DEF StopThreads
  <2>1. CASE UNCHANGED spotifyVars
    BY <2>0, <2>1 DEF OwnInv, Ran, spotifyVars
  <2>2. CASE Spotify!Stop
    <3>1. \A t \in SpotifyTasks :
            /\ spStatus'[t] = "new" <=> spStatus[t] = "new"
            /\ spStatus'[t] = "ran" <=> spStatus[t] = "ran"
      BY <2>2, <1>0 DEF Spotify!Stop, Spotify!WorkerTypeOK
    <3> QED BY <2>0, <3>1, <1>0 DEF OwnInv, Ran, OwnFuns
  <2> QED BY <1>5, <2>1, <2>2 DEF StopThreads
<1>6. CASE StartOrEnd
  BY <1>6 DEF StartOrEnd, Spotify!Up, Spotify!Down, spotifyVars, OwnInv, Ran
<1>7. CASE Elsewhere
  <2>0. life' = life
    BY <1>7 DEF Elsewhere
  <2> DEFINE Kept ==
        \A f \in OwnFuns :
          /\ spStatus'[Own(f)] = "new" <=> spStatus[Own(f)] = "new"
          /\ spStatus[Own(f)] = "ran" => spStatus'[Own(f)] = "ran"
  <2>1. Kept
    <3>1. CASE UNCHANGED spotifyVars
      BY <3>1 DEF spotifyVars
    <3>2. ASSUME NEW t \in SpotifyTasks, Spotify!Run(t)
          PROVE  Kept
      <4>1. spStatus' = [spStatus EXCEPT ![t] = "ran"] /\ spStatus[t] # "new"
        BY <1>0, <3>2, RunEffect DEF Spotify!Waiting, Spotify!Kinds
      <4> QED BY <1>0, <4>1 DEF Spotify!WorkerTypeOK
    <3>3. ASSUME NEW t \in SpotifyTasks, post(t), \A f \in OwnFuns : t # Own(f)
          PROVE  Kept
      BY <1>0, <3>3, PostEffect DEF Spotify!WorkerTypeOK
    <3> QED BY <1>7, <3>1, <3>2, <3>3 DEF Elsewhere
  <2> QED BY <2>0, <2>1 DEF OwnInv, Ran, OwnFuns
<1> QED BY <1>1, <1>3, <1>4, <1>5, <1>6, <1>7, Cases
-----------------------------------------------------------------------------
(***************************************************************************)
(* Posts, waits and slots.                                                 *)
(***************************************************************************)

LEMMA NotPosted ==
  ASSUME TypeOK
  PROVE  /\ \/ UNCHANGED spotifyVars \/ Spotify!Start \/ Spotify!Up \/ Spotify!Stop
            \/ Spotify!Down \/ \E t \in SpotifyTasks : Spotify!Run(t)
            => ~Posted(spStatus, spStatus')
         /\ \/ UNCHANGED audioVars \/ Audio!Start \/ Audio!Up \/ Audio!Stop
            \/ Audio!Down \/ \E n \in Frames : Audio!Run(n)
            => ~Posted(auStatus, auStatus')
         /\ \/ UNCHANGED cbVars \/ Cb!Start \/ Cb!Up \/ Cb!Stop
            \/ Cb!Down \/ \E s \in Searches : Cb!Run(s)
            => ~Posted(cbStatus, cbStatus')
<1>0. Spotify!WorkerTypeOK /\ Audio!WorkerTypeOK /\ Cb!WorkerTypeOK
  BY TypeParts
<1>1. ASSUME NEW t \in SpotifyTasks, Spotify!Run(t)
      PROVE  ~Posted(spStatus, spStatus')
  <2>1. spStatus' = [spStatus EXCEPT ![t] = "ran"] /\ spStatus[t] # "new"
    BY <1>0, <1>1, RunEffect DEF Spotify!Waiting, Spotify!Kinds
  <2> QED BY <1>0, <2>1 DEF Posted, Spotify!WorkerTypeOK
<1>2. ASSUME NEW n \in Frames, Audio!Run(n)
      PROVE  ~Posted(auStatus, auStatus')
  <2>1. auStatus' = [auStatus EXCEPT ![n] = "ran"] /\ auStatus[n] # "new"
    BY <1>0, <1>2, FrameRunEffect DEF Audio!Waiting, Audio!Kinds
  <2> QED BY <1>0, <2>1 DEF Posted, Audio!WorkerTypeOK
<1>3. ASSUME NEW s \in Searches, Cb!Run(s)
      PROVE  ~Posted(cbStatus, cbStatus')
  <2>1. cbStatus' = [cbStatus EXCEPT ![s] = "ran"] /\ cbStatus[s] # "new"
    BY <1>0, <1>3, SlotRunEffect DEF Cb!Waiting, Cb!Kinds
  <2> QED BY <1>0, <2>1 DEF Posted, Cb!WorkerTypeOK
<1>4. UNCHANGED spotifyVars \/ Spotify!Start \/ Spotify!Up \/ Spotify!Stop \/ Spotify!Down
      => ~Posted(spStatus, spStatus')
  BY <1>0 DEF Posted, Spotify!WorkerTypeOK, spotifyVars, Spotify!Start, Spotify!Up,
              Spotify!Stop, Spotify!Down
<1>5. UNCHANGED audioVars \/ Audio!Start \/ Audio!Up \/ Audio!Stop \/ Audio!Down
      => ~Posted(auStatus, auStatus')
  BY <1>0 DEF Posted, Audio!WorkerTypeOK, audioVars, Audio!Start, Audio!Up,
              Audio!Stop, Audio!Down
<1>6. UNCHANGED cbVars \/ Cb!Start \/ Cb!Up \/ Cb!Stop \/ Cb!Down
      => ~Posted(cbStatus, cbStatus')
  BY <1>0 DEF Posted, Cb!WorkerTypeOK, cbVars, Cb!Start, Cb!Up, Cb!Stop, Cb!Down
<1> QED BY <1>1, <1>2, <1>3, <1>4, <1>5, <1>6

\* Where the threads are on: a session that is alive, an actor in its code or slot.
LEMMA AllOn ==
  ASSUME TypeOK, PhaseInv, OwnInv, SlotInv, NothingDropped
  PROVE  /\ Live => auPhase = "on" /\ cbPhase = "on"
         /\ \A a \in Actors : Acts(a) => spPhase = "on"
<1> USE DEF Early, Late
<1>0. /\ life \in Lives
      /\ auPhase \in {"off", "starting", "on", "stopping"}
      /\ cbPhase \in {"off", "starting", "on", "stopping"}
  BY DEF TypeOK, Audio!WorkerTypeOK, Cb!WorkerTypeOK
<1>1. Live => auPhase = "on" /\ cbPhase = "on"
  BY <1>0 DEF Live, Ran, OwnInv, PhaseInv, Lives
<1>2. Acts("owner") => spPhase = "on"
  BY DEF Acts, PhaseInv
<1>3. slot # {} => cbPhase # "off"
  BY DEF SlotInv, NothingDropped
<1>4. frameSlot # {} => auPhase # "off"
  BY DEF SlotInv, NothingDropped
<1>5. cbPhase # "off" => spPhase = "on"
  BY <1>0 DEF PhaseInv, Lives
<1>6. auPhase # "off" => spPhase = "on"
  BY <1>0 DEF PhaseInv, Lives
<1> QED BY <1>1, <1>2, <1>3, <1>4, <1>5, <1>6 DEF Acts, Actors

\* A thread is on, not only there, whenever something is posted to it.
LEMMA PostsOn ==
  ASSUME TypeOK, PhaseInv, OwnInv, SlotInv, NothingDropped, [Next]_vars
  PROVE  /\ Posted(spStatus, spStatus') => spPhase = "on"
         /\ Posted(auStatus, auStatus') => auPhase = "on"
         /\ Posted(cbStatus, cbStatus') => cbPhase = "on"
<1> DEFINE On(p, old, new) == Posted(old, new) => p = "on"
           Goal == /\ On(spPhase, spStatus, spStatus') /\ On(auPhase, auStatus, auStatus')
                   /\ On(cbPhase, cbStatus, cbStatus')
<1> HIDE DEF On
<1>0. /\ ~Posted(spStatus, spStatus') => On(spPhase, spStatus, spStatus')
      /\ ~Posted(auStatus, auStatus') => On(auPhase, auStatus, auStatus')
      /\ ~Posted(cbStatus, cbStatus') => On(cbPhase, cbStatus, cbStatus')
      /\ spPhase = "on" => On(spPhase, spStatus, spStatus')
      /\ auPhase = "on" => On(auPhase, auStatus, auStatus')
      /\ cbPhase = "on" => On(cbPhase, cbStatus, cbStatus')
  BY DEF On
<1> SUFFICES Goal
  BY DEF On
<1>1. CASE StartThreads \/ StopThreads \/ StartOrEnd
  BY <1>0, <1>1, NotPosted DEF StartThreads, StopThreads, StartOrEnd
<1>2. CASE Construct \/ Destruct
  <2>1. spPhase = "on"
    BY <1>2 DEF Construct, Destruct, PhaseInv, Early, Late
  <2> QED BY <2>1, <1>0, <1>2, NotPosted DEF Construct, Destruct
<1>3. CASE SpotifyThread \/ CbThread \/ AudioThread
  <2>1. /\ UNCHANGED spotifyVars \/ \E t \in SpotifyTasks : Spotify!Run(t)
        /\ UNCHANGED audioVars \/ \E n \in Frames : Audio!Run(n)
        /\ UNCHANGED cbVars \/ \E s \in Searches : Cb!Run(s)
    BY <1>3 DEF SpotifyThread, CbThread, AudioThread, RunSpotify, BeginSlot, EndSlot,
                FreeTask, BeginFrame, EndFrame
  <2> QED BY <2>1, <1>0, NotPosted
<1>4. CASE \E n \in Frames : MusicDelivery(n)
  BY <1>0, <1>4, NotPosted, AllOn DEF MusicDelivery
<1>5. CASE \E s \in Searches : SearchCompleted(s)
  <2>1. Live /\ UNCHANGED <<spotifyVars, audioVars>>
    BY <1>5 DEF SearchCompleted
  <2> QED BY <1>0, <2>1, NotPosted, AllOn
<1>6. CASE \E s \in Searches : Search(s)
  <2>1. spPhase = "on"
    BY <1>6 DEF Search, PhaseInv, Early, Late
  <2> QED BY <2>1, <1>0, <1>6, NotPosted DEF Search
<1>7. CASE \/ \E a \in Actors, p \in Plays : play(a, p)
           \/ \E a \in Actors, s \in Searches : query(a, s)
  <2>1. (\E a \in Actors : Acts(a)) /\ UNCHANGED <<audioVars, cbVars>>
    BY <1>7 DEF play, query
  <2> QED BY <2>1, <1>0, NotPosted, AllOn
<1>8. CASE \/ \E a \in Actors, s \in Searches : Copy(s, a) \/ DropCopy(a, s)
           \/ Aside
  BY <1>0, <1>8, NotPosted DEF Copy, DropCopy, Aside, DestroyPlayer, SpuriousWakeup, vars
<1> QED BY <1>1, <1>2, <1>3, <1>4, <1>5, <1>6, <1>7, <1>8 DEF Next, Aside

LEMMA KindStep == TypeOK /\ KindInv /\ [Next]_vars => KindInv'
<1> SUFFICES ASSUME TypeOK, KindInv, [Next]_vars PROVE KindInv'
  OBVIOUS
<1>0. SpotifyStep /\ AudioStep /\ CbStep
  BY ThreadSteps
<1>1. Spotify!WorkerTypeOK /\ Audio!WorkerTypeOK /\ Cb!WorkerTypeOK
  BY TypeParts
<1>2. \A t \in SpotifyTasks : spStatus'[t] \in Kind
  <2>1. ASSUME NEW t \in SpotifyTasks, post(t) \/ Spotify!Run(t)
        PROVE  \A u \in SpotifyTasks : spStatus'[u] \in Kind
    BY <1>1, <2>1, PostEffect, RunEffect DEF KindInv, Kind, Spotify!WorkerTypeOK
  <2>2. UNCHANGED spotifyVars \/ Spotify!Start \/ Spotify!Up \/ Spotify!Stop \/ Spotify!Down
        => \A u \in SpotifyTasks : spStatus'[u] \in Kind
    BY <1>1 DEF KindInv, Kind, spotifyVars, Spotify!Start, Spotify!Up, Spotify!Stop,
                Spotify!Down
  <2> QED BY <1>0, <2>1, <2>2 DEF SpotifyStep
<1>3. \A n \in Frames : auStatus'[n] \in Kind
  <2>1. ASSUME NEW n \in Frames, Audio!Post(n, Audio!Waiting, "prompt") \/ Audio!Run(n)
        PROVE  \A m \in Frames : auStatus'[m] \in Kind
    BY <1>1, <2>1, OtherPostEffect, FrameRunEffect DEF KindInv, Kind, Audio!WorkerTypeOK
  <2>2. UNCHANGED audioVars \/ Audio!Start \/ Audio!Up \/ Audio!Stop \/ Audio!Down
        => \A m \in Frames : auStatus'[m] \in Kind
    BY <1>1 DEF KindInv, Kind, audioVars, Audio!Start, Audio!Up, Audio!Stop, Audio!Down
  <2> QED BY <1>0, <2>1, <2>2 DEF AudioStep
<1>4. \A s \in Searches : cbStatus'[s] \in Kind
  <2>1. ASSUME NEW s \in Searches, Cb!Post(s, Cb!Waiting, "prompt") \/ Cb!Run(s)
        PROVE  \A u \in Searches : cbStatus'[u] \in Kind
    BY <1>1, <2>1, OtherPostEffect, SlotRunEffect DEF KindInv, Kind, Cb!WorkerTypeOK
  <2>2. UNCHANGED cbVars \/ Cb!Start \/ Cb!Up \/ Cb!Stop \/ Cb!Down
        => \A u \in Searches : cbStatus'[u] \in Kind
    BY <1>1 DEF KindInv, Kind, cbVars, Cb!Start, Cb!Up, Cb!Stop, Cb!Down
  <2> QED BY <1>0, <2>1, <2>2 DEF CbStep
<1> QED BY <1>2, <1>3, <1>4 DEF KindInv

\* What holds of each thread, of the spotify thread for instance, by NothingDropped.
SpotifySettled ==
  /\ spPhase = "off" => Spotify!Waiting = {}
  /\ spPhase = "stopping" => \A t \in Spotify!Waiting : spStatus[t] = "owed"
AudioSettled ==
  /\ auPhase = "off" => Audio!Waiting = {}
  /\ auPhase = "stopping" => \A n \in Audio!Waiting : auStatus[n] = "owed"
CbSettled ==
  /\ cbPhase = "off" => Cb!Waiting = {}
  /\ cbPhase = "stopping" => \A s \in Cb!Waiting : cbStatus[s] = "owed"

LEMMA SettledParts ==
  TypeOK => (NothingDropped <=> SpotifySettled /\ AudioSettled /\ CbSettled)
<1> SUFFICES ASSUME TypeOK
             PROVE  NothingDropped <=> SpotifySettled /\ AudioSettled /\ CbSettled
  OBVIOUS
<1>1. /\ DOMAIN spStatus = SpotifyTasks /\ Spotify!Waiting \subseteq SpotifyTasks
      /\ DOMAIN auStatus = Frames /\ Audio!Waiting \subseteq Frames
      /\ DOMAIN cbStatus = Searches /\ Cb!Waiting \subseteq Searches
  BY DEF TypeOK, Spotify!WorkerTypeOK, Audio!WorkerTypeOK, Cb!WorkerTypeOK,
         Spotify!Waiting, Audio!Waiting, Cb!Waiting
<1> QED BY <1>1 DEF NothingDropped, SpotifySettled, AudioSettled, CbSettled

LEMMA SettledStep ==
  TypeOK /\ PhaseInv /\ OwnInv /\ KindInv /\ SlotInv /\ NothingDropped /\ [Next]_vars
    => NothingDropped'
<1> SUFFICES ASSUME TypeOK, PhaseInv, OwnInv, KindInv, SlotInv, NothingDropped, [Next]_vars
             PROVE  NothingDropped'
  OBVIOUS
<1>0. /\ SpotifyStep /\ AudioStep /\ CbStep /\ TypeOK'
      /\ Spotify!WorkerTypeOK /\ Audio!WorkerTypeOK /\ Cb!WorkerTypeOK
      /\ SpotifySettled /\ AudioSettled /\ CbSettled
  BY ThreadSteps, TypeParts, TypeStep, SettledParts
<1>1. SpotifySettled'
  <2>1. ASSUME NEW t \in SpotifyTasks, post(t)
        PROVE  SpotifySettled'
    <3>1. /\ spStatus[t] = "new" /\ spStatus' = [spStatus EXCEPT ![t] = "prompt"]
          /\ spPhase' = spPhase
      BY <1>0, <2>1, PostEffect
    <3>2. Posted(spStatus, spStatus')
      BY <3>1, <1>0 DEF Posted, Spotify!WorkerTypeOK
    <3> QED BY <3>1, <3>2, PostsOn DEF SpotifySettled
  <2>2. ASSUME NEW t \in SpotifyTasks, Spotify!Run(t)
        PROVE  SpotifySettled'
    <3>1. spStatus' = [spStatus EXCEPT ![t] = "ran"] /\ spPhase' = spPhase /\ spPhase # "off"
      BY <1>0, <2>2, RunEffect
    <3> QED BY <3>1, <1>0 DEF SpotifySettled, Spotify!Waiting, Spotify!WorkerTypeOK,
                              Spotify!Kinds
  <2>3. CASE Spotify!Stop
    BY <1>0, <2>3 DEF SpotifySettled, Spotify!Stop, Spotify!Waiting, Spotify!Kinds,
                      Spotify!WorkerTypeOK, KindInv, Kind
  <2>4. CASE Spotify!Down
    BY <1>0, <2>4 DEF SpotifySettled, Spotify!Down, Spotify!Waiting
  <2>5. CASE UNCHANGED spotifyVars \/ Spotify!Start \/ Spotify!Up
    BY <1>0, <2>5 DEF SpotifySettled, Spotify!Start, Spotify!Up, Spotify!Waiting,
                      spotifyVars
  <2> QED BY <1>0, <2>1, <2>2, <2>3, <2>4, <2>5 DEF SpotifyStep
<1>2. AudioSettled'
  <2>1. ASSUME NEW n \in Frames, Audio!Post(n, Audio!Waiting, "prompt")
        PROVE  AudioSettled'
    <3>1. /\ auStatus[n] = "new" /\ auStatus' = [auStatus EXCEPT ![n] = "prompt"]
          /\ auPhase' = auPhase
      BY <1>0, <2>1, OtherPostEffect
    <3>2. Posted(auStatus, auStatus')
      BY <3>1, <1>0 DEF Posted, Audio!WorkerTypeOK
    <3> QED BY <3>1, <3>2, PostsOn DEF AudioSettled
  <2>2. ASSUME NEW n \in Frames, Audio!Run(n)
        PROVE  AudioSettled'
    <3>1. auStatus' = [auStatus EXCEPT ![n] = "ran"] /\ auPhase' = auPhase /\ auPhase # "off"
      BY <1>0, <2>2, FrameRunEffect
    <3> QED BY <3>1, <1>0 DEF AudioSettled, Audio!Waiting, Audio!WorkerTypeOK, Audio!Kinds
  <2>3. CASE Audio!Stop
    BY <1>0, <2>3 DEF AudioSettled, Audio!Stop, Audio!Waiting, Audio!Kinds,
                      Audio!WorkerTypeOK, KindInv, Kind
  <2>4. CASE Audio!Down
    BY <1>0, <2>4 DEF AudioSettled, Audio!Down, Audio!Waiting
  <2>5. CASE UNCHANGED audioVars \/ Audio!Start \/ Audio!Up
    BY <1>0, <2>5 DEF AudioSettled, Audio!Start, Audio!Up, Audio!Waiting, audioVars
  <2> QED BY <1>0, <2>1, <2>2, <2>3, <2>4, <2>5 DEF AudioStep
<1>3. CbSettled'
  <2>1. ASSUME NEW s \in Searches, Cb!Post(s, Cb!Waiting, "prompt")
        PROVE  CbSettled'
    <3>1. /\ cbStatus[s] = "new" /\ cbStatus' = [cbStatus EXCEPT ![s] = "prompt"]
          /\ cbPhase' = cbPhase
      BY <1>0, <2>1, OtherPostEffect
    <3>2. Posted(cbStatus, cbStatus')
      BY <3>1, <1>0 DEF Posted, Cb!WorkerTypeOK
    <3> QED BY <3>1, <3>2, PostsOn DEF CbSettled
  <2>2. ASSUME NEW s \in Searches, Cb!Run(s)
        PROVE  CbSettled'
    <3>1. cbStatus' = [cbStatus EXCEPT ![s] = "ran"] /\ cbPhase' = cbPhase /\ cbPhase # "off"
      BY <1>0, <2>2, SlotRunEffect DEF Cb!Run
    <3> QED BY <3>1, <1>0 DEF CbSettled, Cb!Waiting, Cb!WorkerTypeOK, Cb!Kinds
  <2>3. CASE Cb!Stop
    BY <1>0, <2>3 DEF CbSettled, Cb!Stop, Cb!Waiting, Cb!Kinds, Cb!WorkerTypeOK, KindInv,
                      Kind
  <2>4. CASE Cb!Down
    BY <1>0, <2>4 DEF CbSettled, Cb!Down, Cb!Waiting
  <2>5. CASE UNCHANGED cbVars \/ Cb!Start \/ Cb!Up
    BY <1>0, <2>5 DEF CbSettled, Cb!Start, Cb!Up, Cb!Waiting, cbVars
  <2> QED BY <1>0, <2>1, <2>2, <2>3, <2>4, <2>5 DEF CbStep
<1>4. (NothingDropped <=> SpotifySettled /\ AudioSettled /\ CbSettled)'
  BY <1>0, SettledParts, PTL
<1> QED BY <1>1, <1>2, <1>3, <1>4

\* A get() of query() or track() begins with its query(), and nowhere else.
LEMMA NewQuery ==
  ASSUME TypeOK, [Next]_vars, NEW a \in Actors, NEW s \in Searches,
         spStatus[Task("query", a, s)] \in {"new", "ran"},
         spStatus'[Task("query", a, s)] \notin {"new", "ran"}
  PROVE  query(a, s)
<1> DEFINE q == Task("query", a, s)
<1>0. /\ q \in SpotifyTasks /\ Spotify!WorkerTypeOK
      /\ \A f \in OwnFuns : Own(f) # q /\ Own(f) \in SpotifyTasks
      /\ \A u \in Searches : Task("search", "owner", u) # q
      /\ \A b \in Actors, p \in Plays : Task("play", b, p) # q
      /\ \A b \in Actors, u \in Searches : Task("query", b, u) = q => b = a /\ u = s
      /\ \A u \in Searches : Task("search", "owner", u) \in SpotifyTasks
      /\ \A b \in Actors, p \in Plays : Task("play", b, p) \in SpotifyTasks
      /\ \A b \in Actors, u \in Searches : Task("query", b, u) \in SpotifyTasks
  BY TaskFacts, TypeParts DEF OwnFuns
<1> HIDE DEF q
<1>1. spStatus[q] \in {"new", "ran"} /\ spStatus'[q] \notin {"new", "ran"}
  BY DEF q
<1>2. ASSUME NEW t \in SpotifyTasks, post(t), t # q PROVE FALSE
  <2>1. spStatus' = [spStatus EXCEPT ![t] = "prompt"]
    BY <1>0, <1>2, PostEffect
  <2> QED BY <1>0, <1>1, <1>2, <2>1 DEF Spotify!WorkerTypeOK
<1>3. ASSUME NEW t \in SpotifyTasks, Spotify!Run(t) PROVE FALSE
  <2>1. spStatus' = [spStatus EXCEPT ![t] = "ran"]
    BY <1>0, <1>3, RunEffect
  <2> QED BY <1>0, <1>1, <2>1 DEF Spotify!WorkerTypeOK
<1>4. \/ UNCHANGED spotifyVars \/ Spotify!Start \/ Spotify!Up \/ Spotify!Stop
      \/ Spotify!Down
      => FALSE
  BY <1>0, <1>1 DEF spotifyVars, Spotify!Start, Spotify!Up, Spotify!Stop, Spotify!Down,
                    Spotify!WorkerTypeOK
<1>5. \/ StartThreads \/ StopThreads \/ StartOrEnd \/ SpotifyThread \/ CbThread
      \/ AudioThread
      => FALSE
  BY <1>3, <1>4 DEF StartThreads, StopThreads, StartOrEnd, SpotifyThread, RunSpotify,
     CbThread, BeginSlot, EndSlot, FreeTask, AudioThread, BeginFrame, EndFrame
<1>6. Construct \/ Destruct => FALSE
  BY <1>0, <1>2, <1>4 DEF Construct, Destruct, OwnFuns
<1>7. (\E n \in Frames : MusicDelivery(n)) => FALSE
  BY <1>4 DEF MusicDelivery
<1>8. (\E u \in Searches : Search(u) \/ SearchCompleted(u)) => FALSE
  BY <1>0, <1>2, <1>4 DEF Search, SearchCompleted
<1>9. (\E b \in Actors, p \in Plays : play(b, p)) => FALSE
  BY <1>0, <1>2 DEF play
<1>10. (\E b \in Actors, u \in Searches : query(b, u)) => query(a, s)
  <2>1. ASSUME NEW b \in Actors, NEW u \in Searches, query(b, u) PROVE query(a, s)
    <3>1. Task("query", b, u) = q
      BY <1>0, <1>2, <2>1 DEF query
    <3>2. b = a /\ u = s
      BY <1>0, <3>1
    <3> QED BY <2>1, <3>2
  <2> QED BY <2>1
<1>11. (\E b \in Actors, u \in Searches : Copy(u, b) \/ DropCopy(b, u)) => FALSE
  BY <1>4 DEF Copy, DropCopy
<1>12. Aside => FALSE
  BY <1>4 DEF Aside, DestroyPlayer, SpuriousWakeup, vars
<1> QED
  BY <1>5, <1>6, <1>7, <1>8, <1>9, <1>10, <1>11, <1>12 DEF Next, Aside

\* An actor that asks after a step asked before it, or acted and is where it was.
LEMMA NewAsk ==
  ASSUME TypeOK, [Next]_vars, NEW a \in Actors, Asks(a)'
  PROVE  Asks(a) \/ (Acts(a) /\ UNCHANGED <<life, slot, frameSlot>>)
<1>1. PICK s \in Searches : spStatus'[Task("query", a, s)] \notin {"new", "ran"}
  BY DEF Asks
<1>2. CASE spStatus[Task("query", a, s)] \in {"new", "ran"}
  BY <1>1, <1>2, NewQuery DEF query
<1>3. CASE spStatus[Task("query", a, s)] \notin {"new", "ran"}
  BY <1>3 DEF Asks
<1> QED BY <1>2, <1>3

\* A get() misses its wakeup when its task is run.
LEMMA SleepCases ==
  ASSUME [Next]_vars
  PROVE  \/ asleep' \subseteq asleep
         \/ \E t \in SpotifyTasks :
              RunSpotify(t) /\ HasHandle(t) /\ asleep' \subseteq asleep \cup {t.by}
<1>1. CASE StartThreads \/ Construct \/ Destruct \/ StopThreads \/ StartOrEnd
  BY <1>1 DEF StartThreads, Construct, Destruct, StopThreads, StartOrEnd, actorVars
<1>2. CASE SpotifyThread
  BY <1>2 DEF SpotifyThread, RunSpotify, MakeReady
<1>3. CASE CbThread \/ AudioThread
  BY <1>3 DEF CbThread, AudioThread, BeginSlot, EndSlot, FreeTask, BeginFrame, EndFrame,
              actorVars
<1>4. CASE \/ \E n \in Frames : MusicDelivery(n)
           \/ \E s \in Searches : Search(s) \/ SearchCompleted(s)
  BY <1>4 DEF MusicDelivery, Search, SearchCompleted, actorVars
<1>5. CASE \/ \E a \in Actors, p \in Plays : play(a, p)
           \/ \E a \in Actors, s \in Searches : query(a, s) \/ Copy(s, a) \/ DropCopy(a, s)
  BY <1>5 DEF play, query, Copy, DropCopy, actorVars
<1>6. CASE Aside
  BY <1>6 DEF Aside, DestroyPlayer, SpuriousWakeup, vars, actorVars
<1> QED BY <1>1, <1>2, <1>3, <1>4, <1>5, <1>6 DEF Next, Aside

\* Who sleeps after a step slept before it, or it asked, or is the owner with a task.
LEMMA NewSleep ==
  ASSUME TypeOK, OwnInv, [Next]_vars, NEW a \in Actors, a \in asleep', a \notin asleep
  PROVE  /\ UNCHANGED <<life, slot, frameSlot>>
         /\ Asks(a) \/ (a = "owner" /\ life \in Calling)
<1>1. PICK t \in SpotifyTasks :
        RunSpotify(t) /\ HasHandle(t) /\ asleep' \subseteq asleep \cup {t.by}
  BY SleepCases
<1>2. t.by = a /\ UNCHANGED <<life, slot, frameSlot>>
  BY <1>1 DEF RunSpotify
<1>3. t \in Spotify!Waiting /\ spStatus[t] \notin {"new", "ran"}
  BY <1>1, RunEffect, TypeParts DEF RunSpotify, Spotify!Waiting, Spotify!Kinds
<1>4. \/ \E f \in OwnFuns : t = Own(f)
      \/ \E b \in Actors, s \in Searches : t = Task("query", b, s)
  BY <1>1 DEF SpotifyTasks, HasHandle, Task, OwnFuns
<1>5. ASSUME NEW b \in Actors, NEW s \in Searches, t = Task("query", b, s)
      PROVE  Asks(a)
  <2>1. b = a
    BY <1>2, <1>5 DEF Task
  <2> QED BY <1>3, <1>5, <2>1 DEF Asks
<1>6. ASSUME NEW f \in OwnFuns, t = Own(f)
      PROVE  a = "owner" /\ life \in Calling
  <2>1. a = "owner"
    BY <1>2, <1>6 DEF Own, Task
  <2>2. spStatus[Own(f)] # "new" /\ ~Ran(Own(f)) /\ life \in Lives
    BY <1>3, <1>6 DEF Ran, TypeOK
  <2>3. life \in Calling
    BY <2>2 DEF OwnFuns, OwnInv, Early, Late, Lives, Calling
  <2> QED BY <2>1, <2>3
<1> QED BY <1>2, <1>4, <1>5, <1>6

\* What waits on cb_thread or the audio thread waits until it is run.
LEMMA WaitingKept ==
  ASSUME TypeOK, [Next]_vars
  PROVE  /\ \A s \in Cb!Waiting : s \in Cb!Waiting' \/ Cb!Run(s)
         /\ \A n \in Audio!Waiting : n \in Audio!Waiting' \/ Audio!Run(n)
<1>0. AudioStep /\ CbStep /\ Audio!WorkerTypeOK /\ Cb!WorkerTypeOK
  BY ThreadSteps, TypeParts
<1>1. ASSUME NEW s \in Cb!Waiting, s \notin Cb!Waiting' PROVE Cb!Run(s)
  <2>0. s \in Searches /\ cbStatus[s] # "new"
    BY <1>1 DEF Cb!Waiting, Cb!Kinds
  <2>1. UNCHANGED cbVars \/ Cb!Start \/ Cb!Up \/ Cb!Stop \/ Cb!Down => FALSE
    BY <1>0, <1>1, <2>0 DEF cbVars, Cb!Start, Cb!Up, Cb!Stop, Cb!Down, Cb!Waiting, Cb!Kinds,
                       Cb!WorkerTypeOK
  <2>2. ASSUME NEW u \in Searches, Cb!Post(u, Cb!Waiting, "prompt") PROVE FALSE
    <3>1. cbStatus[u] = "new" /\ cbStatus' = [cbStatus EXCEPT ![u] = "prompt"]
      BY <1>0, <2>2, OtherPostEffect
    <3> QED BY <1>0, <1>1, <2>0, <3>1 DEF Cb!Waiting, Cb!WorkerTypeOK
  <2>3. ASSUME NEW u \in Searches, Cb!Run(u) PROVE u = s
    <3>1. cbStatus' = [cbStatus EXCEPT ![u] = "ran"]
      BY <1>0, <2>3, SlotRunEffect
    <3> QED BY <1>0, <1>1, <2>0, <3>1 DEF Cb!Waiting, Cb!WorkerTypeOK
  <2> QED BY <1>0, <2>1, <2>2, <2>3 DEF CbStep
<1>2. ASSUME NEW n \in Audio!Waiting, n \notin Audio!Waiting' PROVE Audio!Run(n)
  <2>0. n \in Frames /\ auStatus[n] # "new"
    BY <1>2 DEF Audio!Waiting, Audio!Kinds
  <2>1. UNCHANGED audioVars \/ Audio!Start \/ Audio!Up \/ Audio!Stop \/ Audio!Down => FALSE
    BY <1>0, <1>2, <2>0 DEF audioVars, Audio!Start, Audio!Up, Audio!Stop, Audio!Down,
                       Audio!Waiting, Audio!Kinds, Audio!WorkerTypeOK
  <2>2. ASSUME NEW m \in Frames, Audio!Post(m, Audio!Waiting, "prompt") PROVE FALSE
    <3>1. auStatus[m] = "new" /\ auStatus' = [auStatus EXCEPT ![m] = "prompt"]
      BY <1>0, <2>2, OtherPostEffect
    <3> QED BY <1>0, <1>2, <2>0, <3>1 DEF Audio!Waiting, Audio!WorkerTypeOK
  <2>3. ASSUME NEW m \in Frames, Audio!Run(m) PROVE m = n
    <3>1. auStatus' = [auStatus EXCEPT ![m] = "ran"]
      BY <1>0, <2>3, FrameRunEffect
    <3> QED BY <1>0, <1>2, <2>0, <3>1 DEF Audio!Waiting, Audio!WorkerTypeOK
  <2> QED BY <1>0, <2>1, <2>2, <2>3 DEF AudioStep
<1> QED BY <1>1, <1>2

\* A task of cb_thread or the audio thread is run when its slot ends.
LEMMA SlotRuns ==
  ASSUME TypeOK, [Next]_vars, NEW s \in Searches, Cb!Run(s)
  PROVE  EndSlot(s)
<1>0. /\ s \in Cb!Waiting /\ cbStatus' = [cbStatus EXCEPT ![s] = "ran"]
      /\ Cb!WorkerTypeOK
  BY SlotRunEffect, TypeParts
<1>1. cbStatus'[s] = "ran" /\ cbStatus[s] # "ran" /\ cbStatus[s] # "new"
  BY <1>0 DEF Cb!WorkerTypeOK, Cb!Waiting, Cb!Kinds
<1>2. UNCHANGED cbVars \/ Cb!Start \/ Cb!Up \/ Cb!Stop \/ Cb!Down => FALSE
  BY <1>0, <1>1 DEF cbVars, Cb!Start, Cb!Up, Cb!Stop, Cb!Down, Cb!WorkerTypeOK
<1>3. ASSUME NEW u \in Searches, Cb!Post(u, Cb!Waiting, "prompt") PROVE FALSE
  <2>1. cbStatus[u] = "new" /\ cbStatus' = [cbStatus EXCEPT ![u] = "prompt"]
    BY <1>0, <1>3, OtherPostEffect
  <2> QED BY <1>0, <1>1, <2>1 DEF Cb!WorkerTypeOK
<1>4. ASSUME NEW u \in Searches, EndSlot(u) PROVE u = s
  <2>1. cbStatus' = [cbStatus EXCEPT ![u] = "ran"]
    BY <1>0, <1>4, SlotRunEffect DEF EndSlot
  <2> QED BY <1>0, <1>1, <2>1 DEF Cb!WorkerTypeOK
<1>5. \E u \in Searches : EndSlot(u)
  <2>1. StartThreads \/ Construct \/ Destruct \/ StopThreads \/ StartOrEnd => FALSE
    BY <1>2 DEF StartThreads, Construct, Destruct, StopThreads, StartOrEnd
  <2>2. SpotifyThread \/ AudioThread \/ Aside => FALSE
    BY <1>2 DEF SpotifyThread, RunSpotify, AudioThread, BeginFrame, EndFrame, Aside,
                DestroyPlayer, SpuriousWakeup, vars
  <2>3. (\E u \in Searches : BeginSlot(u) \/ FreeTask(u) \/ Search(u)) => FALSE
    BY <1>2 DEF BeginSlot, FreeTask, Search
  <2>4. (\E u \in Searches : SearchCompleted(u)) => FALSE
    BY <1>2, <1>3 DEF SearchCompleted
  <2>5. (\E n \in Frames : MusicDelivery(n)) => FALSE
    BY <1>2 DEF MusicDelivery
  <2>6. \/ \E a \in Actors, p \in Plays : play(a, p)
        \/ \E a \in Actors, u \in Searches : query(a, u) \/ Copy(u, a) \/ DropCopy(a, u)
        => FALSE
    BY <1>2 DEF play, query, Copy, DropCopy
  <2> QED BY <2>1, <2>2, <2>3, <2>4, <2>5, <2>6 DEF Next, CbThread, Aside
<1> QED BY <1>4, <1>5

LEMMA FrameRuns ==
  ASSUME TypeOK, [Next]_vars, NEW n \in Frames, Audio!Run(n)
  PROVE  EndFrame(n)
<1>0. /\ n \in Audio!Waiting /\ auStatus' = [auStatus EXCEPT ![n] = "ran"]
      /\ Audio!WorkerTypeOK
  BY FrameRunEffect, TypeParts
<1>1. auStatus'[n] = "ran" /\ auStatus[n] # "ran" /\ auStatus[n] # "new"
  BY <1>0 DEF Audio!WorkerTypeOK, Audio!Waiting, Audio!Kinds
<1>2. UNCHANGED audioVars \/ Audio!Start \/ Audio!Up \/ Audio!Stop \/ Audio!Down => FALSE
  BY <1>0, <1>1 DEF audioVars, Audio!Start, Audio!Up, Audio!Stop, Audio!Down,
                    Audio!WorkerTypeOK
<1>3. ASSUME NEW m \in Frames, Audio!Post(m, Audio!Waiting, "prompt") PROVE FALSE
  <2>1. auStatus[m] = "new" /\ auStatus' = [auStatus EXCEPT ![m] = "prompt"]
    BY <1>0, <1>3, OtherPostEffect
  <2> QED BY <1>0, <1>1, <2>1 DEF Audio!WorkerTypeOK
<1>4. ASSUME NEW m \in Frames, EndFrame(m) PROVE m = n
  <2>1. auStatus' = [auStatus EXCEPT ![m] = "ran"]
    BY <1>0, <1>4, FrameRunEffect DEF EndFrame
  <2> QED BY <1>0, <1>1, <2>1 DEF Audio!WorkerTypeOK
<1>5. \E m \in Frames : EndFrame(m)
  <2>1. StartThreads \/ Construct \/ Destruct \/ StopThreads \/ StartOrEnd => FALSE
    BY <1>2 DEF StartThreads, Construct, Destruct, StopThreads, StartOrEnd
  <2>2. SpotifyThread \/ CbThread \/ Aside => FALSE
    BY <1>2 DEF SpotifyThread, RunSpotify, CbThread, BeginSlot, EndSlot, FreeTask, Aside,
                DestroyPlayer, SpuriousWakeup, vars
  <2>3. (\E m \in Frames : BeginFrame(m)) => FALSE
    BY <1>2 DEF BeginFrame
  <2>4. (\E m \in Frames : MusicDelivery(m)) => FALSE
    BY <1>3 DEF MusicDelivery
  <2>5. (\E s \in Searches : Search(s) \/ SearchCompleted(s)) => FALSE
    BY <1>2 DEF Search, SearchCompleted
  <2>6. \/ \E a \in Actors, p \in Plays : play(a, p)
        \/ \E a \in Actors, u \in Searches : query(a, u) \/ Copy(u, a) \/ DropCopy(a, u)
        => FALSE
    BY <1>2 DEF play, query, Copy, DropCopy
  <2> QED BY <2>1, <2>2, <2>3, <2>4, <2>5, <2>6 DEF Next, AudioThread, Aside
<1> QED BY <1>4, <1>5

\* How slot and frameSlot change, and where the owner goes from.
LEMMA SlotCases ==
  ASSUME [Next]_vars
  PROVE  /\ \/ slot' = slot
            \/ \E s \in Searches : BeginSlot(s) \/ EndSlot(s)
         /\ \/ frameSlot' = frameSlot
            \/ \E n \in Frames : BeginFrame(n) \/ EndFrame(n)
         /\ life' # life /\ life \in {"alive", "gone"} => ~Asks("owner")
         /\ life' # life /\ life \in Calling => "owner" \notin asleep
<1>1. CASE StartThreads \/ Construct \/ Destruct \/ StopThreads \/ StartOrEnd
  BY <1>1 DEF StartThreads, Construct, Destruct, StopThreads, StartOrEnd, Waits, Asks,
              Returned, Calling
<1>2. CASE SpotifyThread \/ Aside
  BY <1>2 DEF SpotifyThread, RunSpotify, Aside, DestroyPlayer, SpuriousWakeup, vars
<1>3. CASE CbThread
  BY <1>3 DEF CbThread, BeginSlot, EndSlot, FreeTask
<1>4. CASE AudioThread
  BY <1>4 DEF AudioThread, BeginFrame, EndFrame
<1>5. CASE \/ \E n \in Frames : MusicDelivery(n)
           \/ \E s \in Searches : Search(s) \/ SearchCompleted(s)
  BY <1>5 DEF MusicDelivery, Search, SearchCompleted
<1>6. CASE \/ \E a \in Actors, p \in Plays : play(a, p)
           \/ \E a \in Actors, s \in Searches : query(a, s) \/ Copy(s, a) \/ DropCopy(a, s)
  BY <1>6 DEF play, query, Copy, DropCopy
<1> QED BY <1>1, <1>2, <1>3, <1>4, <1>5, <1>6 DEF Next, Aside

\* The owner goes to no other place from which it can wait.
LEMMA LifeOfWait ==
  ASSUME SlotInv, [Next]_vars, Waits("owner")
  PROVE  life' = life /\ life \in Calling
BY SlotCases DEF SlotInv, Waits, Asks, Calling

LEMMA SlotStep == TypeOK /\ OwnInv /\ SlotInv /\ [Next]_vars => SlotInv'
<1> SUFFICES ASSUME TypeOK, OwnInv, SlotInv, [Next]_vars PROVE SlotInv'
  OBVIOUS
<1>1. \A s \in slot' : slot' = {s} /\ s \in Cb!Waiting'
  <2>1. CASE slot' = slot
    <3>1. ASSUME NEW s \in slot PROVE s \in Cb!Waiting'
      <4>1. s \in Cb!Waiting /\ slot = {s} /\ s \in Searches
        BY <3>1 DEF SlotInv, TypeOK
      <4>2. ~Cb!Run(s)
        BY <2>1, <4>1, SlotRuns DEF EndSlot
      <4> QED BY <4>1, <4>2, WaitingKept
    <3> QED BY <2>1, <3>1 DEF SlotInv
  <2>2. ASSUME NEW s \in Searches, BeginSlot(s)
        PROVE  slot' = {s} /\ s \in Cb!Waiting'
    BY <2>2 DEF BeginSlot, Cb!IsNext, Cb!Waiting, cbVars
  <2>3. ASSUME NEW s \in Searches, EndSlot(s)
        PROVE  slot' = {}
    BY <2>3 DEF EndSlot
  <2> QED BY <2>1, <2>2, <2>3, SlotCases
<1>2. \A n \in frameSlot' : frameSlot' = {n} /\ n \in Audio!Waiting'
  <2>1. CASE frameSlot' = frameSlot
    <3>1. ASSUME NEW n \in frameSlot PROVE n \in Audio!Waiting'
      <4>1. n \in Audio!Waiting /\ frameSlot = {n} /\ n \in Frames
        BY <3>1 DEF SlotInv, TypeOK
      <4>2. ~Audio!Run(n)
        BY <2>1, <4>1, FrameRuns DEF EndFrame
      <4> QED BY <4>1, <4>2, WaitingKept
    <3> QED BY <2>1, <3>1 DEF SlotInv
  <2>2. ASSUME NEW n \in Frames, BeginFrame(n)
        PROVE  frameSlot' = {n} /\ n \in Audio!Waiting'
    BY <2>2 DEF BeginFrame, Audio!IsNext, Audio!Waiting, audioVars
  <2>3. ASSUME NEW n \in Frames, EndFrame(n)
        PROVE  frameSlot' = {}
    BY <2>3 DEF EndFrame
  <2> QED BY <2>1, <2>2, <2>3, SlotCases
<1>3. Asks("owner")' => life' \in {"alive", "gone"}
  BY NewAsk, SlotCases DEF Actors, Acts, SlotInv
<1>4. "owner" \in asleep' => life' \in Calling
  BY NewSleep, LifeOfWait DEF Actors, Waits, SlotInv, Calling
<1>5. Waits("cb")' => slot' # {}
  <2>1. Waits("cb") /\ slot # {} => slot' # {}
    BY SlotCases DEF BeginSlot, EndSlot
  <2>2. Asks("cb")' => slot' # {}
    BY <2>1, NewAsk DEF Actors, Acts, SlotInv, Waits, Asks
  <2>3. "cb" \in asleep' => slot' # {}
    BY <2>1, NewSleep DEF Actors, SlotInv, Waits, Asks
  <2> QED BY <2>2, <2>3 DEF Waits, Asks
<1>6. Waits("audio")' => frameSlot' # {}
  <2>1. Waits("audio") /\ frameSlot # {} => frameSlot' # {}
    BY SlotCases DEF BeginFrame, EndFrame
  <2>2. Asks("audio")' => frameSlot' # {}
    BY <2>1, NewAsk DEF Actors, Acts, SlotInv, Waits, Asks
  <2>3. "audio" \in asleep' => frameSlot' # {}
    BY <2>1, NewSleep DEF Actors, SlotInv, Waits, Asks
  <2> QED BY <2>2, <2>3 DEF Waits, Asks
<1> QED BY <1>1, <1>2, <1>3, <1>4, <1>5, <1>6 DEF SlotInv
-----------------------------------------------------------------------------
(***************************************************************************)
(* The copies of the responses.                                            *)
(***************************************************************************)

\* A query that waits after a step waited before it, or was posted in it.
LEMMA WaitingQuery ==
  ASSUME TypeOK, KindInv, [Next]_vars, NEW a \in Actors, NEW s \in Searches,
         Task("query", a, s) \in Spotify!Waiting'
  PROVE  /\ Asks(a)'
         /\ query(a, s) \/ (Task("query", a, s) \in Spotify!Waiting /\ Asks(a))
<1> DEFINE q == Task("query", a, s)
<1>1. q \in SpotifyTasks
  BY TaskFacts
<1>2. spStatus'[q] \notin {"new", "ran"}
  BY DEF Spotify!Waiting, Spotify!Kinds
<1>3. CASE spStatus[q] \in {"new", "ran"}
  BY <1>2, <1>3, NewQuery DEF Asks
<1>4. CASE spStatus[q] \notin {"new", "ran"}
  <2>1. q \in Spotify!Waiting
    BY <1>1, <1>4 DEF KindInv, Kind, Spotify!Waiting, Spotify!Kinds
  <2> QED BY <1>2, <1>4, <2>1 DEF Asks
<1> QED BY <1>3, <1>4

\* Only search_completed() posts to cb_thread.
LEMMA OnlyCompleted ==
  ASSUME TypeOK, [Next]_vars, NEW s \in Searches
  PROVE  /\ s \in Cb!Waiting' => s \in Cb!Waiting \/ SearchCompleted(s)
         /\ cbStatus[s] = "new" => cbStatus'[s] = "new" \/ SearchCompleted(s)
<1> DEFINE Kept == /\ s \in Cb!Waiting' => s \in Cb!Waiting
                   /\ cbStatus[s] = "new" => cbStatus'[s] = "new"
<1>0. Cb!WorkerTypeOK
  BY TypeParts
<1>1. UNCHANGED cbVars \/ Cb!Start \/ Cb!Up \/ Cb!Stop \/ Cb!Down => Kept
  BY <1>0 DEF cbVars, Cb!Start, Cb!Up, Cb!Stop, Cb!Down, Cb!WorkerTypeOK, Cb!Waiting,
              Cb!Kinds
<1>2. ASSUME NEW u \in Searches, Cb!Run(u) PROVE Kept
  <2>1. u \in Cb!Waiting /\ cbStatus' = [cbStatus EXCEPT ![u] = "ran"]
    BY <1>0, <1>2, SlotRunEffect
  <2> QED BY <1>0, <2>1 DEF Cb!WorkerTypeOK, Cb!Waiting, Cb!Kinds
<1>3. ASSUME NEW u \in Searches, Cb!Post(u, Cb!Waiting, "prompt"), u # s PROVE Kept
  <2>1. cbStatus' = [cbStatus EXCEPT ![u] = "prompt"]
    BY <1>0, <1>3, OtherPostEffect
  <2> QED BY <1>0, <1>3, <2>1 DEF Cb!WorkerTypeOK, Cb!Waiting
<1> HIDE DEF Kept
<1>4. CASE StartThreads \/ Construct \/ Destruct \/ StopThreads \/ StartOrEnd
  <2>1. Kept
    BY <1>1, <1>4 DEF StartThreads, Construct, Destruct, StopThreads, StartOrEnd
  <2> QED BY <2>1 DEF Kept
<1>5. CASE SpotifyThread \/ CbThread \/ AudioThread \/ Aside
  <2>1. Kept
    BY <1>1, <1>2, <1>5 DEF SpotifyThread, RunSpotify, CbThread, BeginSlot, EndSlot,
       FreeTask, AudioThread, BeginFrame, EndFrame, Aside, DestroyPlayer, SpuriousWakeup, vars
  <2> QED BY <2>1 DEF Kept
<1>6. CASE \/ \E n \in Frames : MusicDelivery(n)
           \/ \E u \in Searches : Search(u)
           \/ \E a \in Actors, p \in Plays : play(a, p)
           \/ \E a \in Actors, u \in Searches : query(a, u) \/ Copy(u, a) \/ DropCopy(a, u)
  <2>1. Kept
    BY <1>1, <1>6 DEF MusicDelivery, Search, play, query, Copy, DropCopy
  <2> QED BY <2>1 DEF Kept
<1>7. CASE \E u \in Searches : SearchCompleted(u)
  <2>1. Kept \/ SearchCompleted(s)
    BY <1>1, <1>3, <1>7 DEF SearchCompleted
  <2> QED BY <2>1 DEF Kept
<1> QED BY <1>4, <1>5, <1>6, <1>7 DEF Next, Aside

\* What a step does to the copies.
LEMMA CopyCases ==
  ASSUME [Next]_vars
  PROVE  \/ UNCHANGED <<slot, responseVars>>
         \/ /\ UNCHANGED spotifyVars
            /\ \E s \in Searches :
                 \/ BeginSlot(s) \/ EndSlot(s) \/ FreeTask(s) \/ SearchCompleted(s)
                 \/ \E a \in Actors : Copy(s, a) \/ DropCopy(a, s)
<1>1. CASE StartThreads \/ Construct \/ Destruct \/ StopThreads \/ StartOrEnd
  BY <1>1 DEF StartThreads, Construct, Destruct, StopThreads, StartOrEnd
<1>2. CASE SpotifyThread \/ AudioThread \/ Aside
  BY <1>2 DEF SpotifyThread, RunSpotify, AudioThread, BeginFrame, EndFrame, Aside,
              DestroyPlayer, SpuriousWakeup, vars, responseVars
<1>3. CASE CbThread \/ \E s \in Searches : SearchCompleted(s)
  BY <1>3 DEF CbThread, BeginSlot, EndSlot, FreeTask, SearchCompleted
<1>4. CASE \/ \E n \in Frames : MusicDelivery(n)
           \/ \E s \in Searches : Search(s)
           \/ \E a \in Actors, p \in Plays : play(a, p)
           \/ \E a \in Actors, s \in Searches : query(a, s)
  BY <1>4 DEF MusicDelivery, Search, play, query
<1>5. CASE \E a \in Actors, s \in Searches : Copy(s, a) \/ DropCopy(a, s)
  BY <1>5 DEF Copy, DropCopy
<1> QED BY <1>1, <1>2, <1>3, <1>4, <1>5 DEF Next, Aside

\* What CopyInv says of one search.
CopyAt(s) ==
  /\ s \in released => s \in completed /\ holders[s] = {}
  /\ s \notin completed => holders[s] = {} /\ cbStatus[s] = "new"
  /\ s \in completed \ released => holders[s] # {}
  /\ s \in Cb!Waiting => "task" \in holders[s]
  /\ "cb" \in holders[s] <=> s \in slot
  /\ \A a \in Actors : Task("query", a, s) \in Spotify!Waiting => a \in holders[s]

LEMMA CopyStep ==
  TypeOK /\ KindInv /\ SlotInv /\ CopyInv /\ [Next]_vars => CopyInv'
<1> SUFFICES ASSUME TypeOK, KindInv, SlotInv, CopyInv, [Next]_vars PROVE CopyInv'
  OBVIOUS
<1>0. \A s \in Searches : CopyAt(s)
  BY DEF CopyInv, CopyAt
<1> SUFFICES ASSUME NEW s \in Searches PROVE CopyAt(s)'
  BY DEF CopyInv, CopyAt
<1>2. holders \in [Searches -> SUBSET (Actors \cup {"task"})]
  BY DEF TypeOK
<1>3. \A a \in Actors : Task("query", a, s) \in Spotify!Waiting' => a \in holders[s]
  BY <1>0, WaitingQuery DEF CopyAt, query
<1>4. CASE UNCHANGED <<slot, responseVars>>
  <2>1. ~SearchCompleted(s)
    BY <1>4 DEF SearchCompleted, responseVars
  <2> QED BY <1>0, <1>3, <1>4, <2>1, OnlyCompleted DEF CopyAt, responseVars
<1>5. ASSUME UNCHANGED spotifyVars, NEW a \in Actors,
             Task("query", a, s) \in Spotify!Waiting'
      PROVE  Waits(a) /\ a \in holders[s]
  <2>1. Asks(a)'
    BY <1>5, WaitingQuery
  <2> QED BY <1>3, <1>5, <2>1 DEF Asks, Waits, spotifyVars
<1>6. ASSUME UNCHANGED spotifyVars, NEW u \in Searches, BeginSlot(u) PROVE CopyAt(s)'
  <2>1. /\ u \in Cb!Waiting /\ slot = {} /\ slot' = {u} /\ UNCHANGED <<completed, released>>
        /\ holders' = [holders EXCEPT ![u] = @ \cup {"cb"}] /\ ~SearchCompleted(s)
        /\ UNCHANGED cbVars
    BY <1>6 DEF BeginSlot, Cb!IsNext, SearchCompleted
  <2>2. CopyAt(u) /\ CopyAt(s)
    BY <1>0
  <2>3. cbStatus[u] # "new"
    BY <2>1 DEF Cb!Waiting, Cb!Kinds
  <2>4. holders'[s] = IF s = u THEN holders[s] \cup {"cb"} ELSE holders[s]
    BY <1>2, <2>1
  <2> QED BY <1>3, <2>1, <2>2, <2>3, <2>4, OnlyCompleted DEF CopyAt
<1>7. ASSUME UNCHANGED spotifyVars, NEW u \in Searches, EndSlot(u) PROVE CopyAt(s)'
  <2>1. /\ slot = {u} /\ slot' = {} /\ ~Waits("cb") /\ completed' = completed
        /\ holders' = [holders EXCEPT ![u] = @ \ {"cb"}] /\ ~SearchCompleted(s)
        /\ released' = IF holders[u] = {"cb"} THEN released \cup {u} ELSE released
    BY <1>7 DEF EndSlot, Forget, SlotInv, SearchCompleted
  <2>2. CopyAt(u) /\ CopyAt(s)
    BY <1>0
  <2>3. holders'[s] = IF s = u THEN holders[s] \ {"cb"} ELSE holders[s]
    BY <1>2, <2>1
  <2>4. \A a \in Actors : Task("query", a, s) \in Spotify!Waiting' => a \in holders'[s]
    BY <1>5, <1>7, <2>1, <2>3
  <2> QED BY <2>1, <2>2, <2>3, <2>4, OnlyCompleted DEF CopyAt
<1>8. ASSUME UNCHANGED spotifyVars, NEW u \in Searches, FreeTask(u) PROVE CopyAt(s)'
  <2>1. /\ slot' = slot /\ cbStatus[u] = "ran" /\ completed' = completed
        /\ "task" \in holders[u] /\ UNCHANGED cbVars
        /\ holders' = [holders EXCEPT ![u] = @ \ {"task"}] /\ ~SearchCompleted(s)
        /\ released' = IF holders[u] = {"task"} THEN released \cup {u} ELSE released
    BY <1>8 DEF FreeTask, Forget, SearchCompleted
  <2>2. CopyAt(u) /\ CopyAt(s)
    BY <1>0
  <2>3. holders'[s] = IF s = u THEN holders[s] \ {"task"} ELSE holders[s]
    BY <1>2, <2>1
  <2>4. \A a \in Actors : Task("query", a, s) \in Spotify!Waiting' => a \in holders'[s]
    BY <1>3, <2>3 DEF Actors
  <2>5. u \notin Cb!Waiting
    BY <2>1 DEF Cb!Waiting, Cb!Kinds
  <2> QED BY <2>1, <2>2, <2>3, <2>4, <2>5, OnlyCompleted DEF CopyAt
<1>9. ASSUME UNCHANGED spotifyVars, NEW u \in Searches, SearchCompleted(u)
      PROVE  CopyAt(s)'
  <2>1. /\ slot' = slot /\ u \notin completed /\ completed' = completed \cup {u}
        /\ \/ released' = released \cup {u} /\ UNCHANGED <<holders, cbVars>>
           \/ holders' = [holders EXCEPT ![u] = {"task"}] /\ released' = released
    BY <1>9 DEF SearchCompleted
  <2>2. CopyAt(u) /\ CopyAt(s)
    BY <1>0
  <2>3. \/ holders'[s] = holders[s]
        \/ s = u /\ holders'[s] = {"task"} /\ holders[s] = {}
    BY <1>2, <2>1, <2>2 DEF CopyAt
  <2>4. \A a \in Actors : Task("query", a, s) \in Spotify!Waiting' => a \in holders'[s]
    BY <1>3, <2>3
  <2>5. CASE s = u
    <3>1. CASE released' = released \cup {u} /\ UNCHANGED <<holders, cbVars>>
      BY <2>1, <2>2, <2>4, <2>5, <3>1 DEF CopyAt, cbVars, Cb!Waiting, Cb!Kinds
    <3>2. CASE holders' = [holders EXCEPT ![u] = {"task"}] /\ released' = released
      BY <1>2, <2>1, <2>2, <2>4, <2>5, <3>2 DEF CopyAt
    <3> QED BY <2>1, <3>1, <3>2
  <2>6. CASE s # u
    <3>1. ~SearchCompleted(s)
      BY <2>1, <2>6 DEF SearchCompleted
    <3>2. holders'[s] = holders[s]
      BY <2>3, <2>6
    <3> QED BY <2>1, <2>2, <2>4, <2>6, <3>1, <3>2, OnlyCompleted DEF CopyAt
  <2> QED BY <2>5, <2>6
<1>10. ASSUME UNCHANGED spotifyVars, NEW u \in Searches, NEW b \in Actors, Copy(u, b)
       PROVE  CopyAt(s)'
  <2>1. /\ u \in slot /\ b # "cb" /\ UNCHANGED <<slot, completed, released, cbVars>>
        /\ holders' = [holders EXCEPT ![u] = @ \cup {b}] /\ ~SearchCompleted(s)
    BY <1>10 DEF Copy, SearchCompleted
  <2>2. CopyAt(u) /\ CopyAt(s)
    BY <1>0
  <2>3. holders'[s] = IF s = u THEN holders[s] \cup {b} ELSE holders[s]
    BY <1>2, <2>1
  <2> QED BY <1>3, <2>1, <2>2, <2>3, OnlyCompleted DEF CopyAt
<1>11. ASSUME UNCHANGED spotifyVars, NEW u \in Searches, NEW b \in Actors, DropCopy(b, u)
       PROVE  CopyAt(s)'
  <2>1. /\ b # "cb" /\ ~Waits(b) /\ b \in holders[u] /\ slot' = slot
        /\ completed' = completed /\ UNCHANGED cbVars
        /\ holders' = [holders EXCEPT ![u] = @ \ {b}] /\ ~SearchCompleted(s)
        /\ released' = IF holders[u] = {b} THEN released \cup {u} ELSE released
    BY <1>11 DEF DropCopy, Acts, Forget, SearchCompleted
  <2>2. CopyAt(u) /\ CopyAt(s)
    BY <1>0
  <2>3. holders'[s] = IF s = u THEN holders[s] \ {b} ELSE holders[s]
    BY <1>2, <2>1
  <2>4. \A a \in Actors : Task("query", a, s) \in Spotify!Waiting' => a \in holders'[s]
    BY <1>5, <1>11, <2>1, <2>3
  <2>5. b # "task"
    BY DEF Actors
  <2> QED BY <2>1, <2>2, <2>3, <2>4, <2>5, OnlyCompleted DEF CopyAt
<1> QED BY <1>4, <1>6, <1>7, <1>8, <1>9, <1>10, <1>11, CopyCases
-----------------------------------------------------------------------------
(***************************************************************************)
(* What is posted behind what.                                             *)
(***************************************************************************)

\* The owner plays while the session is alive.
LEMMA OwnerPlays ==
  ASSUME TypeOK, [Next]_vars, NEW p \in Plays, post(Task("play", "owner", p))
  PROVE  life = "alive"
<1> DEFINE t == Task("play", "owner", p)
<1>0. /\ t \in SpotifyTasks /\ Spotify!WorkerTypeOK
      /\ \A f \in OwnFuns : Own(f) # t /\ Own(f) \in SpotifyTasks
      /\ \A u \in Searches : Task("search", "owner", u) # t
      /\ \A b \in Actors, r \in Plays : Task("play", b, r) = t => b = "owner"
      /\ \A b \in Actors, u \in Searches : Task("query", b, u) # t
      /\ \A u \in Searches : Task("search", "owner", u) \in SpotifyTasks
      /\ \A b \in Actors, r \in Plays : Task("play", b, r) \in SpotifyTasks
      /\ \A b \in Actors, u \in Searches : Task("query", b, u) \in SpotifyTasks
  <2>1. "owner" \in Actors
    BY DEF Actors
  <2>2. \A u \in Searches : Task("search", "owner", u) # t
    BY DEF Task
  <2> QED BY <2>1, <2>2, TaskFacts, TypeParts DEF OwnFuns
<1>1. spStatus[t] = "new" /\ spStatus'[t] = "prompt"
  BY <1>0, PostEffect DEF Spotify!WorkerTypeOK
<1> HIDE DEF t
<1>2. ASSUME NEW u \in SpotifyTasks, post(u), u # t PROVE FALSE
  <2>1. spStatus' = [spStatus EXCEPT ![u] = "prompt"]
    BY <1>0, <1>2, PostEffect
  <2> QED BY <1>0, <1>1, <1>2, <2>1 DEF Spotify!WorkerTypeOK
<1>3. ASSUME NEW u \in SpotifyTasks, Spotify!Run(u) PROVE FALSE
  <2>1. spStatus' = [spStatus EXCEPT ![u] = "ran"]
    BY <1>0, <1>3, RunEffect
  <2> QED BY <1>0, <1>1, <2>1 DEF Spotify!WorkerTypeOK
<1>4. \/ UNCHANGED spotifyVars \/ Spotify!Start \/ Spotify!Up \/ Spotify!Stop
      \/ Spotify!Down
      => FALSE
  BY <1>0, <1>1 DEF spotifyVars, Spotify!Start, Spotify!Up, Spotify!Stop, Spotify!Down,
                    Spotify!WorkerTypeOK
<1>5. \/ StartThreads \/ StopThreads \/ StartOrEnd \/ SpotifyThread \/ CbThread
      \/ AudioThread \/ Aside
      => FALSE
  BY <1>3, <1>4 DEF StartThreads, StopThreads, StartOrEnd, SpotifyThread, RunSpotify,
     CbThread, BeginSlot, EndSlot, FreeTask, AudioThread, BeginFrame, EndFrame, Aside,
     DestroyPlayer, SpuriousWakeup, vars
<1>6. Construct \/ Destruct => FALSE
  BY <1>0, <1>2, <1>4 DEF Construct, Destruct, OwnFuns
<1>7. \/ \E n \in Frames : MusicDelivery(n)
      \/ \E u \in Searches : Search(u) \/ SearchCompleted(u)
      => FALSE
  BY <1>0, <1>2, <1>4 DEF MusicDelivery, Search, SearchCompleted
<1>8. (\E b \in Actors, r \in Plays : play(b, r)) => life = "alive"
  BY <1>0, <1>2 DEF play
<1>9. \/ \E b \in Actors, u \in Searches : query(b, u)
      \/ \E b \in Actors, u \in Searches : Copy(u, b) \/ DropCopy(b, u)
      => FALSE
  BY <1>0, <1>2, <1>4 DEF query, Copy, DropCopy
<1> QED BY <1>5, <1>6, <1>7, <1>8, <1>9 DEF Next, Aside

\* Only music_delivery() posts to the audio thread.
LEMMA OnlyDelivered ==
  ASSUME TypeOK, [Next]_vars, NEW n \in Frames, Audio!Post(n, Audio!Waiting, "prompt")
  PROVE  MusicDelivery(n)
<1>0. /\ auStatus[n] = "new" /\ auStatus' = [auStatus EXCEPT ![n] = "prompt"]
      /\ Audio!WorkerTypeOK
  BY OtherPostEffect, TypeParts
<1>1. auStatus'[n] = "prompt"
  BY <1>0 DEF Audio!WorkerTypeOK
<1>2. UNCHANGED audioVars \/ Audio!Start \/ Audio!Up \/ Audio!Stop \/ Audio!Down => FALSE
  BY <1>0, <1>1 DEF audioVars, Audio!Start, Audio!Up, Audio!Stop, Audio!Down,
                    Audio!WorkerTypeOK
<1>3. ASSUME NEW m \in Frames, Audio!Run(m) PROVE FALSE
  <2>1. auStatus' = [auStatus EXCEPT ![m] = "ran"]
    BY <1>0, <1>3, FrameRunEffect
  <2> QED BY <1>0, <1>1, <2>1 DEF Audio!WorkerTypeOK
<1>4. ASSUME NEW m \in Frames, MusicDelivery(m) PROVE m = n
  <2>1. auStatus' = [auStatus EXCEPT ![m] = "prompt"] /\ auStatus[m] = "new"
    BY <1>0, <1>4, OtherPostEffect DEF MusicDelivery
  <2> QED BY <1>0, <1>1, <2>1 DEF Audio!WorkerTypeOK
<1>5. StartThreads \/ Construct \/ Destruct \/ StopThreads \/ StartOrEnd => FALSE
  BY <1>2 DEF StartThreads, Construct, Destruct, StopThreads, StartOrEnd
<1>6. SpotifyThread \/ CbThread \/ AudioThread \/ Aside => FALSE
  BY <1>2, <1>3 DEF SpotifyThread, RunSpotify, CbThread, BeginSlot, EndSlot, FreeTask,
     AudioThread, BeginFrame, EndFrame, Aside, DestroyPlayer, SpuriousWakeup, vars
<1>7. \/ \E s \in Searches : Search(s) \/ SearchCompleted(s)
      \/ \E a \in Actors, p \in Plays : play(a, p)
      \/ \E a \in Actors, s \in Searches : query(a, s) \/ Copy(s, a) \/ DropCopy(a, s)
      => FALSE
  BY <1>2 DEF Search, SearchCompleted, play, query, Copy, DropCopy
<1> QED BY <1>4, <1>5, <1>6, <1>7 DEF Next, Aside

PlayBehind(p) ==
  LET t == Task("play", "owner", p)
  IN  /\ t \in Spotify!Waiting => ~Ran(Own("release"))
      /\ {t, Own("release")} \subseteq Spotify!Waiting => <<t, Own("release")>> \in spAhead

FrameBehind(m, n) ==
  /\ auStatus[n] # "new" => auStatus[m] # "new"
  /\ auStatus[n] = "ran" => auStatus[m] = "ran"
  /\ {m, n} \subseteq Audio!Waiting => <<m, n>> \in auAhead

LEMMA BehindParts ==
  BehindInv <=> /\ \A p \in Plays : PlayBehind(p)
                /\ \A n \in Frames : \A m \in 1..(n - 1) : FrameBehind(m, n)
BY DEF BehindInv, PlayBehind, FrameBehind

LEMMA PlayBehindStep ==
  ASSUME TypeOK, OwnInv, [Next]_vars, NEW p \in Plays, PlayBehind(p)
  PROVE  PlayBehind(p)'
<1> DEFINE t == Task("play", "owner", p)
           r == Own("release")
<1>0. /\ t \in SpotifyTasks /\ r \in SpotifyTasks /\ t # r /\ t.by = r.by
      /\ Spotify!WorkerTypeOK /\ SpotifyStep
  BY TaskFacts, TypeParts, ThreadSteps DEF Actors
<1>1. /\ t \in Spotify!Waiting => spStatus[r] # "ran"
      /\ t \in Spotify!Waiting /\ r \in Spotify!Waiting => <<t, r>> \in spAhead
  BY DEF PlayBehind, Ran
<1> SUFFICES /\ t \in Spotify!Waiting' => spStatus'[r] # "ran"
             /\ t \in Spotify!Waiting' /\ r \in Spotify!Waiting' => <<t, r>> \in spAhead'
  BY DEF PlayBehind, Ran
<1>2. post(t) => spStatus[r] = "new"
  BY OwnerPlays DEF OwnInv, Early
<1> HIDE DEF t, r
<1>3. UNCHANGED spotifyVars \/ Spotify!Start \/ Spotify!Up \/ Spotify!Stop \/ Spotify!Down
      => /\ Spotify!Waiting' = Spotify!Waiting /\ spAhead' = spAhead
         /\ spStatus'[r] = "ran" => spStatus[r] = "ran"
  BY <1>0 DEF spotifyVars, Spotify!Start, Spotify!Up, Spotify!Stop, Spotify!Down,
              Spotify!Waiting, Spotify!Kinds, Spotify!WorkerTypeOK
<1>4. ASSUME NEW u \in SpotifyTasks, Spotify!Run(u)
      PROVE  /\ t \in Spotify!Waiting' => spStatus'[r] # "ran"
             /\ t \in Spotify!Waiting' /\ r \in Spotify!Waiting' => <<t, r>> \in spAhead'
  <2>1. /\ u \in Spotify!Waiting /\ \A v \in SpotifyTasks : <<v, u>> \notin spAhead
        /\ spStatus' = [spStatus EXCEPT ![u] = "ran"]
        /\ spAhead' = {q \in spAhead : q[1] # u /\ q[2] # u}
    BY <1>0, <1>4, RunEffect
  <2>2. \A v \in {t, r} : v \in Spotify!Waiting' => v \in Spotify!Waiting /\ v # u
    BY <1>0, <2>1 DEF Spotify!Waiting, Spotify!Kinds, Spotify!WorkerTypeOK
  <2>3. spStatus'[r] = "ran" => spStatus[r] = "ran" \/ r = u
    BY <1>0, <2>1 DEF Spotify!WorkerTypeOK
  <2>4. t \in Spotify!Waiting' => r # u
    BY <1>0, <1>1, <2>1, <2>2
  <2>5. t \in Spotify!Waiting' /\ r \in Spotify!Waiting' => <<t, r>> \in spAhead'
    BY <1>1, <2>1, <2>2
  <2> QED BY <1>1, <2>2, <2>3, <2>4, <2>5
<1>5. ASSUME NEW u \in SpotifyTasks, post(u)
      PROVE  /\ t \in Spotify!Waiting' => spStatus'[r] # "ran"
             /\ t \in Spotify!Waiting' /\ r \in Spotify!Waiting' => <<t, r>> \in spAhead'
  <2>1. /\ spStatus[u] = "new" /\ spStatus' = [spStatus EXCEPT ![u] = "prompt"]
        /\ spAhead \subseteq spAhead'
    BY <1>0, <1>5, PostEffect
  <2>2. \A v \in {t, r} : v \in Spotify!Waiting' => v \in Spotify!Waiting \/ v = u
    BY <1>0, <2>1 DEF Spotify!Waiting, Spotify!WorkerTypeOK
  <2>3. spStatus'[r] = "ran" => spStatus[r] = "ran"
    BY <1>0, <2>1 DEF Spotify!WorkerTypeOK
  <2>4. CASE u = t
    <3>1. spStatus'[r] = "new"
      BY <1>0, <1>2, <1>5, <2>1, <2>4 DEF Spotify!WorkerTypeOK
    <3> QED BY <3>1 DEF Spotify!Waiting, Spotify!Kinds
  <2>5. CASE u = r
    <3>1. t \in Spotify!Waiting' => t \in Earlier(r)
      BY <1>0, <2>2, <2>5 DEF Earlier
    <3>2. PICK S \in SUBSET Spotify!Waiting :
            Earlier(u) \subseteq S /\ spAhead' = spAhead \cup (S \X {u})
      BY <1>0, <1>5, PostEffect
    <3>3. spStatus'[r] = "prompt"
      BY <1>0, <2>1, <2>5 DEF Spotify!WorkerTypeOK
    <3> QED BY <2>5, <3>1, <3>2, <3>3
  <2>6. CASE u # t /\ u # r
    BY <1>1, <2>1, <2>2, <2>3, <2>6
  <2> QED BY <2>4, <2>5, <2>6
<1> QED BY <1>0, <1>1, <1>3, <1>4, <1>5 DEF SpotifyStep

LEMMA FrameBehindStep ==
  ASSUME TypeOK, KindInv, [Next]_vars, NEW n \in Frames, NEW m \in 1..(n - 1),
         FrameBehind(m, n)
  PROVE  FrameBehind(m, n)'
<1>0. /\ m \in Frames /\ m # n /\ ~(n \in 1..(m - 1))
      /\ Audio!WorkerTypeOK /\ AudioStep
  BY TypeParts, ThreadSteps, EngineAssumption DEF Frames
<1>1. UNCHANGED audioVars \/ Audio!Start \/ Audio!Up \/ Audio!Stop \/ Audio!Down
      => FrameBehind(m, n)'
  BY <1>0 DEF audioVars, Audio!Start, Audio!Up, Audio!Stop, Audio!Down, FrameBehind,
              Audio!Waiting, Audio!Kinds, Audio!WorkerTypeOK
<1>2. ASSUME NEW k \in Frames, Audio!Run(k)
      PROVE  FrameBehind(m, n)'
  <2>1. /\ k \in Audio!Waiting /\ <<m, k>> \notin auAhead
        /\ auStatus' = [auStatus EXCEPT ![k] = "ran"]
        /\ auAhead' = {q \in auAhead : q[1] # k /\ q[2] # k}
    BY <1>0, <1>2, FrameRunEffect
  <2>2. \A i \in {m, n} :
          /\ auStatus'[i] = "new" => auStatus[i] = "new"
          /\ auStatus[i] = "new" => auStatus'[i] = "new"
          /\ auStatus'[i] = "ran" <=> auStatus[i] = "ran" \/ i = k
          /\ i \in Audio!Waiting' => i \in Audio!Waiting /\ i # k
    BY <1>0, <2>1 DEF Audio!Waiting, Audio!Kinds, Audio!WorkerTypeOK
  <2>3. n = k => auStatus[m] = "ran"
    <3>1. n = k => auStatus[m] # "new" /\ m \notin Audio!Waiting
      BY <2>1 DEF FrameBehind, Audio!Waiting, Audio!Kinds
    <3> QED BY <1>0, <3>1 DEF KindInv, Kind, Audio!Waiting, Audio!Kinds
  <2>4. {m, n} \subseteq Audio!Waiting' => <<m, n>> \in auAhead'
    BY <2>1, <2>2 DEF FrameBehind
  <2> QED BY <2>2, <2>3, <2>4 DEF FrameBehind
<1>3. ASSUME NEW k \in Frames, Audio!Post(k, Audio!Waiting, "prompt")
      PROVE  FrameBehind(m, n)'
  <2>1. /\ auStatus[k] = "new" /\ auStatus' = [auStatus EXCEPT ![k] = "prompt"]
        /\ auAhead' = auAhead \cup (Audio!Waiting \X {k})
    BY <1>0, <1>3, OtherPostEffect
  <2>2. \A i \in 1..(k - 1) : auStatus[i] # "new"
    BY <1>3, OnlyDelivered DEF MusicDelivery
  <2>3. \A i \in {m, n} :
          /\ auStatus'[i] = "new" <=> auStatus[i] = "new" /\ i # k
          /\ auStatus'[i] = "ran" <=> auStatus[i] = "ran"
          /\ i \in Audio!Waiting' => i \in Audio!Waiting \/ i = k
    BY <1>0, <2>1 DEF Audio!Waiting, Audio!WorkerTypeOK
  <2>4. ASSUME {m, n} \subseteq Audio!Waiting' PROVE <<m, n>> \in auAhead'
    <3>1. CASE n = k
      BY <1>0, <2>1, <2>3, <2>4, <3>1
    <3>2. CASE n # k
      <4>1. n \in Audio!Waiting /\ auStatus[n] # "new"
        BY <2>3, <2>4, <3>2 DEF Audio!Waiting, Audio!Kinds
      <4>2. m # k
        BY <2>1, <4>1 DEF FrameBehind
      <4> QED BY <2>1, <2>3, <2>4, <4>1, <4>2 DEF FrameBehind
    <3> QED BY <3>1, <3>2
  <2> QED BY <2>2, <2>3, <2>4 DEF FrameBehind
<1> QED BY <1>0, <1>1, <1>2, <1>3 DEF AudioStep

LEMMA BehindStep ==
  TypeOK /\ OwnInv /\ KindInv /\ BehindInv /\ [Next]_vars => BehindInv'
<1> SUFFICES ASSUME TypeOK, OwnInv, KindInv, BehindInv, [Next]_vars
             PROVE  BehindInv'
  OBVIOUS
<1>1. \A p \in Plays : PlayBehind(p)'
  BY BehindParts, PlayBehindStep
<1>2. \A n \in Frames : \A m \in 1..(n - 1) : FrameBehind(m, n)'
  BY BehindParts, FrameBehindStep
<1> QED BY <1>1, <1>2 DEF BehindInv, PlayBehind, FrameBehind
-----------------------------------------------------------------------------
(***************************************************************************)
(* The theorems.                                                           *)
(***************************************************************************)

LEMMA InvInit == Init => IInv
<1> SUFFICES ASSUME Init PROVE IInv
  OBVIOUS
<1>1. /\ life = "none" /\ spPhase = "off" /\ auPhase = "off" /\ cbPhase = "off"
      /\ \A t \in SpotifyTasks : spStatus[t] = "new"
      /\ \A n \in Frames : auStatus[n] = "new"
      /\ \A s \in Searches : cbStatus[s] = "new"
      /\ Spotify!Waiting = {} /\ Audio!Waiting = {} /\ Cb!Waiting = {}
      /\ asleep = {} /\ slot = {} /\ frameSlot = {} /\ completed = {} /\ released = {}
      /\ \A s \in Searches : holders[s] = {}
  BY DEF Init, Spotify!Init, Audio!Init, Cb!Init, Spotify!Waiting, Audio!Waiting,
         Cb!Waiting, Spotify!Kinds, Audio!Kinds, Cb!Kinds
<1>2. TypeOK
  BY TypeInit
<1>3. PhaseInv
  BY <1>1 DEF PhaseInv, Early, Late
<1>4. OwnInv
  BY <1>1, TaskFacts DEF OwnInv, Early, Late
<1>5. KindInv
  BY <1>1 DEF KindInv, Kind
<1>6. SlotInv
  BY <1>1, TaskFacts DEF SlotInv, Waits, Asks, Actors
<1>7. NothingDropped
  BY <1>1 DEF NothingDropped
<1>8. CopyInv
  BY <1>1 DEF CopyInv
<1>9. BehindInv
  <2>1. \A n \in Frames : \A m \in 1..(n - 1) : m \in Frames
    BY EngineAssumption DEF Frames
  <2> QED BY <1>1, <2>1 DEF BehindInv
<1> QED BY <1>2, <1>3, <1>4, <1>5, <1>6, <1>7, <1>8, <1>9 DEF IInv

LEMMA InvStep == IInv /\ [Next]_vars => IInv'
BY TypeStep, PhaseStep, OwnStep, KindStep, SlotStep, SettledStep, CopyStep, BehindStep
DEF IInv

LEMMA Invariance == Spec => []IInv
<1> QED BY InvInit, InvStep, PTL DEF Spec

\* Whoever posts, the thread is there: the assertion in base::thread::post_task holds
\* for the owner, the slots and libspotify (thread.cc:59).
THEOREM ThreadFound == Spec => PostsFindThread
<1>1. ASSUME IInv, [Next]_vars
      PROVE  [/\ Posted(spStatus, spStatus') => spPhase # "off"
              /\ Posted(auStatus, auStatus') => auPhase # "off"
              /\ Posted(cbStatus, cbStatus') => cbPhase # "off"]_vars
  BY <1>1, PostsOn DEF IInv
<1> QED BY <1>1, Invariance, PTL DEF Spec, PostsFindThread

\* stop() finds nothing it may drop, and no thread ends with a task left
\* (message_loop::stop, ~session, ~global_thread_manager).
THEOREM AllIsRun == Spec => []NothingDropped
<1>1. IInv => NothingDropped
  BY DEF IInv
<1> QED BY <1>1, Invariance, PTL

\* The task of a query() or track() finds its search unreleased
\* (search_response_impl.cc:21,42).
THEOREM SearchFound == Spec => []QueryFindsSearch
<1>1. IInv => QueryFindsSearch
  BY DEF IInv, CopyInv, QueryFindsSearch
<1> QED BY <1>1, Invariance, PTL

\* What the owner plays reaches libspotify before the release of the session, so that a
\* player destroyed after the session leaves no task behind that has its this
\* (player.h:21-28).
THEOREM PlayedInTime == Spec => []PlaysInTime
<1>1. IInv => PlaysInTime
  <2>1. IInv => (Ran(Own("release")) => OwnPlays \cap Spotify!Waiting = {})
    BY DEF IInv, BehindInv, OwnPlays
  <2>2. IInv => orphans \subseteq OwnPlays \cap Spotify!Waiting
    BY DEF IInv, TypeOK
  <2> QED BY <2>1, <2>2 DEF PlaysInTime
<1> QED BY <1>1, Invariance, PTL

\* Frames are heard in the order of their delivery (music_delivery).
THEOREM FramesKeepOrder == Spec => []FramesInOrder
<1>1. ASSUME IInv, NEW n \in Frames, auStatus[n] = "ran", NEW m \in 1..n
      PROVE  auStatus[m] = "ran"
  <2>1. m = n \/ m \in 1..(n - 1)
    BY EngineAssumption DEF Frames
  <2> QED BY <1>1, <2>1 DEF IInv, BehindInv
<1>2. IInv => FramesInOrder
  BY <1>1 DEF FramesInOrder
<1> QED BY <1>2, Invariance, PTL

\* A search is released with the last copy of its response, on whichever thread
\* (search_response_impl.cc:16).
THEOREM LastReleases == Spec => []ReleasedByLast
<1>1. IInv => ReleasedByLast
  BY DEF IInv, CopyInv, ReleasedByLast, TypeOK
<1> QED BY <1>1, Invariance, PTL

\* No search is released twice: of the steps that may call sp_search_release(), none
\* is taken for a search that was released (search_response_impl.cc:16, search_completed).
THEOREM ReleasedOnce ==
  Spec => [][\A s \in released :
               /\ ~EndSlot(s) /\ ~FreeTask(s) /\ ~SearchCompleted(s)
               /\ \A a \in Actors : ~DropCopy(a, s)]_vars
<1>1. ASSUME IInv, NEW s \in released, NEW a \in Actors
      PROVE  ~EndSlot(s) /\ ~FreeTask(s) /\ ~SearchCompleted(s) /\ ~DropCopy(a, s)
  <2>1. s \in Searches /\ s \in completed /\ holders[s] = {} /\ s \notin slot
    BY <1>1 DEF IInv, TypeOK, CopyInv
  <2> QED BY <2>1 DEF EndSlot, FreeTask, SearchCompleted, DropCopy
<1>2. IInv => \A s \in released :
                /\ ~EndSlot(s) /\ ~FreeTask(s) /\ ~SearchCompleted(s)
                /\ \A a \in Actors : ~DropCopy(a, s)
  <2>1. \E a : a \in Actors
    BY DEF Actors
  <2> QED BY <1>1, <2>1
<1> QED BY <1>2, Invariance, PTL
=============================================================================
