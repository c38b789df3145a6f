--------------------------- MODULE EngineProgress ---------------------------
(***************************************************************************)
(* Proofs about Engine, for any searches, plays and number of frames: it   *)
(* is composed of three Workers, so that what is proved of a Worker holds  *)
(* of each of its threads; and nobody in it waits in a circle.             *)
(***************************************************************************)
EXTENDS EngineProofs

SpotifyP == INSTANCE WorkerProofs WITH
  Tasks <- SpotifyTasks, phase <- spPhase, status <- spStatus, ahead <- spAhead
AudioP == INSTANCE WorkerProofs WITH
  Tasks <- Frames, phase <- auPhase, status <- auStatus, ahead <- auAhead
CbP == INSTANCE WorkerProofs WITH
  Tasks <- Searches, phase <- cbPhase, status <- cbStatus, ahead <- cbAhead
-----------------------------------------------------------------------------
LEMMA SpotifySteps == [Next]_vars => [Spotify!Next]_(Spotify!workerVars)
<1> SUFFICES ASSUME [Next]_vars PROVE [Spotify!Next]_(Spotify!workerVars)
  OBVIOUS
<1>1. ASSUME NEW t \in SpotifyTasks, post(t) PROVE Spotify!Next
  <2>1. PICK T \in SUBSET {u \in Spotify!Waiting : u.by # t.by} :
          Spotify!Post(t, Earlier(t) \cup T, "prompt")
    BY <1>1, Zenon DEF post
  <2>2. Earlier(t) \cup T \in SUBSET SpotifyTasks /\ "prompt" \in Spotify!Kinds
    BY DEF Earlier, Spotify!Waiting, Spotify!Kinds
  <2> QED BY <2>1, <2>2 DEF Spotify!Next
<1> QED
  BY <1>1, ThreadSteps
  DEF SpotifyStep, spotifyVars, Spotify!Next, Spotify!Work, Spotify!workerVars

LEMMA AudioSteps == [Next]_vars => [Audio!Next]_(Audio!workerVars)
<1>1. Audio!Waiting \in SUBSET Frames /\ "prompt" \in Audio!Kinds
  BY DEF Audio!Waiting, Audio!Kinds
<1> QED
  BY <1>1, ThreadSteps
  DEF AudioStep, audioVars, Audio!Next, Audio!Work, Audio!workerVars

LEMMA CbSteps == [Next]_vars => [Cb!Next]_(Cb!workerVars)
<1>1. Cb!Waiting \in SUBSET Searches /\ "prompt" \in Cb!Kinds
  BY DEF Cb!Waiting, Cb!Kinds
<1> QED
  BY <1>1, ThreadSteps DEF CbStep, cbVars, Cb!Next, Cb!Work, Cb!workerVars

\* The engine is three base::threads and what it posts to them: each of its steps is
\* a step, or none, of the spotify thread, of the audio thread and of cb_thread, as
\* BaseThread implements them (global_thread_manager.cc, session.cc).
THEOREM Composition == Spec => Spotify!SafeSpec /\ Audio!SafeSpec /\ Cb!SafeSpec
<1>1. Init => Spotify!Init /\ Audio!Init /\ Cb!Init
  BY DEF Init
<1> QED
  BY <1>1, SpotifySteps, AudioSteps, CbSteps, PTL
  DEF Spec, Spotify!SafeSpec, Audio!SafeSpec, Cb!SafeSpec

LEMMA SpotifyIsWorker == Spotify!SafeSpec => SpotifyP!SafeSpec
<1>1. Spotify!Init => SpotifyP!Init
  BY DEF Spotify!Init, SpotifyP!Init
<1>2. [Spotify!Next]_(Spotify!workerVars) => [SpotifyP!Next]_(SpotifyP!workerVars)
  BY DEF Spotify!Next, Spotify!Start, Spotify!Up, Spotify!Stop, Spotify!Down, Spotify!Work,
         Spotify!Run, Spotify!Drop, Spotify!Post, Spotify!Leave, Spotify!IsNext,
         Spotify!Waiting, Spotify!Kinds, Spotify!workerVars, SpotifyP!Next, SpotifyP!Start,
         SpotifyP!Up, SpotifyP!Stop, SpotifyP!Down, SpotifyP!Work, SpotifyP!Run,
         SpotifyP!Drop, SpotifyP!Post, SpotifyP!Leave, SpotifyP!IsNext, SpotifyP!Waiting,
         SpotifyP!Kinds, SpotifyP!workerVars
<1> QED BY <1>1, <1>2, PTL DEF Spotify!SafeSpec, SpotifyP!SafeSpec

LEMMA AudioIsWorker == Audio!SafeSpec => AudioP!SafeSpec
<1>1. Audio!Init => AudioP!Init
  BY DEF Audio!Init, AudioP!Init
<1>2. [Audio!Next]_(Audio!workerVars) => [AudioP!Next]_(AudioP!workerVars)
  BY DEF Audio!Next, Audio!Start, Audio!Up, Audio!Stop, Audio!Down, Audio!Work, Audio!Run,
         Audio!Drop, Audio!Post, Audio!Leave, Audio!IsNext, Audio!Waiting, Audio!Kinds,
         Audio!workerVars, AudioP!Next, AudioP!Start, AudioP!Up, AudioP!Stop, AudioP!Down,
         AudioP!Work, AudioP!Run, AudioP!Drop, AudioP!Post, AudioP!Leave, AudioP!IsNext,
         AudioP!Waiting, AudioP!Kinds, AudioP!workerVars
<1> QED BY <1>1, <1>2, PTL DEF Audio!SafeSpec, AudioP!SafeSpec

LEMMA CbIsWorker == Cb!SafeSpec => CbP!SafeSpec
<1>1. Cb!Init => CbP!Init
  BY DEF Cb!Init, CbP!Init
<1>2. [Cb!Next]_(Cb!workerVars) => [CbP!Next]_(CbP!workerVars)
  BY DEF Cb!Next, Cb!Start, Cb!Up, Cb!Stop, Cb!Down, Cb!Work, Cb!Run, Cb!Drop, Cb!Post,
         Cb!Leave, Cb!IsNext, Cb!Waiting, Cb!Kinds, Cb!workerVars, CbP!Next, CbP!Start,
         CbP!Up, CbP!Stop, CbP!Down, CbP!Work, CbP!Run, CbP!Drop, CbP!Post, CbP!Leave,
         CbP!IsNext, CbP!Waiting, CbP!Kinds, CbP!workerVars
<1> QED BY <1>1, <1>2, PTL DEF Cb!SafeSpec, CbP!SafeSpec

\* Each thread has a task to run while some wait.
NextTaskInv ==
  /\ Spotify!Waiting # {} => \E t \in SpotifyTasks : Spotify!IsNext(t)
  /\ Audio!Waiting # {} => \E n \in Frames : Audio!IsNext(n)
  /\ Cb!Waiting # {} => \E s \in Searches : Cb!IsNext(s)

LEMMA NextTasks == Spec => []NextTaskInv
<1> DEFINE
      SpotifyNext == SpotifyP!Waiting # {} => \E t \in SpotifyTasks : SpotifyP!IsNext(t)
      AudioNext == AudioP!Waiting # {} => \E t \in Frames : AudioP!IsNext(t)
      CbNext == CbP!Waiting # {} => \E t \in Searches : CbP!IsNext(t)
<1>1. SpotifyP!SafeSpec => []SpotifyNext
  BY SpotifyP!SomebodyIsNext
<1>2. AudioP!SafeSpec => []AudioNext
  BY AudioP!SomebodyIsNext
<1>3. CbP!SafeSpec => []CbNext
  BY CbP!SomebodyIsNext
<1>4. SpotifyNext /\ AudioNext /\ CbNext => NextTaskInv
  BY DEF NextTaskInv, Spotify!Waiting, SpotifyP!Waiting, Spotify!IsNext, SpotifyP!IsNext,
         Spotify!Kinds, SpotifyP!Kinds, Audio!Waiting, AudioP!Waiting, Audio!IsNext,
         AudioP!IsNext, Audio!Kinds, AudioP!Kinds, Cb!Waiting, CbP!Waiting, Cb!IsNext,
         CbP!IsNext, Cb!Kinds, CbP!Kinds
<1> HIDE DEF SpotifyNext, AudioNext, CbNext
<1> QED
  BY <1>1, <1>2, <1>3, <1>4, SpotifyIsWorker, AudioIsWorker, CbIsWorker, Composition, PTL
-----------------------------------------------------------------------------
\* Whose turn it is: a slot in progress is that of the next task, and a copy that a task
\* holds is that of a task that was posted.
TurnInv ==
  /\ \A s \in slot : Cb!IsNext(s)
  /\ \A n \in frameSlot : Audio!IsNext(n)
  /\ \A s \in Searches : "task" \in holders[s] => cbStatus[s] # "new"

\* What is next is not posted behind anything while it waits.
LEMMA NextKept ==
  ASSUME TypeOK, [Next]_vars
  PROVE  /\ \A n \in Frames : Audio!IsNext(n) /\ n \in Audio!Waiting' => Audio!IsNext(n)'
         /\ \A s \in Searches : Cb!IsNext(s) /\ s \in Cb!Waiting' => Cb!IsNext(s)'
<1>0. Audio!WorkerTypeOK /\ Cb!WorkerTypeOK /\ AudioStep /\ CbStep
  BY TypeParts, ThreadSteps
<1>1. ASSUME NEW n \in Frames, Audio!IsNext(n), NEW m \in Frames, <<m, n>> \in auAhead'
      PROVE  FALSE
  <2>1. <<m, n>> \notin auAhead /\ n \in Audio!Waiting
    BY <1>1 DEF Audio!IsNext
  <2>2. CASE UNCHANGED audioVars \/ Audio!Start \/ Audio!Up \/ Audio!Stop \/ Audio!Down
    BY <1>1, <2>1, <2>2 DEF audioVars, Audio!Start, Audio!Up, Audio!Stop, Audio!Down
  <2>3. ASSUME NEW l \in Frames, Audio!Run(l) PROVE FALSE
    BY <1>1, <2>1, <2>3 DEF Audio!Run, Audio!Leave
  <2>4. ASSUME NEW l \in Frames, Audio!Post(l, Audio!Waiting, "prompt") PROVE FALSE
    <3>1. l # n
      BY <2>1, <2>4 DEF Audio!Post, Audio!Waiting, Audio!Kinds
    <3> QED BY <1>1, <2>1, <2>4, <3>1 DEF Audio!Post
  <2> QED BY <1>0, <2>2, <2>3, <2>4 DEF AudioStep
<1>2. ASSUME NEW s \in Searches, Cb!IsNext(s), NEW u \in Searches, <<u, s>> \in cbAhead'
      PROVE  FALSE
  <2>1. <<u, s>> \notin cbAhead /\ s \in Cb!Waiting
    BY <1>2 DEF Cb!IsNext
  <2>2. CASE UNCHANGED cbVars \/ Cb!Start \/ Cb!Up \/ Cb!Stop \/ Cb!Down
    BY <1>2, <2>1, <2>2 DEF cbVars, Cb!Start, Cb!Up, Cb!Stop, Cb!Down
  <2>3. ASSUME NEW x \in Searches, Cb!Run(x) PROVE FALSE
    BY <1>2, <2>1, <2>3 DEF Cb!Run, Cb!Leave
  <2>4. ASSUME NEW x \in Searches, Cb!Post(x, Cb!Waiting, "prompt") PROVE FALSE
    <3>1. x # s
      BY <2>1, <2>4 DEF Cb!Post, Cb!Waiting, Cb!Kinds
    <3> QED BY <1>2, <2>1, <2>4, <3>1 DEF Cb!Post
  <2> QED BY <1>0, <2>2, <2>3, <2>4 DEF CbStep
<1> QED BY <1>1, <1>2 DEF Audio!IsNext, Cb!IsNext

\* A response that a task holds is that of a task that was posted.
LEMMA HoldStep ==
  ASSUME TypeOK, NEW s \in Searches, [Next]_vars,
         "task" \in holders[s] => cbStatus[s] # "new"
  PROVE  "task" \in holders'[s] => cbStatus'[s] # "new"
<1>0. Cb!WorkerTypeOK /\ CbStep /\ holders \in [Searches -> SUBSET (Actors \cup {"task"})]
  BY TypeParts, ThreadSteps DEF TypeOK
<1>1. cbStatus[s] # "new" => cbStatus'[s] # "new"
  <2>1. CASE UNCHANGED cbVars \/ Cb!Start \/ Cb!Up \/ Cb!Stop \/ Cb!Down
    BY <1>0, <2>1 DEF cbVars, Cb!Start, Cb!Up, Cb!Stop, Cb!Down, Cb!WorkerTypeOK
  <2>2. ASSUME NEW u \in Searches, Cb!Run(u) \/ Cb!Post(u, Cb!Waiting, "prompt")
        PROVE  cbStatus[s] # "new" => cbStatus'[s] # "new"
    <3>1. \/ cbStatus' = [cbStatus EXCEPT ![u] = "ran"]
          \/ cbStatus' = [cbStatus EXCEPT ![u] = "prompt"]
      BY <1>0, <2>2, SlotRunEffect, OtherPostEffect
    <3> QED BY <1>0, <3>1 DEF Cb!WorkerTypeOK
  <2> QED BY <1>0, <2>1, <2>2 DEF CbStep
<1>2. ASSUME NEW u \in Searches, SearchCompleted(u)
      PROVE  "task" \in holders'[s] => "task" \in holders[s] \/ cbStatus'[s] # "new"
  <2>1. CASE holders' = [holders EXCEPT ![u] = {"task"}]
             /\ Cb!Post(u, Cb!Waiting, "prompt")
    <3>1. cbStatus' = [cbStatus EXCEPT ![u] = "prompt"]
      BY <1>0, <2>1, OtherPostEffect
    <3> QED BY <1>0, <2>1, <3>1 DEF Cb!WorkerTypeOK
  <2> QED BY <1>2, <2>1 DEF SearchCompleted
<1>3. ASSUME NEW u \in Searches,
             \/ BeginSlot(u) \/ EndSlot(u) \/ FreeTask(u)
             \/ \E a \in Actors : Copy(u, a) \/ DropCopy(a, u)
      PROVE  "task" \in holders'[s] => "task" \in holders[s]
  BY <1>0, <1>3 DEF BeginSlot, EndSlot, FreeTask, Copy, DropCopy, Forget, Actors
<1> QED BY <1>1, <1>2, <1>3, CopyCases DEF responseVars

LEMMA TurnInit == Init => TurnInv
BY DEF Init, TurnInv

LEMMA TurnStep == IInv /\ IInv' /\ TurnInv /\ [Next]_vars => TurnInv'
<1> SUFFICES ASSUME IInv, IInv', TurnInv, [Next]_vars PROVE TurnInv'
  OBVIOUS
<1>0. /\ TypeOK /\ TypeOK' /\ SlotInv'
  BY DEF IInv
<1>1. ASSUME NEW s \in slot' PROVE Cb!IsNext(s)'
  <2>0. s \in Searches /\ s \in Cb!Waiting'
    BY <1>0 DEF SlotInv, TypeOK
  <2>1. CASE slot' = slot
    BY <1>0, <2>0, <2>1, NextKept DEF TurnInv
  <2>2. ASSUME NEW u \in Searches, BeginSlot(u) PROVE Cb!IsNext(s)'
    BY <1>1, <2>2 DEF BeginSlot, cbVars, Cb!IsNext, Cb!Waiting
  <2>3. ASSUME NEW u \in Searches, EndSlot(u) PROVE FALSE
    BY <1>1, <2>3 DEF EndSlot
  <2> QED BY <2>1, <2>2, <2>3, SlotCases
<1>2. ASSUME NEW n \in frameSlot' PROVE Audio!IsNext(n)'
  <2>0. n \in Frames /\ n \in Audio!Waiting'
    BY <1>0 DEF SlotInv, TypeOK
  <2>1. CASE frameSlot' = frameSlot
    BY <1>0, <2>0, <2>1, NextKept DEF TurnInv
  <2>2. ASSUME NEW m \in Frames, BeginFrame(m) PROVE Audio!IsNext(n)'
    BY <1>2, <2>2 DEF BeginFrame, audioVars, Audio!IsNext, Audio!Waiting
  <2>3. ASSUME NEW m \in Frames, EndFrame(m) PROVE FALSE
    BY <1>2, <2>3 DEF EndFrame
  <2> QED BY <2>1, <2>2, <2>3, SlotCases
<1>3. \A s \in Searches : "task" \in holders'[s] => cbStatus'[s] # "new"
  BY <1>0, HoldStep DEF TurnInv
<1> QED BY <1>1, <1>2, <1>3 DEF TurnInv

LEMMA TurnInvariance == Spec => []TurnInv
<1> QED BY TurnInit, TurnStep, Invariance, PTL DEF Spec

\* The spotify thread can run what waits for it.
LEMMA SpotifyGoesOn ==
  ASSUME IInv, NextTaskInv, NEW t \in SpotifyTasks, spStatus[t] \notin {"new", "ran"}
  PROVE  spPhase # "off" /\ \E u \in SpotifyTasks : Spotify!IsNext(u)
<1>1. t \in Spotify!Waiting
  BY DEF IInv, KindInv, Kind, Spotify!Waiting, Spotify!Kinds
<1>2. SpotifySettled
  BY SettledParts DEF IInv
<1> QED BY <1>1, <1>2 DEF SpotifySettled, NextTaskInv

\* Nobody in the engine waits in a circle, or for a task that nobody will run: the
\* owner waits for the audio thread or for cb_thread, a slot of theirs for the spotify
\* thread, and that one for nobody, for any searches, plays and number of frames.
THEOREM NobodyWaitsInCircle == Spec => []NoCircularWait
<1>1. IInv /\ NextTaskInv /\ TurnInv => NoCircularWait
  <2> SUFFICES ASSUME IInv, NextTaskInv, TurnInv PROVE NoCircularWait
    OBVIOUS
  <2>0. /\ DOMAIN spStatus = SpotifyTasks /\ DOMAIN auStatus = Frames
        /\ DOMAIN cbStatus = Searches
    BY DEF IInv, TypeOK, Spotify!WorkerTypeOK, Audio!WorkerTypeOK, Cb!WorkerTypeOK
  <2> DEFINE SpotifyCan == spPhase # "off" /\ \E t \in SpotifyTasks : Spotify!IsNext(t)
  <2>1. \A a \in Actors : Waits(a) => a \in asleep \/ SpotifyCan
    BY SpotifyGoesOn, TaskFacts DEF Waits
  <2>2. \A f \in OwnFuns : spStatus[Own(f)] # "new" => Ran(Own(f)) \/ SpotifyCan
    BY SpotifyGoesOn, TaskFacts DEF OwnFuns, Ran
  <2>3. /\ life = "creating" => Ran(Own("create_session")) \/ SpotifyCan
        /\ life = "cancelling_events" => Ran(Own("cancel_events")) \/ SpotifyCan
        /\ life = "releasing" => Ran(Own("release")) \/ SpotifyCan
        /\ life = "cancelling_notify" => Ran(Own("cancel_notify")) \/ SpotifyCan
    BY <2>2 DEF OwnFuns, IInv, OwnInv, Early
  <2>4. ASSUME cbPhase = "stopping"
        PROVE  \/ \E s \in Searches :
                    \/ Cb!IsNext(s) /\ (slot = {} \/ (s \in slot /\ ~Waits("cb")))
                    \/ cbStatus[s] = "ran" /\ slot = {} /\ "task" \in holders[s]
               \/ Waits("cb")
               \/ /\ \A s \in Searches : cbStatus[s] # "owed"
                  /\ \A s \in Searches : "task" \notin holders[s]
    <3>1. CASE Cb!Waiting # {}
      <4>1. CASE slot = {}
        BY <3>1, <4>1 DEF NextTaskInv
      <4>2. CASE slot # {}
        BY <4>2 DEF TurnInv, IInv, TypeOK
      <4> QED BY <4>1, <4>2
    <3>2. CASE Cb!Waiting = {}
      <4>1. slot = {} /\ \A s \in Searches : cbStatus[s] \in {"new", "ran"}
        BY <3>2 DEF IInv, SlotInv, KindInv, Kind, Cb!Waiting, Cb!Kinds
      <4> QED BY <4>1 DEF TurnInv
    <3> QED BY <3>1, <3>2
  <2>5. ASSUME auPhase = "stopping"
        PROVE  \/ \E n \in Frames :
                    Audio!IsNext(n) /\ (frameSlot = {} \/ (n \in frameSlot /\ ~Waits("audio")))
               \/ Waits("audio") \/ \A n \in Frames : auStatus[n] # "owed"
    <3>1. CASE Audio!Waiting # {}
      <4>1. CASE frameSlot = {}
        BY <3>1, <4>1 DEF NextTaskInv
      <4>2. CASE frameSlot # {}
        BY <4>2 DEF TurnInv, IInv, TypeOK
      <4> QED BY <4>1, <4>2
    <3>2. CASE Audio!Waiting = {}
      BY <3>2 DEF Audio!Waiting
    <3> QED BY <3>1, <3>2
  <2>6. SpotifyCan \/ \A t \in SpotifyTasks : spStatus[t] # "owed"
    BY SpotifyGoesOn
  <2>7. /\ life = "stopping_cb" /\ cbPhase # "off" => cbPhase = "stopping"
        /\ life = "stopping_audio" /\ auPhase # "off" => auPhase = "stopping"
    BY DEF IInv, PhaseInv
  <2> QED BY <2>0, <2>1, <2>3, <2>4, <2>5, <2>6, <2>7 DEF NoCircularWait
<1> QED BY <1>1, Invariance, NextTasks, TurnInvariance, PTL
-----------------------------------------------------------------------------
\* What one actor posts to the spotify thread is run in the order it posts it, in
\* whatever order the tasks of others come in between, and nothing of it is left out:
\* when t was not posted yet while u waited, t is never run before u.
THEOREM ActorsKeepOrder ==
  ASSUME NEW t \in SpotifyTasks, NEW u \in SpotifyTasks, t.by = u.by
  PROVE  Spec => [](u \in Spotify!Waiting /\ spStatus[t] = "new" => [](Ran(t) => Ran(u)))
<1> DEFINE Order == \/ u \in Spotify!Waiting /\ spStatus[t] = "new"
                    \/ u \in Spotify!Waiting /\ <<u, t>> \in spAhead /\ ~Ran(t)
                    \/ Ran(u)
<1>1. Order => (Ran(t) => Ran(u))
  BY DEF Ran
<1>2. TypeOK /\ Order /\ [Next]_vars => Order'
  <2> SUFFICES ASSUME TypeOK, Order, [Next]_vars PROVE Order'
    OBVIOUS
  <2>0. Spotify!WorkerTypeOK /\ SpotifyStep
    BY TypeParts, ThreadSteps
  <2>1. CASE \/ UNCHANGED spotifyVars \/ Spotify!Start \/ Spotify!Up \/ Spotify!Stop
             \/ Spotify!Down
    BY <2>0, <2>1 DEF spotifyVars, Spotify!Start, Spotify!Up, Spotify!Stop, Spotify!Down,
                      Spotify!WorkerTypeOK, Spotify!Waiting, Spotify!Kinds, Ran
  <2>2. ASSUME NEW x \in SpotifyTasks, Spotify!Run(x) PROVE Order'
    <3>1. /\ x \in Spotify!Waiting /\ \A y \in SpotifyTasks : <<y, x>> \notin spAhead
          /\ spStatus' = [spStatus EXCEPT ![x] = "ran"]
          /\ spAhead' = {p \in spAhead : p[1] # x /\ p[2] # x}
      BY <2>0, <2>2, RunEffect
    <3> QED BY <2>0, <3>1 DEF Spotify!WorkerTypeOK, Spotify!Waiting, Spotify!Kinds, Ran
  <2>3. ASSUME NEW x \in SpotifyTasks, post(x) PROVE Order'
    <3>1. PICK S \in SUBSET Spotify!Waiting :
            Earlier(x) \subseteq S /\ spAhead' = spAhead \cup (S \X {x})
      BY <2>0, <2>3, PostEffect
    <3>2. spStatus[x] = "new" /\ spStatus' = [spStatus EXCEPT ![x] = "prompt"]
      BY <2>0, <2>3, PostEffect
    <3>3. x = t /\ u \in Spotify!Waiting => <<u, t>> \in spAhead'
      BY <3>1 DEF Earlier
    <3>4. u \in Spotify!Waiting => u \in Spotify!Waiting'
      BY <2>0, <3>2 DEF Spotify!WorkerTypeOK, Spotify!Waiting, Spotify!Kinds
    <3> QED BY <2>0, <3>1, <3>2, <3>3, <3>4 DEF Spotify!WorkerTypeOK, Ran
  <2> QED BY <2>0, <2>1, <2>2, <2>3 DEF SpotifyStep
<1>3. u \in Spotify!Waiting /\ spStatus[t] = "new" => Order
  OBVIOUS
<1> HIDE DEF Order
<1> QED BY <1>1, <1>2, <1>3, TypeCorrect, PTL DEF Spec
=============================================================================
