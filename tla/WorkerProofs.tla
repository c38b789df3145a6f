---------------------------- MODULE WorkerProofs ----------------------------
(***************************************************************************)
(* Proofs about Worker, for any tasks: what users of a base::thread may    *)
(* rely on, whatever it is that they post.  BaseThread and the three       *)
(* threads of Engine inherit the theorems, being Workers.                  *)
(***************************************************************************)
EXTENDS Worker, WellFoundedInduction, TLAPS

\* Tasks are ahead of others while both wait; none is ahead of itself, not even by
\* way of others, and there is no end to go back to: a task was posted behind tasks
\* posted before it.
AheadInv ==
  /\ ahead \subseteq Waiting \X Waiting
  /\ IsWellFoundedOn(ahead, Tasks)

\* A run is owed while the thread is being stopped.
OwedInv == phase # "stopping" => \A t \in Tasks : status[t] # "owed"

WorkerInv == WorkerTypeOK /\ AheadInv /\ OwedInv
-----------------------------------------------------------------------------
LEMMA InitialWorker == Init => WorkerInv
BY EmptyIsWellFounded
   DEF Init, WorkerInv, WorkerTypeOK, AheadInv, OwedInv

LEMMA TypeStep == WorkerTypeOK /\ [Next]_workerVars => WorkerTypeOK'
<1> USE DEF WorkerTypeOK, Kinds
<1> SUFFICES ASSUME WorkerTypeOK, [Next]_workerVars PROVE WorkerTypeOK'
  OBVIOUS
<1>1. ASSUME NEW T \in SUBSET Tasks, NEW s \in {"ran", "dropped"}, Leave(T, s)
      PROVE  /\ status' \in [Tasks -> Kinds \cup {"new", "owed", "ran", "dropped"}]
             /\ ahead' \subseteq Tasks \X Tasks
  BY <1>1 DEF Leave
<1>2. ASSUME NEW t \in Tasks, Run(t) PROVE WorkerTypeOK'
  BY <1>1, <1>2 DEF Run
<1>3. ASSUME NEW T \in SUBSET Tasks, Drop(T) PROVE WorkerTypeOK'
  BY <1>1, <1>3 DEF Drop
<1>4. ASSUME NEW t \in Tasks, NEW S \in SUBSET Tasks, NEW kind \in Kinds, Post(t, S, kind)
      PROVE  WorkerTypeOK'
  BY <1>4 DEF Post
<1> QED BY <1>2, <1>3, <1>4 DEF Next, Start, Up, Stop, Down, Work, workerVars

\* A post makes no circle: an infinite descent would go on without the new task.
LEMMA PostKeepsOrder ==
  ASSUME AheadInv, NEW t \in Tasks \ Waiting, NEW S \in SUBSET Waiting
  PROVE  IsWellFoundedOn(ahead \cup (S \X {t}), Tasks)
<1> SUFFICES ASSUME NEW f \in [Nat -> Tasks],
                    \A n \in Nat : <<f[n + 1], f[n]>> \in ahead \cup (S \X {t})
             PROVE  FALSE
  BY DEF IsWellFoundedOn
<1> DEFINE g == [n \in Nat |-> f[n + 1]]
<1>1. g \in [Nat -> Tasks]
  OBVIOUS
<1>2. ASSUME NEW n \in Nat PROVE f[n + 1] # t
  BY DEF AheadInv
<1>3. ASSUME NEW n \in Nat PROVE <<g[n + 1], g[n]>> \in ahead
  <2>1. <<f[(n + 1) + 1], f[n + 1]>> \in ahead \cup (S \X {t})
    OBVIOUS
  <2>2. f[n + 1] # t
    BY <1>2
  <2> QED BY <2>1, <2>2
<1> HIDE DEF g
<1> QED BY <1>1, <1>3 DEF AheadInv, IsWellFoundedOn

LEMMA LeaveKeepsOrder ==
  ASSUME WorkerTypeOK, AheadInv, NEW T \in SUBSET Tasks, NEW s \in {"ran", "dropped"},
         Leave(T, s)
  PROVE  AheadInv'
<1>1. ahead' \subseteq ahead
  BY DEF Leave
<1>2. IsWellFoundedOn(ahead', Tasks)
  BY <1>1, IsWellFoundedOnSubrelation DEF AheadInv
<1>3. ahead' \subseteq Waiting' \X Waiting'
  BY DEF Leave, AheadInv, Waiting, WorkerTypeOK
<1> QED BY <1>2, <1>3 DEF AheadInv

LEMMA AheadStep == WorkerTypeOK /\ AheadInv /\ [Next]_workerVars => AheadInv'
<1> SUFFICES ASSUME WorkerTypeOK, AheadInv, [Next]_workerVars PROVE AheadInv'
  OBVIOUS
<1>1. ASSUME NEW t \in Tasks, Run(t) PROVE AheadInv'
  BY <1>1, LeaveKeepsOrder DEF Run
<1>2. ASSUME NEW T \in SUBSET Tasks, Drop(T) PROVE AheadInv'
  BY <1>2, LeaveKeepsOrder DEF Drop
<1>3. ASSUME NEW t \in Tasks, NEW S \in SUBSET Tasks, NEW kind \in Kinds, Post(t, S, kind)
      PROVE  AheadInv'
  <2>1. t \notin Waiting /\ S \in SUBSET Waiting /\ ahead' = ahead \cup (S \X {t})
    BY <1>3 DEF Post, Waiting, Kinds
  <2>2. Waiting' = Waiting \cup {t}
    BY <1>3 DEF Post, Waiting, WorkerTypeOK
  <2>3. IsWellFoundedOn(ahead', Tasks)
    BY <2>1, PostKeepsOrder
  <2> QED BY <2>1, <2>2, <2>3 DEF AheadInv
<1>4. CASE Stop
  <2>1. Waiting' = Waiting
    BY <1>4 DEF Stop, Waiting, WorkerTypeOK, Kinds
  <2> QED BY <1>4, <2>1 DEF Stop, AheadInv
<1>5. CASE UNCHANGED <<status, ahead>>
  BY <1>5 DEF AheadInv, Waiting
<1> QED
  BY <1>1, <1>2, <1>3, <1>4, <1>5 DEF Next, Start, Up, Down, Work, workerVars

LEMMA OwedStep == WorkerTypeOK /\ OwedInv /\ [Next]_workerVars => OwedInv'
<1> SUFFICES ASSUME WorkerTypeOK, OwedInv, [Next]_workerVars PROVE OwedInv'
  OBVIOUS
<1> QED
  BY DEF WorkerTypeOK, OwedInv, Next, Start, Up, Stop, Down, Work, Run, Drop, Leave, Post,
         Kinds, workerVars

LEMMA WorkerInvariance == SafeSpec => []WorkerInv
<1>1. WorkerInv /\ [Next]_workerVars => WorkerInv'
  BY TypeStep, AheadStep, OwedStep DEF WorkerInv
<1> QED BY <1>1, InitialWorker, PTL DEF SafeSpec
-----------------------------------------------------------------------------
\* The tasks of a thread never wait for each other in a circle, nor for tasks that are
\* gone: while tasks wait, one of them is next, however many there are and however
\* they were posted (the heap and the batches behind message_loop::exec).
THEOREM SomebodyIsNext == SafeSpec => [](Waiting # {} => \E t \in Tasks : IsNext(t))
<1>1. WorkerInv => (Waiting # {} => \E t \in Tasks : IsNext(t))
  <2> SUFFICES ASSUME WorkerInv, Waiting # {} PROVE \E t \in Tasks : IsNext(t)
    OBVIOUS
  <2>1. Waiting \subseteq Tasks
    BY DEF Waiting
  <2>2. PICK t \in Waiting : \A u \in Waiting : ~(<<u, t>> \in ahead)
    BY <2>1, WFMin DEF WorkerInv, AheadInv
  <2>3. \A u \in Tasks : <<u, t>> \notin ahead
    BY <2>2 DEF WorkerInv, AheadInv
  <2> QED BY <2>1, <2>2, <2>3 DEF IsNext
<1> QED BY <1>1, WorkerInvariance, PTL

\* A task is run before those posted behind it, or not at all: from the post of t
\* behind u until forever, t has not been run unless u has, or was dropped.
THEOREM BehindIsLater ==
  ASSUME NEW t \in Tasks, NEW u \in Tasks
  PROVE  SafeSpec => [](<<u, t>> \in ahead =>
                          [](status[t] = "ran" => status[u] \in {"ran", "dropped"}))
<1> DEFINE Order == \/ <<u, t>> \in ahead
                    \/ status[u] \in {"ran", "dropped"} \/ status[t] = "dropped"
<1>1. WorkerInv /\ Order => (status[t] = "ran" => status[u] \in {"ran", "dropped"})
  BY DEF WorkerInv, AheadInv, Waiting, Kinds
<1>2. WorkerInv /\ Order /\ [Next]_workerVars => Order'
  <2> SUFFICES ASSUME WorkerInv, Order, [Next]_workerVars PROVE Order'
    OBVIOUS
  <2> USE DEF WorkerInv, WorkerTypeOK
  <2>1. ASSUME NEW x \in Tasks, Run(x) PROVE Order'
    BY <2>1 DEF Run, Leave, IsNext, Waiting, Kinds
  <2>2. ASSUME NEW T \in SUBSET Tasks, Drop(T) PROVE Order'
    BY <2>2 DEF Drop, Leave, Waiting, Kinds
  <2>3. ASSUME NEW x \in Tasks, NEW S \in SUBSET Tasks, NEW kind \in Kinds,
               Post(x, S, kind)
        PROVE  Order'
    BY <2>3 DEF Post
  <2>4. CASE Stop
    BY <2>4 DEF Stop
  <2>5. CASE UNCHANGED <<status, ahead>>
    BY <2>5
  <2> QED BY <2>1, <2>2, <2>3, <2>4, <2>5 DEF Next, Start, Up, Down, Work, workerVars
<1>3. <<u, t>> \in ahead => Order
  OBVIOUS
<1> HIDE DEF Order
<1> QED BY <1>1, <1>2, <1>3, WorkerInvariance, PTL DEF SafeSpec

\* What a stop() owes it pays: a task that is owed a run stays owed until it is run,
\* and was run when the thread is gone, and ever after (thread::stop).
THEOREM OwedIsPaid ==
  ASSUME NEW t \in Tasks
  PROVE  SafeSpec => [](status[t] = "owed" =>
                          [](/\ status[t] \in {"owed", "ran"}
                             /\ phase # "stopping" => status[t] = "ran"))
<1> DEFINE Paid == status[t] \in {"owed", "ran"}
<1>1. WorkerInv /\ Paid =>
        status[t] \in {"owed", "ran"} /\ (phase # "stopping" => status[t] = "ran")
  BY DEF WorkerInv, OwedInv
<1>2. WorkerInv /\ Paid /\ [Next]_workerVars => Paid'
  <2> SUFFICES ASSUME WorkerInv, Paid, [Next]_workerVars PROVE Paid'
    OBVIOUS
  <2> USE DEF WorkerInv, WorkerTypeOK
  <2>1. ASSUME NEW x \in Tasks, Run(x) PROVE Paid'
    BY <2>1 DEF Run, Leave
  <2>2. ASSUME NEW T \in SUBSET Tasks, Drop(T) PROVE Paid'
    BY <2>2 DEF Drop, Leave, Waiting, Kinds
  <2>3. ASSUME NEW x \in Tasks, NEW S \in SUBSET Tasks, NEW kind \in Kinds,
               Post(x, S, kind)
        PROVE  Paid'
    BY <2>3 DEF Post
  <2>4. CASE Stop
    BY <2>4 DEF Stop
  <2>5. CASE UNCHANGED <<status, ahead>>
    BY <2>5
  <2> QED BY <2>1, <2>2, <2>3, <2>4, <2>5 DEF Next, Start, Up, Down, Work, workerVars
<1>3. status[t] = "owed" => Paid
  OBVIOUS
<1> HIDE DEF Paid
<1> QED BY <1>1, <1>2, <1>3, WorkerInvariance, PTL DEF SafeSpec

\* A task that was run or dropped stays so: it is not run twice, nor run after all.
THEOREM OutcomeIsFinal ==
  ASSUME NEW t \in Tasks, NEW s \in {"ran", "dropped"}
  PROVE  SafeSpec => [](status[t] = s => [](status[t] = s))
<1> DEFINE Final == status[t] = s
<1>1. WorkerInv /\ Final /\ [Next]_workerVars => Final'
  BY DEF WorkerInv, WorkerTypeOK, Next, Start, Up, Stop, Down, Work, Run, Drop, Leave, Post,
         IsNext, Waiting, Kinds, workerVars
<1> HIDE DEF Final
<1>2. SafeSpec => [](Final => []Final)
  BY <1>1, WorkerInvariance, PTL DEF SafeSpec
<1> QED BY <1>2 DEF Final
=============================================================================
