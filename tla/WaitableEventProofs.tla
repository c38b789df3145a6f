------------------------ MODULE WaitableEventProofs -------------------------
(***************************************************************************)
(* Proofs about WaitableEvent, for any number of calls: the types, that    *)
(* every wait_and_reset() has its own signal, and that the one thread a    *)
(* signal() notifies is enough.                                            *)
(***************************************************************************)
EXTENDS WaitableEvent, FiniteSetTheorems, TLAPS

\* TypeOK, NobodyStranded and SignalTakenOnce are inductive together: a step of a
\* waiting call needs to know that it does not sleep, a signal() that it has not
\* notified yet.
IInv == TypeOK /\ SignalTakenOnce /\ NobodyStranded

\* The signals that are taken or wait to be taken.
Takes == returned \cap Resets
-----------------------------------------------------------------------------
\* The sets that are counted are finite.
LEMMA Countable ==
  ASSUME TypeOK
  PROVE  /\ IsFiniteSet(Takes) /\ Cardinality(Takes) \in Nat
         /\ IsFiniteSet(stored) /\ Cardinality(stored) \in Nat
<1>1. IsFiniteSet(Resets) /\ IsFiniteSet(Signals) BY WaitableEventAssumption
<1>2. Takes \in SUBSET Resets /\ stored \in SUBSET Signals BY DEF Takes, TypeOK
<1>3. IsFiniteSet(Takes) /\ IsFiniteSet(stored) BY <1>1, <1>2, FS_Subset
<1> QED BY <1>3, FS_CardinalityType

\* Nothing has been called yet.
LEMMA InitialState == Init => IInv
<1> SUFFICES ASSUME Init PROVE IInv OBVIOUS
<1>1. Cardinality({}) = 0 BY FS_EmptySet
<1>2. {} \cap Resets = {} OBVIOUS
<1>3. SignalTakenOnce BY <1>1, <1>2 DEF Init, SignalTakenOnce
<1> QED BY <1>3 DEF Init, IInv, TypeOK, NobodyStranded

\* A call that returns does so on a set flag; a wait_and_reset() clears it, and so
\* takes the signal that was counted for nobody.
LEMMA WaitStep ==
  ASSUME IInv, NEW c \in Calls, c \notin sleeping \cup returned,
         wait_on_lock(c), UNCHANGED <<stored, notified>>
  PROVE  SignalTakenOnce'
<1>1. CASE ~signaled BY <1>1 DEF IInv, SignalTakenOnce, wait_on_lock
<1>2. CASE signaled /\ c \notin Resets
  <2>1. Takes' = Takes /\ signaled' = signaled /\ stored' = stored
    BY <1>2 DEF Takes, wait_on_lock, IInv, TypeOK
  <2>2. stored # {}
    BY <1>2, Countable, FS_EmptySet DEF IInv, SignalTakenOnce, Takes
  <2> QED BY <2>1, <2>2 DEF IInv, SignalTakenOnce, Takes
<1>3. CASE signaled /\ c \in Resets
  <2>1. Takes' = Takes \cup {c} /\ c \notin Takes /\ ~signaled' /\ stored' = stored
    BY <1>3 DEF Takes, wait_on_lock
  <2>2. Cardinality(Takes') = Cardinality(Takes) + 1
    BY <2>1, Countable, FS_AddElement DEF IInv
  <2>3. Cardinality(Takes) + 1 <= Cardinality(stored)
    BY <1>3 DEF IInv, SignalTakenOnce, Takes
  <2>4. stored # {}
    BY <2>3, Countable, FS_EmptySet DEF IInv
  <2> QED BY <2>1, <2>2, <2>3, <2>4, Countable DEF IInv, SignalTakenOnce, Takes
<1> QED BY <1>1, <1>2, <1>3

\* A flag that is set once more adds at most one signal to take.
LEMMA StoreStep ==
  ASSUME IInv, NEW s \in Signals, Store(s)
  PROVE  SignalTakenOnce'
<1>1. Cardinality(stored') = Cardinality(stored) + 1 /\ stored' # {}
  BY Countable, FS_AddElement DEF IInv, Store
<1>2. Takes' = Takes BY DEF Store, Takes
<1> QED BY <1>1, <1>2, Countable DEF IInv, SignalTakenOnce, Takes, Store

\* One step per action.
LEMMA Inductive == IInv /\ [Next]_vars => IInv'
<1> SUFFICES ASSUME IInv, [Next]_vars PROVE IInv' OBVIOUS
<1> USE DEF IInv, TypeOK
<1>1. ASSUME NEW c \in Calls, Enter(c) PROVE IInv'
  <2>1. SignalTakenOnce' BY <1>1, WaitStep DEF Enter
  <2>2. TypeOK' BY <1>1 DEF Enter, wait_on_lock
  <2>3. NobodyStranded' BY <1>1 DEF Enter, wait_on_lock, NobodyStranded, Calls
  <2> QED BY <2>1, <2>2, <2>3
<1>2. ASSUME NEW c \in Calls, Resume(c) PROVE IInv'
  <2>1. SignalTakenOnce' BY <1>2, WaitStep DEF Resume
  <2>2. TypeOK' BY <1>2 DEF Resume, wait_on_lock
  <2>3. NobodyStranded' BY <1>2 DEF Resume, wait_on_lock, NobodyStranded, Calls
  <2> QED BY <2>1, <2>2, <2>3
<1>3. ASSUME NEW c \in Calls, SpuriousWakeup(c) PROVE IInv'
  BY <1>3 DEF SpuriousWakeup, NobodyStranded, SignalTakenOnce
<1>4. ASSUME NEW s \in Signals, Store(s) PROVE IInv'
  <2>1. SignalTakenOnce' BY <1>4, StoreStep
  <2>2. TypeOK' BY <1>4 DEF Store
  <2>3. NobodyStranded' BY <1>4 DEF Store, NobodyStranded
  <2> QED BY <2>1, <2>2, <2>3
<1>5. ASSUME NEW s \in Signals, NotifyOne(s) PROVE IInv'
  <2>1. TypeOK' BY <1>5 DEF NotifyOne
  <2>2. NobodyStranded' BY <1>5 DEF NotifyOne, NobodyStranded
  <2>3. SignalTakenOnce' BY <1>5 DEF NotifyOne, SignalTakenOnce
  <2> QED BY <2>1, <2>2, <2>3
<1>6. CASE UNCHANGED vars
  BY <1>6 DEF vars, NobodyStranded, SignalTakenOnce
<1> QED BY <1>1, <1>2, <1>3, <1>4, <1>5, <1>6 DEF Next, wait, wait_and_reset, Calls

\* What holds in every state.
LEMMA Invariance == Spec => []IInv
BY InitialState, Inductive, PTL DEF Spec

\* The sets of calls stay what they are: no call is in two places.
THEOREM TypeCorrect == Spec => []TypeOK
<1>1. IInv => TypeOK BY DEF IInv
<1> QED BY <1>1, Invariance, PTL

\* However many calls race, wait_and_reset() never returns more often than the
\* flag was set.
THEOREM SignalNotShared == Spec => []SignalTakenOnce
<1>1. IInv => SignalTakenOnce BY DEF IInv
<1> QED BY <1>1, Invariance, PTL

\* notify_one() after the unlock leaves nobody asleep on a set event, for any
\* number of wait_and_reset() calls.
THEOREM OneIsEnough == Spec => []NobodyStranded
<1>1. IInv => NobodyStranded BY DEF IInv
<1> QED BY <1>1, Invariance, PTL
=============================================================================
