----------------------------- MODULE TaskProofs -----------------------------
(***************************************************************************)
(* Proofs about Task, for any sets of calls: the type invariant and the    *)
(* safety invariants of the run task.                                      *)
(*                                                                         *)
(* The invariant is built in layers, each inductive relative to those      *)
(* before it: who claimed the task (ClaimInv), what a caller of get() has  *)
(* seen (GetInv), what the claimant, the destructor and cancel() have      *)
(* written (WriteInv, OverInv), and what callers were told (UserInv).      *)
(***************************************************************************)
EXTENDS Task, TLAPS

Claimed == {"calling", "posting", "storing"}

\* One invocation at most is past mark_running(), and state_ says so.
ClaimInv ==
  /\ \A i, j \in Invocations : rpc[i] \in Winning /\ rpc[j] \in Winning => i = j
  /\ \A i \in Invocations :
       /\ rpc[i] \in Claimed => state = "running"
       /\ rpc[i] = "notifying" => state = "finished"
       /\ rpc[i] = "lost" => state # "initialized"
       /\ rpc[i] \in Winning \cup {"lost"} => object = "alive"
  /\ state = "running" => \E i \in Invocations : rpc[i] \in Claimed
  /\ object \in {"abandoning", "storing"} => state \in {"initialized", "cancelled"}
  /\ object = "notifying" => state = "finished"

\* What a get() relies on at each of its steps.
GetInv ==
  \A u \in HandleCalls :
    /\ upc[u] = "ready" => state \in Ready
    /\ upc[u] = "reading" => state = "finished"
    /\ outcome[u] = "value" => state = "finished"

\* What the invocation has written at each of its steps.
WriteInv ==
  /\ \A i \in Invocations :
       /\ rpc[i] = "calling" => calls = 0
       /\ rpc[i] = "posting" => calls = 1 /\ storage /\ exception = "none"
       /\ rpc[i] = "storing" => /\ calls = 1
                                /\ storage <=> exception = "none"
                                /\ exception = "none" => continuation # "set"
       /\ rpc[i] = "notifying" => calls = 1
  /\ calls = 0 => ~storage /\ exception # "thrown" /\ continuation # "posted"
  /\ continuation = "posted" => exception = "none"
  /\ calls <= 1
  /\ calls = 1 => \E i \in Invocations : rpc[i] # "idle"
  /\ state \in {"initialized", "cancelled"} => calls = 0

\* How the task can be over: cancelled, run, or destroyed without having run.
OverInv ==
  /\ exception = "not_run" => calls = 0 /\ object # "alive"
  /\ object \in {"storing", "notifying"} => exception = "not_run"
  /\ \A u \in HandleCalls : upc[u] # "idle" => acquired
  /\ state = "finished" =>
       /\ calls = 0 => exception = "not_run"
       /\ exception = "none" => continuation # "set"
       /\ valid \/ ~acquired => (storage <=> exception = "none")
  /\ state = "cancelled" => cancelWon
  /\ cancelWon =>
       /\ calls = 0 /\ state \in Ready
       /\ object = "alive" => state = "cancelled"

RunInv == WriteInv /\ OverInv
UserInv == OutcomeIsTrue /\ AlreadyCalledIsTrue
IInv == TypeOK /\ ClaimInv /\ GetInv /\ RunInv /\ UserInv
-----------------------------------------------------------------------------
\* The start: nothing is claimed, nothing is written, nobody waits.
LEMMA InitialState == Init => IInv
<1> SUFFICES ASSUME Init PROVE IInv OBVIOUS
<1> USE DEF Init, HandleCalls, Ready, Winning, Claimed
<1>1. TypeOK BY DEF TypeOK
<1>2. ClaimInv BY DEF ClaimInv
<1>3. RunInv BY DEF RunInv, WriteInv, OverInv
<1>4. UserInv BY DEF UserInv, OutcomeIsTrue, AlreadyCalledIsTrue
<1>5. GetInv BY DEF GetInv
<1> QED BY <1>1, <1>2, <1>3, <1>4, <1>5 DEF IInv

\* Every step keeps the types.
LEMMA TypeStep ==
  ASSUME TypeOK, WriteInv, [Next]_vars
  PROVE  TypeOK'
<1> USE DEF TypeOK, taskVars, handleVars, HandleCalls, Ready, Winning
<1>1. CASE get_handle
  BY <1>1 DEF get_handle, Owned
<1>2. CASE then
  BY <1>2 DEF then, Owned
<1>3. CASE Destroy
  BY <1>3 DEF Destroy, Owned, Drop, is_set, move_task, is_ready
<1>4. CASE SetNotRun
  BY <1>4 DEF SetNotRun, set_exception
<1>5. CASE StoreNotRun
  BY <1>5 DEF StoreNotRun
<1>6. CASE NotifyNotRun
  BY <1>6 DEF NotifyNotRun, Drop, is_set, move_task, notify_all
<1>7. CASE cancel
  BY <1>7 DEF cancel, CompareExchange
<1>8. ASSUME NEW i \in Invocations, Invoke(i) PROVE TypeOK'
  BY <1>8 DEF Invoke, CompareExchange, Goto
<1>9. ASSUME NEW i \in Invocations, Lost(i) PROVE TypeOK'
  BY <1>9 DEF Lost, is_cancelled, Goto
<1>10. ASSUME NEW i \in Invocations, Execute(i) PROVE TypeOK'
  <2>1. calls' \in {0, 1} BY <1>10 DEF Execute, WriteInv
  <2>2. exception' \in {"none", "not_run", "thrown"} /\ storage' \in BOOLEAN
    BY <1>10, Zenon DEF Execute, set_result, set_exception
  <2>3. rpc' \in [Invocations -> {"idle", "lost", "done", "already_called"} \cup Winning]
    BY <1>10, Zenon DEF Execute, set_result, set_exception, Goto
  <2> QED BY <1>10, <2>1, <2>2, <2>3 DEF Execute, set_result, set_exception
<1>11. ASSUME NEW i \in Invocations, post_continuation(i) PROVE TypeOK'
  BY <1>11 DEF post_continuation, is_set, move_task, Goto
<1>12. ASSUME NEW i \in Invocations, StoreFinished(i) PROVE TypeOK'
  BY <1>12 DEF StoreFinished, Goto
<1>13. ASSUME NEW i \in Invocations, NotifyFinished(i) PROVE TypeOK'
  BY <1>13 DEF NotifyFinished, Goto, notify_all
<1>14. ASSUME NEW u \in HandleCalls, Enter(u) PROVE TypeOK'
  BY <1>14 DEF Enter, Move, End
<1>15. ASSUME NEW u \in HandleCalls, FastCheck(u) PROVE TypeOK'
  BY <1>15 DEF FastCheck, Proceed, Move, End, is_ready
<1>16. ASSUME NEW u \in HandleCalls, LockedCheck(u) PROVE TypeOK'
  BY <1>16 DEF LockedCheck, Proceed, Move, End, is_ready
<1>17. ASSUME NEW u \in HandleCalls, Block(u) PROVE TypeOK'
  BY <1>17 DEF Block, Move
<1>18. ASSUME NEW u \in HandleCalls, SpuriousWakeup(u) PROVE TypeOK'
  BY <1>18 DEF SpuriousWakeup, Move
<1>19. ASSUME NEW u \in HandleCalls, TestCancelled(u) PROVE TypeOK'
  <2>1. valid' \in BOOLEAN BY <1>19, Zenon DEF TestCancelled, Release
  <2>2. UNCHANGED <<state, taskVars, callable, acquired, cancelWon, object, rpc>>
    BY <1>19 DEF TestCancelled, is_cancelled
  <2>3. upc' \in [HandleCalls -> {"idle", "entered", "locking", "blocking", "asleep",
                                  "ready", "reading", "done"}]
    BY <1>19 DEF TestCancelled, is_cancelled, Move, End
  <2>4. outcome' \in [HandleCalls -> {"none", "returned", "value", "thrown", "not_run",
                                      "cancelled", "no_state"}]
    BY <1>19 DEF TestCancelled, is_cancelled, Move, End
  <2> QED BY <2>1, <2>2, <2>3, <2>4
<1>20. ASSUME NEW u \in HandleCalls, ReadOutcome(u) PROVE TypeOK'
  <2>1. valid' \in BOOLEAN BY <1>20, Zenon DEF ReadOutcome, Release
  <2>2. /\ UNCHANGED <<state, exception, continuation, calls, callable, acquired,
                       cancelWon, object, rpc>>
        /\ storage' \in BOOLEAN
    BY <1>20 DEF ReadOutcome, get_result
  <2>3. upc' \in [HandleCalls -> {"idle", "entered", "locking", "blocking", "asleep",
                                  "ready", "reading", "done"}]
    BY <1>20 DEF ReadOutcome, Move, End
  <2>4. outcome' \in [HandleCalls -> {"none", "returned", "value", "thrown", "not_run",
                                      "cancelled", "no_state"}]
    BY <1>20 DEF ReadOutcome, Move, End
  <2> QED BY <2>1, <2>2, <2>3, <2>4
<1>21. CASE UNCHANGED vars
  BY <1>21 DEF vars
<1> QED BY <1>1, <1>2, <1>3, <1>4, <1>5, <1>6, <1>7, <1>8, <1>9, <1>10, <1>11,
   <1>12, <1>13, <1>14, <1>15, <1>16, <1>17, <1>18, <1>19, <1>20, <1>21 DEF
   Next, TaskStep, HandleStep, Operator, Destructor, WaitOrGet, vars

\* The exchange on state_ admits one invocation, and none once the task is
\* cancelled or its destructor has seen that it never ran.
LEMMA ClaimStep ==
  ASSUME TypeOK, ClaimInv, [Next]_vars
  PROVE  ClaimInv'
<1> USE DEF TypeOK, ClaimInv, Claimed, taskVars, handleVars, HandleCalls,
   Ready, Winning
<1>1. ASSUME NEW i \in Invocations, Invoke(i) PROVE ClaimInv'
  BY <1>1 DEF Invoke, CompareExchange, Goto
<1>2. ASSUME NEW i \in Invocations, Lost(i) PROVE ClaimInv'
  BY <1>2 DEF Lost, is_cancelled, Goto
<1>3. ASSUME NEW i \in Invocations, Execute(i) PROVE ClaimInv'
  BY <1>3 DEF Execute, set_result, set_exception, Goto
<1>4. ASSUME NEW i \in Invocations, post_continuation(i) PROVE ClaimInv'
  BY <1>4 DEF post_continuation, is_set, move_task, Goto
<1>5. ASSUME NEW i \in Invocations, StoreFinished(i) PROVE ClaimInv'
  BY <1>5 DEF StoreFinished, Goto
<1>6. ASSUME NEW i \in Invocations, NotifyFinished(i) PROVE ClaimInv'
  BY <1>6 DEF NotifyFinished, Goto, notify_all
<1>7. CASE Destroy
  BY <1>7 DEF Destroy, Owned, Drop, is_set, move_task, is_ready
<1>8. CASE SetNotRun
  BY <1>8 DEF SetNotRun, set_exception
<1>9. CASE StoreNotRun
  BY <1>9 DEF StoreNotRun
<1>10. CASE NotifyNotRun
  BY <1>10 DEF NotifyNotRun, Drop, is_set, move_task, notify_all
<1>11. CASE cancel
  BY <1>11 DEF cancel, CompareExchange
<1>12. CASE UNCHANGED <<state, rpc, object>>
  BY <1>12 DEF vars
<1> QED BY <1>1, <1>2, <1>3, <1>4, <1>5, <1>6, <1>7, <1>8, <1>9, <1>10, <1>11,
   <1>12 DEF Next, TaskStep, HandleStep, Operator, Destructor, WaitOrGet, vars,
   get_handle, then, Enter, FastCheck, LockedCheck, Block, SpuriousWakeup, TestCancelled,
   ReadOutcome, End, Move, Owned, Proceed, Release, is_ready

\* A caller of get() that has seen the task over may rely on it.
LEMMA GetStep ==
  ASSUME TypeOK, GetInv, [Next]_vars
  PROVE  GetInv'
<1> USE DEF TypeOK, GetInv, taskVars, handleVars, HandleCalls, Ready, Winning
<1>1. ASSUME NEW i \in Invocations, Invoke(i) PROVE GetInv'
  BY <1>1 DEF Invoke, CompareExchange, Goto
<1>2. ASSUME NEW i \in Invocations, StoreFinished(i) PROVE GetInv'
  BY <1>2 DEF StoreFinished, Goto
<1>3. CASE StoreNotRun
  BY <1>3 DEF StoreNotRun
<1>4. CASE cancel
  BY <1>4 DEF cancel, CompareExchange
<1>5. ASSUME NEW i \in Invocations, NotifyFinished(i) PROVE GetInv'
  BY <1>5 DEF NotifyFinished, Goto, notify_all
<1>6. CASE NotifyNotRun
  BY <1>6 DEF NotifyNotRun, Drop, is_set, move_task, notify_all
<1>7. ASSUME NEW u \in HandleCalls, Enter(u) PROVE GetInv'
  BY <1>7 DEF Enter, Move, End
<1>8. ASSUME NEW u \in HandleCalls, FastCheck(u) PROVE GetInv'
  BY <1>8 DEF FastCheck, Proceed, Move, End, is_ready
<1>9. ASSUME NEW u \in HandleCalls, LockedCheck(u) PROVE GetInv'
  BY <1>9 DEF LockedCheck, Proceed, Move, End, is_ready
<1>10. ASSUME NEW u \in HandleCalls, Block(u) PROVE GetInv'
  BY <1>10 DEF Block, Move
<1>11. ASSUME NEW u \in HandleCalls, SpuriousWakeup(u) PROVE GetInv'
  BY <1>11 DEF SpuriousWakeup, Move
<1>12. ASSUME NEW u \in HandleCalls, TestCancelled(u) PROVE GetInv'
  BY <1>12 DEF TestCancelled, is_cancelled, Move, End, Release
<1>13. ASSUME NEW u \in HandleCalls, ReadOutcome(u) PROVE GetInv'
  BY <1>13 DEF ReadOutcome, get_result, Move, End, Release
<1>14. CASE UNCHANGED <<state, upc, outcome>>
  BY <1>14 DEF vars
<1> QED BY <1>1, <1>2, <1>3, <1>4, <1>5, <1>6, <1>7, <1>8, <1>9, <1>10, <1>11,
   <1>12, <1>13, <1>14 DEF Next, TaskStep, HandleStep, Operator, Destructor,
   WaitOrGet, vars,
   get_handle, then, Destroy, SetNotRun, Lost, Execute, post_continuation,
   Drop, Goto, Owned, is_ready

\* The invocation, the destructor and cancel() agree on the outcome: each writes
\* it only in the states ClaimInv leaves to it.
LEMMA RunStep ==
  ASSUME TypeOK, ClaimInv, GetInv, RunInv, [Next]_vars
  PROVE  RunInv'
<1> USE DEF TypeOK, ClaimInv, GetInv, Claimed, RunInv, WriteInv, OverInv,
   taskVars, handleVars, HandleCalls, Ready, Winning
<1>1. CASE get_handle
  BY <1>1 DEF get_handle, Owned
<1>2. CASE then
  BY <1>2 DEF then, Owned
<1>3. CASE Destroy
  BY <1>3 DEF Destroy, Owned, Drop, is_set, move_task, is_ready
<1>4. CASE SetNotRun
  BY <1>4 DEF SetNotRun, set_exception
<1>5. CASE StoreNotRun
  BY <1>5 DEF StoreNotRun
<1>6. CASE NotifyNotRun
  BY <1>6 DEF NotifyNotRun, Drop, is_set, move_task, notify_all
<1>7. CASE cancel
  BY <1>7 DEF cancel, CompareExchange
<1>8. ASSUME NEW i \in Invocations, Invoke(i) PROVE RunInv'
  <2>1. WriteInv'
    BY <1>8 DEF Invoke, CompareExchange, Goto
  <2>2. OverInv'
    BY <1>8 DEF Invoke, CompareExchange, Goto
  <2> QED BY <2>1, <2>2
<1>9. ASSUME NEW i \in Invocations, Lost(i) PROVE RunInv'
  BY <1>9 DEF Lost, is_cancelled, Goto
<1>10. ASSUME NEW i \in Invocations, Execute(i) PROVE RunInv'
  <2>1. WriteInv'
    BY <1>10 DEF Execute, set_result, set_exception, Goto
  <2>2. OverInv'
    BY <1>10 DEF Execute, set_result, set_exception, Goto
  <2> QED BY <2>1, <2>2
<1>11. ASSUME NEW i \in Invocations, post_continuation(i) PROVE RunInv'
  <2>1. WriteInv'
    BY <1>11 DEF post_continuation, is_set, move_task, Goto
  <2>2. OverInv'
    BY <1>11 DEF post_continuation, is_set, move_task, Goto
  <2> QED BY <2>1, <2>2
<1>12. ASSUME NEW i \in Invocations, StoreFinished(i) PROVE RunInv'
  <2>1. WriteInv'
    BY <1>12 DEF StoreFinished, Goto
  <2>2. OverInv'
    BY <1>12 DEF StoreFinished, Goto
  <2> QED BY <2>1, <2>2
<1>13. ASSUME NEW i \in Invocations, NotifyFinished(i) PROVE RunInv'
  BY <1>13 DEF NotifyFinished, Goto, notify_all
<1>14. ASSUME NEW u \in HandleCalls, Enter(u) PROVE RunInv'
  BY <1>14 DEF Enter, Move, End
<1>15. ASSUME NEW u \in HandleCalls, FastCheck(u) PROVE RunInv'
  BY <1>15 DEF FastCheck, Proceed, Move, End, is_ready
<1>16. ASSUME NEW u \in HandleCalls, LockedCheck(u) PROVE RunInv'
  BY <1>16 DEF LockedCheck, Proceed, Move, End, is_ready
<1>17. ASSUME NEW u \in HandleCalls, Block(u) PROVE RunInv'
  BY <1>17 DEF Block, Move
<1>18. ASSUME NEW u \in HandleCalls, SpuriousWakeup(u) PROVE RunInv'
  BY <1>18 DEF SpuriousWakeup, Move
<1>19. ASSUME NEW u \in HandleCalls, TestCancelled(u) PROVE RunInv'
  BY <1>19 DEF TestCancelled, is_cancelled, Move, End, Release
<1>20. ASSUME NEW u \in HandleCalls, ReadOutcome(u) PROVE RunInv'
  <2>1. WriteInv'
    BY <1>20 DEF ReadOutcome, get_result, Move, End, Release
  <2>2. OverInv'
    BY <1>20 DEF ReadOutcome, get_result, Move, End, Release
  <2> QED BY <2>1, <2>2
<1>21. CASE UNCHANGED vars
  BY <1>21 DEF vars
<1> QED BY <1>1, <1>2, <1>3, <1>4, <1>5, <1>6, <1>7, <1>8, <1>9, <1>10, <1>11,
   <1>12, <1>13, <1>14, <1>15, <1>16, <1>17, <1>18, <1>19, <1>20, <1>21 DEF
   Next, TaskStep, HandleStep, Operator, Destructor, WaitOrGet, vars

\* What a caller has read stays true until it returns.
LEMMA UserStep ==
  ASSUME TypeOK, ClaimInv, GetInv, RunInv, UserInv, [Next]_vars
  PROVE  UserInv'
<1> USE DEF TypeOK, ClaimInv, Claimed, RunInv, WriteInv, OverInv, GetInv,
   UserInv, OutcomeIsTrue, AlreadyCalledIsTrue, taskVars, handleVars,
   HandleCalls, Ready, Winning
<1>1. CASE get_handle
  <2>1. OutcomeIsTrue'
    BY <1>1 DEF get_handle, Owned
  <2>2. AlreadyCalledIsTrue'
    BY <1>1 DEF get_handle, Owned
  <2> QED BY <2>1, <2>2
<1>2. CASE then
  <2>1. OutcomeIsTrue'
    BY <1>2 DEF then, Owned
  <2>2. AlreadyCalledIsTrue'
    BY <1>2 DEF then, Owned
  <2> QED BY <2>1, <2>2
<1>3. CASE Destroy
  <2>1. OutcomeIsTrue'
    BY <1>3 DEF Destroy, Owned, Drop, is_set, move_task, is_ready
  <2>2. AlreadyCalledIsTrue'
    BY <1>3 DEF Destroy, Owned, Drop, is_set, move_task, is_ready
  <2> QED BY <2>1, <2>2
<1>4. CASE SetNotRun
  <2>1. OutcomeIsTrue'
    BY <1>4 DEF SetNotRun, set_exception
  <2>2. AlreadyCalledIsTrue'
    BY <1>4 DEF SetNotRun, set_exception
  <2> QED BY <2>1, <2>2
<1>5. CASE StoreNotRun
  <2>1. OutcomeIsTrue'
    BY <1>5 DEF StoreNotRun
  <2>2. AlreadyCalledIsTrue'
    BY <1>5 DEF StoreNotRun
  <2> QED BY <2>1, <2>2
<1>6. CASE NotifyNotRun
  <2>1. OutcomeIsTrue'
    BY <1>6 DEF NotifyNotRun, Drop, is_set, move_task, notify_all
  <2>2. AlreadyCalledIsTrue'
    BY <1>6 DEF NotifyNotRun, Drop, is_set, move_task, notify_all
  <2> QED BY <2>1, <2>2
<1>7. CASE cancel
  <2>1. OutcomeIsTrue'
    BY <1>7 DEF cancel, CompareExchange
  <2>2. AlreadyCalledIsTrue'
    BY <1>7 DEF cancel, CompareExchange
  <2> QED BY <2>1, <2>2
<1>8. ASSUME NEW i \in Invocations, Invoke(i) PROVE UserInv'
  <2>1. OutcomeIsTrue'
    BY <1>8 DEF Invoke, CompareExchange, Goto
  <2>2. AlreadyCalledIsTrue'
    BY <1>8 DEF Invoke, CompareExchange, Goto
  <2> QED BY <2>1, <2>2
<1>9. ASSUME NEW i \in Invocations, Lost(i) PROVE UserInv'
  <2>1. OutcomeIsTrue'
    BY <1>9 DEF Lost, is_cancelled, Goto
  <2>2. AlreadyCalledIsTrue'
    BY <1>9 DEF Lost, is_cancelled, Goto
  <2> QED BY <2>1, <2>2
<1>10. ASSUME NEW i \in Invocations, Execute(i) PROVE UserInv'
  <2>1. OutcomeIsTrue'
    BY <1>10 DEF Execute, set_result, set_exception, Goto
  <2>2. AlreadyCalledIsTrue'
    BY <1>10 DEF Execute, set_result, set_exception, Goto
  <2> QED BY <2>1, <2>2
<1>11. ASSUME NEW i \in Invocations, post_continuation(i) PROVE UserInv'
  <2>1. OutcomeIsTrue'
    BY <1>11 DEF post_continuation, is_set, move_task, Goto
  <2>2. AlreadyCalledIsTrue'
    BY <1>11 DEF post_continuation, is_set, move_task, Goto
  <2> QED BY <2>1, <2>2
<1>12. ASSUME NEW i \in Invocations, StoreFinished(i) PROVE UserInv'
  <2>1. OutcomeIsTrue'
    BY <1>12 DEF StoreFinished, Goto
  <2>2. AlreadyCalledIsTrue'
    BY <1>12 DEF StoreFinished, Goto
  <2> QED BY <2>1, <2>2
<1>13. ASSUME NEW i \in Invocations, NotifyFinished(i) PROVE UserInv'
  <2>1. OutcomeIsTrue'
    BY <1>13 DEF NotifyFinished, Goto, notify_all
  <2>2. AlreadyCalledIsTrue'
    BY <1>13 DEF NotifyFinished, Goto, notify_all
  <2> QED BY <2>1, <2>2
<1>14. ASSUME NEW u \in HandleCalls, Enter(u) PROVE UserInv'
  <2>1. OutcomeIsTrue'
    BY <1>14 DEF Enter, Move, End
  <2>2. AlreadyCalledIsTrue'
    BY <1>14 DEF Enter, Move, End
  <2> QED BY <2>1, <2>2
<1>15. ASSUME NEW u \in HandleCalls, FastCheck(u) PROVE UserInv'
  <2>1. OutcomeIsTrue'
    BY <1>15 DEF FastCheck, Proceed, Move, End, is_ready
  <2>2. AlreadyCalledIsTrue'
    BY <1>15 DEF FastCheck, Proceed, Move, End, is_ready
  <2> QED BY <2>1, <2>2
<1>16. ASSUME NEW u \in HandleCalls, LockedCheck(u) PROVE UserInv'
  <2>1. OutcomeIsTrue'
    BY <1>16 DEF LockedCheck, Proceed, Move, End, is_ready
  <2>2. AlreadyCalledIsTrue'
    BY <1>16 DEF LockedCheck, Proceed, Move, End, is_ready
  <2> QED BY <2>1, <2>2
<1>17. ASSUME NEW u \in HandleCalls, Block(u) PROVE UserInv'
  <2>1. OutcomeIsTrue'
    BY <1>17 DEF Block, Move
  <2>2. AlreadyCalledIsTrue'
    BY <1>17 DEF Block, Move
  <2> QED BY <2>1, <2>2
<1>18. ASSUME NEW u \in HandleCalls, SpuriousWakeup(u) PROVE UserInv'
  <2>1. OutcomeIsTrue'
    BY <1>18 DEF SpuriousWakeup, Move
  <2>2. AlreadyCalledIsTrue'
    BY <1>18 DEF SpuriousWakeup, Move
  <2> QED BY <2>1, <2>2
<1>19. ASSUME NEW u \in HandleCalls, TestCancelled(u) PROVE UserInv'
  <2>1. OutcomeIsTrue'
    BY <1>19 DEF TestCancelled, is_cancelled, Move, End, Release
  <2>2. AlreadyCalledIsTrue'
    BY <1>19 DEF TestCancelled, is_cancelled, Move, End, Release
  <2> QED BY <2>1, <2>2
<1>20. ASSUME NEW u \in HandleCalls, ReadOutcome(u) PROVE UserInv'
  <2>1. OutcomeIsTrue'
    BY <1>20 DEF ReadOutcome, get_result, Move, End, Release
  <2>2. AlreadyCalledIsTrue'
    BY <1>20 DEF ReadOutcome, get_result, Move, End, Release
  <2> QED BY <2>1, <2>2
<1>21. CASE UNCHANGED vars
  BY <1>21 DEF vars
<1> QED BY <1>1, <1>2, <1>3, <1>4, <1>5, <1>6, <1>7, <1>8, <1>9, <1>10, <1>11,
   <1>12, <1>13, <1>14, <1>15, <1>16, <1>17, <1>18, <1>19, <1>20, <1>21 DEF
   Next, TaskStep, HandleStep, Operator, Destructor, WaitOrGet, vars
-----------------------------------------------------------------------------
\* IInv is inductive.
LEMMA Inductive == IInv /\ [Next]_vars => IInv'
BY TypeStep, ClaimStep, GetStep, RunStep, UserStep DEF IInv, RunInv

\* IInv holds in every reachable state.
LEMMA Invariance == Spec => []IInv
BY InitialState, Inductive, PTL DEF Spec

\* Whatever is done with a task and its handle, the variables keep their types.
THEOREM TypeCorrect == Spec => []TypeOK
<1>1. IInv => TypeOK BY DEF IInv
<1> QED BY Invariance, <1>1, PTL

\* Every outcome a get() reports is what happened to the task, and the callable
\* never runs twice (task_handle::get, task::operator()).
THEOREM OutcomeTrue == Spec => []OutcomeIsTrue
<1>1. IInv => OutcomeIsTrue BY DEF IInv, UserInv
<1> QED BY Invariance, <1>1, PTL

\* A cancel() that returned true excludes every execution of the callable
\* (task_shared_state_base::cancel and mark_running).
THEOREM CancelWins == Spec => []CancelExcludesRun
<1>1. IInv => CancelExcludesRun
  BY DEF IInv, CancelExcludesRun, ClaimInv, Claimed, RunInv, WriteInv, OverInv,
         Winning, Ready
<1> QED BY Invariance, <1>1, PTL

\* A finished task whose result was not taken holds a result or an exception and
\* never both, so get_value() finds its storage filled.
THEOREM OutcomePresent == Spec => []FinishedHasOutcome
<1>1. IInv => FinishedHasOutcome BY DEF IInv, FinishedHasOutcome, RunInv, OverInv
<1> QED BY Invariance, <1>1, PTL

\* The continuation is posted only after a result, and before anybody has read it
\* (task::post_continuation).
THEOREM ContinuationFirst == Spec => []ContinuationBeforeResult
<1>1. IInv => ContinuationBeforeResult
  <2> SUFFICES ASSUME IInv PROVE ContinuationBeforeResult OBVIOUS
  <2> USE DEF IInv, RunInv
  <2>1. continuation = "posted" => calls = 1 /\ exception = "none"
    BY DEF WriteInv, TypeOK
  <2>2. ASSUME NEW u \in HandleCalls, outcome[u] = "value"
        PROVE  continuation # "set"
    BY <2>2 DEF GetInv, OverInv, UserInv, OutcomeIsTrue
  <2> QED BY <2>1, <2>2 DEF ContinuationBeforeResult
<1> QED BY Invariance, <1>1, PTL

\* already_called is thrown only to a caller that lost the callable to another
\* invocation (the comment in task::operator()).
THEOREM AlreadyCalledTrue == Spec => []AlreadyCalledIsTrue
<1>1. IInv => AlreadyCalledIsTrue BY DEF IInv, UserInv
<1> QED BY Invariance, <1>1, PTL
-----------------------------------------------------------------------------
\* What is left of CancelIsFinal: after a cancel() that returned true, a get() that
\* ended before the destructor was entered was told cancelled or no_state, and one
\* that ends later is told nothing worse than not_run, never a value nor the
\* callable's exception (the stores of ~task(), task.h:122).
THEOREM CancelledOrNotRun ==
  Spec => [](cancelWon =>
               \A u \in HandleCalls :
                 \/ outcome[u] \in {"none", "returned", "cancelled", "no_state"}
                 \/ outcome[u] = "not_run" /\ object # "alive")
<1>1. IInv /\ cancelWon =>
        \A u \in HandleCalls :
          \/ outcome[u] \in {"none", "returned", "cancelled", "no_state"}
          \/ outcome[u] = "not_run" /\ object # "alive"
  BY DEF IInv, TypeOK, RunInv, OverInv, UserInv, OutcomeIsTrue
<1> QED BY <1>1, Invariance, PTL

\* Whoever is inside wait() or get() has the shared state, and a get() that returned
\* the result has released it.
InsideInv ==
  /\ \A u \in HandleCalls :
       /\ upc[u] \notin {"idle", "done"} => valid
       /\ outcome[u] # "none" => upc[u] = "done"
       /\ outcome[u] = "value" => ~valid
  /\ \A u, v \in HandleCalls : outcome[u] = "value" /\ outcome[v] = "value" => u = v

LEMMA InsideStep == IInv /\ InsideInv /\ [Next]_vars => InsideInv'
<1> SUFFICES ASSUME IInv, InsideInv, [Next]_vars PROVE InsideInv'
  OBVIOUS
<1> USE DEF IInv, TypeOK, RunInv, OverInv, InsideInv, taskVars, handleVars
<1>1. ASSUME NEW u \in HandleCalls, Enter(u) PROVE InsideInv'
  BY <1>1 DEF Enter, Move, End
<1>2. ASSUME NEW u \in HandleCalls, FastCheck(u) \/ LockedCheck(u) PROVE InsideInv'
  BY <1>2 DEF FastCheck, LockedCheck, Proceed, Move, End
<1>3. ASSUME NEW u \in HandleCalls, Block(u) \/ SpuriousWakeup(u) PROVE InsideInv'
  BY <1>3 DEF Block, SpuriousWakeup, Move
<1>4. ASSUME NEW u \in HandleCalls, TestCancelled(u) PROVE InsideInv'
  BY <1>4 DEF TestCancelled, Move, End, Release
<1>5. ASSUME NEW u \in HandleCalls, ReadOutcome(u) PROVE InsideInv'
  <2>1. /\ valid /\ ~valid' /\ upc' = [upc EXCEPT ![u] = "done"]
        /\ \A v \in HandleCalls \ {u} : upc[v] \in {"idle", "done"}
        /\ \E o \in {"not_run", "thrown", "value"} : outcome' = [outcome EXCEPT ![u] = o]
    BY <1>5 DEF ReadOutcome, Move, End, Release
  <2> QED BY <2>1
<1>6. CASE get_handle
  BY <1>6 DEF get_handle
<1>7. ASSUME NEW i \in Invocations, NotifyFinished(i) PROVE InsideInv'
  BY <1>7 DEF NotifyFinished, notify_all
<1>8. CASE NotifyNotRun
  BY <1>8 DEF NotifyNotRun, notify_all
<1>9. CASE UNCHANGED <<valid, upc, outcome>>
  BY <1>9
<1> QED
  BY <1>1, <1>2, <1>3, <1>4, <1>5, <1>6, <1>7, <1>8, <1>9
  DEF Next, TaskStep, HandleStep, Operator, Destructor, WaitOrGet, vars, then, Invoke,
      Lost, Execute, post_continuation, StoreFinished, Destroy, SetNotRun, StoreNotRun, cancel

\* The result is moved out once: of any number of get()s one returns it, and every
\* other one that ends is told why not (task_handle::get resets the handle).
THEOREM ResultTakenOnce ==
  Spec => [](\A u, v \in HandleCalls : outcome[u] = "value" /\ outcome[v] = "value" => u = v)
<1>1. Init => InsideInv
  BY DEF Init, InsideInv
<1>2. InsideInv =>
        \A u, v \in HandleCalls : outcome[u] = "value" /\ outcome[v] = "value" => u = v
  BY DEF InsideInv
<1> QED BY <1>1, <1>2, InsideStep, Invariance, PTL DEF Spec
=============================================================================
