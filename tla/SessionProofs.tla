---------------------------- MODULE SessionProofs ----------------------------
(***************************************************************************)
(* Proofs about Session, for any searches and any number of notifications: *)
(* the types, the chain of process_events() and what is left when the      *)
(* session is released and destroyed.                                      *)
(*                                                                         *)
(* The invariant says that no task is queued twice (Distinct), where the   *)
(* owner is while its tasks are queued (WhereInv), which session there is  *)
(* then (LifeInv), which process_events() waits or runs (PumpInv), what    *)
(* notifications are left (NotifyInv), and that the tasks ~session() waits *)
(* for are behind what they must not overtake (OrderInv).                  *)
(***************************************************************************)
EXTENDS Session, TLAPS

Distinct(s) == \A i, j \in 1..Len(s) : s[i] = s[j] => i = j

\* ~session() has come to the release, or its first task was run.
Cancelled ==
  \/ life \in {"releasing", "cancelling_notify", "stopping", "dead"}
  \/ life = "cancelling_events" /\ Now("cancel_events") \notin Queued

\* The first process_events() was posted.
Booted == life \notin {"none", "creating", "failed"} /\ Now("boot") \notin Queued

\* The tasks of search() and of query() and track().
Creates(s) == Task("search_create", s, FALSE)
Asks(s) == Task("query", s, FALSE)

WhereInv ==
  /\ Now("create_session") \in Queued =>
       life = "creating" /\ spSession = "none" /\ running = "none"
  /\ Now("boot") \in Queued => life \in {"alive", "cancelling_events"} /\ ~Cancelled
  /\ Now("cancel_events") \in Queued => life = "cancelling_events"
  /\ Now("release") \in Queued => life = "releasing"
  /\ Now("cancel_notify") \in Queued => life = "cancelling_notify"
  /\ \A s \in Searches :
       /\ Creates(s) \in Queued =>
            search[s] = "posted" /\ life \in {"alive", "cancelling_events"} /\ ~Cancelled
       /\ Asks(s) \in Queued => s \in slot
       /\ s \in slot \cup cbq => search[s] = "delivered"
       /\ s \in slot => s \notin cbq

LifeInv ==
  /\ life = "none" => spSession = "none" /\ Queued = {}
  /\ spSession = "none" => life \in {"none", "creating"} /\ running \in {"none", "creating"}
  /\ spSession = "none" /\ running = "none" => Queued \subseteq {Now("create_session")}
  /\ running = "creating" => life = "creating" /\ spSession = "none"
  /\ life = "failed" => spSession = "failed"
  /\ spSession = "failed" => life \in {"creating", "failed"}
  /\ life \in {"alive", "cancelling_events"} => spSession = "live"
  /\ life = "releasing" =>
       spSession = IF Now("release") \in Queued THEN "live" ELSE "released"
  /\ life \in {"cancelling_notify", "stopping", "dead"} => spSession = "released"
  /\ spSession = "released" => life \in {"releasing", "cancelling_notify", "stopping", "dead"}
  /\ cb = "running" <=> life \notin {"none", "dead"}
  /\ life = "dead" \/ spSession = "none" => cbq = {} /\ slot = {}

PumpInv ==
  /\ cancelled \subseteq PumpTasks \cup NotifyTasks
  /\ ~Booted => peh = Invalid /\ running # "events" /\ Queued \cap PumpTasks = {}
  /\ Booted => peh # Invalid
  /\ \A t \in Live \cap PumpTasks : t = peh
  /\ running = "events" => peh \notin Live
  /\ Booted /\ ~Cancelled => peh \in Live \/ running = "events"
  /\ Cancelled => peh \notin Live /\ running = "none"

NotifyInv ==
  /\ \A t \in Queued \cap NotifyTasks : t.num <= notifies
  /\ \/ life \in {"stopping", "dead"}
     \/ life = "cancelling_notify" /\ Now("cancel_notify") \notin Queued
     => Queued \cap NotifyTasks \subseteq late

\* In the sequence s the task f is behind the tasks of F.
Behind(s, f, F) == \A i, j \in 1..Len(s) : s[i] = Now(f) /\ s[j] \in F => j < i

Starts == {Now("boot")} \cup {Creates(s) : s \in Searches}

OrderInv ==
  /\ Behind(q, "cancel_events", Starts)
  /\ Behind(q, "cancel_notify", NotifyTasks \ late)

QueueInv == q \in Seq(Tasks) /\ Distinct(q) /\ OrderInv

IInv == TypeOK /\ QueueInv /\ WhereInv /\ LifeInv /\ PumpInv /\ NotifyInv
-----------------------------------------------------------------------------
LEMMA AppendFacts ==
  ASSUME NEW s \in Seq(Tasks), NEW t \in Tasks
  PROVE  /\ Append(s, t) \in Seq(Tasks) /\ Len(Append(s, t)) = Len(s) + 1
         /\ \A j \in 1..Len(s) : Append(s, t)[j] = s[j]
         /\ Append(s, t)[Len(s) + 1] = t
         /\ ToSet(Append(s, t)) = ToSet(s) \cup {t}
         /\ Distinct(s) /\ t \notin ToSet(s) => Distinct(Append(s, t))
<1>1. /\ Append(s, t) \in Seq(Tasks) /\ Len(Append(s, t)) = Len(s) + 1
      /\ \A j \in 1..Len(s) : Append(s, t)[j] = s[j]
      /\ Append(s, t)[Len(s) + 1] = t
  OBVIOUS
<1>2. ToSet(Append(s, t)) = ToSet(s) \cup {t}
  BY <1>1 DEF ToSet
<1>3. Distinct(s) /\ t \notin ToSet(s) => Distinct(Append(s, t))
  BY <1>1 DEF ToSet, Distinct
<1> QED BY <1>1, <1>2, <1>3

LEMMA ConcatFacts ==
  ASSUME NEW a \in Seq(Tasks), NEW b \in Seq(Tasks)
  PROVE  /\ a \o b \in Seq(Tasks) /\ Len(a \o b) = Len(a) + Len(b)
         /\ \A j \in 1..Len(a \o b) :
              (a \o b)[j] = IF j <= Len(a) THEN a[j] ELSE b[j - Len(a)]
OBVIOUS

LEMMA RemoveFacts ==
  ASSUME NEW s \in Seq(Tasks), NEW i \in 1..Len(s)
  PROVE  /\ RemoveAt(s, i) \in Seq(Tasks) /\ Len(RemoveAt(s, i)) = Len(s) - 1
         /\ \A j \in 1..Len(RemoveAt(s, i)) :
              RemoveAt(s, i)[j] = IF j < i THEN s[j] ELSE s[j + 1]
         /\ Distinct(s) => /\ Distinct(RemoveAt(s, i))
                           /\ ToSet(RemoveAt(s, i)) = ToSet(s) \ {s[i]}
<1> DEFINE r == RemoveAt(s, i)
<1>0. i \in 1..Len(s)
  OBVIOUS
<1>1. /\ SubSeq(s, 1, i - 1) \in Seq(Tasks) /\ Len(SubSeq(s, 1, i - 1)) = i - 1
      /\ \A j \in 1..(i - 1) : SubSeq(s, 1, i - 1)[j] = s[j]
  BY <1>0
<1>2. /\ SubSeq(s, i + 1, Len(s)) \in Seq(Tasks)
      /\ Len(SubSeq(s, i + 1, Len(s))) = Len(s) - i
      /\ \A j \in 1..(Len(s) - i) : SubSeq(s, i + 1, Len(s))[j] = s[j + i]
  BY <1>0
<1>3. /\ r \in Seq(Tasks) /\ Len(r) = Len(s) - 1
      /\ \A j \in 1..Len(r) : r[j] = IF j < i THEN s[j] ELSE s[j + 1]
  <2> DEFINE a == SubSeq(s, 1, i - 1)
             b == SubSeq(s, i + 1, Len(s))
  <2>1. r = a \o b
    BY DEF RemoveAt
  <2> HIDE DEF a, b, r
  <2>2. /\ a \in Seq(Tasks) /\ Len(a) = i - 1 /\ \A j \in 1..(i - 1) : a[j] = s[j]
        /\ b \in Seq(Tasks) /\ Len(b) = Len(s) - i
        /\ \A j \in 1..(Len(s) - i) : b[j] = s[j + i]
    BY <1>1, <1>2 DEF a, b
  <2>3. /\ r \in Seq(Tasks) /\ Len(r) = Len(a) + Len(b)
        /\ \A j \in 1..Len(r) : r[j] = IF j <= Len(a) THEN a[j] ELSE b[j - Len(a)]
    BY <2>1, <2>2, ConcatFacts
  <2>4. Len(r) = Len(s) - 1
    BY <1>0, <2>2, <2>3
  <2>5. ASSUME NEW j \in 1..Len(r) PROVE r[j] = IF j < i THEN s[j] ELSE s[j + 1]
    <3>1. CASE j < i
      <4>1. j \in 1..(i - 1) /\ j <= Len(a)
        BY <1>0, <2>2, <2>5, <3>1
      <4> QED BY <2>2, <2>3, <2>5, <3>1, <4>1
    <3>2. CASE ~(j < i)
      <4>1. j - Len(a) \in 1..(Len(s) - i) /\ (j - Len(a)) + i = j + 1
        BY <1>0, <2>2, <2>4, <2>5, <3>2
      <4>2. r[j] = b[j - Len(a)]
        BY <1>0, <2>2, <2>3, <2>5, <3>2
      <4> QED BY <2>2, <3>2, <4>1, <4>2
    <3> QED BY <3>1, <3>2
  <2> QED BY <2>3, <2>4, <2>5
<1> HIDE DEF r
<1>4. ToSet(r) \subseteq ToSet(s)
  BY <1>0, <1>3 DEF ToSet
<1>5. ASSUME Distinct(s) PROVE Distinct(r)
  BY <1>0, <1>3, <1>5 DEF Distinct
<1>6. ASSUME Distinct(s) PROVE ToSet(r) = ToSet(s) \ {s[i]}
  <2>1. s[i] \notin ToSet(r)
    BY <1>0, <1>3, <1>6 DEF Distinct, ToSet
  <2>2. ASSUME NEW j \in 1..Len(s), j # i PROVE s[j] \in ToSet(r)
    <3>1. CASE j < i
      BY <1>0, <1>3, <3>1 DEF ToSet
    <3>2. CASE j > i
      <4>1. j - 1 \in 1..Len(r) /\ r[j - 1] = s[j]
        BY <1>0, <1>3, <3>2
      <4> QED BY <4>1, <1>3 DEF ToSet
    <3> QED BY <2>2, <3>1, <3>2, <1>0
  <2>3. \A j \in 1..Len(s) : s[j] # s[i] => s[j] \in ToSet(r)
    BY <2>2
  <2>4. ToSet(s) \ {s[i]} \subseteq ToSet(r)
    BY <2>3 DEF ToSet
  <2> QED BY <1>4, <2>1, <2>4
<1> QED BY <1>3, <1>5, <1>6 DEF r
-----------------------------------------------------------------------------
(***************************************************************************)
(* Tasks and the queue.                                                    *)
(***************************************************************************)
OwnFuns == {"create_session", "boot", "cancel_events", "release", "cancel_notify",
            "log_in_or_out"}

LEMMA TaskParts ==
  /\ \A f, n, d : /\ Task(f, n, d).fun = f /\ Task(f, n, d).num = n
                  /\ Task(f, n, d).delayed = d
  /\ \A f : Now(f).fun = f /\ Now(f).delayed = FALSE
  /\ \A f, g : Now(f) = Now(g) <=> f = g
  /\ \A s : /\ Creates(s).fun = "search_create" /\ Creates(s).num = s
            /\ Asks(s).fun = "query" /\ Asks(s).num = s
BY DEF Task, Now, Creates, Asks

\* What a task's function says of it.
LEMMA TaskKinds ==
  /\ \A t \in PumpTasks : t \in Tasks /\ t.fun = "process_events"
  /\ \A t \in NotifyTasks :
       /\ t \in Tasks /\ t.fun = "notify_main_thread" /\ ~t.delayed
       /\ t.num \in 1..MaxNotifies /\ t = Task("notify_main_thread", t.num, FALSE)
  /\ \A s \in Searches :
       Task("search_create", s, FALSE) \in Tasks /\ Task("query", s, FALSE) \in Tasks
  /\ \A f \in OwnFuns : Now(f) \in Tasks
  /\ \A t \in Tasks :
       /\ t.fun \in OwnFuns => t = Now(t.fun)
       /\ t.fun \notin OwnFuns => t \in PumpTasks \cup NotifyTasks \cup SearchTasks
       /\ t.fun = "process_events" <=> t \in PumpTasks
       /\ t.fun = "notify_main_thread" <=> t \in NotifyTasks
       /\ t.fun \in {"search_create", "query"} =>
            t.num \in Searches /\ t = Task(t.fun, t.num, FALSE)
       /\ t.fun \in OwnFuns \cup {"process_events", "notify_main_thread",
                                  "search_create", "query"}
       /\ t \notin PumpTasks => t.delayed = FALSE
<1>1. \A t \in PumpTasks : t.fun = "process_events"
  BY DEF PumpTasks
<1>2. \A t \in NotifyTasks :
        /\ t.fun = "notify_main_thread" /\ t.delayed = FALSE
        /\ t.num \in 1..MaxNotifies /\ t = Task("notify_main_thread", t.num, FALSE)
  <2> TAKE t \in NotifyTasks
  <2>1. t.fun = "notify_main_thread" /\ t.num \in 1..MaxNotifies /\ t.delayed = FALSE
    BY DEF NotifyTasks
  <2>2. t = [fun |-> t.fun, num |-> t.num, delayed |-> t.delayed]
    BY DEF NotifyTasks
  <2> QED BY <2>1, <2>2 DEF Task
<1>3. \A t \in SearchTasks :
        /\ t.fun \in {"search_create", "query"} /\ t.delayed = FALSE
        /\ t.num \in Searches /\ t = Task(t.fun, t.num, FALSE)
  <2> TAKE t \in SearchTasks
  <2>1. t.fun \in {"search_create", "query"} /\ t.num \in Searches /\ t.delayed = FALSE
    BY DEF SearchTasks
  <2>2. t = [fun |-> t.fun, num |-> t.num, delayed |-> t.delayed]
    BY DEF SearchTasks
  <2> QED BY <2>1, <2>2 DEF Task
<1>4. \A t \in OwnTasks : t.fun \in OwnFuns /\ t.delayed = FALSE /\ t = Now(t.fun)
  BY TaskParts DEF OwnTasks, OwnFuns
<1>5. /\ \A s \in Searches :
           /\ Task("search_create", s, FALSE) \in SearchTasks
           /\ Task("query", s, FALSE) \in SearchTasks
      /\ \A f \in OwnFuns : Now(f) \in OwnTasks
  <2>1. \A s \in Searches :
           /\ Task("search_create", s, FALSE) \in SearchTasks
           /\ Task("query", s, FALSE) \in SearchTasks
    BY DEF SearchTasks, Task
  <2>2. \A f \in OwnFuns : Now(f) \in OwnTasks
    BY DEF OwnTasks, OwnFuns
  <2> QED BY <2>1, <2>2
<1>6. /\ PumpTasks \subseteq Tasks /\ NotifyTasks \subseteq Tasks
      /\ SearchTasks \subseteq Tasks /\ OwnTasks \subseteq Tasks
      /\ \A t \in Tasks :
           t \in PumpTasks \/ t \in NotifyTasks \/ t \in SearchTasks \/ t \in OwnTasks
  BY DEF Tasks
<1>7. /\ "process_events" \notin OwnFuns /\ "notify_main_thread" \notin OwnFuns
      /\ "search_create" \notin OwnFuns /\ "query" \notin OwnFuns
  BY DEF OwnFuns
<1> HIDE DEF OwnFuns
<1> QED BY <1>1, <1>2, <1>3, <1>4, <1>5, <1>6, <1>7

\* The post of a task that is not queued.
LEMMA AppendBehind ==
  ASSUME NEW s \in Seq(Tasks), NEW t \in Tasks, NEW f, NEW F, Behind(s, f, F),
         t = Now(f) => t \notin F, t \in F => Now(f) \notin ToSet(s)
  PROVE  Behind(Append(s, t), f, F)
<1>1. \A i \in 1..Len(s) : s[i] \in ToSet(s)
  BY DEF ToSet
<1> QED BY <1>1, AppendFacts DEF Behind

\* The removal of a task.
LEMMA RemoveBehind ==
  ASSUME NEW s \in Seq(Tasks), NEW i \in 1..Len(s), NEW f, NEW F, Behind(s, f, F)
  PROVE  Behind(RemoveAt(s, i), f, F)
<1> DEFINE r == RemoveAt(s, i)
<1>1. /\ r \in Seq(Tasks) /\ Len(r) = Len(s) - 1
      /\ \A j \in 1..Len(r) : r[j] = IF j < i THEN s[j] ELSE s[j + 1]
  BY RemoveFacts
<1> HIDE DEF r
<1>2. SUFFICES ASSUME NEW j \in 1..Len(r), NEW k \in 1..Len(r), r[j] = Now(f), r[k] \in F
               PROVE  k < j
  BY DEF Behind, r
<1>3. PICK j1 \in 1..Len(s) : r[j] = s[j1] /\ j1 = IF j < i THEN j ELSE j + 1
  BY <1>1
<1>4. PICK k1 \in 1..Len(s) : r[k] = s[k1] /\ k1 = IF k < i THEN k ELSE k + 1
  BY <1>1
<1>5. k1 < j1
  BY <1>2, <1>3, <1>4 DEF Behind
<1> QED BY <1>1, <1>3, <1>4, <1>5

LEMMA Apart ==
  /\ \A f, g : Now(f) = Now(g) <=> f = g
  /\ \A f \in OwnFuns :
       /\ Now(f) \in Tasks /\ Now(f) \notin PumpTasks /\ Now(f) \notin NotifyTasks
       /\ \A s \in Searches : Now(f) # Creates(s) /\ Now(f) # Asks(s)
  /\ Invalid \notin Tasks /\ Invalid \notin PumpTasks /\ Invalid \notin NotifyTasks
  /\ \A t \in PumpTasks : t \in Tasks /\ t \notin NotifyTasks
  /\ \A t \in NotifyTasks : t \in Tasks
  /\ \A s \in Searches :
       /\ Creates(s) \in Tasks /\ Creates(s) \notin PumpTasks /\ Creates(s) \notin NotifyTasks
       /\ Asks(s) \in Tasks /\ Asks(s) \notin PumpTasks /\ Asks(s) \notin NotifyTasks
       /\ \A u \in Searches :
            /\ Creates(s) # Asks(u)
            /\ Creates(s) = Creates(u) => s = u
            /\ Asks(s) = Asks(u) => s = u
<1>1. \A f, g : Now(f) = Now(g) <=> f = g
  BY TaskParts
<1>2. ASSUME NEW f \in OwnFuns
      PROVE  /\ Now(f) \in Tasks /\ Now(f) \notin PumpTasks /\ Now(f) \notin NotifyTasks
             /\ \A s \in Searches : Now(f) # Creates(s) /\ Now(f) # Asks(s)
  <2>1. f \notin {"process_events", "notify_main_thread", "search_create", "query"}
    BY DEF OwnFuns
  <2>2. \A s \in Searches : Creates(s).fun = "search_create" /\ Asks(s).fun = "query"
    BY TaskParts
  <2>3. Now(f).fun = f
    BY TaskParts
  <2> QED BY <2>1, <2>2, <2>3, TaskKinds
<1>3. Invalid \notin Tasks /\ Invalid \notin PumpTasks /\ Invalid \notin NotifyTasks
  <2>1. Invalid.fun = "nothing"
    BY TaskParts DEF Invalid
  <2>2. \A t \in Tasks : t.fun # "nothing"
    BY TaskKinds DEF OwnFuns
  <2> QED BY <2>1, <2>2, TaskKinds
<1>4. /\ \A t \in PumpTasks : t \in Tasks /\ t \notin NotifyTasks
      /\ \A t \in NotifyTasks : t \in Tasks
  BY TaskKinds
<1>5. ASSUME NEW s \in Searches
      PROVE  /\ Creates(s).fun = "search_create" /\ Asks(s).fun = "query"
             /\ Creates(s).num = s /\ Asks(s).num = s
             /\ Creates(s) \in Tasks /\ Asks(s) \in Tasks
  <2>1. Creates(s) \in Tasks /\ Asks(s) \in Tasks
    BY TaskKinds DEF Creates, Asks
  <2> QED BY <2>1, TaskParts
<1>6. ASSUME NEW s \in Searches
      PROVE  /\ Creates(s) \notin PumpTasks /\ Creates(s) \notin NotifyTasks
             /\ Asks(s) \notin PumpTasks /\ Asks(s) \notin NotifyTasks
             /\ \A u \in Searches :
                  /\ Creates(s) # Asks(u)
                  /\ Creates(s) = Creates(u) => s = u
                  /\ Asks(s) = Asks(u) => s = u
  <2>1. /\ \A t \in PumpTasks : t.fun = "process_events"
        /\ \A t \in NotifyTasks : t.fun = "notify_main_thread"
    BY TaskKinds
  <2>2. /\ Creates(s).fun = "search_create" /\ Asks(s).fun = "query"
        /\ Creates(s).num = s /\ Asks(s).num = s
        /\ \A u \in Searches :
             /\ Asks(u).fun = "query" /\ Creates(u).num = u /\ Asks(u).num = u
    BY TaskParts
  <2> QED BY <2>1, <2>2
<1> QED BY <1>1, <1>2, <1>3, <1>4, <1>5, <1>6

\* Which task it is.
LEMMA Which ==
  ASSUME NEW t \in Tasks
  PROVE  /\ t.fun \in OwnFuns => t = Now(t.fun)
         /\ t.fun = "process_events" <=> t \in PumpTasks
         /\ t.fun = "notify_main_thread" <=> t \in NotifyTasks
         /\ t.fun = "search_create" => t.num \in Searches /\ t = Creates(t.num)
         /\ t.fun = "query" => t.num \in Searches /\ t = Asks(t.num)
BY TaskKinds DEF Creates, Asks

LEMMA PostedOwn ==
  ASSUME TypeOK, NEW f \in OwnFuns
  PROVE  Posted(f) <=> Now(f) \in Queued
<1>1. Queued \subseteq Tasks
  BY DEF TypeOK, Queued, ToSet
<1> QED BY <1>1, Which, TaskParts DEF Posted
-----------------------------------------------------------------------------
(***************************************************************************)
(* What steps do to the queue.                                             *)
(***************************************************************************)
\* The order of the tasks, when no notification stops being late.
LEMMA OrderKept ==
  ASSUME IInv, late \subseteq late', Behind(q', "cancel_events", Starts),
         \/ Behind(q', "cancel_notify", NotifyTasks \ late)
         \/ Behind(q', "cancel_notify", NotifyTasks \ late')
  PROVE  OrderInv'
BY DEF OrderInv, Behind

LEMMA KeepStep ==
  ASSUME IInv, q' = q, late \subseteq late'
  PROVE  QueueInv' /\ Queued' = Queued
<1>1. OrderInv'
  BY OrderKept DEF IInv, QueueInv, OrderInv
<1> QED BY <1>1 DEF IInv, QueueInv, Queued, Distinct

LEMMA PostStep ==
  ASSUME IInv, NEW t \in Tasks, t \notin Queued, post(t), late \subseteq late',
         t \in Starts => Now("cancel_events") \notin Queued,
         t \in NotifyTasks \ late' => Now("cancel_notify") \notin Queued
  PROVE  QueueInv' /\ Queued' = Queued \cup {t}
<1>1. q \in Seq(Tasks) /\ Distinct(q) /\ q' = Append(q, t)
  BY DEF IInv, QueueInv, post
<1>2. q' \in Seq(Tasks) /\ Queued' = Queued \cup {t} /\ Distinct(q')
  BY <1>1, AppendFacts DEF Queued
<1>3. Behind(q', "cancel_events", Starts)
  <2>1. Now("cancel_events") \notin Starts
    BY Apart DEF Starts, OwnFuns
  <2> QED BY <1>1, <2>1, AppendBehind DEF IInv, QueueInv, OrderInv, Queued
<1>4. Behind(q', "cancel_notify", NotifyTasks \ late')
  <2>1. Now("cancel_notify") \notin NotifyTasks
    BY Apart DEF OwnFuns
  <2>2. Behind(q, "cancel_notify", NotifyTasks \ late')
    BY DEF IInv, QueueInv, OrderInv, Behind
  <2> QED BY <1>1, <2>1, <2>2, AppendBehind DEF Queued
<1>5. OrderInv'
  BY <1>3, <1>4, OrderKept
<1> QED BY <1>2, <1>5 DEF QueueInv

\* The post of a task that only calls libspotify.
LEMMA LogInOrOutPost ==
  ASSUME IInv, PostLogInOrOut, late' = late
  PROVE  QueueInv' /\ Queued' = Queued \cup {Now("log_in_or_out")}
<1>1. /\ Now("log_in_or_out") \in Tasks /\ Now("log_in_or_out") \notin Starts
      /\ Now("log_in_or_out") \notin NotifyTasks
  BY Apart DEF OwnFuns, Starts
<1>2. Now("log_in_or_out") \notin Queued
  BY PostedOwn DEF PostLogInOrOut, OwnFuns, IInv
<1> QED BY <1>1, <1>2, PostStep DEF PostLogInOrOut

LEMMA SlotPostsEffect ==
  ASSUME IInv, SlotPosts, late' = late
  PROVE  /\ QueueInv'
         /\ Queued' = Queued \/ Queued' = Queued \cup {Now("log_in_or_out")}
<1>1. CASE q' = q
  BY <1>1, KeepStep
<1>2. CASE PostLogInOrOut
  BY <1>2, LogInOrOutPost
<1> QED BY <1>1, <1>2 DEF SlotPosts

\* The queue without its i-th task.
LEMMA PopFacts ==
  ASSUME IInv, NEW i \in DOMAIN q
  PROVE  /\ Pop(i) \in Seq(Tasks) /\ Distinct(Pop(i)) /\ ToSet(Pop(i)) = Queued \ {q[i]}
         /\ \A f, F : Behind(q, f, F) => Behind(Pop(i), f, F)
         /\ q[i] \in Queued /\ q[i] \in Tasks
<1>1. q \in Seq(Tasks) /\ Distinct(q) /\ i \in 1..Len(q)
  BY DEF IInv, QueueInv
<1>2. Pop(i) \in Seq(Tasks) /\ Distinct(Pop(i)) /\ ToSet(Pop(i)) = Queued \ {q[i]}
  BY <1>1, RemoveFacts DEF Pop, Queued
<1>3. \A f, F : Behind(q, f, F) => Behind(Pop(i), f, F)
  BY <1>1, RemoveBehind DEF Pop
<1>4. q[i] \in Queued /\ q[i] \in Tasks
  BY <1>1 DEF Queued, ToSet
<1> QED BY <1>2, <1>3, <1>4

LEMMA PopStep ==
  ASSUME IInv, NEW i \in DOMAIN q, q' = Pop(i), late' = late
  PROVE  /\ QueueInv' /\ Queued' = Queued \ {q[i]}
         /\ q[i] \in Queued /\ q[i] \in Tasks
<1>1. /\ q' \in Seq(Tasks) /\ Distinct(q') /\ Queued' = Queued \ {q[i]}
      /\ \A f, F : Behind(q, f, F) => Behind(q', f, F)
      /\ q[i] \in Queued /\ q[i] \in Tasks
  BY PopFacts DEF Queued
<1>2. OrderInv'
  BY <1>1, OrderKept DEF IInv, QueueInv, OrderInv
<1> QED BY <1>1, <1>2 DEF QueueInv

\* A task that is behind undelayed ones is not next while they wait.
LEMMA Fifo ==
  ASSUME IInv, NEW i \in DOMAIN q, Runnable(i), NEW f, NEW F, q[i] = Now(f),
         Behind(q, f, F), NEW t \in Queued, t \in F
  PROVE  t.delayed
<1>1. i \in 1..Len(q)
  BY DEF IInv, QueueInv
<1>2. PICK j \in 1..Len(q) : q[j] = t
  BY DEF IInv, QueueInv, Queued, ToSet
<1>3. j < i
  BY <1>1, <1>2 DEF Behind
<1> QED BY <1>1, <1>2, <1>3 DEF Runnable

LEMMA LastBefore ==
  ASSUME IInv, NEW i \in DOMAIN q, Runnable(i)
  PROVE  /\ q[i] = Now("cancel_events") =>
              Now("boot") \notin Queued /\ \A s \in Searches : Creates(s) \notin Queued
         /\ q[i] = Now("cancel_notify") => Queued \cap NotifyTasks \subseteq late
<1>1. ASSUME q[i] = Now("cancel_events"), NEW t \in Queued PROVE t \notin Starts
  <2> SUFFICES ASSUME t \in Starts PROVE FALSE
    OBVIOUS
  <2>1. t \in Tasks /\ t \notin PumpTasks
    BY Apart DEF Starts, OwnFuns
  <2>2. t.delayed = FALSE
    BY <2>1, TaskKinds
  <2> QED BY <1>1, <2>2, Fifo DEF IInv, QueueInv, OrderInv
<1>2. ASSUME q[i] = Now("cancel_notify"), NEW t \in Queued, t \in NotifyTasks \ late
      PROVE  FALSE
  <2>1. t.delayed = FALSE
    BY <1>2, TaskKinds
  <2> QED BY <1>2, <2>1, Fifo DEF IInv, QueueInv, OrderInv
<1> QED BY <1>1, <1>2 DEF Starts
-----------------------------------------------------------------------------
(***************************************************************************)
(* Every step keeps the invariant.                                         *)
(***************************************************************************)
LEMMA InvInit == Init => IInv
<1> SUFFICES ASSUME Init PROVE IInv
  OBVIOUS
<1>1. q \in Seq(Tasks) /\ Queued = {} /\ Len(q) = 0
  BY DEF Init, Queued, ToSet
<1>2. TypeOK
  BY <1>1, SessionAssumption DEF Init, TypeOK, Queued
<1>3. QueueInv
  BY <1>1 DEF QueueInv, OrderInv, Behind, Distinct
<1>4. WhereInv /\ LifeInv
  BY <1>1 DEF Init, WhereInv, LifeInv
<1>5. PumpInv /\ NotifyInv
  BY <1>1 DEF Init, PumpInv, NotifyInv, Live, Booted, Cancelled
<1> QED BY <1>2, <1>3, <1>4, <1>5 DEF IInv

\* What the chain does not notice.
LEMMA PumpKept ==
  ASSUME IInv, TypeOK', peh' = peh, running' = running, Booted' <=> Booted,
         Cancelled' <=> Cancelled, cancelled' \subseteq cancelled \cup NotifyTasks,
         Live' \cap PumpTasks = Live \cap PumpTasks, Queued' \cap PumpTasks \subseteq Queued
  PROVE  PumpInv'
<1>1. Live \subseteq Tasks /\ Live' \subseteq Tasks
  BY DEF IInv, TypeOK, Live, Queued, ToSet
<1>2. peh \in Live' <=> peh \in Live
  BY <1>1, Apart DEF IInv, TypeOK
<1> QED BY <1>2 DEF IInv, PumpInv

LEMMA ConstructStep ==
  ASSUME IInv, Construct
  PROVE  IInv'
<1>1. Queued = {} /\ Now("create_session") \in Tasks
  BY Apart DEF IInv, LifeInv, Construct, OwnFuns
<1>2. QueueInv' /\ Queued' = {Now("create_session")}
  BY <1>1, Apart, PostStep DEF Construct, notifyVars, OwnFuns
<1>3. TypeOK'
  BY <1>1, <1>2 DEF IInv, TypeOK, QueueInv, Queued, Construct, notifyVars, searchVars
<1>4. WhereInv'
  BY <1>2, Apart DEF IInv, WhereInv, LifeInv, Construct, searchVars, OwnFuns, Cancelled
<1>5. LifeInv'
  BY <1>2 DEF IInv, LifeInv, Construct
<1>6. PumpInv'
  BY <1>2, Apart DEF IInv, LifeInv, PumpInv, Live, Booted, Cancelled, Construct, OwnFuns
<1>7. NotifyInv'
  BY <1>2, Apart DEF IInv, LifeInv, NotifyInv, Construct, notifyVars, OwnFuns
<1> QED BY <1>2, <1>3, <1>4, <1>5, <1>6, <1>7 DEF IInv

LEMMA CreatedStep ==
  ASSUME IInv, Created
  PROVE  IInv'
<1>1. Now("boot") \in Tasks /\ Now("boot") \notin Queued /\ Now("cancel_events") \notin Queued
  BY Apart DEF IInv, WhereInv, Created, OwnFuns
<1>2. QueueInv' /\ Queued' = Queued \cup {Now("boot")}
  BY <1>1, Apart, PostStep DEF Created, notifyVars, OwnFuns
<1>3. TypeOK'
  BY <1>2 DEF IInv, TypeOK, QueueInv, Queued, Created, notifyVars, cbVars, searchVars
<1>4. WhereInv'
  BY <1>2, Apart DEF IInv, WhereInv, Created, cbVars, searchVars, OwnFuns, Cancelled
<1>5. LifeInv'
  BY <1>2 DEF IInv, LifeInv, Created, cbVars
<1>6. PumpInv'
  BY <1>2, Apart DEF IInv, LifeInv, PumpInv, Booted, Cancelled, Live, Created, OwnFuns
<1>7. NotifyInv'
  BY <1>2, Apart DEF IInv, LifeInv, NotifyInv, Created, notifyVars, OwnFuns
<1> QED BY <1>2, <1>3, <1>4, <1>5, <1>6, <1>7 DEF IInv

LEMMA CreationThrowsStep ==
  ASSUME IInv, CreationThrows
  PROVE  IInv'
<1>2. QueueInv' /\ Queued' = Queued
  BY KeepStep DEF CreationThrows, pumpVars, notifyVars
<1>3. TypeOK'
  BY <1>2 DEF IInv, TypeOK, QueueInv, Queued, CreationThrows, pumpVars, notifyVars, cbVars,
     searchVars
<1>4. WhereInv'
  BY <1>2 DEF IInv, WhereInv, CreationThrows, pumpVars, cbVars, searchVars, Cancelled
<1>5. LifeInv'
  BY <1>2 DEF IInv, LifeInv, CreationThrows, pumpVars, cbVars
<1>6. PumpInv'
  BY <1>2 DEF IInv, PumpInv, Booted, Cancelled, Live, CreationThrows, pumpVars
<1>7. NotifyInv'
  BY <1>2 DEF IInv, NotifyInv, CreationThrows, notifyVars
<1> QED BY <1>2, <1>3, <1>4, <1>5, <1>6, <1>7 DEF IInv

LEMMA LogInOrOutStep ==
  ASSUME IInv, LogInOrOut
  PROVE  IInv'
<1>2. QueueInv' /\ Queued' = Queued \cup {Now("log_in_or_out")}
  BY LogInOrOutPost DEF LogInOrOut, notifyVars
<1>3. TypeOK'
  BY <1>2 DEF IInv, TypeOK, QueueInv, Queued, LogInOrOut, notifyVars, cbVars, searchVars
<1>4. WhereInv'
  BY <1>2, Apart DEF IInv, WhereInv, LogInOrOut, cbVars, searchVars, OwnFuns, Cancelled
<1>5. LifeInv'
  BY <1>2, Apart DEF IInv, LifeInv, LogInOrOut, cbVars, OwnFuns
<1>6. PumpInv'
  <2>1. (Booted' <=> Booted) /\ (Cancelled' <=> Cancelled)
    BY <1>2, Apart DEF Booted, Cancelled, LogInOrOut
  <2>2. Live' \cap PumpTasks = Live \cap PumpTasks /\ Queued' \cap PumpTasks \subseteq Queued
    BY <1>2, Apart DEF Live, LogInOrOut, OwnFuns
  <2> QED BY <1>3, <2>1, <2>2, PumpKept DEF LogInOrOut
<1>7. NotifyInv'
  BY <1>2, Apart DEF IInv, LifeInv, NotifyInv, LogInOrOut, notifyVars, OwnFuns
<1> QED BY <1>2, <1>3, <1>4, <1>5, <1>6, <1>7 DEF IInv

LEMMA StartSearchStep ==
  ASSUME IInv, NEW s \in Searches, StartSearch(s)
  PROVE  IInv'
<1>1. /\ Creates(s) \in Tasks /\ Creates(s) \notin Queued
      /\ Now("cancel_events") \notin Queued
  BY Apart DEF IInv, WhereInv, StartSearch
<1>2. QueueInv' /\ Queued' = Queued \cup {Creates(s)}
  BY <1>1, Apart, PostStep DEF StartSearch, Creates, notifyVars
<1>3. TypeOK'
  BY <1>2 DEF IInv, TypeOK, QueueInv, Queued, StartSearch, notifyVars, cbVars
<1>4. WhereInv'
  <2>1. Cancelled' <=> Cancelled
    BY <1>2, Apart DEF Cancelled, StartSearch, OwnFuns
  <2>2. \A f \in OwnFuns : Now(f) \in Queued' => Now(f) \in Queued
    BY <1>2, Apart
  <2>3. \A u \in Searches :
          /\ Creates(u) \in Queued' => u = s \/ Creates(u) \in Queued
          /\ Asks(u) \in Queued' => Asks(u) \in Queued
    BY <1>2, Apart
  <2>4. search \in [Searches -> {"idle", "posted", "created", "delivered", "released"}]
    BY DEF IInv, TypeOK
  <2>5. ~Cancelled
    BY DEF Cancelled, StartSearch
  <2> QED BY <2>1, <2>2, <2>3, <2>4, <2>5 DEF IInv, WhereInv, StartSearch, cbVars, OwnFuns
<1>5. LifeInv'
  BY <1>2, Apart DEF IInv, LifeInv, StartSearch, cbVars, OwnFuns
<1>6. PumpInv'
  <2>1. (Booted' <=> Booted) /\ (Cancelled' <=> Cancelled)
    BY <1>2, Apart DEF Booted, Cancelled, StartSearch, OwnFuns
  <2>2. Live' \cap PumpTasks = Live \cap PumpTasks /\ Queued' \cap PumpTasks \subseteq Queued
    BY <1>2, Apart DEF Live, StartSearch
  <2> QED BY <1>3, <2>1, <2>2, PumpKept DEF StartSearch
<1>7. NotifyInv'
  BY <1>2, Apart DEF IInv, LifeInv, NotifyInv, StartSearch, notifyVars
<1> QED BY <1>2, <1>3, <1>4, <1>5, <1>6, <1>7 DEF IInv

LEMMA EndSearchStep ==
  ASSUME IInv, NEW s \in Searches, EndSearch(s)
  PROVE  IInv'
<1>2. QueueInv' /\ Queued' = Queued
  BY KeepStep DEF EndSearch, pumpVars, notifyVars
<1>3. TypeOK'
  BY <1>2 DEF IInv, TypeOK, QueueInv, Queued, EndSearch, pumpVars, notifyVars, cbVars
<1>4. WhereInv'
  BY <1>2 DEF IInv, WhereInv, EndSearch, pumpVars, cbVars, Cancelled
<1>5. LifeInv'
  BY <1>2 DEF IInv, LifeInv, EndSearch, pumpVars, cbVars
<1>6. PumpInv'
  BY <1>2 DEF IInv, PumpInv, Booted, Cancelled, Live, EndSearch, pumpVars
<1>7. NotifyInv'
  BY <1>2 DEF IInv, NotifyInv, EndSearch, notifyVars
<1> QED BY <1>2, <1>3, <1>4, <1>5, <1>6, <1>7 DEF IInv

LEMMA DestructStep ==
  ASSUME IInv, Destruct
  PROVE  IInv'
<1>1. ASSUME NEW f \in {"cancel_events", "release", "cancel_notify"},
             Now(f) \notin Queued, NextTask(f)
      PROVE  QueueInv' /\ Queued' = Queued \cup {Now(f)}
  <2>1. Now(f) \in Tasks /\ Now(f).fun = f
    BY Apart, TaskParts DEF OwnFuns
  <2>2. Now(f) \notin Starts /\ Now(f) \notin NotifyTasks /\ late' = late
    BY Apart DEF Starts, OwnFuns, Destruct, notifyVars
  <2> QED BY <1>1, <2>1, <2>2, PostStep DEF NextTask
<1>a. Posted("cancel_events") <=> Now("cancel_events") \in Queued
  BY PostedOwn DEF IInv, OwnFuns
<1>b. Posted("release") <=> Now("release") \in Queued
  BY PostedOwn DEF IInv, OwnFuns
<1>c. Posted("cancel_notify") <=> Now("cancel_notify") \in Queued
  BY PostedOwn DEF IInv, OwnFuns
<1>2. CASE /\ life = "alive" /\ query = {}
           /\ life' = "cancelling_events" /\ NextTask("cancel_events")
  <2>2. QueueInv' /\ Queued' = Queued \cup {Now("cancel_events")}
    BY <1>1, <1>2 DEF IInv, WhereInv
  <2>3. TypeOK'
    BY <1>2, <2>2 DEF IInv, TypeOK, QueueInv, Queued, Destruct, NextTask, notifyVars, cbVars,
                      searchVars
  <2>4. WhereInv'
    BY <1>2, <2>2, Apart DEF IInv, WhereInv, Destruct, NextTask, cbVars, searchVars, OwnFuns,
                             Cancelled
  <2>5. LifeInv'
    BY <1>2, <2>2, Apart DEF IInv, LifeInv, Destruct, NextTask, cbVars, OwnFuns
  <2>6. PumpInv'
    <3>1. (Booted' <=> Booted) /\ (Cancelled' <=> Cancelled)
      BY <1>2, <2>2, Apart DEF Booted, Cancelled, OwnFuns
    <3>2. /\ Live' \cap PumpTasks = Live \cap PumpTasks
          /\ Queued' \cap PumpTasks \subseteq Queued
      BY <1>2, <2>2, Apart DEF Live, NextTask, OwnFuns
    <3> QED BY <1>2, <2>3, <3>1, <3>2, PumpKept DEF NextTask
  <2>7. NotifyInv'
    BY <1>2, <2>2, Apart DEF IInv, LifeInv, NotifyInv, Destruct, notifyVars, OwnFuns
  <2> QED BY <2>2, <2>3, <2>4, <2>5, <2>6, <2>7 DEF IInv
<1>3. CASE /\ life = "cancelling_events" /\ ~Posted("cancel_events")
           /\ life' = "releasing" /\ NextTask("release")
  <2>2. QueueInv' /\ Queued' = Queued \cup {Now("release")}
    BY <1>1, <1>3 DEF IInv, WhereInv
  <2>3. TypeOK'
    BY <1>3, <2>2 DEF IInv, TypeOK, QueueInv, Queued, Destruct, NextTask, notifyVars, cbVars,
                      searchVars
  <2>4. WhereInv'
    BY <1>3, <1>a, <2>2, Apart DEF IInv, WhereInv, Destruct, NextTask, cbVars, searchVars,
                                   OwnFuns, Cancelled
  <2>5. LifeInv'
    BY <1>3, <2>2, Apart DEF IInv, LifeInv, Destruct, NextTask, cbVars, OwnFuns
  <2>6. PumpInv'
    <3>1. (Booted' <=> Booted) /\ (Cancelled' <=> Cancelled)
      BY <1>3, <1>a, <2>2, Apart DEF Booted, Cancelled, OwnFuns
    <3>2. /\ Live' \cap PumpTasks = Live \cap PumpTasks
          /\ Queued' \cap PumpTasks \subseteq Queued
      BY <1>3, <2>2, Apart DEF Live, NextTask, OwnFuns
    <3> QED BY <1>3, <2>3, <3>1, <3>2, PumpKept DEF NextTask
  <2>7. NotifyInv'
    BY <1>3, <2>2, Apart DEF IInv, LifeInv, NotifyInv, Destruct, notifyVars, OwnFuns
  <2> QED BY <2>2, <2>3, <2>4, <2>5, <2>6, <2>7 DEF IInv
<1>4. CASE /\ life = "releasing" /\ ~Posted("release")
           /\ life' = "cancelling_notify" /\ NextTask("cancel_notify")
  <2>2. QueueInv' /\ Queued' = Queued \cup {Now("cancel_notify")}
    BY <1>1, <1>4 DEF IInv, WhereInv
  <2>3. TypeOK'
    BY <1>4, <2>2 DEF IInv, TypeOK, QueueInv, Queued, Destruct, NextTask, notifyVars, cbVars,
                      searchVars
  <2>4. WhereInv'
    BY <1>4, <1>b, <2>2, Apart DEF IInv, WhereInv, Destruct, NextTask, cbVars, searchVars,
                                   OwnFuns, Cancelled
  <2>5. LifeInv'
    BY <1>4, <1>b, <2>2, Apart DEF IInv, LifeInv, Destruct, NextTask, cbVars, OwnFuns
  <2>6. PumpInv'
    <3>1. (Booted' <=> Booted) /\ (Cancelled' <=> Cancelled)
      BY <1>4, <2>2, Apart DEF Booted, Cancelled, OwnFuns
    <3>2. /\ Live' \cap PumpTasks = Live \cap PumpTasks
          /\ Queued' \cap PumpTasks \subseteq Queued
      BY <1>4, <2>2, Apart DEF Live, NextTask, OwnFuns
    <3> QED BY <1>4, <2>3, <3>1, <3>2, PumpKept DEF NextTask
  <2>7. NotifyInv'
    BY <1>4, <2>2, Apart DEF IInv, LifeInv, NotifyInv, Destruct, notifyVars, OwnFuns
  <2> QED BY <2>2, <2>3, <2>4, <2>5, <2>6, <2>7 DEF IInv
<1>5. CASE /\ life = "cancelling_notify" /\ ~Posted("cancel_notify")
           /\ life' = "stopping" /\ UNCHANGED pumpVars
  <2>2. QueueInv' /\ Queued' = Queued
    BY <1>5, KeepStep DEF pumpVars, Destruct, notifyVars
  <2>3. TypeOK'
    BY <1>5, <2>2 DEF IInv, TypeOK, QueueInv, Queued, Destruct, pumpVars, notifyVars, cbVars,
                      searchVars
  <2>4. WhereInv'
    BY <1>5, <1>c, <2>2 DEF IInv, WhereInv, Destruct, pumpVars, cbVars, searchVars, Cancelled
  <2>5. LifeInv'
    BY <1>5, <2>2 DEF IInv, LifeInv, Destruct, pumpVars, cbVars
  <2>6. PumpInv'
    BY <1>5, <2>2 DEF IInv, PumpInv, Booted, Cancelled, Live, pumpVars
  <2>7. NotifyInv'
    BY <1>5, <1>c, <2>2 DEF IInv, NotifyInv, Destruct, notifyVars
  <2> QED BY <2>2, <2>3, <2>4, <2>5, <2>6, <2>7 DEF IInv
<1> QED BY <1>2, <1>3, <1>4, <1>5 DEF Destruct, Returned

LEMMA CbStoppedStep ==
  ASSUME IInv, CbStopped
  PROVE  IInv'
<1>2. QueueInv' /\ Queued' = Queued
  BY KeepStep DEF CbStopped, pumpVars, notifyVars
<1>3. TypeOK'
  BY <1>2 DEF IInv, TypeOK, QueueInv, Queued, CbStopped, pumpVars, notifyVars, searchVars
<1>4. WhereInv'
  BY <1>2 DEF IInv, WhereInv, CbStopped, pumpVars, searchVars, Cancelled
<1>5. LifeInv'
  BY <1>2 DEF IInv, LifeInv, CbStopped, pumpVars
<1>6. PumpInv'
  BY <1>2 DEF IInv, PumpInv, Booted, Cancelled, Live, CbStopped, pumpVars
<1>7. NotifyInv'
  BY <1>2 DEF IInv, NotifyInv, CbStopped, notifyVars
<1> QED BY <1>2, <1>3, <1>4, <1>5, <1>6, <1>7 DEF IInv

\* What the spotify thread does when it runs an uncancelled task, or skips another.
LEMMA RunEffect ==
  ASSUME IInv, NEW i \in DOMAIN q, NEW f, Run(i, f), q' = Pop(i), late' = late
  PROVE  /\ QueueInv' /\ Queued' = Queued \ {q[i]} /\ q[i] \in Live /\ q[i] \in Tasks
         /\ running = "none" /\ q[i].fun = f /\ (f \in OwnFuns => q[i] = Now(f))
BY PopStep, Which DEF Run, Runnable, Live

LEMMA SkipStep ==
  ASSUME IInv, NEW i \in DOMAIN q, Skip(i)
  PROVE  IInv'
<1>1. /\ QueueInv' /\ Queued' = Queued \ {q[i]} /\ q[i] \in Queued
      /\ cancelled' = cancelled \ {q[i]} /\ q[i] \in cancelled
  BY PopStep DEF Skip, notifyVars
<1>2. q[i] \in PumpTasks \cup NotifyTasks
  BY <1>1 DEF IInv, PumpInv
<1>a. \A f \in OwnFuns : Now(f) \in Queued' <=> Now(f) \in Queued
  BY <1>1, <1>2, Apart
<1>b. Cancelled' <=> Cancelled
  BY <1>a DEF Cancelled, Skip, OwnFuns
<1>3. TypeOK'
  BY <1>1 DEF IInv, TypeOK, QueueInv, Queued, Skip, notifyVars, cbVars, searchVars
<1>4. WhereInv'
  BY <1>1, <1>a, <1>b DEF IInv, WhereInv, Skip, cbVars, searchVars, OwnFuns
<1>5. LifeInv'
  BY <1>1, <1>a DEF IInv, LifeInv, Skip, cbVars, OwnFuns
<1>6. PumpInv'
  <2>1. Booted' <=> Booted
    BY <1>a DEF Booted, Skip, OwnFuns
  <2>2. Live' \cap PumpTasks = Live \cap PumpTasks /\ Queued' \cap PumpTasks \subseteq Queued
    BY <1>1 DEF Live
  <2> QED BY <1>1, <1>3, <1>b, <2>1, <2>2, PumpKept DEF Skip
<1>7. NotifyInv'
  BY <1>1, <1>a DEF IInv, NotifyInv, Skip, notifyVars, OwnFuns
<1> QED BY <1>1, <1>3, <1>4, <1>5, <1>6, <1>7 DEF IInv

LEMMA RunCreateStep ==
  ASSUME IInv, NEW i \in DOMAIN q, RunCreate(i)
  PROVE  IInv'
<1>1. /\ QueueInv' /\ Queued' = Queued \ {Now("create_session")}
      /\ Now("create_session") \in Live /\ running = "none" /\ running' = "creating"
  BY RunEffect DEF RunCreate, OwnFuns, notifyVars
<1>2. life = "creating" /\ spSession = "none" /\ Queued = {Now("create_session")} /\ Queued' = {}
  BY <1>1 DEF IInv, WhereInv, LifeInv, Live
<1>3. TypeOK'
  BY <1>1 DEF IInv, TypeOK, QueueInv, Queued, Live, RunCreate, notifyVars, cbVars, searchVars
<1>4. WhereInv'
  BY <1>2 DEF IInv, WhereInv, RunCreate, cbVars, searchVars
<1>5. LifeInv'
  BY <1>1, <1>2 DEF IInv, LifeInv, RunCreate, cbVars
<1>6. PumpInv'
  BY <1>1, <1>2 DEF IInv, PumpInv, Booted, Cancelled, Live, RunCreate
<1>7. NotifyInv'
  BY <1>2 DEF IInv, NotifyInv, RunCreate, notifyVars
<1> QED BY <1>1, <1>3, <1>4, <1>5, <1>6, <1>7 DEF IInv

LEMMA EndCreateStep ==
  ASSUME IInv, EndCreate
  PROVE  IInv'
<1>2. QueueInv' /\ Queued' = Queued
  BY KeepStep DEF EndCreate, notifyVars
<1>3. TypeOK'
  BY <1>2 DEF IInv, TypeOK, QueueInv, Queued, EndCreate, MakeReady, notifyVars, cbVars, searchVars
<1>4. WhereInv'
  BY <1>2 DEF IInv, WhereInv, EndCreate, cbVars, searchVars, Cancelled
<1>5. LifeInv'
  BY <1>2 DEF IInv, LifeInv, EndCreate, cbVars
<1>6. PumpInv'
  BY <1>2 DEF IInv, LifeInv, PumpInv, Booted, Cancelled, Live, EndCreate
<1>7. NotifyInv'
  BY <1>2 DEF IInv, LifeInv, NotifyInv, EndCreate, notifyVars
<1> QED BY <1>2, <1>3, <1>4, <1>5, <1>6, <1>7 DEF IInv

\* The post of the next process_events().
LEMMA RepostEffect ==
  ASSUME NEW rest \in Seq(Tasks), NEW d \in BOOLEAN, Repost(rest, d)
  PROVE  \E t \in PumpTasks : t # peh /\ t \notin ToSet(rest) /\ q' = Append(rest, t) /\ peh' = t
<1>1. PICK n \in 1..(MaxNotifies + 2) :
        /\ peh.num # n /\ \A u \in ToSet(rest) : u.fun = "process_events" => u.num # n
        /\ peh' = Task("process_events", n, d) /\ q' = Append(rest, peh')
  BY DEF Repost
<1> DEFINE t == Task("process_events", n, d)
<1>2. t \in PumpTasks /\ t.fun = "process_events" /\ t.num = n
  BY DEF Task, PumpTasks
<1>3. t # peh /\ t \notin ToSet(rest)
  BY <1>1, <1>2
<1> QED BY <1>1, <1>2, <1>3

LEMMA RunBootStep ==
  ASSUME IInv, NEW i \in DOMAIN q, RunBoot(i)
  PROVE  IInv'
<1>1. q[i] = Now("boot") /\ q[i] \in Live /\ running = "none"
  BY PopFacts, Which DEF RunBoot, Run, Runnable, Live, OwnFuns
<1>2. PICK t \in PumpTasks :
        t # peh /\ t \notin ToSet(Pop(i)) /\ q' = Append(Pop(i), t) /\ peh' = t
  BY PopFacts, RepostEffect DEF RunBoot
<1>3. /\ t \in Tasks /\ t.fun = "process_events" /\ t \notin Queued
      /\ \A f \in OwnFuns : t # Now(f)
      /\ \A s \in Searches : t # Creates(s) /\ t # Asks(s)
  BY <1>1, <1>2, PopFacts, Apart, Which DEF OwnFuns
<1>4. q' \in Seq(Tasks) /\ Distinct(q') /\ Queued' = (Queued \ {Now("boot")}) \cup {t}
  BY <1>1, <1>2, <1>3, PopFacts, AppendFacts DEF Queued
<1>5. OrderInv'
  <2>1. /\ Behind(Pop(i), "cancel_events", Starts)
        /\ Behind(Pop(i), "cancel_notify", NotifyTasks \ late)
    BY PopFacts DEF IInv, QueueInv, OrderInv
  <2>2. t \notin Starts /\ t \notin NotifyTasks \ late
    BY <1>3, Apart DEF Starts, OwnFuns
  <2>3. /\ Behind(q', "cancel_events", Starts)
        /\ Behind(q', "cancel_notify", NotifyTasks \ late)
    BY <1>2, <1>3, <2>1, <2>2, PopFacts, AppendBehind
  <2> QED BY <2>3, OrderKept DEF RunBoot, notifyVars
<1>6. QueueInv'
  BY <1>4, <1>5 DEF QueueInv
<1>7. TypeOK'
  BY <1>1, <1>2, <1>4 DEF IInv, TypeOK, Queued, Live, RunBoot, notifyVars, cbVars, searchVars
<1>8. Cancelled' <=> Cancelled
  BY <1>3, <1>4, Apart DEF Cancelled, RunBoot, OwnFuns
<1>9. WhereInv'
  BY <1>3, <1>4, <1>8, Apart DEF IInv, WhereInv, RunBoot, cbVars, searchVars, OwnFuns
<1>10. LifeInv'
  BY <1>1, <1>3, <1>4, Apart DEF IInv, WhereInv, LifeInv, Live, RunBoot, cbVars, OwnFuns
<1>11. PumpInv'
  <2>1. Queued \cap PumpTasks = {} /\ ~Cancelled /\ life \in {"alive", "cancelling_events"}
    BY <1>1 DEF IInv, WhereInv, PumpInv, Booted, Live
  <2>2. Booted' /\ ~Cancelled'
    BY <1>3, <1>4, <1>8, <2>1 DEF Booted, RunBoot, OwnFuns
  <2>3. t \notin cancelled
    BY <1>3 DEF IInv, TypeOK, Queued
  <2>4. Live' \cap PumpTasks = {t}
    BY <1>2, <1>4, <2>1, <2>3 DEF Live, RunBoot
  <2>5. t # Invalid
    BY Apart
  <2> QED BY <1>1, <1>2, <2>2, <2>4, <2>5 DEF IInv, PumpInv, RunBoot
<1>12. NotifyInv'
  BY <1>3, <1>4, Apart DEF IInv, NotifyInv, RunBoot, notifyVars, OwnFuns
<1> QED BY <1>6, <1>7, <1>9, <1>10, <1>11, <1>12 DEF IInv

\* Running a process_events() or a notification moves none of the other tasks.
LEMMA OthersStay ==
  ASSUME NEW t \in PumpTasks \cup NotifyTasks, Queued' = Queued \ {t}
  PROVE  /\ \A f \in OwnFuns : Now(f) \in Queued' <=> Now(f) \in Queued
         /\ \A s \in Searches : /\ Creates(s) \in Queued' <=> Creates(s) \in Queued
                                /\ Asks(s) \in Queued' <=> Asks(s) \in Queued
BY Apart

LEMMA RunEventsStep ==
  ASSUME IInv, NEW i \in DOMAIN q, RunEvents(i)
  PROVE  IInv'
<1>1. /\ QueueInv' /\ Queued' = Queued \ {q[i]} /\ q[i] \in Live
      /\ running = "none" /\ running' = "events" /\ q[i] \in PumpTasks
  BY RunEffect, Which DEF RunEvents, notifyVars
<1>2. q[i] = peh /\ Booted /\ ~Cancelled
  BY <1>1 DEF IInv, PumpInv, Live
<1>a. \A f \in OwnFuns : Now(f) \in Queued' <=> Now(f) \in Queued
  BY <1>1, OthersStay
<1>b. (Cancelled' <=> Cancelled) /\ (Booted' <=> Booted)
  BY <1>a DEF Cancelled, Booted, RunEvents, OwnFuns
<1>3. TypeOK'
  BY <1>1 DEF IInv, TypeOK, QueueInv, Queued, Live, RunEvents, notifyVars, cbVars, searchVars
<1>4. WhereInv'
  BY <1>1, <1>2, <1>a, <1>b DEF IInv, WhereInv, Booted, RunEvents, cbVars, searchVars, OwnFuns
<1>5. LifeInv'
  BY <1>1, <1>2, <1>a, Apart DEF IInv, LifeInv, Live, RunEvents, cbVars, OwnFuns
<1>6. PumpInv'
  BY <1>1, <1>2, <1>b DEF IInv, PumpInv, Live, RunEvents
<1>7. NotifyInv'
  BY <1>1, <1>a DEF IInv, NotifyInv, RunEvents, notifyVars, OwnFuns
<1> QED BY <1>1, <1>3, <1>4, <1>5, <1>6, <1>7 DEF IInv

LEMMA EndEventsStep ==
  ASSUME IInv, EndEvents
  PROVE  IInv'
<1>1. PICK t \in PumpTasks : t # peh /\ t \notin Queued /\ q' = Append(q, t) /\ peh' = t
  BY RepostEffect DEF EndEvents, IInv, QueueInv, Queued
<1>2. t \in Tasks /\ t.fun = "process_events"
  BY TaskKinds
<1>3. QueueInv' /\ Queued' = Queued \cup {t}
  <2>1. t \notin Starts /\ t \notin NotifyTasks
    BY Apart DEF Starts, OwnFuns
  <2> QED BY <1>1, <1>2, <2>1, PostStep DEF post, EndEvents, notifyVars
<1>a. \A f \in OwnFuns : Now(f) \in Queued' <=> Now(f) \in Queued
  BY <1>3, Apart
<1>b. (Cancelled' <=> Cancelled) /\ (Booted' <=> Booted)
  BY <1>a DEF Cancelled, Booted, EndEvents, OwnFuns
<1>4. Booted /\ ~Cancelled /\ peh \notin Live
  BY DEF IInv, PumpInv, EndEvents
<1>5. TypeOK'
  BY <1>1, <1>3 DEF IInv, TypeOK, QueueInv, Queued, EndEvents, notifyVars, cbVars, searchVars
<1>6. WhereInv'
  BY <1>3, <1>a, <1>b, Apart DEF IInv, WhereInv, EndEvents, cbVars, searchVars, OwnFuns
<1>7. LifeInv'
  BY <1>3, <1>a, Apart DEF IInv, LifeInv, EndEvents, cbVars, OwnFuns
<1>8. PumpInv'
  <2>1. Live \cap PumpTasks = {}
    BY <1>4 DEF IInv, PumpInv
  <2>2. t \notin cancelled /\ t # Invalid
    BY <1>1, Apart DEF IInv, TypeOK, Queued
  <2>3. Live' \cap PumpTasks = {t}
    BY <1>3, <2>1, <2>2 DEF Live, EndEvents
  <2> QED BY <1>1, <1>4, <1>b, <2>2, <2>3 DEF IInv, PumpInv, EndEvents
<1>9. NotifyInv'
  BY <1>3, <1>a, Apart DEF IInv, NotifyInv, EndEvents, notifyVars, OwnFuns
<1> QED BY <1>3, <1>5, <1>6, <1>7, <1>8, <1>9 DEF IInv

LEMMA EndOnceStep ==
  ASSUME IInv, EndOnce
  PROVE  IInv'
<1>2. QueueInv' /\ Queued' = Queued
  BY KeepStep DEF EndOnce, notifyVars
<1>3. TypeOK'
  BY <1>2 DEF IInv, TypeOK, QueueInv, Queued, EndOnce, notifyVars, cbVars, searchVars
<1>4. WhereInv'
  BY <1>2 DEF IInv, WhereInv, EndOnce, cbVars, searchVars, Cancelled
<1>5. LifeInv'
  BY <1>2 DEF IInv, LifeInv, EndOnce, cbVars
<1>6. PumpInv'
  BY <1>2 DEF IInv, PumpInv, Booted, Cancelled, Live, EndOnce
<1>7. NotifyInv'
  BY <1>2 DEF IInv, NotifyInv, EndOnce, notifyVars
<1> QED BY <1>2, <1>3, <1>4, <1>5, <1>6, <1>7 DEF IInv

LEMMA RunNotifyStep ==
  ASSUME IInv, NEW i \in DOMAIN q, RunNotify(i)
  PROVE  IInv'
<1>1. /\ QueueInv' /\ Queued' = Queued \ {q[i]} /\ q[i] \in Live
      /\ running = "none" /\ q[i] \in NotifyTasks
  BY RunEffect, Which DEF RunNotify, notifyVars
<1>2. q[i] \notin PumpTasks /\ \A f \in OwnFuns : q[i] # Now(f)
  BY <1>1, Apart
<1>a. \A f \in OwnFuns : Now(f) \in Queued' <=> Now(f) \in Queued
  BY <1>1, OthersStay
<1>b. (Cancelled' <=> Cancelled) /\ (Booted' <=> Booted)
  BY <1>a DEF Cancelled, Booted, RunNotify, OwnFuns
<1>c. spSession # "none" /\ Now("create_session") \notin Queued
  BY <1>1, <1>2 DEF IInv, WhereInv, LifeInv, Live, OwnFuns
<1>d. peh \in Live => peh \in PumpTasks /\ Booted /\ ~Cancelled
  <2>1. Live \subseteq Tasks
    BY DEF IInv, TypeOK, Live, Queued, ToSet
  <2> QED BY <2>1, Apart DEF IInv, TypeOK, PumpInv
<1>e. peh = Invalid => ~Booted /\ ~Cancelled
  <2>1. Cancelled => Booted
    BY DEF IInv, WhereInv, Cancelled, Booted
  <2> QED BY <2>1 DEF IInv, PumpInv
<1>3. TypeOK'
  BY <1>1, <1>2, <1>d DEF IInv, TypeOK, QueueInv, Queued, Live, Cancellable, RunNotify,
     notifyVars,
                          cbVars, searchVars
<1>4. WhereInv'
  BY <1>1, <1>a, <1>b, <1>c DEF IInv, WhereInv, RunNotify, cbVars, searchVars, OwnFuns
<1>5. LifeInv'
  BY <1>1, <1>a, <1>c DEF IInv, LifeInv, RunNotify, cbVars, OwnFuns
<1>6. PumpInv'
  <2>1. CASE peh = Invalid /\ running' = "once" /\ UNCHANGED cancelled
    BY <1>1, <1>b, <1>e, <2>1 DEF IInv, PumpInv, Live, RunNotify
  <2>2. CASE Cancellable(peh) /\ cancelled' = cancelled \cup {peh} /\ running' = "events"
    <3>1. Live' \subseteq Live \ {peh}
      BY <1>1, <2>2 DEF Live
    <3> QED BY <1>1, <1>b, <1>d, <2>2, <3>1 DEF IInv, PumpInv, RunNotify, Cancellable
  <2>3. CASE peh # Invalid /\ ~Cancellable(peh) /\ UNCHANGED <<cancelled, running>>
    <3>1. Live' \cap PumpTasks = Live \cap PumpTasks /\ Queued' \cap PumpTasks \subseteq Queued
      BY <1>1, <1>2, <2>3 DEF Live
    <3> QED BY <1>3, <1>b, <2>3, <3>1, PumpKept DEF RunNotify
  <2> QED BY <2>1, <2>2, <2>3 DEF RunNotify
<1>7. NotifyInv'
  BY <1>1, <1>a DEF IInv, NotifyInv, RunNotify, notifyVars, OwnFuns
<1> QED BY <1>1, <1>3, <1>4, <1>5, <1>6, <1>7 DEF IInv

LEMMA RunClientStep ==
  ASSUME IInv, NEW i \in DOMAIN q, RunClient(i)
  PROVE  IInv'
<1>1. /\ QueueInv' /\ Queued' = Queued \ {q[i]} /\ q[i] \in Live /\ q[i] \in Tasks
      /\ running = "none" /\ q[i] = Now("log_in_or_out")
  BY RunEffect DEF RunClient, OwnFuns, notifyVars
<1>3. q[i] \notin PumpTasks /\ \A f \in OwnFuns \ {"log_in_or_out"} : q[i] # Now(f)
  BY <1>1, Apart DEF OwnFuns
<1>a. \A f \in OwnFuns \ {"log_in_or_out"} : Now(f) \in Queued' <=> Now(f) \in Queued
  BY <1>1, <1>3
<1>b. (Cancelled' <=> Cancelled) /\ (Booted' <=> Booted)
  BY <1>a DEF Cancelled, Booted, RunClient, OwnFuns
<1>4. TypeOK'
  BY <1>1 DEF IInv, TypeOK, QueueInv, Queued, Live, RunClient, notifyVars, cbVars, searchVars
<1>5. WhereInv'
  BY <1>1, <1>b DEF IInv, WhereInv, RunClient, cbVars, searchVars
<1>6. LifeInv'
  BY <1>1, <1>a DEF IInv, LifeInv, RunClient, cbVars, OwnFuns
<1>7. PumpInv'
  <2>1. Live' \cap PumpTasks = Live \cap PumpTasks /\ Queued' \cap PumpTasks \subseteq Queued
    BY <1>1, <1>3 DEF Live, RunClient
  <2> QED BY <1>4, <1>b, <2>1, PumpKept DEF RunClient
<1>8. NotifyInv'
  BY <1>1, <1>a DEF IInv, NotifyInv, RunClient, notifyVars, OwnFuns
<1> QED BY <1>1, <1>4, <1>5, <1>6, <1>7, <1>8 DEF IInv

LEMMA RunQueryStep ==
  ASSUME IInv, NEW i \in DOMAIN q, RunQuery(i)
  PROVE  IInv'
<1>1. /\ QueueInv' /\ Queued' = Queued \ {q[i]} /\ q[i] \in Live /\ q[i] \in Tasks
      /\ running = "none" /\ q[i].num \in Searches /\ q[i] = Asks(q[i].num)
  BY RunEffect, Which DEF RunQuery, notifyVars
<1>3. q[i] \notin PumpTasks /\ \A f \in OwnFuns : q[i] # Now(f)
  BY <1>1, Apart DEF OwnFuns
<1>a. \A f \in OwnFuns : Now(f) \in Queued' <=> Now(f) \in Queued
  BY <1>1, <1>3
<1>b. (Cancelled' <=> Cancelled) /\ (Booted' <=> Booted)
  BY <1>a DEF Cancelled, Booted, RunQuery, OwnFuns
<1>4. TypeOK'
  BY <1>1 DEF IInv, TypeOK, QueueInv, Queued, Live, RunQuery, MakeReady, notifyVars, cbVars,
     searchVars
<1>5. WhereInv'
  BY <1>1, <1>b DEF IInv, WhereInv, RunQuery, cbVars, searchVars
<1>6. LifeInv'
  BY <1>1, <1>a DEF IInv, LifeInv, RunQuery, cbVars, OwnFuns
<1>7. PumpInv'
  <2>1. Live' \cap PumpTasks = Live \cap PumpTasks /\ Queued' \cap PumpTasks \subseteq Queued
    BY <1>1, <1>3 DEF Live, RunQuery
  <2> QED BY <1>4, <1>b, <2>1, PumpKept DEF RunQuery
<1>8. NotifyInv'
  BY <1>1, <1>a DEF IInv, NotifyInv, RunQuery, notifyVars, OwnFuns
<1> QED BY <1>1, <1>4, <1>5, <1>6, <1>7, <1>8 DEF IInv

LEMMA RunSearchStep ==
  ASSUME IInv, NEW i \in DOMAIN q, RunSearch(i)
  PROVE  IInv'
<1>1. /\ QueueInv' /\ Queued' = Queued \ {q[i]} /\ q[i] \in Live /\ running = "none"
      /\ q[i].num \in Searches /\ q[i] = Creates(q[i].num)
  BY RunEffect, Which DEF RunSearch, notifyVars
<1>2. PICK s \in Searches : q[i] = Creates(s) /\ s = q[i].num
  BY <1>1
<1>3. q[i] \notin PumpTasks /\ \A f \in OwnFuns : q[i] # Now(f)
  BY <1>2, Apart
<1>a. \A f \in OwnFuns : Now(f) \in Queued' <=> Now(f) \in Queued
  BY <1>1, <1>3
<1>b. (Cancelled' <=> Cancelled) /\ (Booted' <=> Booted)
  BY <1>a DEF Cancelled, Booted, RunSearch, OwnFuns
<1>4. TypeOK'
  BY <1>1 DEF IInv, TypeOK, QueueInv, Queued, Live, RunSearch, notifyVars, cbVars
<1>5. WhereInv'
  <2>1. search[s] = "posted"
    BY <1>1, <1>2 DEF IInv, WhereInv, Live
  <2>2. search' = [search EXCEPT ![s] = "created"] /\ Creates(s) \notin Queued'
    BY <1>1, <1>2 DEF RunSearch
  <2>3. search \in [Searches -> {"idle", "posted", "created", "delivered", "released"}]
    BY DEF IInv, TypeOK
  <2> QED BY <1>1, <1>b, <2>1, <2>2, <2>3 DEF IInv, WhereInv, RunSearch, cbVars
<1>6. LifeInv'
  BY <1>1, <1>a DEF IInv, LifeInv, RunSearch, cbVars, OwnFuns
<1>7. PumpInv'
  <2>1. Live' \cap PumpTasks = Live \cap PumpTasks /\ Queued' \cap PumpTasks \subseteq Queued
    BY <1>1, <1>3 DEF Live, RunSearch
  <2> QED BY <1>4, <1>b, <2>1, PumpKept DEF RunSearch
<1>8. NotifyInv'
  BY <1>1, <1>a DEF IInv, NotifyInv, RunSearch, notifyVars, OwnFuns
<1> QED BY <1>1, <1>4, <1>5, <1>6, <1>7, <1>8 DEF IInv

LEMMA RunCancelEventsStep ==
  ASSUME IInv, NEW i \in DOMAIN q, RunCancelEvents(i)
  PROVE  IInv'
<1>1. /\ QueueInv' /\ Queued' = Queued \ {q[i]} /\ q[i] \in Live
      /\ running = "none" /\ q[i] = Now("cancel_events")
  BY RunEffect DEF RunCancelEvents, CancelWaiting, OwnFuns, notifyVars
<1>2. Now("boot") \notin Queued /\ \A s \in Searches : Creates(s) \notin Queued
  BY <1>1, LastBefore DEF RunCancelEvents, Run
<1>3. life = "cancelling_events" /\ Booted /\ Cancelled' /\ Booted'
  BY <1>1, <1>2 DEF IInv, WhereInv, Live, Booted, Cancelled, RunCancelEvents
<1>a. q[i] \notin PumpTasks /\ \A f \in OwnFuns \ {"cancel_events"} : q[i] # Now(f)
  BY <1>1, Apart DEF OwnFuns
<1>b. peh \in PumpTasks
  BY <1>3 DEF IInv, TypeOK, PumpInv
<1>4. TypeOK'
  BY <1>1, <1>a, <1>b DEF IInv, TypeOK, QueueInv, Queued, Live, Cancellable, CancelWaiting,
                          RunCancelEvents, MakeReady, notifyVars, cbVars, searchVars
<1>5. WhereInv'
  BY <1>1, <1>2, <1>3 DEF IInv, WhereInv, RunCancelEvents, cbVars, searchVars
<1>6. LifeInv'
  BY <1>1, <1>3 DEF IInv, LifeInv, RunCancelEvents, cbVars
<1>7. PumpInv'
  <2>1. Live' \subseteq Live \ {peh}
    BY <1>1 DEF Live, Cancellable, CancelWaiting, RunCancelEvents
  <2>2. cancelled' \subseteq cancelled \cup {peh}
    BY DEF CancelWaiting, RunCancelEvents
  <2> QED BY <1>1, <1>3, <1>b, <2>1, <2>2 DEF IInv, PumpInv, RunCancelEvents
<1>8. NotifyInv'
  BY <1>1, <1>3 DEF IInv, NotifyInv, RunCancelEvents, notifyVars
<1> QED BY <1>1, <1>4, <1>5, <1>6, <1>7, <1>8 DEF IInv

LEMMA RunCancelNotifyStep ==
  ASSUME IInv, NEW i \in DOMAIN q, RunCancelNotify(i)
  PROVE  IInv'
<1>1. /\ QueueInv' /\ Queued' = Queued \ {q[i]} /\ q[i] \in Live
      /\ running = "none" /\ q[i] = Now("cancel_notify")
  BY RunEffect DEF RunCancelNotify, CancelWaiting, OwnFuns, notifyVars
<1>2. Queued \cap NotifyTasks \subseteq late
  BY <1>1, LastBefore DEF RunCancelNotify, Run
<1>3. /\ life = "cancelling_notify"
      /\ \/ cancelled' = cancelled
         \/ nmh \in Live \cap NotifyTasks /\ cancelled' = cancelled \cup {nmh}
  <2>1. life = "cancelling_notify"
    BY <1>1 DEF IInv, WhereInv, Live
  <2>2. nmh \in Live => nmh \in NotifyTasks
    <3>1. Live \subseteq Tasks
      BY DEF IInv, TypeOK, Live, Queued, ToSet
    <3> QED BY <3>1, Apart DEF IInv, TypeOK
  <2>3. cancelled' = IF Cancellable(nmh) THEN cancelled \cup {nmh} ELSE cancelled
    BY DEF RunCancelNotify, CancelWaiting
  <2>4. CASE Cancellable(nmh)
    BY <2>1, <2>2, <2>3, <2>4 DEF Cancellable
  <2>5. CASE ~Cancellable(nmh)
    BY <2>1, <2>3, <2>5
  <2> QED BY <2>4, <2>5
<1>a. q[i] \notin PumpTasks /\ \A f \in OwnFuns \ {"cancel_notify"} : q[i] # Now(f)
  BY <1>1, Apart DEF OwnFuns
<1>b. (Cancelled' <=> Cancelled) /\ (Booted' <=> Booted)
  BY <1>1, <1>a DEF Cancelled, Booted, RunCancelNotify, OwnFuns
<1>4. TypeOK'
  BY <1>1, <1>3, Apart DEF IInv, TypeOK, QueueInv, Queued, Live, RunCancelNotify, MakeReady,
                           notifyVars, cbVars, searchVars, OwnFuns
<1>5. WhereInv'
  BY <1>1, <1>b DEF IInv, WhereInv, RunCancelNotify, cbVars, searchVars
<1>6. LifeInv'
  BY <1>1, <1>3 DEF IInv, LifeInv, RunCancelNotify, cbVars
<1>7. PumpInv'
  <2>1. Live' \cap PumpTasks = Live \cap PumpTasks /\ Queued' \cap PumpTasks \subseteq Queued
    BY <1>1, <1>3, <1>a, Apart DEF Live
  <2> QED BY <1>3, <1>4, <1>b, <2>1, PumpKept DEF RunCancelNotify
<1>8. NotifyInv'
  BY <1>1, <1>2, <1>3 DEF IInv, NotifyInv, RunCancelNotify, notifyVars
<1> QED BY <1>1, <1>4, <1>5, <1>6, <1>7, <1>8 DEF IInv

LEMMA RunReleaseStep ==
  ASSUME IInv, NEW i \in DOMAIN q, RunRelease(i)
  PROVE  IInv'
<1>1. /\ QueueInv' /\ Queued' = Queued \ {q[i]} /\ q[i] \in Live
      /\ running = "none" /\ q[i] = Now("release")
  BY RunEffect DEF RunRelease, OwnFuns, notifyVars
<1>2. life = "releasing"
  BY <1>1 DEF IInv, WhereInv, Live
<1>a. q[i] \notin PumpTasks /\ \A f \in OwnFuns \ {"release"} : q[i] # Now(f)
  BY <1>1, Apart DEF OwnFuns
<1>b. (Cancelled' <=> Cancelled) /\ (Booted' <=> Booted)
  BY <1>1, <1>a DEF Cancelled, Booted, RunRelease, OwnFuns
<1>4. TypeOK'
  BY <1>1 DEF IInv, TypeOK, QueueInv, Queued, Live, RunRelease, MakeReady, notifyVars, cbVars,
                    searchVars
<1>5. WhereInv'
  BY <1>1, <1>2, <1>b DEF IInv, WhereInv, RunRelease, cbVars, searchVars
<1>6. LifeInv'
  BY <1>1, <1>2 DEF IInv, LifeInv, RunRelease, cbVars
<1>7. PumpInv'
  <2>1. Live' \cap PumpTasks = Live \cap PumpTasks /\ Queued' \cap PumpTasks \subseteq Queued
    BY <1>1, <1>a DEF Live, RunRelease
  <2> QED BY <1>4, <1>b, <2>1, PumpKept DEF RunRelease
<1>8. NotifyInv'
  BY <1>1, <1>2 DEF IInv, NotifyInv, RunRelease, notifyVars
<1> QED BY <1>1, <1>4, <1>5, <1>6, <1>7, <1>8 DEF IInv

LEMMA NotifyStep ==
  ASSUME IInv, Notify
  PROVE  IInv'
<1>1. /\ notifying' \in NotifyTasks /\ notifying'.num = notifies + 1
      /\ notifies' = notifies + 1 /\ notifies' \in 0..MaxNotifies
  <2>1. notifies + 1 \in 1..MaxNotifies /\ notifies' = notifies + 1
    BY SessionAssumption DEF IInv, TypeOK, Notify
  <2> QED BY <2>1 DEF Notify, Task, NotifyTasks
<1>2. /\ notifying' \in Tasks /\ notifying' \notin Queued /\ notifying' \notin PumpTasks
      /\ notifying'.fun = "notify_main_thread"
  <2>1. notifying' \notin Queued
    BY <1>1 DEF IInv, TypeOK, NotifyInv
  <2> QED BY <1>1, <2>1, Apart, TaskKinds
<1>3. /\ life \notin {"none", "dead"} /\ late \subseteq late'
      /\ Now("cancel_notify") \in Queued => notifying' \in late'
  BY DEF IInv, WhereInv, LifeInv, Notify
<1>4. QueueInv' /\ Queued' = Queued \cup {notifying'}
  <2>1. notifying' \notin Starts
    BY <1>1, Apart DEF Starts, OwnFuns
  <2> QED BY <1>2, <1>3, <2>1, PostStep DEF Notify
<1>a. /\ \A f \in OwnFuns : Now(f) \in Queued' <=> Now(f) \in Queued
      /\ \A s \in Searches : /\ Creates(s) \in Queued' <=> Creates(s) \in Queued
                             /\ Asks(s) \in Queued' <=> Asks(s) \in Queued
  BY <1>1, <1>4, Apart
<1>b. (Cancelled' <=> Cancelled) /\ (Booted' <=> Booted)
  BY <1>a DEF Cancelled, Booted, Notify, OwnFuns
<1>5. TypeOK'
  BY <1>1, <1>4 DEF IInv, TypeOK, QueueInv, Queued, Notify, cbVars, searchVars
<1>6. WhereInv'
  <2>1. UNCHANGED <<life, spSession, running, search, slot, cbq>>
    BY DEF Notify, cbVars, searchVars
  <2>2. \A f \in OwnFuns : Now(f) \in Queued' => Now(f) \in Queued
    BY <1>a
  <2>3. \A s \in Searches : /\ Creates(s) \in Queued' => Creates(s) \in Queued
                            /\ Asks(s) \in Queued' => Asks(s) \in Queued
    BY <1>a
  <2> QED BY <1>b, <2>1, <2>2, <2>3 DEF IInv, WhereInv, OwnFuns
<1>7. LifeInv'
  BY <1>3, <1>a DEF IInv, LifeInv, Notify, cbVars, OwnFuns
<1>8. PumpInv'
  <2>1. Live' \cap PumpTasks = Live \cap PumpTasks /\ Queued' \cap PumpTasks \subseteq Queued
    BY <1>2, <1>4 DEF Live, Notify
  <2> QED BY <1>5, <1>b, <2>1, PumpKept DEF Notify
<1>9. NotifyInv'
  <2>1. \A t \in NotifyTasks : t.num \in Int
    BY DEF NotifyTasks
  <2>2. notifies \in Int
    BY DEF IInv, TypeOK
  <2>3. \A t \in Queued' \cap NotifyTasks : t.num <= notifies'
    BY <1>1, <1>4, <2>1, <2>2 DEF IInv, NotifyInv
  <2>4. life \in {"stopping", "dead", "cancelling_notify"} => notifying' \in late'
    BY DEF IInv, LifeInv, Notify
  <2> QED BY <1>3, <1>4, <1>a, <2>3, <2>4 DEF IInv, NotifyInv, Notify, OwnFuns
<1> QED BY <1>4, <1>5, <1>6, <1>7, <1>8, <1>9 DEF IInv

LEMMA KeepHandleStep ==
  ASSUME IInv, KeepHandle
  PROVE  IInv'
<1>2. QueueInv' /\ Queued' = Queued
  BY KeepStep DEF KeepHandle, pumpVars
<1>3. TypeOK'
  BY <1>2 DEF IInv, TypeOK, QueueInv, Queued, KeepHandle, pumpVars, cbVars, searchVars
<1>4. WhereInv'
  BY <1>2 DEF IInv, WhereInv, KeepHandle, pumpVars, cbVars, searchVars, Cancelled
<1>5. LifeInv'
  BY <1>2 DEF IInv, LifeInv, KeepHandle, pumpVars, cbVars
<1>6. PumpInv'
  BY <1>2 DEF IInv, PumpInv, Booted, Cancelled, Live, KeepHandle, pumpVars
<1>7. NotifyInv'
  BY <1>2 DEF IInv, NotifyInv, KeepHandle
<1> QED BY <1>2, <1>3, <1>4, <1>5, <1>6, <1>7 DEF IInv

LEMMA LoggedInOrOutStep ==
  ASSUME IInv, LoggedInOrOut
  PROVE  IInv'
<1>1. life # "dead" /\ spSession # "none"
  BY DEF IInv, LifeInv, PumpInv, Cancelled, LoggedInOrOut, InEvents
<1>2. QueueInv' /\ Queued' = Queued
  BY KeepStep DEF LoggedInOrOut, pumpVars, notifyVars
<1>3. TypeOK'
  BY <1>2 DEF IInv, TypeOK, QueueInv, Queued, LoggedInOrOut, pumpVars, notifyVars, searchVars
<1>4. WhereInv'
  BY <1>2, SessionAssumption DEF IInv, WhereInv, LoggedInOrOut, pumpVars, searchVars, Cancelled
<1>5. LifeInv'
  BY <1>1, <1>2 DEF IInv, LifeInv, LoggedInOrOut, pumpVars
<1>6. PumpInv'
  BY <1>2 DEF IInv, PumpInv, Booted, Cancelled, Live, LoggedInOrOut, pumpVars
<1>7. NotifyInv'
  BY <1>2 DEF IInv, NotifyInv, LoggedInOrOut, notifyVars
<1> QED BY <1>2, <1>3, <1>4, <1>5, <1>6, <1>7 DEF IInv

LEMMA SearchCompletedStep ==
  ASSUME IInv, NEW s \in Searches, SearchCompleted(s)
  PROVE  IInv'
<1>1. life # "dead" /\ spSession # "none"
  BY DEF IInv, LifeInv, PumpInv, Cancelled, SearchCompleted, InEvents
<1>2. QueueInv' /\ Queued' = Queued
  BY KeepStep DEF SearchCompleted, pumpVars, notifyVars
<1>3. TypeOK'
  BY <1>2 DEF IInv, TypeOK, QueueInv, Queued, SearchCompleted, pumpVars, notifyVars
<1>4. WhereInv'
  <2>1. \A u \in Searches : u # s => search'[u] = search[u]
    BY DEF IInv, TypeOK, SearchCompleted
  <2>2. search[s] = "created" /\ Creates(s) \notin Queued /\ s \notin slot \cup cbq
    BY DEF IInv, WhereInv, SearchCompleted
  <2>3. s \in cbq' => search'[s] = "delivered"
    BY <2>2 DEF IInv, TypeOK, SearchCompleted
  <2>4. \A u \in Searches : u # s /\ u \in cbq' => u \in cbq
    BY DEF SearchCompleted
  <2>5. Cancelled' <=> Cancelled
    BY <1>2 DEF Cancelled, SearchCompleted
  <2> QED BY <1>2, <2>1, <2>2, <2>3, <2>4, <2>5
          DEF IInv, WhereInv, SearchCompleted, pumpVars
<1>5. LifeInv'
  BY <1>1, <1>2 DEF IInv, LifeInv, SearchCompleted, pumpVars
<1>6. PumpInv'
  BY <1>2 DEF IInv, PumpInv, Booted, Cancelled, Live, SearchCompleted, pumpVars
<1>7. NotifyInv'
  BY <1>2 DEF IInv, NotifyInv, SearchCompleted, notifyVars
<1> QED BY <1>2, <1>3, <1>4, <1>5, <1>6, <1>7 DEF IInv

LEMMA LoginSlotStep ==
  ASSUME IInv, LoginSlot
  PROVE  IInv'
<1>1. life \notin {"none", "dead"} /\ spSession # "none"
  BY DEF IInv, LifeInv, LoginSlot
<1>2. /\ QueueInv'
      /\ Queued' = Queued \/ Queued' = Queued \cup {Now("log_in_or_out")}
  BY SlotPostsEffect DEF LoginSlot, notifyVars
<1>a. /\ \A f \in OwnFuns \ {"log_in_or_out"} : Now(f) \in Queued' <=> Now(f) \in Queued
      /\ \A s \in Searches : /\ Creates(s) \in Queued' <=> Creates(s) \in Queued
                             /\ Asks(s) \in Queued' <=> Asks(s) \in Queued
  BY <1>2, Apart DEF OwnFuns
<1>b. (Cancelled' <=> Cancelled) /\ (Booted' <=> Booted)
  BY <1>a DEF Cancelled, Booted, LoginSlot, OwnFuns
<1>3. TypeOK'
  BY <1>2 DEF IInv, TypeOK, QueueInv, Queued, LoginSlot, notifyVars, searchVars
<1>4. WhereInv'
  BY <1>a, <1>b DEF IInv, WhereInv, LoginSlot, searchVars, OwnFuns
<1>5. LifeInv'
  BY <1>1, <1>a DEF IInv, LifeInv, LoginSlot, OwnFuns
<1>6. PumpInv'
  <2>1. Live' \cap PumpTasks = Live \cap PumpTasks /\ Queued' \cap PumpTasks \subseteq Queued
    BY <1>2, Apart DEF Live, LoginSlot, OwnFuns
  <2> QED BY <1>3, <1>b, <2>1, PumpKept DEF LoginSlot
<1>7. NotifyInv'
  BY <1>2, <1>a, Apart DEF IInv, NotifyInv, LoginSlot, notifyVars, OwnFuns
<1> QED BY <1>2, <1>3, <1>4, <1>5, <1>6, <1>7 DEF IInv

LEMMA SearchSlotStep ==
  ASSUME IInv, NEW s \in Searches, SearchSlot(s)
  PROVE  IInv'
<1>1. Asks(s) \in Tasks /\ Asks(s) \notin Queued
  BY Apart DEF IInv, WhereInv, SearchSlot
<1>2. QueueInv' /\ (Queued' = Queued \/ Queued' = Queued \cup {Asks(s)})
  <2>1. CASE q' = q
    BY <2>1, KeepStep DEF SearchSlot, notifyVars
  <2>2. CASE post(Asks(s))
    <3>1. Asks(s) \notin Starts /\ Asks(s) \notin NotifyTasks
      BY Apart DEF Starts, OwnFuns
    <3> QED BY <1>1, <2>2, <3>1, PostStep DEF SearchSlot, notifyVars
  <2> QED BY <2>1, <2>2 DEF SearchSlot, Asks
<1>3. life \notin {"none", "dead"} /\ spSession # "none"
  BY DEF IInv, LifeInv, SearchSlot
<1>a. /\ \A f \in OwnFuns : Now(f) \in Queued' <=> Now(f) \in Queued
      /\ \A u \in Searches : /\ Creates(u) \in Queued' <=> Creates(u) \in Queued
                             /\ Asks(u) \in Queued' => u = s \/ Asks(u) \in Queued
  BY <1>2, Apart
<1>b. (Cancelled' <=> Cancelled) /\ (Booted' <=> Booted)
  BY <1>a DEF Cancelled, Booted, SearchSlot, OwnFuns
<1>4. TypeOK'
  BY <1>2 DEF IInv, TypeOK, QueueInv, Queued, SearchSlot, notifyVars, searchVars
<1>5. WhereInv'
  <2>1. UNCHANGED <<life, spSession, running, search>>
    BY DEF SearchSlot, searchVars
  <2>2. \A f \in OwnFuns : Now(f) \in Queued' => Now(f) \in Queued
    BY <1>a
  <2>3. \A u \in Searches : /\ Creates(u) \in Queued' => Creates(u) \in Queued
                            /\ Asks(u) \in Queued' => u \in slot'
                            /\ u \in slot' \cup cbq' => u \in slot \cup cbq
                            /\ u \in slot' => u \notin cbq'
    BY <1>a DEF IInv, WhereInv, SearchSlot
  <2> QED BY <1>b, <2>1, <2>2, <2>3 DEF IInv, WhereInv, OwnFuns
<1>6. LifeInv'
  BY <1>3, <1>a DEF IInv, LifeInv, SearchSlot, OwnFuns
<1>7. PumpInv'
  <2>1. Live' \cap PumpTasks = Live \cap PumpTasks /\ Queued' \cap PumpTasks \subseteq Queued
    BY <1>2, Apart DEF Live, SearchSlot
  <2> QED BY <1>4, <1>b, <2>1, PumpKept DEF SearchSlot
<1>8. NotifyInv'
  BY <1>2, <1>a, Apart DEF IInv, NotifyInv, SearchSlot, notifyVars, OwnFuns
<1> QED BY <1>2, <1>4, <1>5, <1>6, <1>7, <1>8 DEF IInv

LEMMA EndSlotStep ==
  ASSUME IInv, EndSlot
  PROVE  IInv'
<1>1. life \notin {"none", "dead"} /\ spSession # "none"
  BY DEF IInv, LifeInv, EndSlot
<1>2. /\ QueueInv'
      /\ Queued' = Queued \/ Queued' = Queued \cup {Now("log_in_or_out")}
  BY SlotPostsEffect DEF EndSlot, notifyVars
<1>a. /\ \A f \in OwnFuns \ {"log_in_or_out"} : Now(f) \in Queued' <=> Now(f) \in Queued
      /\ \A s \in Searches : /\ Creates(s) \in Queued' <=> Creates(s) \in Queued
                             /\ Asks(s) \in Queued' <=> Asks(s) \in Queued
  BY <1>2, Apart DEF OwnFuns
<1>b. (Cancelled' <=> Cancelled) /\ (Booted' <=> Booted)
  BY <1>a DEF Cancelled, Booted, EndSlot, OwnFuns
<1>3. TypeOK'
  BY <1>2 DEF IInv, TypeOK, QueueInv, Queued, EndSlot, notifyVars
<1>4. WhereInv'
  <2>1. \A s \in Searches :
          /\ s \in slot => Asks(s) \notin Queued /\ Creates(s) \notin Queued /\ s \notin cbq
          /\ s \notin slot => search'[s] = search[s]
    BY DEF IInv, WhereInv, EndSlot, Asks
  <2> QED BY <1>a, <1>b, <2>1 DEF IInv, WhereInv, EndSlot, OwnFuns
<1>5. LifeInv'
  BY <1>1, <1>a DEF IInv, LifeInv, EndSlot, OwnFuns
<1>6. PumpInv'
  <2>1. Live' \cap PumpTasks = Live \cap PumpTasks /\ Queued' \cap PumpTasks \subseteq Queued
    BY <1>2, Apart DEF Live, EndSlot, OwnFuns
  <2> QED BY <1>3, <1>b, <2>1, PumpKept DEF EndSlot
<1>7. NotifyInv'
  BY <1>2, <1>a, Apart DEF IInv, NotifyInv, EndSlot, notifyVars, OwnFuns
<1> QED BY <1>2, <1>3, <1>4, <1>5, <1>6, <1>7 DEF IInv

LEMMA SpuriousWakeupStep ==
  ASSUME IInv, NEW who, SpuriousWakeup(who)
  PROVE  IInv'
<1>1. QueueInv' /\ Queued' = Queued
  BY KeepStep DEF SpuriousWakeup, pumpVars, notifyVars
<1>2. TypeOK'
  BY <1>1 DEF IInv, TypeOK, QueueInv, Queued, SpuriousWakeup, pumpVars, notifyVars, cbVars,
              searchVars
<1>3. WhereInv' /\ LifeInv'
  BY <1>1 DEF IInv, WhereInv, LifeInv, Cancelled, SpuriousWakeup, pumpVars, cbVars, searchVars
<1>4. PumpInv' /\ NotifyInv'
  BY <1>1 DEF IInv, PumpInv, NotifyInv, Live, Booted, Cancelled, SpuriousWakeup, pumpVars,
              notifyVars
<1> QED BY <1>1, <1>2, <1>3, <1>4 DEF IInv

\* A step is one of these.
LEMMA InvStep == IInv /\ [Next]_vars => IInv'
<1> SUFFICES ASSUME IInv, [Next]_vars PROVE IInv'
  OBVIOUS
<1>1. CASE Construct \/ Created \/ CreationThrows \/ Destruct \/ CbStopped \/ LogInOrOut
  BY <1>1, ConstructStep, CreatedStep, CreationThrowsStep, DestructStep, CbStoppedStep,
     LogInOrOutStep
<1>2. CASE SpotifyThread
  <2>1. CASE EndCreate \/ EndEvents \/ EndOnce
    BY <2>1, EndCreateStep, EndEventsStep, EndOnceStep
  <2>2. ASSUME NEW i \in DOMAIN q, RunTask(i) PROVE IInv'
    BY <2>2, SkipStep, RunCreateStep, RunBootStep, RunEventsStep, RunNotifyStep, RunClientStep,
       RunQueryStep, RunSearchStep, RunCancelEventsStep, RunReleaseStep, RunCancelNotifyStep
       DEF RunTask
  <2> QED BY <1>2, <2>1, <2>2 DEF SpotifyThread
<1>3. CASE Notify \/ KeepHandle \/ LoggedInOrOut
  BY <1>3, NotifyStep, KeepHandleStep, LoggedInOrOutStep
<1>4. CASE CbThread
  BY <1>4, EndSlotStep, LoginSlotStep, SearchSlotStep DEF CbThread
<1>5. ASSUME NEW s \in Searches, StartSearch(s) \/ EndSearch(s) \/ SearchCompleted(s)
      PROVE  IInv'
  BY <1>5, StartSearchStep, EndSearchStep, SearchCompletedStep
<1>6. ASSUME NEW who \in {"owner", "cb"}, SpuriousWakeup(who) PROVE IInv'
  BY <1>6, SpuriousWakeupStep
<1>7. CASE UNCHANGED vars
  <2>1. QueueInv' /\ Queued' = Queued
    BY <1>7, KeepStep DEF vars, pumpVars, notifyVars
  <2>2. TypeOK'
    BY <1>7, <2>1 DEF IInv, TypeOK, QueueInv, Queued, vars, pumpVars, notifyVars, cbVars,
       searchVars
  <2>3. WhereInv' /\ LifeInv'
    BY <1>7, <2>1 DEF IInv, WhereInv, LifeInv, Cancelled, vars, pumpVars, cbVars, searchVars
  <2>4. PumpInv' /\ NotifyInv'
    BY <1>7, <2>1 DEF IInv, PumpInv, NotifyInv, Live, Booted, Cancelled, vars, pumpVars,
       notifyVars
  <2> QED BY <2>1, <2>2, <2>3, <2>4 DEF IInv
<1> QED BY <1>1, <1>2, <1>3, <1>4, <1>5, <1>6, <1>7 DEF Next

LEMMA Invariance == Spec => []IInv
BY InvInit, InvStep, PTL DEF Spec
-----------------------------------------------------------------------------
\* Every variable keeps its type, for any searches and number of notifications.
THEOREM TypeCorrect == Spec => []TypeOK
<1>1. IInv => TypeOK
  BY DEF IInv
<1> QED BY <1>1, Invariance, PTL

\* Between its start and its cancellation one process_events() waits or runs, and the
\* handle is that of the one that waits (session.cc:139,165).
THEOREM ChainIsOne == Spec => []OnePump
<1>1. IInv => OnePump
  <2> SUFFICES ASSUME IInv PROVE OnePump
    OBVIOUS
  <2>1. \A t \in Live \cap PumpTasks : t = peh /\ peh \in Live
    BY DEF IInv, PumpInv
  <2>2. running = "events" => Live \cap PumpTasks = {}
    BY <2>1 DEF IInv, PumpInv
  <2>3. \A t \in Live \cap PumpTasks : Live \cap PumpTasks = {t} /\ peh = t
    BY <2>1
  <2>4. ASSUME ~Posted("create_session"), ~Posted("boot"), life = "alive"
        PROVE  Live \cap PumpTasks # {} \/ running = "events"
    <3>1. Now("boot") \notin Queued
      BY <2>4, PostedOwn DEF IInv, OwnFuns
    <3>2. Booted /\ ~Cancelled
      BY <2>4, <3>1 DEF Booted, Cancelled
    <3>3. peh \in PumpTasks
      BY <3>2 DEF IInv, TypeOK, PumpInv
    <3> QED BY <3>2, <3>3 DEF IInv, PumpInv
  <2> QED BY <2>2, <2>3, <2>4 DEF OnePump
<1> QED BY <1>1, Invariance, PTL

\* What ~session() leaves on the spotify thread after the release, and on both threads
\* when it has returned (session.cc:93).
THEOREM WhatIsLeft == Spec => []SessionSettled
<1>1. IInv => SessionSettled
  <2> SUFFICES ASSUME IInv PROVE SessionSettled
    OBVIOUS
  <2> DEFINE Left == {"notify_main_thread", "cancel_notify", "query", "log_in_or_out"}
  <2>1. Live \subseteq Queued /\ Live \subseteq Tasks
    BY DEF IInv, TypeOK, Live, Queued, ToSet
  <2>2. ASSUME spSession = "released"
        PROVE  running = "none" /\ \A t \in Live : t.fun \in Left
    <3>1. Cancelled /\ running = "none" /\ peh \notin Live
      BY <2>2 DEF IInv, LifeInv, PumpInv, Cancelled
    <3>2. Live \cap PumpTasks = {}
      BY <3>1 DEF IInv, PumpInv
    <3>3. \A f \in OwnFuns \ {"cancel_notify", "log_in_or_out"} : Now(f) \notin Live
      BY <2>1, <2>2, <3>1 DEF IInv, WhereInv, LifeInv, OwnFuns
    <3>4. \A s \in Searches : Creates(s) \notin Live
      BY <2>1, <3>1 DEF IInv, WhereInv
    <3>5. ASSUME NEW t \in Live PROVE t.fun \in Left
      <4>1. t.fun \in OwnFuns \cup {"process_events", "notify_main_thread",
                                   "search_create", "query"}
        BY <2>1, TaskKinds
      <4>2. t.fun # "process_events" /\ t.fun # "search_create"
        BY <2>1, <3>2, <3>4, Which
      <4>3. t.fun \in OwnFuns => t.fun \in {"cancel_notify", "log_in_or_out"}
        BY <2>1, <3>3, Which
      <4> QED BY <4>1, <4>2, <4>3
    <3> QED BY <3>1, <3>5
  <2>3. ASSUME life = "dead"
        PROVE  /\ \A t \in Live : t = Now("log_in_or_out") \/ t \in late
               /\ cbq = {} /\ slot = {}
    <3>1. spSession = "released" /\ cbq = {} /\ slot = {}
      BY <2>3 DEF IInv, LifeInv
    <3>2. ASSUME NEW t \in Live PROVE t = Now("log_in_or_out") \/ t \in late
      <4>1. t.fun \in Left
        BY <2>2, <3>1
      <4>2. t.fun = "notify_main_thread" => t \in late
        BY <2>1, <2>3, Which DEF IInv, NotifyInv
      <4>3. t.fun # "cancel_notify"
        BY <2>1, <2>3, Which DEF IInv, WhereInv, OwnFuns
      <4>4. t.fun # "query"
        BY <2>1, <3>1, Which DEF IInv, WhereInv
      <4>5. t.fun = "log_in_or_out" => t = Now("log_in_or_out")
        BY <2>1, Which DEF OwnFuns
      <4> QED BY <4>1, <4>2, <4>3, <4>4, <4>5
    <3> QED BY <3>1, <3>2
  <2> QED BY <2>2, <2>3 DEF SessionSettled
<1> QED BY <1>1, Invariance, PTL

\* The callbacks that post to cb_thread find it running: the assertion in
\* base::thread::post_task (thread.cc:59).
THEOREM CallbacksFindThread == Spec => []CallbacksHaveThread
<1>1. IInv => CallbacksHaveThread
  BY DEF IInv, LifeInv, PumpInv, Cancelled, CallbacksHaveThread, InEvents
<1> QED BY <1>1, Invariance, PTL

\* A notification finds a process_events() to replace unless ~session() has cancelled
\* it (session.cc:129).
THEOREM NotificationHeard == Spec => NotifyHeard
<1>1. IInv /\ [Next]_vars =>
        [\A i \in DOMAIN q :
           RunNotify(i) /\ (life = "alive" \/ Posted("cancel_events")) => InEvents']_vars
  <2> SUFFICES ASSUME IInv, NEW i \in DOMAIN q, RunNotify(i),
                      life = "alive" \/ Posted("cancel_events")
               PROVE  InEvents'
    OBVIOUS
  <2>1. CASE peh = Invalid \/ Cancellable(peh)
    BY <2>1 DEF RunNotify, InEvents
  <2>2. CASE peh # Invalid /\ ~Cancellable(peh)
    <3>1. running = "none" /\ Booted
      BY <2>2 DEF IInv, PumpInv, RunNotify, Run, Runnable
    <3>2. life = "alive" \/ Now("cancel_events") \in Queued
      BY PostedOwn DEF IInv, OwnFuns
    <3>3. ~Cancelled
      BY <3>2 DEF IInv, WhereInv, Cancelled
    <3> QED BY <2>2, <3>1, <3>3 DEF IInv, PumpInv, Cancellable
  <2> QED BY <2>1, <2>2
<1> QED BY <1>1, Invariance, PTL DEF Spec, NotifyHeard

\* Without a failure of sp_session_create() the destructor of cb_thread finds it
\* stopped: no other way leads past the stop() of ~session() (session.cc:118).
THEOREM OnlyFailureLeavesCb ==
  ASSUME ~MayFail
  PROVE  Spec => []CbThreadStopped
<1> DEFINE NoFailure == spSession # "failed"
<1>1. Init => NoFailure
  BY DEF Init
<1>2. NoFailure /\ [Next]_vars => NoFailure'
  BY DEF Next, Construct, Created, CreationThrows, Destruct, CbStopped, LogInOrOut,
         SpotifyThread, EndCreate, EndEvents, EndOnce, RunTask, Skip, RunCreate, RunBoot,
         RunEvents, RunNotify, RunClient, RunQuery, RunSearch, RunCancelEvents, RunRelease,
         RunCancelNotify, Notify, KeepHandle, LoggedInOrOut, CbThread, EndSlot, LoginSlot,
         SearchSlot, StartSearch, EndSearch, SearchCompleted, SpuriousWakeup, vars
<1>3. IInv /\ NoFailure => CbThreadStopped
  BY DEF IInv, TypeOK, LifeInv, CbThreadStopped
<1> HIDE DEF NoFailure
<1> QED BY <1>1, <1>2, <1>3, Invariance, PTL DEF Spec
=============================================================================
