---------------------------- MODULE WaitableEvent ----------------------------
(***************************************************************************)
(* base::waitable_event (base/waitable_event.cc): a flag behind a mutex    *)
(* and a condition variable.                                               *)
(*                                                                         *)
(* Each element of Waits, Resets and Signals is one call of wait(),        *)
(* wait_and_reset() or signal(), by any thread at any time; the header     *)
(* speaks of two threads, the class enforces nothing.  A step is one       *)
(* critical section of m_, or the notify_one() that signal() makes after   *)
(* it has left its own.                                                    *)
(***************************************************************************)
EXTENDS FiniteSets, Naturals

CONSTANTS
  Waits,   \* the calls of wait()
  Resets,  \* the calls of wait_and_reset()
  Signals  \* the calls of signal()

ASSUME WaitableEventAssumption ==
  /\ Waits \cap Resets = {}
  /\ IsFiniteSet(Resets) /\ IsFiniteSet(Signals)

Calls == Waits \cup Resets

VARIABLES
  signaled,  \* signaled_
  sleeping,  \* the calls blocked on cv_
  woken,     \* the calls that left cv_ and are about to take m_ again
  returned,  \* the calls of wait() and wait_and_reset() that have returned
  stored,    \* the calls of signal() that have set the flag
  notified   \* those of them that have called notify_one()

vars == <<signaled, sleeping, woken, returned, stored, notified>>

TypeOK ==
  /\ signaled \in BOOLEAN
  /\ sleeping \subseteq Calls /\ woken \subseteq Calls /\ returned \subseteq Calls
  /\ sleeping \cap woken = {} /\ returned \cap (sleeping \cup woken) = {}
  /\ stored \subseteq Signals /\ notified \subseteq stored

Init ==
  /\ signaled = FALSE
  /\ sleeping = {} /\ woken = {} /\ returned = {} /\ stored = {} /\ notified = {}

\* Mutant of wait_on_lock: wait() without a predicate, which blocks first and
\* returns on any wakeup.
wait_on_lock_Blind(c) ==
  \/ /\ c \in woken /\ returned' = returned \cup {c}
     /\ signaled' = (signaled /\ c \notin Resets) /\ UNCHANGED sleeping
  \/ /\ c \notin woken /\ sleeping' = sleeping \cup {c}
     /\ UNCHANGED <<signaled, returned>>

\* The rest of the call from an evaluation of the predicate on, in one critical
\* section: it returns, and wait_and_reset() clears the flag, or it blocks.
wait_on_lock(c) ==
  \/ /\ signaled /\ returned' = returned \cup {c} /\ signaled' = (c \notin Resets)
     /\ UNCHANGED sleeping
  \/ ~signaled /\ sleeping' = sleeping \cup {c} /\ UNCHANGED <<signaled, returned>>

Enter(c) ==
  /\ c \notin sleeping \cup woken \cup returned
  /\ wait_on_lock(c) /\ UNCHANGED <<woken, stored, notified>>

wait == \E c \in Waits : Enter(c)
wait_and_reset == \E c \in Resets : Enter(c)

Resume(c) ==
  /\ c \in woken /\ woken' = woken \ {c}
  /\ wait_on_lock(c) /\ UNCHANGED <<stored, notified>>

SpuriousWakeup(c) ==
  /\ c \in sleeping /\ sleeping' = sleeping \ {c} /\ woken' = woken \cup {c}
  /\ UNCHANGED <<signaled, returned, stored, notified>>

\* signal(): the flag first, under m_.
Store(s) ==
  /\ s \notin stored /\ stored' = stored \cup {s}
  /\ signaled' = TRUE
  /\ UNCHANGED <<sleeping, woken, returned, notified>>

\* Mutant of NotifyOne: the notification comes before the flag is set.
NotifyOne_Early(s) ==
  /\ s \in Signals \ notified /\ notified' = notified \cup {s}
  /\ \/ sleeping = {} /\ UNCHANGED <<sleeping, woken>>
     \/ \E c \in sleeping : sleeping' = sleeping \ {c} /\ woken' = woken \cup {c}
  /\ UNCHANGED <<signaled, returned, stored>>

\* Mutant of NotifyOne: the notification is forgotten.
NotifyOne_Silent(s) ==
  /\ s \in stored \ notified /\ notified' = notified \cup {s}
  /\ UNCHANGED <<signaled, sleeping, woken, returned, stored>>

\* notify_one(): nobody, or any one of the blocked threads.
NotifyOne(s) ==
  /\ s \in stored \ notified /\ notified' = notified \cup {s}
  /\ \/ sleeping = {} /\ UNCHANGED <<sleeping, woken>>
     \/ \E c \in sleeping : sleeping' = sleeping \ {c} /\ woken' = woken \cup {c}
  /\ UNCHANGED <<signaled, returned, stored>>

Next ==
  \/ wait \/ wait_and_reset
  \/ \E c \in Calls : Resume(c) \/ SpuriousWakeup(c)
  \/ \E s \in Signals : Store(s) \/ NotifyOne(s)

Spec == Init /\ [][Next]_vars

\* A thread that can go on does, and a signal() that was begun is ended.  Nobody
\* has to call anything, and a spurious wakeup may never come.
FairSpec ==
  /\ Spec
  /\ \A c \in Calls : WF_vars(Resume(c))
  /\ \A s \in Signals : WF_vars(NotifyOne(s))
-----------------------------------------------------------------------------
(***************************************************************************)
(* Properties.                                                             *)
(***************************************************************************)

\* A call returns only on a signal, and a wait_and_reset() has that signal to
\* itself: there are never more of them returned than flags set, counting the
\* one that nobody has taken yet (waitable_event::wait_on_lock).
SignalTakenOnce ==
  /\ returned # {} => stored # {}
  /\ Cardinality(returned \cap Resets) + (IF signaled THEN 1 ELSE 0)
       <= Cardinality(stored)

\* While only wait_and_reset() calls return, no thread sleeps on a set event with
\* nobody on the way to wake it or to take the signal: notify_one() is enough for
\* any number of threads, although it comes after the mutex was released and may
\* pick a thread that finds the event reset again.  A wait() that returns leaves
\* the event set and passes nothing on (waitable_event::signal).
NobodyStranded ==
  signaled /\ sleeping # {} =>
    \/ woken # {} \/ notified # stored
    \/ returned \cap Waits # {}

\* An event that is set while somebody sleeps on it does not stay so: one of the
\* waiting calls returns and, if it is a wait_and_reset(), takes the signal.
SignalIsSeen ==
  (signaled /\ sleeping # {}) ~> (~signaled \/ returned \cap Waits # {})
=============================================================================
