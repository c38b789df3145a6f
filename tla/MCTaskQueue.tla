---------------------------- MODULE MCTaskQueue -----------------------------
(* TaskQueue.tla for TLC: tasks and consumers are model values. *)
EXTENDS TaskQueue

\* What a dangling reference shows when the freed memory still holds a time that
\* comes, and when it holds anything.
AnyTime == 0..MaxTime
AnyTimeOrNever == 0..(MaxTime + 1)
=============================================================================
