-------- MODULE Rendezvous --------
(***************************************************************************)
(* What the workers take bar_t::wait (enumerator/parallel_pthreads_steal.  *)
(* hpp) for: a thread that calls it is held there until every thread has   *)
(* called it, and then none of them is held any more.                      *)
(***************************************************************************)
CONSTANT Thread   \* the threads that share one bar_t

VARIABLE inside   \* those that called wait() and are still held

\* t calls wait(); it cannot call it again while it is held.
Come(t) == t \notin inside /\ inside' = inside \cup {t}

\* Nobody is missing, so all are let go together.
LetGo ==
  /\ Thread \subseteq inside
  /\ inside' = {}

\* One step of a bar_t that keeps the promise.
Wait == LetGo \/ \E t \in Thread : Come(t)

\* The promise: a new bar_t holds nobody, and each later step is a Wait.
Promise == inside = {} /\ [][Wait]_inside
===================================
