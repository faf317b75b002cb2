------------------------------- MODULE Mutex -------------------------------
(***************************************************************************)
(* The queue of a fair async mutex (tokio::sync::Mutex), as                *)
(* src/src/auth.rs and src/src/auth/verify.rs use theirs: its holder       *)
(* first, then those who wait in lock().await, in the order they came.     *)
(***************************************************************************)
EXTENDS Integers, Sequences

Without(queue, i) == SubSeq(queue, 1, i - 1) \o SubSeq(queue, i + 1, Len(queue))

\* c drops its guard, or its place in the queue.
Released(queue, c) ==
  IF \A i \in DOMAIN queue : queue[i] # c THEN queue
  ELSE Without(queue, CHOOSE i \in DOMAIN queue : queue[i] = c)
=============================================================================
