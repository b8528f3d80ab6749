------------------------------- MODULE LockQueue -------------------------------
(* The queue of an asyncio.Lock: its holder and those who wait, in order.  *)
EXTENDS SequencesExt

(* The queue when a task has left it, from the head or from within: a task *)
(* queues once.                                                            *)
Without(queue, task) ==
  IF \E i \in DOMAIN queue : queue[i] = task
  THEN RemoveAt(queue, CHOOSE i \in DOMAIN queue : queue[i] = task) ELSE queue
==============================================================================
