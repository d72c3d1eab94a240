---------------------------- MODULE MCWorkerPool ----------------------------
(* The pool with two workers, one place in the queue fewer than tasks.     *)
EXTENDS WorkerPool
=============================================================================
