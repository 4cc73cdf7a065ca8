---------------------------- MODULE MCThreadPool ----------------------------
(* Instance of ThreadPool: more producers than the queue has room for, two  *)
(* workers.                                                                 *)
EXTENDS ThreadPool
=============================================================================
