------------------------- MODULE MCServiceLifecycle -------------------------
(* Instances of ServiceLifecycle for TLC: the four threads of the program.  *)
EXTENDS ServiceLifecycle

MCWorkerThreads == {"heartbeat", "process", "driver", "ruleReload"}
=============================================================================
