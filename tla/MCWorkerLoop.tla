---------------------------- MODULE MCWorkerLoop ----------------------------
(* One worker and the button.                                               *)
EXTENDS WorkerLoop
=============================================================================
