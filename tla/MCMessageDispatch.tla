------------------------- MODULE MCMessageDispatch -------------------------
(* Small instances of MessageDispatch for TLC. *)
EXTENDS MessageDispatch, TLC

CONSTANTS w1, w2

OneWorker  == {w1}
TwoWorkers == {w1, w2}

\* The two processes run the same code; no property names one of them.
WorkerSymmetry == Permutations(Worker)
=============================================================================
