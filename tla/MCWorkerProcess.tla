--------------------------- MODULE MCWorkerProcess ---------------------------
(* Instances of WorkerProcess for TLC. *)
EXTENDS WorkerProcess

\* Processes started with different --worker-id values.
OwnIds == CHOOSE f \in [Processes -> Ids] : \A p, q \in Processes : p # q => f[p] # f[q]
=============================================================================
