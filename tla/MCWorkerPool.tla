---------------------------- MODULE MCWorkerPool ----------------------------
(* Small instances of WorkerPool for TLC. *)
EXTENDS WorkerPool

CONSTANTS p, q, r, s

\* Payments of their own, and payments whose identifiers were used before, next
\* to each other and apart.
MCWorkloads == {<<p, q, r, s>>, <<p, q, p, r>>, <<p, p, p, q>>}
=============================================================================
