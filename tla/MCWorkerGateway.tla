--------------------------- MODULE MCWorkerGateway ---------------------------
(***************************************************************************)
(* Small instances of WorkerGateway for TLC.                               *)
(***************************************************************************)
EXTENDS WorkerGateway, TLC

Interchangeable == Permutations(Submission)
=============================================================================
