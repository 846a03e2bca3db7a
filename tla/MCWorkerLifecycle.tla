------------------------- MODULE MCWorkerLifecycle -------------------------
(***************************************************************************)
(* Small instances of WorkerLifecycle for TLC.                             *)
(***************************************************************************)
EXTENDS WorkerLifecycle, TLC

(* What WorkerJobSchema declares, and the fake worker of the tests sends.  *)
ContractReply == {"jobId", "idempotencyKey", "workflowId", "workflowVersion",
                  "state", "progressPercent", "message", "comfyPromptId",
                  "artifacts", "errorCode", "createdAt", "updatedAt"}

(* What worker/gateway.mjs sends: the stored record as it is.              *)
GatewayReply == ContractReply \cup {"parameters", "inputAssets"}

Interchangeable == UNION {Permutations(Job), Permutations(Lease), Permutations(Caller \ {Timer})}
=============================================================================
