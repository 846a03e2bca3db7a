----------------------------- MODULE LeaseAudit -----------------------------
(***************************************************************************)
(* What the application promises about rented workers, one lease at a      *)
(* time: a lease is reserved before anything is rented for it, it rents at *)
(* most one worker, and it is closed only when that worker has ended.      *)
(* WorkerLifecycle implements this specification.                          *)
(***************************************************************************)
CONSTANT Lease

VARIABLES reserved,  \* leases written on a job
          billing,   \* leases whose worker may be running or starting
          ended,     \* leases whose worker has run and stopped
          closed     \* leases recorded as closed

audit == <<reserved, billing, ended, closed>>

AuditInit == reserved = {} /\ billing = {} /\ ended = {} /\ closed = {}

Reserve(l) == /\ l \notin reserved
              /\ reserved' = reserved \cup {l}
              /\ UNCHANGED <<billing, ended, closed>>

Rent(l) == /\ l \in reserved \ (billing \cup ended \cup closed)
           /\ billing' = billing \cup {l}
           /\ UNCHANGED <<reserved, ended, closed>>

End(l) == /\ l \in billing
          /\ billing' = billing \ {l}
          /\ ended' = ended \cup {l}
          /\ UNCHANGED <<reserved, closed>>

Close(l) == /\ l \in (reserved \cap ended) \ closed
            /\ closed' = closed \cup {l}
            /\ UNCHANGED <<reserved, billing, ended>>

AuditNext == \E l \in Lease : Reserve(l) \/ Rent(l) \/ End(l) \/ Close(l)

AuditSpec == AuditInit /\ [][AuditNext]_audit
=============================================================================
