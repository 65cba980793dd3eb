------------------------- MODULE SubscriptionStatus -------------------------
(* The statuses of licenses, hosts and accounts (internal/subscription). *)

Statuses ==
  {"APPROVED", "PENDING", "BLOCKED", "FAILED", "REJECTED", "REGISTERED", "REVOKED"}

(* The part of a status that decides whether verify.php honours a license. *)
ActiveStatus(status) == status \notin {"REVOKED", "BLOCKED", "REJECTED", "FAILED"}
=============================================================================
