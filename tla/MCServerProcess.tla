--------------------------- MODULE MCServerProcess ---------------------------
(* A finite instance of ServerProcess.  Five certificates are one more than can
   be in use at once. *)
EXTENDS ServerProcess

CONSTANTS c1, c2, c3, c4, c5, r1, r2

(* The balancer notices a server that died before the supervisor starts it again:
   restarts too quick to be noticed are not explored. *)
Missed == inPool /\ ~clean => pc = "down"

(* The fifth certificate, needed when the other four differ, may be generated,
   but neither saved nor served. *)
FourServed == c5 \notin {dir.crt, dir.key, trusted}
=============================================================================
