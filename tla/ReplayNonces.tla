---------------------------- MODULE ReplayNonces ----------------------------
(***************************************************************************)
(* acme.NonceStore (internal/acme/nonce.go) as operators on its map.  The  *)
(* code keeps the instant a nonce expires; here the store keeps the ticks  *)
(* left until then, and -1 once that instant has passed.                   *)
(***************************************************************************)
EXTENDS Integers

CONSTANTS Nonces,
          TTL,      \* lifetime of a nonce, in ticks
          Absent    \* a nonce that is not in the map

ASSUME NonceAssumption ==
  /\ TTL \in Nat \ {0}
  /\ Absent \notin Int

Stores == [Nonces -> (-1 .. TTL) \cup {Absent}]

NewNonceStore == [n \in Nonces |-> Absent]

(* Faulty variant: the comparison is the wrong way round. *)
GcLive(s) == [n \in Nonces |-> IF s[n] # Absent /\ s[n] > 0 THEN Absent ELSE s[n]]

(* gcLocked: drop what expired.  At the instant of expiry itself the nonce
   stays in the map, though Use no longer accepts it. *)
Gc(s) == [n \in Nonces |-> IF s[n] = -1 THEN Absent ELSE s[n]]

Issue(s, n) == [Gc(s) EXCEPT ![n] = TTL]

(* Use: whether the nonce is accepted, and what is left of the store. *)
Usable(s, n) == s[n] # Absent /\ s[n] > 0

(* Faulty variant of Use: an accepted nonce stays in the map. *)
UseKeeping(s, n) == s

Use(s, n) == [s EXCEPT ![n] = Absent]

(* One tick passes. *)
Elapse(s) == [n \in Nonces |-> IF s[n] = Absent \/ s[n] = -1 THEN s[n] ELSE s[n] - 1]
=============================================================================
