--------------------------- MODULE AtomicRegistry ---------------------------
(***************************************************************************)
(* What registry.Store promises its callers, without files and locks: one  *)
(* registry, which each mutation changes in one step, once or not at all,  *)
(* and which a reader sees as it is at one moment of its call.             *)
(*                                                                         *)
(* A registry is the sequence of the mutations that made it out of the     *)
(* empty one: two registries differ as soon as a mutation is missing from  *)
(* one of them, or was applied in another order.                           *)
(***************************************************************************)
EXTENDS Sequences

CONSTANTS Mutations,   \* calls of Store.mutate, each by a goroutine or a CLI process
          Readers      \* goroutines and CLI processes that call Store.Load

VARIABLES registry,    \* the registry
          fate,        \* what became of each mutation
          seen         \* what each reader read last

vars == <<registry, fate, seen>>

Init ==
  /\ registry = << >>
  /\ fate = [m \in Mutations |-> "waiting"]
  /\ seen = [r \in Readers |-> << >>]

Apply(m) ==
  /\ fate[m] = "waiting"
  /\ fate' = [fate EXCEPT ![m] = "applied"]
  /\ registry' = Append(registry, m)
  /\ UNCHANGED seen

(* The mutation was rejected, an access failed, or its process died. *)
GiveUp(m) ==
  /\ fate[m] = "waiting"
  /\ fate' = [fate EXCEPT ![m] = "failed"]
  /\ UNCHANGED <<registry, seen>>

Look(r) ==
  /\ seen' = [seen EXCEPT ![r] = registry]
  /\ UNCHANGED <<registry, fate>>

Next ==
  \/ \E m \in Mutations : Apply(m) \/ GiveUp(m)
  \/ \E r \in Readers : Look(r)

Spec == Init /\ [][Next]_vars
=============================================================================
