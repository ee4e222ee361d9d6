---------------------------- MODULE TaskService ----------------------------
(* What a task queue of the server promises to the threads that use it,    *)
(* with no queue, no lock and no thread in it.  Every request gets exactly *)
(* one fate: it is refused, run, or discarded because it came too late.    *)
(* Dispatcher.tla is shown to implement this specification.                *)
EXTENDS Integers

CONSTANT MaxTasks      \* how many requests are ever made

Requests == 1..MaxTasks

Fates == {"unknown", "pending", "late", "ran", "discarded", "refused"}

VARIABLES
  fate,     \* Requests -> Fates
  phase     \* "open", then "closed" (no new work), then "draining"

vars == <<fate, phase>>

TypeOK == /\ fate \in [Requests -> Fates]
          /\ phase \in {"open", "closed", "draining"}

Init == /\ fate = [r \in Requests |-> "unknown"]
        /\ phase = "open"

Become(r, from, to) == /\ fate[r] = from
                       /\ fate' = [fate EXCEPT ![r] = to]
                       /\ UNCHANGED phase

\* Work is taken in exactly while the service is open.
Submit(r)  == phase = "open" /\ Become(r, "unknown", "pending")
Refuse(r)  == phase # "open" /\ Become(r, "unknown", "refused")

\* The deadline of a request that waits passes.
Expire(r)  == Become(r, "pending", "late")

Run(r)     == Become(r, "pending", "ran")

\* Late work is thrown away, but a service that drains runs it all the same.
Discard(r) == phase # "draining" /\ Become(r, "late", "discarded")
RunLate(r) == phase = "draining" /\ Become(r, "late", "ran")

Close == phase = "open" /\ phase' = "closed" /\ UNCHANGED fate
Drain == phase = "closed" /\ phase' = "draining" /\ UNCHANGED fate

Next == \/ \E r \in Requests : \/ Submit(r) \/ Refuse(r) \/ Expire(r)
                               \/ Run(r) \/ Discard(r) \/ RunLate(r)
        \/ Close
        \/ Drain

Spec == Init /\ [][Next]_vars
=============================================================================
