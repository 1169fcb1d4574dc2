-------------------------- MODULE BinarySemaphores --------------------------
(***************************************************************************)
(* What an application relies on when it signals and awaits binary         *)
(* semaphores: a signal needs every semaphore it names to be unsignaled, a *)
(* wait needs every one to have a signal, pending or arrived, and takes    *)
(* it.  SemaphoreEmulation implements this.                                *)
(***************************************************************************)
CONSTANT Semaphores

VARIABLE payload    \* what each semaphore is; "none" before it is created

Init == payload = [s \in Semaphores |-> "none"]

Change(S, old, new) ==
    /\ S # {} /\ \A s \in S : payload[s] \in old
    /\ payload' = [s \in Semaphores |-> IF s \in S THEN new ELSE payload[s]]

Create  == \E s \in Semaphores : Change({s}, {"none"}, "unsignaled")
Destroy == \E s \in Semaphores : Change({s}, {"unsignaled", "pending", "signaled"}, "none")
Signal  == \E S \in SUBSET Semaphores, new \in {"pending", "signaled"} :
               Change(S, {"unsignaled"}, new)
Arrive  == \E S \in SUBSET Semaphores : Change(S, {"pending"}, "signaled")
Wait    == \E S \in SUBSET Semaphores : Change(S, {"pending", "signaled"}, "unsignaled")

Next == Create \/ Destroy \/ Signal \/ Arrive \/ Wait

Spec == Init /\ [][Next]_payload
=============================================================================
