-------------------------------- MODULE Lock --------------------------------
(***************************************************************************)
(* What a caller of bakery_lock_get / bakery_lock_release relies on: a CPU *)
(* that asks for the lock waits, at most one CPU holds it, and only the    *)
(* holder gives it back.  No order of service is promised here; that every *)
(* waiting CPU is served is the fairness conjunct of FairSpec.             *)
(***************************************************************************)
CONSTANT CPUs

VARIABLE status

Init == status = [c \in CPUs |-> "idle"]

Request(c) == /\ status[c] = "idle"
              /\ status' = [status EXCEPT ![c] = "waiting"]

Grant(c) == /\ status[c] = "waiting"
            /\ \A d \in CPUs : status[d] # "holding"
            /\ status' = [status EXCEPT ![c] = "holding"]

Release(c) == /\ status[c] = "holding"
              /\ status' = [status EXCEPT ![c] = "idle"]

Next == \E c \in CPUs : Request(c) \/ Grant(c) \/ Release(c)

Spec == Init /\ [][Next]_status

(* A waiting CPU is not passed over for ever.                              *)
FairSpec == Spec /\ \A c \in CPUs : SF_status(Grant(c))
=============================================================================
