---------------------------- MODULE PsciContract ----------------------------
(***************************************************************************)
(* What the PSCI functions promise the operating system about a CPU: how   *)
(* the state that AFFINITY_INFO returns and the place where the CPU        *)
(* executes may change together.                                           *)
(***************************************************************************)
CONSTANT CPUs

VARIABLES aff,   \* what AFFINITY_INFO returns for each CPU
          where  \* each CPU is in the normal world, in firmware or down

Place(c, from, to) == where[c] = from /\ where' = [where EXCEPT ![c] = to]
Info(c, from, to) == aff[c] = from /\ aff' = [aff EXCEPT ![c] = to]

Init == /\ aff \in [CPUs -> {"ON", "OFF"}]
        /\ where = [c \in CPUs |-> IF aff[c] = "ON" THEN "normal" ELSE "down"]

Call(c) == Place(c, "normal", "firmware") /\ UNCHANGED aff

(* Only a CPU that is ON enters the normal world.                          *)
Return(c) == aff[c] = "ON" /\ Place(c, "firmware", "normal") /\ UNCHANGED aff

(* CPU_ON succeeds only for a CPU that is off and down.                    *)
TurnOn(c, t) == /\ where[c] = "firmware" /\ where[t] = "down"
                /\ Info(t, "OFF", "ON_PENDING") /\ UNCHANGED where

(* The platform could not start it; it has never run.                      *)
TurnOnFails(c, t) == /\ where[c] = "firmware" /\ where[t] = "down"
                     /\ Info(t, "ON_PENDING", "OFF") /\ UNCHANGED where

(* A CPU starts only when it was turned on or had suspended.               *)
Start(c) == aff[c] # "OFF" /\ Place(c, "down", "firmware") /\ UNCHANGED aff

Arrive(c) == where[c] = "firmware" /\ Info(c, "ON_PENDING", "ON")
               /\ UNCHANGED where

TurnOff(c) == Place(c, "firmware", "down") /\ Info(c, "ON", "OFF")

Suspend(c) == aff[c] = "ON" /\ Place(c, "firmware", "down") /\ UNCHANGED aff

Next == \E c \in CPUs :
          \/ Call(c) \/ Return(c) \/ Start(c) \/ Arrive(c)
          \/ TurnOff(c) \/ Suspend(c)
          \/ \E t \in CPUs : TurnOn(c, t) \/ TurnOnFails(c, t)

Spec == Init /\ [][Next]_<<aff, where>>
=============================================================================
