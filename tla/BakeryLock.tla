----------------------------- MODULE BakeryLock -----------------------------
(***************************************************************************)
(* The bakery lock of ARM Trusted Firmware that protects each power domain *)
(* (lib/locks/bakery/bakery_lock_coherent.c, the build default             *)
(* USE_COHERENT_MEM = 1).  One action is one access to the shared          *)
(* lock_data array or to the event register that wfe and sev use; between  *)
(* two actions of a CPU any other CPU may run.                             *)
(*                                                                         *)
(* A lock_data entry is a 16-bit word, bit 0 "choosing" and 15 bits of     *)
(* ticket: here a record, whose number is the ticket modulo MaxTicket + 1. *)
(* my_ticket is the unmasked local variable of bakery_lock_get.            *)
(***************************************************************************)
EXTENDS Integers, FiniteSets

CONSTANTS NCpus,     \* BAKERY_LOCK_MAX_CPUS
          MaxTicket  \* largest ticket that lock_data can hold, 0x7FFF

ASSUME NCpusAssumption == NCpus \in 1 .. 256
ASSUME MaxTicketAssumption == MaxTicket \in Nat \ {0}

VARIABLES lock_data,   \* per CPU: choosing flag and ticket number
          event,       \* the CPUs whose event register is set
          pc,          \* per CPU: where it is in the code
          they,        \* per CPU: loop variable of the two scans
          my_ticket,   \* per CPU: local, 0 outside bakery_lock_get
          their_ticket \* per CPU: local, the ticket it waits on

vars == <<lock_data, event, pc, they, my_ticket, their_ticket>>

CPUs == 0 .. NCpus - 1

CHOOSING_TICKET == 1
CHOSEN_TICKET == 0

Entry == [choosing : {0, 1}, number : 0 .. MaxTicket]

MakeBakeryData(choosing, number) ==
  [choosing |-> choosing, number |-> number % (MaxTicket + 1)]

(* (t << 8) | pos, with pos < 256                                          *)
Priority(t, pos) == t * 256 + pos

Init == /\ lock_data = [c \in CPUs |-> MakeBakeryData(CHOSEN_TICKET, 0)]
        /\ event = {}
        /\ pc = [c \in CPUs |-> "idle"]
        /\ they = [c \in CPUs |-> 0]
        /\ my_ticket = [c \in CPUs |-> 0]
        /\ their_ticket = [c \in CPUs |-> 0]

Goto(me, label) == pc' = [pc EXCEPT ![me] = label]

-----------------------------------------------------------------------------
(* bakery_get_ticket                                                       *)

StartChoosing(me) ==
  /\ pc[me] = "idle"
  /\ Goto(me, "scan")
  /\ lock_data' = [lock_data EXCEPT ![me] = MakeBakeryData(CHOOSING_TICKET, 0)]
  /\ they' = [they EXCEPT ![me] = 0]
  /\ UNCHANGED <<event, my_ticket, their_ticket>>

(* Mutant: the scan for the largest ticket stops one CPU early.            *)
ReadTicket_SkipsLast(me) ==
  /\ pc[me] = "scan"
  /\ they[me] < NCpus
  /\ LET t == IF they[me] = NCpus - 1 THEN 0 ELSE lock_data[they[me]].number
     IN  my_ticket' = [my_ticket EXCEPT ![me] = IF t > @ THEN t ELSE @]
  /\ they' = [they EXCEPT ![me] = @ + 1]
  /\ UNCHANGED <<lock_data, event, pc, their_ticket>>

(* Mutant: the ticket is incremented inside the loop.                      *)
ReadTicket_IncrementsEachTime(me) ==
  /\ pc[me] = "scan"
  /\ they[me] < NCpus
  /\ LET t == lock_data[they[me]].number
     IN  my_ticket' = [my_ticket EXCEPT ![me] = IF t >= @ THEN t + 1 ELSE @]
  /\ they' = [they EXCEPT ![me] = @ + 1]
  /\ UNCHANGED <<lock_data, event, pc, their_ticket>>

(* One iteration of the loop over all CPUs, the caller included.           *)
ReadTicket(me) ==
  /\ pc[me] = "scan"
  /\ they[me] < NCpus
  /\ LET t == lock_data[they[me]].number
     IN  my_ticket' = [my_ticket EXCEPT ![me] = IF t > @ THEN t ELSE @]
  /\ they' = [they EXCEPT ![me] = @ + 1]
  /\ UNCHANGED <<lock_data, event, pc, their_ticket>>

TakeTicket(me) ==
  /\ pc[me] = "scan"
  /\ they[me] = NCpus
  /\ Goto(me, "wait")
  /\ my_ticket' = [my_ticket EXCEPT ![me] = @ + 1]
  /\ lock_data' = [lock_data EXCEPT
                     ![me] = MakeBakeryData(CHOSEN_TICKET, my_ticket[me] + 1)]
  /\ they' = [they EXCEPT ![me] = 0]
  /\ UNCHANGED <<event, their_ticket>>

-----------------------------------------------------------------------------
(* bakery_lock_get, the loop over the other contenders                     *)

SkipSelf(me) ==
  /\ pc[me] = "wait"
  /\ they[me] = me
  /\ they' = [they EXCEPT ![me] = @ + 1]
  /\ UNCHANGED <<lock_data, event, pc, my_ticket, their_ticket>>

(* Mutant: equal tickets are not told apart by the CPU position.           *)
MustWait_TicketOnly(me, t) == t # 0 /\ t < my_ticket[me]

MustWait(me, t) ==
  t # 0 /\ Priority(t, they[me]) < Priority(my_ticket[me], me)

(* Mutant: no wait while the other CPU is choosing.                        *)
Compare_NoChoosingWait(me) ==
  /\ pc[me] = "wait"
  /\ they[me] < NCpus
  /\ they[me] # me
  /\ LET t == lock_data[they[me]].number IN
       \/ /\ MustWait(me, t)
          /\ Goto(me, "wfe")
          /\ their_ticket' = [their_ticket EXCEPT ![me] = t]
          /\ they' = they
       \/ /\ ~MustWait(me, t)
          /\ they' = [they EXCEPT ![me] = @ + 1]
          /\ UNCHANGED <<pc, their_ticket>>
  /\ UNCHANGED <<lock_data, event, my_ticket>>

(* The read that ends the do-while on the choosing flag; the same word     *)
(* gives the ticket the priorities are compared on.                        *)
Compare(me) ==
  /\ pc[me] = "wait"
  /\ they[me] < NCpus
  /\ they[me] # me
  /\ lock_data[they[me]].choosing = CHOSEN_TICKET
  /\ LET t == lock_data[they[me]].number IN
       \/ /\ MustWait(me, t)
          /\ Goto(me, "wfe")
          /\ their_ticket' = [their_ticket EXCEPT ![me] = t]
          /\ they' = they
       \/ /\ ~MustWait(me, t)
          /\ they' = [they EXCEPT ![me] = @ + 1]
          /\ UNCHANGED <<pc, their_ticket>>
  /\ UNCHANGED <<lock_data, event, my_ticket>>

(* wfe returns when the event register is set, and clears it.              *)
WakeUp(me) ==
  /\ pc[me] = "wfe"
  /\ me \in event
  /\ Goto(me, "recheck")
  /\ event' = event \ {me}
  /\ UNCHANGED <<lock_data, they, my_ticket, their_ticket>>

(* The architecture lets wfe complete without an event.                    *)
SpuriousWakeUp(me) ==
  /\ pc[me] = "wfe"
  /\ me \notin event
  /\ Goto(me, "recheck")
  /\ UNCHANGED <<lock_data, event, they, my_ticket, their_ticket>>

(* Mutant: any wake-up ends the wait.                                      *)
Recheck_OnceOnly(me) ==
  /\ pc[me] = "recheck"
  /\ Goto(me, "wait")
  /\ they' = [they EXCEPT ![me] = @ + 1]
  /\ their_ticket' = [their_ticket EXCEPT ![me] = 0]
  /\ UNCHANGED <<lock_data, event, my_ticket>>

Recheck(me) ==
  /\ pc[me] = "recheck"
  /\ \/ /\ lock_data[they[me]].number = their_ticket[me]
        /\ Goto(me, "wfe")
        /\ UNCHANGED <<they, their_ticket>>
     \/ /\ lock_data[they[me]].number # their_ticket[me]
        /\ Goto(me, "wait")
        /\ they' = [they EXCEPT ![me] = @ + 1]
        /\ their_ticket' = [their_ticket EXCEPT ![me] = 0]
  /\ UNCHANGED <<lock_data, event, my_ticket>>

Acquired(me) ==
  /\ pc[me] = "wait"
  /\ they[me] = NCpus
  /\ Goto(me, "held")
  /\ UNCHANGED <<lock_data, event, they, my_ticket, their_ticket>>

-----------------------------------------------------------------------------
(* bakery_lock_release: reset the ticket, then sev                         *)

(* Mutant: the release forgets the lock_data entry.                        *)
ResetTicket_KeepsEntry(me) ==
  /\ pc[me] = "held"
  /\ Goto(me, "sev")
  /\ my_ticket' = [my_ticket EXCEPT ![me] = 0]
  /\ they' = [they EXCEPT ![me] = 0]
  /\ UNCHANGED <<lock_data, event, their_ticket>>

ResetTicket(me) ==
  /\ pc[me] = "held"
  /\ Goto(me, "sev")
  /\ lock_data' = [lock_data EXCEPT ![me] = MakeBakeryData(CHOSEN_TICKET, 0)]
  /\ my_ticket' = [my_ticket EXCEPT ![me] = 0]
  /\ they' = [they EXCEPT ![me] = 0]
  /\ UNCHANGED <<event, their_ticket>>

(* Mutant: the release sends no event.                                     *)
SendEvent_Missing(me) ==
  /\ pc[me] = "sev"
  /\ Goto(me, "idle")
  /\ UNCHANGED <<lock_data, event, they, my_ticket, their_ticket>>

SendEvent(me) ==
  /\ pc[me] = "sev"
  /\ Goto(me, "idle")
  /\ event' = CPUs
  /\ UNCHANGED <<lock_data, they, my_ticket, their_ticket>>

-----------------------------------------------------------------------------
(* Every step of a CPU that is inside bakery_lock_get or                   *)
(* bakery_lock_release and is not asleep.                                  *)
Run(me) == \/ ReadTicket(me) \/ TakeTicket(me)
           \/ SkipSelf(me) \/ Compare(me) \/ WakeUp(me) \/ Recheck(me)
           \/ Acquired(me)
           \/ ResetTicket(me) \/ SendEvent(me)

Next == \E me \in CPUs : StartChoosing(me) \/ Run(me) \/ SpuriousWakeUp(me)

Spec == Init /\ [][Next]_vars

(* The code takes tickets without looking at their width.  Calm is what    *)
(* its callers have to provide for: nobody starts an acquisition while a   *)
(* ticket in the last NCpus values is outstanding.                         *)
Calm == \A c \in CPUs : my_ticket[c] + NCpus <= MaxTicket

CalmNext == \E me \in CPUs : \/ Calm /\ StartChoosing(me)
                             \/ Run(me)
                             \/ SpuriousWakeUp(me)

CalmSpec == Init /\ [][CalmNext]_vars

(* Each CPU keeps executing; the holder releases the lock.                 *)
Fairness == \A c \in CPUs : WF_vars(Run(c))

FairSpec == CalmSpec /\ Fairness

-----------------------------------------------------------------------------
Waiting == {"wait", "wfe", "recheck"}

(* Types, the position of the loop variable, and the two assertions that   *)
(* need no argument: a CPU outside the lock has no ticket                  *)
(* (bakery_lock_coherent.c:73), and a CPU that chooses shows no ticket.    *)
TypeOK ==
  /\ lock_data \in [CPUs -> Entry]
  /\ event \subseteq CPUs
  /\ pc \in [CPUs -> {"idle", "scan", "wait", "wfe", "recheck", "held", "sev"}]
  /\ they \in [CPUs -> 0 .. NCpus]
  /\ my_ticket \in [CPUs -> 0 .. MaxTicket + 1]
  /\ their_ticket \in [CPUs -> 0 .. MaxTicket]
  /\ \A c \in CPUs :
       /\ pc[c] \in {"wfe", "recheck"} => they[c] \in CPUs \ {c}
       /\ pc[c] \in {"idle", "scan", "sev"} => lock_data[c].number = 0
       /\ pc[c] \in {"idle", "sev"} => my_ticket[c] = 0
       /\ pc[c] = "scan" => my_ticket[c] <= MaxTicket
       /\ lock_data[c].choosing = CHOOSING_TICKET <=> pc[c] = "scan"

(* At most one CPU is between bakery_lock_get and bakery_lock_release.     *)
MutualExclusion ==
  \A c, d \in CPUs : pc[c] = "held" /\ pc[d] = "held" => c = d

(* "The CPU with the highest priority (lowest numerical value) acquires    *)
(* the lock" (bakery_lock_coherent.c:112): the holder comes before every   *)
(* CPU that has a ticket and still waits.                                  *)
HolderHasPriority ==
  \A c, d \in CPUs :
    pc[c] = "held" /\ pc[d] \in Waiting
      => Priority(my_ticket[c], c) < Priority(my_ticket[d], d)

(* What bakery_lock_get says of the ticket it sleeps on                    *)
(* (bakery_lock_coherent.c:149-152): it stays, drops to 0, or comes back   *)
(* behind our own; a release and a new acquisition between two looks at it *)
(* never put that CPU in front again.                                      *)
AwaitedTicket ==
  \A c \in CPUs :
    LET t == lock_data[they[c]].number IN
    pc[c] \in {"wfe", "recheck"}
      => \/ t \in {their_ticket[c], 0}
         \/ Priority(my_ticket[c], c) < Priority(t, they[c])

(* The unmasked ticket always fits the 15 bits of lock_data, so what other *)
(* CPUs read is what the owner compares with.                              *)
TicketFits == \A c \in CPUs : my_ticket[c] <= MaxTicket

(* The assertion of bakery_lock_release: the holder's ticket is not 0.     *)
ReleaseAssert == \A c \in CPUs : pc[c] = "held" => lock_data[c].number # 0

(* Every CPU that starts bakery_lock_get returns from it.                  *)
StarvationFree == \A c \in CPUs : pc[c] = "scan" ~> pc[c] = "held"

(* The lock as its callers see it.                                         *)
Status(label) == IF label \in {"idle", "sev"} THEN "idle"
                 ELSE IF label = "held" THEN "holding" ELSE "waiting"

StatusMap == [c \in CPUs |-> Status(pc[c])]

L == INSTANCE Lock WITH status <- StatusMap

(* Step by step the bakery lock does nothing a lock would not do.          *)
ImplementsLock == L!Spec
=============================================================================
