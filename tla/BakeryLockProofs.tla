-------------------------- MODULE BakeryLockProofs --------------------------
(***************************************************************************)
(* Mutual exclusion of the bakery lock for every number of CPUs and every  *)
(* ticket width.                                                           *)
(***************************************************************************)
EXTENDS BakeryLock, FiniteSetTheorems, TLAPS

Choosing == {c \in CPUs : pc[c] = "scan"}

(* Each CPU that still chooses can raise the largest ticket by one, and    *)
(* there is room for all of them.                                          *)
Room == \A c \in CPUs : my_ticket[c] + Cardinality(Choosing) <= MaxTicket

(* A CPU with a ticket shows it unmasked and it is not 0; the ticket a CPU *)
(* sleeps on is not 0.                                                     *)
Shown == \A c \in CPUs :
           /\ pc[c] \in Waiting \cup {"held"} =>
                my_ticket[c] # 0 /\ lock_data[c].number = my_ticket[c]
           /\ pc[c] \in {"wfe", "recheck"} => their_ticket[c] # 0

(* c needs nothing more from d: it is past d in its loop, holds the lock,  *)
(* or sleeps on a ticket that d no longer has.                             *)
Passed(c, d) ==
  \/ pc[c] = "held"
  \/ pc[c] \in Waiting /\ they[c] > d
  \/ /\ pc[c] \in {"wfe", "recheck"}
     /\ they[c] = d
     /\ lock_data[d].number # their_ticket[c]

(* d is not, and will not get, in front of c.                              *)
Behind(d, c) ==
  \/ pc[d] \in {"idle", "sev"}
  \/ pc[d] = "scan" /\ (they[d] <= c \/ my_ticket[d] >= my_ticket[c])
  \/ /\ pc[d] \in Waiting
     /\ they[d] <= c
     /\ Priority(my_ticket[c], c) < Priority(my_ticket[d], d)

Order == \A c, d \in CPUs : c # d /\ Passed(c, d) => Behind(d, c)

(* The inductive invariant.                                                *)
IInv == TypeOK /\ Room /\ Shown /\ Order
-----------------------------------------------------------------------------
(* Packing a flag and a ticket into the 16-bit word: the ticket is masked, *)
(* and comes back unchanged when it fits.                                  *)
LEMMA EntryFacts ==
  /\ \A e \in Entry : e.choosing \in {0, 1} /\ e.number \in 0 .. MaxTicket
  /\ \A b \in {0, 1}, n \in Nat :
       MakeBakeryData(b, n) \in Entry /\ MakeBakeryData(b, n).choosing = b
  /\ \A b \in {0, 1}, n \in 0 .. MaxTicket : MakeBakeryData(b, n).number = n
<1>1. \A n \in Nat : n % (MaxTicket + 1) \in 0 .. MaxTicket
  BY MaxTicketAssumption
<1>2. \A n \in 0 .. MaxTicket : n % (MaxTicket + 1) = n
  BY MaxTicketAssumption
<1> QED
  BY <1>1, <1>2, MaxTicketAssumption DEF Entry, MakeBakeryData

(* CPUs are numbered from 0 to NCpus - 1.                                  *)
LEMMA CpuFacts ==
  /\ NCpus \in Nat
  /\ \A c \in CPUs : c \in 0 .. 255 /\ c \in 0 .. NCpus /\ c < NCpus
  /\ \A n \in 0 .. NCpus : n < NCpus => n \in CPUs
  BY NCpusAssumption DEF CPUs

(* Priorities of two different CPUs are never equal, whatever the tickets: *)
(* the CPU number breaks the tie.                                          *)
LEMMA PriorityTotal ==
  ASSUME NEW t \in Nat, NEW u \in Nat, NEW p \in 0 .. 255, NEW q \in 0 .. 255,
         p # q, ~(Priority(u, q) < Priority(t, p))
  PROVE  Priority(t, p) < Priority(u, q)
<1>1. CASE t < u
  BY <1>1 DEF Priority
<1>2. CASE t = u
  BY <1>2 DEF Priority
<1>3. CASE t > u
  BY <1>3 DEF Priority
<1> QED
  BY <1>1, <1>2, <1>3

(* Every step of the lock keeps the types, and with them the assertion of  *)
(* bakery_get_ticket that a CPU has no ticket when it asks for one,        *)
(* whatever the width of the tickets.                                      *)
LEMMA TypeStep == TypeOK /\ [Next]_vars => TypeOK'
<1> USE CpuFacts, EntryFacts, MaxTicketAssumption
    DEF Goto, CHOOSING_TICKET, CHOSEN_TICKET
<1> SUFFICES ASSUME TypeOK, [Next]_vars PROVE TypeOK'
  OBVIOUS
<1>1. ASSUME NEW me \in CPUs, StartChoosing(me) PROVE TypeOK'
  BY <1>1 DEF StartChoosing, TypeOK
<1>2. ASSUME NEW me \in CPUs, ReadTicket(me) PROVE TypeOK'
  BY <1>2 DEF ReadTicket, TypeOK
<1>3. ASSUME NEW me \in CPUs, TakeTicket(me) PROVE TypeOK'
  BY <1>3 DEF TakeTicket, TypeOK
<1>4. ASSUME NEW me \in CPUs, SkipSelf(me) PROVE TypeOK'
  BY <1>4 DEF SkipSelf, TypeOK
<1>5. ASSUME NEW me \in CPUs, Compare(me) PROVE TypeOK'
  <2>0. they[me] \in CPUs \ {me}
    BY <1>5 DEF Compare, TypeOK
  <2>1. CASE MustWait(me, lock_data[they[me]].number)
    <3>1. /\ pc' = [pc EXCEPT ![me] = "wfe"]
          /\ their_ticket' =
               [their_ticket EXCEPT ![me] = lock_data[they[me]].number]
          /\ UNCHANGED <<lock_data, event, they, my_ticket>>
          /\ pc[me] = "wait"
      BY <1>5, <2>1 DEF Compare
    <3> QED
      BY <2>0, <3>1 DEF TypeOK
  <2>2. CASE ~MustWait(me, lock_data[they[me]].number)
    <3>1. /\ they' = [they EXCEPT ![me] = they[me] + 1]
          /\ UNCHANGED <<lock_data, event, pc, my_ticket, their_ticket>>
          /\ pc[me] = "wait"
      BY <1>5, <2>2 DEF Compare
    <3> QED
      BY <2>0, <3>1 DEF TypeOK
  <2> QED
    BY <2>1, <2>2
<1>6. ASSUME NEW me \in CPUs, WakeUp(me) PROVE TypeOK'
  BY <1>6 DEF WakeUp, TypeOK
<1>7. ASSUME NEW me \in CPUs, SpuriousWakeUp(me) PROVE TypeOK'
  BY <1>7 DEF SpuriousWakeUp, TypeOK
<1>8. ASSUME NEW me \in CPUs, Recheck(me) PROVE TypeOK'
  <2>0. they[me] \in CPUs \ {me}
    BY <1>8 DEF Recheck, TypeOK
  <2>1. CASE lock_data[they[me]].number = their_ticket[me]
    <3>1. /\ pc[me] = "recheck"
          /\ pc' = [pc EXCEPT ![me] = "wfe"]
          /\ UNCHANGED <<lock_data, event, they, my_ticket, their_ticket>>
      BY <1>8, <2>1 DEF Recheck
    <3> QED
      BY <2>0, <3>1 DEF TypeOK
  <2>2. CASE lock_data[they[me]].number # their_ticket[me]
    <3>1. /\ pc[me] = "recheck"
          /\ pc' = [pc EXCEPT ![me] = "wait"]
          /\ they' = [they EXCEPT ![me] = they[me] + 1]
          /\ their_ticket' = [their_ticket EXCEPT ![me] = 0]
          /\ UNCHANGED <<lock_data, event, my_ticket>>
      BY <1>8, <2>2 DEF Recheck
    <3> QED
      BY <2>0, <3>1 DEF TypeOK
  <2> QED
    BY <2>1, <2>2
<1>9. ASSUME NEW me \in CPUs, Acquired(me) PROVE TypeOK'
  BY <1>9 DEF Acquired, TypeOK
<1>10. ASSUME NEW me \in CPUs, ResetTicket(me) PROVE TypeOK'
  BY <1>10 DEF ResetTicket, TypeOK
<1>11. ASSUME NEW me \in CPUs, SendEvent(me) PROVE TypeOK'
  BY <1>11 DEF SendEvent, TypeOK
<1>12. CASE UNCHANGED vars
  BY <1>12 DEF vars, TypeOK
<1> QED
  BY <1>1, <1>2, <1>3, <1>4, <1>5, <1>6, <1>7, <1>8, <1>9, <1>10, <1>11,
     <1>12 DEF Next, Run

(* The types hold in every behaviour of the code, wrapping tickets         *)
(* included.                                                               *)
THEOREM TypeCorrect == Spec => []TypeOK
<1>1. Init => TypeOK
  BY CpuFacts, EntryFacts, MaxTicketAssumption
  DEF Init, TypeOK, CHOOSING_TICKET, CHOSEN_TICKET
<1> QED
  BY <1>1, TypeStep, PTL DEF Spec
-----------------------------------------------------------------------------
(* With room left, every ticket fits, and so does the one a chooser is     *)
(* about to take.                                                          *)
LEMMA RoomFits ==
  ASSUME TypeOK, Room, NEW c \in CPUs
  PROVE  my_ticket[c] <= MaxTicket /\ (pc[c] = "scan" => my_ticket[c] < MaxTicket)
<1>1. IsFiniteSet(CPUs)
  BY FS_Interval, NCpusAssumption DEF CPUs
<1>2. IsFiniteSet(Choosing) /\ Cardinality(Choosing) \in Nat
  BY <1>1, FS_Subset, FS_CardinalityType DEF Choosing
<1>3. pc[c] = "scan" => Cardinality(Choosing) # 0
  BY <1>2, FS_EmptySet DEF Choosing
<1> QED
  BY <1>2, <1>3, MaxTicketAssumption DEF TypeOK, Room

(* Taking one ticket uses up one chooser's worth of room: the tickets stay *)
(* within the 15 bits as long as nobody starts in the last NCpus values.   *)
LEMMA RoomStep == TypeOK /\ Shown /\ Room /\ [CalmNext]_vars => Room'
<1> USE CpuFacts, EntryFacts, MaxTicketAssumption
    DEF Goto, CHOOSING_TICKET, CHOSEN_TICKET
<1> SUFFICES ASSUME TypeOK, Shown, Room, [CalmNext]_vars PROVE Room'
  OBVIOUS
<1>0. /\ IsFiniteSet(CPUs) /\ Cardinality(CPUs) = NCpus
      /\ IsFiniteSet(Choosing) /\ Cardinality(Choosing) \in Nat
      /\ IsFiniteSet(Choosing') /\ Cardinality(Choosing') \in Nat
      /\ Cardinality(Choosing') <= NCpus
  <2>1. IsFiniteSet(CPUs) /\ Cardinality(CPUs) = NCpus
    BY FS_Interval, NCpusAssumption DEF CPUs
  <2>2. Choosing \subseteq CPUs /\ Choosing' \subseteq CPUs
    BY DEF Choosing
  <2> QED
    BY <2>1, <2>2, FS_Subset, FS_CardinalityType
<1>1. ASSUME NEW me \in CPUs, Calm, StartChoosing(me) PROVE Room'
  BY <1>0, <1>1 DEF Calm, StartChoosing, Room, TypeOK
<1>2. ASSUME NEW me \in CPUs, ReadTicket(me) PROVE Room'
  <2>1. Choosing' = Choosing
    BY <1>2 DEF ReadTicket, Choosing
  <2>2. ASSUME NEW c \in CPUs PROVE lock_data[c].number <= my_ticket[c]
    <3>1. pc[c] \in Waiting \cup {"held"} \/ pc[c] \in {"idle", "scan", "sev"}
      BY DEF TypeOK, Waiting
    <3> QED
      BY <3>1 DEF TypeOK, Shown
  <2> QED
    BY <1>0, <1>2, <2>1, <2>2 DEF ReadTicket, Room, TypeOK
<1>3. ASSUME NEW me \in CPUs, TakeTicket(me) PROVE Room'
  <2>1. me \in Choosing /\ Choosing' = Choosing \ {me}
    BY <1>3 DEF TakeTicket, Choosing, TypeOK
  <2>2. Cardinality(Choosing') = Cardinality(Choosing) - 1
    BY <1>0, <2>1, FS_RemoveElement
  <2> QED
    BY <1>0, <1>3, <2>2 DEF TakeTicket, Room, TypeOK
<1>4. ASSUME NEW me \in CPUs, ResetTicket(me) PROVE Room'
  <2>1. Choosing' = Choosing
    BY <1>4 DEF ResetTicket, Choosing, TypeOK
  <2> QED
    BY <1>0, <1>4, <2>1 DEF ResetTicket, Room, TypeOK
<1>5. ASSUME UNCHANGED my_ticket, Choosing' = Choosing PROVE Room'
  BY <1>0, <1>5 DEF Room
<1>6. ASSUME NEW me \in CPUs,
             \/ SkipSelf(me) \/ Compare(me) \/ WakeUp(me)
             \/ SpuriousWakeUp(me) \/ Recheck(me) \/ Acquired(me)
             \/ SendEvent(me)
      PROVE  Room'
  <2>1. UNCHANGED my_ticket /\ Choosing' = Choosing
    BY <1>6 DEF SkipSelf, Compare, WakeUp, SpuriousWakeUp, Recheck, Acquired,
                SendEvent, Choosing, TypeOK
  <2> QED
    BY <1>5, <2>1
<1>7. CASE UNCHANGED vars
  BY <1>5, <1>7 DEF vars, Choosing
<1> QED
  BY <1>1, <1>2, <1>3, <1>4, <1>6, <1>7 DEF CalmNext, Run
-----------------------------------------------------------------------------
(* What a contender shows in lock_data is the ticket it compares with.     *)
LEMMA ShownStep == TypeOK /\ Shown /\ Room /\ [CalmNext]_vars => Shown'
<1> USE CpuFacts, EntryFacts, MaxTicketAssumption
    DEF Goto, CHOOSING_TICKET, CHOSEN_TICKET, Waiting
<1> SUFFICES ASSUME TypeOK, Shown, Room, [CalmNext]_vars PROVE Shown'
  OBVIOUS
<1>1. ASSUME NEW me \in CPUs, StartChoosing(me) PROVE Shown'
  BY <1>1 DEF StartChoosing, TypeOK, Shown
<1>2. ASSUME NEW me \in CPUs, ReadTicket(me) PROVE Shown'
  BY <1>2 DEF ReadTicket, TypeOK, Shown
<1>3. ASSUME NEW me \in CPUs, TakeTicket(me) PROVE Shown'
  <2>1. my_ticket[me] + 1 \in 0 .. MaxTicket
    BY <1>3, RoomFits DEF TakeTicket, TypeOK
  <2>2. lock_data'[me].number = my_ticket[me] + 1
    BY <1>3, <2>1 DEF TakeTicket, TypeOK
  <2> QED
    BY <1>3, <2>1, <2>2 DEF TakeTicket, TypeOK, Shown
<1>4. ASSUME NEW me \in CPUs, SkipSelf(me) PROVE Shown'
  BY <1>4 DEF SkipSelf, TypeOK, Shown
<1>5. ASSUME NEW me \in CPUs, Compare(me) PROVE Shown'
  <2>1. CASE MustWait(me, lock_data[they[me]].number)
    <3>1. /\ pc' = [pc EXCEPT ![me] = "wfe"]
          /\ their_ticket' =
               [their_ticket EXCEPT ![me] = lock_data[they[me]].number]
          /\ UNCHANGED <<lock_data, my_ticket>>
          /\ pc[me] = "wait"
      BY <1>5, <2>1 DEF Compare
    <3>2. lock_data[they[me]].number # 0
      BY <2>1 DEF MustWait
    <3> QED
      BY <3>1, <3>2 DEF TypeOK, Shown
  <2>2. CASE ~MustWait(me, lock_data[they[me]].number)
    BY <1>5, <2>2 DEF Compare, Shown
  <2> QED
    BY <2>1, <2>2
<1>6. ASSUME NEW me \in CPUs, WakeUp(me) PROVE Shown'
  BY <1>6 DEF WakeUp, TypeOK, Shown
<1>7. ASSUME NEW me \in CPUs, SpuriousWakeUp(me) PROVE Shown'
  BY <1>7 DEF SpuriousWakeUp, TypeOK, Shown
<1>8. ASSUME NEW me \in CPUs, Recheck(me) PROVE Shown'
  BY <1>8 DEF Recheck, TypeOK, Shown
<1>9. ASSUME NEW me \in CPUs, Acquired(me) PROVE Shown'
  BY <1>9 DEF Acquired, TypeOK, Shown
<1>10. ASSUME NEW me \in CPUs, ResetTicket(me) PROVE Shown'
  BY <1>10 DEF ResetTicket, TypeOK, Shown
<1>11. ASSUME NEW me \in CPUs, SendEvent(me) PROVE Shown'
  BY <1>11 DEF SendEvent, TypeOK, Shown
<1>12. CASE UNCHANGED vars
  BY <1>12 DEF vars, Shown
<1> QED
  BY <1>1, <1>2, <1>3, <1>4, <1>5, <1>6, <1>7, <1>8, <1>9, <1>10, <1>11,
     <1>12 DEF CalmNext, Run

(* Nobody overtakes: the heart of the argument.  A CPU c that is past d in *)
(* its loop stays in front of d until it releases the lock.                *)
LEMMA OrderStep == IInv /\ TypeOK' /\ Shown' /\ [CalmNext]_vars => Order'
<1> USE DEF Goto, CHOOSING_TICKET, CHOSEN_TICKET, Waiting
<1> SUFFICES ASSUME TypeOK, Shown, Order, TypeOK', Shown', [CalmNext]_vars,
                    NEW c \in CPUs, NEW d \in CPUs, c # d, Passed(c, d)'
             PROVE  Behind(d, c)'
  BY DEF IInv, Order
<1> c \in 0 .. 255 /\ d \in 0 .. 255 /\ NCpus \in Nat /\ c < NCpus /\ d < NCpus
  BY CpuFacts
<1>1. ASSUME NEW me \in CPUs, StartChoosing(me) PROVE Behind(d, c)'
  BY <1>1 DEF StartChoosing, TypeOK, Shown, Order, Passed, Behind, Priority
<1>2. ASSUME NEW me \in CPUs, ReadTicket(me) PROVE Behind(d, c)'
  <2>1. Passed(c, d) /\ me # c
    BY <1>2 DEF ReadTicket, Passed, TypeOK
  <2>2. Behind(d, c)
    BY <2>1 DEF Order
  <2>3. CASE me = d
    <3>1. pc[c] \in Waiting \cup {"held"} /\ lock_data[c].number = my_ticket[c]
      BY <2>1 DEF Passed, Shown
    <3>2. CASE they[d] = c
      BY <1>2, <2>3, <3>1, <3>2 DEF ReadTicket, TypeOK, Behind
    <3>3. CASE they[d] # c
      <4>1. /\ pc[d] = "scan" /\ pc' = pc
            /\ they'[d] = they[d] + 1 /\ they[d] \in Nat
            /\ my_ticket'[d] >= my_ticket[d] /\ my_ticket'[c] = my_ticket[c]
            /\ my_ticket[d] \in Nat /\ my_ticket'[d] \in Nat
            /\ my_ticket[c] \in Nat
        BY <1>2, <2>1, <2>3 DEF ReadTicket, TypeOK
      <4> QED
        BY <2>2, <3>3, <4>1 DEF Behind
    <3> QED
      BY <3>2, <3>3
  <2>4. CASE me # d
    BY <1>2, <2>1, <2>2, <2>4 DEF ReadTicket, TypeOK, Behind
  <2> QED
    BY <2>3, <2>4
<1>3. ASSUME NEW me \in CPUs, TakeTicket(me) PROVE Behind(d, c)'
  <2>1. CASE me = c
    BY <1>3, <2>1 DEF TakeTicket, TypeOK, Passed
  <2>2. CASE me # c
    <3>1. Passed(c, d)
      BY <1>3, <2>2 DEF TakeTicket, TypeOK, Shown, Passed
    <3>2. Behind(d, c)
      BY <3>1 DEF Order
    <3>3. CASE me = d
      <4>1. /\ pc'[d] = "wait" /\ they'[d] = 0
            /\ my_ticket'[c] = my_ticket[c] /\ my_ticket[c] \in Nat
            /\ my_ticket'[d] = my_ticket[d] + 1 /\ my_ticket[d] \in Nat
            /\ my_ticket[d] >= my_ticket[c]
        BY <1>3, <2>2, <3>2, <3>3 DEF TakeTicket, TypeOK, Behind
      <4> QED
        BY <4>1 DEF Behind, Priority
    <3>4. CASE me # d
      BY <1>3, <2>2, <3>2, <3>4 DEF TakeTicket, TypeOK, Behind, Priority
    <3> QED
      BY <3>3, <3>4
  <2> QED
    BY <2>1, <2>2
<1>4. ASSUME NEW me \in CPUs, SkipSelf(me) PROVE Behind(d, c)'
  <2>1. /\ UNCHANGED <<lock_data, pc, my_ticket, their_ticket>>
        /\ pc[me] = "wait" /\ they[me] = me
        /\ they' = [they EXCEPT ![me] = me + 1]
    BY <1>4 DEF SkipSelf
  <2>2. Passed(c, d)
    BY <2>1 DEF Passed, TypeOK
  <2>3. Behind(d, c)
    BY <2>2 DEF Order
  <2>4. CASE me = d
    BY <2>1, <2>3, <2>4 DEF Behind, TypeOK
  <2>5. CASE me # d
    BY <2>1, <2>3, <2>5 DEF Behind, TypeOK, Priority
  <2> QED
    BY <2>4, <2>5
<1>5. ASSUME NEW me \in CPUs, Compare(me) PROVE Behind(d, c)'
  <2>0. /\ pc[me] = "wait" /\ they[me] \in CPUs \ {me}
        /\ lock_data[they[me]].choosing = 0
        /\ UNCHANGED <<lock_data, my_ticket>>
    BY <1>5, CpuFacts DEF Compare, TypeOK
  <2>1. CASE MustWait(me, lock_data[they[me]].number)
    <3>1. /\ pc' = [pc EXCEPT ![me] = "wfe"] /\ they' = they
          /\ their_ticket' =
               [their_ticket EXCEPT ![me] = lock_data[they[me]].number]
      BY <1>5, <2>1 DEF Compare
    <3>2. Passed(c, d)
      BY <2>0, <3>1 DEF Passed, TypeOK
    <3>3. Behind(d, c)
      BY <3>2 DEF Order
    <3> QED
      BY <2>0, <3>1, <3>3 DEF Behind, TypeOK, Priority
  <2>2. CASE ~MustWait(me, lock_data[they[me]].number)
    <3>1. /\ UNCHANGED <<pc, their_ticket>>
          /\ they' = [they EXCEPT ![me] = they[me] + 1]
      BY <1>5, <2>2 DEF Compare
    <3>2. CASE me = c /\ they[c] = d
      <4>1. pc[d] # "scan"
        BY <2>0, <3>2 DEF TypeOK
      <4>2. CASE pc[d] \in {"idle", "sev"}
        BY <3>1, <4>2 DEF Behind
      <4>3. CASE pc[d] \in Waiting \cup {"held"}
        <5>1. ~(Priority(my_ticket[d], d) < Priority(my_ticket[c], c))
          BY <2>2, <3>2, <4>3, Zenon DEF MustWait, Shown
        <5>2. Priority(my_ticket[c], c) < Priority(my_ticket[d], d)
          <6>1. my_ticket[c] \in Nat /\ my_ticket[d] \in Nat
            BY MaxTicketAssumption DEF TypeOK
          <6> QED
            BY <5>1, <6>1, PriorityTotal, Zenon
        <5>3. ~Passed(d, c)
          BY <2>0, <3>2, <5>2 DEF Order, Behind, Priority, TypeOK
        <5>4. pc[d] \in Waiting /\ they[d] <= c
          BY <4>3, <5>3 DEF Passed, TypeOK
        <5> QED
          BY <2>0, <3>1, <3>2, <5>2, <5>4 DEF Behind, TypeOK
      <4> QED
        BY <4>1, <4>2, <4>3 DEF TypeOK
    <3>3. CASE ~(me = c /\ they[c] = d)
      <4>1. Passed(c, d)
        BY <2>0, <3>1, <3>3 DEF Passed, TypeOK
      <4>2. Behind(d, c)
        BY <4>1 DEF Order
      <4>3. CASE me = d /\ they[d] = c
        <5>1. pc[c] \in Waiting \cup {"held"}
          BY <4>1 DEF Passed
        <5>2. /\ Priority(my_ticket[c], c) < Priority(my_ticket[d], d)
              /\ lock_data[c].number = my_ticket[c] /\ my_ticket[c] # 0
          BY <2>0, <4>2, <4>3, <5>1, Zenon DEF Behind, Shown
        <5> QED
          BY <2>2, <4>3, <5>2 DEF MustWait
      <4>4. CASE ~(me = d /\ they[d] = c)
        BY <2>0, <3>1, <4>2, <4>4 DEF Behind, TypeOK, Priority
      <4> QED
        BY <4>3, <4>4
    <3> QED
      BY <3>2, <3>3
  <2> QED
    BY <2>1, <2>2
<1>6. ASSUME NEW me \in CPUs, WakeUp(me) PROVE Behind(d, c)'
  BY <1>6 DEF WakeUp, TypeOK, Shown, Order, Passed, Behind, Priority
<1>7. ASSUME NEW me \in CPUs, SpuriousWakeUp(me) PROVE Behind(d, c)'
  BY <1>7 DEF SpuriousWakeUp, TypeOK, Shown, Order, Passed, Behind, Priority
<1>8. ASSUME NEW me \in CPUs, Recheck(me) PROVE Behind(d, c)'
  <2>0. /\ pc[me] = "recheck" /\ they[me] \in CPUs \ {me}
        /\ UNCHANGED <<lock_data, my_ticket>>
    BY <1>8 DEF Recheck, TypeOK
  <2>1. CASE lock_data[they[me]].number = their_ticket[me]
    <3>1. pc' = [pc EXCEPT ![me] = "wfe"] /\ UNCHANGED <<they, their_ticket>>
      BY <1>8, <2>1 DEF Recheck
    <3>2. Passed(c, d)
      BY <2>0, <3>1 DEF Passed, TypeOK
    <3>3. Behind(d, c)
      BY <3>2 DEF Order
    <3> QED
      BY <2>0, <3>1, <3>3 DEF Behind, TypeOK, Priority
  <2>2. CASE lock_data[they[me]].number # their_ticket[me]
    <3>1. /\ pc' = [pc EXCEPT ![me] = "wait"]
          /\ they' = [they EXCEPT ![me] = they[me] + 1]
          /\ their_ticket' = [their_ticket EXCEPT ![me] = 0]
      BY <1>8, <2>2 DEF Recheck
    <3>2. Passed(c, d)
      BY <2>0, <2>2, <3>1 DEF Passed, TypeOK
    <3>3. Behind(d, c)
      BY <3>2 DEF Order
    <3>4. CASE me = d /\ they[d] = c
      <4>1. Passed(d, c)
        BY <2>0, <2>2, <3>4 DEF Passed
      <4>2. Behind(c, d)
        BY <4>1 DEF Order
      <4>3. pc[c] \in Waiting \cup {"held"}
        BY <3>2 DEF Passed
      <4> QED
        BY <2>0, <3>3, <3>4, <4>2, <4>3 DEF Behind, Priority, TypeOK
    <3>5. CASE ~(me = d /\ they[d] = c)
      BY <2>0, <3>1, <3>3, <3>5 DEF Behind, TypeOK, Priority
    <3> QED
      BY <3>4, <3>5
  <2> QED
    BY <2>1, <2>2
<1>9. ASSUME NEW me \in CPUs, Acquired(me) PROVE Behind(d, c)'
  BY <1>9 DEF Acquired, TypeOK, Shown, Order, Passed, Behind, Priority
<1>10. ASSUME NEW me \in CPUs, ResetTicket(me) PROVE Behind(d, c)'
  BY <1>10 DEF ResetTicket, TypeOK, Shown, Order, Passed, Behind, Priority
<1>11. ASSUME NEW me \in CPUs, SendEvent(me) PROVE Behind(d, c)'
  BY <1>11 DEF SendEvent, TypeOK, Shown, Order, Passed, Behind, Priority
<1>12. CASE UNCHANGED vars
  BY <1>12 DEF vars, Order, Passed, Behind, Priority
<1> QED
  BY <1>1, <1>2, <1>3, <1>4, <1>5, <1>6, <1>7, <1>8, <1>9, <1>10, <1>11,
     <1>12 DEF CalmNext, Run
-----------------------------------------------------------------------------
(* The inductive invariant holds in every calm behaviour.                  *)
LEMMA Invariance == CalmSpec => []IInv
<1>1. Init => IInv
  <2> SUFFICES ASSUME Init PROVE IInv
    OBVIOUS
  <2>1. TypeOK /\ Shown /\ Order
    BY CpuFacts, EntryFacts, MaxTicketAssumption
    DEF Init, TypeOK, Shown, Order, Passed, Waiting, CHOOSING_TICKET,
        CHOSEN_TICKET
  <2>2. Choosing = {}
    BY DEF Init, Choosing
  <2>3. Room
    BY <2>2, FS_EmptySet, MaxTicketAssumption DEF Init, Room
  <2> QED
    BY <2>1, <2>3 DEF IInv
<1>2. IInv /\ [CalmNext]_vars => IInv'
  <2> SUFFICES ASSUME IInv, [CalmNext]_vars PROVE IInv'
    OBVIOUS
  <2>1. [Next]_vars
    BY DEF CalmNext, Next
  <2>2. TypeOK' /\ Room' /\ Shown'
    BY <2>1, TypeStep, RoomStep, ShownStep DEF IInv
  <2> QED
    BY <2>2, OrderStep DEF IInv
<1> QED
  BY <1>1, <1>2, PTL DEF CalmSpec

(* Mutual exclusion: at most one CPU is between bakery_lock_get and        *)
(* bakery_lock_release, for every number of CPUs and every ticket width.   *)
THEOREM Mutex == CalmSpec => []MutualExclusion
<1>1. IInv => MutualExclusion
  BY DEF IInv, Order, Passed, Behind, MutualExclusion, Waiting
<1> QED
  BY <1>1, Invariance, PTL

(* The holder is the contender with the highest priority.                  *)
THEOREM Priorities == CalmSpec => []HolderHasPriority
<1>1. IInv => HolderHasPriority
  BY DEF IInv, Order, Passed, Behind, HolderHasPriority, Waiting
<1> QED
  BY <1>1, Invariance, PTL

(* A CPU that gives up the lock and takes it again while another one       *)
(* sleeps on its old ticket comes back behind the sleeper.                 *)
THEOREM Awaited == CalmSpec => []AwaitedTicket
<1>1. IInv => AwaitedTicket
  <2> SUFFICES ASSUME IInv, NEW c \in CPUs, pc[c] \in {"wfe", "recheck"},
                      lock_data[they[c]].number \notin {their_ticket[c], 0}
               PROVE  Priority(my_ticket[c], c)
                        < Priority(lock_data[they[c]].number, they[c])
    BY DEF AwaitedTicket
  <2>1. they[c] \in CPUs /\ they[c] # c
    BY DEF IInv, TypeOK
  <2>2. Behind(they[c], c)
    BY <2>1 DEF IInv, Order, Passed
  <2> QED
    BY <2>1, <2>2 DEF Behind, IInv, TypeOK, Shown
<1> QED
  BY <1>1, Invariance, PTL

(* NCpus spare ticket values are enough for the masked tickets never to    *)
(* differ from the unmasked ones.                                          *)
THEOREM Fits == CalmSpec => []TicketFits
<1>1. IInv => TicketFits
  BY RoomFits DEF IInv, TicketFits
<1> QED
  BY <1>1, Invariance, PTL

(* The bakery lock implements the abstract lock: each of its steps is a    *)
(* request, a grant while nobody holds the lock, a release by the holder,  *)
(* or invisible to the callers.                                            *)
THEOREM Refinement == CalmSpec => ImplementsLock
<1>1. Init => L!Init
  BY DEF Init, L!Init, StatusMap, Status
<1>2. IInv /\ IInv' /\ [CalmNext]_vars => [L!Next]_StatusMap
  <2> SUFFICES ASSUME TypeOK, TypeOK', MutualExclusion', [CalmNext]_vars
               PROVE  [L!Next]_StatusMap
    BY DEF IInv, Order, Passed, Behind, MutualExclusion, Waiting
  <2> USE DEF Goto, StatusMap, Status, TypeOK
  <2>0. ASSUME NEW me \in CPUs, NEW label, Goto(me, label)
        PROVE  StatusMap' = [StatusMap EXCEPT ![me] = Status(label)]
    BY <2>0, Zenon
  <2>1. ASSUME NEW me \in CPUs, StartChoosing(me) PROVE L!Request(me)
    <3>1. StatusMap[me] = "idle" /\ Goto(me, "scan")
      BY <2>1 DEF StartChoosing
    <3>2. StatusMap' = [StatusMap EXCEPT ![me] = Status("scan")]
      BY <2>0, <3>1, Zenon
    <3>3. Status("scan") = "waiting"
      OBVIOUS
    <3> HIDE DEF StatusMap, Status
    <3> QED
      BY <3>1, <3>2, <3>3, Zenon DEF L!Request
  <2>2. ASSUME NEW me \in CPUs, Acquired(me) PROVE L!Grant(me)
    <3>1. StatusMap[me] = "waiting" /\ Goto(me, "held")
      BY <2>2 DEF Acquired
    <3>2. ASSUME NEW d \in CPUs, pc[d] = "held" PROVE FALSE
      <4>1. d # me
        BY <2>2, <3>2 DEF Acquired
      <4>2. pc'[d] = "held" /\ pc'[me] = "held"
        BY <2>2, <3>2, <4>1 DEF Acquired
      <4> QED
        BY <4>1, <4>2 DEF MutualExclusion
    <3>3. \A d \in CPUs : StatusMap[d] # "holding"
      BY <3>2
    <3> QED
      BY <2>0, <3>1, <3>3, Zenon DEF L!Grant
  <2>3. ASSUME NEW me \in CPUs, ResetTicket(me) PROVE L!Release(me)
    <3>1. StatusMap[me] = "holding" /\ Goto(me, "sev")
      BY <2>3 DEF ResetTicket
    <3> QED
      BY <2>0, <3>1, Zenon DEF L!Release
  <2>4. ASSUME NEW me \in CPUs,
               \/ ReadTicket(me) \/ TakeTicket(me) \/ SkipSelf(me)
               \/ Compare(me) \/ WakeUp(me) \/ SpuriousWakeUp(me)
               \/ Recheck(me) \/ SendEvent(me)
        PROVE  UNCHANGED StatusMap
    BY <2>4 DEF ReadTicket, TakeTicket, SkipSelf, Compare, WakeUp,
                SpuriousWakeUp, Recheck, SendEvent
  <2>5. CASE UNCHANGED vars
    BY <2>5 DEF vars
  <2> QED
    BY <2>1, <2>2, <2>3, <2>4, <2>5 DEF CalmNext, Run, L!Next
<1> QED
  BY <1>1, <1>2, Invariance, PTL DEF CalmSpec, ImplementsLock, L!Spec
=============================================================================
