--------------------------- MODULE PsciBootProofs ---------------------------
(* The proofs of PsciPowerDomains that rest on the life of a CPU: the steps *)
(* of CPU_ON, the invariant, and the contract of the PSCI functions.        *)
EXTENDS PsciBootInvariant

-----------------------------------------------------------------------------
(* The end of the coordination and of the warm boot.                        *)

(* psci_set_target_local_pwr_states, the last step of the coordination.     *)
LEMMA SetTargetsInv ==
  ASSUME IInv, NEW c \in CPUs, SetTargets(c)
  PROVE  IInv'
<1> USE DEF SetTargets, SuspendToPwrdownStart, StartReleasing, Goto, IInv, TypeOK
<1>1. state_info[c] \in [0 .. MaxLvl -> LocalStates]
  BY DEF StateInfo
<1>2. cpu_state' \in [CPUs -> LocalStates] /\ node_state' \in [Nodes -> LocalStates]
  BY <1>1, TopologyAssumption DEF Levels
<1>3. end_pwrlvl[c] \in 0 .. PSCI_INVALID_PWR_LVL /\ end_pwrlvl[c] \in 0 .. MaxLvl + 1
  BY TopologyAssumption DEF PSCI_INVALID_PWR_LVL
<1>4. TypeOK' /\ Alone(c)
  BY <1>2, <1>3, Zenon DEF Labels, Alone, Same, locks
<1>5. CpuInv(c)'
  BY DEF CpuInv, PlaceInv, StateInv, ContextInv, CallerInv, ComingUp, Arriving, Resuming,
         Serving, PowerDowns
<1> QED
  BY <1>4, <1>5, Local, Zenon DEF locks, Serving

(* psci_set_pwr_domains_to_run, the last step of the warm boot: the CPU is  *)
(* ON.                                                                      *)
LEMMA SetPwrDomainsToRunInv ==
  ASSUME IInv, NEW c \in CPUs, SetPwrDomainsToRun(c)
  PROVE  IInv'
<1> USE DEF SetPwrDomainsToRun, StartReleasing, HasLocks, Goto, IInv, TypeOK
<1>1. node_state' \in [Nodes -> LocalStates] /\ cpu_state' \in [CPUs -> LocalStates]
  BY RunAndOff
<1>2. req' \in [Levels -> [CPUs -> LocalStates]]
  BY RunAndOff DEF RunVote
<1>3. end_pwrlvl[c] \in 0 .. MaxLvl + 1
  BY TopologyAssumption
<1>4. TypeOK' /\ Alone(c)
  BY <1>1, <1>2, <1>3 DEF Labels, Alone, Same, locks
<1>5. CpuInv(c)'
  BY DEF CpuInv, PlaceInv, StateInv, ContextInv, CallerInv, ComingUp, Arriving, Resuming,
         Serving, PowerDowns
<1> QED
  BY <1>4, <1>5, Local, Zenon DEF locks, Serving

(* One level of psci_do_state_coordination. It may raise a target above     *)
(* level 0, and it leaves what the CPU itself asked for.                    *)
LEMMA CoordinateLevelInv ==
  ASSUME IInv, NEW c \in CPUs, CoordinateLevel(c)
  PROVE  IInv'
<1> DEFINE l == lvl[c]
           asked == state_info[c]
           votes == {req[l][d] : d \in Span(c, l) \ {c}} \cup {asked[l]}
           state == plat_get_target_pwr_state(votes)
           stop == is_local_state_run(state)
           up(k) == stop /\ k > l /\ k <= end_pwrlvl[c]
<1>1. pc[c] = "coordinate" /\ l \in Levels /\ l <= end_pwrlvl[c] /\ l \in 0 .. MaxLvl
  BY TopologyAssumption DEF CoordinateLevel, IInv, TypeOK, CpuInv, PlaceInv, Levels
<1>2. asked \in [0 .. MaxLvl -> LocalStates]
  BY DEF IInv, TypeOK, StateInfo
<1>3. state \in LocalStates
  <2>1. votes \in SUBSET LocalStates /\ votes # {}
    BY <1>1, <1>2 DEF IInv, TypeOK, Span
  <2> HIDE DEF votes
  <2> QED
    BY <2>1, MinOfStates DEF plat_get_target_pwr_state
<1>4. /\ req' = [k \in Levels |-> IF k = l \/ up(k)
                                   THEN [req[k] EXCEPT ![c] = asked[k]] ELSE req[k]]
      /\ state_info' = [state_info EXCEPT ![c] =
           [k \in 0 .. MaxLvl |-> IF k = l THEN state
                                  ELSE IF up(k) THEN AboveRun(asked[k]) ELSE asked[k]]]
      /\ lvl' = [lvl EXCEPT ![c] = IF stop THEN end_pwrlvl[c] + 1 ELSE @ + 1]
      /\ UNCHANGED <<aff, cpu_state, suspend_lvl, node_state, context, wake,
                     locks, pc, op, end_pwrlvl, target>>
  BY DEF CoordinateLevel
<1> HIDE DEF state, stop, asked
<1>5. TypeOK'
  <2>1. req' \in [Levels -> [CPUs -> LocalStates]]
    <3>1. \A k \in Levels : asked[k] \in LocalStates
      BY <1>2, TopologyAssumption DEF Levels
    <3> QED
      BY <1>4, <3>1 DEF IInv, TypeOK
  <2>2. state_info' \in [CPUs -> StateInfo]
    <3> DEFINE new == [k \in 0 .. MaxLvl |-> IF k = l THEN state
                                  ELSE IF up(k) THEN AboveRun(asked[k]) ELSE asked[k]]
    <3>1. new \in StateInfo
      BY <1>2, <1>3, RunAndOff DEF StateInfo, AboveRun
    <3>2. state_info' = [state_info EXCEPT ![c] = new]
      BY <1>4
    <3> HIDE DEF new
    <3> QED
      BY <3>1, <3>2 DEF IInv, TypeOK
  <2>3. lvl' \in [CPUs -> 0 .. MaxLvl + 1]
    BY <1>1, <1>4, TopologyAssumption DEF IInv, TypeOK
  <2> QED
    BY <1>4, <2>1, <2>2, <2>3, Zenon DEF IInv, TypeOK, locks
<1>6. Alone(c)
  BY <1>4 DEF IInv, TypeOK, Alone, Same
<1>7. state_info'[c][0] = asked[0] /\ lvl'[c] >= 1
  BY <1>1, <1>4, TopologyAssumption DEF IInv, TypeOK, Levels
<1>8. CpuInv(c)'
  BY <1>1, <1>4, <1>7, Zenon DEF asked, IInv, TypeOK, CpuInv, PlaceInv, StateInv, ContextInv,
                        CallerInv, ComingUp, Arriving, Resuming,
         ContextOnItsWay, Serving, PowerDowns
<1> QED
  BY <1>1, <1>4, <1>5, <1>6, <1>8, Local, Zenon DEF locks, Serving

-----------------------------------------------------------------------------
(* CPU_ON                                                                   *)

(* The caller looks at the state of the target, or gives the lock back.     *)
LEMMA Looks ==
  ASSUME IInv, NEW c \in CPUs, SpinLockCpu(c) \/ OnRefused(c) \/ OnAccepted(c)
  PROVE  IInv'
<1> DEFINE t == target[c]
<1>1. t \in CPUs /\ \A d \in CPUs \ {c} : ~(pc[d] \in Serving /\ target[d] = t)
  <2>1. CallerInv(c)
    BY DEF IInv, CpuInv
  <2> QED
    BY <2>1, OneCaller, NobodyServes
       DEF SpinLockCpu, OnRefused, OnAccepted, CallerInv, Serving
<1> USE DEF Goto, IInv, TypeOK, shared, locals
<1>2. UNCHANGED <<shared, lock, locals>>
  BY DEF SpinLockCpu, OnRefused, OnAccepted, locks
<1>3. PICK label \in {"validate_state", "spin_unlock", "set_pending"} :
        /\ pc' = [pc EXCEPT ![c] = label]
        /\ label = "set_pending" => aff[t] = "OFF"
  BY DEF SpinLockCpu, OnRefused, OnAccepted, cpu_on_validate_state
<1>4. cpu_lock' = [cpu_lock EXCEPT ![t] = c] /\ pc[c] \in {"spin_lock", "validate_state"}
  BY <1>1 DEF SpinLockCpu, OnRefused, OnAccepted, locks, SpinInv, Serving
<1>5. TypeOK' /\ SpinInv'
  BY <1>1, <1>2, <1>3, <1>4, NobodyAssumption DEF Labels, SpinInv, Serving
<1>6. ASSUME NEW d \in CPUs PROVE CpuInv(d)'
  <2>1. PlaceInv(d)' /\ StateInv(d)'
    BY <1>2, <1>3, <1>4 DEF CpuInv, PlaceInv, StateInv, ComingUp
  <2>2. ContextInv(d)' /\ CallerInv(d)'
    BY <1>1, <1>2, <1>3, <1>4
       DEF CpuInv, StateInv, ContextInv, ContextOnItsWay, Arriving, Resuming, ComingUp,
           CallerInv, Serving
  <2> QED
    BY <2>1, <2>2 DEF CpuInv
<1> QED
  BY <1>5, <1>6

(* The caller changes the state of the target, which is down.               *)
LEMMA TurnsOn ==
  ASSUME IInv, NEW c \in CPUs, OnPending(c) \/ PwrDomainOn(c) \/ PwrDomainOnFails(c)
  PROVE  IInv'
<1> USE DEF Goto, IInv, TypeOK, locks, locals
<1> DEFINE t == target[c]
<1>1. t \in CPUs /\ \A d \in CPUs \ {c} : ~(pc[d] \in Serving /\ target[d] = t)
  BY OneCaller
     DEF OnPending, PwrDomainOn, PwrDomainOnFails, CpuInv, CallerInv, Serving
<1>2. pc[t] = "down" /\ t # c /\ t \notin wake /\ UNCHANGED <<cpu_state, context, locks, locals>>
  BY <1>1 DEF OnPending, PwrDomainOn, PwrDomainOnFails, CpuInv, StateInv, CallerInv
<1>3. PICK label \in {"pwr_domain_on", "init_context", "spin_unlock"} :
        /\ pc' = [pc EXCEPT ![c] = label]
        /\ label = "init_context" => wake' = wake \cup {t} /\ aff' = aff /\ aff[t] = "ON_PENDING"
        /\ label = "pwr_domain_on" => wake' = wake /\ aff' = [aff EXCEPT ![t] = "ON_PENDING"]
        /\ label = "spin_unlock" => wake' = wake /\ aff' = [aff EXCEPT ![t] = "OFF"]
  BY DEF OnPending, PwrDomainOn, PwrDomainOnFails, CpuInv, CallerInv
<1>4. pc[c] \in {"set_pending", "pwr_domain_on"} /\ UNCHANGED <<suspend_lvl, node_state, req>>
  BY DEF OnPending, PwrDomainOn, PwrDomainOnFails
<1>5. TypeOK' /\ SpinInv'
  BY <1>1, <1>2, <1>3, <1>4 DEF Labels, SpinInv, Serving
<1>6. ASSUME NEW d \in CPUs PROVE CpuInv(d)'
  <2>1. PlaceInv(d)' /\ StateInv(d)'
    BY <1>1, <1>2, <1>3, <1>4 DEF CpuInv, PlaceInv, StateInv, ComingUp
  <2>2. ContextInv(d)'
    BY <1>1, <1>2, <1>3, <1>4
       DEF CpuInv, PlaceInv, StateInv, ContextInv, ContextOnItsWay, Arriving, Resuming, ComingUp
  <2>3. CallerInv(d)'
    BY <1>1, <1>2, <1>3, <1>4 DEF CpuInv, StateInv, CallerInv, Serving
  <2> QED
    BY <2>1, <2>2, <2>3 DEF CpuInv
<1> QED
  BY <1>5, <1>6

(* cm_init_context_by_index: the target, which may already run, has its     *)
(* context.                                                                 *)
LEMMA InitContextInv ==
  ASSUME IInv, NEW c \in CPUs, InitContext(c)
  PROVE  IInv'
<1> USE DEF InitContext, Goto
<1> DEFINE t == target[c]
<1>1. t \in CPUs /\ \A d \in CPUs \ {c} : ~(pc[d] \in Serving /\ target[d] = t)
  BY OneCaller, NobodyAssumption, Zenon DEF IInv, CpuInv, CallerInv, Serving, SpinInv, SpinIsFree
<1>2. TypeOK'
  BY <1>1, NCpusAssumption DEF IInv, TypeOK, Labels, shared, locks, locals
<1>3. SpinInv'
  BY <1>1, NobodyAssumption DEF IInv, TypeOK, SpinInv, SpinIsFree, Serving, shared, locks, locals
<1>5. ASSUME NEW d \in CPUs PROVE CpuInv(d)'
  <2>1. PlaceInv(d)' /\ StateInv(d)'
    BY <1>1 DEF IInv, TypeOK, CpuInv, PlaceInv, StateInv, ComingUp, shared, locks, locals
  <2>2. ContextInv(d)'
    BY <1>1 DEF IInv, TypeOK, CpuInv, PlaceInv, StateInv, ContextInv, ContextOnItsWay, Arriving,
                Resuming, ComingUp, shared, locks, locals
  <2>3. CallerInv(d)'
    BY <1>1 DEF IInv, TypeOK, CpuInv, StateInv, CallerInv, Serving, shared, locks, locals
  <2> QED
    BY <2>1, <2>2, <2>3 DEF CpuInv
<1> QED
  BY <1>2, <1>3, <1>5 DEF IInv

(* The end of psci_cpu_on_start: the target has its context, or it was      *)
(* never started.                                                           *)
LEMMA SpinUnlockCpuInv ==
  ASSUME IInv, NEW c \in CPUs, SpinUnlockCpu(c)
  PROVE  IInv'
<1> USE DEF SpinUnlockCpu, Return
<1> DEFINE t == target[c]
<1>1. t \in CPUs /\ \A d \in CPUs \ {c} : ~(pc[d] \in Serving /\ target[d] = t)
  BY OneCaller DEF IInv, CpuInv, CallerInv, Serving
<1>2. TypeOK'
  <2>1. LocalTypes'
    BY ForgetTypes DEF IInv, Labels
  <2> QED
    BY <1>1, <2>1, Zenon DEF IInv, TypeOK, LocalTypes, shared
<1> USE DEF Goto, Forget, shared
<1>3. SpinInv'
  BY <1>1, NobodyAssumption DEF IInv, TypeOK, SpinInv, Serving
<1>4. \A d \in CPUs : ContextOnItsWay(d) => ContextOnItsWay(d)'
  BY DEF ContextOnItsWay, IInv, TypeOK
<1>5. ASSUME NEW d \in CPUs PROVE CpuInv(d)'
  <2>1. PlaceInv(d)' /\ StateInv(d)'
    BY Zenon DEF IInv, TypeOK, CpuInv, PlaceInv, StateInv, ComingUp
  <2>2. ContextInv(d)'
    BY <1>4, Zenon DEF IInv, TypeOK, CpuInv, PlaceInv, StateInv, ContextInv, Arriving,
                Resuming, ComingUp
  <2>3. CallerInv(d)'
    BY SMTT(30) DEF IInv, TypeOK, CpuInv, StateInv, CallerInv, Serving
  <2> QED
    BY <2>1, <2>2, <2>3 DEF CpuInv
<1> QED
  BY <1>2, <1>3, <1>5 DEF IInv

(* The target leaves the power controller; no caller is before the hook any *)
(* more.                                                                    *)
LEMMA PowerUpInv ==
  ASSUME IInv, NEW c \in CPUs, PowerUp(c)
  PROVE  IInv'
<1> USE DEF PowerUp, Goto
<1>1. aff[c] = "ON_PENDING" /\ op[c] = "none"
  BY DEF IInv, CpuInv, StateInv, PlaceInv
<1>2. TypeOK'
  BY DEF IInv, TypeOK, Labels, locks, locals
<1> USE DEF locks, locals
<1>3. SpinInv'
  BY DEF IInv, TypeOK, SpinInv, Serving
<1>4. \A d \in CPUs : ContextOnItsWay(d) => ContextOnItsWay(d)'
  BY DEF ContextOnItsWay, IInv, TypeOK
<1>5. ASSUME NEW d \in CPUs PROVE CpuInv(d)'
  <2>1. PlaceInv(d)' /\ StateInv(d)'
    BY <1>1 DEF IInv, TypeOK, CpuInv, PlaceInv, StateInv, ComingUp
  <2>2. ContextInv(d)'
    BY <1>1, <1>4 DEF IInv, TypeOK, CpuInv, PlaceInv, StateInv, ContextInv, Arriving,
                      Resuming, ComingUp
  <2>3. CallerInv(d)'
    BY DEF IInv, TypeOK, CpuInv, CallerInv, Serving
  <2> QED
    BY <2>1, <2>2, <2>3 DEF CpuInv
<1> QED
  BY <1>2, <1>3, <1>5 DEF IInv

-----------------------------------------------------------------------------
(* psci_setup leaves every CPU but the primary one down, without a caller.  *)
LEMMA Initial == Init => IInv
<1> SUFFICES ASSUME Init PROVE IInv
  OBVIOUS
<1> USE DEF Init
<1>1. TypeOK
  <2>1. LocalTypes
    BY NCpusAssumption, TopologyAssumption, AllLevelsType DEF LocalTypes, Labels, Operations
  <2>2. suspend_lvl \in [CPUs -> 0 .. PSCI_INVALID_PWR_LVL]
    BY RunAndOff
  <2> QED
    BY <2>1, <2>2, RunAndOff DEF TypeOK, LocalTypes
<1>2. SpinInv
  BY NobodyAssumption DEF SpinInv, Serving
<1>3. ASSUME NEW c \in CPUs PROVE CpuInv(c)
  BY DEF CpuInv, PlaceInv, StateInv, ContextInv, CallerInv, ComingUp, Arriving, Resuming,
         Serving
<1> QED
  BY <1>1, <1>2, <1>3 DEF IInv

(* Every step of every CPU keeps the invariant.                             *)
LEMMA Invariance == IInv /\ [Next]_vars => IInv'
<1> SUFFICES ASSUME IInv, [Next]_vars PROVE IInv'
  OBVIOUS
<1>1. CASE UNCHANGED vars
  BY <1>1 DEF vars, shared, locks, locals, IInv, TypeOK, SpinInv, CpuInv, PlaceInv,
              StateInv, ContextInv, CallerInv, ComingUp, Arriving, Resuming,
              ContextOnItsWay
<1>2. ASSUME NEW c \in CPUs, AcquireLock(c) \/ Firmware(c) \/ Environment(c)
      PROVE  IInv'
  BY <1>2, StartsLocking, Ends, Decides, Moves, CpuOnFinishInv, Standby, SetTargetsInv,
     SetPwrDomainsToRunInv, CoordinateLevelInv, Looks, TurnsOn, InitContextInv,
     SpinUnlockCpuInv, PowerUpInv DEF Firmware, Environment
<1> QED
  BY <1>1, <1>2 DEF Next

(* The inductive invariant of the life of a CPU holds for every topology,   *)
(* every set of platform states and every choice of calls.                  *)
THEOREM LifeOfCpu == Spec => []IInv
BY Initial, Invariance, PTL DEF Spec

(* The types of the shared state and of the locals of the handlers.         *)
THEOREM TypeCorrect == Spec => []TypeOK
<1>1. IInv => TypeOK
  BY DEF IInv
<1> QED
  BY <1>1, LifeOfCpu, PTL

(* No assertion of lib/psci fails and no CPU boots with its aff_info_state  *)
(* OFF (psci_common.c:743).                                                 *)
THEOREM NeverPanics == Spec => []NoPanic
<1>1. IInv => NoPanic
  BY Zenon DEF IInv, CpuInv, PlaceInv, NoPanic
<1> QED
  BY <1>1, LifeOfCpu, PTL

(* A CPU leaves the warm boot by a context that was set up for it, although *)
(* psci_cpu_on_start starts it before it writes the context.                *)
THEOREM BootsWithContext == Spec => []ContextReady
<1>1. IInv => ContextReady
  BY Zenon DEF IInv, CpuInv, ContextInv, ContextReady
<1> QED
  BY <1>1, LifeOfCpu, PTL

-----------------------------------------------------------------------------
(* The handlers implement PsciContract.                                     *)

Region(label) == IF label = "ns" THEN "normal"
                 ELSE IF label \in {"down", "suspended"} THEN "down" ELSE "firmware"

(* A step of c moves c alone, from one region of the contract to another.   *)
LEMMA MovesRegion ==
  ASSUME TypeOK, NEW c \in CPUs, NEW label, Goto(c, label)
  PROVE  /\ Where' = [Where EXCEPT ![c] = Region(label)]
         /\ Where[c] = Region(pc[c])
         /\ Region(pc[c]) = Region(label) => Where' = Where
BY Zenon DEF TypeOK, Goto, Where, Region

(* A CPU that executes below the contract's boot is ON.                     *)
LEMMA ReturnsOn ==
  ASSUME IInv, NEW c \in CPUs,
         pc[c] \in {"standby", "is_last_on_cpu", "spin_unlock", "release"}
  PROVE  aff[c] = "ON"
BY DEF IInv, TypeOK, CpuInv, StateInv, ComingUp

(* Every step of a CPU is a step of the contract or leaves it as it is.     *)
LEMMA StepContract ==
  ASSUME IInv, NEW c \in CPUs, AcquireLock(c) \/ Firmware(c) \/ Environment(c)
  PROVE  [Contract!Next]_<<aff, Where>>
<1> USE DEF Region
<1>0. TypeOK /\ CallerInv(c) /\ \A d \in CPUs : StateInv(d)
  BY Zenon DEF IInv, CpuInv
<1>1. CASE CpuOff(c) \/ CpuSuspend(c) \/ CpuStandby(c) \/ SystemSuspend(c)
           \/ \E t \in CPUs : CpuOn(c, t)
  <2>1. aff' = aff /\ pc[c] = "ns"
        /\ \E label \in {"lock", "standby", "is_last_on_cpu", "spin_lock"} : Goto(c, label)
    BY <1>1, Zenon DEF CpuOff, CpuSuspend, CpuStandby, SystemSuspend, CpuOn, StartLocking, shared
  <2>2. Contract!Call(c)
    BY <2>1, <1>0, MovesRegion DEF Contract!Call, Contract!Place
  <2> QED
    BY <2>2 DEF Contract!Next
<1>2. CASE StandbyExit(c) \/ (IsLastOnCpu(c) /\ Return(c)) \/ SpinUnlockCpu(c)
           \/ BackToNormalWorld(c)
  <2>1. aff' = aff /\ Goto(c, "ns")
        /\ pc[c] \in {"standby", "is_last_on_cpu", "spin_unlock", "release"}
    BY <1>2 DEF StandbyExit, IsLastOnCpu, SpinUnlockCpu, BackToNormalWorld, Released,
                Return, shared
  <2>2. Contract!Return(c)
    BY <2>1, <1>0, MovesRegion, ReturnsOn, Zenon DEF Contract!Return, Contract!Place
  <2> QED
    BY <2>2 DEF Contract!Next
<1>3. CASE TurnedOff(c)
  <2>1. Contract!TurnOff(c)
    BY <1>3, <1>0, MovesRegion, ReturnsOn
       DEF TurnedOff, Released, Contract!TurnOff, Contract!Place, Contract!Info
  <2> QED
    BY <2>1 DEF Contract!Next
<1>4. CASE Suspended(c)
  <2>1. Contract!Suspend(c)
    BY <1>4, <1>0, MovesRegion, ReturnsOn
       DEF Suspended, Released, shared, Contract!Suspend, Contract!Place
  <2> QED
    BY <2>1 DEF Contract!Next
<1>5. CASE PowerUp(c) \/ Resume(c)
  <2>1. Contract!Start(c)
    BY <1>5, <1>0, MovesRegion
       DEF PowerUp, Resume, shared, StateInv, Contract!Start, Contract!Place
  <2> QED
    BY <2>1 DEF Contract!Next
<1>6. CASE OnPending(c)
  <2>1. target[c] \in CPUs /\ aff[target[c]] = "OFF" /\ pc[target[c]] = "down"
    <3>1. target[c] \in CPUs /\ aff[target[c]] = "OFF"
      BY <1>0, <1>6 DEF OnPending, CallerInv, Serving
    <3> QED
      BY <1>0, <3>1 DEF StateInv
  <2>2. /\ pc[c] = "set_pending" /\ Goto(c, "pwr_domain_on")
        /\ aff' = [aff EXCEPT ![target[c]] = "ON_PENDING"]
    BY <1>6, Zenon DEF OnPending
  <2>3. Where' = Where /\ Where[c] = "firmware"
    BY <1>0, <2>2, MovesRegion
  <2>4. Where[target[c]] = "down"
    BY <2>1 DEF Where
  <2>5. Contract!TurnOn(c, target[c])
    BY <2>1, <2>2, <2>3, <2>4 DEF Contract!TurnOn, Contract!Info
  <2> QED
    BY <2>1, <2>5, Zenon DEF Contract!Next
<1>7. CASE PwrDomainOnFails(c)
  <2>1. target[c] \in CPUs /\ aff[target[c]] = "ON_PENDING" /\ pc[target[c]] = "down"
    BY <1>0, <1>7 DEF PwrDomainOnFails, CallerInv, Serving
  <2>2. /\ pc[c] = "pwr_domain_on" /\ Goto(c, "spin_unlock")
        /\ aff' = [aff EXCEPT ![target[c]] = "OFF"]
    BY <1>7, Zenon DEF PwrDomainOnFails
  <2>3. Where' = Where /\ Where[c] = "firmware"
    BY <1>0, <2>2, MovesRegion
  <2>4. Where[target[c]] = "down"
    BY <2>1 DEF Where
  <2>5. Contract!TurnOnFails(c, target[c])
    BY <2>1, <2>2, <2>3, <2>4 DEF Contract!TurnOnFails, Contract!Info
  <2> QED
    BY <2>1, <2>5, Zenon DEF Contract!Next
<1>8. CASE SetPwrDomainsToRun(c)
  <2>1. Where' = Where /\ Where[c] = "firmware" /\ aff' = [aff EXCEPT ![c] = "ON"]
    BY <1>8, <1>0, MovesRegion DEF SetPwrDomainsToRun, StartReleasing, HasLocks
  <2>2. aff[c] \in {"ON", "ON_PENDING"}
    BY <1>0, <1>8 DEF SetPwrDomainsToRun, HasLocks, TypeOK, StateInv
  <2>3. CASE aff[c] = "ON"
    BY <1>0, <2>1, <2>3 DEF TypeOK
  <2>4. CASE aff[c] = "ON_PENDING"
    <3>1. Contract!Arrive(c)
      BY <2>1, <2>4 DEF Contract!Arrive, Contract!Info
    <3> QED
      BY <3>1, Zenon DEF Contract!Next
  <2> QED
    BY <2>2, <2>3, <2>4
<1>9. CASE \/ AcquireLock(c) \/ ReleaseLock(c) \/ CoordinateLevel(c)
  BY <1>9, Zenon DEF AcquireLock, ReleaseLock, CoordinateLevel, shared, Where
<1>10. CASE \/ SetTargets(c) \/ SvcOffDenied(c) \/ SvcOffAgreed(c)
           \/ SuspendAbandoned(c) \/ SuspendProceeds(c) \/ EnterRetention(c)
           \/ ChooseFinisher(c) \/ RetentionExit(c)
  <2>1. aff' = aff /\ pc[c] \in {"lock", "coordinate", "release", "wfi"}
        /\ \E label \in {"lock", "coordinate", "release", "wfi", "on_finish", "suspend_finish"} :
             Goto(c, label)
    BY <1>10, Zenon DEF SetTargets, SuspendToPwrdownStart, SvcOffDenied, SvcOffAgreed,
                 SuspendAbandoned, SuspendProceeds,
                EnterRetention, ChooseFinisher, RetentionExit, StartLocking, HasLocks,
                Released, StartReleasing, shared
  <2> QED
    BY <2>1, <1>0, MovesRegion
<1>11. CASE \/ (IsLastOnCpu(c) /\ ~Return(c)) \/ LastOnCpu(c) \/ SpinLockCpu(c)
            \/ OnRefused(c) \/ OnAccepted(c) \/ PwrDomainOn(c) \/ InitContext(c)
            \/ WarmbootEntrypoint(c) \/ CpuOnFinish(c) \/ CpuSuspendFinish(c)
  <2>1. aff' = aff /\ pc[c] \notin {"ns", "down", "suspended"}
        /\ \E label \in Labels \ {"ns", "down", "suspended"} : Goto(c, label)
    BY <1>11, Zenon DEF IsLastOnCpu, LastOnCpu, SpinLockCpu, OnRefused, OnAccepted, PwrDomainOn,
                 InitContext, WarmbootEntrypoint, CpuOnFinish, CpuSuspendFinish, GotoIf,
                 StartLocking, shared, Labels
  <2> QED
    BY <2>1, <1>0, MovesRegion
<1> QED
  BY <1>1, <1>2, <1>3, <1>4, <1>5, <1>6, <1>7, <1>8, <1>9, <1>10, <1>11
     DEF Firmware, Environment

(* Step by step the handlers keep the contract of the PSCI functions: only  *)
(* a CPU that is off is turned on, once, and it runs only after that.       *)
THEOREM ImplementsContract == Spec => KeepsContract
<1>1. Init => Contract!Init
  <2> SUFFICES ASSUME Init PROVE Contract!Init
    OBVIOUS
  <2>1. aff \in [CPUs -> {"ON", "OFF"}]
    BY DEF Init
  <2>2. Where = [c \in CPUs |-> IF aff[c] = "ON" THEN "normal" ELSE "down"]
    BY DEF Init, Where
  <2> QED
    BY <2>1, <2>2 DEF Contract!Init
<1>2. IInv /\ [Next]_vars => [Contract!Next]_<<aff, Where>>
  <2> SUFFICES ASSUME IInv, [Next]_vars PROVE [Contract!Next]_<<aff, Where>>
    OBVIOUS
  <2>1. CASE UNCHANGED vars
    BY <2>1 DEF vars, shared, Where
  <2> QED
    BY <2>1, StepContract DEF Next
<1> QED
  BY <1>1, <1>2, LifeOfCpu, PTL DEF Spec, KeepsContract, Contract!Spec
=============================================================================
