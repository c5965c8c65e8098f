-------------------------- MODULE PsciBootInvariant -------------------------
(* The life of a CPU in PsciPowerDomains, from CPU_ON through the warm boot *)
(* to CPU_OFF, as an inductive invariant, and the steps of the CPU itself   *)
(* that keep it, for every tree of domains.                                 *)
EXTENDS PsciPowerDomains, TLAPS, WellFoundedInduction

(* From spin_lock to spin_unlock of CPU_ON.                                 *)
Serving == {"validate_state", "set_pending", "pwr_domain_on", "init_context",
            "spin_unlock"}

SpinInv ==
  \A t, c \in CPUs : cpu_lock[t] = c <=> (pc[c] \in Serving /\ target[c] = t)

PowerDowns == {"powerdown", "system"}

(* Which operation is under way at each place.                              *)
PlaceInv(c) ==
  /\ pc[c] # "panic"
  /\ pc[c] \in {"lock", "coordinate"} => lvl[c] >= 1
  /\ pc[c] = "lock" => op[c] \notin {"none", "return"}
  /\ pc[c] = "coordinate" => op[c] \in {"off", "powerdown", "retention", "system"}
  /\ pc[c] = "release" => op[c] # "none"
  /\ pc[c] \in {"on_finish", "suspend_finish", "to_run"} => op[c] = "boot"
  /\ pc[c] = "wfi" => op[c] = "retention"
  /\ pc[c] = "suspended" => op[c] \in PowerDowns
  /\ pc[c] \notin {"lock", "coordinate", "release", "on_finish", "suspend_finish",
                   "to_run", "wfi", "suspended"} => op[c] = "none"

(* A CPU on its way up before it looks at what it wakes up from.            *)
ComingUp(c) == pc[c] = "warmboot" \/ (pc[c] = "lock" /\ op[c] = "boot")

(* aff_info_state and the place go together.                                *)
StateInv(c) ==
  /\ aff[c] = "OFF" => pc[c] = "down"
  /\ pc[c] = "down" => aff[c] # "ON"
  /\ c \in wake => aff[c] = "ON_PENDING" /\ pc[c] = "down"
  /\ aff[c] = "ON_PENDING" => pc[c] \in {"down", "on_finish", "to_run"} \/ ComingUp(c)
  /\ pc[c] = "on_finish" => aff[c] = "ON_PENDING"
  /\ pc[c] = "suspend_finish" => aff[c] = "ON"

(* CPU_ON has started c and will write its context before it unlocks.       *)
ContextOnItsWay(c) == \E d \in CPUs : pc[d] = "init_context" /\ target[d] = c

(* A CPU that was turned on, and one that wakes up from a suspend.          *)
Arriving(c) ==
  aff[c] = "ON_PENDING" /\ (c \in wake \/ pc[c] = "on_finish" \/ ComingUp(c))
Resuming(c) ==
  /\ aff[c] = "ON"
  /\ \/ pc[c] \in {"suspended", "suspend_finish"} \/ ComingUp(c)
     \/ pc[c] = "release" /\ op[c] \in PowerDowns

ContextInv(c) ==
  /\ Arriving(c) => context[c] = "ready" \/ ContextOnItsWay(c)
  /\ Resuming(c) => context[c] = "ready" /\ is_local_state_off(cpu_state[c])
  /\ pc[c] = "to_run" => context[c] = "ready"
  /\ pc[c] = "suspend_finish" => is_local_state_off(state_info[c][0])
  /\ pc[c] \in {"lock", "coordinate"} /\ op[c] \in PowerDowns
       => is_local_state_off(state_info[c][0])

(* What a CPU_ON caller relies on between its look at the target and the    *)
(* platform hook.                                                           *)
CallerInv(c) ==
  /\ pc[c] \in Serving \cup {"spin_lock"} => target[c] \in CPUs
  /\ pc[c] = "set_pending" => aff[target[c]] = "OFF"
  /\ pc[c] = "pwr_domain_on" =>
       aff[target[c]] = "ON_PENDING" /\ pc[target[c]] = "down" /\ target[c] \notin wake

CpuInv(c) == PlaceInv(c) /\ StateInv(c) /\ ContextInv(c) /\ CallerInv(c)

IInv == TypeOK /\ SpinInv /\ \A c \in CPUs : CpuInv(c)

-----------------------------------------------------------------------------
(* Facts about the helpers.                                                 *)

(* A set of levels has a largest element.                                   *)
LEMMA MaxOfLevels ==
  ASSUME NEW S \in SUBSET (0 .. MaxLvl), S # {}
  PROVE  Max(S) \in S /\ \A x \in S : Max(S) >= x
<1> USE TopologyAssumption
<1> DEFINE T == {k \in Nat : MaxLvl - k \in S}
<1>1. T # {} /\ T \subseteq Nat
  <2>1. PICK x \in S : TRUE
    BY Zenon
  <2>2. MaxLvl - x \in Nat /\ MaxLvl - (MaxLvl - x) = x
    OBVIOUS
  <2> QED
    BY <2>1, <2>2, Zenon
<1>2. \E k \in T : \A j \in T : ~(<<j, k>> \in OpToRel(<, Nat))
  BY <1>1, WFMin, NatLessThanWellFounded, Zenon
<1>3. PICK k \in T : \A j \in T : ~(j < k)
  BY <1>2, Zenon DEF OpToRel
<1>4. \E m \in S : \A x \in S : m >= x
  BY <1>3
<1> QED
  BY <1>4, Zenon DEF Max

(* A set of local states has a smallest element.                            *)
LEMMA MinOfStates ==
  ASSUME NEW S \in SUBSET LocalStates, S # {}
  PROVE  Min(S) \in S /\ \A x \in S : Min(S) <= x
<1>1. LocalStates = {0, 1, 2}
  BY DEF LocalStates, PSCI_LOCAL_STATE_RUN, PLAT_MAX_OFF_STATE
<1>2. \E m \in S : \A x \in S : m <= x
  <2>1. CASE 0 \in S
    BY <1>1, <2>1
  <2>2. CASE 0 \notin S /\ 1 \in S
    BY <1>1, <2>2
  <2>3. CASE S = {2}
    BY <2>3
  <2> QED
    BY <1>1, <2>1, <2>2, <2>3, Zenon
<1> QED
  BY <1>2 DEF Min

(* The level a valid request suspends to exists.                            *)
LEMMA TargetLevel ==
  ASSUME NEW pd, NEW info \in Requests(pd)
  PROVE  /\ info \in StateInfo
         /\ psci_find_target_suspend_lvl(info) \in 0 .. MaxLvl
         /\ pd => is_local_state_off(info[0])
<1> DEFINE low == {l \in 0 .. MaxLvl : ~is_local_state_run(info[l])}
<1>1. low # {}
  BY DEF Requests, psci_validate_suspend_req, psci_find_target_suspend_lvl
<1>2. Max(low) \in low
  BY <1>1, MaxOfLevels
<1>3. psci_find_target_suspend_lvl(info) = Max(low)
  BY <1>1 DEF psci_find_target_suspend_lvl
<1> QED
  BY <1>2, <1>3, PowerStatesAssumption DEF Requests

(* The two ends of the range of local states.                               *)
LEMMA RunAndOff ==
  /\ PSCI_LOCAL_STATE_RUN \in LocalStates /\ PLAT_MAX_OFF_STATE \in LocalStates
  /\ is_local_state_off(PLAT_MAX_OFF_STATE)
  /\ PSCI_INVALID_PWR_LVL \in 0 .. PSCI_INVALID_PWR_LVL
BY TopologyAssumption
   DEF LocalStates, PSCI_LOCAL_STATE_RUN, PLAT_MAX_OFF_STATE, is_local_state_off,
       PLAT_MAX_RET_STATE, PSCI_INVALID_PWR_LVL

(* A request for the same state at every level is a well-formed one.        *)
LEMMA AllLevelsType ==
  /\ AllLevels(PSCI_LOCAL_STATE_RUN) \in StateInfo
  /\ AllLevels(PLAT_MAX_OFF_STATE) \in StateInfo
  /\ AllLevels(PLAT_MAX_OFF_STATE)[0] = PLAT_MAX_OFF_STATE
BY TopologyAssumption
   DEF AllLevels, StateInfo, LocalStates, PSCI_LOCAL_STATE_RUN, PLAT_MAX_OFF_STATE

(* The types of the locals of all CPUs.                                     *)
LocalTypes ==
  /\ pc \in [CPUs -> Labels]
  /\ op \in [CPUs -> Operations]
  /\ end_pwrlvl \in [CPUs -> 0 .. MaxLvl]
  /\ lvl \in [CPUs -> 0 .. MaxLvl + 1]
  /\ state_info \in [CPUs -> StateInfo]
  /\ target \in [CPUs -> 0 .. NCpus]

(* A handler that starts to take the locks keeps the types of the locals.   *)
LEMMA StartLockingTypes ==
  ASSUME TypeOK, NEW c \in CPUs, NEW o \in Operations, NEW end \in 0 .. MaxLvl,
         NEW info \in StateInfo, StartLocking(c, o, end, info)
  PROVE  LocalTypes'
BY TopologyAssumption, NCpusAssumption
   DEF StartLocking, Goto, TypeOK, LocalTypes, Labels

(* So does a handler that is done.                                          *)
LEMMA ForgetTypes ==
  ASSUME TypeOK, NEW c \in CPUs, NEW label \in Labels, Goto(c, label), Forget(c)
  PROVE  LocalTypes'
BY TopologyAssumption, NCpusAssumption, AllLevelsType
   DEF Forget, Goto, TypeOK, LocalTypes, Operations

-----------------------------------------------------------------------------
(* A step leaves the CPU d as it is.                                        *)
Same(d) ==
  /\ pc'[d] = pc[d] /\ op'[d] = op[d] /\ target'[d] = target[d] /\ lvl'[d] = lvl[d]
  /\ aff'[d] = aff[d] /\ context'[d] = context[d] /\ cpu_state'[d] = cpu_state[d]
  /\ state_info'[d] = state_info[d] /\ (d \in wake' <=> d \in wake)

Alone(c) == \A d \in CPUs \ {c} : Same(d)

(* A CPU that is not down and does not turn on another one changes nothing  *)
(* that the others rely on.                                                 *)
LEMMA Local ==
  ASSUME IInv, NEW c \in CPUs, TypeOK', Alone(c), cpu_lock' = cpu_lock,
         pc[c] \notin Serving \cup {"down"}, pc'[c] \notin Serving, CpuInv(c)'
  PROVE  IInv'
<1>1. SpinInv'
  BY DEF IInv, SpinInv, Alone, Same
<1>2. ASSUME NEW d \in CPUs, d # c PROVE CpuInv(d)'
  <2>1. Same(d) /\ CpuInv(d) /\ StateInv(c)
    BY <1>2 DEF Alone, IInv, CpuInv
  <2>2. PlaceInv(d)'
    BY <2>1 DEF CpuInv, PlaceInv, Same
  <2>3. StateInv(d)'
    BY <2>1 DEF CpuInv, StateInv, ComingUp, Same
  <2>4. ContextOnItsWay(d) => ContextOnItsWay(d)'
    BY DEF ContextOnItsWay, Alone, Same, Serving
  <2>5. ContextInv(d)'
    BY <2>1, <2>4 DEF CpuInv, ContextInv, Arriving, Resuming, ComingUp, Same
  <2>6. CallerInv(d)'
    BY <2>1 DEF CpuInv, CallerInv, StateInv, Same, Alone, Serving
  <2> QED
    BY <2>2, <2>3, <2>5, <2>6 DEF CpuInv
<1> QED
  BY <1>1, <1>2 DEF IInv

(* Between spin_lock and spin_unlock of CPU_ON a caller is alone with its   *)
(* target.                                                                  *)
LEMMA OneCaller ==
  ASSUME IInv, NEW c \in CPUs, NEW d \in CPUs, pc[c] \in Serving, pc[d] \in Serving,
         target[c] = target[d]
  PROVE  c = d
BY DEF IInv, SpinInv, CpuInv, CallerInv

(* While the spin lock is free nobody turns the CPU on.                     *)
LEMMA NobodyServes ==
  ASSUME IInv, NEW t \in CPUs, SpinIsFree(t)
  PROVE  \A d \in CPUs : ~(pc[d] \in Serving /\ target[d] = t)
BY NobodyAssumption DEF IInv, SpinInv, SpinIsFree

(* The handlers that start with the domain locks.                           *)
LEMMA StartsLocking ==
  ASSUME IInv, NEW c \in CPUs,
         CpuOff(c) \/ CpuSuspend(c) \/ RetentionExit(c) \/ LastOnCpu(c) \/ WarmbootEntrypoint(c)
  PROVE  IInv'
<1> DEFINE P(o, end, info) ==
      /\ StartLocking(c, o, end, info)
      /\ o \notin {"none", "return"} /\ (o = "boot" <=> pc[c] = "warmboot")
      /\ o \in PowerDowns => is_local_state_off(info[0])
<1>1. \E o \in Operations, end \in 0 .. MaxLvl, info \in StateInfo : P(o, end, info)
  <2>1. CASE CpuOff(c)
    BY <2>1, AllLevelsType, TopologyAssumption DEF CpuOff, Operations, PowerDowns
  <2>2. CASE CpuSuspend(c)
    BY <2>2, TargetLevel DEF CpuSuspend, Operations, PowerDowns
  <2>3. CASE RetentionExit(c)
    BY <2>3 DEF RetentionExit, Operations, PowerDowns, IInv, TypeOK
  <2>4. CASE LastOnCpu(c)
    BY <2>4, AllLevelsType, RunAndOff, TopologyAssumption DEF LastOnCpu, Operations, PowerDowns
  <2>5. CASE WarmbootEntrypoint(c)
    <3>1. get_power_on_target_pwrlvl(c) \in 0 .. MaxLvl
      BY TopologyAssumption
         DEF get_power_on_target_pwrlvl, IInv, TypeOK, PSCI_INVALID_PWR_LVL
    <3> QED
      BY <2>5, <3>1, AllLevelsType
         DEF WarmbootEntrypoint, IInv, CpuInv, StateInv, Operations, PowerDowns
  <2> QED
    BY <2>1, <2>2, <2>3, <2>4, <2>5
<1>2. PICK o \in Operations, end \in 0 .. MaxLvl, info \in StateInfo : P(o, end, info)
  BY <1>1
<1>3. pc[c] \in {"ns", "wfi", "is_last_on_cpu", "warmboot"} /\ UNCHANGED <<shared, locks>>
  BY DEF CpuOff, CpuSuspend, RetentionExit, LastOnCpu, WarmbootEntrypoint
<1>4. TypeOK'
  <2>1. LocalTypes'
    BY <1>2, StartLockingTypes DEF IInv
  <2> QED
    BY <1>3, <2>1 DEF IInv, TypeOK, LocalTypes, shared, locks
<1>5. Alone(c) /\ CpuInv(c)'
  <2> USE <1>2, <1>3 DEF StartLocking, Goto, shared, IInv, TypeOK
  <2>1. Alone(c)
    BY DEF Alone, Same
  <2>2. PlaceInv(c)' /\ StateInv(c)' /\ CallerInv(c)'
    BY DEF CpuInv, PlaceInv, StateInv, CallerInv, ComingUp, Serving
  <2>3. ContextInv(c)'
    BY DEF CpuInv, StateInv, ContextInv, ComingUp, Arriving, Resuming, ContextOnItsWay
  <2> QED
    BY <2>1, <2>2, <2>3 DEF CpuInv
<1> QED
  BY <1>2, <1>3, <1>4, <1>5, Local, Zenon DEF StartLocking, Goto, IInv, TypeOK, locks, Serving

(* The ends of the handlers: the locals are gone.                           *)
LEMMA Ends ==
  ASSUME IInv, NEW c \in CPUs,
         \/ StandbyExit(c) \/ BackToNormalWorld(c) \/ (IsLastOnCpu(c) /\ Return(c))
         \/ TurnedOff(c) \/ Resume(c)
  PROVE  IInv'
<1> DEFINE P(label) ==
      /\ Goto(c, label) /\ Forget(c)
      /\ UNCHANGED <<suspend_lvl, node_state, req, context, wake, locks>>
      /\ cpu_state' = cpu_state \/ cpu_state' = [cpu_state EXCEPT ![c] = PSCI_LOCAL_STATE_RUN]
      /\ label = "ns" => aff' = aff /\ aff[c] = "ON"
      /\ label = "warmboot" => aff' = aff /\ Resuming(c) /\ cpu_state' = cpu_state
      /\ label = "down" => aff' = [aff EXCEPT ![c] = "OFF"] /\ c \notin wake
<1>1. PICK label \in {"ns", "warmboot", "down"} : P(label)
  BY DEF StandbyExit, BackToNormalWorld, IsLastOnCpu, TurnedOff, Resume, Return, Released,
         shared, locks, IInv, TypeOK, CpuInv, StateInv, PlaceInv, ComingUp, Resuming
<1>2. pc[c] \in {"standby", "release", "is_last_on_cpu", "suspended"}
  BY DEF StandbyExit, BackToNormalWorld, IsLastOnCpu, TurnedOff, Resume, Released
<1>3. TypeOK'
  <2>1. LocalTypes'
    BY <1>1, ForgetTypes DEF IInv, Labels
  <2>2. cpu_state' \in [CPUs -> LocalStates] /\ aff' \in [CPUs -> {"ON", "OFF", "ON_PENDING"}]
    BY <1>1, RunAndOff DEF IInv, TypeOK
  <2> QED
    BY <1>1, <2>1, <2>2 DEF IInv, TypeOK, LocalTypes, locks
<1>4. Alone(c) /\ CpuInv(c)'
  <2> USE <1>1, <1>2 DEF Goto, Forget, IInv, TypeOK
  <2>1. Alone(c)
    BY DEF Alone, Same
  <2>2. PlaceInv(c)' /\ StateInv(c)' /\ CallerInv(c)'
    BY DEF CpuInv, PlaceInv, StateInv, CallerInv, ComingUp, Serving, Resuming
  <2>3. ContextInv(c)'
    BY DEF CpuInv, StateInv, ContextInv, ComingUp, Arriving, Resuming
  <2> QED
    BY <2>1, <2>2, <2>3 DEF CpuInv
<1> QED
  BY <1>1, <1>2, <1>3, <1>4, Local, Zenon DEF Goto, IInv, TypeOK, locks, Serving

(* The places where a handler with its locks decides how to go on.          *)
LEMMA Decides ==
  ASSUME IInv, NEW c \in CPUs,
         \/ SvcOffDenied(c) \/ SvcOffAgreed(c) \/ SuspendAbandoned(c) \/ SuspendProceeds(c)
         \/ AcquireLock(c) \/ ReleaseLock(c)
  PROVE  IInv'
<1> DEFINE P(label, o, l) ==
      /\ Goto(c, label) /\ op' = [op EXCEPT ![c] = o] /\ lvl' = [lvl EXCEPT ![c] = l]
      /\ \/ label = pc[c] /\ o = op[c]
         \/ pc[c] = "lock" /\ label = "release" /\ o = "return" /\ op[c] # "boot"
         \/ pc[c] = "lock" /\ label = "coordinate" /\ o = op[c]
            /\ o \in {"off", "powerdown", "retention", "system"}
      /\ label # "release" => l >= 1
<1>1. /\ pc[c] \in {"lock", "release"} /\ UNCHANGED <<shared, cpu_lock>>
      /\ UNCHANGED <<end_pwrlvl, state_info, target>>
  BY Zenon DEF SvcOffDenied, SvcOffAgreed, SuspendAbandoned, SuspendProceeds, AcquireLock,
         ReleaseLock, HasLocks, locks
<1>2. \E label \in Labels, o \in Operations, l \in 0 .. MaxLvl + 1 : P(label, o, l)
  <2>1. /\ pc \in [CPUs -> Labels] /\ op \in [CPUs -> Operations] /\ lvl \in [CPUs -> 0 .. MaxLvl + 1]
        /\ end_pwrlvl[c] \in 0 .. MaxLvl /\ MaxLvl \in Nat /\ PlaceInv(c)
    BY TopologyAssumption DEF IInv, TypeOK, CpuInv
  <2>2. CASE AcquireLock(c) \/ ReleaseLock(c)
    <3>1. pc' = [pc EXCEPT ![c] = pc[c]] /\ op' = [op EXCEPT ![c] = op[c]]
      BY <2>1, <2>2, Zenon DEF AcquireLock, ReleaseLock
    <3>2. PICK l \in 0 .. MaxLvl + 1 : lvl' = [lvl EXCEPT ![c] = l] /\ (pc[c] = "lock" => l >= 1)
      BY <2>1, <2>2 DEF AcquireLock, ReleaseLock, PlaceInv
    <3>3. P(pc[c], op[c], l)
      BY <1>1, <3>1, <3>2, Zenon DEF Goto
    <3>4. pc[c] \in Labels /\ op[c] \in Operations
      BY <2>1
    <3> HIDE DEF P
    <3> QED
      BY <3>3, <3>4, Zenon
  <2>3. CASE SvcOffDenied(c) \/ SuspendAbandoned(c)
    <3>1. end_pwrlvl[c] \in 0 .. MaxLvl + 1 /\ "release" \in Labels /\ "return" \in Operations
      BY <2>1 DEF Labels, Operations
    <3>2. P("release", "return", end_pwrlvl[c])
      BY <2>3 DEF SvcOffDenied, SuspendAbandoned, Suspending, StartReleasing, HasLocks, Goto
    <3> HIDE DEF P
    <3> QED
      BY <3>1, <3>2, Zenon
  <2>4. CASE SvcOffAgreed(c) \/ SuspendProceeds(c)
    <3>1. op' = [op EXCEPT ![c] = op[c]]
      BY <2>1, <2>4 DEF SvcOffAgreed, SuspendProceeds
    <3>2. P("coordinate", op[c], 1)
      BY <2>4, <3>1 DEF SvcOffAgreed, SuspendProceeds, Suspending, HasLocks, Goto
    <3>3. "coordinate" \in Labels /\ op[c] \in Operations /\ 1 \in 0 .. MaxLvl + 1
      BY <2>1 DEF Labels
    <3> HIDE DEF P
    <3> QED
      BY <3>2, <3>3, Zenon
  <2> QED
    BY <2>2, <2>3, <2>4, Zenon
<1>3. PICK label \in Labels, o \in Operations, l \in 0 .. MaxLvl + 1 : P(label, o, l)
  BY <1>2, Zenon
<1>4. TypeOK'
  <2>1. lock' \in [Nodes -> CPUs \cup {Nobody}]
    BY Zenon DEF SvcOffDenied, SvcOffAgreed, SuspendAbandoned, SuspendProceeds, AcquireLock,
           ReleaseLock, HasLocks, locks, IInv, TypeOK
  <2> QED
    BY <1>1, <1>3, <2>1 DEF Goto, IInv, TypeOK, shared
<1>5. Alone(c) /\ CpuInv(c)'
  <2> USE <1>1, <1>3 DEF Goto, shared, IInv, TypeOK
  <2>1. Alone(c)
    BY DEF Alone, Same
  <2>2. PlaceInv(c)'
    BY DEF CpuInv, PlaceInv
  <2>4. StateInv(c)' /\ CallerInv(c)'
    BY DEF CpuInv, StateInv, CallerInv, ComingUp, Serving
  <2>3. ContextInv(c)'
    BY DEF CpuInv, PlaceInv, StateInv, ContextInv, ComingUp, Arriving, Resuming, ContextOnItsWay,
           PowerDowns
  <2> QED
    BY <2>1, <2>2, <2>3, <2>4 DEF CpuInv
<1> QED
  BY <1>1, <1>3, <1>4, <1>5, Local, Zenon DEF Goto, IInv, TypeOK, Serving

(* The other steps that leave the data the CPUs share alone.                *)
LEMMA Moves ==
  ASSUME IInv, NEW c \in CPUs,
         \/ SystemSuspend(c) \/ (\E t \in CPUs : CpuOn(c, t)) \/ (IsLastOnCpu(c) /\ ~Return(c))
         \/ Suspended(c) \/ EnterRetention(c) \/ ChooseFinisher(c)
  PROVE  IInv'
<1> USE DEF Goto, GotoIf, IInv, TypeOK
<1>1. UNCHANGED <<shared, locks, op, lvl>>
  BY DEF SystemSuspend, CpuOn, IsLastOnCpu, Suspended, EnterRetention, ChooseFinisher,
         locals
<1>2. CASE SystemSuspend(c) \/ (\E t \in CPUs : CpuOn(c, t)) \/ (IsLastOnCpu(c) /\ ~Return(c))
  <2>1. aff[c] = "ON" /\ op[c] = "none" /\ pc[c] \in {"ns", "is_last_on_cpu"}
    BY <1>2 DEF SystemSuspend, CpuOn, IsLastOnCpu, CpuInv, StateInv, PlaceInv, ComingUp
  <2>2. /\ \/ pc' = [pc EXCEPT ![c] = "is_last_on_cpu"]
           \/ pc' = [pc EXCEPT ![c] = "spin_lock"] /\ target'[c] \in CPUs
        /\ UNCHANGED <<end_pwrlvl, state_info>>
    <3>1. CASE SystemSuspend(c)
      BY <3>1 DEF SystemSuspend, locals
    <3>2. CASE \E t \in CPUs : CpuOn(c, t)
      BY <3>2 DEF CpuOn
    <3>3. CASE IsLastOnCpu(c) /\ ~Return(c)
      BY <2>1, <3>3 DEF IsLastOnCpu
    <3> QED
      BY <1>2, <3>1, <3>2, <3>3, Zenon
  <2>3. \E t \in 0 .. NCpus : target' = [target EXCEPT ![c] = t]
    <3>1. \A t \in CPUs : t \in 0 .. NCpus
      BY NCpusAssumption DEF CPUs
    <3>2. IsLastOnCpu(c) => target[c] + 1 \in 0 .. NCpus
      BY NCpusAssumption DEF IsLastOnCpu
    <3>3. target' = target => target' = [target EXCEPT ![c] = target[c]]
      OBVIOUS
    <3> QED
      BY <1>2, <3>1, <3>2, <3>3 DEF SystemSuspend, CpuOn, IsLastOnCpu, locals
  <2>4. TypeOK' /\ Alone(c)
    BY <1>1, <2>2, <2>3 DEF Labels, Alone, Same, shared, locks
  <2>5. CpuInv(c)'
    BY <1>1, <2>1, <2>2 DEF shared, CpuInv, PlaceInv, StateInv, ContextInv, CallerInv, ComingUp,
                            Arriving, Resuming, Serving
  <2> QED
    BY <1>1, <2>1, <2>2, <2>4, <2>5, Local, Zenon DEF locks, Serving
<1>3. CASE Suspended(c) \/ EnterRetention(c)
  <2>1. TypeOK' /\ Alone(c)
    <3>1. state_info' \in [CPUs -> StateInfo]
      BY <1>3, AllLevelsType DEF Suspended, EnterRetention
    <3>2. end_pwrlvl' \in [CPUs -> 0 .. MaxLvl]
      <4>1. 0 \in 0 .. MaxLvl
        BY TopologyAssumption
      <4> QED
        BY <1>3, <4>1 DEF Suspended, EnterRetention
    <3> QED
      BY <1>1, <1>3, <3>1, <3>2
         DEF Suspended, EnterRetention, Labels, Alone, Same, shared, locks
  <2>2. CpuInv(c)'
    BY <1>1, <1>3 DEF Suspended, EnterRetention, Released, shared, CpuInv, PlaceInv, StateInv,
              ContextInv, CallerInv, ComingUp, Arriving, Resuming, Serving, PowerDowns
  <2> QED
    BY <1>1, <1>3, <2>1, <2>2, Local, ZenonT(30) DEF Suspended, EnterRetention, Released, locks, Serving
<1>4. CASE ChooseFinisher(c)
  <2> DEFINE info == psci_get_target_local_pwr_states(c)
  <2>1. info \in StateInfo
    <3>1. \A l \in 0 .. MaxLvl : l # 0 => Parents[c][l] \in Nodes
      BY TopologyAssumption DEF Levels
    <3> QED
      BY <3>1, RunAndOff, Zenon DEF psci_get_target_local_pwr_states, StateInfo
  <2>2. info[0] = cpu_state[c]
    BY TopologyAssumption DEF psci_get_target_local_pwr_states
  <2> HIDE DEF info
  <2>3. TypeOK' /\ Alone(c)
    BY <1>1, <1>4, <2>1 DEF info, ChooseFinisher, Labels, Alone, Same, shared, locks
  <2>4. CpuInv(c)'
    BY <1>1, <1>4, <2>2 DEF info, ChooseFinisher, HasLocks, shared, CpuInv, PlaceInv, StateInv,
       ContextInv, CallerInv, ComingUp, Arriving, Resuming, ContextOnItsWay, Serving
  <2> QED
    BY <1>1, <1>4, <2>3, <2>4, Local, Zenon DEF ChooseFinisher, HasLocks, locks, Serving
<1> QED
  BY <1>2, <1>3, <1>4

(* psci_cpu_on_finish waits until the caller has given the spin lock back;  *)
(* by then the context it boots with is there.                              *)
LEMMA CpuOnFinishInv ==
  ASSUME IInv, NEW c \in CPUs, CpuOnFinish(c)
  PROVE  IInv'
<1>1. ~ContextOnItsWay(c)
  BY NobodyServes DEF CpuOnFinish, ContextOnItsWay, Serving
<1>2. TypeOK /\ CpuInv(c)
  BY DEF IInv
<1>3. aff[c] = "ON_PENDING" /\ context[c] = "ready" /\ op[c] = "boot"
  BY <1>1, <1>2, Zenon DEF CpuOnFinish, CpuInv, PlaceInv, StateInv, ContextInv, Arriving
<1>4. UNCHANGED <<shared, locks, locals>> /\ pc' = [pc EXCEPT ![c] = "to_run"] /\ pc[c] = "on_finish"
  BY <1>3 DEF CpuOnFinish, GotoIf, Goto
<1>5. TypeOK' /\ Alone(c)
  BY <1>2, <1>4 DEF TypeOK, Labels, Alone, Same, shared, locks, locals
<1>6. CpuInv(c)'
  BY <1>2, <1>3, <1>4 DEF TypeOK, shared, locals, CpuInv, PlaceInv, StateInv,
     ContextInv, CallerInv, ComingUp, Arriving, Resuming, Serving
<1> QED
  BY <1>2, <1>4, <1>5, <1>6, Local, Zenon DEF TypeOK, locks, Serving

(* The steps that change the local state or the suspend level of one CPU.   *)
LEMMA Standby ==
  ASSUME IInv, NEW c \in CPUs, CpuStandby(c) \/ CpuSuspendFinish(c)
  PROVE  IInv'
<1> USE DEF Goto, GotoIf, IInv, TypeOK
<1>1. UNCHANGED <<aff, node_state, req, context, wake, locks, locals>>
  BY Zenon DEF CpuStandby, CpuSuspendFinish
<1>2. CASE CpuStandby(c)
  <2>1. PICK info \in Requests(FALSE) : cpu_state' = [cpu_state EXCEPT ![c] = info[0]]
    BY <1>2, Zenon DEF CpuStandby
  <2>2. info[0] \in LocalStates
    BY PowerStatesAssumption, TopologyAssumption DEF Requests, StateInfo
  <2>3. TypeOK' /\ Alone(c)
    BY <1>1, <1>2, <2>1, <2>2 DEF CpuStandby, Labels, Alone, Same, locks, locals
  <2>4. CpuInv(c)'
    BY <1>1, <1>2, ZenonT(30) DEF CpuStandby, locals, CpuInv, PlaceInv, StateInv, ContextInv, CallerInv,
                      ComingUp, Arriving, Resuming, Serving
  <2> QED
    BY <1>1, <1>2, <2>3, <2>4, Local, Zenon DEF CpuStandby, locks, Serving
<1>3. CASE CpuSuspendFinish(c)
  <2>1. pc' = [pc EXCEPT ![c] = "to_run"]
    BY <1>3, Zenon DEF CpuSuspendFinish, CpuInv, StateInv, ContextInv
  <2>2. TypeOK' /\ Alone(c)
    BY <1>1, <1>3, <2>1, RunAndOff DEF CpuSuspendFinish, Labels, Alone, Same, locks, locals
  <2>3. CpuInv(c)'
    BY <1>1, <1>3, <2>1 DEF CpuSuspendFinish, locals, CpuInv, PlaceInv, StateInv, ContextInv,
                      CallerInv, ComingUp, Arriving, Resuming, Serving
  <2> QED
    BY <1>1, <1>3, <2>1, <2>2, <2>3, Local, Zenon DEF CpuSuspendFinish, locks, Serving
<1> QED
  BY <1>2, <1>3
=============================================================================
