-------------------------- MODULE PsciPowerDomains --------------------------
(***************************************************************************)
(* PSCI power management of ARM Trusted Firmware (lib/psci): every CPU     *)
(* runs the SMC handlers CPU_ON, CPU_OFF, CPU_SUSPEND and SYSTEM_SUSPEND   *)
(* and the warm boot path, concurrently with the others, on a tree of      *)
(* power domains.                                                          *)
(*                                                                         *)
(* A domain lock is the abstract Lock that BakeryLock implements.  An      *)
(* action is one step between two points where another CPU can see or      *)
(* change what the handler uses: taking or releasing one lock, one level   *)
(* of the state coordination, the update of the nodes, one read of another *)
(* CPU's aff_info_state.  aff_info_state is one coherent variable here;    *)
(* PsciAffInfo splits it into memory and cache.                            *)
(***************************************************************************)
EXTENDS Integers, FiniteSetsExt

CONSTANTS NCpus,     \* PLATFORM_CORE_COUNT
          MaxLvl,    \* PLAT_MAX_PWR_LVL
          Nodes,     \* psci_non_cpu_pd_nodes
          Level,     \* the level field of each node
          Parents,   \* Parents[c][l]: the ancestor of CPU c at level l
          PowerStates, \* the composite states the platform offers
          Calls,     \* the PSCI functions the normal world uses
          BootCpu,   \* the CPU that cold boots the system
          Nobody     \* owner of a free lock

CPUs == 0 .. NCpus - 1
Levels == 1 .. MaxLvl

ASSUME NCpusAssumption == NCpus \in Nat \ {0} /\ BootCpu \in CPUs
ASSUME TopologyAssumption ==
         /\ MaxLvl \in Nat \ {0}
         /\ Level \in [Nodes -> Levels]
         /\ Parents \in [CPUs -> [Levels -> Nodes]]
         /\ \A c \in CPUs : \A l \in Levels : Level[Parents[c][l]] = l
         /\ \A c, d \in CPUs : \A l \in Levels \ {MaxLvl} :
              Parents[c][l] = Parents[d][l] => Parents[c][l + 1] = Parents[d][l + 1]
ASSUME CallsAssumption == Calls \subseteq {"on", "off", "suspend", "system"}
ASSUME NobodyAssumption == Nobody \notin CPUs

PSCI_LOCAL_STATE_RUN == 0
PLAT_MAX_RET_STATE == 1
PLAT_MAX_OFF_STATE == 2
PSCI_INVALID_PWR_LVL == MaxLvl + 1
LocalStates == PSCI_LOCAL_STATE_RUN .. PLAT_MAX_OFF_STATE

(* psci_power_state_t: one local state per level, level 0 is the CPU.      *)
StateInfo == [0 .. MaxLvl -> LocalStates]
AllLevels(s) == [l \in 0 .. MaxLvl |-> s]

ASSUME PowerStatesAssumption == PowerStates \subseteq StateInfo

VARIABLES aff,         \* aff_info_state of each CPU
          cpu_state,   \* local_state of each CPU
          suspend_lvl, \* target_pwrlvl of each CPU
          node_state,  \* local_state of each node
          req,         \* psci_req_local_pwr_states
          lock,        \* owner of each node's bakery lock
          cpu_lock,    \* owner of each CPU's spin lock
          context,     \* is the non-secure entry context of a CPU set up?
          wake,        \* the CPUs the power controller was told to start
          pc, op,      \* per CPU: place in the code and operation
          end_pwrlvl, lvl, state_info, target \* per CPU: locals

shared == <<aff, cpu_state, suspend_lvl, node_state, req, context, wake>>
locks == <<lock, cpu_lock>>
locals == <<op, end_pwrlvl, lvl, state_info, target>>
vars == <<shared, locks, pc, locals>>

-----------------------------------------------------------------------------
(* Helpers                                                                 *)

(* find_local_state_type has one state per type here: RUN < RETN < OFF.    *)
is_local_state_run(s) == s = PSCI_LOCAL_STATE_RUN
is_local_state_off(s) == s > PLAT_MAX_RET_STATE

(* Mutant: ncpus is one short.                                             *)
Span_MissesLast(c, l) ==
  LET all == {d \in CPUs : Parents[d][l] = Parents[c][l]}
  IN  all \ {Max(all)}

(* The CPUs whose ancestor at level l is the one of c: cpu_start_idx and   *)
(* ncpus of that node.                                                     *)
Span(c, l) == {d \in CPUs : Parents[d][l] = Parents[c][l]}

IsAncestor(n, c, end) == Level[n] <= end /\ Parents[c][Level[n]] = n

psci_find_max_off_lvl(info) ==
  LET off == {l \in 0 .. MaxLvl : is_local_state_off(info[l])}
  IN  IF off = {} THEN PSCI_INVALID_PWR_LVL ELSE Max(off)

psci_find_target_suspend_lvl(info) ==
  LET low == {l \in 0 .. MaxLvl : ~is_local_state_run(info[l])}
  IN  IF low = {} THEN PSCI_INVALID_PWR_LVL ELSE Max(low)

psci_validate_suspend_req(info, is_power_down_state) ==
  LET target_lvl == psci_find_target_suspend_lvl(info)
      max_off_lvl == psci_find_max_off_lvl(info)
  IN  /\ target_lvl # PSCI_INVALID_PWR_LVL
      /\ \A l \in 1 .. target_lvl : info[l - 1] >= info[l]
      /\ is_power_down_state
           \/ max_off_lvl = PSCI_INVALID_PWR_LVL

(* What validate_power_state of the platform may hand to psci_cpu_suspend: *)
(* a state the debug build accepts, whose power-down form loses the CPU.   *)
Requests(is_power_down_state) ==
  {info \in PowerStates :
     /\ psci_validate_suspend_req(info, is_power_down_state)
     /\ is_power_down_state => is_local_state_off(info[0])}

(* Mutant: the deepest request wins.                                       *)
plat_get_target_pwr_state_Deepest(states) == Max(states)

(* plat_get_target_pwr_state: the shallowest of the requested states.      *)
plat_get_target_pwr_state(states) == Min(states)

Goto(c, label) == pc' = [pc EXCEPT ![c] = label]

(* assert() and panic() do not return.                                     *)
GotoIf(c, assertion, label) == Goto(c, IF assertion THEN label ELSE "panic")

(* Back to the caller in the normal world; the locals are gone.            *)
Forget(c) ==
  /\ op' = [op EXCEPT ![c] = "none"]
  /\ end_pwrlvl' = [end_pwrlvl EXCEPT ![c] = 0]
  /\ lvl' = [lvl EXCEPT ![c] = 0]
  /\ state_info' = [state_info EXCEPT ![c] = AllLevels(PSCI_LOCAL_STATE_RUN)]
  /\ target' = [target EXCEPT ![c] = 0]

Return(c) == Goto(c, "ns") /\ Forget(c)

(* A handler starts with the locks from level 1 up to end_pwrlvl.          *)
StartLocking(c, operation, end, info) ==
  /\ Goto(c, "lock")
  /\ op' = [op EXCEPT ![c] = operation]
  /\ end_pwrlvl' = [end_pwrlvl EXCEPT ![c] = end]
  /\ lvl' = [lvl EXCEPT ![c] = 1]
  /\ state_info' = [state_info EXCEPT ![c] = info]
  /\ target' = [target EXCEPT ![c] = 0]

StartReleasing(c) ==
  Goto(c, "release") /\ lvl' = [lvl EXCEPT ![c] = end_pwrlvl[c]]

-----------------------------------------------------------------------------
(* psci_setup: every domain and CPU is OFF, then the primary CPU and its   *)
(* ancestors are set to RUN.                                               *)
Init ==
  /\ aff = [c \in CPUs |-> IF c = BootCpu THEN "ON" ELSE "OFF"]
  /\ cpu_state = [c \in CPUs |-> IF c = BootCpu THEN PSCI_LOCAL_STATE_RUN
                                 ELSE PLAT_MAX_OFF_STATE]
  /\ suspend_lvl = [c \in CPUs |-> PSCI_INVALID_PWR_LVL]
  /\ node_state = [n \in Nodes |->
                     IF IsAncestor(n, BootCpu, MaxLvl)
                     THEN PSCI_LOCAL_STATE_RUN ELSE PLAT_MAX_OFF_STATE]
  /\ req = [l \in Levels |-> [c \in CPUs |->
              IF c = BootCpu THEN PSCI_LOCAL_STATE_RUN ELSE PLAT_MAX_OFF_STATE]]
  /\ lock = [n \in Nodes |-> Nobody]
  /\ cpu_lock = [c \in CPUs |-> Nobody]
  /\ context = [c \in CPUs |-> "none"]
  /\ wake = {}
  /\ pc = [c \in CPUs |-> IF c = BootCpu THEN "ns" ELSE "down"]
  /\ op = [c \in CPUs |-> "none"]
  /\ end_pwrlvl = [c \in CPUs |-> 0]
  /\ lvl = [c \in CPUs |-> 0]
  /\ state_info = [c \in CPUs |-> AllLevels(PSCI_LOCAL_STATE_RUN)]
  /\ target = [c \in CPUs |-> 0]

-----------------------------------------------------------------------------
(* psci_acquire_pwr_domain_locks and psci_release_pwr_domain_locks         *)

(* Mutant: the lock does not exclude.                                      *)
LockIsFree_Always(n) == TRUE

LockIsFree(n) == lock[n] = Nobody

AcquireLock(c) ==
  /\ pc[c] = "lock"
  /\ lvl[c] <= end_pwrlvl[c]
  /\ LockIsFree(Parents[c][lvl[c]])
  /\ lock' = [lock EXCEPT ![Parents[c][lvl[c]]] = c]
  /\ lvl' = [lvl EXCEPT ![c] = @ + 1]
  /\ UNCHANGED <<shared, cpu_lock, pc, op, end_pwrlvl, state_info, target>>

HasLocks(c) == pc[c] = "lock" /\ lvl[c] > end_pwrlvl[c]

(* Mutant: the loop stops before level 1.                                  *)
ReleaseLock_KeepsFirst(c) ==
  /\ pc[c] = "release"
  /\ lvl[c] >= 1
  /\ lock' = IF lvl[c] = 1 THEN lock
             ELSE [lock EXCEPT ![Parents[c][lvl[c]]] = Nobody]
  /\ lvl' = [lvl EXCEPT ![c] = @ - 1]
  /\ UNCHANGED <<shared, cpu_lock, pc, op, end_pwrlvl, state_info, target>>

ReleaseLock(c) ==
  /\ pc[c] = "release"
  /\ lvl[c] >= 1
  /\ lock' = [lock EXCEPT ![Parents[c][lvl[c]]] = Nobody]
  /\ lvl' = [lvl EXCEPT ![c] = @ - 1]
  /\ UNCHANGED <<shared, cpu_lock, pc, op, end_pwrlvl, state_info, target>>

Released(c) == pc[c] = "release" /\ lvl[c] = 0

-----------------------------------------------------------------------------
(* psci_do_state_coordination                                              *)

(* Mutant: the levels above a RUN level keep what was asked for.           *)
AboveRun_Asked(s) == s

(* The target of a level above a level that has to run.                    *)
AboveRun(s) == PSCI_LOCAL_STATE_RUN

(* One iteration of the loop over the levels.  When the coordinated state  *)
(* is RUN the levels above get the request recorded and stay in RUN.       *)
CoordinateLevel(c) ==
  /\ pc[c] = "coordinate"
  /\ lvl[c] <= end_pwrlvl[c]
  /\ LET l == lvl[c]
         asked == state_info[c]
         others == {req[l][d] : d \in Span(c, l) \ {c}}
         state == plat_get_target_pwr_state(others \cup {asked[l]})
         stop == is_local_state_run(state)
     IN  /\ req' = [k \in Levels |->
                      IF k = l \/ (stop /\ k > l /\ k <= end_pwrlvl[c])
                      THEN [req[k] EXCEPT ![c] = asked[k]] ELSE req[k]]
         /\ state_info' = [state_info EXCEPT ![c] =
              [k \in 0 .. MaxLvl |->
                 IF k = l THEN state
                 ELSE IF stop /\ k > l /\ k <= end_pwrlvl[c]
                 THEN AboveRun(asked[k]) ELSE asked[k]]]
         /\ lvl' = [lvl EXCEPT ![c] = IF stop THEN end_pwrlvl[c] + 1 ELSE @ + 1]
  /\ UNCHANGED <<aff, cpu_state, suspend_lvl, node_state, context, wake,
                 locks, pc, op, end_pwrlvl, target>>

(* psci_suspend_to_pwrdown_start, for a power-down suspend.                *)
SuspendToPwrdownStart(c) ==
  IF op[c] \in {"powerdown", "system"}
  THEN /\ suspend_lvl' = [suspend_lvl EXCEPT ![c] = end_pwrlvl[c]]
       /\ context' = [context EXCEPT ![c] = "ready"]
  ELSE UNCHANGED <<suspend_lvl, context>>

(* psci_set_target_local_pwr_states, then what the caller does before it   *)
(* releases the locks; the platform hook changes nothing here.             *)
SetTargets(c) ==
  /\ pc[c] = "coordinate"
  /\ lvl[c] > end_pwrlvl[c]
  /\ cpu_state' = [cpu_state EXCEPT ![c] = state_info[c][0]]
  /\ node_state' = [n \in Nodes |->
       IF IsAncestor(n, c, end_pwrlvl[c])
       THEN state_info[c][Level[n]] ELSE node_state[n]]
  /\ SuspendToPwrdownStart(c)
  /\ StartReleasing(c)
  /\ UNCHANGED <<aff, req, wake, locks, op, end_pwrlvl, state_info, target>>

-----------------------------------------------------------------------------
(* CPU_OFF: psci_cpu_off, psci_do_cpu_off                                  *)

CpuOff(c) ==
  /\ "off" \in Calls /\ pc[c] = "ns"
  /\ StartLocking(c, "off", MaxLvl, AllLevels(PLAT_MAX_OFF_STATE))
  /\ UNCHANGED <<shared, locks>>

(* Mutant: the refusal returns with the locks held.                        *)
SvcOffDenied_KeepsLocks(c) ==
  /\ HasLocks(c) /\ op[c] = "off"
  /\ Return(c)
  /\ UNCHANGED <<shared, locks>>

(* The secure payload refuses: E_DENIED, nothing has changed yet.          *)
SvcOffDenied(c) ==
  /\ HasLocks(c) /\ op[c] = "off"
  /\ op' = [op EXCEPT ![c] = "return"]
  /\ StartReleasing(c)
  /\ UNCHANGED <<shared, locks, end_pwrlvl, state_info, target>>

SvcOffAgreed(c) ==
  /\ HasLocks(c) /\ op[c] = "off"
  /\ Goto(c, "coordinate")
  /\ lvl' = [lvl EXCEPT ![c] = 1]
  /\ UNCHANGED <<shared, locks, op, end_pwrlvl, state_info, target>>

(* The last thing a CPU does: aff_info_state OFF, then wfi.                *)
TurnedOff(c) ==
  /\ Released(c) /\ op[c] = "off"
  /\ aff' = [aff EXCEPT ![c] = "OFF"]
  /\ Goto(c, "down") /\ Forget(c)
  /\ UNCHANGED <<cpu_state, suspend_lvl, node_state, req, context, wake, locks>>

-----------------------------------------------------------------------------
(* CPU_SUSPEND: psci_cpu_suspend, psci_cpu_suspend_start                   *)

is_cpu_standby_req(is_power_down_state, retn_lvl) ==
  ~is_power_down_state /\ retn_lvl = 0

CpuSuspend(c) ==
  /\ "suspend" \in Calls /\ pc[c] = "ns"
  /\ \E pd \in BOOLEAN : \E info \in Requests(pd) :
       LET target_pwrlvl == psci_find_target_suspend_lvl(info) IN
       /\ ~is_cpu_standby_req(pd, target_pwrlvl)
       /\ StartLocking(c, IF pd THEN "powerdown" ELSE "retention",
                       target_pwrlvl, info)
  /\ UNCHANGED <<shared, locks>>

(* The fast path without locks: retention of this CPU only.                *)
CpuStandby(c) ==
  /\ "suspend" \in Calls /\ pc[c] = "ns"
  /\ \E info \in Requests(FALSE) :
       /\ is_cpu_standby_req(FALSE, psci_find_target_suspend_lvl(info))
       /\ cpu_state' = [cpu_state EXCEPT ![c] = info[0]]
  /\ Goto(c, "standby")
  /\ UNCHANGED <<aff, suspend_lvl, node_state, req, context, wake, locks, locals>>

StandbyExit(c) ==
  /\ pc[c] = "standby"
  /\ cpu_state' = [cpu_state EXCEPT ![c] = PSCI_LOCAL_STATE_RUN]
  /\ Return(c)
  /\ UNCHANGED <<aff, suspend_lvl, node_state, req, context, wake, locks>>

Suspending(c) == op[c] \in {"powerdown", "retention", "system"}

(* read_isr_el1 with the locks held: an interrupt came in, give up.        *)
SuspendAbandoned(c) ==
  /\ HasLocks(c) /\ Suspending(c)
  /\ op' = [op EXCEPT ![c] = "return"]
  /\ StartReleasing(c)
  /\ UNCHANGED <<shared, locks, end_pwrlvl, state_info, target>>

SuspendProceeds(c) ==
  /\ HasLocks(c) /\ Suspending(c)
  /\ Goto(c, "coordinate")
  /\ lvl' = [lvl EXCEPT ![c] = 1]
  /\ UNCHANGED <<shared, locks, op, end_pwrlvl, state_info, target>>

(* The final wfi of a power-down suspend.                                  *)
Suspended(c) ==
  /\ Released(c) /\ op[c] \in {"powerdown", "system"}
  /\ Goto(c, "suspended")
  /\ end_pwrlvl' = [end_pwrlvl EXCEPT ![c] = 0]
  /\ state_info' = [state_info EXCEPT ![c] = AllLevels(PSCI_LOCAL_STATE_RUN)]
  /\ UNCHANGED <<shared, locks, op, lvl, target>>

(* wfi with retention keeps the context: end_pwrlvl is still there.        *)
EnterRetention(c) ==
  /\ Released(c) /\ op[c] = "retention"
  /\ Goto(c, "wfi")
  /\ state_info' = [state_info EXCEPT ![c] = AllLevels(PSCI_LOCAL_STATE_RUN)]
  /\ UNCHANGED <<shared, locks, op, end_pwrlvl, lvl, target>>

(* psci_suspend_to_standby_finisher                                        *)
RetentionExit(c) ==
  /\ pc[c] = "wfi"
  /\ StartLocking(c, "finisher", end_pwrlvl[c], state_info[c])
  /\ UNCHANGED <<shared, locks>>

-----------------------------------------------------------------------------
(* SYSTEM_SUSPEND: psci_system_suspend                                     *)

SystemSuspend(c) ==
  /\ "system" \in Calls /\ pc[c] = "ns"
  /\ Goto(c, "is_last_on_cpu")
  /\ UNCHANGED <<shared, locks, locals>>

(* Mutant: a CPU that is about to boot counts as off.                      *)
IsOff_OrPending(t) == aff[t] # "ON"

IsOff(t) == aff[t] = "OFF"

(* One iteration of the loop of psci_is_last_on_cpu.                       *)
IsLastOnCpu(c) ==
  /\ pc[c] = "is_last_on_cpu"
  /\ target[c] < NCpus
  /\ IF target[c] # c /\ ~IsOff(target[c])
     THEN Return(c)
     ELSE /\ GotoIf(c, target[c] = c => aff[c] = "ON", "is_last_on_cpu")
          /\ target' = [target EXCEPT ![c] = @ + 1]
          /\ UNCHANGED <<op, end_pwrlvl, lvl, state_info>>
  /\ UNCHANGED <<shared, locks>>

LastOnCpu(c) ==
  /\ pc[c] = "is_last_on_cpu"
  /\ target[c] = NCpus
  /\ StartLocking(c, "system", MaxLvl, AllLevels(PLAT_MAX_OFF_STATE))
  /\ UNCHANGED <<shared, locks>>

-----------------------------------------------------------------------------
(* CPU_ON: psci_cpu_on_start                                               *)

CpuOn(c, t) ==
  /\ "on" \in Calls /\ pc[c] = "ns"
  /\ Goto(c, "spin_lock")
  /\ target' = [target EXCEPT ![c] = t]
  /\ UNCHANGED <<shared, locks, op, end_pwrlvl, lvl, state_info>>

(* Mutant: no spin lock around CPU_ON.                                     *)
SpinIsFree_Always(t) == TRUE

SpinIsFree(t) == cpu_lock[t] = Nobody

SpinLockCpu(c) ==
  /\ pc[c] = "spin_lock"
  /\ SpinIsFree(target[c])
  /\ cpu_lock' = [cpu_lock EXCEPT ![target[c]] = c]
  /\ Goto(c, "validate_state")
  /\ UNCHANGED <<shared, lock, locals>>

(* Mutant: a CPU that runs can be turned on again.                         *)
cpu_on_validate_state_PendingOnly(state) == state # "ON_PENDING"

cpu_on_validate_state(state) == state = "OFF"

(* ALREADY_ON or ON_PENDING go back to the caller.                         *)
OnRefused(c) ==
  /\ pc[c] = "validate_state"
  /\ ~cpu_on_validate_state(aff[target[c]])
  /\ Goto(c, "spin_unlock")
  /\ UNCHANGED <<shared, locks, locals>>

OnAccepted(c) ==
  /\ pc[c] = "validate_state"
  /\ cpu_on_validate_state(aff[target[c]])
  /\ Goto(c, "set_pending")
  /\ UNCHANGED <<shared, locks, locals>>

(* Mutant: the target is started with its state still OFF.                 *)
OnPending_NotSet(c) ==
  /\ pc[c] = "set_pending"
  /\ Goto(c, "pwr_domain_on")
  /\ UNCHANGED <<shared, locks, locals>>

OnPending(c) ==
  /\ pc[c] = "set_pending"
  /\ aff' = [aff EXCEPT ![target[c]] = "ON_PENDING"]
  /\ Goto(c, "pwr_domain_on")
  /\ UNCHANGED <<cpu_state, suspend_lvl, node_state, req, context, wake, locks,
                 locals>>

(* The platform hook starts the target, which may boot from now on.        *)
PwrDomainOn(c) ==
  /\ pc[c] = "pwr_domain_on"
  /\ wake' = wake \cup {target[c]}
  /\ Goto(c, "init_context")
  /\ UNCHANGED <<aff, cpu_state, suspend_lvl, node_state, req, context, locks,
                 locals>>

(* PSCI_E_INTERN_FAIL: the target goes back to OFF.                        *)
PwrDomainOnFails(c) ==
  /\ pc[c] = "pwr_domain_on"
  /\ aff' = [aff EXCEPT ![target[c]] = "OFF"]
  /\ Goto(c, "spin_unlock")
  /\ UNCHANGED <<cpu_state, suspend_lvl, node_state, req, context, wake, locks,
                 locals>>

(* cm_init_context_by_index                                                *)
InitContext(c) ==
  /\ pc[c] = "init_context"
  /\ context' = [context EXCEPT ![target[c]] = "ready"]
  /\ Goto(c, "spin_unlock")
  /\ UNCHANGED <<aff, cpu_state, suspend_lvl, node_state, req, wake, locks,
                 locals>>

(* Mutant: CPU_ON waits for the target before it unlocks.                  *)
SpinUnlockCpu_AfterBoot(c) ==
  /\ pc[c] = "spin_unlock"
  /\ aff[target[c]] # "ON_PENDING"
  /\ cpu_lock' = [cpu_lock EXCEPT ![target[c]] = Nobody]
  /\ Return(c)
  /\ UNCHANGED <<shared, lock>>

SpinUnlockCpu(c) ==
  /\ pc[c] = "spin_unlock"
  /\ cpu_lock' = [cpu_lock EXCEPT ![target[c]] = Nobody]
  /\ Return(c)
  /\ UNCHANGED <<shared, lock>>

-----------------------------------------------------------------------------
(* Warm boot: psci_warmboot_entrypoint                                     *)

(* The power controller starts a CPU that CPU_ON asked for; an interrupt   *)
(* wakes a suspended one.                                                  *)
PowerUp(c) ==
  /\ pc[c] = "down" /\ c \in wake
  /\ wake' = wake \ {c}
  /\ Goto(c, "warmboot")
  /\ UNCHANGED <<aff, cpu_state, suspend_lvl, node_state, req, context, locks,
                 locals>>

Resume(c) ==
  /\ pc[c] = "suspended"
  /\ Goto(c, "warmboot") /\ Forget(c)
  /\ UNCHANGED <<shared, locks>>

(* Mutant: no default for a CPU that was not suspended.                    *)
get_power_on_target_pwrlvl_Raw(c) == suspend_lvl[c]

get_power_on_target_pwrlvl(c) ==
  IF suspend_lvl[c] = PSCI_INVALID_PWR_LVL THEN MaxLvl ELSE suspend_lvl[c]

WarmbootEntrypoint(c) ==
  /\ pc[c] = "warmboot"
  /\ IF aff[c] = "OFF"
     THEN Goto(c, "panic") /\ UNCHANGED locals
     ELSE StartLocking(c, "boot", get_power_on_target_pwrlvl(c),
                       AllLevels(PSCI_LOCAL_STATE_RUN))
  /\ UNCHANGED <<shared, locks>>

(* The states this CPU and its domains emerge from; levels above stay RUN. *)
psci_get_target_local_pwr_states(c) ==
  [l \in 0 .. MaxLvl |->
     IF l = 0 THEN cpu_state[c]
     ELSE IF l <= end_pwrlvl[c] THEN node_state[Parents[c][l]]
     ELSE PSCI_LOCAL_STATE_RUN]

ChooseFinisher(c) ==
  /\ HasLocks(c) /\ op[c] = "boot"
  /\ state_info' = [state_info EXCEPT ![c] = psci_get_target_local_pwr_states(c)]
  /\ Goto(c, IF aff[c] = "ON_PENDING" THEN "on_finish" ELSE "suspend_finish")
  /\ UNCHANGED <<shared, locks, op, end_pwrlvl, lvl, target>>

(* Mutant: the boot does not synchronise with CPU_ON.                      *)
CpuOnFinish_NoSync(c) ==
  /\ pc[c] = "on_finish"
  /\ GotoIf(c, aff[c] = "ON_PENDING", "to_run")
  /\ UNCHANGED <<shared, locks, locals>>

(* psci_cpu_on_finish takes and drops the spin lock that CPU_ON holds      *)
(* until the context is there.                                             *)
CpuOnFinish(c) ==
  /\ pc[c] = "on_finish"
  /\ SpinIsFree(c)
  /\ GotoIf(c, aff[c] = "ON_PENDING", "to_run")
  /\ UNCHANGED <<shared, locks, locals>>

(* Mutant: the suspend level stays valid after the resume.                 *)
CpuSuspendFinish_KeepsLevel(c) ==
  /\ pc[c] = "suspend_finish"
  /\ GotoIf(c, aff[c] = "ON" /\ is_local_state_off(state_info[c][0]), "to_run")
  /\ UNCHANGED <<shared, locks, locals>>

(* psci_cpu_suspend_finish                                                 *)
CpuSuspendFinish(c) ==
  /\ pc[c] = "suspend_finish"
  /\ GotoIf(c, aff[c] = "ON" /\ is_local_state_off(state_info[c][0]), "to_run")
  /\ suspend_lvl' = [suspend_lvl EXCEPT ![c] = PSCI_INVALID_PWR_LVL]
  /\ UNCHANGED <<aff, cpu_state, node_state, req, context, wake, locks, locals>>

(* Mutant: the vote of the CPU is not withdrawn.                           *)
RunVote_Kept(vote) == vote

(* psci_set_req_local_pwr_state(lvl, cpu_idx, PSCI_LOCAL_STATE_RUN)        *)
RunVote(vote) == PSCI_LOCAL_STATE_RUN

(* psci_set_pwr_domains_to_run, at the end of a warm boot and of the       *)
(* retention finisher.  The boot leaves by the context prepared for it.    *)
SetPwrDomainsToRun(c) ==
  /\ pc[c] = "to_run" \/ (HasLocks(c) /\ op[c] = "finisher")
  /\ node_state' = [n \in Nodes |-> IF IsAncestor(n, c, end_pwrlvl[c])
                                    THEN PSCI_LOCAL_STATE_RUN ELSE node_state[n]]
  /\ req' = [l \in Levels |->
               IF l <= end_pwrlvl[c]
               THEN [req[l] EXCEPT ![c] = RunVote(@)] ELSE req[l]]
  /\ aff' = [aff EXCEPT ![c] = "ON"]
  /\ cpu_state' = [cpu_state EXCEPT ![c] = PSCI_LOCAL_STATE_RUN]
  /\ context' = [context EXCEPT ![c] = "none"]
  /\ StartReleasing(c)
  /\ UNCHANGED <<suspend_lvl, wake, locks, op, end_pwrlvl, state_info, target>>

(* A denied CPU_OFF, an abandoned or finished suspend, a finished boot.    *)
BackToNormalWorld(c) ==
  /\ Released(c) /\ op[c] \in {"return", "boot", "finisher"}
  /\ Return(c)
  /\ UNCHANGED <<shared, locks>>

-----------------------------------------------------------------------------
(* What a CPU does without being asked from outside.                       *)
Firmware(c) ==
  \/ ReleaseLock(c) \/ CoordinateLevel(c) \/ SetTargets(c)
  \/ SvcOffDenied(c) \/ SvcOffAgreed(c) \/ TurnedOff(c)
  \/ SuspendAbandoned(c) \/ SuspendProceeds(c) \/ Suspended(c)
  \/ EnterRetention(c)
  \/ IsLastOnCpu(c) \/ LastOnCpu(c)
  \/ SpinLockCpu(c) \/ OnRefused(c) \/ OnAccepted(c) \/ OnPending(c)
  \/ PwrDomainOn(c) \/ PwrDomainOnFails(c) \/ InitContext(c) \/ SpinUnlockCpu(c)
  \/ PowerUp(c) \/ WarmbootEntrypoint(c) \/ ChooseFinisher(c)
  \/ CpuOnFinish(c) \/ CpuSuspendFinish(c) \/ SetPwrDomainsToRun(c)
  \/ BackToNormalWorld(c)

(* Calls of the normal world, and interrupts that end a low-power state.   *)
Environment(c) ==
  \/ CpuOff(c) \/ CpuSuspend(c) \/ CpuStandby(c) \/ SystemSuspend(c)
  \/ \E t \in CPUs : CpuOn(c, t)
  \/ StandbyExit(c) \/ RetentionExit(c) \/ Resume(c)

Next == \E c \in CPUs : AcquireLock(c) \/ Firmware(c) \/ Environment(c)

Spec == Init /\ [][Next]_vars

(* Firmware keeps running; a contended domain lock is granted in turn      *)
(* (StarvationFree of BakeryLock), the spin lock promises no order.        *)
Fairness == \A c \in CPUs : WF_vars(Firmware(c)) /\ SF_vars(AcquireLock(c))

FairSpec == Spec /\ Fairness

-----------------------------------------------------------------------------
Labels == {"ns", "lock", "coordinate", "release", "standby", "wfi", "down",
           "suspended", "is_last_on_cpu", "spin_lock", "validate_state",
           "set_pending", "pwr_domain_on", "init_context", "spin_unlock", "warmboot",
           "on_finish", "suspend_finish", "to_run", "panic"}

Operations == {"none", "off", "powerdown", "retention", "system", "finisher",
               "boot", "return"}

TypeOK ==
  /\ aff \in [CPUs -> {"ON", "OFF", "ON_PENDING"}]
  /\ cpu_state \in [CPUs -> LocalStates]
  /\ suspend_lvl \in [CPUs -> 0 .. PSCI_INVALID_PWR_LVL]
  /\ node_state \in [Nodes -> LocalStates]
  /\ req \in [Levels -> [CPUs -> LocalStates]]
  /\ lock \in [Nodes -> CPUs \cup {Nobody}]
  /\ cpu_lock \in [CPUs -> CPUs \cup {Nobody}]
  /\ context \in [CPUs -> {"none", "ready"}]
  /\ wake \subseteq CPUs
  /\ pc \in [CPUs -> Labels]
  /\ op \in [CPUs -> Operations]
  /\ end_pwrlvl \in [CPUs -> 0 .. MaxLvl]
  /\ lvl \in [CPUs -> 0 .. MaxLvl + 1]
  /\ state_info \in [CPUs -> StateInfo]
  /\ target \in [CPUs -> 0 .. NCpus]

(* The CPU executes and has not begun to give up its domains, or has       *)
(* already got them back.                                                  *)
Awake(c) ==
  \/ pc[c] \in {"ns", "is_last_on_cpu", "spin_lock", "validate_state",
                "set_pending", "pwr_domain_on", "init_context", "spin_unlock"}
  \/ pc[c] = "lock" /\ op[c] \in {"off", "powerdown", "retention", "system"}
  \/ pc[c] = "release" /\ op[c] \in {"return", "boot", "finisher"}

(* Its context is in its registers: it may sleep but not lose power.       *)
Retaining(c) ==
  \/ Awake(c)
  \/ pc[c] \in {"standby", "wfi"}
  \/ op[c] \in {"retention", "finisher"}

(* No power domain of a running CPU is ever in a low-power state, however  *)
(* the other CPUs suspend, turn off and wake up around it.                 *)
RunningDomains ==
  \A c \in CPUs : Awake(c) =>
    \A l \in Levels : is_local_state_run(node_state[Parents[c][l]])

(* After a denied CPU_OFF, an abandoned or finished suspend or a warm boot *)
(* nothing of the low-power request is left: not the state the next warm   *)
(* boot would read, nor a vote that would let a domain go down.            *)
NothingLeftBehind ==
  \A c \in CPUs : Awake(c) =>
    /\ aff[c] = "ON" /\ is_local_state_run(cpu_state[c])
    /\ suspend_lvl[c] = PSCI_INVALID_PWR_LVL
    /\ \A l \in Levels : is_local_state_run(req[l][c])

(* A domain is OFF only when every CPU in it has given up its context; a   *)
(* CPU in retention never loses its power.                                 *)
OffDomainsAreEmpty ==
  \A c \in CPUs : \A l \in Levels :
    is_local_state_off(node_state[Parents[c][l]])
      => is_local_state_off(cpu_state[c]) /\ ~Retaining(c)

(* A domain is never deeper than any of its CPUs has asked for.            *)
CoordinationRespected ==
  \A c \in CPUs : \A l \in Levels : node_state[Parents[c][l]] <= req[l][c]

(* A domain is never deeper than a domain it contains.                     *)
ParentNotDeeper ==
  \A c \in CPUs : \A l \in Levels \ {MaxLvl} :
    node_state[Parents[c][l + 1]] <= node_state[Parents[c][l]]

(* No assertion of the handlers fails, and no CPU panics because it booted *)
(* while its aff_info_state says OFF (psci_common.c:743).                  *)
NoPanic == \A c \in CPUs : pc[c] # "panic"

(* A CPU leaves the warm boot only by a context that was set up for it,    *)
(* although CPU_ON starts the CPU before it writes the context.            *)
ContextReady == \A c \in CPUs : pc[c] = "to_run" => context[c] = "ready"

(* "verifies that the all the other cores in the system have been turned   *)
(* OFF and the current CPU is the last running CPU" (psci_common.c:167):   *)
(* from there on, and while the system sleeps, every other CPU is OFF.     *)
SystemSuspendIsLast ==
  \A c \in CPUs : op[c] = "system" => \A d \in CPUs \ {c} : aff[d] = "OFF"

(* Whenever a CPU is inside the firmware some CPU can go on: the domain    *)
(* locks and the spin locks never close a circle.                          *)
NoDeadlock ==
  (\E c \in CPUs : pc[c] \notin {"ns", "standby", "wfi", "down", "suspended"})
    => ENABLED (\E c \in CPUs : AcquireLock(c) \/ Firmware(c))

Booting(c) == pc[c] = "warmboot" \/ op[c] = "boot"

(* A CPU that is started reaches the normal world, unless CPU_ON calls for *)
(* it keep the unordered spin lock busy for ever.                          *)
BootCompletes ==
  \A c \in CPUs :
    <>[](cpu_lock[c] = Nobody) => (c \in wake \/ Booting(c)) ~> (pc[c] = "ns")

(* Every call to CPU_OFF, CPU_SUSPEND or SYSTEM_SUSPEND comes to an end:   *)
(* it returns or the CPU reaches its low-power state.                      *)
CallsEnd ==
  \A c \in CPUs :
    op[c] \in {"off", "powerdown", "retention", "system", "return", "finisher"}
      ~> pc[c] \in {"ns", "down", "suspended", "wfi"}

Where == [c \in CPUs |-> IF pc[c] = "ns" THEN "normal"
                         ELSE IF pc[c] \in {"down", "suspended"} THEN "down"
                         ELSE "firmware"]

Contract == INSTANCE PsciContract WITH where <- Where

(* Step by step the handlers keep the contract of the PSCI functions: only *)
(* a CPU that is off is turned on, once, and it runs only after that.      *)
KeepsContract == Contract!Spec
=============================================================================
