-------------------------------- MODULE Tspd --------------------------------
(***************************************************************************)
(* The Test Secure Payload dispatcher of BL31 (services/spd/tspd) with the *)
(* payload it dispatches to (bl32/tsp).  On every CPU the normal world     *)
(* issues fast and standard SMCs, resumes a preempted standard SMC, takes  *)
(* secure interrupts and makes PSCI calls, all of which enter the payload  *)
(* through the one saved secure context `cpu_ctx' of that CPU.             *)
(*                                                                         *)
(* A saved context is the point of execution (`elr'), whether IRQ and FIQ  *)
(* are unmasked there (`irq', from SPSR), and the general purpose          *)
(* registers, of which the model keeps what the arithmetic service         *)
(* computes from: the argument of the SMC (`x') and the argument obtained  *)
(* with TSP_GET_ARGS (`svc').                                              *)
(***************************************************************************)
EXTENDS InterruptMgmt

CONSTANTS
    CPU,        \* the CPUs
    Primary,    \* the CPU that cold boots
    Clients,    \* the CPUs whose normal world calls the arithmetic services
    Args        \* arguments of the arithmetic SMCs

ASSUME PrimaryAssumption == Primary \in CPU /\ Clients \subseteq CPU

None == "none"

ASSUME ArgsAssumption == None \notin Args

VARIABLES
    async,              \* the build option TSP_NS_INTR_ASYNC_PREEMPT
    tsp_vectors,        \* the payload has handed over its vector table
    intr_type_descs,    \* InterruptMgmt, one for the system
    scr_el3,            \* InterruptMgmt, per CPU
    world,              \* what runs on the CPU
    pstate,             \* tsp_context.state, the power state field
    std_smc_active,     \* tsp_context.state, the flag
    cpu_ctx,            \* tsp_context.cpu_ctx, the saved secure context
    saved_el3,          \* tsp_context.saved_elr_el3 and saved_spsr_el3
    sp_ctx,             \* tsp_context.sp_ctx, the saved registers x0 to x17
    saved_tsp_args,     \* tsp_context.saved_tsp_args
    c_rt_ctx,           \* tsp_context.c_rt_ctx: the hook waiting for the TSP
    tsp,                \* the payload's live context while it runs
    frame,              \* what a vector of the payload saved on its stack
    call,               \* history: the arithmetic SMC not yet answered
    reply,              \* what the last SMC of the normal world returned
    crossed             \* history: a power hook ran while a call was preempted

vars == <<async, tsp_vectors, intr_type_descs, scr_el3, world, pstate,
          std_smc_active, cpu_ctx, saved_el3, sp_ctx, saved_tsp_args,
          c_rt_ctx, tsp, frame, call, reply, crossed>>

\* Everything but the variables an SMC, an interrupt or a TSP step may touch.
globals == <<async, tsp_vectors, intr_type_descs>>

Worlds == {"off", "ns", "sec", "suspended", "halted", "panic"}

Hooks == {"init", "on", "off", "suspend", "resume", "system_off", "system_reset"}

\* The points at which the payload can be.  "past" is the instruction after an
\* SMC that never returns, where the payload panics; "irq" is the one after
\* the SMC by which an interrupt vector reports a preemption.
StdPoints == {"std_entry", "std_args", "std_calc", "std_exit"}
Points == StdPoints \cup Hooks
          \cup {"fast_entry", "fast_calc", "sel1_intr", "irq", "past"}

Regs == [x : Args \cup {None}, svc : Args \cup {None}]
NoRegs == [x |-> None, svc |-> None]

Contexts == [elr : Points, irq : BOOLEAN, regs : Regs]
\* A context whose registers mean nothing to anyone.
At(point, irq) == [elr |-> point, irq |-> irq, regs |-> NoRegs]

NoCall == [type |-> None, arg |-> None]
Calls == [type : {"fast", "std"}, arg : Args] \cup {NoCall}

Replies == [code : {None, "unk", "preempted"}, res : {NoRegs}, of : {NoCall}]
           \cup [code : {"done"}, res : Regs, of : Calls]
Reply(code) == [code |-> code, res |-> NoRegs, of |-> NoCall]

TypeOK ==
    /\ async \in BOOLEAN /\ tsp_vectors \in BOOLEAN
    /\ intr_type_descs \in [INTR_TYPES -> [handler : BOOLEAN, flags : SUBSET SECURITY_STATES]]
    /\ scr_el3 \in [CPU -> [SECURITY_STATES -> SUBSET INTR_TYPES]]
    /\ world \in [CPU -> Worlds]
    /\ pstate \in [CPU -> {"OFF", "ON", "SUSPEND"}]
    /\ std_smc_active \in [CPU -> BOOLEAN]
    /\ cpu_ctx \in [CPU -> Contexts]
    /\ saved_el3 \in [CPU -> [elr : Points, irq : BOOLEAN]]
    /\ sp_ctx \in [CPU -> Regs] /\ frame \in [CPU -> Contexts]
    /\ saved_tsp_args \in [CPU -> Args \cup {None}]
    /\ c_rt_ctx \in [CPU -> Hooks \cup {None, "stale"}]
    /\ tsp \in [CPU -> Contexts]
    /\ call \in [CPU -> Calls] /\ reply \in [CPU -> Replies]
    /\ crossed \in [CPU -> BOOLEAN]

(***************************************************************************)
(* tspd_setup() and tspd_init(): the primary CPU enters the payload at its *)
(* entry point and waits for TSP_ENTRY_DONE.                               *)
(***************************************************************************)
Init ==
    /\ async \in BOOLEAN
    /\ tsp_vectors = FALSE
    /\ intr_type_descs = InitialDescs
    /\ scr_el3 = [c \in CPU |-> ScrFromRoutingModel(InitialDescs)]
    /\ world = [c \in CPU |-> IF c = Primary THEN "sec" ELSE "off"]
    /\ pstate = [c \in CPU |-> "OFF"]
    /\ std_smc_active = [c \in CPU |-> FALSE]
    /\ cpu_ctx = [c \in CPU |-> At("init", FALSE)]
    /\ saved_el3 = [c \in CPU |-> [elr |-> "past", irq |-> FALSE]]
    /\ sp_ctx = [c \in CPU |-> NoRegs] /\ frame = [c \in CPU |-> At("past", FALSE)]
    /\ saved_tsp_args = [c \in CPU |-> None]
    /\ c_rt_ctx = [c \in CPU |-> IF c = Primary THEN "init" ELSE None]
    /\ tsp = [c \in CPU |-> At(IF c = Primary THEN "init" ELSE "past", FALSE)]
    /\ call = [c \in CPU |-> NoCall] /\ reply = [c \in CPU |-> Reply(None)]
    /\ crossed = [c \in CPU |-> FALSE]

\* el3_exit() into the secure world: the payload runs from context ctx.  What
\* cpu_ctx holds from here to the next exception is that same context.
EnterTsp(c, ctx) ==
    /\ world' = [world EXCEPT ![c] = "sec"]
    /\ tsp' = [tsp EXCEPT ![c] = ctx]
    /\ cpu_ctx' = [cpu_ctx EXCEPT ![c] = ctx]

\* An exception to EL3 saves the payload's context as ctx, and the dispatcher
\* returns to the normal world.  A hook still waiting for the payload has then
\* lost its frame on the EL3 stack, which the next SMC overwrites.
LeaveTsp(c, ctx) ==
    /\ world' = [world EXCEPT ![c] = "ns"]
    /\ tsp' = [tsp EXCEPT ![c] = At("past", FALSE)]
    /\ cpu_ctx' = [cpu_ctx EXCEPT ![c] = ctx]
    /\ c_rt_ctx' = [c_rt_ctx EXCEPT ![c] = IF @ = None THEN None ELSE "stale"]

-----------------------------------------------------------------------------
(* SMCs of the normal world: tspd_smc_handler() with ns set.                 *)

\* Mutant: no check for a preempted call.
Busy_Never(c) == FALSE

\* "Check if we are already preempted".
Busy(c) == std_smc_active[c]

\* SMC_UNK: a function ID only the payload may use, an arithmetic SMC while
\* a standard one is active, or TSP_FID_RESUME while none is.
SmcUnknown(c) ==
    /\ world[c] = "ns"
    /\ reply' = [reply EXCEPT ![c] = Reply("unk")]
    /\ UNCHANGED <<globals, scr_el3, world, pstate, std_smc_active, cpu_ctx, saved_el3,
                   sp_ctx, saved_tsp_args, c_rt_ctx, tsp, frame, call, crossed>>

\* TSP_FAST_FID(): the payload services it with interrupts as SPSR has them.
FastSmc(c, a) ==
    /\ world[c] = "ns"
    /\ ~Busy(c)
    /\ saved_tsp_args' = [saved_tsp_args EXCEPT ![c] = a]
    /\ EnterTsp(c, [cpu_ctx[c] EXCEPT !.elr = "fast_entry", !.regs = [x |-> a, svc |-> None]])
    /\ call' = [call EXCEPT ![c] = [type |-> "fast", arg |-> a]]
    /\ reply' = [reply EXCEPT ![c] = Reply(None)]
    /\ UNCHANGED <<globals, scr_el3, pstate, std_smc_active, saved_el3, sp_ctx,
                   c_rt_ctx, frame, crossed>>

\* The routing of NS interrupts while a standard SMC is being serviced.
RouteNs(c) ==
    scr_el3' = [scr_el3 EXCEPT ![c] =
        IF async THEN enable_intr_rm_local(intr_type_descs, @, "NS", "SECURE") ELSE @]

\* Mutant: the routing outlives the standard SMC.
UnrouteNs_Kept(c) == UNCHANGED scr_el3

UnrouteNs(c) ==
    scr_el3' = [scr_el3 EXCEPT ![c] =
        IF async THEN disable_intr_rm_local(@, "NS", "SECURE") ELSE @]

\* TSP_STD_FID().
StdSmc(c, a) ==
    /\ world[c] = "ns"
    /\ ~Busy(c)
    /\ saved_tsp_args' = [saved_tsp_args EXCEPT ![c] = a]
    /\ std_smc_active' = [std_smc_active EXCEPT ![c] = TRUE]
    /\ RouteNs(c)
    /\ EnterTsp(c, [cpu_ctx[c] EXCEPT !.elr = "std_entry", !.regs = [x |-> a, svc |-> None]])
    /\ call' = [call EXCEPT ![c] = [type |-> "std", arg |-> a]]
    /\ reply' = [reply EXCEPT ![c] = Reply(None)]
    /\ UNCHANGED <<globals, pstate, saved_el3, sp_ctx, c_rt_ctx, frame, crossed>>

\* TSP_FID_RESUME.
Resume(c) ==
    /\ world[c] = "ns"
    /\ std_smc_active[c]
    /\ RouteNs(c)
    /\ EnterTsp(c, cpu_ctx[c])
    /\ reply' = [reply EXCEPT ![c] = Reply(None)]
    /\ UNCHANGED <<globals, pstate, std_smc_active, saved_el3, sp_ctx, saved_tsp_args,
                   c_rt_ctx, frame, call, crossed>>

-----------------------------------------------------------------------------
(* Interrupts.                                                               *)

\* Mutant: the registers of a preempted payload are not copied.
SaveRegs_Missing(c) == UNCHANGED sp_ctx

\* "Need to save the previously interrupted secure context".
SaveRegs(c) ==
    sp_ctx' = [sp_ctx EXCEPT ![c] =
        IF std_smc_active[c] /\ async THEN cpu_ctx[c].regs ELSE @]

\* tspd_sel1_interrupt_handler(): a secure interrupt while the normal world
\* runs.  The context of a preempted payload is put aside.
Sel1Interrupt(c) ==
    /\ world[c] = "ns"
    /\ "S_EL1" \in scr_el3[c]["NON_SECURE"]
    /\ saved_el3' = [saved_el3 EXCEPT ![c] =
          IF std_smc_active[c] THEN [elr |-> cpu_ctx[c].elr, irq |-> cpu_ctx[c].irq] ELSE @]
    /\ SaveRegs(c)
    /\ EnterTsp(c, At("sel1_intr", FALSE))
    /\ UNCHANGED <<globals, scr_el3, pstate, std_smc_active, saved_tsp_args, c_rt_ctx,
                   frame, call, reply, crossed>>

\* TSP_HANDLED_S_EL1_INTR: back to the normal world, with the context of a
\* preempted payload put back.  The payload's own registers are lost but for
\* the copy in sp_ctx.
TspHandledIntr(c) ==
    /\ world[c] = "sec"
    /\ tsp[c].elr = "sel1_intr"
    /\ LeaveTsp(c, IF std_smc_active[c]
                   THEN [elr |-> saved_el3[c].elr, irq |-> saved_el3[c].irq,
                         regs |-> IF async THEN sp_ctx[c] ELSE NoRegs]
                   ELSE At("past", FALSE))
    /\ UNCHANGED <<globals, scr_el3, pstate, std_smc_active, saved_el3, sp_ctx,
                   saved_tsp_args, frame, call, reply, crossed>>

\* tspd_ns_interrupt_handler(): a non-secure interrupt routed to EL3, whatever
\* the payload masks, then tspd_handle_sp_preemption().
NsInterruptToEl3(c) ==
    /\ world[c] = "sec"
    /\ "NS" \in scr_el3[c]["SECURE"]
    /\ scr_el3' = [scr_el3 EXCEPT ![c] = disable_intr_rm_local(@, "NS", "SECURE")]
    /\ LeaveTsp(c, tsp[c])
    /\ reply' = [reply EXCEPT ![c] = Reply("preempted")]
    /\ UNCHANGED <<globals, pstate, std_smc_active, saved_el3, sp_ctx, saved_tsp_args,
                   frame, call, crossed>>

\* handle_tsp_interrupt: a non-secure interrupt taken by the payload's vector,
\* which saves the registers on its stack and reports TSP_PREEMPTED.
NsInterruptToTsp(c) ==
    /\ world[c] = "sec"
    /\ "NS" \notin scr_el3[c]["SECURE"]
    /\ tsp[c].irq
    /\ frame' = [frame EXCEPT ![c] = tsp[c]]
    /\ LeaveTsp(c, At("irq", FALSE))
    /\ reply' = [reply EXCEPT ![c] = Reply("preempted")]
    /\ UNCHANGED <<globals, scr_el3, pstate, std_smc_active, saved_el3, sp_ctx,
                   saved_tsp_args, call, crossed>>

-----------------------------------------------------------------------------
(* The payload servicing an arithmetic SMC: tsp_std_smc_entry,               *)
(* tsp_fast_smc_entry and tsp_smc_handler().                                 *)

TspMoves(c, ctx) ==
    /\ world[c] = "sec"
    /\ tsp' = [tsp EXCEPT ![c] = ctx]
    /\ UNCHANGED <<globals, scr_el3, world, pstate, std_smc_active, cpu_ctx, saved_el3,
                   sp_ctx, saved_tsp_args, c_rt_ctx, frame, call, reply, crossed>>

\* tsp_std_smc_entry unmasks IRQ and FIQ ...
TspUnmask(c) ==
    /\ tsp[c].elr = "std_entry"
    /\ TspMoves(c, [tsp[c] EXCEPT !.elr = "std_args", !.irq = TRUE])

\* ... tsp_get_magic() asks the dispatcher for the arguments (TSP_GET_ARGS) ...
TspGetArgs(c) ==
    /\ tsp[c].elr \in {"std_args", "fast_entry"}
    /\ TspMoves(c, [tsp[c] EXCEPT
          !.elr = IF @ = "std_args" THEN "std_calc" ELSE "fast_calc",
          !.regs.svc = saved_tsp_args[c]])

\* ... and the standard entry masks them again.
TspMask(c) ==
    /\ tsp[c].elr = "std_calc"
    /\ TspMoves(c, [tsp[c] EXCEPT !.elr = "std_exit", !.irq = FALSE])

\* Mutant: the vector reports the preemption again instead of returning.
TspVectorReturn_Again(c) ==
    /\ tsp[c].elr = "irq"
    /\ TspMoves(c, tsp[c])

\* The vector's return to the preempted code after TSP_PREEMPTED.
TspVectorReturn(c) ==
    /\ tsp[c].elr = "irq"
    /\ TspMoves(c, frame[c])

\* The result SMC: tspd_smc_handler() with the function ID of the request and
\* ns clear.
TspResult(c, point) ==
    /\ world[c] = "sec"
    /\ tsp[c].elr = point
    /\ LeaveTsp(c, At("past", tsp[c].irq))
    /\ reply' = [reply EXCEPT ![c] = [code |-> "done", res |-> tsp[c].regs, of |-> call[c]]]
    /\ call' = [call EXCEPT ![c] = NoCall]

TspFastDone(c) ==
    /\ TspResult(c, "fast_calc")
    /\ UNCHANGED <<globals, scr_el3, pstate, std_smc_active, saved_el3, sp_ctx,
                   saved_tsp_args, frame, crossed>>

TspStdDone(c) ==
    /\ TspResult(c, "std_exit")
    /\ std_smc_active' = [std_smc_active EXCEPT ![c] = FALSE]
    /\ UnrouteNs(c)
    /\ UNCHANGED <<globals, pstate, saved_el3, sp_ctx, saved_tsp_args, frame, crossed>>

\* "Should never reach here": plat_panic_handler.
TspPanic(c) ==
    /\ world[c] = "sec"
    /\ tsp[c].elr = "past"
    /\ world' = [world EXCEPT ![c] = "panic"]
    /\ UNCHANGED <<globals, scr_el3, pstate, std_smc_active, cpu_ctx, saved_el3, sp_ctx,
                   saved_tsp_args, c_rt_ctx, tsp, frame, call, reply, crossed>>

-----------------------------------------------------------------------------
(* The hooks the dispatcher registers with PSCI (tspd_pm.c).                 *)

\* The assertions of a hook and of tspd_synchronous_sp_entry().
HookAsserts(c, ps) == tsp_vectors /\ pstate[c] = ps /\ c_rt_ctx[c] = None

\* cm_set_elr_el3() and tspd_synchronous_sp_entry().
EnterHook(c, h) ==
    /\ EnterTsp(c, [cpu_ctx[c] EXCEPT !.elr = h, !.regs = NoRegs])
    /\ c_rt_ctx' = [c_rt_ctx EXCEPT ![c] = h]
    /\ crossed' = [crossed EXCEPT ![c] = @ \/ std_smc_active[c]]
    /\ UNCHANGED <<globals, scr_el3, pstate, std_smc_active, saved_el3, sp_ctx,
                   saved_tsp_args, frame, call, reply>>

\* One of these assertions fails, or that of tspd_synchronous_sp_exit().
AssertFails(c) ==
    /\ world' = [world EXCEPT ![c] = "panic"]
    /\ UNCHANGED <<globals, scr_el3, pstate, std_smc_active, cpu_ctx, saved_el3, sp_ctx,
                   saved_tsp_args, c_rt_ctx, tsp, frame, call, reply, crossed>>

\* tspd_cpu_off_handler(), tspd_cpu_suspend_handler(), tspd_system_off() and
\* tspd_system_reset(): a PSCI call of the normal world on this CPU.
PowerDown(c, h) ==
    /\ world[c] = "ns"
    /\ IF HookAsserts(c, "ON") THEN EnterHook(c, h) ELSE AssertFails(c)

\* tspd_cpu_suspend_finish_handler().
Wake(c) ==
    /\ world[c] = "suspended"
    /\ HookAsserts(c, "SUSPEND")
    /\ EnterHook(c, "resume")

\* PSCI turns the CPU on: cm_init_my_context() takes the routing model in force.
ScrAtPowerOn == ScrFromRoutingModel(intr_type_descs)

\* tspd_cpu_on_finish_handler() on a CPU another one has turned on.
CpuOn(c) ==
    /\ world[c] = "off"
    /\ \E d \in CPU : world[d] = "ns"
    /\ HookAsserts(c, "OFF")
    /\ std_smc_active' = [std_smc_active EXCEPT ![c] = FALSE]
    /\ scr_el3' = [scr_el3 EXCEPT ![c] =
          IF async THEN disable_intr_rm_local(ScrAtPowerOn, "NS", "SECURE") ELSE ScrAtPowerOn]
    /\ EnterTsp(c, At("on", FALSE))
    /\ c_rt_ctx' = [c_rt_ctx EXCEPT ![c] = "on"]
    /\ call' = [call EXCEPT ![c] = NoCall]
    /\ reply' = [reply EXCEPT ![c] = Reply(None)]
    /\ crossed' = [crossed EXCEPT ![c] = FALSE]
    /\ UNCHANGED <<globals, pstate, saved_el3, sp_ctx, saved_tsp_args, frame>>

\* What a hook sets the power state to, and where the CPU goes after it.
StateAfter == [init |-> "ON", on |-> "ON", resume |-> "ON", off |-> "OFF",
               suspend |-> "SUSPEND", system_off |-> "ON", system_reset |-> "ON"]
WorldAfter == [init |-> "ns", on |-> "ns", resume |-> "ns", off |-> "off",
               suspend |-> "suspended", system_off |-> "halted", system_reset |-> "halted"]

\* tspd_synchronous_sp_exit() to the hook that waits, which then finishes.
LeaveHook(c) ==
    LET h == c_rt_ctx[c] IN
    /\ world' = [world EXCEPT ![c] = WorldAfter[h]]
    /\ pstate' = [pstate EXCEPT ![c] = StateAfter[h]]
    /\ cpu_ctx' = [cpu_ctx EXCEPT ![c] = At("past", tsp[c].irq)]
    /\ tsp' = [tsp EXCEPT ![c] = At("past", FALSE)]
    /\ c_rt_ctx' = [c_rt_ctx EXCEPT ![c] = None]
    /\ UNCHANGED <<async, std_smc_active, saved_el3, sp_ctx, saved_tsp_args, frame, call,
                   reply, crossed>>

\* TSP_ENTRY_DONE: the handlers are registered, and NS interrupts disabled
\* on this CPU.  A registration that fails is a panic.
TspEntryDone(c) ==
    LET sel1 == {"NON_SECURE"}
        ns == {"SECURE"}
        d1 == Register(intr_type_descs, "S_EL1", sel1)
        scr1 == ScrAfterRegister(scr_el3[c], "S_EL1", sel1)
    IN
    /\ world[c] = "sec"
    /\ tsp[c].elr = "init"
    /\ CanRegister(intr_type_descs, "S_EL1", sel1)
    /\ async => CanRegister(d1, "NS", ns)
    /\ tsp_vectors' = TRUE
    /\ intr_type_descs' = IF async THEN Register(d1, "NS", ns) ELSE d1
    /\ scr_el3' = [scr_el3 EXCEPT ![c] =
          IF async THEN disable_intr_rm_local(ScrAfterRegister(scr1, "NS", ns), "NS", "SECURE")
                   ELSE scr1]
    /\ LeaveHook(c)

\* TSP_ON_DONE, TSP_OFF_DONE, TSP_SUSPEND_DONE, TSP_RESUME_DONE and the two
\* system ones.  Without a frame to go back to, the outcome is a crash of EL3.
TspHookDone(c) ==
    /\ world[c] = "sec"
    /\ tsp[c].elr \in Hooks \ {"init"}
    /\ IF c_rt_ctx[c] \in Hooks
       THEN LeaveHook(c) /\ UNCHANGED <<tsp_vectors, intr_type_descs, scr_el3>>
       ELSE AssertFails(c)

-----------------------------------------------------------------------------
TspStep(c) ==
    \/ TspUnmask(c) \/ TspGetArgs(c) \/ TspMask(c) \/ TspVectorReturn(c)
    \/ TspFastDone(c) \/ TspStdDone(c) \/ TspHandledIntr(c)
    \/ TspEntryDone(c) \/ TspHookDone(c) \/ TspPanic(c)

NormalWorld(c) ==
    \/ SmcUnknown(c)
    \/ Resume(c)
    \/ \E h \in {"off", "suspend", "system_off", "system_reset"} : PowerDown(c, h)
    \/ Wake(c) \/ CpuOn(c)

Interrupt(c) == Sel1Interrupt(c) \/ NsInterruptToEl3(c) \/ NsInterruptToTsp(c)

Next ==
    \/ \E c \in Clients, a \in Args : FastSmc(c, a) \/ StdSmc(c, a)
    \/ \E c \in CPU : TspStep(c) \/ NormalWorld(c) \/ Interrupt(c)

Spec == Init /\ [][Next]_vars

\* The payload gets through each of its steps between interrupts, and a client
\* whose call was preempted resumes it, as the loop of
\* docs/interrupt-framework-design.md does.
FairSpec ==
    /\ Spec
    /\ \A c \in Clients :
          /\ SF_vars(TspUnmask(c)) /\ SF_vars(TspGetArgs(c)) /\ SF_vars(TspMask(c))
          /\ SF_vars(TspStdDone(c)) /\ SF_vars(Resume(c))
          /\ WF_vars(TspVectorReturn(c)) /\ WF_vars(TspHandledIntr(c))

-----------------------------------------------------------------------------
(* Properties.                                                               *)

\* A context from which the payload carries on with the standard SMC in
\* progress: the point is one of that SMC and the registers hold its argument.
HoldsCall(c, ctx) ==
    /\ ctx.elr \in StdPoints
    /\ ctx.regs.x = call[c].arg
    /\ ctx.regs.svc = IF ctx.elr \in {"std_entry", "std_args"} THEN None ELSE call[c].arg

\* While the normal world runs with a standard SMC preempted, the saved secure
\* context is the one to resume it from, whatever secure interrupts were
\* handled meanwhile: directly, or through the frame on the payload's stack.
PreemptedCallKept(c) ==
    world[c] = "ns" /\ std_smc_active[c] =>
        \/ HoldsCall(c, cpu_ctx[c])
        \/ cpu_ctx[c].elr = "irq" /\ HoldsCall(c, frame[c])

\* ... as long as no power management hook entered the payload meanwhile.
PreemptedCallSafe == \A c \in CPU : ~crossed[c] => PreemptedCallKept(c)

\* The result returned to the normal world was computed from the arguments of
\* the call it answers, both those passed in registers and those the payload
\* fetched with TSP_GET_ARGS, however often the call was preempted and whatever
\* interrupts were handled in between.  A CPU whose preempted call was crossed
\* by a power management hook is excepted until it is turned on again: the hook
\* overwrites the context the call would go on from.
ResultIsOfTheCall ==
    \A c \in CPU : reply[c].code = "done" /\ ~crossed[c] =>
        reply[c].res = [x |-> reply[c].of.arg, svc |-> reply[c].of.arg]

\* Only a standard SMC is ever preempted: not a fast SMC, not the handling of a
\* secure interrupt, and not a power management hook, in either build, as long
\* as no hook has crossed a preempted call.  In the asynchronous build a hook
\* that does so runs with the interrupt mask and the routing of the call, and
\* can itself be preempted.
OnlyStdPreempted ==
    \A c \in CPU : reply[c].code = "preempted" /\ ~crossed[c] /\ world[c] = "ns" =>
        std_smc_active[c] /\ call[c].type = "std" /\ c_rt_ctx[c] = None

\* No assertion of the hooks fails, the payload never runs past an SMC that
\* does not return, and the power state the dispatcher records agrees with
\* what the CPU does, until a hook has crossed a preempted call of the CPU.
NoPanic ==
    \A c \in CPU : ~crossed[c] =>
        /\ world[c] # "panic"
        /\ world[c] = "ns" => HookAsserts(c, "ON")
        /\ world[c] = "suspended" => HookAsserts(c, "SUSPEND")
        /\ world[c] = "off" /\ tsp_vectors => HookAsserts(c, "OFF")

\* A standard SMC is eventually answered, however it is preempted, unless a
\* power management call of its own CPU takes it away.
StdCallEnds ==
    \A c \in CPU : std_smc_active[c] ~> (~std_smc_active[c] \/ crossed[c])
=============================================================================
