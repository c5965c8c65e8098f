--------------------------- MODULE TspdInvariant ---------------------------
(* The inductive invariant of Tspd, and the proofs that the SMCs of the     *)
(* normal world and the interrupts preserve it.                             *)
EXTENDS Tspd, TLAPS

Routed(c) == "NS" \in scr_el3[c]["SECURE"]

(* What holds of a CPU whenever the dispatcher has nothing to wait for.     *)
Ready(c) == c_rt_ctx[c] = None /\ pstate[c] = "ON" /\ tsp_vectors

(* The standard SMC in progress, with the arguments kept for TSP_GET_ARGS.  *)
StdInProgress(c) ==
    /\ std_smc_active[c] /\ call[c].type = "std" /\ saved_tsp_args[c] = call[c].arg

(* The payload is at a point of that SMC, with interrupts as it set them.   *)
Carries(c, ctx) ==
    HoldsCall(c, ctx) /\ (ctx.irq <=> ctx.elr \in {"std_args", "std_calc"})

(* A saved context from which the SMC can be resumed.  When EL3 takes the   *)
(* interrupt it is the payload's own; otherwise it is that of the payload's *)
(* vector, which kept the payload's own on its stack.                       *)
Resumable(c, ctx) ==
    IF async THEN Carries(c, ctx)
             ELSE ctx.elr = "irq" /\ ~ctx.irq /\ Carries(c, frame[c])

NormalInv(c) ==
    /\ Ready(c) /\ ~Routed(c)
    /\ std_smc_active[c] => StdInProgress(c) /\ Resumable(c, cpu_ctx[c])
    /\ ~std_smc_active[c] => ~cpu_ctx[c].irq

PutAside(c) == [elr |-> saved_el3[c].elr, irq |-> saved_el3[c].irq,
                regs |-> IF async THEN sp_ctx[c] ELSE NoRegs]

StdInv(c) ==
    /\ Ready(c) /\ StdInProgress(c) /\ Carries(c, tsp[c]) /\ (Routed(c) <=> async)

VectorInv(c) ==
    /\ Ready(c) /\ StdInProgress(c) /\ Carries(c, frame[c])
    /\ ~async /\ ~Routed(c) /\ ~tsp[c].irq

FastInv(c) ==
    /\ Ready(c) /\ ~Routed(c) /\ ~std_smc_active[c] /\ ~tsp[c].irq
    /\ call[c].type = "fast" /\ saved_tsp_args[c] = call[c].arg
    /\ tsp[c].regs.x = call[c].arg
    /\ tsp[c].elr = "fast_calc" => tsp[c].regs.svc = call[c].arg

Sel1Inv(c) ==
    /\ Ready(c) /\ ~Routed(c) /\ ~tsp[c].irq
    /\ std_smc_active[c] => StdInProgress(c) /\ Resumable(c, PutAside(c))

HookInv(c) ==
    /\ c_rt_ctx[c] = tsp[c].elr /\ ~Routed(c) /\ ~std_smc_active[c] /\ ~tsp[c].irq
    /\ tsp[c].elr # "init" => tsp_vectors

(* By the point at which the payload runs.                                  *)
SecureInv(c) ==
    /\ tsp[c].elr # "past"
    /\ tsp[c].elr \in StdPoints => StdInv(c)
    /\ tsp[c].elr = "irq" => VectorInv(c)
    /\ tsp[c].elr \in {"fast_entry", "fast_calc"} => FastInv(c)
    /\ tsp[c].elr = "sel1_intr" => Sel1Inv(c)
    /\ tsp[c].elr \in Hooks => HookInv(c)

SuspendedInv(c) ==
    /\ tsp_vectors /\ c_rt_ctx[c] = None /\ pstate[c] = "SUSPEND"
    /\ ~Routed(c) /\ ~std_smc_active[c] /\ ~cpu_ctx[c].irq

(* A CPU no hook of which has run across a preempted call.                  *)
CpuInv(c) ==
    /\ world[c] # "panic"
    /\ world[c] = "ns" => NormalInv(c)
    /\ world[c] = "sec" => SecureInv(c)
    /\ world[c] = "suspended" => SuspendedInv(c)
    /\ world[c] = "off" => c_rt_ctx[c] = None /\ pstate[c] = "OFF"
    /\ reply[c].code = "preempted" => std_smc_active[c]
    /\ reply[c].code = "done" =>
          reply[c].res = [x |-> reply[c].of.arg, svc |-> reply[c].of.arg]

(* The handlers are registered once, by TSP_ENTRY_DONE, before any call.    *)
RegisteredInv ==
    /\ tsp_vectors => intr_type_descs["S_EL1"].handler
    /\ "SECURE" \in intr_type_descs["NS"].flags <=> (tsp_vectors /\ async)

IInv ==
    /\ TypeOK /\ RegisteredInv
    /\ \A c \in CPU : crossed[c] => tsp_vectors
    /\ \A c \in CPU : ~crossed[c] => CpuInv(c)

-----------------------------------------------------------------------------
(* A step of one CPU leaves the others as they are.                         *)
Same(d) ==
    /\ scr_el3'[d] = scr_el3[d] /\ world'[d] = world[d] /\ pstate'[d] = pstate[d]
    /\ std_smc_active'[d] = std_smc_active[d] /\ cpu_ctx'[d] = cpu_ctx[d]
    /\ saved_el3'[d] = saved_el3[d] /\ sp_ctx'[d] = sp_ctx[d]
    /\ saved_tsp_args'[d] = saved_tsp_args[d] /\ c_rt_ctx'[d] = c_rt_ctx[d]
    /\ tsp'[d] = tsp[d] /\ frame'[d] = frame[d] /\ call'[d] = call[d]
    /\ reply'[d] = reply[d] /\ crossed'[d] = crossed[d]

(* What CpuInv says of a CPU depends on nothing another CPU changes.        *)
LEMMA Frame ==
    ASSUME NEW d \in CPU, CpuInv(d), Same(d), async' = async, tsp_vectors => tsp_vectors'
    PROVE  CpuInv(d)'
<1> USE DEF Same
<1>1. NormalInv(d) => NormalInv(d)'
  BY DEF NormalInv, Ready, Routed, StdInProgress, Resumable, Carries, HoldsCall
<1>2. SuspendedInv(d) => SuspendedInv(d)'
  BY DEF SuspendedInv, Routed
<1>3. StdInv(d) => StdInv(d)'
  BY DEF StdInv, Ready, StdInProgress, Carries, HoldsCall, Routed
<1>4. VectorInv(d) => VectorInv(d)'
  BY DEF VectorInv, Ready, StdInProgress, Carries, HoldsCall, Routed
<1>5. FastInv(d) => FastInv(d)'
  BY DEF FastInv, Ready, Routed
<1>6. Sel1Inv(d) => Sel1Inv(d)'
  BY DEF Sel1Inv, Ready, Routed, StdInProgress, Resumable, Carries, HoldsCall, PutAside
<1>7. HookInv(d) => HookInv(d)'
  BY DEF HookInv, Routed
<1>8. SecureInv(d) => SecureInv(d)'
  BY <1>3, <1>4, <1>5, <1>6, <1>7 DEF SecureInv
<1> QED
  BY <1>1, <1>2, <1>8 DEF CpuInv

(* It is enough to look at the CPU that takes the step.                     *)
LEMMA Local ==
    ASSUME IInv, NEW c \in CPU, TypeOK', RegisteredInv',
           async' = async, tsp_vectors => tsp_vectors',
           \A d \in CPU \ {c} : Same(d),
           crossed'[c] => tsp_vectors', ~crossed'[c] => CpuInv(c)'
    PROVE  IInv'
<1>1. ASSUME NEW d \in CPU PROVE (crossed[d] => tsp_vectors)'
  BY <1>1 DEF IInv, Same
<1>2. ASSUME NEW d \in CPU, ~crossed'[d] PROVE CpuInv(d)'
  <2>1. CASE d = c
    BY <1>2, <2>1
  <2>2. CASE d # c
    BY <1>2, <2>2, Frame DEF IInv, Same
  <2> QED
    BY <2>1, <2>2
<1> QED
  BY <1>1, <1>2 DEF IInv

(* The contexts the dispatcher makes up itself.                             *)
LEMMA ContextType ==
    ASSUME NEW p \in Points, NEW i \in BOOLEAN
    PROVE  /\ At(p, i) \in Contexts
           /\ At(p, i).elr = p /\ At(p, i).irq = i /\ At(p, i).regs = NoRegs
BY DEF At, Contexts, Regs, NoRegs

(* The answers that carry no result.                                        *)
LEMMA ReplyType ==
    ASSUME NEW code \in {None, "unk", "preempted"}
    PROVE  Reply(code) \in Replies /\ Reply(code).code = code
BY DEF Reply, Replies

(* The local routing of non-secure interrupts, on and off.                  *)
LEMMA RoutesType ==
    ASSUME TypeOK, NEW c \in CPU, RouteNs(c) \/ UnrouteNs(c)
    PROVE  scr_el3' \in [CPU -> [SECURITY_STATES -> SUBSET INTR_TYPES]]
<1>1. "NS" \in INTR_TYPES /\ "SECURE" \in SECURITY_STATES
  BY DEF INTR_TYPES, SECURITY_STATES
<1>2. scr_el3[c] \in [SECURITY_STATES -> SUBSET INTR_TYPES]
  BY DEF TypeOK
<1>3. enable_intr_rm_local(intr_type_descs, scr_el3[c], "NS", "SECURE")
         \in [SECURITY_STATES -> SUBSET INTR_TYPES]
  BY <1>1, <1>2 DEF enable_intr_rm_local, WriteScrBit
<1>4. disable_intr_rm_local(scr_el3[c], "NS", "SECURE")
         \in [SECURITY_STATES -> SUBSET INTR_TYPES]
  BY <1>1, <1>2 DEF disable_intr_rm_local, WriteScrBit
<1> QED
  BY <1>2, <1>3, <1>4, Zenon DEF TypeOK, RouteNs, UnrouteNs

(* enable_intr_rm_local() routes, in the build that registered a handler.   *)
LEMMA Routes ==
    ASSUME TypeOK, RegisteredInv, tsp_vectors, NEW c \in CPU, ~Routed(c),
           RouteNs(c), UNCHANGED globals
    PROVE  Routed(c)' <=> async'
BY DEF TypeOK, RegisteredInv, Routed, RouteNs, enable_intr_rm_local, WriteScrBit,
       SECURITY_STATES, INTR_TYPES, globals

(* disable_intr_rm_local() ends the routing.                                *)
LEMMA Unroutes ==
    ASSUME TypeOK, NEW c \in CPU, Routed(c) <=> async, UnrouteNs(c)
    PROVE  ~Routed(c)'
BY DEF TypeOK, Routed, UnrouteNs, disable_intr_rm_local, WriteScrBit,
       SECURITY_STATES, INTR_TYPES

(* Answering SMC_UNK touches nothing but the answer.                        *)
LEMMA SmcUnknownInv ==
    ASSUME IInv, NEW c \in CPU, SmcUnknown(c)
    PROVE  IInv'
<1>1. TypeOK'
  BY ReplyType DEF IInv, TypeOK, SmcUnknown, globals
<1>2. RegisteredInv'
  BY DEF IInv, RegisteredInv, SmcUnknown, globals
<1>3. \A d \in CPU \ {c} : Same(d)
  BY DEF IInv, TypeOK, Same, SmcUnknown, globals
<1>4. crossed'[c] => tsp_vectors'
  BY DEF IInv, TypeOK, SmcUnknown, globals
<1>5. ASSUME ~crossed'[c] PROVE CpuInv(c)'
  <2>1. CpuInv(c)
    BY <1>5 DEF IInv, TypeOK, SmcUnknown, globals
  <2>2. NormalInv(c)
    BY <2>1 DEF CpuInv, SmcUnknown
  <2>3. /\ reply'[c] = Reply("unk")
        /\ world'[c] = "ns"
    BY DEF IInv, TypeOK, SmcUnknown, globals
  <2>4. NormalInv(c)'
    BY <2>2, <2>3 DEF NormalInv, Ready, Routed, StdInProgress, Resumable,
       Carries, HoldsCall, SmcUnknown, globals
  <2> QED
    BY <2>1, <2>3, <2>4, ReplyType DEF CpuInv
<1>6. async' = async /\ (tsp_vectors => tsp_vectors')
  BY DEF SmcUnknown, globals
<1> QED
  BY <1>1, <1>2, <1>3, <1>4, <1>5, <1>6, Local

(* A fast SMC: the payload starts from a context with interrupts masked.    *)
LEMMA FastSmcInv ==
    ASSUME IInv, NEW c \in CPU, NEW a \in Args, FastSmc(c, a)
    PROVE  IInv'
<1> DEFINE new == [cpu_ctx[c] EXCEPT !.elr = "fast_entry", !.regs = [x |-> a, svc |-> None]]
<1>a. /\ new \in Contexts /\ new.elr = "fast_entry" /\ new.irq = cpu_ctx[c].irq
      /\ new.irq \in BOOLEAN /\ new.regs = [x |-> a, svc |-> None]
  <2>1. "fast_entry" \in Points /\ [x |-> a, svc |-> None] \in Regs /\ cpu_ctx[c] \in Contexts
    BY DEF IInv, TypeOK, Regs, Points, StdPoints
  <2> QED
    BY <2>1, Zenon DEF Contexts
<1>b. EnterTsp(c, new) /\ [type |-> "fast", arg |-> a] \in Calls
  BY DEF FastSmc, Calls
<1> HIDE DEF new
<1>1. TypeOK'
  BY <1>a, <1>b, ReplyType DEF IInv, TypeOK, Worlds, FastSmc, EnterTsp, Busy,
     globals
<1>2. RegisteredInv'
  BY DEF IInv, RegisteredInv, FastSmc, EnterTsp, Busy, globals
<1>3. \A d \in CPU \ {c} : Same(d)
  BY DEF IInv, TypeOK, Same, FastSmc, EnterTsp, Busy, globals
<1>4. crossed'[c] => tsp_vectors'
  BY DEF IInv, TypeOK, FastSmc, EnterTsp, Busy, globals
<1>5. ASSUME ~crossed'[c] PROVE CpuInv(c)'
  <2>1. CpuInv(c)
    BY <1>5 DEF IInv, TypeOK, FastSmc, EnterTsp, Busy, globals
  <2>2. NormalInv(c) /\ ~std_smc_active[c]
    BY <2>1 DEF CpuInv, FastSmc, Busy, globals
  <2>3. /\ tsp'[c] = new /\ world'[c] = "sec" /\ reply'[c] = Reply(None)
        /\ call'[c] = [type |-> "fast", arg |-> a] /\ saved_tsp_args'[c] = a
        /\ c_rt_ctx'[c] = c_rt_ctx[c] /\ pstate'[c] = pstate[c]
        /\ std_smc_active'[c] = std_smc_active[c]
        /\ scr_el3'[c] = scr_el3[c]
        /\ tsp_vectors' = tsp_vectors
    BY <1>b DEF IInv, TypeOK, FastSmc, EnterTsp, Busy, globals
  <2>4. FastInv(c)'
    BY <2>2, <2>3, <1>a DEF NormalInv, FastInv, Ready, Routed
  <2> QED
    BY <2>1, <2>3, <2>4, <1>a, ReplyType DEF CpuInv, SecureInv, StdPoints,
       Hooks, None
<1>6. async' = async /\ (tsp_vectors => tsp_vectors')
  BY DEF FastSmc, EnterTsp, Busy, globals
<1> QED
  BY <1>1, <1>2, <1>3, <1>4, <1>5, <1>6, Local

(* A standard SMC: the flag, the routing and the arguments are set together.*)
LEMMA StdSmcInv ==
    ASSUME IInv, NEW c \in CPU, NEW a \in Args, StdSmc(c, a)
    PROVE  IInv'
<1> DEFINE new == [cpu_ctx[c] EXCEPT !.elr = "std_entry", !.regs = [x |-> a, svc |-> None]]
<1>a. /\ new \in Contexts /\ new.elr = "std_entry" /\ new.irq = cpu_ctx[c].irq
      /\ new.irq \in BOOLEAN /\ new.regs = [x |-> a, svc |-> None]
  <2>1. "std_entry" \in Points /\ [x |-> a, svc |-> None] \in Regs /\ cpu_ctx[c] \in Contexts
    BY DEF IInv, TypeOK, Regs, Points, StdPoints
  <2> QED
    BY <2>1, Zenon DEF Contexts
<1>b. EnterTsp(c, new) /\ [type |-> "std", arg |-> a] \in Calls
  BY DEF StdSmc, Calls
<1> HIDE DEF new
<1>1. TypeOK'
  BY <1>a, <1>b, ReplyType, RoutesType DEF IInv, TypeOK, Worlds, StdSmc,
     EnterTsp, Busy, globals
<1>2. RegisteredInv'
  BY DEF IInv, RegisteredInv, StdSmc, EnterTsp, Busy, globals, RouteNs
<1>3. \A d \in CPU \ {c} : Same(d)
  BY DEF IInv, TypeOK, Same, StdSmc, EnterTsp, Busy, globals, RouteNs
<1>4. crossed'[c] => tsp_vectors'
  BY DEF IInv, TypeOK, StdSmc, EnterTsp, Busy, globals, RouteNs
<1>5. ASSUME ~crossed'[c] PROVE CpuInv(c)'
  <2>1. CpuInv(c)
    BY <1>5 DEF IInv, TypeOK, StdSmc, EnterTsp, Busy, globals, RouteNs
  <2>2. NormalInv(c) /\ ~std_smc_active[c]
    BY <2>1 DEF CpuInv, StdSmc, Busy, globals
  <2>3. /\ tsp'[c] = new /\ world'[c] = "sec" /\ reply'[c] = Reply(None)
        /\ call'[c] = [type |-> "std", arg |-> a] /\ saved_tsp_args'[c] = a
        /\ std_smc_active'[c]
        /\ c_rt_ctx'[c] = c_rt_ctx[c] /\ pstate'[c] = pstate[c]
        /\ tsp_vectors' = tsp_vectors
    BY <1>b DEF IInv, TypeOK, StdSmc, EnterTsp, Busy, globals, RouteNs
  <2>4. StdInv(c)'
    <3>1. Routed(c)' <=> async'
      BY <2>2, Routes DEF NormalInv, Ready, IInv, StdSmc
    <3>2. Carries(c, tsp[c])'
      BY <2>2, <2>3, <1>a DEF Carries, HoldsCall, StdPoints, NormalInv
    <3> QED
      BY <2>2, <2>3, <3>1, <3>2 DEF NormalInv, StdInv, Ready, StdInProgress
  <2> QED
    BY <2>1, <2>3, <2>4, <1>a, ReplyType DEF CpuInv, SecureInv, StdPoints,
       Hooks, None
<1>6. async' = async /\ (tsp_vectors => tsp_vectors')
  BY DEF StdSmc, EnterTsp, Busy, globals, RouteNs
<1> QED
  BY <1>1, <1>2, <1>3, <1>4, <1>5, <1>6, Local

(* TSP_FID_RESUME: by Resumable, the payload carries on with the SMC, or    *)
(* returns from its interrupt vector to it.                                 *)
LEMMA ResumeInv ==
    ASSUME IInv, NEW c \in CPU, Resume(c)
    PROVE  IInv'
<1>1. TypeOK'
  BY ReplyType, RoutesType DEF IInv, TypeOK, Worlds, Resume, EnterTsp, globals
<1>2. RegisteredInv'
  BY DEF IInv, RegisteredInv, Resume, EnterTsp, RouteNs, globals
<1>3. \A d \in CPU \ {c} : Same(d)
  BY DEF IInv, TypeOK, Same, Resume, EnterTsp, RouteNs, globals
<1>4. crossed'[c] => tsp_vectors'
  BY DEF IInv, TypeOK, Resume, EnterTsp, RouteNs, globals
<1>5. ASSUME ~crossed'[c] PROVE CpuInv(c)'
  <2>1. CpuInv(c)
    BY <1>5 DEF IInv, TypeOK, Resume, EnterTsp, RouteNs, globals
  <2>2. NormalInv(c) /\ std_smc_active[c]
    BY <2>1 DEF CpuInv, Resume
  <2>3. /\ tsp'[c] = cpu_ctx[c] /\ world'[c] = "sec" /\ reply'[c] = Reply(None)
        /\ call'[c] = call[c] /\ saved_tsp_args'[c] = saved_tsp_args[c]
        /\ std_smc_active'[c] = std_smc_active[c]
        /\ c_rt_ctx'[c] = c_rt_ctx[c] /\ pstate'[c] = pstate[c] /\ frame'[c] = frame[c]
        /\ tsp_vectors' = tsp_vectors /\ async' = async
    BY DEF IInv, TypeOK, Resume, EnterTsp, RouteNs, globals
  <2>4. Routed(c)' <=> async'
    BY <2>2, Routes DEF NormalInv, Ready, IInv, Resume
  <2>5. StdInProgress(c)' /\ Ready(c)'
    BY <2>2, <2>3 DEF NormalInv, Ready, StdInProgress
  <2>6. CASE async
    <3>1. Carries(c, tsp[c])' /\ tsp'[c].elr \in StdPoints
      BY <2>2, <2>3, <2>6 DEF NormalInv, Resumable, Carries, HoldsCall
    <3> QED
      BY <2>3, <2>4, <2>5, <3>1, ReplyType DEF CpuInv, SecureInv, StdInv, StdPoints, Hooks, None
  <2>7. CASE ~async
    <3>1. tsp'[c].elr = "irq" /\ ~tsp'[c].irq /\ Carries(c, frame[c])'
      BY <2>2, <2>3, <2>7 DEF NormalInv, Resumable, Carries, HoldsCall
    <3> QED
      BY <2>3, <2>4, <2>5, <2>7, <3>1, ReplyType
         DEF CpuInv, SecureInv, VectorInv, StdPoints, Hooks, None
  <2> QED
    BY <2>6, <2>7
<1>6. async' = async /\ (tsp_vectors => tsp_vectors')
  BY DEF Resume, EnterTsp, RouteNs, globals
<1> QED
  BY <1>1, <1>2, <1>3, <1>4, <1>5, <1>6, Local

(* A secure interrupt puts the context of a preempted SMC aside, whole.     *)
LEMMA Sel1InterruptInv ==
    ASSUME IInv, NEW c \in CPU, Sel1Interrupt(c)
    PROVE  IInv'
<1>a. /\ At("sel1_intr", FALSE) \in Contexts
      /\ At("sel1_intr", FALSE).elr = "sel1_intr" /\ ~At("sel1_intr", FALSE).irq
  BY ContextType, Zenon DEF Points
<1>b. cpu_ctx[c].elr \in Points /\ cpu_ctx[c].irq \in BOOLEAN /\ cpu_ctx[c].regs \in Regs
  BY DEF IInv, TypeOK, Contexts
<1>1. TypeOK'
  BY <1>a, <1>b, Zenon DEF IInv, TypeOK, Worlds, Sel1Interrupt, SaveRegs, EnterTsp,
     globals
<1>2. RegisteredInv'
  BY DEF IInv, RegisteredInv, Sel1Interrupt, SaveRegs, EnterTsp, globals
<1>3. \A d \in CPU \ {c} : Same(d)
  BY DEF IInv, TypeOK, Same, Sel1Interrupt, SaveRegs, EnterTsp, globals
<1>4. crossed'[c] => tsp_vectors'
  BY DEF IInv, TypeOK, Sel1Interrupt, SaveRegs, EnterTsp, globals
<1>5. ASSUME ~crossed'[c] PROVE CpuInv(c)'
  <2>1. CpuInv(c)
    BY <1>5 DEF IInv, TypeOK, Sel1Interrupt, SaveRegs, EnterTsp, globals
  <2>2. NormalInv(c)
    BY <2>1 DEF CpuInv, Sel1Interrupt
  <2>3. /\ tsp'[c] = At("sel1_intr", FALSE) /\ world'[c] = "sec" /\ reply'[c] = reply[c]
        /\ call'[c] = call[c] /\ saved_tsp_args'[c] = saved_tsp_args[c]
        /\ std_smc_active'[c] = std_smc_active[c]
        /\ c_rt_ctx'[c] = c_rt_ctx[c] /\ pstate'[c] = pstate[c] /\ frame'[c] = frame[c]
        /\ scr_el3'[c] = scr_el3[c]
        /\ tsp_vectors' = tsp_vectors /\ async' = async
        /\ std_smc_active[c] => saved_el3'[c] = [elr |-> cpu_ctx[c].elr, irq |-> cpu_ctx[c].irq]
        /\ std_smc_active[c] /\ async => sp_ctx'[c] = cpu_ctx[c].regs
    BY DEF IInv, TypeOK, Sel1Interrupt, SaveRegs, EnterTsp, globals
  <2>4. std_smc_active[c] => Resumable(c, PutAside(c))'
    BY <2>2, <2>3 DEF NormalInv, Resumable, PutAside, Carries, HoldsCall
  <2>5. Sel1Inv(c)'
    BY <2>2, <2>3, <2>4, <1>a, Zenon DEF NormalInv, Sel1Inv, Ready, Routed, StdInProgress
  <2> QED
    BY <2>1, <2>3, <2>5, <1>a, Zenon DEF CpuInv, SecureInv, StdPoints, Hooks
<1>6. async' = async /\ (tsp_vectors => tsp_vectors')
  BY DEF Sel1Interrupt, SaveRegs, EnterTsp, globals
<1> QED
  BY <1>1, <1>2, <1>3, <1>4, <1>5, <1>6, Local

(* TSP_HANDLED_S_EL1_INTR puts it back.                                     *)
LEMMA TspHandledIntrInv ==
    ASSUME IInv, NEW c \in CPU, TspHandledIntr(c)
    PROVE  IInv'
<1>a. At("past", FALSE) \in Contexts /\ ~At("past", FALSE).irq
  BY ContextType, Zenon DEF Points
<1>b. PutAside(c) \in Contexts
  BY DEF IInv, TypeOK, PutAside, Contexts, Regs, NoRegs
<1>c. cpu_ctx'[c] = IF std_smc_active[c] THEN PutAside(c) ELSE At("past", FALSE)
  BY DEF IInv, TypeOK, PutAside, TspHandledIntr, LeaveTsp
<1>1. TypeOK'
  BY <1>a, <1>b, <1>c, Zenon DEF IInv, TypeOK, Worlds, TspHandledIntr, LeaveTsp,
     globals
<1>2. RegisteredInv'
  BY DEF IInv, RegisteredInv, TspHandledIntr, LeaveTsp, globals
<1>3. \A d \in CPU \ {c} : Same(d)
  BY DEF IInv, TypeOK, Same, TspHandledIntr, LeaveTsp, globals
<1>4. crossed'[c] => tsp_vectors'
  BY DEF IInv, TypeOK, TspHandledIntr, LeaveTsp, globals
<1>5. ASSUME ~crossed'[c] PROVE CpuInv(c)'
  <2>1. CpuInv(c)
    BY <1>5 DEF IInv, TypeOK, TspHandledIntr, LeaveTsp, globals
  <2>2. Sel1Inv(c)
    BY <2>1 DEF CpuInv, SecureInv, TspHandledIntr
  <2>3. /\ world'[c] = "ns" /\ reply'[c] = reply[c] /\ c_rt_ctx'[c] = None
        /\ call'[c] = call[c] /\ saved_tsp_args'[c] = saved_tsp_args[c]
        /\ std_smc_active'[c] = std_smc_active[c]
        /\ pstate'[c] = pstate[c] /\ frame'[c] = frame[c] /\ scr_el3'[c] = scr_el3[c]
        /\ tsp_vectors' = tsp_vectors /\ async' = async
    BY <2>2 DEF IInv, TypeOK, Sel1Inv, Ready, TspHandledIntr, LeaveTsp, globals
  <2>4. std_smc_active[c] => Resumable(c, cpu_ctx[c])'
    BY <2>2, <2>3, <1>c DEF Sel1Inv, Resumable, Carries, HoldsCall
  <2>5. NormalInv(c)'
    BY <2>2, <2>3, <2>4, <1>a, <1>c, Zenon DEF NormalInv, Sel1Inv, Ready, Routed, StdInProgress
  <2> QED
    BY <2>1, <2>3, <2>5 DEF CpuInv
<1>6. async' = async /\ (tsp_vectors => tsp_vectors')
  BY DEF TspHandledIntr, LeaveTsp, globals
<1> QED
  BY <1>1, <1>2, <1>3, <1>4, <1>5, <1>6, Local

(* Only while a standard SMC runs are non-secure interrupts routed to EL3.  *)
LEMMA NsInterruptToEl3Inv ==
    ASSUME IInv, NEW c \in CPU, NsInterruptToEl3(c)
    PROVE  IInv'
<1>a. At("past", FALSE) \in Contexts
  BY ContextType, Zenon DEF Points
<1>b. /\ disable_intr_rm_local(scr_el3[c], "NS", "SECURE") \in [SECURITY_STATES -> SUBSET INTR_TYPES]
      /\ "NS" \notin disable_intr_rm_local(scr_el3[c], "NS", "SECURE")["SECURE"]
  BY DEF IInv, TypeOK, disable_intr_rm_local, WriteScrBit, SECURITY_STATES
<1>1. TypeOK'
  BY <1>a, <1>b, ReplyType, Zenon DEF IInv, TypeOK, Worlds, NsInterruptToEl3,
     LeaveTsp, globals
<1>2. RegisteredInv'
  BY DEF IInv, RegisteredInv, NsInterruptToEl3, LeaveTsp, globals
<1>3. \A d \in CPU \ {c} : Same(d)
  BY DEF IInv, TypeOK, Same, NsInterruptToEl3, LeaveTsp, globals
<1>4. crossed'[c] => tsp_vectors'
  BY DEF IInv, TypeOK, NsInterruptToEl3, LeaveTsp, globals
<1>5. ASSUME ~crossed'[c] PROVE CpuInv(c)'
  <2>1. CpuInv(c)
    BY <1>5 DEF IInv, TypeOK, NsInterruptToEl3, LeaveTsp, globals
  <2>2. StdInv(c) /\ async
    <3>1. Routed(c) /\ world[c] = "sec" /\ tsp[c].elr \in Points
      BY DEF NsInterruptToEl3, Routed, IInv, TypeOK, Contexts
    <3> QED
      BY <2>1, <3>1 DEF CpuInv, SecureInv, StdInv, VectorInv, FastInv, Sel1Inv,
         HookInv, Points
  <2>3. /\ world'[c] = "ns" /\ reply'[c] = Reply("preempted") /\ c_rt_ctx'[c] = None
        /\ cpu_ctx'[c] = tsp[c]
        /\ scr_el3'[c] = disable_intr_rm_local(scr_el3[c], "NS", "SECURE")
        /\ call'[c] = call[c] /\ saved_tsp_args'[c] = saved_tsp_args[c]
        /\ std_smc_active'[c] = std_smc_active[c]
        /\ pstate'[c] = pstate[c]
        /\ tsp_vectors' = tsp_vectors /\ async' = async
    BY <2>2 DEF IInv, TypeOK, StdInv, Ready, NsInterruptToEl3, LeaveTsp,
       globals
  <2>4. Resumable(c, cpu_ctx[c])'
    BY <2>2, <2>3, Zenon DEF StdInv, Resumable, Carries, HoldsCall
  <2>5. NormalInv(c)'
    BY <2>2, <2>3, <2>4, <1>b DEF NormalInv, StdInv, Ready, Routed, StdInProgress
  <2> QED
    BY <2>1, <2>2, <2>3, <2>5, ReplyType, Zenon DEF CpuInv, StdInv, StdInProgress
<1>6. async' = async /\ (tsp_vectors => tsp_vectors')
  BY DEF NsInterruptToEl3, LeaveTsp, globals
<1> QED
  BY <1>1, <1>2, <1>3, <1>4, <1>5, <1>6, Local

(* Only in a standard SMC does the payload unmask interrupts.               *)
LEMMA NsInterruptToTspInv ==
    ASSUME IInv, NEW c \in CPU, NsInterruptToTsp(c)
    PROVE  IInv'
<1>a. /\ At("past", FALSE) \in Contexts /\ At("irq", FALSE) \in Contexts
      /\ At("irq", FALSE).elr = "irq" /\ ~At("irq", FALSE).irq
  BY ContextType, Zenon DEF Points
<1>1. TypeOK'
  BY <1>a, ReplyType, Zenon DEF IInv, TypeOK, Worlds, NsInterruptToTsp, LeaveTsp,
     globals
<1>2. RegisteredInv'
  BY DEF IInv, RegisteredInv, NsInterruptToTsp, LeaveTsp, globals
<1>3. \A d \in CPU \ {c} : Same(d)
  BY DEF IInv, TypeOK, Same, NsInterruptToTsp, LeaveTsp, globals
<1>4. crossed'[c] => tsp_vectors'
  BY DEF IInv, TypeOK, NsInterruptToTsp, LeaveTsp, globals
<1>5. ASSUME ~crossed'[c] PROVE CpuInv(c)'
  <2>1. CpuInv(c)
    BY <1>5 DEF IInv, TypeOK, NsInterruptToTsp, LeaveTsp, globals
  <2>2. StdInv(c) /\ ~async /\ ~Routed(c)
    <3>1. ~Routed(c) /\ tsp[c].irq /\ world[c] = "sec" /\ tsp[c].elr \in Points
      BY DEF NsInterruptToTsp, Routed, IInv, TypeOK, Contexts
    <3> QED
      BY <2>1, <3>1, Zenon DEF CpuInv, SecureInv, StdInv, VectorInv, FastInv, Sel1Inv,
         HookInv, Points
  <2>3. /\ world'[c] = "ns" /\ reply'[c] = Reply("preempted") /\ c_rt_ctx'[c] = None
        /\ cpu_ctx'[c] = At("irq", FALSE) /\ frame'[c] = tsp[c]
        /\ call'[c] = call[c] /\ saved_tsp_args'[c] = saved_tsp_args[c]
        /\ std_smc_active'[c] = std_smc_active[c]
        /\ pstate'[c] = pstate[c] /\ scr_el3'[c] = scr_el3[c]
        /\ tsp_vectors' = tsp_vectors /\ async' = async
    BY <2>2 DEF IInv, TypeOK, StdInv, Ready, NsInterruptToTsp, LeaveTsp,
       globals
  <2>4. Resumable(c, cpu_ctx[c])'
    BY <2>2, <2>3, <1>a, Zenon DEF StdInv, Resumable, Carries, HoldsCall
  <2>5. NormalInv(c)'
    BY <2>2, <2>3, <2>4, Zenon DEF NormalInv, StdInv, Ready, Routed, StdInProgress
  <2> QED
    BY <2>1, <2>2, <2>3, <2>5, ReplyType DEF CpuInv, StdInv, StdInProgress
<1>6. async' = async /\ (tsp_vectors => tsp_vectors')
  BY Zenon DEF NsInterruptToTsp, LeaveTsp, globals
<1> QED
  BY <1>1, <1>2, <1>3, <1>4, <1>5, <1>6, Local
=============================================================================
