----------------------------- MODULE TspdProofs -----------------------------
(* The safety properties of Tspd, for any CPUs and arguments: the steps of  *)
(* the payload and the PSCI hooks preserve the invariant of TspdInvariant,  *)
(* which implies the properties.                                            *)
EXTENDS TspdInvariant

(* The payload on its way through a standard SMC.                           *)
LEMMA TspUnmaskInv ==
    ASSUME IInv, NEW c \in CPU, TspUnmask(c)
    PROVE  IInv'
<1> DEFINE new == [tsp[c] EXCEPT !.elr = "std_args", !.irq = TRUE]
<1>a. /\ new \in Contexts /\ new.elr = "std_args" /\ new.irq = TRUE /\ new.regs = tsp[c].regs
  <2>1. tsp[c] \in Contexts /\ "std_args" \in Points
    BY DEF IInv, TypeOK, Points, StdPoints
  <2> QED
    BY <2>1, Zenon DEF Contexts
<1>b. TspMoves(c, new)
  BY DEF TspUnmask
<1> HIDE DEF new
<1>1. TypeOK'
  BY <1>a, <1>b DEF IInv, TypeOK, TspMoves, globals
<1>2. RegisteredInv'
  BY DEF IInv, RegisteredInv, TspUnmask, TspMoves, globals
<1>3. \A d \in CPU \ {c} : Same(d)
  BY DEF IInv, TypeOK, Same, TspUnmask, TspMoves, globals
<1>4. crossed'[c] => tsp_vectors'
  BY DEF IInv, TypeOK, TspUnmask, TspMoves, globals
<1>5. ASSUME ~crossed'[c] PROVE CpuInv(c)'
  <2>1. CpuInv(c)
    BY <1>5 DEF IInv, TypeOK, TspUnmask, TspMoves, globals
  <2>2. StdInv(c) /\ world[c] = "sec" /\ tsp[c].elr = "std_entry"
    BY <2>1 DEF CpuInv, SecureInv, StdPoints, TspUnmask, TspMoves
  <2>3. /\ tsp'[c] = new
        /\ call'[c] = call[c] /\ saved_tsp_args'[c] = saved_tsp_args[c]
        /\ std_smc_active'[c] = std_smc_active[c]
        /\ pstate'[c] = pstate[c] /\ scr_el3'[c] = scr_el3[c]
        /\ c_rt_ctx'[c] = c_rt_ctx[c]
        /\ world'[c] = world[c] /\ reply'[c] = reply[c] /\ frame'[c] = frame[c]
        /\ tsp_vectors' = tsp_vectors /\ async' = async
    BY <1>b DEF IInv, TypeOK, TspMoves, globals
  <2>4. Carries(c, tsp[c])'
    <3>1. HoldsCall(c, tsp[c])'
      BY <2>2, <2>3, <1>a DEF StdInv, Carries, HoldsCall, StdPoints
    <3>2. tsp'[c].elr \in {"std_args", "std_calc"}
      BY <2>3, <1>a
    <3> QED
      BY <2>3, <1>a, <3>1, <3>2 DEF Carries
  <2>5. StdInv(c)'
    BY <2>2, <2>3, <2>4 DEF StdInv, Ready, Routed, StdInProgress
  <2> QED
    BY <2>1, <2>2, <2>3, <2>5, <1>a DEF CpuInv, SecureInv, StdPoints, Hooks
<1>6. async' = async /\ (tsp_vectors => tsp_vectors')
  BY DEF TspUnmask, TspMoves, globals
<1> QED
  BY <1>1, <1>2, <1>3, <1>4, <1>5, <1>6, Local

(* The payload has computed the result.                                     *)
LEMMA TspMaskInv ==
    ASSUME IInv, NEW c \in CPU, TspMask(c)
    PROVE  IInv'
<1> DEFINE new == [tsp[c] EXCEPT !.elr = "std_exit", !.irq = FALSE]
<1>a. /\ new \in Contexts /\ new.elr = "std_exit" /\ new.irq = FALSE /\ new.regs = tsp[c].regs
  <2>1. tsp[c] \in Contexts /\ "std_exit" \in Points
    BY DEF IInv, TypeOK, Points, StdPoints
  <2> QED
    BY <2>1, Zenon DEF Contexts
<1>b. TspMoves(c, new)
  BY DEF TspMask
<1> HIDE DEF new
<1>1. TypeOK'
  BY <1>a, <1>b DEF IInv, TypeOK, TspMoves, globals
<1>2. RegisteredInv'
  BY DEF IInv, RegisteredInv, TspMask, TspMoves, globals
<1>3. \A d \in CPU \ {c} : Same(d)
  BY DEF IInv, TypeOK, Same, TspMask, TspMoves, globals
<1>4. crossed'[c] => tsp_vectors'
  BY DEF IInv, TypeOK, TspMask, TspMoves, globals
<1>5. ASSUME ~crossed'[c] PROVE CpuInv(c)'
  <2>1. CpuInv(c)
    BY <1>5 DEF IInv, TypeOK, TspMask, TspMoves, globals
  <2>2. StdInv(c) /\ world[c] = "sec" /\ tsp[c].elr = "std_calc"
    BY <2>1 DEF CpuInv, SecureInv, StdPoints, TspMask, TspMoves
  <2>3. /\ tsp'[c] = new
        /\ call'[c] = call[c] /\ saved_tsp_args'[c] = saved_tsp_args[c]
        /\ std_smc_active'[c] = std_smc_active[c]
        /\ pstate'[c] = pstate[c] /\ scr_el3'[c] = scr_el3[c]
        /\ c_rt_ctx'[c] = c_rt_ctx[c]
        /\ world'[c] = world[c] /\ reply'[c] = reply[c] /\ frame'[c] = frame[c]
        /\ tsp_vectors' = tsp_vectors /\ async' = async
    BY <1>b DEF IInv, TypeOK, TspMoves, globals
  <2>4. Carries(c, tsp[c])'
    <3>1. HoldsCall(c, tsp[c])'
      BY <2>2, <2>3, <1>a DEF StdInv, Carries, HoldsCall, StdPoints
    <3>2. tsp'[c].elr \notin {"std_args", "std_calc"}
      BY <2>3, <1>a
    <3> QED
      BY <2>3, <1>a, <3>1, <3>2 DEF Carries
  <2>5. StdInv(c)'
    BY <2>2, <2>3, <2>4 DEF StdInv, Ready, Routed, StdInProgress
  <2> QED
    BY <2>1, <2>2, <2>3, <2>5, <1>a DEF CpuInv, SecureInv, StdPoints, Hooks
<1>6. async' = async /\ (tsp_vectors => tsp_vectors')
  BY DEF TspMask, TspMoves, globals
<1> QED
  BY <1>1, <1>2, <1>3, <1>4, <1>5, <1>6, Local

(* TSP_GET_ARGS: the arguments kept by the dispatcher are those of the call.*)
LEMMA TspGetArgsInv ==
    ASSUME IInv, NEW c \in CPU, TspGetArgs(c)
    PROVE  IInv'
<1> DEFINE to == IF tsp[c].elr = "std_args" THEN "std_calc" ELSE "fast_calc"
           new == [tsp[c] EXCEPT !.elr = to, !.regs.svc = saved_tsp_args[c]]
<1>a. /\ new \in Contexts /\ new.elr = to /\ new.irq = tsp[c].irq
      /\ new.regs.x = tsp[c].regs.x /\ new.regs.svc = saved_tsp_args[c]
  <2>1. /\ tsp[c] \in Contexts /\ to \in Points
        /\ saved_tsp_args[c] \in Args \cup {None}
    BY DEF IInv, TypeOK, Points, StdPoints
  <2> QED
    BY <2>1, Zenon DEF Contexts, Regs
<1>b. TspMoves(c, new) /\ tsp[c].elr \in {"std_args", "fast_entry"}
  BY DEF TspGetArgs
<1> HIDE DEF new
<1>1. TypeOK'
  BY <1>a, <1>b DEF IInv, TypeOK, TspMoves, globals
<1>2. RegisteredInv'
  BY DEF IInv, RegisteredInv, TspGetArgs, TspMoves, globals
<1>3. \A d \in CPU \ {c} : Same(d)
  BY DEF IInv, TypeOK, Same, TspGetArgs, TspMoves, globals
<1>4. crossed'[c] => tsp_vectors'
  BY DEF IInv, TypeOK, TspGetArgs, TspMoves, globals
<1>5. ASSUME ~crossed'[c] PROVE CpuInv(c)'
  <2>1. CpuInv(c)
    BY <1>5 DEF IInv, TypeOK, TspGetArgs, TspMoves, globals
  <2>2. world[c] = "sec"
    BY DEF TspGetArgs, TspMoves
  <2>3. /\ tsp'[c] = new
        /\ call'[c] = call[c] /\ saved_tsp_args'[c] = saved_tsp_args[c]
        /\ std_smc_active'[c] = std_smc_active[c]
        /\ pstate'[c] = pstate[c] /\ scr_el3'[c] = scr_el3[c]
        /\ c_rt_ctx'[c] = c_rt_ctx[c]
        /\ world'[c] = world[c] /\ reply'[c] = reply[c] /\ frame'[c] = frame[c]
        /\ tsp_vectors' = tsp_vectors /\ async' = async
    BY <1>b DEF IInv, TypeOK, TspMoves, globals
  <2>4. CASE tsp[c].elr = "std_args"
    <3>1. StdInv(c)
      BY <2>1, <2>2, <2>4 DEF CpuInv, SecureInv, StdPoints
    <3>2. HoldsCall(c, tsp[c])'
      BY <2>3, <2>4, <3>1, <1>a DEF StdInv, StdInProgress, Carries, HoldsCall, StdPoints
    <3>3. Carries(c, tsp[c])'
      BY <2>3, <2>4, <3>1, <3>2, <1>a DEF StdInv, Carries
    <3>4. StdInv(c)'
      BY <2>3, <3>1, <3>3 DEF StdInv, Ready, Routed, StdInProgress
    <3> QED
      BY <2>1, <2>2, <2>3, <2>4, <3>4, <1>a DEF CpuInv, SecureInv, StdPoints, Hooks
  <2>5. CASE tsp[c].elr = "fast_entry"
    <3>1. FastInv(c)
      BY <2>1, <2>2, <2>5 DEF CpuInv, SecureInv
    <3>2. FastInv(c)'
      BY <2>3, <2>5, <3>1, <1>a DEF FastInv, Ready, Routed
    <3> QED
      BY <2>1, <2>2, <2>3, <2>5, <3>2, <1>a DEF CpuInv, SecureInv, StdPoints, Hooks
  <2> QED
    BY <2>4, <2>5, <1>b
<1>6. async' = async /\ (tsp_vectors => tsp_vectors')
  BY DEF TspGetArgs, TspMoves, globals
<1> QED
  BY <1>1, <1>2, <1>3, <1>4, <1>5, <1>6, Local

(* The payload's vector returns to what it saved on the stack.              *)
LEMMA TspVectorReturnInv ==
    ASSUME IInv, NEW c \in CPU, TspVectorReturn(c)
    PROVE  IInv'
<1>1. TypeOK'
  BY DEF IInv, TypeOK, TspVectorReturn, TspMoves, globals
<1>2. RegisteredInv'
  BY DEF IInv, RegisteredInv, TspVectorReturn, TspMoves, globals
<1>3. \A d \in CPU \ {c} : Same(d)
  BY DEF IInv, TypeOK, Same, TspVectorReturn, TspMoves, globals
<1>4. crossed'[c] => tsp_vectors'
  BY DEF IInv, TypeOK, TspVectorReturn, TspMoves, globals
<1>5. ASSUME ~crossed'[c] PROVE CpuInv(c)'
  <2>1. CpuInv(c)
    BY <1>5 DEF IInv, TypeOK, TspVectorReturn, TspMoves, globals
  <2>2. VectorInv(c) /\ world[c] = "sec"
    BY <2>1 DEF CpuInv, SecureInv, TspVectorReturn, TspMoves
  <2>3. /\ tsp'[c] = frame[c]
        /\ call'[c] = call[c] /\ saved_tsp_args'[c] = saved_tsp_args[c]
        /\ std_smc_active'[c] = std_smc_active[c]
        /\ pstate'[c] = pstate[c] /\ scr_el3'[c] = scr_el3[c]
        /\ c_rt_ctx'[c] = c_rt_ctx[c]
        /\ world'[c] = world[c] /\ reply'[c] = reply[c] /\ frame'[c] = frame[c]
        /\ tsp_vectors' = tsp_vectors /\ async' = async
    BY DEF IInv, TypeOK, TspVectorReturn, TspMoves, globals
  <2>4. Carries(c, tsp[c])' /\ tsp'[c].elr \in StdPoints
    BY <2>2, <2>3 DEF VectorInv, Carries, HoldsCall
  <2>5. StdInv(c)'
    BY <2>2, <2>3, <2>4 DEF StdInv, VectorInv, Ready, Routed, StdInProgress
  <2> QED
    BY <2>1, <2>2, <2>3, <2>4, <2>5 DEF CpuInv, SecureInv, StdPoints, Hooks
<1>6. async' = async /\ (tsp_vectors => tsp_vectors')
  BY DEF TspVectorReturn, TspMoves, globals
<1> QED
  BY <1>1, <1>2, <1>3, <1>4, <1>5, <1>6, Local

(* The result of a fast SMC.                                                *)
LEMMA TspFastDoneInv ==
    ASSUME IInv, NEW c \in CPU, TspFastDone(c)
    PROVE  IInv'
<1>a. /\ At("past", FALSE) \in Contexts
      /\ tsp[c].irq \in BOOLEAN /\ At("past", tsp[c].irq) \in Contexts
      /\ At("past", tsp[c].irq).irq = tsp[c].irq
  <2>1. tsp[c].irq \in BOOLEAN /\ "past" \in Points
    BY DEF IInv, TypeOK, Contexts, Points
  <2> QED
    BY <2>1, ContextType, Zenon
<1>b. /\ [code |-> "done", res |-> tsp[c].regs, of |-> call[c]] \in Replies
      /\ NoCall \in Calls
  BY DEF IInv, TypeOK, Replies, Contexts, Calls
<1>1. TypeOK'
  BY <1>a, <1>b, Zenon DEF IInv, TypeOK, Worlds, TspFastDone, TspResult, LeaveTsp,
     globals
<1>2. RegisteredInv'
  BY DEF IInv, RegisteredInv, TspFastDone, TspResult, LeaveTsp, globals
<1>3. \A d \in CPU \ {c} : Same(d)
  BY DEF IInv, TypeOK, Same, TspFastDone, TspResult, LeaveTsp, globals
<1>4. crossed'[c] => tsp_vectors'
  BY DEF IInv, TypeOK, TspFastDone, TspResult, LeaveTsp, globals
<1>5. ASSUME ~crossed'[c] PROVE CpuInv(c)'
  <2>1. CpuInv(c)
    BY <1>5 DEF IInv, TypeOK, TspFastDone, TspResult, LeaveTsp, globals
  <2>2. FastInv(c) /\ tsp[c].elr = "fast_calc"
    BY <2>1 DEF CpuInv, SecureInv, StdPoints, TspFastDone, TspResult
  <2>3. /\ world'[c] = "ns" /\ c_rt_ctx'[c] = None
        /\ cpu_ctx'[c] = At("past", tsp[c].irq)
        /\ reply'[c] = [code |-> "done", res |-> tsp[c].regs, of |-> call[c]]
        /\ ~std_smc_active'[c]
        /\ tsp_vectors' = tsp_vectors /\ pstate'[c] = pstate[c]
    BY <2>2 DEF IInv, TypeOK, FastInv, Ready, TspFastDone, TspResult, LeaveTsp,
       globals
  <2>4. ~Routed(c)'
    BY <2>2 DEF FastInv, Routed, TspFastDone
  <2>5. ~tsp[c].irq
    BY <2>2 DEF FastInv
  <2>6. tsp[c].regs = [x |-> call[c].arg, svc |-> call[c].arg]
    <3>1. tsp[c].regs \in Regs
      BY DEF IInv, TypeOK, Contexts
    <3> QED
      BY <2>2, <3>1 DEF FastInv, Regs
  <2>7. NormalInv(c)'
    BY <2>2, <2>3, <2>4, <2>5, <1>a DEF NormalInv, FastInv, Ready
  <2> QED
    BY <2>3, <2>6, <2>7 DEF CpuInv
<1>6. async' = async /\ (tsp_vectors => tsp_vectors')
  BY DEF TspFastDone, TspResult, LeaveTsp, globals
<1> QED
  BY <1>1, <1>2, <1>3, <1>4, <1>5, <1>6, Local

(* The result of a standard SMC: the flag and the routing are cleared.      *)
LEMMA TspStdDoneInv ==
    ASSUME IInv, NEW c \in CPU, TspStdDone(c)
    PROVE  IInv'
<1>a. /\ At("past", FALSE) \in Contexts
      /\ tsp[c].irq \in BOOLEAN /\ At("past", tsp[c].irq) \in Contexts
      /\ At("past", tsp[c].irq).irq = tsp[c].irq
  <2>1. tsp[c].irq \in BOOLEAN /\ "past" \in Points
    BY DEF IInv, TypeOK, Contexts, Points
  <2> QED
    BY <2>1, ContextType, Zenon
<1>b. /\ [code |-> "done", res |-> tsp[c].regs, of |-> call[c]] \in Replies
      /\ NoCall \in Calls
  BY DEF IInv, TypeOK, Replies, Contexts, Calls
<1>1. TypeOK'
  BY <1>a, <1>b, RoutesType, Zenon DEF IInv, TypeOK, Worlds, TspStdDone, TspResult,
     LeaveTsp, globals
<1>2. RegisteredInv'
  BY DEF IInv, RegisteredInv, TspStdDone, TspResult, LeaveTsp, UnrouteNs,
     globals
<1>3. \A d \in CPU \ {c} : Same(d)
  BY DEF IInv, TypeOK, Same, TspStdDone, TspResult, LeaveTsp, UnrouteNs,
     globals
<1>4. crossed'[c] => tsp_vectors'
  BY DEF IInv, TypeOK, TspStdDone, TspResult, LeaveTsp, UnrouteNs, globals
<1>5. ASSUME ~crossed'[c] PROVE CpuInv(c)'
  <2>1. CpuInv(c)
    BY <1>5 DEF IInv, TypeOK, TspStdDone, TspResult, LeaveTsp, UnrouteNs,
       globals
  <2>2. StdInv(c) /\ tsp[c].elr = "std_exit"
    BY <2>1 DEF CpuInv, SecureInv, StdPoints, TspStdDone, TspResult
  <2>3. /\ world'[c] = "ns" /\ c_rt_ctx'[c] = None
        /\ cpu_ctx'[c] = At("past", tsp[c].irq)
        /\ reply'[c] = [code |-> "done", res |-> tsp[c].regs, of |-> call[c]]
        /\ ~std_smc_active'[c]
        /\ tsp_vectors' = tsp_vectors /\ pstate'[c] = pstate[c]
    BY <2>2 DEF IInv, TypeOK, StdInv, Ready, TspStdDone, TspResult, LeaveTsp,
       UnrouteNs, globals
  <2>4. ~Routed(c)'
    BY <2>2, Unroutes DEF StdInv, IInv, TspStdDone
  <2>5. ~tsp[c].irq
    BY <2>2 DEF StdInv, Carries
  <2>6. tsp[c].regs = [x |-> call[c].arg, svc |-> call[c].arg]
    <3>1. tsp[c].regs \in Regs
      BY DEF IInv, TypeOK, Contexts
    <3> QED
      BY <2>2, <3>1 DEF StdInv, Regs, Carries, HoldsCall
  <2>7. NormalInv(c)'
    BY <2>2, <2>3, <2>4, <2>5, <1>a DEF NormalInv, StdInv, Ready
  <2> QED
    BY <2>3, <2>6, <2>7 DEF CpuInv
<1>6. async' = async /\ (tsp_vectors => tsp_vectors')
  BY DEF TspStdDone, TspResult, LeaveTsp, UnrouteNs, globals
<1> QED
  BY <1>1, <1>2, <1>3, <1>4, <1>5, <1>6, Local

(* The payload gets past an SMC that does not return on a crossed CPU only. *)
LEMMA TspPanicInv ==
    ASSUME IInv, NEW c \in CPU, TspPanic(c)
    PROVE  IInv'
<1>1. TypeOK'
  BY DEF IInv, TypeOK, Worlds, TspPanic, globals
<1>2. RegisteredInv'
  BY DEF IInv, RegisteredInv, TspPanic, globals
<1>3. \A d \in CPU \ {c} : Same(d)
  BY DEF IInv, TypeOK, Same, TspPanic, globals
<1>4. crossed'[c] => tsp_vectors'
  BY DEF IInv, TypeOK, TspPanic, globals
<1>5. ASSUME ~crossed'[c] PROVE CpuInv(c)'
  <2>1. CpuInv(c)
    BY <1>5 DEF IInv, TypeOK, TspPanic, globals
  <2> QED
    BY <2>1 DEF CpuInv, SecureInv, TspPanic
<1>6. async' = async /\ (tsp_vectors => tsp_vectors')
  BY DEF TspPanic, globals
<1> QED
  BY <1>1, <1>2, <1>3, <1>4, <1>5, <1>6, Local

(* A failing assertion, on a crossed CPU only.                              *)
LEMMA AssertFailsInv ==
    ASSUME IInv, NEW c \in CPU, crossed[c], AssertFails(c)
    PROVE  IInv'
<1>1. TypeOK'
  BY DEF IInv, TypeOK, Worlds, AssertFails, globals
<1>2. RegisteredInv'
  BY DEF IInv, RegisteredInv, AssertFails, globals
<1>3. \A d \in CPU \ {c} : Same(d)
  BY DEF IInv, TypeOK, Same, AssertFails, globals
<1>4. crossed'[c] => tsp_vectors'
  BY DEF IInv, TypeOK, AssertFails, globals
<1>5. ASSUME ~crossed'[c] PROVE CpuInv(c)'
  BY <1>5 DEF AssertFails
<1>6. async' = async /\ (tsp_vectors => tsp_vectors')
  BY DEF AssertFails, globals
<1> QED
  BY <1>1, <1>2, <1>3, <1>4, <1>5, <1>6, Local

(* A hook enters the payload; the CPU is crossed if an SMC was preempted.   *)
LEMMA EnterHookInv ==
    ASSUME IInv, NEW c \in CPU, NEW h \in Hooks \ {"init"}, tsp_vectors,
           ~crossed[c] /\ ~std_smc_active[c] => ~Routed(c) /\ ~cpu_ctx[c].irq,
           EnterHook(c, h)
    PROVE  IInv'
<1> DEFINE new == [cpu_ctx[c] EXCEPT !.elr = h, !.regs = NoRegs]
<1>a. new \in Contexts /\ new.elr = h /\ new.irq = cpu_ctx[c].irq
  <2>1. cpu_ctx[c] \in Contexts /\ h \in Points /\ NoRegs \in Regs
    BY DEF IInv, TypeOK, Points, Regs, NoRegs
  <2> QED
    BY <2>1, Zenon DEF Contexts
<1>b. EnterTsp(c, new)
  BY DEF EnterHook
<1> HIDE DEF new
<1>1. TypeOK'
  BY <1>a, <1>b DEF IInv, TypeOK, Worlds, EnterHook, EnterTsp, globals
<1>2. RegisteredInv'
  BY DEF IInv, RegisteredInv, EnterHook, EnterTsp, globals
<1>3. \A d \in CPU \ {c} : Same(d)
  BY DEF IInv, TypeOK, Same, EnterHook, EnterTsp, globals
<1>4. crossed'[c] => tsp_vectors'
  BY DEF IInv, TypeOK, EnterHook, EnterTsp, globals
<1>5. ASSUME ~crossed'[c] PROVE CpuInv(c)'
  <2>1. CpuInv(c) /\ ~std_smc_active[c] /\ ~crossed[c]
    BY <1>5 DEF IInv, TypeOK, EnterHook
  <2>3. /\ tsp'[c] = new /\ world'[c] = "sec" /\ c_rt_ctx'[c] = h
        /\ std_smc_active'[c] = std_smc_active[c] /\ scr_el3'[c] = scr_el3[c]
        /\ reply'[c] = reply[c]
        /\ tsp_vectors' = tsp_vectors
    BY <1>b DEF IInv, TypeOK, EnterHook, EnterTsp, globals
  <2>4. HookInv(c)'
    BY <2>1, <2>3, <1>a DEF HookInv, Routed
  <2> QED
    BY <2>1, <2>3, <2>4, <1>a DEF CpuInv, SecureInv, StdPoints, Hooks
<1>6. async' = async /\ (tsp_vectors => tsp_vectors')
  BY DEF EnterHook, EnterTsp, globals
<1> QED
  BY <1>1, <1>2, <1>3, <1>4, <1>5, <1>6, Local

(* The PSCI calls of the normal world.                                      *)
LEMMA PowerDownInv ==
    ASSUME IInv, NEW c \in CPU, NEW h \in {"off", "suspend", "system_off", "system_reset"},
           PowerDown(c, h)
    PROVE  IInv'
<1>1. ~crossed[c] => NormalInv(c)
  BY Zenon DEF IInv, CpuInv, PowerDown
<1>2. CASE HookAsserts(c, "ON")
  <2>1. EnterHook(c, h) /\ tsp_vectors /\ h \in Hooks \ {"init"}
    BY <1>2 DEF PowerDown, HookAsserts, Hooks
  <2>2. ~crossed[c] /\ ~std_smc_active[c] => ~Routed(c) /\ ~cpu_ctx[c].irq
    BY <1>1 DEF NormalInv
  <2> QED
    BY <2>1, <2>2, EnterHookInv
<1>3. CASE ~HookAsserts(c, "ON")
  <2>1. AssertFails(c) /\ crossed[c]
    BY <1>1, <1>3 DEF PowerDown, HookAsserts, NormalInv, Ready
  <2> QED
    BY <2>1, AssertFailsInv
<1> QED
  BY <1>2, <1>3

(* The end of a suspend.                                                    *)
LEMMA WakeInv ==
    ASSUME IInv, NEW c \in CPU, Wake(c)
    PROVE  IInv'
<1>1. EnterHook(c, "resume") /\ tsp_vectors /\ "resume" \in Hooks \ {"init"}
  BY DEF Wake, HookAsserts, Hooks
<1>2. ~crossed[c] /\ ~std_smc_active[c] => ~Routed(c) /\ ~cpu_ctx[c].irq
  BY Zenon DEF IInv, CpuInv, SuspendedInv, Wake
<1> QED
  BY <1>1, <1>2, EnterHookInv

(* A CPU that is turned on starts afresh.                                   *)
LEMMA CpuOnInv ==
    ASSUME IInv, NEW c \in CPU, CpuOn(c)
    PROVE  IInv'
<1> DEFINE scr == IF async THEN disable_intr_rm_local(ScrAtPowerOn, "NS", "SECURE")
                       ELSE ScrAtPowerOn
<1>a. At("on", FALSE) \in Contexts /\ At("on", FALSE).elr = "on" /\ ~At("on", FALSE).irq
  BY ContextType, Zenon DEF Points, Hooks
<1>b. /\ scr \in [SECURITY_STATES -> SUBSET INTR_TYPES]
      /\ "NS" \notin scr["SECURE"]
  <2>1. /\ ScrAtPowerOn \in [SECURITY_STATES -> SUBSET INTR_TYPES]
        /\ ~async => "NS" \notin ScrAtPowerOn["SECURE"]
    BY DEF IInv, RegisteredInv, ScrAtPowerOn, ScrFromRoutingModel, SECURITY_STATES
  <2> QED
    BY <2>1 DEF disable_intr_rm_local, WriteScrBit, SECURITY_STATES
<1>c. scr_el3' = [scr_el3 EXCEPT ![c] = scr] /\ tsp_vectors
  BY DEF CpuOn, HookAsserts
<1>d. NoCall \in Calls /\ "on" \in Hooks
  BY DEF Calls, Hooks
<1> HIDE DEF scr
<1>1. TypeOK'
  <2>1. scr_el3' \in [CPU -> [SECURITY_STATES -> SUBSET INTR_TYPES]]
    BY <1>b, <1>c DEF IInv, TypeOK
  <2>2. /\ world' \in [CPU -> Worlds]
        /\ cpu_ctx' \in [CPU -> Contexts] /\ tsp' \in [CPU -> Contexts]
    BY <1>a, Zenon DEF IInv, TypeOK, Worlds, CpuOn, EnterTsp
  <2>3. /\ call' \in [CPU -> Calls] /\ reply' \in [CPU -> Replies]
        /\ c_rt_ctx' \in [CPU -> Hooks \cup {None, "stale"}]
        /\ std_smc_active' \in [CPU -> BOOLEAN] /\ crossed' \in [CPU -> BOOLEAN]
    BY <1>d, ReplyType DEF IInv, TypeOK, CpuOn
  <2> QED
    BY <2>1, <2>2, <2>3, Zenon DEF IInv, TypeOK, CpuOn, globals
<1>2. RegisteredInv'
  BY DEF IInv, RegisteredInv, CpuOn, EnterTsp, globals
<1>3. \A d \in CPU \ {c} : Same(d)
  BY DEF IInv, TypeOK, Same, CpuOn, EnterTsp, globals
<1>4. crossed'[c] => tsp_vectors'
  BY DEF IInv, TypeOK, CpuOn, EnterTsp, globals
<1>5. ASSUME ~crossed'[c] PROVE CpuInv(c)'
  <2>3. /\ tsp'[c] = At("on", FALSE) /\ world'[c] = "sec" /\ c_rt_ctx'[c] = "on"
        /\ ~std_smc_active'[c] /\ reply'[c] = Reply(None) /\ scr_el3'[c] = scr
        /\ tsp_vectors' = tsp_vectors
    BY <1>c DEF IInv, TypeOK, CpuOn, EnterTsp, globals
  <2>4. HookInv(c)'
    BY <2>3, <1>a, <1>b, <1>c, Zenon DEF HookInv, Routed
  <2> QED
    BY <2>3, <2>4, <1>a, ReplyType, Zenon DEF CpuInv, SecureInv, StdPoints, Hooks, None
<1>6. async' = async /\ (tsp_vectors => tsp_vectors')
  BY DEF CpuOn, EnterTsp, globals
<1> QED
  BY <1>1, <1>2, <1>3, <1>4, <1>5, <1>6, Local

(* The end of a hook, and the types of what it sets.                        *)
LEMMA LeaveHookType ==
    ASSUME TypeOK, NEW c \in CPU, c_rt_ctx[c] \in Hooks, LeaveHook(c)
    PROVE  /\ world' \in [CPU -> Worlds] /\ pstate' \in [CPU -> {"OFF", "ON", "SUSPEND"}]
           /\ cpu_ctx' \in [CPU -> Contexts] /\ tsp' \in [CPU -> Contexts]
           /\ c_rt_ctx' \in [CPU -> Hooks \cup {None, "stale"}]
           /\ cpu_ctx'[c].irq = tsp[c].irq
<1>1. /\ At("past", FALSE) \in Contexts
      /\ At("past", tsp[c].irq) \in Contexts
      /\ At("past", tsp[c].irq).irq = tsp[c].irq
  <2>1. tsp[c].irq \in BOOLEAN /\ "past" \in Points
    BY DEF TypeOK, Contexts, Points
  <2> QED
    BY <2>1, ContextType, Zenon
<1>2. /\ WorldAfter[c_rt_ctx[c]] \in Worlds
      /\ StateAfter[c_rt_ctx[c]] \in {"OFF", "ON", "SUSPEND"}
  BY DEF WorldAfter, StateAfter, Hooks, Worlds
<1> QED
  BY <1>1, <1>2, Zenon DEF TypeOK, LeaveHook

(* A CPU whose hook has finished, when nothing was preempted before it.     *)
LEMMA LeaveHookInv ==
    ASSUME IInv, NEW c \in CPU, HookInv(c), CpuInv(c), LeaveHook(c), tsp_vectors', ~Routed(c)'
    PROVE  CpuInv(c)'
<1>1. tsp[c].elr \in Hooks /\ c_rt_ctx[c] = tsp[c].elr /\ ~std_smc_active[c] /\ ~tsp[c].irq
  <2>1. c_rt_ctx[c] \in Hooks \cup {None, "stale"} /\ tsp[c].elr \in Points
    BY DEF IInv, TypeOK, Contexts
  <2> QED
    BY <2>1 DEF HookInv, Points, StdPoints, Hooks, None
<1>2. /\ world'[c] = WorldAfter[c_rt_ctx[c]] /\ pstate'[c] = StateAfter[c_rt_ctx[c]]
      /\ c_rt_ctx'[c] = None /\ ~std_smc_active'[c] /\ reply'[c] = reply[c]
  BY <1>1 DEF IInv, TypeOK, LeaveHook
<1>3. ~cpu_ctx'[c].irq
  BY <1>1, LeaveHookType DEF IInv
<1>4. \/ world'[c] = "ns" /\ pstate'[c] = "ON"
      \/ world'[c] = "off" /\ pstate'[c] = "OFF"
      \/ world'[c] = "suspended" /\ pstate'[c] = "SUSPEND"
      \/ world'[c] = "halted"
  BY <1>1, <1>2 DEF WorldAfter, StateAfter, Hooks
<1>5. std_smc_active'[c] = std_smc_active[c]
  BY DEF LeaveHook
<1> QED
  BY <1>1, <1>2, <1>3, <1>4, <1>5, Zenon DEF CpuInv, NormalInv, SuspendedInv, Ready

(* TSP_ENTRY_DONE, the only step that changes what all CPUs share.          *)
LEMMA TspEntryDoneInv ==
    ASSUME IInv, NEW c \in CPU, TspEntryDone(c)
    PROVE  IInv'
<1> DEFINE sel1 == Register(intr_type_descs, "S_EL1", {"NON_SECURE"})
           scr1 == ScrAfterRegister(scr_el3[c], "S_EL1", {"NON_SECURE"})
           scr2 == disable_intr_rm_local(ScrAfterRegister(scr1, "NS", {"SECURE"}), "NS", "SECURE")
           scr == IF async THEN scr2 ELSE scr1
           descs == IF async THEN Register(sel1, "NS", {"SECURE"}) ELSE sel1
<1>a. ~tsp_vectors /\ ~crossed[c] /\ CpuInv(c) /\ HookInv(c) /\ tsp[c].elr = "init"
  BY Zenon DEF IInv, RegisteredInv, TspEntryDone, CanRegister, CpuInv, SecureInv, Hooks
<1>b. c_rt_ctx[c] \in Hooks
  BY <1>a DEF HookInv, Hooks
<1>c. /\ LeaveHook(c) /\ tsp_vectors' = TRUE
      /\ intr_type_descs' = descs /\ scr_el3' = [scr_el3 EXCEPT ![c] = scr]
  BY DEF TspEntryDone
<1>d. /\ scr \in [SECURITY_STATES -> SUBSET INTR_TYPES]
      /\ "NS" \notin scr["SECURE"]
  <2>1. /\ scr_el3[c] \in [SECURITY_STATES -> SUBSET INTR_TYPES]
        /\ "NS" \notin scr_el3[c]["SECURE"]
    BY <1>a DEF IInv, TypeOK, HookInv, Routed
  <2>2. scr1 \in [SECURITY_STATES -> SUBSET INTR_TYPES] /\ "NS" \notin scr1["SECURE"]
    BY <2>1 DEF ScrAfterRegister, SECURITY_STATES, INTR_TYPES
  <2>3. scr2 \in [SECURITY_STATES -> SUBSET INTR_TYPES] /\ "NS" \notin scr2["SECURE"]
    <3>1. ScrAfterRegister(scr1, "NS", {"SECURE"}) \in [SECURITY_STATES -> SUBSET INTR_TYPES]
      BY <2>2 DEF ScrAfterRegister, SECURITY_STATES, INTR_TYPES
    <3> QED
      BY <3>1 DEF disable_intr_rm_local, WriteScrBit, SECURITY_STATES
  <2> QED
    BY <2>2, <2>3
<1>e. /\ descs \in [INTR_TYPES -> [handler : BOOLEAN, flags : SUBSET SECURITY_STATES]]
      /\ descs["S_EL1"].handler
      /\ "SECURE" \in descs["NS"].flags <=> async
  <2>1. /\ intr_type_descs \in [INTR_TYPES -> [handler : BOOLEAN, flags : SUBSET SECURITY_STATES]]
        /\ "SECURE" \notin intr_type_descs["NS"].flags
    BY <1>a DEF IInv, TypeOK, RegisteredInv
  <2>2. /\ sel1 \in [INTR_TYPES -> [handler : BOOLEAN, flags : SUBSET SECURITY_STATES]]
        /\ sel1["S_EL1"].handler /\ "SECURE" \notin sel1["NS"].flags
    BY <2>1 DEF Register, INTR_TYPES, SECURITY_STATES
  <2> HIDE DEF sel1
  <2> QED
    BY <2>2 DEF Register, INTR_TYPES, SECURITY_STATES
<1> HIDE DEF scr, descs
<1>1. TypeOK'
  <2>1. TypeOK
    BY DEF IInv
  <2> QED
    BY <2>1, <1>b, <1>c, <1>d, <1>e, LeaveHookType, Zenon DEF TypeOK, LeaveHook
<1>2. RegisteredInv'
  BY <1>c, <1>e DEF RegisteredInv, LeaveHook
<1>3. \A d \in CPU \ {c} : Same(d)
  BY <1>c DEF IInv, TypeOK, Same, LeaveHook
<1>4. ~Routed(c)'
  BY <1>c, <1>d DEF IInv, TypeOK, Routed
<1>5. CpuInv(c)'
  BY <1>a, <1>c, <1>4, LeaveHookInv
<1> QED
  BY <1>1, <1>2, <1>3, <1>5, <1>c, Local DEF LeaveHook

(* The end of the other hooks.                                              *)
LEMMA TspHookDoneInv ==
    ASSUME IInv, NEW c \in CPU, TspHookDone(c)
    PROVE  IInv'
<1>1. ASSUME ~crossed[c] PROVE HookInv(c) /\ CpuInv(c) /\ tsp_vectors /\ c_rt_ctx[c] \in Hooks
  BY <1>1, Zenon DEF IInv, CpuInv, SecureInv, HookInv, TspHookDone
<1>2. CASE c_rt_ctx[c] \notin Hooks
  <2>1. AssertFails(c) /\ crossed[c]
    BY <1>1, <1>2 DEF TspHookDone
  <2> QED
    BY <2>1, AssertFailsInv
<1>3. CASE c_rt_ctx[c] \in Hooks
  <2>1. LeaveHook(c) /\ UNCHANGED <<tsp_vectors, intr_type_descs, scr_el3>>
    BY <1>3 DEF TspHookDone
  <2>2. TypeOK'
    <3>1. TypeOK
      BY DEF IInv
    <3> QED
      BY <2>1, <3>1, <1>3, LeaveHookType, Zenon DEF TypeOK, LeaveHook
  <2>3. RegisteredInv'
    BY <2>1 DEF IInv, RegisteredInv, LeaveHook
  <2>4. \A d \in CPU \ {c} : Same(d)
    BY <2>1 DEF IInv, TypeOK, Same, LeaveHook
  <2>5. ~crossed'[c] => CpuInv(c)'
    BY <2>1, <1>1, LeaveHookInv, Zenon DEF LeaveHook, HookInv, Routed
  <2>6. crossed'[c] => tsp_vectors'
    BY <2>1, Zenon DEF IInv, LeaveHook
  <2> QED
    BY <2>1, <2>2, <2>3, <2>4, <2>5, <2>6, Local, Zenon DEF LeaveHook
<1> QED
  BY <1>2, <1>3

(* Before TSP_ENTRY_DONE of the primary CPU.                                *)
LEMMA Initial == Init => IInv
<1> SUFFICES ASSUME Init PROVE IInv
  OBVIOUS
<1>1. /\ \A p \in {"init", "past"} : At(p, FALSE) \in Contexts /\ At(p, FALSE).elr = p
                                /\ ~At(p, FALSE).irq
      /\ "past" \in Points /\ NoRegs \in Regs /\ NoCall \in Calls /\ "init" \in Hooks
  BY ContextType, Zenon DEF Points, Regs, NoRegs, Calls, Hooks
<1>2. /\ InitialDescs \in [INTR_TYPES -> [handler : BOOLEAN, flags : SUBSET SECURITY_STATES]]
      /\ "SECURE" \notin InitialDescs["NS"].flags
      /\ ScrFromRoutingModel(InitialDescs) \in [SECURITY_STATES -> SUBSET INTR_TYPES]
      /\ "NS" \notin ScrFromRoutingModel(InitialDescs)["SECURE"]
  BY DEF InitialDescs, ScrFromRoutingModel, INTR_TYPES, SECURITY_STATES
<1>3. TypeOK
  <2>1. /\ world \in [CPU -> Worlds] /\ pstate \in [CPU -> {"OFF", "ON", "SUSPEND"}]
        /\ tsp \in [CPU -> Contexts] /\ cpu_ctx \in [CPU -> Contexts]
        /\ c_rt_ctx \in [CPU -> Hooks \cup {None, "stale"}]
    BY <1>1, Zenon DEF Init, Worlds
  <2>2. /\ scr_el3 \in [CPU -> [SECURITY_STATES -> SUBSET INTR_TYPES]]
        /\ intr_type_descs \in [INTR_TYPES -> [handler : BOOLEAN, flags : SUBSET SECURITY_STATES]]
    BY <1>2 DEF Init
  <2>3. /\ saved_el3 \in [CPU -> [elr : Points, irq : BOOLEAN]]
        /\ sp_ctx \in [CPU -> Regs]
        /\ frame \in [CPU -> Contexts] /\ call \in [CPU -> Calls]
        /\ reply \in [CPU -> Replies]
        /\ saved_tsp_args \in [CPU -> Args \cup {None}]
    BY <1>1, ReplyType, Zenon DEF Init
  <2> QED
    BY <2>1, <2>2, <2>3, Zenon DEF Init, TypeOK
<1>4. RegisteredInv
  BY <1>2 DEF Init, RegisteredInv
<1>5. ASSUME NEW c \in CPU PROVE CpuInv(c) /\ ~crossed[c]
  <2>1. /\ ~Routed(c) /\ ~std_smc_active[c] /\ pstate[c] = "OFF" /\ ~crossed[c]
        /\ reply[c].code = None
    BY <1>2, ReplyType DEF Init, Routed
  <2>2. CASE c = Primary
    <3>1. world[c] = "sec" /\ c_rt_ctx[c] = "init" /\ tsp[c] = At("init", FALSE)
      BY <2>2 DEF Init
    <3>2. HookInv(c)
      BY <2>1, <3>1, <1>1, Zenon DEF HookInv
    <3> QED
      BY <2>1, <3>1, <3>2, <1>1, Zenon DEF CpuInv, SecureInv, StdPoints, Hooks, None
  <2>3. CASE c # Primary
    <3>1. world[c] = "off" /\ c_rt_ctx[c] = None
      BY <2>3 DEF Init
    <3> QED
      BY <2>1, <3>1 DEF CpuInv, None
  <2> QED
    BY <2>2, <2>3
<1> QED
  BY <1>3, <1>4, <1>5 DEF IInv

(* Every step of the dispatcher, the payload and the normal world preserves *)
(* the inductive invariant.                                                 *)
LEMMA Invariance == IInv /\ [Next]_vars => IInv'
<1> SUFFICES ASSUME IInv, [Next]_vars PROVE IInv'
  OBVIOUS
<1>1. ASSUME NEW c \in Clients, NEW a \in Args, FastSmc(c, a) \/ StdSmc(c, a) PROVE IInv'
  BY <1>1, PrimaryAssumption, FastSmcInv, StdSmcInv
<1>2. ASSUME NEW c \in CPU, TspStep(c) PROVE IInv'
  BY <1>2, TspUnmaskInv, TspGetArgsInv, TspMaskInv, TspVectorReturnInv, TspFastDoneInv,
     TspStdDoneInv, TspHandledIntrInv, TspEntryDoneInv, TspHookDoneInv, TspPanicInv DEF TspStep
<1>3. ASSUME NEW c \in CPU, NormalWorld(c) PROVE IInv'
  BY <1>3, SmcUnknownInv, ResumeInv, PowerDownInv, WakeInv, CpuOnInv DEF NormalWorld
<1>4. ASSUME NEW c \in CPU, Interrupt(c) PROVE IInv'
  BY <1>4, Sel1InterruptInv, NsInterruptToEl3Inv, NsInterruptToTspInv DEF Interrupt
<1>5. CASE UNCHANGED vars
  <2>1. TypeOK'
    BY <1>5 DEF IInv, TypeOK, vars
  <2>2. RegisteredInv'
    BY <1>5, Zenon DEF IInv, RegisteredInv, vars
  <2>3. ASSUME NEW c \in CPU PROVE (crossed[c] => tsp_vectors)' /\ (~crossed[c] => CpuInv(c))'
    BY <1>5, Frame DEF IInv, Same, vars
  <2> QED
    BY <2>1, <2>2, <2>3 DEF IInv
<1> QED
  BY <1>1, <1>2, <1>3, <1>4, <1>5 DEF Next

(* Every state of the dispatcher satisfies the inductive invariant.         *)
THEOREM InvariantHolds == Spec => []IInv
BY Initial, Invariance, PTL DEF Spec

(* A result returned by the payload was computed from the arguments of the  *)
(* SMC it answers, whatever interrupts preempted it, on every CPU on which  *)
(* no PSCI hook has entered the payload across a preempted SMC.             *)
THEOREM ResultCorrect == Spec => []ResultIsOfTheCall
<1>1. IInv => ResultIsOfTheCall
  BY DEF IInv, CpuInv, ResultIsOfTheCall
<1> QED
  BY InvariantHolds, <1>1, PTL

(* TSP_PREEMPTED / SMC_PREEMPTED is only ever answered to a standard SMC,   *)
(* and it is then still in progress and can be resumed.                     *)
THEOREM PreemptionCorrect == Spec => []OnlyStdPreempted
<1>1. IInv => OnlyStdPreempted
  BY Zenon DEF IInv, CpuInv, NormalInv, StdInProgress, Ready, OnlyStdPreempted
<1> QED
  BY InvariantHolds, <1>1, PTL

(* No assertion of tspd_pm.c or tspd_common.c fails, and the payload never  *)
(* runs past an SMC that does not return.                                   *)
THEOREM PanicFree == Spec => []NoPanic
<1>1. IInv => NoPanic
  BY Zenon DEF IInv, CpuInv, NormalInv, SuspendedInv, Ready, HookAsserts, NoPanic
<1> QED
  BY InvariantHolds, <1>1, PTL

(* The saved context of a preempted standard SMC is intact, whatever secure *)
(* interrupts tspd_sel1_interrupt_handler() took to the payload meanwhile.  *)
THEOREM PreemptedContextSafe == Spec => []PreemptedCallSafe
<1>1. IInv => PreemptedCallSafe
  BY Zenon DEF IInv, CpuInv, NormalInv, Resumable, Carries, PreemptedCallKept, PreemptedCallSafe
<1> QED
  BY InvariantHolds, <1>1, PTL

=============================================================================
