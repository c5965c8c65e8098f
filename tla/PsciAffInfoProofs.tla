------------------------- MODULE PsciAffInfoProofs -------------------------
(* The properties of PsciAffInfo, for any set of callers.                  *)
EXTENDS PsciAffInfo, TLAPS

(* What memory and the line can hold: s in both, or s in the line only.    *)
Settled(s) == memory = s /\ dirty = 0 /\ cache \in {"invalid", s}
Ahead(m, s) == memory = m /\ dirty = 1 /\ cache = s

Sleeping == off_pc \in {"written", "wfi"}

(* A caller is in psci_cpu_on_start exactly while it holds the spin lock.  *)
Held == \A c \in Callers : (on_pc[c] # "idle") <=> (cpu_lock = c)

(* While the target runs or boots it is alone with its line.               *)
TargetInv ==
  /\ off_pc # "panic"
  /\ off_pc \in {"running", "flushed"} => Settled("ON")
  /\ off_pc \in {"warmboot", "choose", "on_finish", "set_on"}
       => Settled("ON_PENDING")
  /\ off_pc = "flush_on" => Settled("ON") \/ Ahead("ON_PENDING", "ON")
  /\ wake = 1 => Sleeping /\ Settled("ON_PENDING")

(* What a caller knows of the line at each of its steps.                   *)
CallerInv ==
  \A c \in Callers :
    /\ on_pc[c] # "assert"
    /\ TurnsOn(c) => Sleeping /\ wake = 0
    /\ on_pc[c] = "set" => Settled("OFF")
    /\ on_pc[c] = "flush" => \/ Settled("ON_PENDING")
                             \/ Ahead("OFF", "ON_PENDING")
                             \/ off_pc = "wfi" /\ Settled("OFF")
    /\ on_pc[c] = "reread" => \/ Settled("ON_PENDING")
                              \/ off_pc = "wfi" /\ Settled("OFF")
    /\ on_pc[c] = "set_again" => off_pc = "wfi" /\ Settled("OFF")
    /\ on_pc[c] = "flush_again" => /\ off_pc = "wfi"
                                   /\ \/ Settled("ON_PENDING")
                                      \/ Ahead("OFF", "ON_PENDING")
    /\ on_pc[c] \in {"check", "power_on"} => Settled("ON_PENDING")
    /\ on_pc[c] = "restore" => /\ failed = 1
                               /\ \/ Settled("OFF") \/ Ahead("ON_PENDING", "OFF")
                                  \/ off_pc = "wfi" /\ Settled("ON_PENDING")

(* When no caller is at work, the target is seen as OFF once its stale     *)
(* line is gone, but for a failed CPU_ON whose restored OFF was dropped.   *)
IdleInv ==
  (Sleeping /\ wake = 0 /\ \A c \in Callers : ~TurnsOn(c))
    => \/ Settled("OFF")
       \/ off_pc = "written" /\ memory = "OFF" /\ dirty = 0 /\ cache = "ON"
       \/ off_pc = "wfi" /\ failed = 1 /\ Settled("ON_PENDING")

IInv == TypeOK /\ Held /\ TargetInv /\ CallerInv /\ IdleInv

-----------------------------------------------------------------------------
(* The holder of the spin lock is the only caller that is not idle.        *)
LEMMA OthersIdle ==
  ASSUME Held, NEW c \in Callers, on_pc[c] # "idle"
  PROVE  cpu_lock = c /\ \A d \in Callers : d # c => on_pc[d] = "idle"
BY DEF Held

(* Each step of psci_do_cpu_off, psci_cpu_on_start, the boot of the target *)
(* and the memory system preserves the inductive invariant.                *)
LEMMA Invariance == IInv /\ [Next]_vars => IInv'
<1> SUFFICES ASSUME IInv, [Next]_vars PROVE IInv'
  OBVIOUS
<1> USE NobodyAssumption DEF IInv, Settled, Ahead, Sleeping, TurnsOn, Value, States
<1>1. CASE Fill
  <2>1. TypeOK'
    BY <1>1 DEF TypeOK, TargetInv, CallerInv, IdleInv, Fill, line
  <2>2. Held'
    BY <1>1 DEF Held, TypeOK, Fill, line
  <2>3. TargetInv'
    BY <1>1 DEF TargetInv, TypeOK, CallerInv, IdleInv, Fill, line
  <2>4. CallerInv'
    BY <1>1 DEF CallerInv, TypeOK, TargetInv, IdleInv, Fill, line
  <2>5. IdleInv'
    BY <1>1 DEF IdleInv, TypeOK, TargetInv, CallerInv, Fill, line
  <2> QED
    BY <2>1, <2>2, <2>3, <2>4, <2>5
<1>2. CASE Evict
  <2>1. TypeOK'
    BY <1>2 DEF TypeOK, TargetInv, CallerInv, IdleInv, Evict, Flush, line
  <2>2. Held'
    BY <1>2 DEF Held, TypeOK, Evict, Flush, line
  <2>3. TargetInv'
    BY <1>2 DEF TargetInv, TypeOK, CallerInv, IdleInv, Evict, Flush, line
  <2>4. CallerInv'
    BY <1>2 DEF CallerInv, TypeOK, TargetInv, IdleInv, Evict, Flush, line
  <2>5. IdleInv'
    BY <1>2 DEF IdleInv, TypeOK, TargetInv, CallerInv, Evict, Flush, line
  <2> QED
    BY <2>1, <2>2, <2>3, <2>4, <2>5
<1>3. CASE OffFlush
  <2>1. TypeOK'
    BY <1>3 DEF TypeOK, TargetInv, CallerInv, IdleInv, OffFlush, Target, Flush, line
  <2>2. Held'
    BY <1>3 DEF Held, TypeOK, OffFlush, Target, Flush, line
  <2>3. TargetInv'
    BY <1>3 DEF TargetInv, TypeOK, CallerInv, IdleInv, OffFlush, Target, Flush, line
  <2>4. CallerInv'
    BY <1>3 DEF CallerInv, TypeOK, TargetInv, IdleInv, OffFlush, Target, Flush, line
  <2>5. IdleInv'
    BY <1>3 DEF IdleInv, TypeOK, TargetInv, CallerInv, OffFlush, Target, Flush, line
  <2> QED
    BY <2>1, <2>2, <2>3, <2>4, <2>5
<1>4. CASE OffWrite
  <2>1. TypeOK'
    BY <1>4 DEF TypeOK, TargetInv, CallerInv, IdleInv, OffWrite, Target, line
  <2>2. Held'
    BY <1>4 DEF Held, TypeOK, OffWrite, Target, line
  <2>3. TargetInv'
    BY <1>4 DEF TargetInv, TypeOK, CallerInv, IdleInv, OffWrite, Target, line
  <2>4. CallerInv'
    BY <1>4 DEF CallerInv, TypeOK, TargetInv, IdleInv, OffWrite, Target, line
  <2>5. IdleInv'
    BY <1>4 DEF IdleInv, TypeOK, TargetInv, CallerInv, OffWrite, Target, line
  <2> QED
    BY <2>1, <2>2, <2>3, <2>4, <2>5
<1>5. CASE OffInvalidate
  <2>1. TypeOK'
    BY <1>5 DEF TypeOK, TargetInv, CallerInv, IdleInv, OffInvalidate, Target, Invalidate, line
  <2>2. Held'
    BY <1>5 DEF Held, TypeOK, OffInvalidate, Target, Invalidate, line
  <2>3. TargetInv'
    BY <1>5 DEF TargetInv, TypeOK, CallerInv, IdleInv, OffInvalidate, Target, Invalidate, line
  <2>4. CallerInv'
    BY <1>5 DEF CallerInv, TypeOK, TargetInv, IdleInv, OffInvalidate, Target, Invalidate, line
  <2>5. IdleInv'
    BY <1>5 DEF IdleInv, TypeOK, TargetInv, CallerInv, OffInvalidate, Target, Invalidate, line
  <2> QED
    BY <2>1, <2>2, <2>3, <2>4, <2>5
<1>6. ASSUME NEW c \in Callers, SpinLockCpu(c) PROVE IInv'
  <2>0. \A d \in Callers : on_pc[d] = "idle"
    BY <1>6 DEF SpinLockCpu, Held
  <2>1. TypeOK'
    BY <2>0, <1>6 DEF TypeOK, TargetInv, CallerInv, IdleInv, SpinLockCpu, Caller, line
  <2>2. Held'
    BY <2>0, <1>6 DEF Held, TypeOK, SpinLockCpu, Caller, line
  <2>3. TargetInv'
    BY <2>0, <1>6 DEF TargetInv, TypeOK, CallerInv, IdleInv, SpinLockCpu, Caller, line
  <2>4. CallerInv'
    BY <2>0, <1>6 DEF CallerInv, TypeOK, TargetInv, IdleInv, SpinLockCpu, Caller, line
  <2>5. IdleInv'
    BY <2>0, <1>6 DEF IdleInv, TypeOK, TargetInv, CallerInv, SpinLockCpu, Caller, line
  <2> QED
    BY <2>1, <2>2, <2>3, <2>4, <2>5
<1>7. ASSUME NEW c \in Callers, Validate(c) PROVE IInv'
  <2>0. on_pc[c] # "idle" /\ cpu_lock = c /\ \A d \in Callers : d # c => on_pc[d] = "idle"
    BY <1>7, OthersIdle DEF Validate, Caller
  <2>1. TypeOK'
    BY <2>0, <1>7 DEF TypeOK, TargetInv, CallerInv, IdleInv, Validate, Caller, line
  <2>2. Held'
    BY <2>0, <1>7 DEF Held, TypeOK, Validate, Caller, line
  <2>3. TargetInv'
    BY <2>0, <1>7 DEF TargetInv, TypeOK, CallerInv, IdleInv, Validate, Caller, line
  <2>4. CallerInv'
    BY <2>0, <1>7 DEF CallerInv, TypeOK, TargetInv, IdleInv, Validate, Caller, line
  <2>5. IdleInv'
    BY <2>0, <1>7 DEF IdleInv, TypeOK, TargetInv, CallerInv, Validate, Caller, line
  <2> QED
    BY <2>1, <2>2, <2>3, <2>4, <2>5
<1>8. ASSUME NEW c \in Callers, SetPending(c) PROVE IInv'
  <2>0. on_pc[c] # "idle" /\ cpu_lock = c /\ \A d \in Callers : d # c => on_pc[d] = "idle"
    BY <1>8, OthersIdle DEF SetPending, Caller
  <2>1. TypeOK'
    BY <2>0, <1>8 DEF TypeOK, TargetInv, CallerInv, IdleInv, SetPending, CachedWrite, Caller, line
  <2>2. Held'
    BY <2>0, <1>8 DEF Held, TypeOK, SetPending, CachedWrite, Caller, line
  <2>3. TargetInv'
    BY <2>0, <1>8 DEF TargetInv, TypeOK, CallerInv, IdleInv, SetPending, CachedWrite, Caller, line
  <2>4. CallerInv'
    BY <2>0, <1>8 DEF CallerInv, TypeOK, TargetInv, IdleInv, SetPending, CachedWrite, Caller, line
  <2>5. IdleInv'
    BY <2>0, <1>8 DEF IdleInv, TypeOK, TargetInv, CallerInv, SetPending, CachedWrite, Caller, line
  <2> QED
    BY <2>1, <2>2, <2>3, <2>4, <2>5
<1>9. ASSUME NEW c \in Callers, FlushPending(c) PROVE IInv'
  <2>0. on_pc[c] # "idle" /\ cpu_lock = c /\ \A d \in Callers : d # c => on_pc[d] = "idle"
    BY <1>9, OthersIdle DEF FlushPending, Caller
  <2>1. TypeOK'
    BY <2>0, <1>9 DEF TypeOK, TargetInv, CallerInv, IdleInv, FlushPending, Flush, Caller, line
  <2>2. Held'
    BY <2>0, <1>9 DEF Held, TypeOK, FlushPending, Flush, Caller, line
  <2>3. TargetInv'
    BY <2>0, <1>9 DEF TargetInv, TypeOK, CallerInv, IdleInv, FlushPending, Flush, Caller, line
  <2>4. CallerInv'
    BY <2>0, <1>9 DEF CallerInv, TypeOK, TargetInv, IdleInv, FlushPending, Flush, Caller, line
  <2>5. IdleInv'
    BY <2>0, <1>9 DEF IdleInv, TypeOK, TargetInv, CallerInv, FlushPending, Flush, Caller, line
  <2> QED
    BY <2>1, <2>2, <2>3, <2>4, <2>5
<1>10. ASSUME NEW c \in Callers, Reread(c) PROVE IInv'
  <2>0. on_pc[c] # "idle" /\ cpu_lock = c /\ \A d \in Callers : d # c => on_pc[d] = "idle"
    BY <1>10, OthersIdle DEF Reread, Caller
  <2>1. TypeOK'
    BY <2>0, <1>10 DEF TypeOK, TargetInv, CallerInv, IdleInv, Reread, Caller, line
  <2>2. Held'
    BY <2>0, <1>10 DEF Held, TypeOK, Reread, Caller, line
  <2>3. TargetInv'
    BY <2>0, <1>10 DEF TargetInv, TypeOK, CallerInv, IdleInv, Reread, Caller, line
  <2>4. CallerInv'
    BY <2>0, <1>10 DEF CallerInv, TypeOK, TargetInv, IdleInv, Reread, Caller, line
  <2>5. IdleInv'
    BY <2>0, <1>10 DEF IdleInv, TypeOK, TargetInv, CallerInv, Reread, Caller, line
  <2> QED
    BY <2>1, <2>2, <2>3, <2>4, <2>5
<1>11. ASSUME NEW c \in Callers, SetAgain(c) PROVE IInv'
  <2>0. on_pc[c] # "idle" /\ cpu_lock = c /\ \A d \in Callers : d # c => on_pc[d] = "idle"
    BY <1>11, OthersIdle DEF SetAgain, Caller
  <2>1. TypeOK'
    BY <2>0, <1>11 DEF TypeOK, TargetInv, CallerInv, IdleInv, SetAgain, CachedWrite, Caller, line
  <2>2. Held'
    BY <2>0, <1>11 DEF Held, TypeOK, SetAgain, CachedWrite, Caller, line
  <2>3. TargetInv'
    BY <2>0, <1>11 DEF TargetInv, TypeOK, CallerInv, IdleInv, SetAgain, CachedWrite, Caller, line
  <2>4. CallerInv'
    BY <2>0, <1>11 DEF CallerInv, TypeOK, TargetInv, IdleInv, SetAgain, CachedWrite, Caller, line
  <2>5. IdleInv'
    BY <2>0, <1>11 DEF IdleInv, TypeOK, TargetInv, CallerInv, SetAgain, CachedWrite, Caller, line
  <2> QED
    BY <2>1, <2>2, <2>3, <2>4, <2>5
<1>12. ASSUME NEW c \in Callers, FlushAgain(c) PROVE IInv'
  <2>0. on_pc[c] # "idle" /\ cpu_lock = c /\ \A d \in Callers : d # c => on_pc[d] = "idle"
    BY <1>12, OthersIdle DEF FlushAgain, Caller
  <2>1. TypeOK'
    BY <2>0, <1>12 DEF TypeOK, TargetInv, CallerInv, IdleInv, FlushAgain, Flush, Caller, line
  <2>2. Held'
    BY <2>0, <1>12 DEF Held, TypeOK, FlushAgain, Flush, Caller, line
  <2>3. TargetInv'
    BY <2>0, <1>12 DEF TargetInv, TypeOK, CallerInv, IdleInv, FlushAgain, Flush, Caller, line
  <2>4. CallerInv'
    BY <2>0, <1>12 DEF CallerInv, TypeOK, TargetInv, IdleInv, FlushAgain, Flush, Caller, line
  <2>5. IdleInv'
    BY <2>0, <1>12 DEF IdleInv, TypeOK, TargetInv, CallerInv, FlushAgain, Flush, Caller, line
  <2> QED
    BY <2>1, <2>2, <2>3, <2>4, <2>5
<1>13. ASSUME NEW c \in Callers, Check(c) PROVE IInv'
  <2>0. on_pc[c] # "idle" /\ cpu_lock = c /\ \A d \in Callers : d # c => on_pc[d] = "idle"
    BY <1>13, OthersIdle DEF Check, Caller
  <2>1. TypeOK'
    BY <2>0, <1>13 DEF TypeOK, TargetInv, CallerInv, IdleInv, Check, Caller, line
  <2>2. Held'
    BY <2>0, <1>13 DEF Held, TypeOK, Check, Caller, line
  <2>3. TargetInv'
    BY <2>0, <1>13 DEF TargetInv, TypeOK, CallerInv, IdleInv, Check, Caller, line
  <2>4. CallerInv'
    BY <2>0, <1>13 DEF CallerInv, TypeOK, TargetInv, IdleInv, Check, Caller, line
  <2>5. IdleInv'
    BY <2>0, <1>13 DEF IdleInv, TypeOK, TargetInv, CallerInv, Check, Caller, line
  <2> QED
    BY <2>1, <2>2, <2>3, <2>4, <2>5
<1>14. ASSUME NEW c \in Callers, PowerOn(c) PROVE IInv'
  <2>0. on_pc[c] # "idle" /\ cpu_lock = c /\ \A d \in Callers : d # c => on_pc[d] = "idle"
    BY <1>14, OthersIdle DEF PowerOn, Caller
  <2>1. TypeOK'
    BY <2>0, <1>14 DEF TypeOK, TargetInv, CallerInv, IdleInv, PowerOn, Caller, line
  <2>2. Held'
    BY <2>0, <1>14 DEF Held, TypeOK, PowerOn, Caller, line
  <2>3. TargetInv'
    BY <2>0, <1>14 DEF TargetInv, TypeOK, CallerInv, IdleInv, PowerOn, Caller, line
  <2>4. CallerInv'
    BY <2>0, <1>14 DEF CallerInv, TypeOK, TargetInv, IdleInv, PowerOn, Caller, line
  <2>5. IdleInv'
    BY <2>0, <1>14 DEF IdleInv, TypeOK, TargetInv, CallerInv, PowerOn, Caller, line
  <2> QED
    BY <2>1, <2>2, <2>3, <2>4, <2>5
<1>15. ASSUME NEW c \in Callers, PowerOnFails(c) PROVE IInv'
  <2>0. on_pc[c] # "idle" /\ cpu_lock = c /\ \A d \in Callers : d # c => on_pc[d] = "idle"
    BY <1>15, OthersIdle DEF PowerOnFails, Caller
  <2>1. TypeOK'
    BY <2>0, <1>15 DEF TypeOK, TargetInv, CallerInv, IdleInv, PowerOnFails, CachedWrite, Caller, line
  <2>2. Held'
    BY <2>0, <1>15 DEF Held, TypeOK, PowerOnFails, CachedWrite, Caller, line
  <2>3. TargetInv'
    BY <2>0, <1>15 DEF TargetInv, TypeOK, CallerInv, IdleInv, PowerOnFails, CachedWrite, Caller, line
  <2>4. CallerInv'
    BY <2>0, <1>15 DEF CallerInv, TypeOK, TargetInv, IdleInv, PowerOnFails, CachedWrite, Caller, line
  <2>5. IdleInv'
    BY <2>0, <1>15 DEF IdleInv, TypeOK, TargetInv, CallerInv, PowerOnFails, CachedWrite, Caller, line
  <2> QED
    BY <2>1, <2>2, <2>3, <2>4, <2>5
<1>16. ASSUME NEW c \in Callers, FlushRestored(c) PROVE IInv'
  <2>0. on_pc[c] # "idle" /\ cpu_lock = c /\ \A d \in Callers : d # c => on_pc[d] = "idle"
    BY <1>16, OthersIdle DEF FlushRestored, Caller
  <2>1. TypeOK'
    BY <2>0, <1>16 DEF TypeOK, TargetInv, CallerInv, IdleInv, FlushRestored, Flush, Caller, line
  <2>2. Held'
    BY <2>0, <1>16 DEF Held, TypeOK, FlushRestored, Flush, Caller, line
  <2>3. TargetInv'
    BY <2>0, <1>16 DEF TargetInv, TypeOK, CallerInv, IdleInv, FlushRestored, Flush, Caller, line
  <2>4. CallerInv'
    BY <2>0, <1>16 DEF CallerInv, TypeOK, TargetInv, IdleInv, FlushRestored, Flush, Caller, line
  <2>5. IdleInv'
    BY <2>0, <1>16 DEF IdleInv, TypeOK, TargetInv, CallerInv, FlushRestored, Flush, Caller, line
  <2> QED
    BY <2>1, <2>2, <2>3, <2>4, <2>5
<1>17. ASSUME NEW c \in Callers, SpinUnlockCpu(c) PROVE IInv'
  <2>0. on_pc[c] # "idle" /\ cpu_lock = c /\ \A d \in Callers : d # c => on_pc[d] = "idle"
    BY <1>17, OthersIdle DEF SpinUnlockCpu, Caller
  <2>1. TypeOK'
    BY <2>0, <1>17 DEF TypeOK, TargetInv, CallerInv, IdleInv, SpinUnlockCpu, Caller, line
  <2>2. Held'
    BY <2>0, <1>17 DEF Held, TypeOK, SpinUnlockCpu, Caller, line
  <2>3. TargetInv'
    BY <2>0, <1>17 DEF TargetInv, TypeOK, CallerInv, IdleInv, SpinUnlockCpu, Caller, line
  <2>4. CallerInv'
    BY <2>0, <1>17 DEF CallerInv, TypeOK, TargetInv, IdleInv, SpinUnlockCpu, Caller, line
  <2>5. IdleInv'
    BY <2>0, <1>17 DEF IdleInv, TypeOK, TargetInv, CallerInv, SpinUnlockCpu, Caller, line
  <2> QED
    BY <2>1, <2>2, <2>3, <2>4, <2>5
<1>18. CASE PowerUp
  <2>1. TypeOK'
    BY <1>18 DEF TypeOK, TargetInv, CallerInv, IdleInv, PowerUp, line
  <2>2. Held'
    BY <1>18 DEF Held, TypeOK, PowerUp, line
  <2>3. TargetInv'
    BY <1>18 DEF TargetInv, TypeOK, CallerInv, IdleInv, PowerUp, line
  <2>4. CallerInv'
    BY <1>18 DEF CallerInv, TypeOK, TargetInv, IdleInv, PowerUp, line
  <2>5. IdleInv'
    BY <1>18 DEF IdleInv, TypeOK, TargetInv, CallerInv, PowerUp, line
  <2> QED
    BY <2>1, <2>2, <2>3, <2>4, <2>5
<1>19. CASE Warmboot
  <2>1. TypeOK'
    BY <1>19 DEF TypeOK, TargetInv, CallerInv, IdleInv, Warmboot, Target, line
  <2>2. Held'
    BY <1>19 DEF Held, TypeOK, Warmboot, Target, line
  <2>3. TargetInv'
    BY <1>19 DEF TargetInv, TypeOK, CallerInv, IdleInv, Warmboot, Target, line
  <2>4. CallerInv'
    BY <1>19 DEF CallerInv, TypeOK, TargetInv, IdleInv, Warmboot, Target, line
  <2>5. IdleInv'
    BY <1>19 DEF IdleInv, TypeOK, TargetInv, CallerInv, Warmboot, Target, line
  <2> QED
    BY <2>1, <2>2, <2>3, <2>4, <2>5
<1>20. CASE ChooseFinisher
  <2>1. TypeOK'
    BY <1>20 DEF TypeOK, TargetInv, CallerInv, IdleInv, ChooseFinisher, Target, line
  <2>2. Held'
    BY <1>20 DEF Held, TypeOK, ChooseFinisher, Target, line
  <2>3. TargetInv'
    BY <1>20 DEF TargetInv, TypeOK, CallerInv, IdleInv, ChooseFinisher, Target, line
  <2>4. CallerInv'
    BY <1>20 DEF CallerInv, TypeOK, TargetInv, IdleInv, ChooseFinisher, Target, line
  <2>5. IdleInv'
    BY <1>20 DEF IdleInv, TypeOK, TargetInv, CallerInv, ChooseFinisher, Target, line
  <2> QED
    BY <2>1, <2>2, <2>3, <2>4, <2>5
<1>21. CASE OnFinish
  <2>1. TypeOK'
    BY <1>21 DEF TypeOK, TargetInv, CallerInv, IdleInv, OnFinish, Target, line
  <2>2. Held'
    BY <1>21 DEF Held, TypeOK, OnFinish, Target, line
  <2>3. TargetInv'
    BY <1>21 DEF TargetInv, TypeOK, CallerInv, IdleInv, OnFinish, Target, line
  <2>4. CallerInv'
    BY <1>21 DEF CallerInv, TypeOK, TargetInv, IdleInv, OnFinish, Target, line
  <2>5. IdleInv'
    BY <1>21 DEF IdleInv, TypeOK, TargetInv, CallerInv, OnFinish, Target, line
  <2> QED
    BY <2>1, <2>2, <2>3, <2>4, <2>5
<1>22. CASE SetOn
  <2>1. TypeOK'
    BY <1>22 DEF TypeOK, TargetInv, CallerInv, IdleInv, SetOn, Target, CachedWrite, line
  <2>2. Held'
    BY <1>22 DEF Held, TypeOK, SetOn, Target, CachedWrite, line
  <2>3. TargetInv'
    BY <1>22 DEF TargetInv, TypeOK, CallerInv, IdleInv, SetOn, Target, CachedWrite, line
  <2>4. CallerInv'
    BY <1>22 DEF CallerInv, TypeOK, TargetInv, IdleInv, SetOn, Target, CachedWrite, line
  <2>5. IdleInv'
    BY <1>22 DEF IdleInv, TypeOK, TargetInv, CallerInv, SetOn, Target, CachedWrite, line
  <2> QED
    BY <2>1, <2>2, <2>3, <2>4, <2>5
<1>23. CASE FlushOn
  <2>1. TypeOK'
    BY <1>23 DEF TypeOK, TargetInv, CallerInv, IdleInv, FlushOn, Target, Flush, line
  <2>2. Held'
    BY <1>23 DEF Held, TypeOK, FlushOn, Target, Flush, line
  <2>3. TargetInv'
    BY <1>23 DEF TargetInv, TypeOK, CallerInv, IdleInv, FlushOn, Target, Flush, line
  <2>4. CallerInv'
    BY <1>23 DEF CallerInv, TypeOK, TargetInv, IdleInv, FlushOn, Target, Flush, line
  <2>5. IdleInv'
    BY <1>23 DEF IdleInv, TypeOK, TargetInv, CallerInv, FlushOn, Target, Flush, line
  <2> QED
    BY <2>1, <2>2, <2>3, <2>4, <2>5
<1>24. CASE UNCHANGED vars
  BY <1>24 DEF vars, TypeOK, Held, TargetInv, CallerInv, IdleInv
<1> QED
  BY <1>1, <1>2, <1>3, <1>4, <1>5, <1>6, <1>7, <1>8, <1>9, <1>10, <1>11, <1>12, <1>13, <1>14, <1>15, <1>16, <1>17, <1>18, <1>19, <1>20, <1>21, <1>22, <1>23, <1>24 DEF Next, CpuOnStart

LEMMA InitIInv == Init => IInv
BY NobodyAssumption DEF Init, IInv, TypeOK, Held, TargetInv, CallerInv, IdleInv,
   Settled, Ahead, Sleeping, TurnsOn, Value, States

LEMMA AlwaysIInv == Spec => []IInv
BY InitIInv, Invariance, PTL DEF Spec

(* Types, and no line stays dirty beyond the flush that follows its write. *)
THEOREM TypeCorrect == Spec => []TypeOK
<1>1. IInv => TypeOK
  BY DEF IInv
<1> QED
  BY <1>1, AlwaysIInv, PTL

(* The ON_PENDING of a CPU_ON is never lost, wherever the target is in     *)
(* psci_do_cpu_off and whatever the caches write back.                     *)
THEOREM Sticks == Spec => []RequestSticks
<1>1. IInv => RequestSticks
  BY DEF IInv, TargetInv, RequestSticks
<1> QED
  BY <1>1, AlwaysIInv, PTL

(* The retry of psci_cpu_on_start never needs a second one.                *)
THEOREM RetryOnce == Spec => []OneRetryIsEnough
<1>1. IInv => OneRetryIsEnough
  BY DEF IInv, CallerInv, OneRetryIsEnough
<1> QED
  BY <1>1, AlwaysIInv, PTL

(* One CPU_ON at a time turns the target on, and none while it boots.      *)
THEOREM OneCaller == Spec => []OneCallerTurnsOn
<1>1. IInv => OneCallerTurnsOn
  BY DEF IInv, Held, CallerInv, OneCallerTurnsOn, TurnsOn
<1> QED
  BY <1>1, AlwaysIInv, PTL

(* As long as pwr_domain_on has not failed, as on both of Marvell's        *)
(* platforms, a CPU that went to sleep in CPU_OFF is seen as OFF.          *)
THEOREM SeenOff == Spec => []OffIsSeenUnlessFailed
<1>1. IInv => OffIsSeenUnlessFailed
  BY DEF IInv, IdleInv, OffIsSeenUnlessFailed, OffIsSeen, Sleeping, Settled,
         Value, TurnsOn
<1> QED
  BY <1>1, AlwaysIInv, PTL
=============================================================================
