---------------------------- MODULE PsciAffInfo ----------------------------
(***************************************************************************)
(* The aff_info_state of one CPU while it turns itself off and other CPUs  *)
(* turn it on (psci_on.c, psci_off.c).  The CPU that turns off runs with   *)
(* its data cache disabled and writes to memory; the callers of CPU_ON     *)
(* write to the cache and flush.  The cache is one line shared by the      *)
(* coherent CPUs.                                                          *)
(***************************************************************************)
EXTENDS Naturals

CONSTANTS Callers,  \* the other CPUs
          Nobody    \* no CPU

ASSUME NobodyAssumption == Nobody \notin Callers

VARIABLES memory,   \* aff_info_state in main memory
          cache,    \* the cached copy, or "invalid"
          dirty,    \* 1 if the cached copy is newer than memory
          off_pc,   \* the target
          on_pc,    \* each caller of CPU_ON
          cpu_lock, \* the holder of the target's spin lock
          wake,     \* 1 once the power controller was told to start the target
          failed    \* history: 1 once pwr_domain_on has reported a failure

line == <<memory, cache, dirty>>
vars == <<memory, cache, dirty, off_pc, on_pc, cpu_lock, wake, failed>>

States == {"ON", "OFF", "ON_PENDING"}

(* A CPU with its cache on reads the line, or memory if there is no line.  *)
Value == IF cache = "invalid" THEN memory ELSE cache

Init == /\ memory = "ON" /\ cache = "invalid" /\ dirty = 0
        /\ off_pc = "running" /\ wake = 0 /\ failed = 0
        /\ on_pc = [c \in Callers |-> "idle"] /\ cpu_lock = Nobody

CachedWrite(s) == cache' = s /\ dirty' = 1 /\ UNCHANGED memory

(* flush_dcache_range: clean and invalidate.                               *)
Flush == /\ memory' = IF dirty = 1 THEN cache ELSE memory
         /\ cache' = "invalid" /\ dirty' = 0

(* inv_dcache_range: the line is dropped, dirty or not.                    *)
Invalidate == cache' = "invalid" /\ dirty' = 0 /\ UNCHANGED memory

(* A step of the target, and a step of caller c.                           *)
Target(from, to) == /\ off_pc = from /\ off_pc' = to
                    /\ UNCHANGED <<on_pc, cpu_lock, wake, failed>>

Caller(c, from, to) == /\ on_pc[c] = from /\ on_pc' = [on_pc EXCEPT ![c] = to]
                       /\ failed' = IF to = "restore" THEN 1 ELSE failed
                       /\ UNCHANGED off_pc

-----------------------------------------------------------------------------
(* The memory system: a line is filled by any access or speculation of a   *)
(* CPU with caches on, and written back or dropped at any time.            *)

Fill == /\ cache = "invalid"
        /\ cache' = memory
        /\ UNCHANGED <<memory, dirty, off_pc, on_pc, cpu_lock, wake, failed>>

Evict == /\ cache # "invalid"
         /\ Flush
         /\ UNCHANGED <<off_pc, on_pc, cpu_lock, wake, failed>>

-----------------------------------------------------------------------------
(* psci_do_cpu_off, after the locks of the power domains are released      *)

OffFlush == Target("running", "flushed") /\ Flush

OffWrite == /\ Target("flushed", "written")
            /\ memory' = "OFF" /\ UNCHANGED <<cache, dirty>>

(* Mutant: no invalidation.                                                *)
OffInvalidate_Missing == Target("written", "wfi") /\ UNCHANGED line

(* The line goes, with the update of a CPU_ON if it is there unflushed.    *)
OffInvalidate == Target("written", "wfi") /\ Invalidate

-----------------------------------------------------------------------------
(* psci_cpu_on_start, by CPU c                                             *)

(* Mutant: the spin lock keeps nobody out.                                 *)
SpinLockCpu_NotExclusive(c) == /\ Caller(c, "idle", "validate")
                               /\ cpu_lock' = c /\ UNCHANGED <<line, wake>>

SpinLockCpu(c) == /\ cpu_lock = Nobody
                  /\ Caller(c, "idle", "validate")
                  /\ cpu_lock' = c /\ UNCHANGED <<line, wake>>

(* cpu_on_validate_state: the call goes on only if the target is off.      *)
Validate(c) == /\ Caller(c, "validate", IF Value = "OFF" THEN "set" ELSE "unlock")
               /\ UNCHANGED <<line, cpu_lock, wake>>

SetPending(c) == /\ Caller(c, "set", "flush")
                 /\ CachedWrite("ON_PENDING") /\ UNCHANGED <<cpu_lock, wake>>

(* Mutant: ON_PENDING stays in the cache.                                  *)
FlushPending_Missing(c) == /\ Caller(c, "flush", "reread")
                           /\ UNCHANGED <<line, cpu_lock, wake>>

FlushPending(c) == /\ Caller(c, "flush", "reread")
                   /\ Flush /\ UNCHANGED <<cpu_lock, wake>>

(* Mutant: no second look.                                                 *)
Reread_Skipped(c) == /\ Caller(c, "reread", "power_on")
                     /\ UNCHANGED <<line, cpu_lock, wake>>

(* The update may have been dropped by the target: look again, once.       *)
Reread(c) == /\ Caller(c, "reread", IF Value = "ON_PENDING" THEN "power_on"
                                    ELSE IF Value = "OFF" THEN "set_again"
                                    ELSE "assert")
             /\ UNCHANGED <<line, cpu_lock, wake>>

SetAgain(c) == /\ Caller(c, "set_again", "flush_again")
               /\ CachedWrite("ON_PENDING") /\ UNCHANGED <<cpu_lock, wake>>

(* Mutant: the line is invalidated instead of flushed.                     *)
FlushAgain_Drops(c) == /\ Caller(c, "flush_again", "check")
                       /\ Invalidate /\ UNCHANGED <<cpu_lock, wake>>

FlushAgain(c) == /\ Caller(c, "flush_again", "check")
                 /\ Flush /\ UNCHANGED <<cpu_lock, wake>>

Check(c) == /\ Caller(c, "check",
                      IF Value = "ON_PENDING" THEN "power_on" ELSE "assert")
            /\ UNCHANGED <<line, cpu_lock, wake>>

PowerOn(c) == /\ Caller(c, "power_on", "unlock")
              /\ wake' = 1 /\ UNCHANGED <<line, cpu_lock>>

PowerOnFails(c) == /\ Caller(c, "power_on", "restore")
                   /\ CachedWrite("OFF") /\ UNCHANGED <<cpu_lock, wake>>

FlushRestored(c) == /\ Caller(c, "restore", "unlock")
                    /\ Flush /\ UNCHANGED <<cpu_lock, wake>>

SpinUnlockCpu(c) == /\ Caller(c, "unlock", "idle")
                    /\ cpu_lock' = Nobody /\ UNCHANGED <<line, wake>>

-----------------------------------------------------------------------------
(* The target boots.  A controller may wait for the wfi or, like the reset *)
(* pulse of the Armada 3700, catch the target before it.                   *)

PowerUp == /\ wake = 1 /\ off_pc \in {"written", "wfi"}
           /\ wake' = 0 /\ off_pc' = "warmboot"
           /\ UNCHANGED <<line, on_pc, cpu_lock, failed>>

(* psci_warmboot_entrypoint reads twice with the cache off: to see that it *)
(* was turned on or resumed at all, and to choose the finisher.            *)
Warmboot == /\ Target("warmboot", IF memory = "OFF" THEN "panic" ELSE "choose")
            /\ UNCHANGED line

ChooseFinisher == /\ Target("choose", IF memory = "ON_PENDING" THEN "on_finish"
                                      ELSE "panic")
                  /\ UNCHANGED line

(* psci_cpu_on_finish waits for the caller to unlock, and asserts.         *)
OnFinish == /\ cpu_lock = Nobody
            /\ Target("on_finish", IF Value = "ON_PENDING" THEN "set_on"
                                   ELSE "panic")
            /\ UNCHANGED line

(* psci_set_pwr_domains_to_run                                             *)
SetOn == Target("set_on", "flush_on") /\ CachedWrite("ON")
FlushOn == Target("flush_on", "running") /\ Flush

CpuOnStart(c) == \/ SpinLockCpu(c) \/ Validate(c)
                 \/ SetPending(c) \/ FlushPending(c) \/ Reread(c)
                 \/ SetAgain(c) \/ FlushAgain(c) \/ Check(c)
                 \/ PowerOn(c) \/ PowerOnFails(c) \/ FlushRestored(c)
                 \/ SpinUnlockCpu(c)

Next == \/ Fill \/ Evict
        \/ OffFlush \/ OffWrite \/ OffInvalidate
        \/ \E c \in Callers : CpuOnStart(c)
        \/ PowerUp \/ Warmboot \/ ChooseFinisher \/ OnFinish
        \/ SetOn \/ FlushOn

Spec == Init /\ [][Next]_vars

-----------------------------------------------------------------------------
(* Types, and: a line is dirty only between a write of aff_info_state and  *)
(* the flush that follows it in psci_on.c and psci_common.c, since the     *)
(* other side looks at memory after that.                                  *)
TypeOK ==
  /\ memory \in States /\ cache \in States \cup {"invalid"}
  /\ dirty \in {0, 1} /\ wake \in {0, 1} /\ failed \in {0, 1}
  /\ cpu_lock \in Callers \cup {Nobody}
  /\ off_pc \in {"running", "flushed", "written", "wfi", "warmboot", "choose",
                 "on_finish", "set_on", "flush_on", "panic"}
  /\ on_pc \in [Callers -> {"idle", "validate", "set", "flush", "reread",
                            "set_again", "flush_again", "check", "power_on",
                            "restore", "unlock", "assert"}]
  /\ dirty = 1 => /\ cache # "invalid"
                  /\ \/ \E c \in Callers :
                          on_pc[c] \in {"flush", "flush_again", "restore"}
                     \/ off_pc = "flush_on"

(* The request of a CPU_ON is not lost: the target finds ON_PENDING when   *)
(* psci_warmboot_entrypoint looks, twice, in memory, and again when        *)
(* psci_cpu_on_finish looks in the cache.                                  *)
RequestSticks == off_pc # "panic"

(* The assertions of psci_cpu_on_start after the update and after the      *)
(* retry hold: what was lost can only be OFF, and one retry is enough.     *)
OneRetryIsEnough == \A c \in Callers : on_pc[c] # "assert"

(* Two CPU_ON calls never both think that they turn the target on, and     *)
(* none does once the controller was told to.                              *)
TurnsOn(c) == on_pc[c] \in {"set", "flush", "reread", "set_again",
                            "flush_again", "check", "power_on", "restore"}
OneCallerTurnsOn == /\ \A c, d \in Callers : TurnsOn(c) /\ TurnsOn(d) => c = d
                    /\ \A c \in Callers : TurnsOn(c) => wake = 0

(* "cache maintenance is required to ensure that later cached reads of     *)
(* aff_info_state return AFF_STATE_OFF" (psci_off.c:159): once the target  *)
(* sleeps, and no CPU_ON is at work on it, every CPU reads OFF.            *)
OffIsSeen == (off_pc = "wfi" /\ wake = 0 /\ \A c \in Callers : ~TurnsOn(c))
               => Value = "OFF"

(* OffIsSeen as long as pwr_domain_on has not failed; the hooks of the     *)
(* Armada 3700 and 8K (a3700_pwr_domain_on, a8k_pwr_domain_on) never do.   *)
OffIsSeenUnlessFailed == failed = 0 => OffIsSeen
=============================================================================
