------------------------------ MODULE EnvFlash ------------------------------
(***************************************************************************)
(* The redundant environment of U-Boot in SPI flash (common/env_sf.c with  *)
(* CONFIG_ENV_OFFSET_REDUND): saveenv erases and writes one copy while the *)
(* other one stays, env_relocate_spec chooses a copy at boot.  The power   *)
(* may go at any moment and a flash operation may fail.                    *)
(***************************************************************************)
EXTENDS Naturals

CONSTANTS Values,        \* contents of an environment
          Default,       \* default_environment
          Bad,           \* data that is erased or written in part: a wrong crc
          SectorLarger   \* CONFIG_ENV_SECT_SIZE > CONFIG_ENV_SIZE

ASSUME ValuesAssumption == Default \in Values /\ Bad \notin Values
ASSUME SectorAssumption == SectorLarger \in BOOLEAN

OBSOLETE_FLAG == 0
ACTIVE_FLAG == 1
ERASED == 255
Flags == {OBSOLETE_FLAG, ACTIVE_FLAG, ERASED}

VARIABLES data, flags,  \* the two copies in flash, 1 and 2
          env,          \* env_htab
          env_valid,    \* gd->env_valid: the copy in use
          env_new,      \* the exported environment that saveenv writes
          pc,
          committed,    \* history: what the last successful saveenv, or the
          maybe,        \*   last boot, left; what later saves tried to write;
          unread        \*   1 once a boot could not read a copy

flash == <<data, flags>>
history == <<committed, maybe, unread>>
vars == <<flash, env, env_valid, env_new, pc, history>>

(* After the first saveenv on an empty flash, and before the next boot.    *)
Init == /\ \E v \in Values : /\ data = [s \in 1 .. 2 |-> IF s = 2 THEN v ELSE Bad]
                             /\ committed = v /\ env_new = v
        /\ flags = [s \in 1 .. 2 |-> IF s = 2 THEN ACTIVE_FLAG ELSE OBSOLETE_FLAG]
        /\ env = Default /\ env_valid = 1
        /\ pc = "boot" /\ maybe = {} /\ unread = 0

CrcOk(d) == d # Bad

-----------------------------------------------------------------------------
(* env_relocate_spec                                                       *)

(* Mutant: the first copy is preferred to the active one.                  *)
Chosen_FirstValid(d1, d2, f1, f2) == IF CrcOk(d1) THEN 1 ELSE 2

(* The copy to use, when at least one crc is right.                        *)
Chosen(d1, d2, f1, f2) ==
  CASE CrcOk(d1) /\ ~CrcOk(d2) -> 1
    [] ~CrcOk(d1) /\ CrcOk(d2) -> 2
    [] CrcOk(d1) /\ CrcOk(d2) ->
         IF f1 = ACTIVE_FLAG /\ f2 = OBSOLETE_FLAG THEN 1
         ELSE IF f1 = OBSOLETE_FLAG /\ f2 = ACTIVE_FLAG THEN 2
         ELSE IF f1 = f2 THEN 1
         ELSE IF f1 = ERASED THEN 1
         ELSE IF f2 = ERASED THEN 2
         ELSE 1

Load(d1, d2, s) == /\ env_valid' = s
                   /\ env' = IF s = 1 THEN d1 ELSE d2
                   /\ committed' = env' /\ maybe' = {}

(* The first copy cannot be read, or no crc is right: the default          *)
(* environment, and env_valid is as env_init set it.                       *)
LoadDefault == env' = Default /\ env_valid' = 1 /\ UNCHANGED <<committed, maybe>>

(* read2 is FALSE when the second copy cannot be read.                     *)
Relocate(read2) ==
  LET d2 == IF read2 THEN data[2] ELSE Bad
  IN  /\ pc = "boot" /\ pc' = "idle"
      /\ IF CrcOk(data[1]) \/ CrcOk(d2)
         THEN Load(data[1], d2, Chosen(data[1], d2, flags[1], flags[2]))
         ELSE LoadDefault
      /\ unread' = IF read2 THEN unread ELSE 1
      /\ UNCHANGED <<flash, env_new>>

Boot == Relocate(TRUE)

BootCannotReadFirst == /\ pc = "boot" /\ pc' = "idle"
                       /\ LoadDefault /\ unread' = 1
                       /\ UNCHANGED <<flash, env_new>>

BootCannotReadSecond == Relocate(FALSE)

-----------------------------------------------------------------------------
(* saveenv                                                                 *)

SetEnv == /\ pc = "idle" /\ env' \in Values
          /\ UNCHANGED <<flash, env_valid, env_new, pc, history>>

(* env_new_offset and env_offset                                           *)
NewCopy == IF env_valid = 1 THEN 2 ELSE 1
OldCopy == IF env_valid = 1 THEN 1 ELSE 2

(* The flash cannot be probed: the environment in RAM is lost too.         *)
SaveCannotProbe == /\ pc = "idle" /\ env' = Default
                   /\ UNCHANGED <<flash, env_valid, env_new, pc, history>>

(* env_export                                                              *)
Save == /\ pc = "idle" /\ pc' = "erase"
        /\ env_new' = env /\ maybe' = maybe \cup {env}
        /\ UNCHANGED <<flash, env, env_valid, committed, unread>>

Put(s, d, f) == /\ data' = [data EXCEPT ![s] = d]
                /\ flags' = [flags EXCEPT ![s] = f]

Step(from, to) == /\ pc = from /\ pc' = to
                  /\ UNCHANGED <<env, env_valid, env_new, history>>

EraseBegins == /\ Step("erase", "erasing")
               /\ \E f \in {flags[NewCopy], ERASED} : Put(NewCopy, Bad, f)

EraseDone == Step("erasing", "write") /\ Put(NewCopy, Bad, ERASED)

WriteBegins == /\ Step("write", "writing")
               /\ \E f \in {ERASED, ACTIVE_FLAG} : Put(NewCopy, Bad, f)

WriteDone == /\ Step("writing", IF SectorLarger THEN "write_back" ELSE "mark")
             /\ Put(NewCopy, env_new, ACTIVE_FLAG)

(* The rest of the sector.                                                 *)
WriteBack == Step("write_back", "mark") /\ UNCHANGED flash

(* Mutant: the other copy is the next one.                                 *)
OtherCopy_Next(s) == s + 1

OtherCopy(s) == IF s = 2 THEN 1 ELSE 2

(* Mutant: the old copy stays active.                                      *)
Mark_StaysActive == /\ pc = "mark" /\ pc' = "idle"
                    /\ env_valid' = OtherCopy(env_valid)
                    /\ committed' = env_new /\ maybe' = {}
                    /\ UNCHANGED <<flash, env, env_new, unread>>

(* The old copy becomes obsolete, the new one is in use.                   *)
Mark == /\ pc = "mark" /\ pc' = "idle"
        /\ flags' = [flags EXCEPT ![OldCopy] = OBSOLETE_FLAG]
        /\ env_valid' = OtherCopy(env_valid)
        /\ committed' = env_new /\ maybe' = {}
        /\ UNCHANGED <<data, env, env_new, unread>>

(* No memory for the rest of the sector, or a flash operation fails: before *)
(* it changed anything or half-way; the flag may have been written.        *)
SaveFails == /\ \/ /\ \E from \in {"erase", "erasing", "write", "writing", "write_back"} :
                        Step(from, "idle")
                   /\ UNCHANGED flash
                \/ /\ Step("mark", "idle")
                   /\ \E f \in {flags[OldCopy], OBSOLETE_FLAG} :
                        Put(OldCopy, data[OldCopy], f)

(* RAM is lost.                                                            *)
PowerCut == /\ pc # "boot" /\ pc' = "boot"
            /\ env' = Default /\ env_valid' = 1 /\ env_new' = Default
            /\ UNCHANGED <<flash, history>>

Next == \/ Boot \/ BootCannotReadFirst \/ BootCannotReadSecond
        \/ SetEnv \/ SaveCannotProbe \/ Save
        \/ EraseBegins \/ EraseDone \/ WriteBegins \/ WriteDone \/ WriteBack
        \/ Mark \/ SaveFails \/ PowerCut

Spec == Init /\ [][Next]_vars

-----------------------------------------------------------------------------
TypeOK ==
  /\ data \in [1 .. 2 -> Values \cup {Bad}] /\ flags \in [1 .. 2 -> Flags]
  /\ env \in Values /\ env_valid \in 1 .. 2 /\ env_new \in Values
  /\ committed \in Values /\ maybe \subseteq Values /\ unread \in {0, 1}
  /\ pc \in {"boot", "idle", "erase", "erasing", "write", "writing",
             "write_back", "mark"}

(* "so that there is a valid backup copy in case there is a power failure  *)
(* during a "saveenv" operation" (README:3952)                             *)
BackupExists == \E s \in 1 .. 2 : CrcOk(data[s])

WouldLoad == IF BackupExists
             THEN data[Chosen(data[1], data[2], flags[1], flags[2])] ELSE Default

Kept == BackupExists /\ WouldLoad \in {committed} \cup maybe

(* If the power goes now, the next boot loads the environment of the last  *)
(* completed saveenv or boot, or one that a later saveenv tried to write:  *)
(* never an older one, never the default.  It holds until a boot cannot    *)
(* read one of the copies.                                                 *)
NothingOlder == unread = 0 => Kept

(* A saveenv that reports success has taken effect: the next boot loads    *)
(* what it wrote, whatever failed before it.                               *)
SaveTakesEffect ==
  [][pc = "mark" /\ env_valid' # env_valid /\ pc' = "idle"
       => WouldLoad' = env_new]_vars
=============================================================================
