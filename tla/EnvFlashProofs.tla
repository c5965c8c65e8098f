--------------------------- MODULE EnvFlashProofs ---------------------------
(* The properties of EnvFlash for every set of environments.               *)
EXTENDS EnvFlash, TLAPS

(* While U-Boot runs the old copy holds what a boot may fall back on, and  *)
(* the new copy is bad from the erase until it is complete.                *)
CopiesInv ==
  /\ pc # "boot" => data[OldCopy] = committed
  /\ pc \in {"erasing", "write", "writing"} => data[NewCopy] = Bad
  /\ pc \in {"write_back", "mark"}
       => data[NewCopy] = env_new /\ flags[NewCopy] = ACTIVE_FLAG
  /\ pc \notin {"boot", "idle"} => env_new \in maybe

IInv == TypeOK /\ Kept /\ CopiesInv

-----------------------------------------------------------------------------
(* env_relocate_spec chooses a copy whose crc is right.                    *)
LEMMA ChosenIsGood ==
  ASSUME NEW d1, NEW d2, NEW f1, NEW f2, CrcOk(d1) \/ CrcOk(d2)
  PROVE  LET s == Chosen(d1, d2, f1, f2)
         IN  \/ s = 1 /\ CrcOk(d1)
             \/ s = 2 /\ CrcOk(d2)
BY DEF Chosen, CrcOk

(* Every step of Next keeps the variables in their types.                  *)
LEMMA TypeStep == TypeOK /\ [Next]_vars => TypeOK'
<1> SUFFICES ASSUME TypeOK, [Next]_vars PROVE TypeOK'
  OBVIOUS
<1> USE ValuesAssumption DEF TypeOK, Flags, flash, history, OBSOLETE_FLAG,
        ACTIVE_FLAG, ERASED, NewCopy, OldCopy, Put, Step
<1>1. ASSUME NEW r \in BOOLEAN, Relocate(r) PROVE TypeOK'
  <2> DEFINE d2 == IF r THEN data[2] ELSE Bad
             s == Chosen(data[1], d2, flags[1], flags[2])
  <2>1. CASE CrcOk(data[1]) \/ CrcOk(d2)
    <3>1. \/ s = 1 /\ data[1] \in Values
          \/ s = 2 /\ d2 \in Values
      BY <2>1, ChosenIsGood DEF CrcOk
    <3>2. Load(data[1], d2, s)
      BY <1>1, <2>1 DEF Relocate
    <3> HIDE DEF s, d2
    <3> QED
      BY <1>1, <3>1, <3>2 DEF Relocate, Load
  <2>2. CASE ~(CrcOk(data[1]) \/ CrcOk(d2))
    BY <1>1, <2>2 DEF Relocate, LoadDefault
  <2> QED
    BY <2>1, <2>2
<1>2. CASE BootCannotReadFirst
  BY <1>2 DEF BootCannotReadFirst, LoadDefault
<1>3. CASE SetEnv \/ SaveCannotProbe \/ Save \/ PowerCut
  BY <1>3 DEF SetEnv, SaveCannotProbe, Save, PowerCut
<1>4. CASE EraseBegins \/ EraseDone \/ WriteBegins
  BY <1>4 DEF EraseBegins, EraseDone, WriteBegins
<1>5. CASE WriteDone \/ WriteBack
  BY <1>5 DEF WriteDone, WriteBack
<1>6. CASE Mark
  BY <1>6 DEF Mark, OtherCopy
<1>7. CASE SaveFails
  BY <1>7 DEF SaveFails
<1>8. CASE UNCHANGED vars
  BY <1>8 DEF vars
<1> QED
  BY <1>1, <1>2, <1>3, <1>4, <1>5, <1>6, <1>7, <1>8, Zenon
  DEF Next, Boot, BootCannotReadSecond

(* If every good copy is one that may be loaded, so is the chosen one.     *)
LEMMA GoodCopiesAreSafe ==
  ASSUME TypeOK', BackupExists',
         NEW s \in 1 .. 2, NEW t \in 1 .. 2, s # t,
         data'[s] \in ({committed} \cup maybe)' \cup {Bad},
         data'[t] \in ({committed} \cup maybe)' \cup {Bad}
  PROVE  Kept'
<1> DEFINE n == Chosen(data'[1], data'[2], flags'[1], flags'[2])
<1>1. CrcOk(data'[1]) \/ CrcOk(data'[2])
  BY DEF BackupExists, CrcOk
<1>2. \/ n = 1 /\ CrcOk(data'[1])
      \/ n = 2 /\ CrcOk(data'[2])
  BY <1>1, ChosenIsGood
<1>3. WouldLoad' = data'[n]
  BY DEF WouldLoad
<1> HIDE DEF n
<1>4. \/ n = s /\ CrcOk(data'[s])
      \/ n = t /\ CrcOk(data'[t])
  BY <1>2
<1> QED
  BY <1>3, <1>4 DEF Kept, CrcOk

(* Without a read error at boot, every step keeps the copies in order.     *)
LEMMA CopiesStep == unread' = 0 /\ IInv /\ [Next]_vars => IInv'
<1> SUFFICES ASSUME unread' = 0, IInv, [Next]_vars PROVE IInv'
  OBVIOUS
<1>0. TypeOK'
  BY TypeStep DEF IInv
<1> USE <1>0, ValuesAssumption DEF IInv, TypeOK, CopiesInv, flash, history,
        NewCopy, OldCopy, CrcOk
<1>1. CASE Boot
  <2> DEFINE n == Chosen(data[1], data[2], flags[1], flags[2])
  <2>1. CrcOk(data[1]) \/ CrcOk(data[2])
    BY DEF Kept, BackupExists
  <2>2. \/ n = 1 /\ CrcOk(data[1])
        \/ n = 2 /\ CrcOk(data[2])
    BY <2>1, ChosenIsGood
  <2>3. /\ Load(data[1], data[2], n)
        /\ data' = data /\ flags' = flags /\ pc' = "idle"
    BY <1>1, <2>1 DEF Boot, Relocate
  <2>4. WouldLoad' = data[n] /\ BackupExists'
    BY <2>1, <2>3 DEF WouldLoad, BackupExists
  <2> HIDE DEF n
  <2>5. committed' = data[n] /\ env_valid' = n
    BY <2>2, <2>3 DEF Load
  <2> QED
    BY <2>2, <2>3, <2>4, <2>5 DEF Kept
<1>2. CASE SetEnv \/ SaveCannotProbe \/ Save \/ WriteBack \/ PowerCut
  <2>1. data' = data /\ flags' = flags /\ committed' = committed
        /\ maybe \subseteq maybe'
    BY <1>2 DEF SetEnv, SaveCannotProbe, Save, WriteBack, Step, PowerCut
  <2>2. Kept'
    BY <2>1 DEF Kept, WouldLoad, BackupExists
  <2>3. CopiesInv'
    BY <1>2 DEF SetEnv, SaveCannotProbe, Save, WriteBack, Step, PowerCut
  <2> QED
    BY <2>2, <2>3
<1>3. CASE EraseBegins \/ EraseDone \/ WriteBegins
  <2>1. /\ data' = [data EXCEPT ![NewCopy] = Bad]
        /\ UNCHANGED <<env_valid, env_new, history>>
        /\ pc \in {"erase", "erasing", "write"}
        /\ pc' \in {"erasing", "write", "writing"}
    BY <1>3 DEF EraseBegins, EraseDone, WriteBegins, Step, Put
  <2>2. CopiesInv'
    BY <2>1
  <2>3. data'[NewCopy] = Bad /\ data'[OldCopy] = committed'
    BY <2>1
  <2>4. BackupExists'
    BY <2>3 DEF BackupExists
  <2>5. Kept'
    BY <2>3, <2>4, GoodCopiesAreSafe
  <2> QED
    BY <2>2, <2>5
<1>4. CASE WriteDone
  <2>1. /\ data' = [data EXCEPT ![NewCopy] = env_new]
        /\ flags' = [flags EXCEPT ![NewCopy] = ACTIVE_FLAG]
        /\ UNCHANGED <<env_valid, env_new, history>>
        /\ pc = "writing" /\ pc' \in {"write_back", "mark"}
    BY <1>4, SectorAssumption DEF WriteDone, Step, Put
  <2>2. CopiesInv'
    BY <2>1
  <2>3. data'[NewCopy] \in maybe' /\ data'[OldCopy] = committed'
    BY <2>1
  <2>4. BackupExists'
    BY <2>3 DEF BackupExists
  <2>5. Kept'
    BY <2>3, <2>4, GoodCopiesAreSafe
  <2> QED
    BY <2>2, <2>5
<1>5. CASE Mark
  <2>1. /\ data' = data
        /\ flags'[OldCopy] = OBSOLETE_FLAG /\ flags'[NewCopy] = ACTIVE_FLAG
        /\ data[NewCopy] = env_new /\ data[NewCopy] # Bad
        /\ committed' = env_new /\ maybe' = {}
        /\ env_valid' = NewCopy /\ pc' = "idle"
    BY <1>5 DEF Mark, OtherCopy
  <2>2. CopiesInv'
    BY <2>1
  <2>3. Chosen(data'[1], data'[2], flags'[1], flags'[2]) = NewCopy
    BY <2>1 DEF Chosen, OBSOLETE_FLAG, ACTIVE_FLAG
  <2>4. BackupExists'
    BY <2>1 DEF BackupExists
  <2>5. WouldLoad' = env_new
    BY <2>1, <2>3, <2>4 DEF WouldLoad
  <2> QED
    BY <2>1, <2>2, <2>4, <2>5 DEF Kept
<1>6. CASE SaveFails
  <2>1. /\ data' = data /\ UNCHANGED <<env_valid, env_new, history>>
        /\ pc \in {"erase", "erasing", "write", "writing", "write_back", "mark"}
        /\ pc' = "idle" /\ (pc # "mark" => flags' = flags)
    BY <1>6 DEF SaveFails, Step, Put
  <2>2. CopiesInv'
    BY <2>1
  <2>3. CASE pc # "mark"
    BY <2>1, <2>2, <2>3 DEF Kept, WouldLoad, BackupExists
  <2>4. CASE pc = "mark"
    <3>1. data'[NewCopy] \in maybe' /\ data'[OldCopy] = committed'
      BY <2>1, <2>4
    <3>2. BackupExists'
      BY <3>1 DEF BackupExists
    <3>3. Kept'
      BY <3>1, <3>2, GoodCopiesAreSafe
    <3> QED
      BY <2>2, <3>3
  <2> QED
    BY <2>3, <2>4
<1>7. CASE UNCHANGED vars
  BY <1>7 DEF vars, Kept, WouldLoad, BackupExists
<1> QED
  BY <1>1, <1>2, <1>3, <1>4, <1>5, <1>6, <1>7
  DEF Next, BootCannotReadFirst, BootCannotReadSecond, Relocate

LEMMA InitIInv == Init => IInv
<1> SUFFICES ASSUME Init PROVE IInv
  OBVIOUS
<1> USE ValuesAssumption DEF Init
<1>1. TypeOK
  BY DEF TypeOK, Flags
<1>2. data[1] = Bad /\ data[2] = committed /\ committed # Bad
  OBVIOUS
<1>3. BackupExists /\ Chosen(data[1], data[2], flags[1], flags[2]) = 2
  BY <1>2 DEF BackupExists, Chosen, CrcOk
<1>4. Kept
  BY <1>2, <1>3 DEF Kept, WouldLoad
<1> QED
  BY <1>1, <1>4 DEF IInv, CopiesInv

-----------------------------------------------------------------------------
(* The variables of env_sf.c keep their types, read errors or not.         *)
THEOREM TypeCorrect == Spec => []TypeOK
<1>1. Init => TypeOK
  BY InitIInv DEF IInv
<1> QED
  BY <1>1, TypeStep, PTL DEF Spec

(* A read error at boot is not forgotten.                                  *)
LEMMA UnreadStep == TypeOK /\ [Next]_vars /\ unread' = 0 => unread = 0
<1> SUFFICES ASSUME TypeOK, [Next]_vars, unread' = 0 PROVE unread = 0
  OBVIOUS
<1> USE DEF TypeOK, history, Step
<1>1. CASE Boot \/ BootCannotReadFirst \/ BootCannotReadSecond
  BY <1>1 DEF Boot, BootCannotReadFirst, BootCannotReadSecond, Relocate
<1>2. CASE \/ SetEnv \/ SaveCannotProbe \/ Save \/ EraseBegins \/ EraseDone
           \/ WriteBegins \/ WriteDone \/ WriteBack \/ Mark \/ SaveFails
           \/ PowerCut
  BY <1>2 DEF SetEnv, SaveCannotProbe, Save, EraseBegins, EraseDone,
     WriteBegins, WriteDone, WriteBack, Mark, SaveFails, PowerCut
<1>3. CASE UNCHANGED vars
  BY <1>3 DEF vars
<1> QED
  BY <1>1, <1>2, <1>3 DEF Next

(* Until a boot cannot read the flash, power cuts and failing writes at    *)
(* any point of saveenv never make a boot fall back on an older            *)
(* environment or on the default one.                                      *)
THEOREM Safe == Spec => []NothingOlder
<1> DEFINE Inv == TypeOK /\ (unread = 0 => IInv)
<1>1. Init => Inv
  BY InitIInv DEF IInv
<1>2. Inv /\ [Next]_vars => Inv'
  <2> SUFFICES ASSUME Inv, [Next]_vars PROVE Inv'
    OBVIOUS
  <2>1. TypeOK'
    BY TypeStep
  <2>2. unread' = 0 => IInv'
    BY UnreadStep, CopiesStep
  <2> QED
    BY <2>1, <2>2
<1>3. Inv => NothingOlder
  BY DEF IInv, NothingOlder
<1> QED
  BY <1>1, <1>2, <1>3, PTL DEF Spec

(* The new copy is complete and active when the old one is marked.         *)
Complete == pc \in {"write_back", "mark"}
              => data[NewCopy] = env_new /\ flags[NewCopy] = ACTIVE_FLAG

LEMMA CompleteStep == TypeOK /\ Complete /\ [Next]_vars => Complete'
<1> SUFFICES ASSUME TypeOK, Complete, [Next]_vars PROVE Complete'
  OBVIOUS
<1> USE DEF TypeOK, Complete, NewCopy, OldCopy, flash, history, Put, Step
<1>1. CASE WriteDone
  BY <1>1 DEF WriteDone
<1>2. CASE WriteBack
  BY <1>2 DEF WriteBack
<1>3. CASE UNCHANGED vars
  BY <1>3 DEF vars
<1>4. CASE Boot \/ BootCannotReadFirst \/ BootCannotReadSecond
  BY <1>4 DEF Boot, BootCannotReadFirst, BootCannotReadSecond, Relocate
<1>5. CASE \/ SetEnv \/ SaveCannotProbe \/ Save \/ EraseBegins \/ EraseDone
           \/ WriteBegins \/ Mark \/ SaveFails \/ PowerCut
  <2>1. pc' \notin {"write_back", "mark"}
    BY <1>5 DEF SetEnv, SaveCannotProbe, Save, EraseBegins, EraseDone,
                WriteBegins, Mark, SaveFails, PowerCut
  <2> QED
    BY <2>1
<1> QED
  BY <1>1, <1>2, <1>3, <1>4, <1>5 DEF Next

(* A saveenv that reports success decides what the next boot loads, even   *)
(* after boots that could not read the flash.                              *)
THEOREM TakesEffect == Spec => SaveTakesEffect
<1> DEFINE Effect == pc = "mark" /\ env_valid' # env_valid /\ pc' = "idle"
                       => WouldLoad' = env_new
<1>1. Init => TypeOK /\ Complete
  BY InitIInv DEF IInv, Init, Complete
<1>2. TypeOK /\ Complete /\ [Next]_vars => [Effect]_vars
  <2> SUFFICES ASSUME TypeOK, Complete, [Next]_vars, pc = "mark",
                      env_valid' # env_valid, pc' = "idle"
               PROVE  WouldLoad' = env_new
    OBVIOUS
  <2> USE ValuesAssumption DEF TypeOK, flash, history, NewCopy, OldCopy
  <2>1. Mark
    BY DEF Next, vars, Boot, BootCannotReadFirst, BootCannotReadSecond,
       Relocate, SetEnv, SaveCannotProbe, Save, EraseBegins, EraseDone,
       WriteBegins, WriteDone, WriteBack, SaveFails, PowerCut, Step
  <2>2. /\ data' = data
        /\ flags'[OldCopy] = OBSOLETE_FLAG /\ flags'[NewCopy] = ACTIVE_FLAG
        /\ data[NewCopy] = env_new /\ data[NewCopy] # Bad
    BY <2>1 DEF Mark, Complete
  <2>3. Chosen(data'[1], data'[2], flags'[1], flags'[2]) = NewCopy
    BY <2>2 DEF Chosen, CrcOk, OBSOLETE_FLAG, ACTIVE_FLAG
  <2>4. BackupExists'
    BY <2>2 DEF BackupExists, CrcOk
  <2> QED
    BY <2>2, <2>3, <2>4 DEF WouldLoad
<1> QED
  BY <1>1, <1>2, TypeStep, CompleteStep, PTL DEF Spec, SaveTakesEffect
=============================================================================
