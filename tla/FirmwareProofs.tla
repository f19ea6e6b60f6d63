--------------------------- MODULE FirmwareProofs ---------------------------
(***************************************************************************)
(* Proofs about what must survive a reset or an interruption at any step   *)
(* of the firmware, and of the tool that writes it.  BootGuard, for every  *)
(* saturation value, threshold and set of builds: the counter in NVS       *)
(* dominates the number of runs of the build since it was cleared          *)
(* (CountInv), so the guard trips in time.  KvStore, for every set of keys *)
(* and values: only the running set has a staged file, and a migration's   *)
(* flag follows its credential (KvInv).  Wake, for every voltage scale,    *)
(* set of thresholds and frames: a locked gate lets nothing but the charge *)
(* screen through, and settings change only while RTC memory is empty      *)
(* (WakeInv).  WriteGuard, for any number of artifacts and any NVS region: *)
(* sorting by offset leaves the write set ascending (Sorted), and what is  *)
(* written is what was checked unless a size was unknown or a file         *)
(* changed (WgInv).                                                        *)
(***************************************************************************)
EXTENDS BootGuard, KvStore, Wake, WriteGuard, FiniteSetTheorems, FunctionTheorems, TLAPS

\* Every run of the build since the last clear is in the counter.
CountInv == streak <= bad /\ (fresh /\ pc = "checked" => streak = 0)

GuardInv == TypeOK /\ CountInv /\ LoopCaught

LEMMA GuardInvInit == Init => GuardInv
<1> SUFFICES ASSUME Init PROVE GuardInv
  OBVIOUS
<1>1. fresh \in BOOLEAN
  BY Zenon DEF Init
<1> QED
  BY <1>1, GuardAssumption DEF Init, GuardInv, TypeOK, CountInv, LoopCaught, Limit, NoImage

LEMMA GuardInvNext == GuardInv /\ [Next]_vars => GuardInv'
<1> SUFFICES ASSUME GuardInv, [Next]_vars PROVE GuardInv'
  OBVIOUS
<1> USE GuardAssumption DEF GuardInv, TypeOK, CountInv, LoopCaught, Limit
<1>1. CASE PowerUp
  BY <1>1 DEF PowerUp, nvs, hist
<1>2. CASE NvsErased
  BY <1>2 DEF NvsErased, Cleared
<1>3. CASE FreshAppCheckAndStore
  <2>1. fresh' \in BOOLEAN
    BY <1>3, Zenon DEF FreshAppCheckAndStore
  <2>2. CASE appSha = image
    <3>1. ~fresh' /\ streak' = streak
      BY <1>3, <2>2 DEF FreshAppCheckAndStore
    <3> QED
      BY <1>3, <2>1, <3>1 DEF FreshAppCheckAndStore
  <2>3. CASE appSha # image
    <3>1. streak' = 0
      BY <1>3, <2>3 DEF FreshAppCheckAndStore
    <3> QED
      BY <1>3, <2>1, <3>1 DEF FreshAppCheckAndStore
  <2> QED
    BY <2>2, <2>3
<1>4. CASE GuardCheckAndRun
  <2>1. bad' \in 0..MaxCount /\ unstable' \in 0..MaxCount /\ streak' \in Nat
    BY <1>4 DEF GuardCheckAndRun, NewCount
  <2>2. CASE fresh
    <3>1. bad' = 1 /\ streak' = streak + 1 /\ pc' = "run"
      BY <1>4, <2>2 DEF GuardCheckAndRun, NewCount, SafeMode
    <3> QED
      BY <1>4, <2>1, <2>2, <3>1 DEF GuardCheckAndRun
  <2>3. CASE ~fresh /\ SafeMode
    BY <1>4, <2>1, <2>3 DEF GuardCheckAndRun, NewCount
  <2>4. CASE ~fresh /\ ~SafeMode
    BY <1>4, <2>1, <2>4 DEF GuardCheckAndRun, NewCount, SafeMode
  <2> QED
    BY <2>2, <2>3, <2>4
<1>5. CASE StableTask \/ EnterDeepSleep \/ GuardClear
  BY <1>5 DEF StableTask, EnterDeepSleep, GuardClear, Cleared
<1>6. CASE Reset
  BY <1>6 DEF Reset, nvs, hist
<1>7. ASSUME NEW v \in Thresholds, GuardThreshold(v) PROVE GuardInv'
  BY <1>7 DEF GuardThreshold
<1>8. ASSUME NEW i \in Image, Flash(i) PROVE GuardInv'
  BY <1>8 DEF Flash, nvs, hist
<1>9. CASE UNCHANGED vars
  BY <1>9 DEF vars, nvs, hist
<1> QED
  BY <1>1, <1>2, <1>3, <1>4, <1>5, <1>6, <1>7, <1>8, <1>9 DEF Next

\* guard_on_boot catches every boot loop: no build runs more than threshold
\* times in a row without becoming stable, whatever the threshold stored in NVS
\* and wherever resets fall between the commits.
THEOREM EveryLoopIsCaught == Spec => []LoopCaught
<1>1. GuardInv => LoopCaught
  BY DEF GuardInv
<1> QED
  BY <1>1, GuardInvInit, GuardInvNext, PTL DEF Spec

----------------------------------------------------------------------------
\* The counter never exceeds the boots that passed the guard since it was
\* cleared; a build found fresh restarts it at one, which is a boot as well.
BootsInv == bad <= unstable

\* guard_on_boot enters safe mode only after at least threshold boots in a row
\* without a stable uptime, an ordered sleep or a clear on the console.
THEOREM SafeModeIsEarned == Spec => SafeModeEarned
<1>1. Init => BootsInv
  BY GuardAssumption DEF Init, BootsInv
<1>2. ASSUME GuardInv, BootsInv, [Next]_vars
      PROVE  BootsInv' /\ (pc' = "safe" /\ pc # "safe" => unstable >= Limit)
  <2> USE <1>2, GuardAssumption DEF GuardInv, TypeOK, BootsInv
  <2>1. CASE GuardCheckAndRun
    <3>1. bad' <= unstable'
      BY <2>1 DEF GuardCheckAndRun, NewCount
    <3>2. CASE SafeMode
      <4>1. NewCount <= bad + 1 /\ NewCount > Limit /\ NewCount \in Nat
        BY <3>2 DEF SafeMode, NewCount
      <4>2. Limit \in Int
        BY DEF Limit
      <4> QED
        BY <3>1, <4>1, <4>2
    <3>3. CASE ~SafeMode
      BY <2>1, <3>1, <3>3 DEF GuardCheckAndRun
    <3> QED
      BY <3>2, <3>3
  <2>2. ASSUME NEW v \in Thresholds, GuardThreshold(v) PROVE BootsInv' /\ pc' = pc
    BY <2>2 DEF GuardThreshold
  <2>3. ASSUME NEW i \in Image, Flash(i) PROVE BootsInv' /\ pc' = "off"
    BY <2>3 DEF Flash, nvs, hist
  <2>4. CASE UNCHANGED vars
    BY <2>4 DEF vars, nvs, hist
  <2> QED
    BY <2>1, <2>2, <2>3, <2>4 DEF Next, PowerUp, NvsErased, FreshAppCheckAndStore,
       StableTask, EnterDeepSleep, Reset, GuardClear, Cleared, nvs, hist
<1>3. GuardInv /\ BootsInv /\ [Next]_vars
         => BootsInv' /\ [pc' = "safe" /\ pc # "safe" => unstable >= Limit]_vars
  BY <1>2
<1> QED
  BY <1>1, <1>3, GuardInvInit, GuardInvNext, PTL DEF Spec, SafeModeEarned

----------------------------------------------------------------------------
(* KvStore *)

LEMMA EmptyType == Empty \in [Keys -> KvVal]
BY DEF Empty, KvVal

LEMMA KvInvInit == KvInit => KvInv
<1> SUFFICES ASSUME KvInit PROVE KvInv
  OBVIOUS
<1> USE KvAssumption DEF KvInit, Keys, NoKvOp, Setting
<1>1. KvType
  BY EmptyType DEF KvType, KvVal
<1>2. StagedInv /\ MigrationInv
  BY DEF StagedInv, MigrationInv
<1>3. StoreSurvives
  BY DEF StoreSurvives, NoHalfKey, NoOrphanStaged, MigrationKeepsCredential, Empty, Absent, Half
<1> QED
  BY <1>1, <1>2, <1>3 DEF KvInv

\* Opening a staging file leaves the invariant, whichever set asks for it: a
\* set of the flag is the migration's, and the migration's other set is of the
\* credential.
LEMMA OpenKeeps ==
  ASSUME KvInv, NEW k \in Keys, NEW v \in KvVal \ {Absent, Half}, Open(k, v),
         migrating = "cred" => k = Wifi0 /\ v = Legacy,
         k = Migrated => migrating = "flag"
  PROVE  KvInv'
<1> USE KvAssumption DEF KvInv
<1>1. kv' = kv /\ fsOk' = fsOk /\ everHeld' = everHeld /\ fsOk /\ kvOp.step = "idle"
  BY DEF Open
<1>2. staged = Empty
  BY <1>1 DEF StoreSurvives, NoOrphanStaged
<1>3. CASE /\ kvOp' = [step |-> "write", key |-> k, val |-> v]
           /\ staged' = [staged EXCEPT ![k] = Half] /\ UNCHANGED migrating
  <2>1. KvType'
    BY <1>1, <1>3 DEF KvType
  <2>2. StagedInv' /\ MigrationInv'
    BY <1>1, <1>2, <1>3, EmptyType DEF StagedInv, MigrationInv, Setting, Empty
  <2>3. StoreSurvives'
    BY <1>1, <1>3 DEF StoreSurvives, NoHalfKey, NoOrphanStaged, MigrationKeepsCredential
  <2> QED
    BY <2>1, <2>2, <2>3
<1>4. CASE SetOver(FALSE) /\ UNCHANGED staged
  <2>0. kvOp' = NoKvOp /\ migrating' = "no"
    BY <1>4 DEF SetOver
  <2>1. KvType'
    BY <1>1, <1>4, <2>0 DEF KvType, NoKvOp, KvVal, Keys
  <2>2. StagedInv' /\ MigrationInv'
    BY <2>0 DEF StagedInv, MigrationInv, Setting, NoKvOp
  <2>3. StoreSurvives'
    BY <1>1, <1>2, <1>4 DEF StoreSurvives, NoHalfKey, NoOrphanStaged, MigrationKeepsCredential
  <2> QED
    BY <2>1, <2>2, <2>3
<1> QED
  BY <1>3, <1>4 DEF Open

LEMMA KvInvNext == KvInv /\ [KvNext]_storeVars => KvInv'
<1> SUFFICES ASSUME KvInv, [KvNext]_storeVars PROVE KvInv'
  OBVIOUS
<1> USE KvAssumption
<1> USE DEF KvInv
<1>0. NoKvOp \in [step : {"mount", "idle", "write", "rename"}, key : Keys, val : KvVal]
  BY DEF NoKvOp, Keys, KvVal
<1>1. ASSUME NEW ok \in BOOLEAN, NEW format \in BOOLEAN, StoreMount(ok, format) PROVE KvInv'
  <2>1. KvType'
    BY <1>0, <1>1, EmptyType DEF StoreMount, KvType, GcTmp
  <2>2. kvOp' = NoKvOp /\ migrating' = "no"
    BY <1>1 DEF StoreMount, MigrationInv
  <2>3. StagedInv' /\ MigrationInv'
    BY <2>2 DEF StagedInv, MigrationInv, Setting, NoKvOp
  <2>4. NoHalfKey' /\ NoOrphanStaged'
    BY <1>1 DEF StoreMount, StoreSurvives, NoHalfKey, NoOrphanStaged, GcTmp, Empty, Half, Absent
  <2>5. MigrationKeepsCredential'
    BY <1>1 DEF StoreMount, StoreSurvives, MigrationKeepsCredential, Empty, Keys
  <2> QED
    BY <2>1, <2>3, <2>4, <2>5 DEF StoreSurvives
<1>2. ASSUME NEW k \in StoreKey \cup {Wifi0}, NEW v \in StoreVal, StoreSet(k, v) PROVE KvInv'
  BY <1>2, OpenKeeps DEF StoreSet, Keys, KvVal, Wifi0, Migrated
<1>3. CASE Fsync
  <2>1. KvType'
    BY <1>3 DEF Fsync, KvType
  <2>2. StagedInv' /\ MigrationInv'
    BY <1>3 DEF Fsync, KvType, StagedInv, MigrationInv, Setting
  <2>3. StoreSurvives'
    BY <1>3 DEF Fsync, KvType, StoreSurvives, NoHalfKey, NoOrphanStaged, MigrationKeepsCredential
  <2> QED
    BY <2>1, <2>2, <2>3
<1>4. CASE SetFails
  <2>0. kvOp' = NoKvOp /\ migrating' = "no" /\ Setting
    BY <1>4 DEF SetFails, SetOver, Setting
  <2>1. KvType'
    BY <1>0, <1>4, <2>0 DEF SetFails, KvType, KvVal
  <2>2. StagedInv' /\ MigrationInv'
    BY <2>0 DEF StagedInv, MigrationInv, Setting, NoKvOp
  <2>3. staged' = Empty
    BY <1>4, <2>0 DEF SetFails, StagedInv, KvType, Empty
  <2>4. StoreSurvives'
    BY <1>4, <2>3 DEF SetFails, StoreSurvives, NoHalfKey, NoOrphanStaged, MigrationKeepsCredential
  <2> QED
    BY <2>1, <2>2, <2>4
<1>5. CASE Rename
  <2>0. kvOp' = NoKvOp /\ Setting /\ staged[kvOp.key] = kvOp.val
    BY <1>5 DEF Rename, SetOver, Setting, StagedInv
  <2>a. migrating' = IF migrating = "cred" THEN "flag" ELSE "no"
    BY <1>5 DEF Rename, SetOver
  <2>b. everHeld' = (everHeld \/ (kvOp.key = Wifi0 /\ kvOp.val = Legacy))
    BY <1>5 DEF Rename
  <2>1. KvType'
    BY <1>0, <1>5, <2>0, <2>a, <2>b DEF Rename, KvType, KvVal
  <2>2. StagedInv' /\ MigrationInv'
    BY <2>0, <2>a, <2>b DEF StagedInv, MigrationInv, Setting, NoKvOp
  <2>3. staged' = Empty
    BY <1>5, <2>0 DEF Rename, StagedInv, KvType, Empty
  <2>4. NoHalfKey'
    BY <1>5, <2>0 DEF Rename, StoreSurvives, NoHalfKey, KvType, KvVal, Half, Absent
  <2>5. MigrationKeepsCredential'
    BY <1>5, <2>0, <2>b DEF Rename, StoreSurvives, MigrationKeepsCredential, MigrationInv, KvType
  <2> QED
    BY <2>1, <2>2, <2>3, <2>4, <2>5 DEF StoreSurvives, NoOrphanStaged
<1>6. ASSUME NEW k \in Keys, StoreDel(k) PROVE KvInv'
  <2>1. KvType'
    BY <1>6 DEF StoreDel, KvType, KvVal
  <2>2. StagedInv' /\ MigrationInv'
    BY <1>6 DEF StoreDel, StagedInv, MigrationInv, Setting
  <2>3. StoreSurvives'
    BY <1>6 DEF StoreDel, StoreSurvives, NoHalfKey, NoOrphanStaged, MigrationKeepsCredential,
                KvType, Absent, Half, Keys
  <2> QED
    BY <2>1, <2>2, <2>3
<1>7. CASE MigrateBegins
  BY <1>7 DEF MigrateBegins, KvType, StagedInv, MigrationInv, Setting, StoreSurvives, NoHalfKey,
              NoOrphanStaged, MigrationKeepsCredential
<1>8. CASE MigrateSet
  BY <1>8, OpenKeeps DEF MigrateSet, Keys, KvVal, Wifi0, Migrated, Absent, Half
<1>9. CASE StoreReset
  <2>1. KvType'
    BY <1>0, <1>9 DEF StoreReset, KvType
  <2>2. kvOp'.step = "mount" /\ migrating' = "no"
    BY <1>9 DEF StoreReset, NoKvOp
  <2>3. StagedInv' /\ MigrationInv'
    BY <2>2 DEF StagedInv, MigrationInv, Setting
  <2>4. StoreSurvives'
    BY <1>9 DEF StoreReset, StoreSurvives, NoHalfKey, NoOrphanStaged, MigrationKeepsCredential
  <2> QED
    BY <2>1, <2>3, <2>4
<1>10. CASE UNCHANGED storeVars
  BY <1>10 DEF storeVars, KvType, StagedInv, MigrationInv, Setting, StoreSurvives, NoHalfKey,
               NoOrphanStaged, MigrationKeepsCredential
<1> QED
  BY <1>1, <1>2, <1>3, <1>4, <1>5, <1>6, <1>7, <1>8, <1>9, <1>10 DEF KvNext

\* store_kv_set and wifi_store_migrate_legacy survive a power loss between any
\* two file-system calls: no key ever holds a half-written value, no orphan
\* stays in the staging directory, and the migration is never recorded before
\* the credential it moves has been stored.
THEOREM StoreSurvivesPowerLoss == KvSpec => []StoreSurvives
<1>1. KvInv => StoreSurvives
  BY DEF KvInv
<1> QED
  BY <1>1, KvInvInit, KvInvNext, PTL DEF KvSpec

----------------------------------------------------------------------------
(* Wake *)

\* cfg_load yields numbers with CLEAR no lower than ARM, whatever is stored.
LEMMA CfgOrdered ==
  ASSUME lbNvs \in LbNvs
  PROVE  CfgLoad.arm \in Int /\ CfgLoad.clr \in Int /\ CfgLoad.arm <= CfgLoad.clr
         /\ CfgLoad.rise \in Int /\ CfgLoad.streak \in Int
<1> USE WakeAssumption
<1>0. \A v, lo, hi \in Int : Clamp(v, lo, hi) \in Int
  BY DEF Clamp
<1>1. StoredClr \subseteq Int
  BY <1>0 DEF StoredClr
<1>2. /\ lbNvs.arm \in Int /\ lbNvs.clr \in Int /\ lbNvs.rise \in Int /\ lbNvs.streak \in Int
  <2>1. StoredMv \subseteq Int /\ RiseMv \subseteq Int /\ Streaks \subseteq Int
    OBVIOUS
  <2>2. lbNvs.arm \in StoredMv /\ lbNvs.clr \in StoredClr /\ lbNvs.rise \in RiseMv
        /\ lbNvs.streak \in Streaks
    BY DEF LbNvs
  <2> QED
    BY <1>1, <2>1, <2>2
<1> DEFINE a == Clamp(lbNvs.arm, ArmMvMin, MvMax)
<1>3. a \in Int /\ a <= MvMax
  BY <1>2 DEF Clamp
<1> HIDE DEF a
<1>4. Clamp(lbNvs.clr, a + 1, MvMax) \in Int /\ a <= Clamp(lbNvs.clr, a + 1, MvMax)
  BY <1>2, <1>3 DEF Clamp
<1>5. CfgLoad = [arm |-> a, clr |-> Clamp(lbNvs.clr, a + 1, MvMax),
                 rise |-> lbNvs.rise, streak |-> lbNvs.streak]
  BY DEF CfgLoad, a
<1> QED
  BY <1>2, <1>3, <1>4, <1>5

\* lowbatt_decide: the outcomes, and what each one means for the lock.
LEMMA DecideSpec ==
  ASSUME lbNvs \in LbNvs, NEW st \in LbState, NEW mv \in Int, NEW free \in BOOLEAN
  PROVE  LET r == Decide(mv, free, st, CfgLoad) IN
         /\ r.next \in LbState /\ r.act \in {"normal", "arm", "stay"}
         /\ r.act = "arm" => /\ lbNvs.on /\ ~free /\ ~st.lock /\ mv < CfgLoad.arm
                             /\ r.next.lock /\ r.next.last = mv
         /\ r.act = "stay" => st.lock /\ r.next.lock /\ lbNvs.on /\ ~free /\ mv >= 0
         /\ r.act = "normal" /\ r.next.lock => st.lock /\ (~lbNvs.on \/ (mv < 0 /\ ~free))
<1> USE CfgOrdered
<1>1. lbNvs.on \in BOOLEAN /\ st.lock \in BOOLEAN /\ st.last \in Int /\ st.streak \in Int
  BY DEF LbNvs, LbState
<1>2. CASE ~lbNvs.on
  BY <1>1, <1>2 DEF Decide
<1>3. CASE lbNvs.on /\ free
  BY <1>1, <1>3 DEF Decide, LbState
<1>4. CASE lbNvs.on /\ ~free /\ mv < 0
  BY <1>1, <1>4 DEF Decide
<1>5. CASE lbNvs.on /\ ~free /\ ~(mv < 0) /\ st.lock
  <2>1. Decide(mv, free, st, CfgLoad) = DecideLocked(mv, st, CfgLoad)
    BY <1>5 DEF Decide
  <2> QED
    BY <1>1, <1>5, <2>1 DEF DecideLocked, LbState
<1>6. CASE lbNvs.on /\ ~free /\ ~(mv < 0) /\ ~st.lock
  <2>1. Decide(mv, free, st, CfgLoad) = DecideFree(mv, st, CfgLoad)
    BY <1>6 DEF Decide
  <2> QED
    BY <1>1, <1>6, <2>1 DEF DecideFree, LbState
<1> QED
  BY <1>1, <1>2, <1>3, <1>4, <1>5, <1>6

LEMMA LbColdType == LbCold \in LbState /\ ~LbCold.lock
BY DEF LbCold, LbState

LEMMA WakeInvInit == WakeInit => WakeInv
<1> SUFFICES ASSUME WakeInit PROVE WakeInv
  OBVIOUS
<1>1. WakeType
  <2>1. lbKey \in BOOLEAN /\ odd \in BOOLEAN /\ blanked \in BOOLEAN
    BY Zenon DEF WakeInit
  <2> QED
    BY <2>1, LbColdType DEF WakeInit, WakeType, LbNvs
<1>2. ColdInv /\ LockInv /\ FreedInv /\ PresentInv
  BY DEF WakeInit, ColdInv, LockInv, FreedInv, PresentInv, LbCold
<1>3. WakesSound
  BY DEF WakeInit, WakesSound, NoFlapping, SleepsWithCharge, HashIsPanel, BlankIsKnown,
         LbCold, Setup, Zero, Part, NoHash
<1> QED
  BY <1>1, <1>2, <1>3 DEF WakeInv

\* A present of the frame f: the panel and its fingerprint agree again when it
\* is over, and no frame is presented that was already on the panel.
LEMMA ShowKeeps ==
  ASSUME WakeInv, phase # "present", NEW f, NEW ret \in {"asleep", "after", "keep"},
         Show(f, ret), fb' = f,
         UNCHANGED <<lbNvs, lb, lbKey, fbHash, freed>>,
         f \in {Zero, Part} => blanked', blanked => blanked', odd => odd',
         phase \notin {"gate", "boot", "console"},
         blanked' \in BOOLEAN, odd' \in BOOLEAN, wakeCause' = wakeCause,
         lb.lock /\ ~odd' => ret = "asleep" /\ f = Charge
  PROVE  WakeInv'
<1> USE DEF WakeInv
<1>1. WakeType'
  BY DEF WakeType, Show
<1>2. phase' \in {ret, "present"} /\ afterShow' = ret
  BY DEF Show
<1>3. phase' = "present" => panel' = Torn
  BY DEF Show
<1>4. phase' # "present" => fbHash = f /\ panel' = panel /\ phase' = ret
  BY DEF Show
<1>5. ColdInv' /\ FreedInv' /\ PresentInv'
  BY <1>2 DEF ColdInv, FreedInv, PresentInv, CfgLoad
<1>6. phase' # "present" => f = NoHash \/ panel = f
  BY <1>4 DEF WakesSound, HashIsPanel
<1>7. LockInv'
  BY <1>2, <1>4, <1>6 DEF LockInv, Charge, NoHash
<1>8. NoFlapping'
  BY <1>2 DEF NoFlapping
<1>9. SleepsWithCharge'
  BY <1>2, <1>4, <1>6 DEF SleepsWithCharge, Charge, NoHash
<1>10. HashIsPanel'
  BY <1>4 DEF WakesSound, HashIsPanel
<1>11. BlankIsKnown'
  BY <1>3, <1>4 DEF WakesSound, BlankIsKnown, Torn, Zero, Part
<1> QED
  BY <1>1, <1>5, <1>7, <1>8, <1>9, <1>10, <1>11 DEF WakesSound

\* The gate decides: ARM locks for the charge screen, STAY sleeps on it.
LEMMA GateKeeps ==
  ASSUME WakeInv, NEW mv \in -1..MvMax, NEW usb \in BOOLEAN, NEW put \in BOOLEAN,
         Gate(mv, usb, put)
  PROVE  WakeInv'
<1> USE DEF WakeInv
<1> DEFINE free == usb \/ wakeCause = "button"
           r == Decide(mv, free, lb, CfgLoad)
<1>0. mv \in Int /\ free \in BOOLEAN /\ lbNvs \in LbNvs /\ lb \in LbState
  BY WakeAssumption DEF WakeType
<1>t. lbNvs.on \in BOOLEAN /\ lb.lock \in BOOLEAN
  BY <1>0 DEF LbNvs, LbState
<1>c. /\ CfgLoad.arm \in Int /\ CfgLoad.clr \in Int /\ CfgLoad.arm <= CfgLoad.clr
  BY <1>0, CfgOrdered
<1>1. /\ r.next \in LbState /\ r.act \in {"normal", "arm", "stay"}
      /\ r.act = "arm" => /\ lbNvs.on /\ ~free /\ ~lb.lock /\ mv < CfgLoad.arm
                          /\ r.next.lock /\ r.next.last = mv
      /\ r.act = "stay" => lb.lock /\ r.next.lock /\ lbNvs.on /\ ~free /\ mv >= 0
      /\ r.act = "normal" /\ r.next.lock => lb.lock /\ (~lbNvs.on \/ (mv < 0 /\ ~free))
  BY <1>0, DecideSpec
<1>2. /\ phase = "gate" /\ lb' = r.next
      /\ lbKey' = ((r.act = "arm" /\ put) \/ (r.act = "stay" /\ lbKey))
      /\ phase' = CASE r.act = "arm" -> "charge"
                    [] r.act = "stay" -> "asleep"
                    [] OTHER -> IF wakeCause = "cold" THEN "boot" ELSE "cycle"
      /\ odd' = IF r.act = "arm" THEN ~put
                ELSE odd \/ (lbNvs.on /\ ~free /\ mv < 0 /\ lb.lock)
      /\ freed' = IF lb.lock /\ ~r.next.lock /\ ~free /\ mv >= CfgLoad.clr THEN mv
                  ELSE IF free THEN -1 ELSE freed
      /\ UNCHANGED <<wakeCause, lbNvs, fb, panel, fbHash, afterShow, blanked>>
  BY DEF Gate
<1>f. freed' = freed \/ freed' = -1 \/ (lb.lock /\ freed' = mv /\ mv >= CfgLoad.clr)
  BY <1>2
<1> HIDE DEF r, free
<1>3. WakeType'
  <2>1. phase' \in {"charge", "asleep", "boot", "cycle"}
    BY <1>1, <1>2
  <2>2. odd' \in BOOLEAN /\ lbKey' \in BOOLEAN
    BY <1>2 DEF WakeType
  <2>3. freed' \in Int
    BY <1>0, <1>f DEF WakeType
  <2> QED
    BY <1>1, <1>2, <2>1, <2>2, <2>3 DEF WakeType
<1>4. ColdInv'
  <2> SUFFICES ASSUME phase' \in {"boot", "console"} \/ (phase' = "gate" /\ wakeCause' = "cold")
               PROVE  ~lb'.lock /\ freed' = -1 /\ fbHash' = NoHash
    BY DEF ColdInv
  <2>1. r.act = "normal" /\ wakeCause = "cold"
    BY <1>1, <1>2
  <2>2. ~lb.lock /\ freed = -1 /\ fbHash = NoHash
    BY <1>2, <2>1 DEF ColdInv
  <2> QED
    BY <1>1, <1>2, <1>f, <2>1, <2>2
<1>5. LockInv'
  <2>1. lb'.lock => lbNvs'.on
    BY <1>1, <1>2, <1>t DEF LockInv
  <2>2. ASSUME lb'.lock, ~odd'
        PROVE  (phase' = "asleep" /\ panel' = Charge) \/ (phase' = "charge" /\ lbKey')
    <3>1. CASE r.act = "arm"
      BY <1>2, <2>2, <3>1
    <3>2. CASE r.act = "stay"
      BY <1>1, <1>2, <2>2, <3>2 DEF LockInv
    <3>3. CASE r.act = "normal"
      BY <1>1, <1>2, <1>t, <2>2, <3>3 DEF LockInv
    <3> QED
      BY <1>1, <3>1, <3>2, <3>3
  <2> QED
    BY <2>1, <2>2 DEF LockInv
<1>6. FreedInv'
  BY <1>0, <1>2, <1>c, <1>f DEF FreedInv, CfgLoad, WakeType
<1>7. NoFlapping'
  <2> SUFFICES ASSUME phase' = "charge", freed' >= 0 PROVE lb'.last < freed'
    BY DEF NoFlapping
  <2>1. r.act = "arm"
    BY <1>1, <1>2
  <2>2. lb'.last = mv /\ mv < CfgLoad.arm /\ freed' = freed /\ freed \in Int
    BY <1>1, <1>2, <2>1 DEF WakeType
  <2> QED
    BY <1>0, <1>c, <2>2 DEF FreedInv
<1>8. SleepsWithCharge'
  BY <1>5 DEF SleepsWithCharge, LockInv
<1>9. HashIsPanel' /\ BlankIsKnown' /\ PresentInv'
  BY <1>1, <1>2 DEF WakesSound, HashIsPanel, BlankIsKnown, PresentInv
<1> QED
  BY <1>3, <1>4, <1>5, <1>6, <1>7, <1>8, <1>9 DEF WakesSound

LEMMA WakeInvNext == WakeInv /\ [WakeNext]_wakeVars => WakeInv'
<1> SUFFICES ASSUME WakeInv, [WakeNext]_wakeVars PROVE WakeInv'
  OBVIOUS
<1> USE DEF WakeInv
<1>1. ASSUME NEW c \in {"timer", "button"}, WakeUp(c) PROVE WakeInv'
  BY <1>1 DEF WakeUp, WakeType, ColdInv, LockInv, FreedInv, CfgLoad, PresentInv, WakesSound,
              NoFlapping, SleepsWithCharge, HashIsPanel, BlankIsKnown
<1>2. ASSUME NEW mv \in -1..MvMax, NEW usb \in BOOLEAN, NEW put \in BOOLEAN, Gate(mv, usb, put)
      PROVE  WakeInv'
  BY <1>2, GateKeeps
<1>3. \A r \in Rendered : /\ r.ok \in BOOLEAN /\ (r.ok => r.fb \notin {Zero, Part})
                          /\ (r.ok /\ lbKey => r.fb = Charge)
  <2> SUFFICES ASSUME NEW r \in Rendered
               PROVE  /\ r.ok \in BOOLEAN /\ (r.ok => r.fb \notin {Zero, Part})
                      /\ (r.ok /\ lbKey => r.fb = Charge)
    OBVIOUS
  <2>1. CASE \E f \in {fb, Part} : r = [ok |-> FALSE, fb |-> f]
    BY <2>1
  <2>2. CASE \E f \in IF lbKey THEN {Charge} ELSE Frame : r = [ok |-> TRUE, fb |-> f]
    <3>1. PICK f \in IF lbKey THEN {Charge} ELSE Frame : r = [ok |-> TRUE, fb |-> f]
      BY <2>2
    <3>2. f \notin {Zero, Part} /\ (lbKey => f = Charge)
      BY <3>1, WakeAssumption DEF Charge, Zero, Part
    <3> QED
      BY <3>1, <3>2
  <2> QED
    BY <2>1, <2>2 DEF Rendered
<1>4. ASSUME NEW r \in Rendered, LowbattShow(r) PROVE WakeInv'
  BY <1>3, <1>4, ShowKeeps DEF LowbattShow, WakeType, LockInv
<1>5. ASSUME NEW r \in Rendered, FieldCycle(r) PROVE WakeInv'
  <2>1. phase = "cycle" /\ (lb.lock => odd)
    BY <1>5 DEF FieldCycle, LockInv
  <2>2. CASE PresentGateAllows(r)
    BY <1>3, <1>5, <2>1, <2>2, ShowKeeps DEF FieldCycle, PresentGateAllows, WakeType
  <2>3. CASE ~PresentGateAllows(r)
    BY <1>5, <2>1, <2>3
       DEF FieldCycle, WakeType, ColdInv, LockInv, FreedInv, CfgLoad, PresentInv, WakesSound,
           NoFlapping, SleepsWithCharge, HashIsPanel, BlankIsKnown
  <2> QED
    BY <2>2, <2>3
<1>6. ASSUME NEW r \in Rendered, HeldCycle(r) PROVE WakeInv'
  <2>1. phase = "keep" /\ (lb.lock => odd)
    BY <1>6 DEF HeldCycle, LockInv
  <2> QED
    BY <1>3, <1>6, <2>1, ShowKeeps DEF HeldCycle, WakeType
<1>7. CASE EpdPresent
  BY <1>7 DEF EpdPresent, WakeType, ColdInv, LockInv, FreedInv, CfgLoad, PresentInv, WakesSound,
              NoFlapping, SleepsWithCharge, HashIsPanel, BlankIsKnown
<1>8. ASSUME NEW usb \in BOOLEAN, AfterCycle(usb) PROVE WakeInv'
  BY <1>8 DEF AfterCycle, WakeType, ColdInv, LockInv, FreedInv, CfgLoad, PresentInv, WakesSound,
              NoFlapping, SleepsWithCharge, HashIsPanel, BlankIsKnown
<1>9. ASSUME NEW shown \in BOOLEAN, ShowStaticFrame(shown) PROVE WakeInv'
  BY <1>9 DEF ShowStaticFrame, WakeType, ColdInv, LockInv, FreedInv, CfgLoad, PresentInv,
              WakesSound, NoFlapping, SleepsWithCharge, HashIsPanel, BlankIsKnown, Setup, Zero, Part
<1>10. CASE BattSet
  <2>1. lbNvs' \in LbNvs /\ UNCHANGED <<phase, wakeCause, lb, lbKey, fb, panel, fbHash, afterShow,
                                         freed, odd, blanked>>
    BY <1>10 DEF BattSet, WakeType, LbNvs
  <2>2. ~lb.lock /\ freed = -1 /\ phase = "console"
    BY <1>10 DEF BattSet, ColdInv
  <2> QED
    BY <2>1, <2>2 DEF WakeType, ColdInv, LockInv, FreedInv, PresentInv, WakesSound,
                      NoFlapping, SleepsWithCharge, HashIsPanel, BlankIsKnown
<1>11. ASSUME NEW sleep \in BOOLEAN, ConsoleDone(sleep) PROVE WakeInv'
  BY <1>11 DEF ConsoleDone, WakeType, ColdInv, LockInv, FreedInv, CfgLoad, PresentInv, WakesSound,
               NoFlapping, SleepsWithCharge, HashIsPanel, BlankIsKnown
<1>12. CASE WakeReset
  <2>1. WakeType'
    <3>1. lbKey' \in BOOLEAN /\ odd' \in BOOLEAN
      BY <1>12, Zenon DEF WakeReset
    <3> QED
      BY <1>12, <3>1, LbColdType DEF WakeReset, WakeType
  <2>2. ~lb'.lock /\ freed' = -1 /\ fbHash' = NoHash /\ phase' = "gate"
    BY <1>12, LbColdType DEF WakeReset
  <2>3. ColdInv' /\ LockInv' /\ FreedInv' /\ PresentInv'
    BY <2>2 DEF ColdInv, LockInv, FreedInv, PresentInv
  <2>4. NoFlapping' /\ SleepsWithCharge' /\ HashIsPanel'
    BY <2>2 DEF NoFlapping, SleepsWithCharge, HashIsPanel
  <2>5. BlankIsKnown'
    BY <1>12 DEF WakeReset, WakesSound, BlankIsKnown
  <2> QED
    BY <2>1, <2>3, <2>4, <2>5 DEF WakesSound
<1>13. CASE UNCHANGED wakeVars
  BY <1>13 DEF wakeVars, WakeType, ColdInv, LockInv, FreedInv, CfgLoad, PresentInv, WakesSound,
               NoFlapping, SleepsWithCharge, HashIsPanel, BlankIsKnown
<1> QED
  BY <1>1, <1>2, <1>4, <1>5, <1>6, <1>7, <1>8, <1>9, <1>10, <1>11, <1>12, <1>13 DEF WakeNext

\* lowbatt_gate, the content-change gate and the panel, through any sequence of
\* wakes, settings and resets: the gate does not flap, a device it keeps asleep
\* shows the charge screen, the fingerprint is that of the picture shown, and
\* an empty frame reaches the panel only on the two ungated paths.
THEOREM WakesAreSound == WakeSpec => []WakesSound
<1>1. WakeInv => WakesSound
  BY DEF WakeInv
<1> QED
  BY <1>1, WakeInvInit, WakeInvNext, PTL DEF WakeSpec

-----------------------------------------------------------------------------
(* What esptool may write. *)

\* Sorting puts every entry at one place and leaves no place empty.
LEMMA Places ==
  ASSUME NEW n \in Nat, NEW es, DOMAIN es = 1..n, \A i \in 1..n : es[i].off \in Nat
  PROVE  /\ \A j \in 1..n : Place(es, j) \in 1..n
         /\ \A i, j \in 1..n : Place(es, i) < Place(es, j) => Ahead(es, i, j)
         /\ \A k \in 1..n : \E j \in 1..n : Place(es, j) = k
<1> DEFINE Before(j) == {i \in 1..n : Ahead(es, i, j)}
           f == [j \in 1..n |-> Place(es, j)]
<1>1. \A i \in 1..n : ~Ahead(es, i, i)
  BY DEF Ahead
<1>2. \A i, j \in 1..n : i = j \/ Ahead(es, i, j) \/ Ahead(es, j, i)
  <2> SUFFICES ASSUME NEW i \in 1..n, NEW j \in 1..n PROVE i = j \/ Ahead(es, i, j) \/ Ahead(es, j, i)
    OBVIOUS
  <2>1. i \in Int /\ j \in Int /\ es[i].off \in Int /\ es[j].off \in Int
    OBVIOUS
  <2> QED
    BY <2>1 DEF Ahead
<1>3. \A i, j, k \in 1..n : Ahead(es, i, j) /\ Ahead(es, j, k) => Ahead(es, i, k)
  <2> SUFFICES ASSUME NEW i \in 1..n, NEW j \in 1..n, NEW k \in 1..n, Ahead(es, i, j), Ahead(es, j, k)
               PROVE  Ahead(es, i, k)
    OBVIOUS
  <2>1. i \in Int /\ j \in Int /\ k \in Int /\ es[i].off \in Int /\ es[j].off \in Int /\ es[k].off \in Int
    OBVIOUS
  <2> QED
    BY <2>1 DEF Ahead
<1>4. IsFiniteSet(1..n) /\ Cardinality(1..n) = n
  <2>1. 1 \in Int /\ n \in Int
    OBVIOUS
  <2>2. IsFiniteSet(1..n) /\ Cardinality(1..n) = IF 1 > n THEN 0 ELSE n - 1 + 1
    BY <2>1, FS_Interval
  <2> QED
    BY <2>2
<1>5. ASSUME NEW j \in 1..n
      PROVE  IsFiniteSet(Before(j)) /\ Cardinality(Before(j)) \in Nat /\ Cardinality(Before(j)) + 1 <= n
             /\ Place(es, j) = Cardinality(Before(j)) + 1
  <2>1. Before(j) \subseteq (1..n) \ {j}
    BY <1>1
  <2>2. IsFiniteSet((1..n) \ {j}) /\ Cardinality((1..n) \ {j}) = n - 1
    BY <1>4, FS_RemoveElement
  <2>3. IsFiniteSet(Before(j)) /\ Cardinality(Before(j)) <= Cardinality((1..n) \ {j})
    <3> HIDE DEF Before
    <3> QED
      BY <2>1, <2>2, FS_Subset
  <2>4. Cardinality(Before(j)) \in Nat
    <3> HIDE DEF Before
    <3> QED
      BY <2>3, FS_CardinalityType
  <2>5. Place(es, j) = Cardinality(Before(j)) + 1
    BY DEF Place
  <2> HIDE DEF Before
  <2> QED
    BY <2>2, <2>3, <2>4, <2>5
<1>6. \A j \in 1..n : Place(es, j) \in 1..n
  <2> HIDE DEF Before
  <2> SUFFICES ASSUME NEW j \in 1..n PROVE Place(es, j) \in 1..n
    OBVIOUS
  <2>1. /\ Cardinality(Before(j)) \in Nat /\ Cardinality(Before(j)) + 1 <= n
        /\ Place(es, j) = Cardinality(Before(j)) + 1
    BY <1>5
  <2> QED
    BY <2>1
<1>7. ASSUME NEW i \in 1..n, NEW j \in 1..n, Ahead(es, i, j)
      PROVE  Place(es, i) < Place(es, j)
  <2>1. Before(i) \cup {i} \subseteq Before(j) /\ i \notin Before(i)
    BY <1>1, <1>3, <1>7
  <2> HIDE DEF Before
  <2>2. Cardinality(Before(i) \cup {i}) = Cardinality(Before(i)) + 1
    BY <1>5, <2>1, FS_AddElement
  <2>3. Cardinality(Before(i) \cup {i}) <= Cardinality(Before(j))
    BY <1>5, <2>1, FS_Subset
  <2> QED
    BY <1>5, <2>2, <2>3
<1>8. \A i, j \in 1..n : Place(es, i) \in Int /\ Place(es, j) \in Int
  BY <1>6
<1>9. \A i, j \in 1..n : Place(es, i) < Place(es, j) => Ahead(es, i, j)
  BY <1>2, <1>7, <1>8
<1>10. f \in Injection(1..n, 1..n)
  <2>1. f \in [1..n -> 1..n] /\ \A j \in 1..n : f[j] = Place(es, j)
    BY <1>6
  <2>2. ASSUME NEW i \in 1..n, NEW j \in 1..n, f[i] = f[j] PROVE i = j
    <3>1. Place(es, i) = Place(es, j) /\ Place(es, i) \in Int
      BY <1>8, <2>1, <2>2
    <3>2. ~Ahead(es, i, j) /\ ~Ahead(es, j, i)
      BY <1>7, <3>1
    <3> QED
      BY <1>2, <3>2
  <2> HIDE DEF f
  <2> QED
    BY <2>1, <2>2 DEF Injection, IsInjective
<1>11. f \in Surjection(1..n, 1..n)
  <2> HIDE DEF f
  <2> QED
    BY <1>4, <1>10, FS_Injection
<1>12. ASSUME NEW k \in 1..n PROVE \E j \in 1..n : Place(es, j) = k
  <2>1. \E j \in 1..n : f[j] = k
    <3> HIDE DEF f
    <3> QED
      BY <1>11 DEF Surjection
  <2> QED
    BY <2>1
<1> QED
  BY <1>6, <1>9, <1>12

LEMMA Sorted ==
  ASSUME NEW n \in Nat, NEW es, DOMAIN es = 1..n, \A i \in 1..n : es[i].off \in Nat
  PROVE  LET s == ByOffset(es) IN
         /\ DOMAIN s = 1..n /\ \A k \in 1..n : \E j \in 1..n : s[k] = es[j]
         /\ \A k, m \in 1..n : k < m => s[k].off <= s[m].off
<1> DEFINE From(k) == CHOOSE j \in 1..n : Place(es, j) = k
           s == ByOffset(es)
<1>1. \A k \in 1..n : From(k) \in 1..n /\ Place(es, From(k)) = k
  <2>1. \A k \in 1..n : \E j \in 1..n : Place(es, j) = k
    BY Places
  <2> QED
    BY <2>1
<1> HIDE DEF From
<1>2. DOMAIN s = 1..n /\ \A k \in 1..n : s[k] = es[From(k)]
  BY DEF ByOffset, From
<1> HIDE DEF s
<1>3. ASSUME NEW k \in 1..n, NEW m \in 1..n, k < m PROVE s[k].off <= s[m].off
  <2>1. Ahead(es, From(k), From(m))
    BY <1>1, <1>3, Places
  <2>2. es[From(k)].off \in Nat /\ es[From(m)].off \in Nat
    BY <1>1
  <2>3. es[From(k)].off <= es[From(m)].off
    BY <2>1, <2>2 DEF Ahead
  <2> QED
    BY <1>2, <2>3
<1> QED
  BY <1>1, <1>2, <1>3 DEF s

LEMMA ArtifactFacts ==
  /\ \A a \in Artifact : a.off \in 0..MaxBlock /\ a.size \in 1..MaxSize /\ a.off \in Nat /\ a.size \in Nat /\ a.size > 0
  /\ \A e \in Resolved : /\ e.off \in 0..MaxBlock /\ e.size \in 0..MaxSize /\ e.file \in 1..NumArtifacts
                         /\ e.off \in Nat /\ e.size \in Nat
<1>1. \A a \in Artifact : a.off \in 0..MaxBlock /\ a.size \in 1..MaxSize
  BY DEF Artifact
<1>2. \A e \in Resolved : e.off \in 0..MaxBlock /\ e.size \in 0..MaxSize /\ e.file \in 1..NumArtifacts
  BY DEF Resolved
<1>3. \A i \in 0..MaxBlock : i \in Nat
  OBVIOUS
<1>4. \A i \in 0..MaxSize : i \in Nat
  OBVIOUS
<1>5. \A i \in 1..MaxSize : i \in Nat /\ i > 0
  OBVIOUS
<1> QED
  BY <1>1, <1>2, <1>3, <1>4, <1>5

LEMMA WgInvInit == WgInit => WgInv
<1> SUFFICES ASSUME WgInit PROVE WgInv
  OBVIOUS
<1>1. artifacts \in [1..NumArtifacts -> Artifact]
  BY DEF WgInit, Artifact
<1>2. << >> \in Seq(Resolved) /\ DOMAIN << >> = {}
  OBVIOUS
<1>3. WgType
  BY <1>1, <1>2 DEF WgInit, WgType
<1> QED
  BY <1>2, <1>3 DEF WgInit, WgInv, Ascending, Checked, AppIsLast

LEMMA WgBuilds == ASSUME WgInv, NEW known \in [1..NumArtifacts -> BOOLEAN], BuildWriteSet(known) PROVE WgInv'
<1> DEFINE n == NumArtifacts
           es == [i \in DOMAIN artifacts |-> Entry(i, known[i])]
           s == ByOffset(es)
<1>0. /\ guardPc = "idle" /\ guardPc' = "built" /\ writeSet' = s
      /\ blind' = (\E i \in DOMAIN artifacts : ~known[i])
      /\ UNCHANGED <<artifacts, erases, wrote, nvsLost, rebuilds>>
  BY DEF BuildWriteSet
<1>1. n \in Nat /\ DOMAIN artifacts = 1..n /\ \A i \in 1..n : artifacts[i] \in Artifact
  BY WgAssumption DEF WgInv, WgType
<1>2. DOMAIN es = 1..n /\ \A i \in 1..n : es[i] = Entry(i, known[i])
  BY <1>1
<1> HIDE DEF es
<1>3. \A i \in 1..n : /\ es[i] \in Resolved /\ es[i].off \in Nat /\ es[i].off = artifacts[i].off /\ es[i].file = i
                      /\ known[i] => es[i].size = artifacts[i].size
  <2> SUFFICES ASSUME NEW i \in 1..n
               PROVE  /\ es[i] \in Resolved /\ es[i].off \in Nat /\ es[i].off = artifacts[i].off /\ es[i].file = i
                      /\ known[i] => es[i].size = artifacts[i].size
    OBVIOUS
  <2>1. /\ artifacts[i].off \in 0..MaxBlock /\ artifacts[i].size \in 1..MaxSize /\ artifacts[i].off \in Nat
        /\ artifacts[i].size \in 0..MaxSize /\ 0 \in 0..MaxSize
    <3>1. artifacts[i] \in Artifact
      BY <1>1
    <3>2. \A k \in 1..MaxSize : k \in 0..MaxSize
      OBVIOUS
    <3>3. 0 \in 0..MaxSize
      BY WgAssumption
    <3> QED
      BY <3>1, <3>2, <3>3, ArtifactFacts
  <2>2. es[i] = [off |-> artifacts[i].off, size |-> IF known[i] THEN artifacts[i].size ELSE 0, file |-> i]
    BY <1>2 DEF Entry
  <2>3. (IF known[i] THEN artifacts[i].size ELSE 0) \in 0..MaxSize
    BY <2>1
  <2> QED
    BY <2>1, <2>2, <2>3 DEF Resolved
<1>4. /\ DOMAIN s = 1..n /\ \A k \in 1..n : \E j \in 1..n : s[k] = es[j]
      /\ \A k, m \in 1..n : k < m => s[k].off <= s[m].off
  BY <1>1, <1>2, <1>3, Sorted
<1>5. s \in Seq(Resolved)
  <2>1. s = [k \in 1..n |-> s[k]]
    BY <1>2 DEF ByOffset
  <2> HIDE DEF s
  <2>2. \A k \in 1..n : s[k] \in Resolved
    BY <1>3, <1>4
  <2> QED
    BY <1>1, <2>1, <2>2
<1> HIDE DEF s, n
<1>6. WgType'
  BY <1>0, <1>5 DEF WgInv, WgType
<1>7. Ascending'
  BY <1>0, <1>4 DEF Ascending
<1>8. ASSUME ~blind', NEW k \in 1..n PROVE s[k].off = artifacts[s[k].file].off /\ s[k].size = artifacts[s[k].file].size
  <2>1. PICK j \in 1..n : s[k] = es[j]
    BY <1>4
  <2>2. known[j]
    BY <1>0, <1>1, <1>8, <2>1
  <2> QED
    BY <1>3, <2>1, <2>2
<1>9. Checked'
  BY <1>0, <1>4, <1>8 DEF Checked
<1> QED
  BY <1>0, <1>6, <1>7, <1>9 DEF WgInv, AppIsLast

\* In an ascending write set what lies lower was written earlier.
LEMMA AppOrder ==
  ASSUME WgType, Ascending
  PROVE  \A w \in Nat : \A i, j \in DOMAIN writeSet : i <= w + 1 /\ writeSet[j].off < writeSet[i].off => j <= w
<1> SUFFICES ASSUME NEW w \in Nat, NEW i \in DOMAIN writeSet, NEW j \in DOMAIN writeSet,
                    i <= w + 1, writeSet[j].off < writeSet[i].off
             PROVE  j <= w
  OBVIOUS
<1>1. i \in Int /\ j \in Int /\ writeSet[i] \in Resolved /\ writeSet[j] \in Resolved
  BY DEF WgType
<1>2. writeSet[i].off \in Int /\ writeSet[j].off \in Int
  BY <1>1, ArtifactFacts
<1>3. ~(i < j)
  BY <1>2 DEF Ascending
<1>4. i # j
  BY <1>2
<1> QED
  BY <1>1, <1>3, <1>4

LEMMA WgRest ==
  ASSUME WgInv, \/ ValidateWriteSet \/ EsptoolWrites \/ EsptoolEnds
                \/ \E i \in 1..NumArtifacts, size \in 1..MaxSize : Rebuild(i, size)
  PROVE  WgInv'
<1> USE DEF WgInv
<1>1. CASE ValidateWriteSet
  <2>1. /\ guardPc = "built"
        /\ guardPc' = IF erases \/ \E i \in DOMAIN writeSet : Overlaps(writeSet[i]) THEN "refused" ELSE "writing"
        /\ UNCHANGED <<artifacts, erases, writeSet, wrote, nvsLost, rebuilds, blind>>
    BY <1>1 DEF ValidateWriteSet
  <2>2. WgType' /\ Ascending'
    BY <2>1 DEF WgType, Ascending
  <2>3. Checked'
    <3>1. \A e : Overlaps(e)' <=> Overlaps(e)
      BY DEF Overlaps
    <3>2. guardPc' = "writing" => ~erases /\ \A i \in DOMAIN writeSet : ~Overlaps(writeSet[i])
      BY <2>1
    <3> QED
      BY <2>1, <3>1, <3>2 DEF Checked
  <2>4. AppIsLast'
    <3>1. wrote \in Nat
      BY DEF WgType
    <3> QED
      BY <2>1, <3>1, AppOrder DEF AppIsLast
  <2> QED
    BY <2>2, <2>3, <2>4
<1>2. CASE EsptoolWrites
  <2>1. /\ guardPc = "writing" /\ wrote' = wrote + 1
        /\ UNCHANGED <<artifacts, erases, writeSet, guardPc, rebuilds, blind>>
        /\ nvsLost' = (nvsLost \/ erases \/ Blocks(artifacts[writeSet[wrote + 1].file]) \cap Nvs # {})
    BY <1>2 DEF EsptoolWrites
  <2>2. WgType'
    BY <2>1 DEF WgType
  <2>3. Ascending' /\ Checked'
    BY <2>1 DEF Ascending, Checked, Overlaps
  <2>4. AppIsLast'
    <3>1. wrote + 1 \in Nat
      BY DEF WgType
    <3> QED
      BY <2>1, <3>1, AppOrder DEF AppIsLast
  <2> QED
    BY <2>2, <2>3, <2>4
<1>3. CASE EsptoolEnds
  <2>1. /\ guardPc' = "idle" /\ writeSet' = <<>> /\ wrote' = 0
        /\ UNCHANGED <<artifacts, erases, nvsLost, rebuilds, blind>>
    BY <1>3 DEF EsptoolEnds
  <2>2. << >> \in Seq(Resolved) /\ DOMAIN << >> = {}
    OBVIOUS
  <2> QED
    BY <2>1, <2>2 DEF WgType, Ascending, Checked, AppIsLast
<1>4. CASE \E i \in 1..NumArtifacts, size \in 1..MaxSize : Rebuild(i, size)
  <2>0. PICK i \in 1..NumArtifacts, size \in 1..MaxSize : Rebuild(i, size)
    BY <1>4
  <2>1. /\ artifacts' = [artifacts EXCEPT ![i].size = size]
        /\ blind' = (blind \/ guardPc \in {"built", "writing"})
        /\ UNCHANGED <<erases, writeSet, guardPc, wrote, nvsLost>>
    BY <2>0 DEF Rebuild
  <2>2. artifacts' \in [1..NumArtifacts -> Artifact]
    <3>1. artifacts \in [1..NumArtifacts -> Artifact]
      BY DEF WgType
    <3>2. artifacts[i] \in Artifact
      BY <3>1
    <3>3. [artifacts[i] EXCEPT !.size = size] \in Artifact
      BY <3>2 DEF Artifact
    <3>4. artifacts' = [artifacts EXCEPT ![i] = [artifacts[i] EXCEPT !.size = size]]
      BY <2>1
    <3> QED
      BY <3>1, <3>3, <3>4
  <2>3. WgType'
    BY <2>1, <2>2 DEF WgType
  <2>4. Ascending' /\ AppIsLast'
    BY <2>1 DEF Ascending, AppIsLast
  <2>5. Checked'
    BY <2>1 DEF Checked, WgType, Overlaps
  <2> QED
    BY <2>3, <2>4, <2>5
<1> QED
  BY <1>1, <1>2, <1>3, <1>4

LEMMA WgInvNext == WgInv /\ [WgNext]_guardVars => WgInv'
<1> SUFFICES ASSUME WgInv, [WgNext]_guardVars PROVE WgInv'
  OBVIOUS
<1>1. CASE UNCHANGED guardVars
  BY <1>1 DEF guardVars, WgInv, WgType, Ascending, Checked, AppIsLast, Overlaps
<1>2. CASE WgNext
  BY <1>2, WgBuilds, WgRest DEF WgNext
<1> QED
  BY <1>1, <1>2

\* An entry that was checked and is still what was checked does not reach into NVS.
LEMMA WriteSpares ==
  ASSUME NEW e, NEW a \in Artifact, e.off = a.off, e.size = a.size, ~Overlaps(e)
  PROVE  Blocks(a) \cap Nvs = {}
<1>1. a.off \in Int /\ a.size \in Int /\ a.size > 0 /\ NvsStart \in Nat /\ NvsLen \in Nat
  BY ArtifactFacts, WgAssumption
<1>2. ~(NvsLen > 0 /\ a.off < NvsStart + NvsLen /\ NvsStart < a.off + a.size)
  BY <1>1 DEF Overlaps
<1>3. ASSUME NEW b \in Blocks(a), b \in Nvs PROVE FALSE
  <2>1. b \in Int /\ a.off <= b /\ b < a.off + a.size /\ NvsStart <= b /\ b < NvsStart + NvsLen
    BY <1>1, <1>3 DEF Blocks, Nvs
  <2> QED
    BY <1>1, <1>2, <2>1
<1> QED
  BY <1>3

LEMMA WriteSteps == WgInv /\ [WgNext]_guardVars => [WriteStep]_guardVars
<1> SUFFICES ASSUME WgInv, WgNext PROVE WriteStep
  OBVIOUS
<1>1. WgInv'
  BY WgInvNext
<1>2. ASSUME nvsLost', ~nvsLost PROVE blind
  <2>1. EsptoolWrites
    BY <1>2 DEF WgNext, BuildWriteSet, ValidateWriteSet, EsptoolEnds, Rebuild
  <2>2. SUFFICES ASSUME ~blind PROVE FALSE
    OBVIOUS
  <2> DEFINE e == writeSet[wrote + 1]
  <2>3. /\ guardPc = "writing" /\ wrote + 1 \in DOMAIN writeSet
        /\ erases \/ Blocks(artifacts[e.file]) \cap Nvs # {}
    BY <1>2, <2>1 DEF EsptoolWrites, WgInv, WgType
  <2>4. e \in Resolved /\ artifacts[e.file] \in Artifact
    <3>1. e \in Resolved
      BY <2>3 DEF WgInv, WgType
    <3>2. e.file \in 1..NumArtifacts
      BY <3>1, ArtifactFacts
    <3> QED
      BY <3>1, <3>2 DEF WgInv, WgType
  <2>5. ~erases /\ ~Overlaps(e) /\ e.off = artifacts[e.file].off /\ e.size = artifacts[e.file].size
    BY <2>2, <2>3 DEF WgInv, Checked
  <2> HIDE DEF e
  <2> QED
    BY <2>3, <2>4, <2>5, WriteSpares
<1> QED
  BY <1>1, <1>2 DEF WriteStep, NvsPreserved, WgInv

\* Whatever artifacts and extra arguments are configured, a flash whose sizes were all
\* taken and whose files stay as they were spares the factory NVS, and the app is the
\* last entry it writes (BuildWriteSet, ValidateWriteSet).
THEOREM WritesAreSafe == WgSpec => WritesSafe
<1> QED
  BY WriteSteps, WgInvInit, WgInvNext, PTL DEF WgSpec, WritesSafe
=============================================================================
