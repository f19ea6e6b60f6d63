------------------------------- MODULE KvStore -------------------------------
(***************************************************************************)
(* The firmware's key-value store on littlefs (store.c, store_core.h) and  *)
(* the one-time migration of the legacy credential (wifi_store.c).  One    *)
(* file per key; a value is staged under .tmp, synced, and renamed over    *)
(* the key.  Everything runs in the main task, so an operation meets no    *)
(* other one, only errors and resets between its file-system calls.        *)
(*                                                                         *)
(* littlefs is external: what is written counts only once synced, a rename *)
(* is one commit, and a mount that fails formats the partition or fails.   *)
(***************************************************************************)
EXTENDS Integers

CONSTANTS StoreKey, StoreVal,   \* keys and values scripts and the console use
          Legacy                \* the credential in NVS

VARIABLES kv, staged,           \* committed files under /fs and /fs/.tmp
          fsOk,                 \* s_fs_ok
          kvOp,                 \* the set being executed, step by step
          migrating,            \* step of wifi_store_migrate_legacy
          everHeld              \* history: the legacy credential has been stored since the
                                \* partition was formatted
storeVars == <<kv, staged, fsOk, kvOp, migrating, everHeld>>

Wifi0 == "wifi.0"
Migrated == "migrated_wifi"
Keys == StoreKey \cup {Wifi0, Migrated}
Absent == "absent"
Half == "half"                  \* a file whose data was never synced
NoKvOp == [step |-> "idle", key |-> Wifi0, val |-> Absent]
Empty == [k \in Keys |-> Absent]

\* The flag is the migration's own key, and no value is one of the two marks.
ASSUME KvAssumption == Migrated \notin StoreKey /\ {Absent, Half} \cap (StoreVal \cup {Legacy}) = {}

KvInit ==
  /\ kv = Empty /\ staged = Empty /\ fsOk = FALSE
  /\ kvOp = [NoKvOp EXCEPT !.step = "mount"] /\ migrating = "no" /\ everHeld = FALSE

\* Mutant of GcTmp: orphans are left to the file system.
GcTmpNot(ok) == staged

\* gc_tmp: whatever a reset left in the staging directory is removed.
GcTmp(ok) == IF ok THEN Empty ELSE staged

\* store_mount: as it is, formatted after a failed mount, or not at all.
StoreMount(ok, format) ==
  /\ kvOp.step = "mount" /\ kvOp' = NoKvOp
  /\ fsOk' = ok
  /\ kv' = IF ok /\ format THEN Empty ELSE kv
  /\ staged' = IF ok /\ format THEN Empty ELSE GcTmp(ok)
  /\ everHeld' = (everHeld /\ ~(ok /\ format))
  /\ UNCHANGED migrating

-----------------------------------------------------------------------------
(* store_kv_set *)

\* How a set ends: the script, the console or the migration goes on.
SetOver(ok) ==
  /\ kvOp' = NoKvOp
  /\ migrating' = CASE migrating = "cred" /\ ok -> "flag"
                    [] OTHER -> "no"

\* store_put / store_set of a valid key: the staging file is created empty, or refused.
Open(k, v) ==
  /\ kvOp.step = "idle" /\ fsOk
  /\ \/ kvOp' = [step |-> "write", key |-> k, val |-> v] /\ staged' = [staged EXCEPT ![k] = Half]
        /\ UNCHANGED migrating
     \/ SetOver(FALSE) /\ UNCHANGED staged
  /\ UNCHANGED <<kv, fsOk, everHeld>>

StoreSet(k, v) == migrating = "no" /\ Open(k, v)

\* Mutant of Fsync: the data is left to a later sync.
FsyncSkipped ==
  /\ kvOp.step = "write"
  /\ kvOp' = [kvOp EXCEPT !.step = "rename"]
  /\ UNCHANGED <<kv, staged, fsOk, migrating, everHeld>>

\* write, fsync and close: the staged file holds the value.
Fsync ==
  /\ kvOp.step = "write"
  /\ kvOp' = [kvOp EXCEPT !.step = "rename"]
  /\ staged' = [staged EXCEPT ![kvOp.key] = kvOp.val]
  /\ UNCHANGED <<kv, fsOk, migrating, everHeld>>

\* A failed write, sync, close or rename: the staged file is unlinked, the value untouched.
SetFails ==
  /\ kvOp.step \in {"write", "rename"}
  /\ staged' = [staged EXCEPT ![kvOp.key] = Absent]
  /\ SetOver(FALSE)
  /\ UNCHANGED <<kv, fsOk, everHeld>>

\* rename: one metadata commit puts the staged file in the key's place.
Rename ==
  /\ kvOp.step = "rename"
  /\ kv' = [kv EXCEPT ![kvOp.key] = staged[kvOp.key]]
  /\ staged' = [staged EXCEPT ![kvOp.key] = Absent]
  /\ everHeld' = (everHeld \/ (kvOp.key = Wifi0 /\ kvOp.val = Legacy))
  /\ SetOver(TRUE)
  /\ UNCHANGED fsOk

\* store_remove / store_del, WIFI DEL.
StoreDel(k) ==
  /\ kvOp.step = "idle" /\ migrating = "no" /\ fsOk /\ kv[k] # Absent
  /\ kv' = [kv EXCEPT ![k] = Absent]
  /\ UNCHANGED <<staged, fsOk, kvOp, migrating, everHeld>>

-----------------------------------------------------------------------------
(* wifi_store_migrate_legacy, at the start of every cycle *)

MigrateBegins ==
  /\ kvOp.step = "idle" /\ migrating = "no" /\ fsOk /\ kv[Migrated] = Absent
  /\ migrating' = "cred"
  /\ UNCHANGED <<kv, staged, fsOk, kvOp, everHeld>>

\* Mutant of MigrateSet: the flag is stored before the credential.
MigrateSetFlagFirst ==
  \/ migrating = "cred" /\ Open(Migrated, "1")
  \/ migrating = "flag" /\ Open(Wifi0, Legacy)

\* The credential first; the flag only once it is stored, its own result ignored.
MigrateSet ==
  \/ migrating = "cred" /\ Open(Wifi0, Legacy)
  \/ migrating = "flag" /\ Open(Migrated, "1")

\* Power loss or reset at any point: only what is committed stays.
StoreReset ==
  /\ kvOp' = [NoKvOp EXCEPT !.step = "mount"] /\ migrating' = "no" /\ fsOk' = FALSE
  /\ UNCHANGED <<kv, staged, everHeld>>

KvNext ==
  \/ \E ok, format \in BOOLEAN : StoreMount(ok, format)
  \/ \E k \in StoreKey \cup {Wifi0}, v \in StoreVal : StoreSet(k, v)
  \/ Fsync \/ SetFails \/ Rename
  \/ \E k \in Keys : StoreDel(k)
  \/ MigrateBegins \/ MigrateSet
  \/ StoreReset

KvSpec == KvInit /\ [][KvNext]_storeVars

-----------------------------------------------------------------------------
(* Properties *)

\* A key is never half a value, wherever the power fails.
NoHalfKey == \A k \in Keys : kv[k] # Half

\* While the store is up and no set is running, the staging directory is empty: interrupted
\* and failed sets do not eat the partition across power losses.
NoOrphanStaged == (fsOk /\ kvOp.step = "idle") => staged = Empty

\* The migration is recorded only once the legacy credential has reached the store, so a
\* reset in the middle repeats it and never loses the credential.
MigrationKeepsCredential == kv[Migrated] # Absent => everHeld

\* The store survives power loss at every step.
StoreSurvives == NoHalfKey /\ NoOrphanStaged /\ MigrationKeepsCredential

-----------------------------------------------------------------------------
(* What the proof of StoreSurvives rests on. *)

Setting == kvOp.step \in {"write", "rename"}
KvVal == StoreVal \cup {Absent, Legacy, "1"}

KvType ==
  /\ kv \in [Keys -> KvVal] /\ staged \in [Keys -> KvVal \cup {Half}]
  /\ fsOk \in BOOLEAN /\ everHeld \in BOOLEAN /\ migrating \in {"no", "cred", "flag"}
  /\ kvOp \in [step : {"mount", "idle", "write", "rename"}, key : Keys, val : KvVal]

\* Only the running set has a staged file, which holds its value once synced.
StagedInv ==
  /\ Setting => fsOk /\ \A k \in Keys \ {kvOp.key} : staged[k] = Absent
  /\ kvOp.step = "rename" => staged[kvOp.key] = kvOp.val

\* Which set a migration is running, and what it has reached.
MigrationInv ==
  /\ kvOp.step = "mount" => migrating = "no"
  /\ migrating = "flag" => everHeld
  /\ Setting /\ migrating = "cred" => kvOp.key = Wifi0 /\ kvOp.val = Legacy
  /\ Setting /\ kvOp.key = Migrated => migrating = "flag"

KvInv == KvType /\ StagedInv /\ MigrationInv /\ StoreSurvives
=============================================================================
