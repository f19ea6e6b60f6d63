----------------------------- MODULE BootGuard -----------------------------
(***************************************************************************)
(* The recovery guard of the firmware (guard.c, guard_core.h), with the    *)
(* points of app_main that clear its counter (main.c).  NVS survives every *)
(* reset, and the device may be reset between any two NVS commits.         *)
(***************************************************************************)
EXTENDS Integers

CONSTANTS
    Image,        \* builds that can be flashed (their elf-sha)
    MaxCount,     \* 255, where the uint8_t counter saturates
    Thresholds,   \* values GUARD THRESHOLD may store
    Default       \* GUARD_DEFAULT_THRESHOLD

ASSUME GuardAssumption ==
    /\ MaxCount \in Nat \ {0}
    /\ Thresholds \subseteq Nat
    /\ Default \in Thresholds

NoImage == "none"

VARIABLES
    appSha, bad, threshold,   \* NVS namespace guard
    image,                    \* the app in flash
    pc,                       \* off, boot, checked, run, safe
    fresh,                    \* result of fresh_app_check_and_store
    streak,                   \* history: consecutive boots of this image that passed
                              \* the guard since the counter was last cleared or
                              \* the threshold changed
    unstable                  \* history: the same over all images (up to MaxCount)

nvs  == <<appSha, bad, threshold>>
hist == <<streak, unstable>>
vars == <<nvs, image, pc, fresh, hist>>

TypeOK ==
    /\ appSha \in Image \cup {NoImage}
    /\ bad \in 0..MaxCount
    /\ threshold \in Thresholds
    /\ image \in Image
    /\ pc \in {"off", "boot", "checked", "run", "safe"}
    /\ fresh \in BOOLEAN
    /\ streak \in Nat
    /\ unstable \in 0..MaxCount

Init ==
    /\ appSha = NoImage /\ bad = 0 /\ threshold = Default
    /\ image \in Image
    /\ pc = "off" /\ fresh = FALSE
    /\ streak = 0 /\ unstable = 0

\* guard_threshold: clamped below the value the counter saturates at.
Limit == IF threshold > MaxCount - 1 THEN MaxCount - 1 ELSE threshold

\* Mutant of NewCount: the uint8_t wraps.
NewCountWraps == IF fresh THEN 1 ELSE (bad + 1) % (MaxCount + 1)

\* guard_on_boot: the count persisted for this boot, and the decision.
NewCount == IF fresh THEN 1 ELSE IF bad + 1 > MaxCount THEN MaxCount ELSE bad + 1
SafeMode == ~fresh /\ NewCount > Limit

Cleared == streak' = 0 /\ unstable' = 0

----------------------------------------------------------------------------
(* app_main, up to and including guard_check_and_run.                      *)

PowerUp ==
    /\ pc = "off"
    /\ pc' = "boot"
    /\ UNCHANGED <<nvs, image, fresh, hist>>

\* nvs_flash_init finds no free pages or a new version: everything is erased.
NvsErased ==
    /\ pc = "boot"
    /\ appSha' = NoImage /\ bad' = 0 /\ threshold' = Default
    /\ Cleared
    /\ UNCHANGED <<image, pc, fresh>>

\* The new elf-sha is committed here, the counter only in the next step.
FreshAppCheckAndStore ==
    /\ pc = "boot"
    /\ fresh' = (appSha # image)
    /\ appSha' = image
    /\ pc' = "checked"
    /\ streak' = IF appSha # image THEN 0 ELSE streak
    /\ UNCHANGED <<bad, threshold, image, unstable>>

GuardCheckAndRun ==
    /\ pc = "checked"
    /\ bad' = NewCount
    /\ pc' = IF SafeMode THEN "safe" ELSE "run"
    /\ streak' = IF SafeMode THEN streak ELSE streak + 1
    /\ unstable' = IF unstable < MaxCount THEN unstable + 1 ELSE unstable
    /\ UNCHANGED <<appSha, threshold, image, fresh>>

----------------------------------------------------------------------------
(* The rest of the run.                                                    *)

\* stable_task: the stable uptime is reached.
StableTask ==
    /\ pc = "run"
    /\ bad' = 0
    /\ Cleared
    /\ UNCHANGED <<appSha, threshold, image, pc, fresh>>

\* Mutant of EnterDeepSleep: guard_mark_stable is not called.
EnterDeepSleepUnmarked ==
    /\ pc = "run"
    /\ pc' = "off"
    /\ Cleared
    /\ UNCHANGED <<nvs, image, fresh>>

EnterDeepSleep ==
    /\ pc = "run"
    /\ bad' = 0
    /\ pc' = "off"
    /\ Cleared
    /\ UNCHANGED <<appSha, threshold, image, fresh>>

\* A panic, watchdog or brownout at any point, a power cycle, or esp_restart
\* (C2 reboot intent, triple press): the counter is not touched.
Reset ==
    /\ pc # "off"
    /\ pc' = "off"
    /\ UNCHANGED <<nvs, image, fresh, hist>>

\* Console, open in safe mode and at a fresh boot.
Console == pc \in {"run", "safe"}

GuardClear ==
    /\ Console
    /\ bad' = 0
    /\ Cleared
    /\ UNCHANGED <<appSha, threshold, image, pc, fresh>>

GuardThreshold(v) ==
    /\ Console
    /\ threshold' = v
    /\ streak' = IF v = threshold THEN streak ELSE 0
    /\ UNCHANGED <<appSha, bad, image, pc, fresh, unstable>>

\* esptool writes an app and resets the chip; NVS is kept.
Flash(i) ==
    /\ image' = i
    /\ pc' = "off"
    /\ UNCHANGED <<nvs, fresh, hist>>

Next ==
    \/ PowerUp \/ NvsErased \/ FreshAppCheckAndStore \/ GuardCheckAndRun
    \/ StableTask \/ EnterDeepSleep \/ Reset
    \/ GuardClear \/ \E v \in Thresholds : GuardThreshold(v)
    \/ \E i \in Image : Flash(i)

Spec == Init /\ [][Next]_vars

----------------------------------------------------------------------------
(* Properties.                                                             *)

\* firmware/README: "More than threshold consecutive un-stable boots -> safe
\* mode".  No build runs more than threshold times in a row (or once, right
\* after it was flashed) without becoming stable, wherever the resets fall.
LoopCaught == streak <= (IF Limit = 0 THEN 1 ELSE Limit)

\* Safe mode is earned: it takes at least threshold boots since the counter was
\* last cleared by a stable uptime, an ordered sleep or the console.
SafeModeEarned == [][pc' = "safe" /\ pc # "safe" => unstable >= Limit]_vars

\* guard_core.h: "Freshly flashed / OTA'd: clean slate, never inherit a previous
\* loop": a build enters safe mode only after threshold runs of its own.
OwnLoopOnly == [][pc' = "safe" /\ pc # "safe" => streak >= Limit]_vars
=============================================================================
