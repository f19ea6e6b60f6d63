-------------------------------- MODULE Wake --------------------------------
(***************************************************************************)
(* One wake of the firmware after another: the low-battery gate            *)
(* (lowbatt.c, lowbatt_core.h) and what reaches the e-paper panel          *)
(* (app_main, run_cycle_inner, the content-change gate of main.c).         *)
(*                                                                         *)
(* RTC memory (the gate's state, the fingerprint of the displayed frame,   *)
(* the "lb" key) survives a deep sleep and is nulled by every reset; the   *)
(* framebuffer is zero after both; the panel keeps its picture.  Voltages  *)
(* count steps of the battery table, 0 is the lowest plausible reading.    *)
(***************************************************************************)
EXTENDS Integers

CONSTANTS MvMax,      \* highest reading; also LOWBATT_ARM_MV_MAX and LOWBATT_CLR_MV_MAX
          ArmMvMin,   \* LOWBATT_ARM_MV_MIN
          StoredMv,   \* the thresholds an operator stores, before the clamps
          RiseMv,     \* the rises an operator stores
          Streaks,    \* the streaks an operator stores
          Frame       \* what a clean run of render.be draws without the "lb" key

VARIABLES phase,         \* where app_main stands
          wakeCause,      \* "cold", "timer" or "button"
          lbNvs,        \* lb_on, lb_arm_mv, lb_clr_mv, lb_rise_mv, lb_streak
          lb,         \* s_lb: lock, last_mv, low_streak
          lbKey,      \* rtc key "lb" is set
          fb, panel,  \* framebuffer and what the panel shows
          fbHash,     \* s_fb_hash: the frame it fingerprints, NoHash when not valid
          afterShow,       \* where a present returns to
          freed,      \* history: reading of the last recovery on battery by CLEAR, -1: none
          odd,        \* history: since arming, a reading was garbage or the charge screen failed
          blanked     \* history: an ungated path has presented after a failed render
wakeVars == <<phase, wakeCause, lbNvs, lb, lbKey, fb, panel, fbHash, afterShow, freed, odd, blanked>>

NoHash == "none"
Zero == "zero"            \* an all-zero framebuffer, black on the panel
Charge == "charge"
Part == "part"            \* drawn by a script that failed
Torn == "torn"            \* a refresh cut short
Setup == "setup"          \* the static onboarding and console screens
LbCold == [lock |-> FALSE, last |-> 0, streak |-> 0]

Clamp(v, lo, hi) == LET w == IF v < lo THEN lo ELSE v IN IF w > hi THEN hi ELSE w
\* lowbatt_set_clear clamps once more when it stores.
StoredClr == {Clamp(v, ArmMvMin + 1, MvMax) : v \in StoredMv}

\* Voltages are numbers, and a clean render draws neither the empty nor a partial frame.
ASSUME WakeAssumption ==
  /\ MvMax \in Nat /\ ArmMvMin \in Nat /\ StoredMv \cup RiseMv \cup Streaks \subseteq Nat
  /\ Frame \cap {Zero, Part} = {}

\* Mutant of CfgLoad: CLEAR is not kept above ARM.
CfgLoadUnfloored ==
  [arm |-> Clamp(lbNvs.arm, ArmMvMin, MvMax), clr |-> Clamp(lbNvs.clr, ArmMvMin, MvMax),
   rise |-> lbNvs.rise, streak |-> lbNvs.streak]

\* cfg_load: the stored thresholds, clamped on the way in; CLEAR at least a step above ARM
\* unless its own maximum is lower.
CfgLoad ==
  LET arm == Clamp(lbNvs.arm, ArmMvMin, MvMax)
  IN [arm |-> arm, clr |-> Clamp(lbNvs.clr, arm + 1, MvMax), rise |-> lbNvs.rise, streak |-> lbNvs.streak]

\* lowbatt_decide while locked and on battery.
DecideLocked(mv, st, cfg) ==
  IF mv >= cfg.clr \/ (st.last >= 0 /\ mv - st.last >= cfg.rise)
  THEN [act |-> "normal", next |-> [lock |-> FALSE, last |-> mv, streak |-> 0]]
  ELSE [act |-> "stay", next |-> [st EXCEPT !.last = IF mv > @ THEN mv ELSE @]]

\* lowbatt_decide while not locked.
DecideFree(mv, st, cfg) ==
  IF mv >= cfg.arm THEN [act |-> "normal", next |-> [st EXCEPT !.streak = 0]]
  ELSE IF st.streak + 1 >= cfg.streak
  THEN [act |-> "arm", next |-> [lock |-> TRUE, last |-> mv, streak |-> 0]]
  ELSE [act |-> "normal", next |-> [st EXCEPT !.streak = @ + 1]]

\* Mutant of Decide: a tether or a press lets the cycle run without lifting the lock.
DecideKeepsLock(mv, free, st, cfg) ==
  IF ~lbNvs.on \/ free \/ mv < 0 THEN [act |-> "normal", next |-> st]
  ELSE IF st.lock THEN DecideLocked(mv, st, cfg) ELSE DecideFree(mv, st, cfg)

\* lowbatt_decide; free: a USB data host or a button wake.
Decide(mv, free, st, cfg) ==
  IF ~lbNvs.on THEN [act |-> "normal", next |-> st]
  ELSE IF free THEN [act |-> "normal", next |-> [lock |-> FALSE, streak |-> 0,
                                                 last |-> IF mv >= 0 THEN mv ELSE st.last]]
  ELSE IF mv < 0 THEN [act |-> "normal", next |-> st]
  ELSE IF st.lock THEN DecideLocked(mv, st, cfg) ELSE DecideFree(mv, st, cfg)

WakeInit ==
  /\ phase = "gate" /\ wakeCause = "cold" /\ lb = LbCold /\ lbKey = FALSE
  /\ lbNvs \in [on : BOOLEAN, arm : StoredMv, clr : StoredClr, rise : RiseMv, streak : Streaks]
  /\ fb = Zero /\ panel = Setup /\ fbHash = NoHash /\ afterShow = "asleep"
  /\ freed = -1 /\ odd = FALSE /\ blanked = FALSE

-----------------------------------------------------------------------------
(* The gate *)

\* Timer or button wake: RTC memory stays, the framebuffer is zero again.
WakeUp(c) ==
  /\ phase = "asleep" /\ phase' = "gate" /\ wakeCause' = c /\ fb' = Zero
  /\ UNCHANGED <<lbNvs, lb, lbKey, panel, fbHash, afterShow, freed, odd, blanked>>

\* lowbatt_gate and what app_main does with it.  rtc_put may find the RTC store full; its
\* result is not looked at.
Gate(mv, usb, put) ==
  LET free == usb \/ wakeCause = "button"
      r == Decide(mv, free, lb, CfgLoad)
  IN /\ phase = "gate"
     /\ lb' = r.next
     /\ lbKey' = ((r.act = "arm" /\ put) \/ (r.act = "stay" /\ lbKey))
     /\ phase' = CASE r.act = "arm" -> "charge"
                [] r.act = "stay" -> "asleep"
                [] OTHER -> IF wakeCause = "cold" THEN "boot" ELSE "cycle"
     /\ odd' = IF r.act = "arm" THEN ~put
               ELSE odd \/ (lbNvs.on /\ ~free /\ mv < 0 /\ lb.lock)
     /\ freed' = IF lb.lock /\ ~r.next.lock /\ ~free /\ mv >= CfgLoad.clr THEN mv
                 ELSE IF free THEN -1 ELSE freed
     /\ UNCHANGED <<wakeCause, lbNvs, fb, panel, fbHash, afterShow, blanked>>

-----------------------------------------------------------------------------
(* Rendering and presenting *)

\* berry_render: the outcomes, as frame left in the buffer and result.  A script that fails
\* may have drawn nothing or a part.
Rendered == {[ok |-> TRUE, fb |-> f] : f \in IF lbKey THEN {Charge} ELSE Frame}
            \cup {[ok |-> FALSE, fb |-> f] : f \in {fb, Part}}

\* display_framebuffer_if_changed / frame_changed: f goes to the panel unless its fingerprint
\* is the displayed one.
Show(f, ret) ==
  /\ afterShow' = ret
  /\ IF fbHash = f THEN phase' = ret /\ UNCHANGED panel ELSE phase' = "present" /\ panel' = Torn

\* lowbatt_show_screen, once when the gate arms: presents whatever the render left.
LowbattShow(r) ==
  /\ phase = "charge" /\ r \in Rendered /\ fb' = r.fb
  /\ odd' = (odd \/ ~r.ok) /\ blanked' = (blanked \/ ~r.ok)
  /\ Show(r.fb, "asleep")
  /\ UNCHANGED <<wakeCause, lbNvs, lb, lbKey, fbHash, freed>>

\* Mutant of PresentGateAllows: the panel is presented whatever the producer says.
PresentAlways(r) == TRUE

PresentGateAllows(r) == r.ok

\* run_cycle_inner on battery: a failed render keeps the last frame.
FieldCycle(r) ==
  /\ phase = "cycle" /\ r \in Rendered /\ fb' = r.fb
  /\ IF PresentGateAllows(r) THEN Show(r.fb, "after")
     ELSE phase' = "after" /\ UNCHANGED <<afterShow, panel>>
  /\ UNCHANGED <<wakeCause, lbNvs, lb, lbKey, fbHash, freed, odd, blanked>>

\* run_cycle_inner with the WLAN held: presents even after a failed render.
HeldCycle(r) ==
  /\ phase = "keep" /\ r \in Rendered /\ fb' = r.fb
  /\ blanked' = (blanked \/ ~r.ok)
  /\ Show(r.fb, "keep")
  /\ UNCHANGED <<wakeCause, lbNvs, lb, lbKey, fbHash, freed, odd>>

\* epd_present ends: the refresh is complete and its fingerprint recorded.
EpdPresent ==
  /\ phase = "present" /\ phase' = afterShow
  /\ panel' = fb /\ fbHash' = fb
  /\ UNCHANGED <<wakeCause, lbNvs, lb, lbKey, fb, afterShow, freed, odd, blanked>>

\* After the cycle: stay awake while a USB host is active, then sleep (enter_deep_sleep).
AfterCycle(usb) ==
  /\ phase \in {"after", "keep"}
  /\ phase' = IF usb THEN "keep" ELSE "asleep"
  /\ UNCHANGED <<wakeCause, lbNvs, lb, lbKey, fb, panel, fbHash, afterShow, freed, odd, blanked>>

-----------------------------------------------------------------------------
(* A cold boot: static screen, console, reset *)

\* show_static_frame before the console, when setup is asked for or the credentials are
\* unproven; it leaves the fingerprint alone.
ShowStaticFrame(shown) ==
  /\ phase = "boot" /\ phase' = "console"
  /\ panel' = IF shown THEN Setup ELSE panel
  /\ UNCHANGED <<wakeCause, lbNvs, lb, lbKey, fb, fbHash, afterShow, freed, odd, blanked>>

\* BATT ON, OFF, ARM, CLEAR, RISE and STREAK: one stored value.
BattSet ==
  /\ phase = "console"
  /\ \/ lbNvs' = [lbNvs EXCEPT !.on = ~@]
     \/ \E v \in StoredMv : lbNvs' = [lbNvs EXCEPT !.arm = v]
     \/ \E v \in StoredClr : lbNvs' = [lbNvs EXCEPT !.clr = v]
     \/ \E v \in RiseMv : lbNvs' = [lbNvs EXCEPT !.rise = v]
     \/ \E n \in Streaks : lbNvs' = [lbNvs EXCEPT !.streak = n]
  /\ UNCHANGED <<phase, wakeCause, lb, lbKey, fb, panel, fbHash, afterShow, freed, odd, blanked>>

\* console_run returns: proceed or PRESS to a field cycle, SLEEP to deep sleep at once.
ConsoleDone(sleep) ==
  /\ phase = "console" /\ phase' = IF sleep THEN "asleep" ELSE "cycle"
  /\ UNCHANGED <<wakeCause, lbNvs, lb, lbKey, fb, panel, fbHash, afterShow, freed, odd, blanked>>

\* Mutant of WakeReset: the fingerprint is kept where a reset does not null it.
WakeResetKeepsHash ==
  /\ phase' = "gate" /\ wakeCause' = "cold" /\ lb' = LbCold /\ lbKey' = FALSE /\ fb' = Zero
  /\ freed' = -1 /\ odd' = FALSE
  /\ UNCHANGED <<lbNvs, panel, fbHash, afterShow, blanked>>

\* Power loss, brown-out, panic or esp_restart, at any point: only NVS and the panel stay.
WakeReset ==
  /\ phase' = "gate" /\ wakeCause' = "cold" /\ lb' = LbCold /\ lbKey' = FALSE /\ fb' = Zero
  /\ fbHash' = NoHash /\ freed' = -1 /\ odd' = FALSE
  /\ UNCHANGED <<lbNvs, panel, afterShow, blanked>>

WakeNext ==
  \/ \E c \in {"timer", "button"} : WakeUp(c)
  \/ \E mv \in -1..MvMax, usb, put \in BOOLEAN : Gate(mv, usb, put)
  \/ \E r \in Rendered : LowbattShow(r) \/ FieldCycle(r) \/ HeldCycle(r)
  \/ EpdPresent \/ (\E usb \in BOOLEAN : AfterCycle(usb))
  \/ (\E shown \in BOOLEAN : ShowStaticFrame(shown)) \/ BattSet
  \/ (\E sleep \in BOOLEAN : ConsoleDone(sleep))
  \/ WakeReset

WakeSpec == WakeInit /\ [][WakeNext]_wakeVars

-----------------------------------------------------------------------------
(* Properties *)

\* The gate does not flap, whatever thresholds are stored: a reading at which the device came
\* back by itself (CLEAR reached on battery) is no reading at which it locks again.
NoFlapping == (phase = "charge" /\ freed >= 0) => lb.last < freed

\* A device that the gate keeps asleep shows the charge screen, unless since arming a garbage
\* reading let a normal cycle through or the charge screen could not be drawn.
SleepsWithCharge == (phase = "asleep" /\ lb.lock /\ ~odd) => panel = Charge

\* The fingerprint the content-change gate compares with is that of the picture on the panel,
\* through sleeps, resets in the middle of a refresh and the setup screens that bypass it.
HashIsPanel == (fbHash # NoHash /\ phase # "present") => panel = fbHash

\* The black frame of an empty framebuffer, or half a drawing, reaches the panel only through
\* the two paths that present without asking present_gate_allows.
BlankIsKnown == panel \in {Zero, Part} => blanked

\* What the panel shows is what the device believes it shows, and the low-battery
\* gate neither flaps nor sleeps under a picture that looks alive.
WakesSound == NoFlapping /\ SleepsWithCharge /\ HashIsPanel /\ BlankIsKnown

-----------------------------------------------------------------------------
(* What the proof of WakesSound rests on. *)

LbNvs == [on : BOOLEAN, arm : StoredMv, clr : StoredClr, rise : RiseMv, streak : Streaks]
LbState == [lock : BOOLEAN, last : Int, streak : Int]

WakeType ==
  /\ phase \in {"gate", "charge", "asleep", "boot", "console", "cycle", "after", "keep", "present"}
  /\ wakeCause \in {"cold", "timer", "button"} /\ afterShow \in {"asleep", "after", "keep"}
  /\ lbNvs \in LbNvs /\ lb \in LbState /\ lbKey \in BOOLEAN
  /\ freed \in Int /\ odd \in BOOLEAN /\ blanked \in BOOLEAN

\* From a reset until the console is left nothing survives in RTC memory, so that settings
\* change only while the gate is open and its history empty.
ColdInv ==
  (phase = "gate" /\ wakeCause = "cold") \/ phase \in {"boot", "console"}
    => ~lb.lock /\ freed = -1 /\ fbHash = NoHash

\* A locked gate is switched on, and only lets the charge screen through.
LockInv ==
  /\ lb.lock => lbNvs.on
  /\ lb.lock /\ ~odd =>
       \/ phase \in {"asleep", "gate"} /\ panel = Charge
       \/ phase = "charge" /\ lbKey
       \/ phase = "present" /\ afterShow = "asleep" /\ fb = Charge

FreedInv == freed >= 0 => freed >= CfgLoad.clr
PresentInv == phase = "present" /\ fb \in {Zero, Part} => blanked

WakeInv == WakeType /\ ColdInv /\ LockInv /\ FreedInv /\ PresentInv /\ WakesSound
=============================================================================
