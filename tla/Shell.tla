-------------------------------- MODULE Shell --------------------------------
(***************************************************************************)
(* The root of picpak-ops: panes and their focus (app/update.go,           *)
(* registry.go, router.go, teardown.go, layout/tabs.go) and the hot reload *)
(* of the config file (config/watch.go, onReload).  Every action but the   *)
(* file's edits and the watcher's timer runs on the UI loop.               *)
(***************************************************************************)
EXTENDS Integers, Sequences, FiniteSets

CONSTANTS
    MaxPanes,    \* bound: panes ever spawned
    MaxEdits,    \* bound: edits of the config file
    MaxWatchers  \* inotify instances the user may hold

VARIABLES
    tabs,        \* Tabs.order; a pane is the number of its spawn
    focused,     \* Tabs.focused, 0 when empty
    hasFocus,    \* panes whose own focused flag is set
    spawns,      \* panes spawned
    working,     \* panes whose status is Working
    quitArmed, quitting,
    file,        \* the config file: [ver, ok, watch]
    config,      \* the config in use: [ver, watch]
    good,        \* history: versions of the file that were valid
    watcher,     \* the watcher that is listened to: "none", "idle", "noted"
    abandoned,   \* watchers no one listens to any more
    reloads      \* ReloadMsg on its way to the loop: <<>> or one message

paneV == <<tabs, focused, hasFocus, spawns, working, quitArmed, quitting>>
cfgV == <<file, config, good, watcher, abandoned, reloads>>
shVars == <<paneV, cfgV>>

ShInit ==
    /\ tabs = <<1>> /\ focused = 1 /\ hasFocus = {1} /\ spawns = 1
    /\ working = {} /\ quitArmed = FALSE /\ quitting = FALSE
    /\ file = [ver |-> 0, ok |-> TRUE, watch |-> TRUE] /\ config = [ver |-> 0, watch |-> TRUE]
    /\ good = {0} /\ watcher = "idle" /\ abandoned = 0 /\ reloads = <<>>

Live == {tabs[i] : i \in DOMAIN tabs}
IndexOf(p) == CHOOSE i \in DOMAIN tabs : tabs[i] = p
Without(p) == [i \in 1..(Len(tabs) - 1) |-> IF i < IndexOf(p) THEN tabs[i] ELSE tabs[i + 1]]

\* Mutant of ApplyFocus: the pane that loses the focus is not told.
ApplyFocusGained(t, f) ==
    /\ tabs' = t /\ focused' = f
    /\ hasFocus' = IF f = 0 THEN {} ELSE {t[f]} \cup (hasFocus \cap {t[i] : i \in DOMAIN t})

\* applyFocus: every pane's flag follows the tabs.
ApplyFocus(t, f) == tabs' = t /\ focused' = f /\ hasFocus' = (IF f = 0 THEN {} ELSE {t[f]})

----------------------------------------------------------------------------
(* Panes.                                                                  *)

Spawn(focus) ==
    /\ ~quitting /\ spawns < MaxPanes /\ spawns' = spawns + 1
    /\ ApplyFocus(Append(tabs, spawns + 1), IF focus THEN Len(tabs) + 1 ELSE focused)
    /\ UNCHANGED <<working, quitArmed, quitting, cfgV>>

\* Mutant of FocusAfter: the index is kept as it is.
FocusAfterSameIndex(p) == IF focused > Len(tabs) - 1 THEN Len(tabs) - 1 ELSE focused

\* Tabs.Remove
FocusAfter(p) ==
    LET n == Len(tabs) - 1 IN
    IF focused > IndexOf(p) THEN focused - 1 ELSE IF focused > n THEN n ELSE focused

\* closePane, for the focused pane or one a message names; the last pane's place
\* is taken by a launcher.
ClosePaneMsg(p) ==
    /\ ~quitting /\ p \in Live
    /\ working' = working \ {p}
    /\ IF Len(tabs) = 1
         THEN /\ spawns < MaxPanes /\ spawns' = spawns + 1
              /\ ApplyFocus(<<spawns + 1>>, 1)
         ELSE /\ UNCHANGED spawns
              /\ ApplyFocus(Without(p), FocusAfter(p))
    /\ UNCHANGED <<quitArmed, quitting, cfgV>>

\* next_tab, prev_tab, FocusPaneMsg and the mouse.
MoveFocus(i) ==
    /\ ~quitting /\ i \in DOMAIN tabs /\ i # focused
    /\ ApplyFocus(tabs, i)
    /\ UNCHANGED <<spawns, working, quitArmed, quitting, cfgV>>

\* Any key but quit takes the prompt down.
OtherKey ==
    /\ quitArmed /\ ~quitting /\ quitArmed' = FALSE
    /\ UNCHANGED <<tabs, focused, hasFocus, spawns, working, quitting, cfgV>>

\* A pane's status becomes or stops being Working.
WorkChanges(p) ==
    /\ ~quitting /\ p \in Live
    /\ working' = IF p \in working THEN working \ {p} ELSE working \cup {p}
    /\ UNCHANGED <<tabs, focused, hasFocus, spawns, quitArmed, quitting, cfgV>>

\* beginQuit, then teardown: the panes are closed and the contexts cancelled.
BeginQuit ==
    /\ ~quitting
    /\ IF working # {} /\ ~quitArmed
         THEN quitArmed' = TRUE /\ UNCHANGED <<tabs, focused, hasFocus, working, quitting>>
         ELSE /\ quitting' = TRUE /\ working' = {} /\ UNCHANGED quitArmed
              /\ ApplyFocus(<<>>, 0)
    /\ UNCHANGED <<spawns, cfgV>>

----------------------------------------------------------------------------
(* Hot reload.                                                             *)

EditFile(ok, watch) ==
    /\ file.ver < MaxEdits
    /\ file' = [ver |-> file.ver + 1, ok |-> ok, watch |-> watch]
    /\ good' = IF ok THEN good \cup {file.ver + 1} ELSE good
    /\ watcher' = IF watcher = "idle" THEN "noted" ELSE watcher
    /\ UNCHANGED <<paneV, config, abandoned, reloads>>

\* The debounce ends and the file is loaded: the listening command returns it.
Debounced ==
    /\ watcher = "noted" /\ ~quitting
    /\ reloads' = <<[ver |-> file.ver, ok |-> file.ok, watch |-> file.watch]>>
    /\ watcher' = "none" /\ abandoned' = abandoned + 1
    /\ UNCHANGED <<paneV, file, config, good>>

\* Mutant of ReArm: only a reload that worked is followed by another watch.
ReArmAfterGood(ok) ==
    IF config'.watch /\ ok
    THEN watcher' = "idle" /\ reloads' = <<>>
    ELSE watcher' = "none" /\ reloads' = <<>>

\* WatchCmd: a new watcher, which at the user's limit fails at once.
ReArm(ok) ==
    IF ~config'.watch THEN watcher' = "none" /\ reloads' = <<>>
    ELSE IF abandoned < MaxWatchers THEN watcher' = "idle" /\ reloads' = <<>>
    ELSE watcher' = "none" /\ reloads' = <<[ver |-> file.ver, ok |-> FALSE, watch |-> TRUE]>>

\* Mutant of OnReload: a config that does not load replaces the good one.
OnReloadAny ==
    /\ reloads # <<>> /\ ~quitting
    /\ config' = [ver |-> Head(reloads).ver, watch |-> Head(reloads).watch]
    /\ ReArm(Head(reloads).ok)
    /\ UNCHANGED <<paneV, file, good, abandoned>>

\* onReload: the last good config is kept; the watch is issued again either way.
OnReload ==
    /\ reloads # <<>> /\ ~quitting
    /\ config' = IF Head(reloads).ok
                   THEN [ver |-> Head(reloads).ver, watch |-> Head(reloads).watch] ELSE config
    /\ ReArm(Head(reloads).ok)
    /\ UNCHANGED <<paneV, file, good, abandoned>>

\* Panes and reload share nothing but the quit.
ShPanes ==
    \/ (\E b \in BOOLEAN : Spawn(b)) \/ (\E p \in Live : ClosePaneMsg(p) \/ WorkChanges(p))
    \/ (\E i \in DOMAIN tabs : MoveFocus(i)) \/ OtherKey \/ BeginQuit
ShReload == (\E o, w \in BOOLEAN : EditFile(o, w)) \/ Debounced \/ OnReload \/ BeginQuit

ShSpec == ShInit /\ [][ShPanes \/ ShReload]_shVars

----------------------------------------------------------------------------
(* Properties.                                                             *)

\* update.go: until it quits the shell always has a pane to be on, exactly one
\* pane believes it has the keyboard, and that is the tab keys are routed to.
OneFocus == ~quitting => focused \in DOMAIN tabs /\ hasFocus = {tabs[focused]}

\* Tabs.Remove: closing another pane, wherever its tab is, moves the keyboard to
\* no other pane.
KeyboardStays ==
    \A p \in Live : (p \notin Live' /\ p \notin hasFocus /\ ~quitting') => hasFocus' = hasFocus

\* onReload: the config in use is always one that loaded and validated.
LastGoodConfig == config.ver \in good

\* While the config asks for it, the file is watched or a reload is on its way:
\* no failed load, bad edit or failing watcher ends hot reload.
ReloadAlive == config.watch => (watcher # "none") # (reloads # <<>>)

ShellStep == OneFocus' /\ LastGoodConfig' /\ ReloadAlive' /\ KeyboardStays

\* The keyboard is on one pane and stays there, and hot reload survives failures.
ShellSound == [][ShellStep]_shVars

\* The inductive invariant of ShellSound: tabs are apart, and what a reload or the
\* file calls valid is.
TabsApart ==
    /\ spawns \in Nat /\ tabs \in Seq(1..spawns) /\ focused \in Nat
    /\ \A i, j \in DOMAIN tabs : tabs[i] = tabs[j] => i = j

ReloadType ==
    /\ file \in [ver : Nat, ok : BOOLEAN, watch : BOOLEAN]
    /\ watcher \in {"none", "idle", "noted"} /\ Len(reloads) \in {0, 1}
    /\ reloads \in Seq([ver : Nat, ok : BOOLEAN, watch : BOOLEAN])
    /\ file.ok => file.ver \in good
    /\ \A i \in DOMAIN reloads : reloads[i].ok => reloads[i].ver \in good

ShInv == TabsApart /\ OneFocus /\ ReloadType /\ LastGoodConfig /\ ReloadAlive
=============================================================================
