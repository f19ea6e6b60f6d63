------------------------------- MODULE OpsOta -------------------------------
(***************************************************************************)
(* The OTA pane of picpak-ops (ota/model.go, update.go, cmds.go), its      *)
(* reads (store.go, resolve.go) and its direct writer (writer_pgx.go).     *)
(*                                                                         *)
(* A command the pane returns runs beside the UI loop and its message      *)
(* comes back, in any order, addressed to the pane (app/router.go).  What  *)
(* the UI library does with a batch of commands inside an addressed        *)
(* message is not in this repository: `unpack' says whether it runs them.  *)
(* One channel; a device's row is (serial, channel), "*" the fleet's.      *)
(***************************************************************************)
EXTENDS Integers, Sequences, FiniteSets, UiLoop

CONSTANTS
    OtaDev,          \* devices in the fleet
    OtaVer,          \* versions, from 1
    Registered,      \* versions that are registered when the pane opens
    MaxCmds, MaxOther  \* bounds: commands issued, changes made by others

ASSUME OtAssumption == 0 \notin OtaVer \cup Registered /\ MaxCmds \in Nat

VARIABLES
    otaDb,       \* [fw, blob, targets, dflt]: firmware rows and files, rollouts
    otaCmds,     \* outstanding commands, by number
    issued,      \* commands issued
    otaTick,     \* a tick is under way
    inFlight, loadErr, otaForm, otaShown, otaOpen,   \* the pane
    otherOps,
    answered     \* history: a result has come

otaV == <<inFlight, loadErr, otaForm, otaShown, otaOpen>>
otVars == <<unpack, otaDb, otaCmds, issued, otaTick, otaV, otherOps, answered>>

AllDevices == "*"
NoRow == [ver |-> 0, state |-> "none", pinned |-> FALSE]
NotShown == [dflt |-> -1, targets |-> [s \in OtaDev \cup {AllDevices} |-> NoRow]]
NoCmd == [kind |-> "none"]
Cmd(k, s, v) == [kind |-> k, serial |-> s, ver |-> v, pc |-> "run", dflt |-> 0, targets |-> NotShown.targets]
Load == Cmd("load", "none", 0)

\* Commands handed to the loop on their own, and two of them as a batch.
Issue(c) == issued < MaxCmds /\ issued' = issued + 1 /\ otaCmds' = [otaCmds EXCEPT ![issued + 1] = c]
IssueWithTick(c) ==
    IF unpack THEN Issue(c) /\ otaTick' = TRUE
    ELSE UNCHANGED <<issued, otaCmds>> /\ otaTick' = FALSE

\* Rows an operator may have left.
InitRows == {NoRow} \cup [ver : Registered, state : {"paused"}, pinned : {TRUE}]

\* New, Init: the first load and the tick, in one batch.
OtInit ==
    /\ unpack \in Unpacks
    /\ \E rows \in [OtaDev \cup {AllDevices} -> InitRows] :
         otaDb = [fw |-> Registered, blob |-> Registered, targets |-> rows, dflt |-> 0]
    /\ otaCmds = [i \in 1..MaxCmds |-> IF i = 1 /\ unpack THEN Load ELSE NoCmd]
    /\ issued = IF unpack THEN 1 ELSE 0
    /\ otaTick = unpack
    /\ inFlight = TRUE /\ loadErr = FALSE /\ otaForm = "none" /\ otaShown = NotShown /\ otaOpen = TRUE
    /\ otherOps = 0 /\ answered = FALSE

----------------------------------------------------------------------------
(* Commands.                                                               *)

Done(i, c) == otaCmds' = [otaCmds EXCEPT ![i] = c]
Running(i, k) == otaCmds[i].kind = k /\ otaCmds[i].pc = "run"

\* Store.Load: queries of their own, no snapshot.
RunLoad(i, ok) ==
    /\ otaCmds[i].kind = "load" /\ otaCmds[i].pc \in {"run", "rollouts"}
    /\ IF ~ok THEN Done(i, [otaCmds[i] EXCEPT !.pc = "err"])
       ELSE IF otaCmds[i].pc = "run" THEN Done(i, [otaCmds[i] EXCEPT !.pc = "rollouts", !.dflt = otaDb.dflt])
       ELSE Done(i, [otaCmds[i] EXCEPT !.pc = "ok", !.targets = otaDb.targets])
    /\ UNCHANGED <<unpack, otaDb, issued, otaTick, otaV, otherOps, answered>>

ScanArtifact(i) ==
    /\ Running(i, "scan") /\ Done(i, [otaCmds[i] EXCEPT !.pc = "ok"])
    /\ UNCHANGED <<unpack, otaDb, issued, otaTick, otaV, otherOps, answered>>

\* Mutant of PlaceBlob: an error of the copy is not returned.
PlaceBlobAnyway(v, fits) == [blob |-> IF fits THEN otaDb.blob \cup {v} ELSE otaDb.blob, ok |-> TRUE]

\* placeBlob: the file is written in place, before the row.
PlaceBlob(v, fits) == [blob |-> IF fits THEN otaDb.blob \cup {v} ELSE otaDb.blob, ok |-> fits]

\* registerFirmware in its transaction; a version that exists is refused.
RegisterFirmware(i, fits) ==
    /\ Running(i, "register")
    /\ LET v == otaCmds[i].ver
           p == PlaceBlob(v, fits)
           new == p.ok /\ v \notin otaDb.fw IN
       /\ otaDb' = [otaDb EXCEPT !.blob = p.blob, !.fw = IF new THEN @ \cup {v} ELSE @]
       /\ Done(i, [otaCmds[i] EXCEPT !.pc = IF new THEN "ok" ELSE "err"])
    /\ UNCHANGED <<unpack, issued, otaTick, otaV, otherOps, answered>>

\* PinRollout: the upsert makes the row active; an unknown version is refused.
PinRollout(i) ==
    /\ otaCmds[i].kind \in {"pin", "unpin"} /\ otaCmds[i].pc = "run"
    /\ LET c == otaCmds[i] IN
       IF c.ver \in otaDb.fw
       THEN /\ otaDb' = [otaDb EXCEPT !.targets[c.serial] =
                           [ver |-> c.ver, state |-> "active", pinned |-> c.kind = "pin"]]
            /\ Done(i, [c EXCEPT !.pc = "ok"])
       ELSE UNCHANGED otaDb /\ Done(i, [c EXCEPT !.pc = "err"])
    /\ UNCHANGED <<unpack, issued, otaTick, otaV, otherOps, answered>>

SetChannelDefault(i) ==
    /\ Running(i, "channel")
    /\ IF otaCmds[i].ver \in otaDb.fw
       THEN otaDb' = [otaDb EXCEPT !.dflt = otaCmds[i].ver] /\ Done(i, [otaCmds[i] EXCEPT !.pc = "ok"])
       ELSE UNCHANGED otaDb /\ Done(i, [otaCmds[i] EXCEPT !.pc = "err"])
    /\ UNCHANGED <<unpack, issued, otaTick, otaV, otherOps, answered>>

\* SetRolloutState, by the row's id.
SetRolloutState(i) ==
    /\ otaCmds[i].kind \in {"paused", "active", "done"} /\ otaCmds[i].pc = "run"
    /\ LET c == otaCmds[i] IN
       IF otaDb.targets[c.serial] # NoRow
       THEN otaDb' = [otaDb EXCEPT !.targets[c.serial].state = c.kind] /\ Done(i, [c EXCEPT !.pc = "ok"])
       ELSE UNCHANGED otaDb /\ Done(i, [c EXCEPT !.pc = "err"])
    /\ UNCHANGED <<unpack, issued, otaTick, otaV, otherOps, answered>>

\* A device is deleted with its row.
DeleteDevice(d) ==
    /\ otherOps < MaxOther /\ otherOps' = otherOps + 1 /\ otaDb.targets[d] # NoRow
    /\ otaDb' = [otaDb EXCEPT !.targets[d] = NoRow]
    /\ UNCHANGED <<unpack, otaCmds, issued, otaTick, otaV, answered>>

----------------------------------------------------------------------------
(* The pane.                                                               *)

\* onTick: the tick again and, when one is due and nothing in flight, a load.
OnTick(due) ==
    /\ otaTick /\ otaOpen
    /\ IF due /\ ~inFlight
       THEN inFlight' = TRUE /\ IssueWithTick(Load)
       ELSE UNCHANGED <<inFlight, issued, otaCmds, otaTick>>
    /\ UNCHANGED <<unpack, otaDb, loadErr, otaForm, otaShown, otaOpen, otherOps, answered>>

\* Mutant of OnState: a failed load leaves the pane busy.
OnStateBusy(i) ==
    /\ otaCmds[i].kind = "load" /\ otaCmds[i].pc \in {"ok", "err"} /\ Done(i, NoCmd)
    /\ inFlight' = (inFlight /\ (~otaOpen \/ otaCmds[i].pc = "err"))
    /\ IF ~otaOpen THEN UNCHANGED <<loadErr, otaShown, answered>>
       ELSE /\ answered' = TRUE /\ loadErr' = (otaCmds[i].pc = "err")
            /\ otaShown' = IF otaCmds[i].pc = "ok"
                             THEN [dflt |-> otaCmds[i].dflt, targets |-> otaCmds[i].targets] ELSE otaShown
    /\ UNCHANGED <<unpack, otaDb, issued, otaTick, otaForm, otaOpen, otherOps>>

\* otaStateMsg, otaErrMsg; a message to a closed pane is dropped by the router.
OnState(i) ==
    /\ otaCmds[i].kind = "load" /\ otaCmds[i].pc \in {"ok", "err"} /\ Done(i, NoCmd)
    /\ inFlight' = (inFlight /\ ~otaOpen)
    /\ IF ~otaOpen THEN UNCHANGED <<loadErr, otaShown, answered>>
       ELSE /\ answered' = TRUE /\ loadErr' = (otaCmds[i].pc = "err")
            /\ otaShown' = IF otaCmds[i].pc = "ok"
                             THEN [dflt |-> otaCmds[i].dflt, targets |-> otaCmds[i].targets] ELSE otaShown
    /\ UNCHANGED <<unpack, otaDb, issued, otaTick, otaForm, otaOpen, otherOps>>

\* onArtifactScanned: for whichever register form is open.
OnArtifactScanned(i) ==
    /\ otaCmds[i].kind = "scan" /\ otaCmds[i].pc = "ok" /\ Done(i, NoCmd)
    /\ otaForm' = IF otaForm = "scanning" THEN "scanned" ELSE otaForm
    /\ UNCHANGED <<unpack, otaDb, issued, otaTick, inFlight, loadErr, otaShown, otaOpen, otherOps, answered>>

\* onWriteResult: a write that worked is followed by a load.
OnWriteResult(i) ==
    /\ otaCmds[i].kind \notin {"none", "load", "scan"} /\ otaCmds[i].pc \in {"ok", "err"}
    /\ LET again == otaOpen /\ otaCmds[i].pc = "ok" IN
       /\ again => issued < MaxCmds
       /\ otaCmds' = [j \in DOMAIN otaCmds |-> IF j = i THEN NoCmd
                                               ELSE IF again /\ j = issued + 1 THEN Load ELSE otaCmds[j]]
       /\ issued' = IF again THEN issued + 1 ELSE issued
       /\ inFlight' = IF otaOpen THEN again ELSE inFlight
    /\ answered' = (answered \/ otaOpen)
    /\ UNCHANGED <<unpack, otaDb, otaTick, loadErr, otaForm, otaShown, otaOpen, otherOps>>

Refresh ==
    /\ otaOpen /\ otaForm = "none" /\ ~inFlight /\ Issue(Load) /\ inFlight' = TRUE
    /\ UNCHANGED <<unpack, otaDb, otaTick, loadErr, otaForm, otaShown, otaOpen, otherOps, answered>>

OpenRegister ==
    /\ otaOpen /\ otaForm = "none" /\ otaForm' = "scanning" /\ Issue(Cmd("scan", "none", 0))
    /\ UNCHANGED <<unpack, otaDb, otaTick, inFlight, loadErr, otaShown, otaOpen, otherOps, answered>>

\* openChannel, openPin.
OpenForm(f) ==
    /\ otaOpen /\ otaForm = "none" /\ otaForm' = f
    /\ UNCHANGED <<unpack, otaDb, otaCmds, issued, otaTick, inFlight, loadErr, otaShown, otaOpen, otherOps, answered>>

Write(c) == Issue(c) /\ inFlight' = TRUE
            /\ UNCHANGED <<unpack, otaDb, otaTick, loadErr, otaShown, otaOpen, otherOps, answered>>

\* formSubmit, or esc; the form takes any serial, "*" for the channel's fleet.
FormSubmit(s, v) ==
    /\ otaOpen /\ otaForm' = "none"
    /\ \/ otaForm = "scanned" /\ s = AllDevices /\ Write(Cmd("register", "none", v))
       \/ otaForm = "channel" /\ s = AllDevices /\ Write(Cmd("channel", "none", v))
       \/ otaForm = "pin" /\ Write(Cmd("pin", s, v))
FormEsc ==
    /\ otaOpen /\ otaForm # "none" /\ otaForm' = "none"
    /\ UNCHANGED <<unpack, otaDb, otaCmds, issued, otaTick, inFlight, loadErr, otaShown, otaOpen, otherOps, answered>>

\* unpinSelected, toggleSelectedState, markSelectedDone: by the row as it was shown.
OnSelected(d) ==
    /\ otaOpen /\ otaForm = "none" /\ otaShown.targets[d] # NoRow /\ UNCHANGED otaForm
    /\ LET r == otaShown.targets[d] IN
       \/ Write(Cmd("unpin", d, r.ver))
       \/ Write(Cmd(IF r.state = "paused" THEN "active" ELSE "paused", d, 0))
       \/ Write(Cmd("done", d, 0))

OtaClose ==
    /\ otaOpen /\ otaOpen' = FALSE /\ inFlight' = FALSE
    /\ UNCHANGED <<unpack, otaDb, otaCmds, issued, otaTick, loadErr, otaForm, otaShown, otherOps, answered>>

OtNext ==
    \/ \E i \in 1..MaxCmds :
         \/ (\E b \in BOOLEAN : RunLoad(i, b) \/ RegisterFirmware(i, b)) \/ ScanArtifact(i)
         \/ PinRollout(i) \/ SetChannelDefault(i) \/ SetRolloutState(i)
         \/ OnState(i) \/ OnArtifactScanned(i) \/ OnWriteResult(i)
    \/ (\E d \in OtaDev : DeleteDevice(d)) \/ (\E b \in BOOLEAN : OnTick(b)) \/ Refresh \/ OpenRegister
    \/ (\E f \in {"channel", "pin"} : OpenForm(f)) \/ FormEsc
    \/ (\E s \in OtaDev \cup {AllDevices}, v \in OtaVer : FormSubmit(s, v))
    \/ (\E d \in OtaDev : OnSelected(d)) \/ OtaClose

----------------------------------------------------------------------------
(* The prediction (resolve.go).                                            *)

Precedence == <<"pinned-serial", "serial", "channel", "default">>

\* Mutant of FindActiveRollout: a paused or finished row counts.
FindAnyRollout(st, s, pinnedOnly) ==
    LET r == st.targets[s] IN IF r # NoRow /\ (pinnedOnly => r.pinned) THEN r.ver ELSE 0

FindActiveRollout(st, s, pinnedOnly) ==
    LET r == st.targets[s] IN IF r.state = "active" /\ (pinnedOnly => r.pinned) THEN r.ver ELSE 0

ResolveStep(step, st, d) ==
    CASE step = "pinned-serial" -> FindActiveRollout(st, d, TRUE)
      [] step = "serial" -> FindActiveRollout(st, d, FALSE)
      [] step = "channel" -> FindActiveRollout(st, AllDevices, FALSE)
      [] step = "default" -> st.dflt

\* Resolve: the first step that yields a version.
PredictTarget(st, d) ==
    LET yields == {k \in DOMAIN Precedence : ResolveStep(Precedence[k], st, d) # 0} IN
    IF yields = {} THEN 0 ELSE ResolveStep(Precedence[CHOOSE k \in yields : \A j \in yields : k <= j], st, d)

\* The backend's own decision (rollout.ResolveTarget) on the same rows.
ServedTarget(st, d) ==
    IF st.targets[d].state = "active" THEN st.targets[d].ver
    ELSE IF st.targets[AllDevices].state = "active" THEN st.targets[AllDevices].ver
    ELSE st.dflt

----------------------------------------------------------------------------
(* Properties.                                                             *)

\* resolve.go: whatever operators pinned, paused, finished or deleted, the target
\* the pane predicts for a device is the one the backend would serve it.
PredictionMatches ==
    otaShown # NotShown => \A d \in OtaDev : PredictTarget(otaShown, d) = ServedTarget(otaShown, d)

\* update.go: once a result has come, a pane that says it is working has a command
\* outstanding that will end that; no failure or order of results wedges it.
BusyIsReal ==
    (otaOpen /\ answered /\ inFlight) => \E i \in DOMAIN otaCmds : otaCmds[i].kind \notin {"none", "scan"}

\* writer_pgx.go: every registered version has its file in the serving directory.
RowHasBlob == otaDb.fw \subseteq otaDb.blob

\* The pane predicts what the backend serves, is busy only with what will end and
\* registers only what can be served.
OtaSound == PredictionMatches /\ BusyIsReal /\ RowHasBlob

\* model.go: "Init issues the first load": unless it is closed, the pane comes to
\* show the tables or an error.
FirstLoadArrives == <>(otaShown # NotShown \/ loadErr \/ ~otaOpen)

\* The loop delivers, the commands end, ticks come.
OtFair ==
    /\ \A i \in 1..MaxCmds :
         /\ WF_otVars((\E b \in BOOLEAN : RunLoad(i, b) \/ RegisterFirmware(i, b)) \/ ScanArtifact(i)
                        \/ PinRollout(i) \/ SetChannelDefault(i) \/ SetRolloutState(i))
         /\ WF_otVars(OnState(i) \/ OnArtifactScanned(i) \/ OnWriteResult(i))
    /\ WF_otVars(\E b \in BOOLEAN : OnTick(b))

OtSpec == OtInit /\ [][OtNext]_otVars /\ OtFair

----------------------------------------------------------------------------
(* The inductive invariant.                                                *)

Versions == OtaVer \cup Registered
Targets == OtaDev \cup {AllDevices}
RolloutRow == {NoRow} \cup [ver : Versions, state : {"active", "paused", "done"}, pinned : BOOLEAN]
Table == [Targets -> RolloutRow]

\* What a command may be: one that registers has a version, one that changes a
\* row names it.
States == {"paused", "active", "done"}
Command == [kind : {"load", "scan", "register", "channel", "pin", "unpin"} \cup States,
            serial : Targets \cup {"none"}, ver : Versions \cup {0},
            pc : {"run", "rollouts", "ok", "err"}, dflt : Versions \cup {0}, targets : Table]
Fits(c) ==
    /\ c \in Command
    /\ c.kind = "register" => c.ver \in Versions
    /\ c.kind \in States \cup {"pin", "unpin"} => c.serial \in Targets
CommandsFit ==
    \A i \in 1..MaxCmds :
        /\ otaCmds[i] = NoCmd \/ Fits(otaCmds[i])
        /\ i > issued => otaCmds[i] = NoCmd

OtType ==
    /\ unpack \in BOOLEAN /\ (otaTick => unpack) /\ issued \in Nat
    /\ DOMAIN otaCmds = 1..MaxCmds
    /\ otaDb \in [fw : SUBSET Versions, blob : SUBSET Versions, targets : Table,
                  dflt : Versions \cup {0}]
    /\ otaShown \in [dflt : Versions \cup {0, -1}, targets : Table]

OtInv == OtType /\ CommandsFit /\ BusyIsReal /\ RowHasBlob
=============================================================================
