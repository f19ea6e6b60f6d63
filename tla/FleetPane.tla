------------------------------ MODULE FleetPane ------------------------------
(***************************************************************************)
(* The telemetry pane of picpak-ops (telemetry/pane.go): it polls the      *)
(* fleet on a tick and the selected device when the selection or the poll  *)
(* asks for it, one poll at a time.                                        *)
(* Commands and `unpack' are as in OpsOta.  Devices are numbers, from 1;   *)
(* the order the fleet is listed in is left out.                           *)
(***************************************************************************)
EXTENDS Integers, FiniteSets, UiLoop

CONSTANTS
    FleetDev,        \* devices
    MaxTelPolls, MaxFleetOps   \* bounds: polls, changes of the fleet

ASSUME TpAssumption == 0 \notin FleetDev /\ MaxTelPolls \in Nat

VARIABLES
    reporting,   \* devices with telemetry
    fleetOps,
    telCmds,     \* poll number -> the poll, while outstanding
    telPolls,    \* polls issued
    spawnArg,    \* SpawnArgsMsg: [serial, pc], on its way, taken, or taken late
    telTick, polling, pollErr, fleetRows, selected, detailSerial, devicePolled, telOpen

telV == <<polling, pollErr, fleetRows, selected, detailSerial, devicePolled, telOpen>>
tpVars == <<unpack, reporting, fleetOps, telCmds, telPolls, spawnArg, telTick, telV>>

NoDev == 0
NoPoll == [kind |-> "none", serial |-> NoDev, pc |-> "none", rows |-> {}]
FleetPoll == [NoPoll EXCEPT !.kind = "fleet", !.pc = "run"]
DevicePoll(s) == [NoPoll EXCEPT !.kind = "device", !.pc = "run", !.serial = s]

\* New, Init; the serial a spawn may name follows as a message of its own.
TpInit ==
    /\ unpack \in Unpacks
    /\ reporting \in SUBSET FleetDev /\ fleetOps = 0
    /\ telCmds = [i \in 1..MaxTelPolls |-> IF i = 1 /\ unpack THEN FleetPoll ELSE NoPoll]
    /\ telPolls = (IF unpack THEN 1 ELSE 0) /\ telTick = unpack
    /\ polling = TRUE /\ pollErr = FALSE /\ fleetRows = {} /\ selected = NoDev
    /\ spawnArg \in [serial : FleetDev, pc : {"sent"}] \cup {[serial |-> NoDev, pc |-> "none"]}
    /\ detailSerial = NoDev /\ devicePolled = FALSE /\ telOpen = TRUE

FleetChanges(d) ==
    /\ fleetOps < MaxFleetOps /\ fleetOps' = fleetOps + 1
    /\ reporting' = IF d \in reporting THEN reporting \ {d} ELSE reporting \cup {d}
    /\ UNCHANGED <<unpack, spawnArg, telCmds, telPolls, telTick, telV>>

\* LatestFleet: a row for every device that reported; order and figures are left out.
LatestFleet == reporting

\* pollFleetCmd, pollDeviceCmd, beside the loop.
RunPoll(i, ok) ==
    /\ telCmds[i].pc = "run"
    /\ telCmds' = [telCmds EXCEPT ![i].pc = IF ok THEN "ok" ELSE "err",
                                  ![i].rows = IF ok /\ telCmds[i].kind = "fleet" THEN LatestFleet ELSE {}]
    /\ UNCHANGED <<unpack, reporting, fleetOps, spawnArg, telPolls, telTick, telV>>

\* Poll i, answered, is taken off and p, if any, is issued.
Replace(i, p) ==
    /\ p # NoPoll => telPolls < MaxTelPolls
    /\ telCmds' = [j \in DOMAIN telCmds |-> IF j = i THEN NoPoll
                                            ELSE IF p # NoPoll /\ j = telPolls + 1 THEN p ELSE telCmds[j]]
    /\ telPolls' = IF p # NoPoll THEN telPolls + 1 ELSE telPolls

\* maybePollDevice; stale: the interval since the last device poll has passed.
MaybePollDevice(busy, sel, det, stale) ==
    IF busy \/ sel = NoDev \/ (det = sel /\ ~(stale /\ devicePolled)) THEN NoPoll ELSE DevicePoll(sel)

\* The pane's flags after it answered message i and issued p.
Settle(i, p, open) ==
    /\ Replace(i, IF open THEN p ELSE NoPoll)
    /\ polling' = (IF open THEN p # NoPoll ELSE polling)
    /\ devicePolled' = (devicePolled \/ (open /\ p.kind = "device"))

\* syncSelected; the cursor is the selected row, or where it was.
SyncSelected(rows) == IF rows = {} \/ selected \in rows THEN {selected} ELSE rows

OnFleet(i, stale) ==
    /\ telCmds[i].kind = "fleet" /\ telCmds[i].pc = "ok"
    /\ \E sel \in SyncSelected(telCmds[i].rows) :
         /\ Settle(i, MaybePollDevice(FALSE, sel, detailSerial, stale), telOpen)
         /\ IF telOpen THEN /\ fleetRows' = telCmds[i].rows /\ pollErr' = FALSE /\ selected' = sel
                       ELSE UNCHANGED <<fleetRows, pollErr, selected>>
    /\ UNCHANGED <<unpack, reporting, fleetOps, spawnArg, telTick, detailSerial, telOpen>>

\* Mutant of OnDevice: nothing is polled for a selection that moved on meanwhile.
OnDeviceFinal(i, stale) ==
    /\ telCmds[i].kind = "device" /\ telCmds[i].pc = "ok"
    /\ LET det == IF telCmds[i].serial = selected THEN selected ELSE detailSerial IN
       /\ Settle(i, NoPoll, telOpen)
       /\ detailSerial' = IF telOpen THEN det ELSE detailSerial
    /\ pollErr' = (pollErr /\ ~telOpen)
    /\ UNCHANGED <<unpack, reporting, fleetOps, spawnArg, telTick, fleetRows, selected, telOpen>>

OnDevice(i, stale) ==
    /\ telCmds[i].kind = "device" /\ telCmds[i].pc = "ok"
    /\ LET det == IF telCmds[i].serial = selected THEN selected ELSE detailSerial IN
       /\ Settle(i, MaybePollDevice(FALSE, selected, det, stale), telOpen)
       /\ detailSerial' = IF telOpen THEN det ELSE detailSerial
    /\ pollErr' = (pollErr /\ ~telOpen)
    /\ UNCHANGED <<unpack, reporting, fleetOps, spawnArg, telTick, fleetRows, selected, telOpen>>

OnPollErr(i) ==
    /\ telCmds[i].pc = "err" /\ Settle(i, NoPoll, telOpen) /\ pollErr' = (pollErr \/ telOpen)
    /\ UNCHANGED <<unpack, reporting, fleetOps, spawnArg, telTick, fleetRows, selected, detailSerial, telOpen>>

\* Mutant of Due: the tick polls although a poll is outstanding.
DueAlways(elapsed) == elapsed

Due(elapsed) == elapsed /\ ~polling

\* onTick: the tick, and with it a fleet poll when one is due, as one batch.
OnTelTick(elapsed) ==
    /\ telTick /\ telOpen
    /\ IF ~Due(elapsed) THEN UNCHANGED <<telCmds, telPolls, telTick, polling>>
       ELSE /\ polling' = TRUE /\ telTick' = unpack
            /\ Replace(0, IF unpack THEN FleetPoll ELSE NoPoll)
    /\ UNCHANGED <<unpack, reporting, fleetOps, spawnArg, pollErr, fleetRows, selected, detailSerial, devicePolled, telOpen>>

RefreshFleet ==
    /\ telOpen /\ ~polling /\ polling' = TRUE /\ Replace(0, FleetPoll)
    /\ UNCHANGED <<unpack, reporting, fleetOps, spawnArg, telTick, pollErr, fleetRows, selected, detailSerial, devicePolled, telOpen>>

\* moveCursor; rows that do not hold the selection any more keep the cursor.
MoveCursor(d, stale) ==
    /\ telOpen /\ d \in fleetRows
    /\ selected' = d
    /\ LET p == MaybePollDevice(polling, d, detailSerial, stale) IN
       /\ Replace(0, p) /\ polling' = (polling \/ p # NoPoll)
       /\ devicePolled' = (devicePolled \/ p # NoPoll)
    /\ UNCHANGED <<unpack, reporting, fleetOps, spawnArg, telTick, pollErr, fleetRows, detailSerial, telOpen>>

OnSpawnArgs ==
    /\ spawnArg.pc = "sent"
    /\ spawnArg' = [spawnArg EXCEPT !.pc = IF polling THEN "taken" ELSE "late"]
    /\ selected' = IF telOpen THEN spawnArg.serial ELSE selected
    /\ UNCHANGED <<unpack, reporting, fleetOps, telCmds, telPolls, telTick, polling, pollErr, fleetRows,
                   detailSerial, devicePolled, telOpen>>

TelClose ==
    /\ telOpen /\ telOpen' = FALSE /\ polling' = FALSE
    /\ UNCHANGED <<unpack, reporting, fleetOps, spawnArg, telCmds, telPolls, telTick, pollErr, fleetRows, selected,
                   detailSerial, devicePolled>>

TpNext ==
    \/ \E i \in 1..MaxTelPolls, b \in BOOLEAN : RunPoll(i, b) \/ OnFleet(i, b) \/ OnDevice(i, b)
    \/ (\E i \in 1..MaxTelPolls : OnPollErr(i))
    \/ (\E b \in BOOLEAN : OnTelTick(b)) \/ RefreshFleet \/ OnSpawnArgs \/ TelClose
    \/ (\E d \in fleetRows, b \in BOOLEAN : MoveCursor(d, b))
    \/ (\E d \in FleetDev : FleetChanges(d))

TpSpec == TpInit /\ [][TpNext]_tpVars

----------------------------------------------------------------------------
(* Properties.                                                             *)

Outstanding == {i \in DOMAIN telCmds : telCmds[i] # NoPoll}

\* pane.go: polls never stack up: one is outstanding at most, whatever ticks, keys
\* and answers come, and while it is the pane says so.
OnePoll == telOpen => (Cardinality(Outstanding) <= 1 /\ (Outstanding # {} => polling))

\* pane.go: once no poll is under way and none has failed, the detail shown is the
\* selected device's, however often the selection moved while polls were answered.
\* Excepted is the serial a spawn names, when it comes after the first answer.
DetailFollows ==
    (telOpen /\ ~polling /\ ~pollErr /\ fleetRows # {}) =>
        detailSerial = selected \/ (spawnArg.pc = "late" /\ spawnArg.serial = selected)

\* One poll at a time, and the detail follows the selection.
PollsSound == OnePoll /\ DetailFollows

----------------------------------------------------------------------------
(* The inductive invariant.                                                *)

Poll == [kind : {"fleet", "device"}, serial : FleetDev \cup {NoDev}, pc : {"run", "ok", "err"},
         rows : SUBSET FleetDev]
TpType ==
    /\ unpack \in BOOLEAN /\ reporting \in SUBSET FleetDev /\ telPolls \in Nat
    /\ telCmds \in [1..MaxTelPolls -> Poll \cup {NoPoll}]
    /\ \A i \in 1..MaxTelPolls : i > telPolls => telCmds[i] = NoPoll
    /\ polling \in BOOLEAN /\ pollErr \in BOOLEAN /\ telOpen \in BOOLEAN
    /\ fleetRows \in SUBSET FleetDev /\ selected \in FleetDev \cup {NoDev}
    /\ spawnArg \in [serial : FleetDev, pc : {"sent", "taken", "late"}] \cup {[serial |-> NoDev, pc |-> "none"]}

\* A fleet that is shown has a row selected.
RowSelected == fleetRows # {} => selected # NoDev
SinglePoll == telOpen => /\ \A i, j \in Outstanding : i = j
                         /\ Outstanding # {} => polling

TpInv == TpType /\ RowSelected /\ SinglePoll /\ DetailFollows
=============================================================================
