-------------------------------- MODULE MCOps --------------------------------
(***************************************************************************)
(* The operator's terminal tool and the device on its cable, for TLC: the  *)
(* device's recovery guard, wakes and key-value store; the serial console, *)
(* flashing and its write set, the shell's panes and its reload, the host  *)
(* registry, the log tail, the OTA pane and the telemetry pane.  They      *)
(* share no state the models keep, so a behaviour exercises one of them,   *)
(* chosen initially.                                                       *)
(***************************************************************************)
EXTENDS BootGuard, KvStore, Wake, Console, Flash, OpsOta, FleetPane,
        Shell, Hosts, LogTail, WriteGuard

VARIABLE part

otaVars == <<otaDb, otaCmds, issued, otaTick, otaV, otherOps, answered>>
fleetVars == <<reporting, fleetOps, telCmds, telPolls, spawnArg, telTick, telV>>
devV == <<wakeVars, storeVars, guardVars>>
opsVars == <<part, unpack, vars, devV, conVars, flVars, shVars, hoVars, ltVars, otaVars, fleetVars>>

\* A part that is not exercised starts in one state.
OpsInit ==
  /\ part \in {"guard", "console", "flash", "panes", "reload", "hosts", "logs", "ota", "fleet",
              "wake", "store", "writeset"}
  /\ Init /\ (part # "guard" => image = CHOOSE i \in Image : TRUE)
  /\ ConInit /\ (part # "console" => device = "ok")
  /\ FlInit /\ ShInit /\ HoInit /\ LtInit
  /\ OtInit /\ (part # "ota" => \A s \in DOMAIN otaDb.targets : otaDb.targets[s] = NoRow)
  /\ (part \notin {"ota", "fleet"} => unpack = CHOOSE u \in Unpacks : TRUE)
  /\ TpInit /\ (part # "fleet" => reporting = {} /\ spawnArg.pc = "none")
  /\ WakeInit
  /\ (part # "wake" => lbNvs = [on |-> TRUE, arm |-> 1, clr |-> 3, rise |-> 1, streak |-> 1])
  /\ KvInit
  /\ WgInit
  /\ (part # "writeset" =>
        ~erases /\ \A i \in DOMAIN artifacts : artifacts[i] = [off |-> 0, size |-> 1])

OpsNext ==
  \/ part = "guard" /\ Next
     /\ UNCHANGED <<devV, conVars, flVars, shVars, hoVars, ltVars, otaVars, fleetVars, unpack, part>>
  \/ part = "console" /\ ConNext
     /\ UNCHANGED <<vars, devV, flVars, shVars, hoVars, ltVars, otaVars, fleetVars, unpack, part>>
  \/ part = "flash" /\ FlNext
     /\ UNCHANGED <<vars, devV, conVars, shVars, hoVars, ltVars, otaVars, fleetVars, unpack, part>>
  \/ ((part = "panes" /\ ShPanes) \/ (part = "reload" /\ ShReload))
     /\ UNCHANGED <<vars, devV, conVars, flVars, hoVars, ltVars, otaVars, fleetVars, unpack, part>>
  \/ part = "hosts" /\ HoNext
     /\ UNCHANGED <<vars, devV, conVars, flVars, shVars, ltVars, otaVars, fleetVars, unpack, part>>
  \/ part = "logs" /\ LtNext
     /\ UNCHANGED <<vars, devV, conVars, flVars, shVars, hoVars, otaVars, fleetVars, unpack, part>>
  \/ part = "ota" /\ OtNext
     /\ UNCHANGED <<vars, devV, conVars, flVars, shVars, hoVars, ltVars, fleetVars, part>>
  \/ part = "fleet" /\ TpNext
     /\ UNCHANGED <<vars, devV, conVars, flVars, shVars, hoVars, ltVars, otaVars, part>>
  \/ /\ \/ part = "wake" /\ WakeNext /\ UNCHANGED <<storeVars, guardVars>>
        \/ part = "store" /\ KvNext /\ UNCHANGED <<wakeVars, guardVars>>
        \/ part = "writeset" /\ WgNext /\ UNCHANGED <<wakeVars, storeVars>>
     /\ UNCHANGED <<vars, conVars, flVars, shVars, hoVars, ltVars, otaVars, fleetVars, unpack, part>>

OpsSpec == OpsInit /\ [][OpsNext]_opsVars
=============================================================================
