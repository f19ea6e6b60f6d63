------------------------------- MODULE Rollout -------------------------------
(***************************************************************************)
(* Firmware rollouts: internal/rollout, rolloutadmin and ota_http.go on    *)
(* the operator's side; the signal, the ticket and the download of         *)
(* ingestcore/ota.go and otaticket on the device's.                        *)
(* Every query is a step of its own.  A firmware file is named by its      *)
(* hash, so a file is its contents; tickets cannot be forged, and one      *)
(* carries serial, version and expiry.  Serving is switched on, the key    *)
(* is strong (otaArmed).                                                   *)
(***************************************************************************)
EXTENDS Integers, FiniteSets

CONSTANTS Gadget, Chan, Ver, File,
          TicketTTL,
          MaxNow, MaxActs  \* bounds on the clock and on operator requests

Fleet == "*"
NoVer == 0
NoFile == "none"
Serials == Gadget \cup {Fleet}
NoTarget == [ver |-> NoVer, state |-> "none"]

(* otaTicketTTL refuses a duration that is not positive. *)
ASSUME RolAssumption ==
  /\ NoVer \notin Ver /\ NoFile \notin File /\ "gone" \notin Chan /\ Fleet \notin Gadget
  /\ TicketTTL \in Nat \ {0}

VARIABLES
  time,
  chan,      \* Gadget -> its channel, "gone" if it has no row
  fw,        \* Ver -> the file of its firmware_versions row
  files,     \* files on disk
  acked,     \* history: versions whose registration was answered 200
  targets,   \* Serials \X Chan -> rollout_targets row
  dflt,      \* Chan -> channels.default_version
  upsert,    \* an upsertRollout past its check
  pollOf,    \* Gadget -> a poll inside ResolveTarget
  ticket,    \* Gadget -> the ticket it holds
  got,       \* Gadget -> the download it made last
  wanted,    \* history: Gadget -> Ver -> last time a row in effect named it
  ghost,     \* history: slots written by an upsert whose check was stale
  acts

rolVars == <<time, chan, fw, files, acked, targets, dflt, upsert, pollOf, ticket, got, wanted,
             ghost, acts>>
dbVars == <<chan, fw, files, acked, targets, dflt, ghost>>

IdlePoll == [pc |-> "idle", ch |-> "gone", ts |-> [s \in {} |-> NoTarget], began |-> 0]
NoTicket == [ver |-> NoVer, exp |-> 0, began |-> 0]
NoUpsert == [serial |-> "none", ch |-> "gone", ver |-> NoVer]

(* A row for the device's channel, or for the one a poll of it found it in.*)
Names(d, v) == \E c \in {chan[d], pollOf[d].ch} \cap Chan :
                 dflt[c] = v \/ \E s \in {d, Fleet} : targets[<<s, c>>] = [ver |-> v, state |-> "active"]
(* What is in effect after the step, noted at its time. *)
Note == wanted' = [d \in Gadget |-> [v \in Ver |-> IF Names(d, v)' THEN time' ELSE wanted[d][v]]]

RolInit ==
  /\ time = 0 /\ acts = 0
  /\ chan \in {[d \in Gadget |-> c] : c \in Chan}
  /\ fw = [v \in Ver |-> NoFile] /\ files = {} /\ acked = {}
  /\ targets = [s \in Serials \X Chan |-> NoTarget] /\ dflt = [c \in Chan |-> NoVer]
  /\ upsert = NoUpsert /\ ghost = {}
  /\ pollOf = [d \in Gadget |-> IdlePoll] /\ ticket = [d \in Gadget |-> NoTicket]
  /\ got = [d \in Gadget |-> [ver |-> NoVer, file |-> NoFile, at |-> 0]]
  /\ wanted = [d \in Gadget |-> [v \in Ver |-> -1]]

Act == acts < MaxActs /\ acts' = acts + 1
GadgetIdle == UNCHANGED <<pollOf, ticket, got>>

-----------------------------------------------------------------------------
(* registerFirmware: the row first - a version is never overwritten ...    *)
RegisterFirmware(v, f) == fw[v] = NoFile /\ fw' = [fw EXCEPT ![v] = f]
PostFirmware(v, f) ==
  /\ Act /\ RegisterFirmware(v, f)
  /\ UNCHANGED <<time, chan, files, acked, targets, dflt, upsert, ghost>> /\ GadgetIdle /\ Note

(* Mutant of WriteBlobAtomic: the answer does not wait for the file. *)
WriteBlobAtomicLate(v, ok) ==
  /\ fw[v] # NoFile /\ v \notin acked
  /\ acked' = acked \cup {v}
  /\ files' = IF ok THEN files \cup {fw[v]} ELSE files
  /\ UNCHANGED <<time, chan, fw, targets, dflt, upsert, ghost, acts>> /\ GadgetIdle /\ Note

(* ... then the file, by rename.  If that fails the row stays, the answer  *)
(* is 500, and a retry is refused as a duplicate.                          *)
WriteBlobAtomic(v, ok) ==
  /\ fw[v] # NoFile /\ v \notin acked
  /\ IF ok THEN acked' = acked \cup {v} /\ files' = files \cup {fw[v]}
           ELSE UNCHANGED <<acked, files>>
  /\ UNCHANGED <<time, chan, fw, targets, dflt, upsert, ghost, acts>> /\ GadgetIdle /\ Note

(* setChannelDefault; a foreign key refuses an unknown version. *)
SetChannelDefault(c, v) == fw[v] # NoFile /\ dflt' = [dflt EXCEPT ![c] = v]
PutChannel(c, v) ==
  /\ Act /\ SetChannelDefault(c, v)
  /\ UNCHANGED <<time, chan, fw, files, acked, targets, upsert, ghost>> /\ GadgetIdle /\ Note

(* upsertRollout: SerialResolvable, then UpsertRollout. *)
SerialResolvable(s) == s = Fleet \/ \E d \in Gadget : s = d /\ chan[d] # "gone"
CheckUpsert(s, c, v) ==
  /\ Act /\ upsert = NoUpsert /\ SerialResolvable(s)
  /\ upsert' = [serial |-> s, ch |-> c, ver |-> v]
  /\ UNCHANGED <<time, dbVars>> /\ GadgetIdle /\ Note

UpsertRollout ==
  /\ upsert # NoUpsert
  /\ IF fw[upsert.ver] # NoFile
     THEN /\ targets' = [targets EXCEPT ![<<upsert.serial, upsert.ch>>] = [ver |-> upsert.ver, state |-> "active"]]
          /\ ghost' = IF SerialResolvable(upsert.serial) THEN ghost
                      ELSE ghost \cup {<<upsert.serial, upsert.ch>>}
     ELSE UNCHANGED <<targets, ghost>>
  /\ upsert' = NoUpsert
  /\ UNCHANGED <<time, chan, fw, files, acked, dflt, acts>> /\ GadgetIdle /\ Note

(* setRolloutState and deleteRollout: 404 without the row.                 *)
SetRolloutState(s, c, st) ==
  targets[<<s, c>>] # NoTarget /\ targets' = [targets EXCEPT ![<<s, c>>].state = st]
PatchRollout(s, c, st) ==
  /\ Act /\ SetRolloutState(s, c, st)
  /\ UNCHANGED <<time, chan, fw, files, acked, dflt, upsert, ghost>> /\ GadgetIdle /\ Note

DeleteRollout(s, c) ==
  targets[<<s, c>>] # NoTarget /\ targets' = [targets EXCEPT ![<<s, c>>] = NoTarget]
DropRollout(s, c) ==
  /\ Act /\ DeleteRollout(s, c)
  /\ UNCHANGED <<time, chan, fw, files, acked, dflt, upsert, ghost>> /\ GadgetIdle /\ Note

(* devicestore.Patch: the device changes channel. *)
Patch(d, c) == chan[d] \notin {"gone", c} /\ chan' = [chan EXCEPT ![d] = c]
PatchDevice(d, c) ==
  /\ Act /\ Patch(d, c)
  /\ UNCHANGED <<time, fw, files, acked, targets, dflt, upsert, ghost>> /\ GadgetIdle /\ Note

(* Mutant of DeleteGadget: the targets, which have no foreign key, stay.   *)
DeleteGadgetAlone(d) ==
  /\ Act /\ chan[d] # "gone" /\ chan' = [chan EXCEPT ![d] = "gone"]
  /\ UNCHANGED <<time, fw, files, acked, targets, dflt, upsert, ghost>> /\ GadgetIdle /\ Note

(* devicestore.Delete takes the device's targets along. *)
DeleteGadget(d) ==
  /\ Act /\ chan[d] # "gone" /\ chan' = [chan EXCEPT ![d] = "gone"]
  /\ targets' = [k \in Serials \X Chan |-> IF k[1] = d THEN NoTarget ELSE targets[k]]
  /\ ghost' = {k \in ghost : k[1] # d}
  /\ UNCHANGED <<time, fw, files, acked, dflt, upsert>> /\ GadgetIdle /\ Note

-----------------------------------------------------------------------------
(* A poll: ResolveTarget's three queries, then the signal.                 *)

ReadChannel(d) ==
  /\ pollOf[d].pc = "idle" /\ chan[d] # "gone"
  /\ pollOf' = [pollOf EXCEPT ![d] = [IdlePoll EXCEPT !.pc = "targets", !.ch = chan[d], !.began = time]]
  /\ UNCHANGED <<time, dbVars, upsert, ticket, got, acts>> /\ Note

ReadTargets(d) ==
  /\ pollOf[d].pc = "targets"
  /\ pollOf' = [pollOf EXCEPT ![d].pc = "default",
                              ![d].ts = [s \in {d, Fleet} |-> targets[<<s, pollOf[d].ch>>]]]
  /\ UNCHANGED <<time, dbVars, upsert, ticket, got, acts>> /\ Note

(* Mutant of ResolveRollout: a row stops the walk although it is paused. *)
ResolveAnyState(d, ts, def) ==
  IF ts[d] # NoTarget THEN ts[d].ver
  ELSE IF ts[Fleet].state = "active" THEN ts[Fleet].ver
  ELSE def

(* ResolveRollout: per serial, then fleet, active rows only, then the default.    *)
ResolveRollout(d, ts, def) ==
  IF ts[d].state = "active" THEN ts[d].ver
  ELSE IF ts[Fleet].state = "active" THEN ts[Fleet].ver
  ELSE def

(* ReadDefault and injectOTASignal: the version header and a ticket for    *)
(* it, or neither.                                                         *)
InjectOTASignal(d) ==
  /\ pollOf[d].pc = "default"
  /\ LET v == ResolveRollout(d, pollOf[d].ts, dflt[pollOf[d].ch]) IN
     ticket' = IF v = NoVer THEN ticket
               ELSE [ticket EXCEPT ![d] = [ver |-> v, exp |-> time + TicketTTL, began |-> pollOf[d].began]]
  /\ pollOf' = [pollOf EXCEPT ![d] = IdlePoll]
  /\ UNCHANGED <<time, dbVars, upsert, got, acts>> /\ Note

(* Mutant of Verify: a ticket does not run out. *)
VerifyForever(t) == t.ver # NoVer

(* otaticket.Verify. *)
Verify(t) == t.ver # NoVer /\ time < t.exp

(* handleFirmware: the ticket's version, by its row and file; 500 if the   *)
(* file is missing.                                                        *)
HandleFirmware(d) ==
  /\ Verify(ticket[d]) /\ fw[ticket[d].ver] \in files
  /\ got' = [got EXCEPT ![d] = [ver |-> ticket[d].ver, file |-> fw[ticket[d].ver], at |-> time]]
  /\ UNCHANGED <<time, dbVars, upsert, pollOf, ticket, acts>> /\ Note

Elapse ==
  /\ time < MaxNow /\ time' = time + 1
  /\ UNCHANGED <<dbVars, upsert, acts>> /\ GadgetIdle /\ Note

RolNext ==
  \/ \E v \in Ver : (\E f \in File : PostFirmware(v, f)) \/ \E ok \in BOOLEAN : WriteBlobAtomic(v, ok)
  \/ \E c \in Chan, v \in Ver : PutChannel(c, v) \/ \E s \in Serials : CheckUpsert(s, c, v)
  \/ \E s \in Serials, c \in Chan : DropRollout(s, c)
       \/ \E st \in {"active", "paused", "done"} : PatchRollout(s, c, st)
  \/ UpsertRollout \/ Elapse
  \/ \E d \in Gadget : \/ \E c \in Chan : PatchDevice(d, c)
                       \/ DeleteGadget(d) \/ ReadChannel(d) \/ ReadTargets(d)
                       \/ InjectOTASignal(d) \/ HandleFirmware(d)

RolSpec == RolInit /\ [][RolNext]_rolVars

-----------------------------------------------------------------------------
(* A version that was answered 200 can be downloaded: its file is there,   *)
(* whatever other registrations of the same bytes failed.                  *)
RegisteredServes == \A v \in acked : fw[v] \in files

(* A rollout that is paused, deleted or replaced stops within the life of  *)
(* a ticket, counted from the poll: what a device downloads was in effect  *)
(* for it when that poll began or later, on the channel it then had (the   *)
(* queries of ResolveTarget are no snapshot: one patched to another        *)
(* channel may still be offered what the old one is given meanwhile).      *)
StopsWithinTicket ==
  \A d \in Gadget : ticket[d].ver # NoVer =>
    /\ wanted[d][ticket[d].ver] >= ticket[d].began
    /\ got[d].ver = ticket[d].ver => got[d].at < ticket[d].exp \/ got[d].at < ticket[d].began

(* What a poll offers comes from the most specific tier that is active:    *)
(* nothing but the device's own active row overrides the fleet's, nothing  *)
(* but an active row the default, and a paused row hides nothing.          *)
Tier(d, c, v) == IF targets[<<d, c>>] = [ver |-> v, state |-> "active"] THEN 1
                 ELSE IF targets[<<Fleet, c>>] = [ver |-> v, state |-> "active"] THEN 2
                 ELSE IF dflt[c] = v THEN 3 ELSE 4
MostSpecific ==
  \A d \in Gadget, c \in Chan :
    LET v == ResolveRollout(d, [s \in {d, Fleet} |-> targets[<<s, c>>]], dflt[c]) IN
    /\ v # NoVer => Tier(d, c, v) < 4
    /\ \A w \in Ver : IF v = NoVer THEN Tier(d, c, w) = 4 ELSE Tier(d, c, v) <= Tier(d, c, w)

(* Only an upsert overtaken by the device's deletion leaves a target for a *)
(* serial that is not registered.                                          *)
NoOrphanTarget ==
  \A d \in Gadget, c \in Chan :
    targets[<<d, c>>] # NoTarget => chan[d] # "gone" \/ <<d, c>> \in ghost

\* A device is served the version meant for it, while it is meant for it, and the
\* version can be served.
RolloutSound ==
  /\ StopsWithinTicket /\ MostSpecific /\ RegisteredServes /\ NoOrphanTarget

-----------------------------------------------------------------------------
(* What the proof of RolloutSound rests on.                                *)

Target == [ver : Ver \cup {NoVer}, state : {"none", "active", "paused", "done"}]
Poll == [pc : {"idle", "targets", "default"}, ch : Chan \cup {"gone"},
         ts : UNION {[S -> Target] : S \in SUBSET Serials}, began : Nat]

RolType ==
  /\ time \in Nat /\ chan \in [Gadget -> Chan \cup {"gone"}]
  /\ fw \in [Ver -> File \cup {NoFile}] /\ files \subseteq File /\ acked \subseteq Ver
  /\ targets \in [Serials \X Chan -> Target] /\ dflt \in [Chan -> Ver \cup {NoVer}]
  /\ upsert \in [serial : Serials, ch : Chan, ver : Ver] \cup {NoUpsert}
  /\ pollOf \in [Gadget -> Poll]
  /\ ticket \in [Gadget -> [ver : Ver \cup {NoVer}, exp : Nat, began : Nat]]
  /\ got \in [Gadget -> [ver : Ver \cup {NoVer}, file : File \cup {NoFile}, at : Nat]]
  /\ wanted \in [Gadget -> [Ver -> Int]]

(* A row names a version. *)
TargetInv == \A k \in Serials \X Chan : targets[k] # NoTarget => targets[k].ver \in Ver

(* What is in effect has been noted. *)
NotedInv == \A d \in Gadget, v \in Ver :
              wanted[d][v] <= time /\ (Names(d, v) => wanted[d][v] = time)

(* What a poll has read was in effect since it began. *)
PollInv ==
  \A d \in Gadget : pollOf[d].pc # "idle" =>
    /\ pollOf[d].ch \in Chan /\ pollOf[d].began <= time
    /\ pollOf[d].pc = "default" =>
         \A s \in {d, Fleet} : LET t == pollOf[d].ts[s] IN
           t.state = "active" => t.ver \in Ver /\ wanted[d][t.ver] >= pollOf[d].began

GotInv == \A d \in Gadget : got[d].at <= time

RolInv == RolType /\ TargetInv /\ NotedInv /\ PollInv /\ GotInv
          /\ StopsWithinTicket /\ RegisteredServes /\ NoOrphanTarget
=============================================================================
