------------------------------ MODULE WriteGuard ------------------------------
(***************************************************************************)
(* What esptool may write (flash/writeset.go, flash/esptool.go and the     *)
(* rules of config/validate.go): the write set is resolved from the        *)
(* configured artifacts, refused if it touches the factory NVS region or   *)
(* the command line carries an erase verb, and written in its order.       *)
(* Offsets and sizes count flash blocks.  A build may replace the files    *)
(* between the moment their sizes are taken and the moment they are        *)
(* written.                                                                *)
(***************************************************************************)
EXTENDS Integers, Sequences, FiniteSets

CONSTANTS NumArtifacts, \* build.artifacts lists this many
          MaxBlock,     \* offsets are 0..MaxBlock
          MaxSize,      \* file sizes are 1..MaxSize blocks
          NvsStart, NvsLen,
          MaxRebuilds   \* bound

ASSUME WgAssumption ==
  /\ NumArtifacts \in Nat \ {0} /\ MaxBlock \in Nat /\ MaxSize \in Nat
  /\ NvsStart \in Nat /\ NvsLen \in Nat

VARIABLES artifacts,    \* the configured [off, size], size being that of the file now
          erases,       \* flash.extra_args holds an erase verb
          writeSet,     \* the resolved entries [off, size, file], size 0: stat failed
          guardPc, wrote,       \* entries written completely
          nvsLost,      \* the NVS region has been written or erased
          rebuilds, blind    \* history: a size was unknown or a file changed after it was taken
guardVars == <<artifacts, erases, writeSet, guardPc, wrote, nvsLost, rebuilds, blind>>

Nvs == NvsStart .. (NvsStart + NvsLen - 1)
Blocks(e) == e.off .. (e.off + e.size - 1)

\* Validate and validateCrossField of the configuration: no artifact may start inside NVS.
ConfigValid(as) == \A i \in DOMAIN as : as[i].off \notin Nvs

WgInit ==
  /\ artifacts \in {as \in [1..NumArtifacts -> [off : 0..MaxBlock, size : 1..MaxSize]] : ConfigValid(as)}
  /\ erases \in BOOLEAN
  /\ writeSet = <<>> /\ guardPc = "idle" /\ wrote = 0 /\ nvsLost = FALSE
  /\ rebuilds = 0 /\ blind = FALSE

\* Mutant of ByOffset: the order of the configuration, as in flasher_args.json.
ByOffsetAsGiven(es) == es

\* sort.SliceStable, ascending: the app is last.
Ahead(es, i, j) == es[i].off < es[j].off \/ (es[i].off = es[j].off /\ i < j)
Place(es, j) == Cardinality({i \in DOMAIN es : Ahead(es, i, j)}) + 1
ByOffset(es) == [k \in DOMAIN es |-> es[CHOOSE j \in DOMAIN es : Place(es, j) = k]]

\* An artifact as an entry; its size is unknown if its file could not be read.
Entry(i, known) == [off |-> artifacts[i].off, size |-> IF known THEN artifacts[i].size ELSE 0, file |-> i]

\* BuildWriteSet: every size is taken from the file, or stays unknown.
BuildWriteSet(known) ==
  /\ guardPc = "idle" /\ guardPc' = "built"
  /\ writeSet' = ByOffset([i \in DOMAIN artifacts |-> Entry(i, known[i])])
  /\ blind' = (\E i \in DOMAIN artifacts : ~known[i])
  /\ UNCHANGED <<artifacts, erases, wrote, nvsLost, rebuilds>>

\* Mutant of Overlaps: only where an artifact starts is compared.
OverlapsAtStart(e) == e.off \in Nvs

\* The interval test of ValidateWriteSet; one block when the size is unknown.
Overlaps(e) ==
  LET end == IF e.size > 0 THEN e.off + e.size ELSE e.off + 1
  IN NvsLen > 0 /\ e.off < NvsStart + NvsLen /\ NvsStart < end

\* ValidateWriteSet over the entries and the command line of BuildEsptoolArgv.
ValidateWriteSet ==
  /\ guardPc = "built"
  /\ guardPc' = IF erases \/ \E i \in DOMAIN writeSet : Overlaps(writeSet[i]) THEN "refused" ELSE "writing"
  /\ UNCHANGED <<artifacts, erases, writeSet, wrote, nvsLost, rebuilds, blind>>

\* esptool writes the next entry (external), the file as it is now; an erase verb
\* would be carried out first.
EsptoolWrites ==
  /\ guardPc = "writing" /\ wrote < Len(writeSet)
  /\ nvsLost' = (nvsLost \/ erases \/ Blocks(artifacts[writeSet[wrote + 1].file]) \cap Nvs # {})
  /\ wrote' = wrote + 1
  /\ UNCHANGED <<artifacts, erases, writeSet, guardPc, rebuilds, blind>>

\* The run ends, complete or cut short; the next flash starts over.
EsptoolEnds ==
  /\ guardPc \in {"writing", "refused"} /\ guardPc' = "idle"
  /\ writeSet' = <<>> /\ wrote' = 0
  /\ UNCHANGED <<artifacts, erases, nvsLost, rebuilds, blind>>

\* A build replaces a file.
Rebuild(i, size) ==
  /\ rebuilds < MaxRebuilds /\ rebuilds' = rebuilds + 1
  /\ artifacts' = [artifacts EXCEPT ![i].size = size]
  /\ blind' = (blind \/ guardPc \in {"built", "writing"})
  /\ UNCHANGED <<erases, writeSet, guardPc, wrote, nvsLost>>

WgNext ==
  \/ \E known \in [1..NumArtifacts -> BOOLEAN] : BuildWriteSet(known)
  \/ ValidateWriteSet \/ EsptoolWrites \/ EsptoolEnds
  \/ \E i \in 1..NumArtifacts, size \in 1..MaxSize : Rebuild(i, size)

WgSpec == WgInit /\ [][WgNext]_guardVars

-----------------------------------------------------------------------------
(* Properties *)

\* The factory NVS survives every flash, whatever artifacts and extra arguments are
\* configured: it is written only if a size could not be taken or a file grew after the check.
NvsPreserved == nvsLost' /\ ~nvsLost => blind

\* A flash cut short leaves the app to be written again: when the entry with the highest
\* offset has been started, every other is complete.
AppIsLast ==
  guardPc = "writing" =>
    \A i, j \in DOMAIN writeSet : i <= wrote + 1 /\ writeSet[j].off < writeSet[i].off => j <= wrote

\* A flash spares the factory NVS and, cut short, is seen to be incomplete.
WriteStep == AppIsLast' /\ NvsPreserved
WritesSafe == [][WriteStep]_guardVars

-----------------------------------------------------------------------------
(* The inductive invariant. *)
Artifact == [off : 0..MaxBlock, size : 1..MaxSize]
Resolved == [off : 0..MaxBlock, size : 0..MaxSize, file : 1..NumArtifacts]

WgType ==
  /\ artifacts \in [1..NumArtifacts -> Artifact] /\ erases \in BOOLEAN
  /\ writeSet \in Seq(Resolved) /\ guardPc \in {"idle", "built", "writing", "refused"}
  /\ wrote \in Nat /\ nvsLost \in BOOLEAN /\ blind \in BOOLEAN
  /\ guardPc \in {"idle", "built"} => wrote = 0

\* The write set is in the order it is written in.
Ascending == \A i, j \in DOMAIN writeSet : i < j => writeSet[i].off <= writeSet[j].off

\* What is written was checked, and as it is now unless the run is blind.
Checked ==
  /\ guardPc = "writing" => ~erases /\ \A i \in DOMAIN writeSet : ~Overlaps(writeSet[i])
  /\ guardPc \in {"built", "writing"} /\ ~blind =>
       \A i \in DOMAIN writeSet : LET e == writeSet[i] IN
         e.off = artifacts[e.file].off /\ e.size = artifacts[e.file].size

WgInv == WgType /\ Ascending /\ Checked /\ AppIsLast
=============================================================================
