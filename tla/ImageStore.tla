------------------------------ MODULE ImageStore ------------------------------
(***************************************************************************)
(* The image library of internal/imgstore/store.go: a row per content hash *)
(* in PostgreSQL and a blob file of the same name on disk, written and     *)
(* removed by uploads, deletions and the orphan sweep.  Nothing locks the  *)
(* two together, so every statement and every file operation is a step.    *)
(* A file is absent, young (changed less than the sweep's grace ago) or    *)
(* old.  Temporary files and images that fail sniff, the size or the pixel *)
(* cap change nothing and are left out; the playlists' foreign key shows   *)
(* as a refusal of the deletion (Playlists models the reference).          *)
(***************************************************************************)
EXTENDS Integers, FiniteSets

CONSTANTS Hash,      \* image contents, by sha256
          Uploader,  \* concurrent POST /api/images
          Deleter,   \* concurrent DELETE /api/images/{id}
          MaxFaults  \* bound on crashes and failed writes

NoHash == "none"

VARIABLES
  rows,     \* hashes that have an image row
  blob,     \* Hash -> "none", "young" or "old"
  up,       \* Uploader -> [pc, h]
  del,      \* Deleter -> [pc, h]: between the commit and os.Remove
  sweep,    \* [pc, names, known, h]: the sweep goroutine
  overtaken,\* uploads whose file was removed by another step while they ran
  excused,  \* rows whose file a fault or a late removal has taken
  faults

imgVars == <<rows, blob, up, del, sweep, overtaken, excused, faults>>

IdleCall == [pc |-> "idle", h |-> NoHash]
IdleSweep == [pc |-> "idle", names |-> {}, known |-> {}, h |-> NoHash]

ImgInit ==
  /\ rows = {} /\ blob = [h \in Hash |-> "none"]
  /\ up = [u \in Uploader |-> IdleCall] /\ del = [d \in Deleter |-> IdleCall]
  /\ sweep = IdleSweep
  /\ overtaken = {} /\ excused = {} /\ faults = 0

Running(h) == {u \in Uploader : up[u].h = h /\ up[u].pc # "idle"}
Goto(u, pc) == up' = [up EXCEPT ![u].pc = pc]
Return(u) == /\ up' = [up EXCEPT ![u] = IdleCall]
             /\ overtaken' = overtaken \ {u}

-----------------------------------------------------------------------------
(* PutImage, after the checks of the handler and of sniff.                 *)

(* INSERT ... ON CONFLICT (sha256) DO NOTHING: a new row, or a dedup hit.  *)
Insert(u, h) ==
  /\ up[u].pc = "idle"
  /\ up' = [up EXCEPT ![u] = [pc |-> IF h \in rows THEN "stat" ELSE "write", h |-> h]]
  /\ rows' = rows \cup {h}
  /\ UNCHANGED <<blob, del, sweep, overtaken, excused, faults>>

(* Mutant of Stat: a dedup hit trusts the row. *)
StatSkipped(u) ==
  /\ up[u].pc = "stat"
  /\ Goto(u, "get")
  /\ UNCHANGED <<rows, blob, del, sweep, overtaken, excused, faults>>

(* The dedup hit looks at the file ... *)
Stat(u) ==
  /\ up[u].pc = "stat"
  /\ Goto(u, IF blob[up[u].h] = "none" THEN "heal" ELSE "get")
  /\ UNCHANGED <<rows, blob, del, sweep, overtaken, excused, faults>>

(* Mutant of WriteBlob: the rename is forgotten. *)
WriteBlobLost(u) ==
  /\ up[u].pc \in {"write", "heal"}
  /\ excused' = excused \ {up[u].h}
  /\ Goto(u, IF up[u].pc = "heal" THEN "get" ELSE "ok") /\ UNCHANGED overtaken
  /\ UNCHANGED <<rows, blob, del, sweep, faults>>

(* ... and writeBlobAtomic renames a complete file into place, for a new   *)
(* row or to heal a missing one.                                           *)
WriteBlob(u) ==
  /\ up[u].pc \in {"write", "heal"}
  /\ blob' = [blob EXCEPT ![up[u].h] = "young"]
  /\ excused' = excused \ {up[u].h}
  /\ Goto(u, IF up[u].pc = "heal" THEN "get" ELSE "ok") /\ UNCHANGED overtaken
  /\ UNCHANGED <<rows, del, sweep, faults>>

(* The write fails (disk): the upload answers 500 and the row stays.       *)
WriteFails(u) ==
  /\ faults < MaxFaults /\ faults' = faults + 1
  /\ up[u].pc \in {"write", "heal"}
  /\ excused' = excused \cup {up[u].h}
  /\ Return(u)
  /\ UNCHANGED <<rows, blob, del, sweep>>

(* GetImageBySha: the dedup hit answers with the row, or with an error     *)
(* when a deletion took it meanwhile.                                      *)
GetBySha(u) ==
  /\ up[u].pc = "get"
  /\ IF up[u].h \in rows THEN Goto(u, "ok") /\ UNCHANGED overtaken ELSE Return(u)
  /\ UNCHANGED <<rows, blob, del, sweep, excused, faults>>

(* The handler answers 200 or 201. *)
Answer(u) ==
  /\ up[u].pc = "ok" /\ Return(u)
  /\ UNCHANGED <<rows, blob, del, sweep, excused, faults>>

-----------------------------------------------------------------------------
(* A file goes away: uploads of the same bytes that are under way are      *)
(* overtaken, and a row that is there by now has lost its file.            *)
Remove(h) ==
  /\ blob' = [blob EXCEPT ![h] = "none"]
  /\ overtaken' = overtaken \cup Running(h)
  /\ excused' = IF h \in rows /\ blob[h] # "none" THEN excused \cup {h} ELSE excused

(* DeleteImage and DeleteImageManagedAware: the row goes in a transaction  *)
(* (refused when a playlist uses it) ...                                   *)
DeleteRow(d, h) ==
  /\ del[d].pc = "idle" /\ h \in rows
  /\ rows' = rows \ {h} /\ excused' = excused \ {h}
  /\ del' = [del EXCEPT ![d] = [pc |-> "remove", h |-> h]]
  /\ UNCHANGED <<blob, up, sweep, overtaken, faults>>

(* ... then os.Remove takes the file, whoever wrote it meanwhile.          *)
DeleteBlob(d) ==
  /\ del[d].pc = "remove"
  /\ Remove(del[d].h)
  /\ del' = [del EXCEPT ![d] = IdleCall]
  /\ UNCHANGED <<rows, up, sweep, faults>>

-----------------------------------------------------------------------------
(* SweepOrphanBlobs. *)

(* os.ReadDir ... *)
SweepList ==
  /\ sweep.pc = "idle"
  /\ sweep' = [IdleSweep EXCEPT !.pc = "query", !.names = {h \in Hash : blob[h] # "none"}]
  /\ UNCHANGED <<rows, blob, up, del, overtaken, excused, faults>>

(* ... SELECT sha256 FROM image ...                                        *)
SweepQuery ==
  /\ sweep.pc = "query"
  /\ sweep' = [sweep EXCEPT !.pc = "scan", !.known = rows]
  /\ UNCHANGED <<rows, blob, up, del, overtaken, excused, faults>>

(* ... or an error, which ends the pass before it removes anything ...     *)
SweepFails ==
  /\ faults < MaxFaults /\ faults' = faults + 1
  /\ sweep.pc = "query" /\ sweep' = IdleSweep
  /\ UNCHANGED <<rows, blob, up, del, overtaken, excused>>

(* Mutant of Swept: the age is not looked at. *)
SweptAnyAge(h) == h \notin sweep.known /\ blob[h] # "none"

(* Mutant of Swept: the comparison with the grace is the wrong way round.  *)
SweptYoung(h) == h \notin sweep.known /\ blob[h] = "young"

(* The files the pass removes: without a row in its snapshot and older     *)
(* than the grace, by the mtime it reads now.                              *)
Swept(h) == h \notin sweep.known /\ blob[h] = "old"

(* ... then name by name: an orphan that is old is removed, anything else  *)
(* is skipped.                                                             *)
SweepInfo(h) ==
  /\ sweep.pc = "scan" /\ h \in sweep.names
  /\ sweep' = [sweep EXCEPT !.names = @ \ {h},
                            !.pc = IF Swept(h) THEN "unlink" ELSE "scan",
                            !.h = IF Swept(h) THEN h ELSE NoHash]
  /\ UNCHANGED <<rows, blob, up, del, overtaken, excused, faults>>

SweepUnlink ==
  /\ sweep.pc = "unlink"
  /\ Remove(sweep.h)
  /\ sweep' = [sweep EXCEPT !.pc = "scan", !.h = NoHash]
  /\ UNCHANGED <<rows, up, del, faults>>

SweepEnd ==
  /\ sweep.pc = "scan" /\ sweep.names = {}
  /\ sweep' = IdleSweep
  /\ UNCHANGED <<rows, blob, up, del, overtaken, excused, faults>>

-----------------------------------------------------------------------------
(* The grace passes.  It is longer than a request, so a file does not age  *)
(* while an upload of it runs; a pass of the sweep measures age against    *)
(* the time it began.                                                      *)
Age(h) ==
  /\ blob[h] = "young" /\ Running(h) = {} /\ sweep.pc = "idle"
  /\ blob' = [blob EXCEPT ![h] = "old"]
  /\ UNCHANGED <<rows, up, del, sweep, overtaken, excused, faults>>

(* The process dies: calls and the sweep are gone, rows and files stay.    *)
Crash ==
  /\ faults < MaxFaults /\ faults' = faults + 1
  /\ up' = [u \in Uploader |-> IdleCall] /\ del' = [d \in Deleter |-> IdleCall]
  /\ sweep' = IdleSweep /\ overtaken' = {}
  /\ excused' = excused \cup {h \in rows : blob[h] = "none"}
  /\ UNCHANGED <<rows, blob>>

ImgNext ==
  \/ \E u \in Uploader : \/ \E h \in Hash : Insert(u, h)
                         \/ Stat(u) \/ WriteBlob(u) \/ WriteFails(u)
                         \/ GetBySha(u) \/ Answer(u)
  \/ \E d \in Deleter : (\E h \in Hash : DeleteRow(d, h)) \/ DeleteBlob(d)
  \/ SweepList \/ SweepQuery \/ SweepFails \/ (\E h \in Hash : SweepInfo(h))
  \/ SweepUnlink \/ SweepEnd
  \/ (\E h \in Hash : Age(h)) \/ Crash

ImgSpec == ImgInit /\ [][ImgNext]_imgVars

SweepStep == SweepList \/ SweepQuery \/ (\E h \in Hash : SweepInfo(h))
             \/ SweepUnlink \/ SweepEnd
UploadStep(u) == Stat(u) \/ WriteBlob(u) \/ GetBySha(u) \/ Answer(u)

-----------------------------------------------------------------------------
(* A row has its file, or an upload that is about to write it, unless a    *)
(* crash or a failed write left it so, or a removal that was decided       *)
(* before the row appeared came after it: os.Remove of a deletion (lines   *)
(* 126, 189) and of the sweep (line 316) do not look at the table again.   *)
RowHasFile ==
  \A h \in rows \ excused :
    blob[h] # "none" \/ \E u \in Running(h) : up[u].pc \in {"write", "heal"}

(* An upload answered with success has its bytes on disk, also when it met *)
(* a row whose file was missing: it heals it.  Only a removal that ran     *)
(* beside the upload may have taken them.                                  *)
UploadStores ==
  \A u \in Uploader : up[u].pc = "ok" => blob[up[u].h] # "none" \/ u \in overtaken

(* The sweep's snapshot of the rows may be stale when it picks a file;     *)
(* still it picks none of a row that is there by now, unless the upload    *)
(* that made the row is about to replace an old orphan.                    *)
SweepSparesUploads ==
  \A h \in Hash : SweepInfo(h) /\ sweep'.pc = "unlink" /\ h \in rows \ excused
    => Running(h) # {}

(* No file without a row stays for ever: passes that complete remove it.   *)
OrphansGo ==
  \A h \in Hash : (blob[h] # "none" /\ h \notin rows) ~> (blob[h] = "none" \/ h \in rows)

\* Rows and files agree, an upload that succeeded is stored, and the sweep spares it.
ImagesKept == [][RowHasFile' /\ UploadStores' /\ SweepSparesUploads]_imgVars

-----------------------------------------------------------------------------
(* What the proof of ImagesKept rests on.                                  *)

Upload == [pc : {"idle", "stat", "write", "heal", "get", "ok"}, h : Hash \cup {NoHash}]

ImgType ==
  /\ rows \subseteq Hash /\ blob \in [Hash -> {"none", "young", "old"}]
  /\ up \in [Uploader -> Upload]
  /\ del \in [Deleter -> [pc : {"idle", "remove"}, h : Hash \cup {NoHash}]]
  /\ \A u \in Uploader : up[u].pc # "idle" => up[u].h \in Hash
  /\ \A d \in Deleter : del[d].pc = "remove" => del[d].h \in Hash
  /\ sweep \in [pc : {"idle", "query", "scan", "unlink"}, names : SUBSET Hash,
                known : SUBSET Hash, h : Hash \cup {NoHash}]
  /\ sweep.pc = "unlink" => sweep.h \in Hash

(* From the moment a dedup hit saw the file, or a write put it there.      *)
StoredInv ==
  \A u \in Uploader : up[u].pc \in {"get", "ok"} => blob[up[u].h] # "none" \/ u \in overtaken

(* An old file of a row that is newer than the sweep's snapshot: the       *)
(* upload that made the row has still to write it.                         *)
SnapshotInv ==
  sweep.pc \in {"scan", "unlink"} =>
    \A h \in (rows \ excused) \ sweep.known :
      blob[h] = "old" => \E u \in Running(h) : up[u].pc = "write"

ImgInv == ImgType /\ RowHasFile /\ StoredInv /\ SnapshotInv
=============================================================================
