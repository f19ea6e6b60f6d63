---------------------------- MODULE ContentProofs ----------------------------
(***************************************************************************)
(* Proofs about how frames are made, for every number of images, uploads,  *)
(* deletions and requests.                                                 *)
(* ImageStore: rows and files agree although no lock holds them together   *)
(* (ImagesKept).  ImgInv adds what an upload knows of its file once it has *)
(* seen it (StoredInv) and what the sweep's snapshot of the rows may miss  *)
(* (SnapshotInv).                                                          *)
(* VariantCache: single flight keeps its promises and no refresh is        *)
(* forgotten (VariantsSound).  VcInv says who leads a flight (FlightInv),  *)
(* what it has paid for (PackInv) and what the warmer waits for (WarmInv). *)
(* Render: FramesSound.  RdInv says what the caches hold (CacheInv), what  *)
(* a call holds between its reads and its writes (CallInv), and for whom a *)
(* call may still be under way (OwnedInv).                                 *)
(***************************************************************************)
EXTENDS ImageStore, VariantCache, Render, TLAPS

LEMMA ImgInvInit == ImgInit => ImgInv
<1> SUFFICES ASSUME ImgInit PROVE ImgInv
  OBVIOUS
<1>1. ImgType
  BY DEF ImgInit, ImgType, Upload, IdleCall, IdleSweep
<1>2. RowHasFile /\ StoredInv /\ SnapshotInv
  BY DEF ImgInit, RowHasFile, StoredInv, SnapshotInv, IdleCall, IdleSweep
<1> QED
  BY <1>1, <1>2 DEF ImgInv

\* An upload moves to x; the others are where they were.
LEMMA UploadMoves ==
  ASSUME ImgInv, NEW u \in Uploader,
         NEW x \in Upload,
         x.pc # "idle" => x.h \in Hash, up' = [up EXCEPT ![u] = x]
  PROVE  /\ up' \in [Uploader -> Upload]
         /\ \A v \in Uploader : up'[v].pc # "idle" => up'[v].h \in Hash
         /\ up'[u] = x /\ \A v \in Uploader \ {u} : up'[v] = up[v]
BY DEF ImgInv, ImgType

LEMMA InsertKeeps ==
  ASSUME ImgInv, NEW u \in Uploader, NEW h \in Hash, Insert(u, h) PROVE ImgInv'
<1> DEFINE x == [pc |-> IF h \in rows THEN "stat" ELSE "write", h |-> h]
<1>1. /\ up[u].pc = "idle" /\ up' = [up EXCEPT ![u] = x] /\ rows' = rows \cup {h}
      /\ UNCHANGED <<blob, del, sweep, overtaken, excused>>
  BY DEF Insert
<1>2. x.h = h /\ x.pc # "idle" /\ (h \notin rows => x.pc = "write") /\ x.pc \notin {"get", "ok"}
      /\ x \in Upload
  BY DEF Upload
<1> HIDE DEF x
<1>3. /\ up' \in [Uploader -> Upload]
      /\ \A v \in Uploader : up'[v].pc # "idle" => up'[v].h \in Hash
      /\ up'[u] = x /\ \A v \in Uploader \ {u} : up'[v] = up[v]
  BY <1>1, <1>2, UploadMoves
<1>4. ImgType'
  BY <1>1, <1>3 DEF ImgInv, ImgType
<1>5. \A g \in Hash : Running(g) \subseteq Running(g)'
  BY <1>1, <1>3 DEF Running
<1>6. \A g \in Hash : \A v \in Running(g) : up'[v] = up[v]
  BY <1>1, <1>3 DEF Running
<1>7. h \notin rows => u \in Running(h)' /\ up'[u].pc = "write"
  BY <1>2, <1>3 DEF Running
<1>8. RowHasFile'
  BY <1>1, <1>4, <1>5, <1>6, <1>7 DEF ImgInv, ImgType, RowHasFile
<1>9. StoredInv'
  BY <1>1, <1>2, <1>3 DEF ImgInv, StoredInv
<1>10. SnapshotInv'
  BY <1>1, <1>4, <1>5, <1>6, <1>7 DEF ImgInv, ImgType, SnapshotInv
<1> QED
  BY <1>4, <1>8, <1>9, <1>10 DEF ImgInv

\* Stat, GetBySha and Answer: neither rows nor files change, and the upload
\* was not about to write.
LEMMA ReadKeeps ==
  ASSUME ImgInv, NEW u \in Uploader,
         NEW x \in Upload,
         x.pc # "idle" => x.h \in Hash, up' = [up EXCEPT ![u] = x],
         up[u].pc \notin {"write", "heal"}, overtaken \ {u} \subseteq overtaken',
         x.pc \in {"get", "ok"} => blob[x.h] # "none" \/ u \in overtaken',
         UNCHANGED <<rows, blob, del, sweep, excused>>
  PROVE  ImgInv'
<1>1. /\ up' \in [Uploader -> Upload]
      /\ \A v \in Uploader : up'[v].pc # "idle" => up'[v].h \in Hash
      /\ up'[u] = x /\ \A v \in Uploader \ {u} : up'[v] = up[v]
  BY UploadMoves
<1>2. ImgType'
  BY <1>1 DEF ImgInv, ImgType
<1>3. \A g \in Hash : \A v \in Running(g) :
        up[v].pc \in {"write", "heal"} => v \in Running(g)' /\ up'[v] = up[v]
  BY <1>1 DEF Running
<1>4. RowHasFile'
  BY <1>2, <1>3 DEF ImgInv, ImgType, RowHasFile
<1>5. StoredInv'
  BY <1>1 DEF ImgInv, StoredInv
<1>6. SnapshotInv'
  BY <1>2, <1>3 DEF ImgInv, ImgType, SnapshotInv
<1> QED
  BY <1>2, <1>4, <1>5, <1>6 DEF ImgInv

LEMMA ReadsKeep ==
  ASSUME ImgInv, NEW u \in Uploader, Stat(u) \/ GetBySha(u) \/ Answer(u) PROVE ImgInv'
<1>t. /\ up[u] \in Upload
      /\ up[u].pc # "idle" => up[u].h \in Hash
      /\ up \in [Uploader -> Upload]
  BY DEF ImgInv, ImgType
<1>g. \A pc : Goto(u, pc) => up' = [up EXCEPT ![u] = [up[u] EXCEPT !.pc = pc]]
  BY <1>t DEF Goto
<1>i. IdleCall \in Upload
      /\ IdleCall.pc = "idle"
  BY DEF IdleCall, Upload
<1>1. CASE Stat(u)
  <2> DEFINE x == [up[u] EXCEPT !.pc = IF blob[up[u].h] = "none" THEN "heal" ELSE "get"]
  <2>1. up[u].pc = "stat" /\ up' = [up EXCEPT ![u] = x]
        /\ UNCHANGED <<rows, blob, del, sweep, overtaken, excused>>
    BY <1>1, <1>g DEF Stat
  <2>2. x \in Upload
        /\ x.h = up[u].h /\ x.pc = IF blob[up[u].h] = "none" THEN "heal" ELSE "get"
    BY <1>t DEF Upload
  <2> HIDE DEF x
  <2> QED
    BY <1>t, <2>1, <2>2, ReadKeeps
<1>2. CASE GetBySha(u) /\ up[u].h \in rows
  <2> DEFINE x == [up[u] EXCEPT !.pc = "ok"]
  <2>1. up[u].pc = "get" /\ up' = [up EXCEPT ![u] = x]
        /\ UNCHANGED <<rows, blob, del, sweep, overtaken, excused>>
    BY <1>2, <1>g DEF GetBySha
  <2>2. x \in Upload
        /\ x.h = up[u].h /\ x.pc = "ok"
    BY <1>t DEF Upload
  <2>3. blob[up[u].h] # "none" \/ u \in overtaken
    BY <2>1 DEF ImgInv, StoredInv
  <2> HIDE DEF x
  <2> QED
    BY <1>t, <2>1, <2>2, <2>3, ReadKeeps
<1>3. CASE Answer(u) \/ (GetBySha(u) /\ up[u].h \notin rows)
  <2>1. up[u].pc \in {"get", "ok"} /\ Return(u) /\ UNCHANGED <<rows, blob, del, sweep, excused>>
    BY <1>3 DEF Answer, GetBySha
  <2> QED
    BY <1>i, <2>1, ReadKeeps DEF Return
<1> QED
  BY <1>1, <1>2, <1>3

LEMMA WriteBlobKeeps ==
  ASSUME ImgInv, NEW u \in Uploader, WriteBlob(u) PROVE ImgInv'
<1> DEFINE h == up[u].h
           x == [up[u] EXCEPT !.pc = IF up[u].pc = "heal" THEN "get" ELSE "ok"]
<1>1. h \in Hash /\ up[u] \in Upload /\ up[u].pc \in {"write", "heal"}
  BY DEF WriteBlob, ImgInv, ImgType
<1>2. /\ blob' = [blob EXCEPT ![h] = "young"] /\ excused' = excused \ {h}
      /\ up' = [up EXCEPT ![u] = x] /\ UNCHANGED <<rows, del, sweep, overtaken>>
  BY DEF WriteBlob, Goto, ImgInv, ImgType
<1>3. x \in Upload /\ x.h = h /\ x.pc \in {"get", "ok"}
  BY <1>1 DEF Upload
<1>c. PICK g : g = h
  OBVIOUS
<1> HIDE DEF h, x
<1>4. /\ up' \in [Uploader -> Upload]
      /\ \A v \in Uploader : up'[v].pc # "idle" => up'[v].h \in Hash
      /\ up'[u] = x /\ \A v \in Uploader \ {u} : up'[v] = up[v]
  BY <1>1, <1>2, <1>3, UploadMoves
<1>5. blob' \in [Hash -> {"none", "young", "old"}]
      /\ blob'[g] = "young" /\ \A k \in Hash \ {g} : blob'[k] = blob[k]
  BY <1>1, <1>2, <1>c DEF ImgInv, ImgType
<1>6. ImgType'
  BY <1>2, <1>4, <1>5 DEF ImgInv, ImgType
<1>7. \A k \in Hash \ {g} : \A v \in Running(k) : v \in Running(k)' /\ up'[v] = up[v]
  BY <1>3, <1>4, <1>c DEF Running, h
<1>8. RowHasFile'
  <2>1. ASSUME NEW k \in rows' \ excused', k # g
        PROVE  blob'[k] # "none" \/ \E v \in Running(k)' : up'[v].pc \in {"write", "heal"}
    <3>1. k \in Hash \ {g} /\ k \in rows \ excused
      BY <1>2, <1>c, <2>1 DEF ImgInv, ImgType
    <3> QED
      BY <1>5, <1>7, <3>1 DEF ImgInv, RowHasFile
  <2> QED
    BY <1>5, <2>1 DEF RowHasFile
<1>9. StoredInv'
  <2>1. SUFFICES ASSUME NEW v \in Uploader, up'[v].pc \in {"get", "ok"}
                 PROVE  blob'[up'[v].h] # "none" \/ v \in overtaken'
    BY DEF StoredInv
  <2>2. CASE up'[v].h = g
    BY <1>5, <2>2
  <2>3. CASE up'[v].h # g
    <3>1. up'[v] = up[v] /\ up[v].h \in Hash \ {g}
      BY <1>3, <1>4, <1>c, <2>1, <2>3
    <3> QED
      BY <1>2, <1>5, <2>1, <3>1 DEF ImgInv, StoredInv
  <2> QED
    BY <2>2, <2>3
<1>10. SnapshotInv'
  <2>1. SUFFICES ASSUME sweep'.pc \in {"scan", "unlink"}, NEW k \in (rows' \ excused') \ sweep'.known,
                        blob'[k] = "old"
                 PROVE  \E v \in Running(k)' : up'[v].pc = "write"
    BY DEF SnapshotInv
  <2>2. k \in Hash \ {g} /\ k \in (rows \ excused) \ sweep.known
    BY <1>2, <1>5, <1>c, <2>1 DEF ImgInv, ImgType
  <2>3. PICK v \in Running(k) : up[v].pc = "write"
    BY <1>2, <1>5, <2>1, <2>2 DEF ImgInv, SnapshotInv
  <2> QED
    BY <1>7, <2>2, <2>3
<1> QED
  BY <1>6, <1>8, <1>9, <1>10 DEF ImgInv

LEMMA WriteFailsKeeps ==
  ASSUME ImgInv, NEW u \in Uploader, WriteFails(u) PROVE ImgInv'
<1>1. /\ up[u].h \in Hash /\ up' = [up EXCEPT ![u] = IdleCall] /\ overtaken' = overtaken \ {u}
      /\ excused' = excused \cup {up[u].h} /\ UNCHANGED <<rows, blob, del, sweep>>
  BY DEF WriteFails, Return, ImgInv, ImgType
<1>2. IdleCall \in Upload /\ IdleCall.pc = "idle"
  BY DEF IdleCall, Upload
<1>3. /\ up' \in [Uploader -> Upload]
      /\ \A v \in Uploader : up'[v].pc # "idle" => up'[v].h \in Hash
      /\ up'[u] = IdleCall /\ \A v \in Uploader \ {u} : up'[v] = up[v]
  BY <1>1, <1>2, UploadMoves
<1>4. ImgType'
  BY <1>1, <1>3 DEF ImgInv, ImgType
<1>5. \A k \in Hash \ {up[u].h} : \A v \in Running(k) : v \in Running(k)' /\ up'[v] = up[v]
  BY <1>3 DEF Running
<1>6. \A k \in rows' \ excused' : k \in (rows \ excused) /\ k \in Hash \ {up[u].h}
  BY <1>1 DEF ImgInv, ImgType
<1>7. RowHasFile'
  BY <1>1, <1>5, <1>6 DEF ImgInv, RowHasFile
<1>8. StoredInv'
  BY <1>1, <1>2, <1>3 DEF ImgInv, StoredInv
<1>9. SnapshotInv'
  BY <1>1, <1>5, <1>6 DEF ImgInv, SnapshotInv
<1> QED
  BY <1>4, <1>7, <1>8, <1>9 DEF ImgInv

LEMMA DeleteRowKeeps ==
  ASSUME ImgInv, NEW d \in Deleter, NEW h \in Hash, DeleteRow(d, h) PROVE ImgInv'
<1>1. /\ rows' = rows \ {h} /\ excused' = excused \ {h}
      /\ del' = [del EXCEPT ![d] = [pc |-> "remove", h |-> h]]
      /\ UNCHANGED <<blob, up, sweep, overtaken>>
  BY DEF DeleteRow
<1>2. ImgType'
  BY <1>1 DEF ImgInv, ImgType
<1>3. \A k \in Hash : Running(k)' = Running(k)
  BY <1>1 DEF Running
<1>4. \A k \in rows' \ excused' : k \in rows \ excused /\ k \in Hash
  BY <1>1 DEF ImgInv, ImgType
<1>5. RowHasFile' /\ StoredInv' /\ SnapshotInv'
  BY <1>1, <1>3, <1>4 DEF ImgInv, RowHasFile, StoredInv, SnapshotInv
<1> QED
  BY <1>2, <1>5 DEF ImgInv

\* os.Remove, by a deletion or by the sweep.
LEMMA RemoveKeeps ==
  ASSUME ImgInv, NEW h \in Hash, Remove(h), UNCHANGED <<rows, up>>,
         \A s \in {"scan", "unlink"} : sweep'.pc = s =>
            sweep.pc \in {"scan", "unlink"} /\ sweep'.known = sweep.known,
         ImgType'
  PROVE  ImgInv'
<1>1. /\ blob' = [blob EXCEPT ![h] = "none"] /\ overtaken' = overtaken \cup Running(h)
      /\ excused \subseteq excused' /\ (h \in rows /\ blob[h] # "none" => h \in excused')
  BY DEF Remove
<1>2. /\ blob'[h] = "none" /\ \A k \in Hash \ {h} : blob'[k] = blob[k]
      /\ \A k \in Hash : Running(k)' = Running(k)
      /\ \A k \in rows' \ excused' : k \in rows \ excused /\ k \in Hash
  BY <1>1 DEF Running, ImgInv, ImgType
<1>3. RowHasFile'
  BY <1>1, <1>2 DEF ImgInv, RowHasFile
<1>4. StoredInv'
  <2>1. SUFFICES ASSUME NEW v \in Uploader, up[v].pc \in {"get", "ok"}
                 PROVE  blob'[up[v].h] # "none" \/ v \in overtaken'
    BY DEF StoredInv
  <2>2. up[v].h \in Hash /\ (up[v].h = h => v \in Running(h))
    BY <2>1 DEF ImgInv, ImgType, Running
  <2> QED
    BY <1>1, <1>2, <2>1, <2>2 DEF ImgInv, StoredInv
<1>5. SnapshotInv'
  BY <1>1, <1>2 DEF ImgInv, SnapshotInv
<1> QED
  BY <1>3, <1>4, <1>5 DEF ImgInv

LEMMA RemovalsKeep ==
  ASSUME ImgInv, (\E d \in Deleter : DeleteBlob(d)) \/ SweepUnlink PROVE ImgInv'
<1>1. ASSUME NEW d \in Deleter, DeleteBlob(d) PROVE ImgInv'
  <2>1. /\ del[d].h \in Hash /\ Remove(del[d].h) /\ del' = [del EXCEPT ![d] = IdleCall]
        /\ UNCHANGED <<rows, up, sweep>>
    BY <1>1 DEF DeleteBlob, ImgInv, ImgType
  <2>2. ImgType'
    BY <2>1 DEF ImgInv, ImgType, Remove, IdleCall
  <2> QED
    BY <2>1, <2>2, RemoveKeeps
<1>2. CASE SweepUnlink
  <2>1. /\ sweep.pc = "unlink" /\ sweep.h \in Hash /\ Remove(sweep.h)
        /\ sweep' = [sweep EXCEPT !.pc = "scan", !.h = NoHash] /\ UNCHANGED <<rows, up, del>>
    BY <1>2 DEF SweepUnlink, ImgInv, ImgType
  <2>2. ImgType'
    BY <2>1 DEF ImgInv, ImgType, Remove
  <2>3. sweep'.known = sweep.known
    BY <2>1 DEF ImgInv, ImgType
  <2> QED
    BY <2>1, <2>2, <2>3, RemoveKeeps
<1> QED
  BY <1>1, <1>2

\* The sweep looks; rows, files and uploads stay.
LEMMA SweepKeeps ==
  ASSUME ImgInv,
         SweepList \/ SweepQuery \/ SweepFails \/ (\E h \in Hash : SweepInfo(h)) \/ SweepEnd
  PROVE  ImgInv'
<1>1. UNCHANGED <<rows, blob, up, del, overtaken, excused>>
  BY DEF SweepList, SweepQuery, SweepFails, SweepInfo, SweepEnd
<1>2. RowHasFile' /\ StoredInv'
  BY <1>1 DEF ImgInv, RowHasFile, StoredInv, Running
<1>t. sweep \in [pc : {"idle", "query", "scan", "unlink"}, names : SUBSET Hash,
                 known : SUBSET Hash, h : Hash \cup {NoHash}]
  BY DEF ImgInv, ImgType
<1>3. CASE SweepList \/ SweepFails \/ SweepEnd
  <2> DEFINE found == {h \in Hash : blob[h] # "none"}
  <2>f. found \subseteq Hash
    OBVIOUS
  <2>1. \/ sweep' = IdleSweep
        \/ sweep' = [pc |-> "query", names |-> found, known |-> {}, h |-> NoHash]
    BY <1>3 DEF SweepList, SweepFails, SweepEnd, IdleSweep
  <2> HIDE DEF found
  <2>2. /\ sweep' \in [pc : {"idle", "query", "scan", "unlink"}, names : SUBSET Hash,
                       known : SUBSET Hash, h : Hash \cup {NoHash}]
        /\ sweep'.pc \in {"idle", "query"}
    BY <2>f, <2>1 DEF IdleSweep
  <2>3. ImgType'
    BY <1>1, <2>2 DEF ImgInv, ImgType
  <2> QED
    BY <1>2, <2>2, <2>3 DEF ImgInv, SnapshotInv
<1>4. CASE SweepQuery
  <2>1. sweep'.pc = "scan" /\ sweep'.known = rows /\ ImgType'
    BY <1>1, <1>4, <1>t DEF ImgInv, ImgType, SweepQuery
  <2>2. SnapshotInv'
    BY <1>1, <2>1 DEF SnapshotInv
  <2> QED
    BY <1>2, <2>1, <2>2 DEF ImgInv
<1>5. ASSUME NEW h \in Hash, SweepInfo(h) PROVE ImgInv'
  <2>1. /\ sweep.pc = "scan" /\ sweep'.known = sweep.known
        /\ sweep' \in [pc : {"idle", "query", "scan", "unlink"}, names : SUBSET Hash,
                       known : SUBSET Hash, h : Hash \cup {NoHash}]
        /\ sweep'.pc = "unlink" => sweep'.h \in Hash
    BY <1>5, <1>t DEF SweepInfo
  <2>2. ImgType'
    BY <1>1, <2>1 DEF ImgInv, ImgType
  <2>3. SnapshotInv'
    BY <1>1, <2>1 DEF ImgInv, SnapshotInv, Running
  <2> QED
    BY <1>2, <2>2, <2>3 DEF ImgInv
<1> QED
  BY <1>3, <1>4, <1>5

LEMMA AgeKeeps == ASSUME ImgInv, NEW h \in Hash, Age(h) PROVE ImgInv'
<1>1. /\ blob' = [blob EXCEPT ![h] = "old"] /\ blob[h] = "young" /\ sweep.pc = "idle"
      /\ UNCHANGED <<rows, up, del, sweep, overtaken, excused>>
  BY DEF Age
<1>2. ImgType'
  BY <1>1 DEF ImgInv, ImgType
<1>3. \A k \in Hash : blob'[k] = "none" <=> blob[k] = "none"
  BY <1>1 DEF ImgInv, ImgType
<1>4. \A u \in Uploader : up[u].pc \in {"get", "ok"} => up[u].h \in Hash
  BY DEF ImgInv, ImgType
<1>5. RowHasFile'
  BY <1>1, <1>3 DEF ImgInv, ImgType, RowHasFile, Running
<1>6. StoredInv' /\ SnapshotInv'
  BY <1>1, <1>3, <1>4 DEF ImgInv, StoredInv, SnapshotInv
<1> QED
  BY <1>2, <1>5, <1>6 DEF ImgInv

LEMMA CrashKeeps == ASSUME ImgInv, Crash PROVE ImgInv'
<1>1. ImgType'
  BY DEF Crash, ImgInv, ImgType, Upload, IdleCall, IdleSweep
<1>2. RowHasFile'
  BY DEF Crash, RowHasFile
<1>3. StoredInv' /\ SnapshotInv'
  BY DEF Crash, StoredInv, SnapshotInv, IdleCall, IdleSweep
<1> QED
  BY <1>1, <1>2, <1>3 DEF ImgInv

LEMMA ImgInvNext == ImgInv /\ [ImgNext]_imgVars => ImgInv'
<1> SUFFICES ASSUME ImgInv, [ImgNext]_imgVars PROVE ImgInv'
  OBVIOUS
<1>1. CASE UNCHANGED imgVars
  BY <1>1 DEF imgVars, ImgInv, ImgType, RowHasFile, StoredInv, SnapshotInv, Running
<1> QED
  BY <1>1, InsertKeeps, ReadsKeep, WriteBlobKeeps, WriteFailsKeeps, DeleteRowKeeps, RemovalsKeep,
     SweepKeeps, AgeKeeps, CrashKeeps DEF ImgNext

\* A step keeps what ImagesKept asks of it.
LEMMA ImgStep ==
  ASSUME ImgInv, ImgInv' PROVE RowHasFile' /\ UploadStores' /\ SweepSparesUploads
<1>1. UploadStores'
  BY DEF ImgInv, StoredInv, UploadStores
<1>2. SweepSparesUploads
  <2>1. SUFFICES ASSUME NEW h \in Hash, SweepInfo(h), sweep'.pc = "unlink", h \in rows \ excused
                 PROVE  Running(h) # {}
    BY DEF SweepSparesUploads
  <2>2. sweep.pc = "scan" /\ Swept(h)
    BY <2>1 DEF SweepInfo, ImgInv, ImgType
  <2> QED
    BY <2>1, <2>2 DEF Swept, ImgInv, SnapshotInv
<1> QED
  BY <1>1, <1>2 DEF ImgInv

\* For any number of concurrent uploads and deletions of any images, with the
\* sweep running, writes failing and the process dying between any two steps:
\* rows keep their files, an upload answered with success is on disk, and the
\* sweep, whose snapshot of the rows is stale, takes no file from a live row.
THEOREM ImagesAreKept == ImgSpec => ImagesKept
<1>1. ImgSpec => []ImgInv
  BY ImgInvInit, ImgInvNext, PTL DEF ImgSpec
<1>2. ImgInv /\ ImgInv' => [RowHasFile' /\ UploadStores' /\ SweepSparesUploads]_imgVars
  BY ImgStep
<1> QED
  BY <1>1, <1>2, PTL DEF ImagesKept

-----------------------------------------------------------------------------
(* VariantCache.                                                           *)

LEMMA VcInvInit == VcInit => VcInv
<1> SUFFICES ASSUME VcInit PROVE VcInv
  OBVIOUS
<1>i. IdleCaller \in Packing /\ IdleCaller.pc = "idle"
  BY DEF IdleCaller, Packing
<1>1. VcType
  BY <1>i DEF VcInit, VcType, NoFlight, IdleListener
<1>2. FlightInv
  BY <1>i DEF VcInit, FlightInv, NoFlight, Leading
<1>3. PackInv
  BY <1>i DEF VcInit, PackInv, Paid
<1>4. WarmInv /\ NoLostRefresh
  BY <1>i DEF VcInit, WarmInv, NoLostRefresh, IdleListener, Anyone
<1> QED
  BY <1>1, <1>2, <1>3, <1>4 DEF VcInv

\* A caller moves to x; the others are where they were.
LEMMA CallerMoves ==
  ASSUME VcInv, NEW c \in Anyone, NEW x \in Packing, x.pc # "idle" => x.k \in Key,
         x.pc \in {"close", "delete", "answer"} => x.res # "none",
         caller' = [caller EXCEPT ![c] = x]
  PROVE  /\ caller' \in [Anyone -> Packing]
         /\ \A d \in Anyone : /\ caller'[d].pc # "idle" => caller'[d].k \in Key
                              /\ caller'[d].pc \in {"close", "delete", "answer"}
                                   => caller'[d].res # "none"
         /\ caller'[c] = x /\ \A d \in Anyone \ {c} : caller'[d] = caller[d]
BY DEF VcInv, VcType

\* No caller reaches or leaves a state that PackInv speaks of.
LEMMA PackKept ==
  ASSUME VcInv,
         \A d \in Anyone : caller[d].pc = "put" \/ caller'[d].pc \in {"load", "render", "put"}
                           => caller'[d] = caller[d],
         \A d \in Anyone : caller'[d].pc = "load" /\ d \notin gone' => d \notin gone,
         UNCHANGED <<vcache, drives, excuse>>
  PROVE  PackInv'
<1>1. \A k \in Key : /\ drives'[k] <= excuse'[k] + 1
                     /\ \/ k \in vcache' \/ drives'[k] <= excuse'[k]
                        \/ \E c \in Anyone : caller'[c].pc = "put" /\ caller'[c].k = k
  BY DEF VcInv, PackInv, Paid
<1>2. \A c \in Anyone : caller'[c].pc = "render" \/ (caller'[c].pc = "load" /\ c \notin gone')
                        => drives'[caller'[c].k] <= excuse'[caller'[c].k]
  BY DEF VcInv, PackInv, Paid
<1> QED
  BY <1>1, <1>2 DEF PackInv, Paid

\* A caller goes on with the same key, in the flight or out of it as before.
LEMMA RoleKept ==
  ASSUME VcInv, NEW c \in Anyone, NEW x \in Packing, caller' = [caller EXCEPT ![c] = x],
         x.k = caller[c].k, caller[c].pc \notin {"idle", "delete"}, x.pc \notin {"idle", "wait", "delete"},
         caller[c].pc \in Leading <=> x.pc \in Leading,
         x.pc \in {"close", "answer"} => x.res # "none",
         x.pc \in {"close", "answer"} /\ x.res = "ok" => x.k \in vcache' \cup bad,
         vcache \subseteq vcache', UNCHANGED <<flight, bad, wVars>>,
         drives' \in [Key -> Nat], excuse' \in [Key -> Nat]
  PROVE  VcType' /\ FlightInv' /\ WarmInv' /\ NoLostRefresh'
<1>w. UNCHANGED <<items, listener, notes, owed, dirty, deaf>>
  BY DEF wVars
<1>1. /\ caller' \in [Anyone -> Packing]
      /\ \A d \in Anyone : /\ caller'[d].pc # "idle" => caller'[d].k \in Key
                           /\ caller'[d].pc \in {"close", "delete", "answer"}
                                => caller'[d].res # "none"
      /\ caller'[c] = x /\ \A d \in Anyone \ {c} : caller'[d] = caller[d]
  <2>1. x.k \in Key
    BY DEF VcInv, VcType
  <2> QED
    BY <2>1, CallerMoves
<1>2. VcType'
  BY <1>w, <1>1 DEF VcInv, VcType
<1>3. FlightInv'
  <2>1. ASSUME NEW k \in Key, flight[k].leader # NoOne
        PROVE  LET l == caller'[flight[k].leader] IN
               /\ l.k = k /\ l.pc \in Leading
               /\ flight[k].res = IF l.pc = "delete" THEN l.res ELSE "open"
    <3>1. flight[k].leader \in Anyone
      BY <2>1 DEF VcInv, VcType
    <3> QED
      BY <1>1, <2>1, <3>1 DEF VcInv, FlightInv
  <2>2. \A d \in Anyone :
          /\ caller'[d].pc \in Leading => flight[caller'[d].k].leader = d
          /\ caller'[d].pc = "wait" => flight[caller'[d].k].leader # NoOne
                                       /\ flight[caller'[d].k].res = "open"
    BY <1>1 DEF VcInv, FlightInv
  <2> QED
    BY <2>1, <2>2 DEF FlightInv
<1>4. WarmInv'
  <2>1. listener.pc # "warm" => \A w \in Warmer : caller'[w].pc = "idle"
    BY <1>1 DEF VcInv, WarmInv, Anyone
  <2>2. \A d \in Anyone :
          /\ caller'[d].res = "ok"
          /\ caller'[d].pc \in {"close", "delete"} \/ (d \in Warmer /\ caller'[d].pc = "answer")
          => caller'[d].k \in vcache' \cup bad
    BY <1>1 DEF VcInv, WarmInv
  <2>3. listener.pc = "warm" => \A k \in listener.asked \ listener.todo :
          k \in vcache' \cup bad \/ \E w \in Warmer : caller'[w].pc # "idle" /\ caller'[w].k = k
    BY <1>1 DEF VcInv, WarmInv, Anyone
  <2>4. listener.pc = "enqueue" => listener.asked \subseteq vcache' \cup bad
    BY DEF VcInv, WarmInv
  <2> QED
    BY <1>w, <2>1, <2>2, <2>3, <2>4 DEF WarmInv
<1>5. NoLostRefresh'
  BY <1>w DEF VcInv, NoLostRefresh
<1> QED
  BY <1>2, <1>3, <1>4, <1>5

\* What the steps of a caller write.
LEMMA CallerSteps ==
  ASSUME VcInv, NEW c \in Anyone, NEW pc \in {"get", "enter", "wait", "answer"} \cup Leading
  PROVE  /\ CallerAt(c, pc) => \E x \in Packing : /\ caller' = [caller EXCEPT ![c] = x]
                                                 /\ x.k = caller[c].k /\ x.pc = pc
                                                 /\ x.res = caller[c].res
         /\ \A res \in {"ok", "err"} :
              Result(c, pc, res) => \E x \in Packing : /\ caller' = [caller EXCEPT ![c] = x]
                                                      /\ x.k = caller[c].k /\ x.pc = pc /\ x.res = res
<1>1. caller[c] \in Packing
  BY DEF VcInv, VcType
<1> DEFINE x == [caller[c] EXCEPT !.pc = pc]
<1>2. x \in Packing /\ x.pc = pc /\ x.k = caller[c].k /\ x.res = caller[c].res
  BY <1>1 DEF Packing
<1>3. CallerAt(c, pc) => caller' = [caller EXCEPT ![c] = x]
  BY DEF CallerAt, VcInv, VcType
<1>4. ASSUME NEW res \in {"ok", "err"}, Result(c, pc, res)
      PROVE  \E y \in Packing : /\ caller' = [caller EXCEPT ![c] = y]
                                /\ y.k = caller[c].k /\ y.pc = pc /\ y.res = res
  <2> DEFINE y == [caller[c] EXCEPT !.pc = pc, !.res = res]
  <2>1. y \in Packing /\ y.pc = pc /\ y.k = caller[c].k /\ y.res = res
    BY <1>1 DEF Packing
  <2>2. caller' = [caller EXCEPT ![c] = y]
    BY <1>4 DEF Result, VcInv, VcType
  <2> HIDE DEF y
  <2> QED
    BY <2>1, <2>2
<1> HIDE DEF x
<1> QED
  BY <1>2, <1>3, <1>4

\* Only the leader of a key is in the flight's states for it.
LEMMA OneLeader ==
  ASSUME VcInv, NEW c \in Anyone, NEW d \in Anyone, caller[c].pc \in Leading,
         caller[d].pc \in Leading, caller[c].k = caller[d].k
  PROVE  c = d
BY DEF VcInv, FlightInv

\* A lookup that changes nothing PackInv speaks of: VariantGet, and the exits
\* of the leader before it renders.
LEMMA LookupKeeps ==
  ASSUME VcInv, NEW c \in Anyone, NEW pc, NEW res,
         \/ caller[c].pc = "get" /\ pc = "enter" /\ CallerAt(c, pc)
         \/ caller[c].pc = "get" /\ pc = "answer" /\ Result(c, pc, res)
            /\ res = "ok" /\ caller[c].k \in vcache
         \/ caller[c].pc = "recheck" /\ pc = "close" /\ Result(c, pc, res)
            /\ res = "ok" /\ caller[c].k \in vcache
         \/ caller[c].pc = "load" /\ pc = "close" /\ Result(c, pc, res) /\ res = "err",
         UNCHANGED <<vcache, flight, gone, wVars, bad, drives, excuse>>
  PROVE  VcInv'
<1>1. PICK x \in Packing :
        /\ caller' = [caller EXCEPT ![c] = x] /\ x.k = caller[c].k /\ x.pc = pc
        /\ pc \in {"answer", "close"} => x.res = res
  BY CallerSteps DEF Leading
<1>2. drives \in [Key -> Nat] /\ excuse \in [Key -> Nat]
  BY DEF VcInv, VcType
<1>3. VcType' /\ FlightInv' /\ WarmInv' /\ NoLostRefresh'
  BY <1>1, <1>2, RoleKept DEF Leading
<1>4. \A d \in Anyone \ {c} : caller'[d] = caller[d]
  BY <1>1 DEF VcInv, VcType
<1>5. caller'[c] = x
  BY <1>1 DEF VcInv, VcType
<1>6. PackInv'
  BY <1>1, <1>4, <1>5, PackKept
<1> QED
  BY <1>3, <1>6 DEF VcInv

\* The leader steps from p to q; k's counts change as PackInv allows.
LEMMA LeaderKeeps ==
  ASSUME VcInv, NEW c \in Anyone, NEW pc, NEW res, NEW k \in Key, k = caller[c].k,
         caller[c].pc \in {"recheck", "load", "render", "put"},
         \/ pc \in {"load", "render", "put"} /\ CallerAt(c, pc)
         \/ pc = "close" /\ Result(c, pc, res) /\ res \in {"ok", "err"}
            /\ (res = "ok" => k \in vcache'),
         vcache \subseteq vcache', UNCHANGED <<flight, gone, wVars, bad>>,
         drives' \in [Key -> Nat], excuse' \in [Key -> Nat],
         \A j \in Key \ {k} : drives'[j] = drives[j] /\ excuse'[j] = excuse[j],
         drives'[k] <= excuse'[k] + 1,
         k \in vcache' \/ drives'[k] <= excuse'[k] \/ pc = "put",
         pc = "render" \/ (pc = "load" /\ c \notin gone) => drives'[k] <= excuse'[k]
  PROVE  VcInv'
<1>1. PICK x \in Packing :
        /\ caller' = [caller EXCEPT ![c] = x] /\ x.k = k /\ x.pc = pc
        /\ pc = "close" => x.res = res
  BY CallerSteps DEF Leading
<1>2. VcType' /\ FlightInv' /\ WarmInv' /\ NoLostRefresh'
  BY <1>1, RoleKept DEF Leading
<1>3. caller'[c] = x /\ \A d \in Anyone \ {c} : caller'[d] = caller[d]
  BY <1>1 DEF VcInv, VcType
<1>4. \A d \in Anyone \ {c} : caller[d].pc \in Leading => caller[d].k # k
  BY OneLeader DEF Leading
<1>5. ASSUME NEW j \in Key
      PROVE  /\ drives'[j] <= excuse'[j] + 1
             /\ \/ j \in vcache' \/ drives'[j] <= excuse'[j]
                \/ \E d \in Anyone : caller'[d].pc = "put" /\ caller'[d].k = j
  <2>1. CASE j = k
    BY <1>1, <1>3, <2>1
  <2>2. CASE j # k
    <3>1. drives'[j] = drives[j] /\ excuse'[j] = excuse[j] /\ drives[j] <= excuse[j] + 1
      BY <2>2 DEF VcInv, PackInv
    <3>2. \/ j \in vcache \/ drives[j] <= excuse[j]
          \/ \E d \in Anyone : caller[d].pc = "put" /\ caller[d].k = j
      BY DEF VcInv, PackInv, Paid
    <3>3. \A d \in Anyone : caller[d].k = j => caller'[d] = caller[d]
      BY <1>3, <2>2
    <3> QED
      BY <3>1, <3>2, <3>3
  <2> QED
    BY <2>1, <2>2
<1>6. ASSUME NEW d \in Anyone, caller'[d].pc = "render" \/ (caller'[d].pc = "load" /\ d \notin gone')
      PROVE  drives'[caller'[d].k] <= excuse'[caller'[d].k]
  <2>1. CASE d = c
    BY <1>1, <1>3, <1>6, <2>1
  <2>2. CASE d # c
    <3>1. caller'[d] = caller[d] /\ caller[d].k \in Key \ {k}
      BY <1>3, <1>4, <1>6, <2>2 DEF Leading, VcInv, VcType
    <3> QED
      BY <1>6, <3>1 DEF VcInv, PackInv, Paid
  <2> QED
    BY <2>1, <2>2
<1>7. PackInv'
  BY <1>5, <1>6 DEF PackInv, Paid
<1> QED
  BY <1>2, <1>7 DEF VcInv

LEMMA RecheckKeeps == ASSUME VcInv, NEW c \in Anyone, Recheck(c) PROVE VcInv'
<1>1. caller[c].pc = "recheck" /\ UNCHANGED <<vcache, flight, gone, wVars, bad, drives, excuse>>
  BY DEF Recheck
<1>2. CASE caller[c].k \in vcache /\ c \notin gone
  BY <1>1, <1>2, LookupKeeps DEF Recheck
<1>3. CASE ~(caller[c].k \in vcache /\ c \notin gone)
  <2> DEFINE k == caller[c].k
  <2>1. k \in Key /\ CallerAt(c, "load") /\ drives \in [Key -> Nat] /\ excuse \in [Key -> Nat]
    BY <1>1, <1>3 DEF Recheck, VcInv, VcType
  <2>2. \A d \in Anyone : ~(caller[d].pc = "put" /\ caller[d].k = k)
    BY <1>1, OneLeader DEF Leading
  <2>3. drives[k] <= excuse[k] + 1 /\ (k \in vcache \/ drives[k] <= excuse[k])
    BY <2>1, <2>2 DEF VcInv, PackInv, Paid
  <2> QED
    BY <1>1, <1>3, <2>1, <2>3, LeaderKeeps
<1> QED
  BY <1>2, <1>3

LEMMA MissKeeps == ASSUME VcInv, NEW c \in Anyone, Miss(c) PROVE VcInv'
<1> DEFINE k == caller[c].k
<1>1. /\ caller[c].pc \in {"get", "recheck"} /\ excuse' = [excuse EXCEPT ![k] = @ + 1]
      /\ UNCHANGED <<vcache, flight, gone, wVars, bad, drives>>
  BY DEF Miss
<1>2. k \in Key /\ drives \in [Key -> Nat] /\ excuse \in [Key -> Nat]
  BY <1>1 DEF VcInv, VcType
<1>3. /\ excuse' \in [Key -> Nat] /\ excuse'[k] = excuse[k] + 1
      /\ \A j \in Key \ {k} : excuse'[j] = excuse[j]
  BY <1>1, <1>2
<1>4. drives[k] <= excuse[k] + 1 /\ drives[k] \in Nat /\ excuse[k] \in Nat
  BY <1>2 DEF VcInv, PackInv
<1>5. CASE caller[c].pc = "recheck"
  <2>1. CallerAt(c, "load")
    BY <1>5 DEF Miss
  <2> HIDE DEF k
  <2>2. drives'[k] <= excuse'[k]
    BY <1>1, <1>3, <1>4
  <2>3. drives'[k] <= excuse'[k] + 1
    BY <1>1, <1>3, <1>4
  <2> QED
    BY <1>1, <1>2, <1>3, <1>5, <2>1, <2>2, <2>3, LeaderKeeps DEF k
<1>6. CASE caller[c].pc = "get"
  <2>1. CallerAt(c, "enter")
    BY <1>6 DEF Miss
  <2>2. PICK x \in Packing : caller' = [caller EXCEPT ![c] = x] /\ x.k = k /\ x.pc = "enter"
    BY <2>1, CallerSteps
  <2>3. VcType' /\ FlightInv' /\ WarmInv' /\ NoLostRefresh'
    BY <1>1, <1>2, <1>3, <1>6, <2>2, RoleKept DEF Leading
  <2>4. caller'[c] = x /\ \A d \in Anyone \ {c} : caller'[d] = caller[d]
    BY <2>2 DEF VcInv, VcType
  <2> HIDE DEF k
  <2>5. \A j \in Key : excuse[j] <= excuse'[j] /\ excuse[j] \in Nat /\ excuse'[j] \in Nat
                       /\ drives[j] \in Nat
    BY <1>2, <1>3
  <2>6. \A j \in Key : /\ drives[j] <= excuse[j] + 1 => drives[j] <= excuse'[j] + 1
                       /\ drives[j] <= excuse[j] => drives[j] <= excuse'[j]
    BY <2>5
  <2>7. ASSUME NEW j \in Key
        PROVE  /\ drives'[j] <= excuse'[j] + 1
               /\ \/ j \in vcache' \/ drives'[j] <= excuse'[j]
                  \/ \E d \in Anyone : caller'[d].pc = "put" /\ caller'[d].k = j
    <3>1. /\ drives[j] <= excuse[j] + 1
          /\ \/ j \in vcache \/ drives[j] <= excuse[j]
             \/ \E d \in Anyone : caller[d].pc = "put" /\ caller[d].k = j
      BY DEF VcInv, PackInv, Paid
    <3> QED
      BY <1>1, <1>6, <2>4, <2>6, <3>1
  <2>8. ASSUME NEW d \in Anyone,
               caller'[d].pc = "render" \/ (caller'[d].pc = "load" /\ d \notin gone')
        PROVE  drives'[caller'[d].k] <= excuse'[caller'[d].k]
    <3>1. caller'[d] = caller[d] /\ caller[d].k \in Key
      BY <2>2, <2>4, <2>8 DEF VcInv, VcType
    <3>2. drives[caller[d].k] <= excuse[caller[d].k]
      BY <1>1, <2>8, <3>1 DEF VcInv, PackInv, Paid
    <3> QED
      BY <1>1, <2>6, <3>1, <3>2
  <2>9. PackInv'
    BY <2>7, <2>8 DEF PackInv, Paid
  <2> QED
    BY <2>3, <2>9 DEF VcInv
<1> QED
  BY <1>1, <1>5, <1>6

LEMMA LoadBlobKeeps == ASSUME VcInv, NEW c \in Anyone, LoadBlob(c) PROVE VcInv'
<1>1. caller[c].pc = "load" /\ UNCHANGED <<vcache, flight, gone, wVars, bad, drives, excuse>>
  BY DEF LoadBlob
<1>2. CASE c \in gone
  BY <1>1, <1>2, LookupKeeps DEF LoadBlob
<1>3. CASE c \notin gone
  <2> DEFINE k == caller[c].k
  <2>1. k \in Key /\ CallerAt(c, "render") /\ drives \in [Key -> Nat] /\ excuse \in [Key -> Nat]
    BY <1>1, <1>3 DEF LoadBlob, VcInv, VcType
  <2>2. drives[k] <= excuse[k] /\ drives[k] <= excuse[k] + 1
    BY <1>1, <1>3, <2>1 DEF VcInv, PackInv, Paid
  <2> QED
    BY <1>1, <2>1, <2>2, LeaderKeeps
<1> QED
  BY <1>2, <1>3

LEMMA RenderVariantKeeps == ASSUME VcInv, NEW c \in Anyone, RenderVariant(c) PROVE VcInv'
<1> DEFINE k == caller[c].k
<1>1. /\ caller[c].pc = "render" /\ drives' = [drives EXCEPT ![k] = @ + 1] /\ CallerAt(c, "put")
      /\ UNCHANGED <<vcache, flight, gone, wVars, bad, excuse>>
  BY DEF RenderVariant
<1>2. k \in Key /\ drives \in [Key -> Nat] /\ excuse \in [Key -> Nat]
  BY <1>1 DEF VcInv, VcType
<1>3. drives[k] <= excuse[k]
  BY <1>1 DEF VcInv, PackInv, Paid
<1>4. /\ drives' \in [Key -> Nat] /\ drives'[k] = drives[k] + 1
      /\ \A j \in Key \ {k} : drives'[j] = drives[j]
  BY <1>1, <1>2
<1>5. drives'[k] <= excuse'[k] + 1
  BY <1>1, <1>2, <1>3, <1>4
<1> QED
  BY <1>1, <1>2, <1>4, <1>5, LeaderKeeps

\* A leader that gives up has paid for the next render.
LEMMA ExcusedKeeps ==
  ASSUME VcInv, NEW c \in Anyone, caller[c].pc \in {"load", "render", "put"},
         Result(c, "close", "err"), excuse' = [excuse EXCEPT ![caller[c].k] = @ + 1],
         UNCHANGED <<vcache, flight, gone, wVars, bad, drives>>
  PROVE  VcInv'
<1> DEFINE k == caller[c].k
<1>1. k \in Key /\ drives \in [Key -> Nat] /\ excuse \in [Key -> Nat]
  BY DEF VcInv, VcType
<1>2. drives[k] <= excuse[k] + 1
  BY <1>1 DEF VcInv, PackInv
<1>3. /\ excuse' \in [Key -> Nat] /\ excuse'[k] = excuse[k] + 1
      /\ \A j \in Key \ {k} : excuse'[j] = excuse[j]
  BY <1>1
<1>4. drives'[k] <= excuse'[k] /\ drives'[k] <= excuse'[k] + 1
  BY <1>1, <1>2, <1>3
<1> QED
  BY <1>1, <1>3, <1>4, LeaderKeeps

LEMMA VariantPutKeeps == ASSUME VcInv, NEW c \in Anyone, VariantPut(c) PROVE VcInv'
<1>1. caller[c].pc = "put" /\ UNCHANGED <<flight, gone, wVars, bad, drives>>
  BY DEF VariantPut
<1>2. CASE c \in gone
  BY <1>1, <1>2, ExcusedKeeps DEF VariantPut
<1>3. CASE c \notin gone
  <2> DEFINE k == caller[c].k
  <2>1. /\ k \in Key /\ drives \in [Key -> Nat] /\ excuse \in [Key -> Nat]
        /\ vcache' = vcache \cup {k} /\ Result(c, "close", "ok") /\ UNCHANGED excuse
    BY <1>1, <1>3 DEF VariantPut, VcInv, VcType
  <2>2. drives[k] <= excuse[k] + 1
    BY <2>1 DEF VcInv, PackInv
  <2> QED
    BY <1>1, <2>1, <2>2, LeaderKeeps
<1> QED
  BY <1>2, <1>3

\* singleFlight.do: a caller leads, waits, or takes the result that is there.
LEMMA EnterKeeps == ASSUME VcInv, NEW c \in Anyone, Enter(c) PROVE VcInv'
<1> DEFINE k == caller[c].k
           f == flight[k]
<1>1. /\ caller[c].pc = "enter" /\ k \in Key /\ caller[c] \in Packing
      /\ UNCHANGED <<vcache, gone, wVars, bad, drives, excuse>>
  BY DEF Enter, VcInv, VcType
<1>w. UNCHANGED <<items, listener, notes, owed, dirty, deaf>>
  BY <1>1 DEF wVars
<1>2. CASE f.leader # NoOne /\ f.res # "open"
  <2>1. Result(c, "answer", f.res) /\ UNCHANGED flight /\ f.res \in {"ok", "err"}
    BY <1>1, <1>2 DEF Enter, VcInv, VcType
  <2>2. PICK x \in Packing : caller' = [caller EXCEPT ![c] = x] /\ x.k = k /\ x.pc = "answer"
                             /\ x.res = f.res
    BY <2>1, CallerSteps
  <2>3. f.res = "ok" => k \in vcache \cup bad
    <3>1. f.leader \in Anyone
      BY <1>1, <1>2 DEF VcInv, VcType
    <3>2. caller[f.leader].k = k /\ caller[f.leader].pc = "delete" /\ f.res = caller[f.leader].res
      BY <1>1, <1>2 DEF VcInv, FlightInv
    <3> QED
      BY <3>1, <3>2 DEF VcInv, WarmInv
  <2>4. drives \in [Key -> Nat] /\ excuse \in [Key -> Nat]
    BY DEF VcInv, VcType
  <2>5. VcType' /\ FlightInv' /\ WarmInv' /\ NoLostRefresh'
    BY <1>1, <2>1, <2>2, <2>3, <2>4, RoleKept DEF Leading
  <2>6. caller'[c] = x /\ \A d \in Anyone \ {c} : caller'[d] = caller[d]
    BY <2>2 DEF VcInv, VcType
  <2>7. PackInv'
    BY <1>1, <2>2, <2>6, PackKept
  <2> QED
    BY <2>5, <2>7 DEF VcInv
<1>3. CASE f.leader = NoOne \/ f.res = "open"
  <2> DEFINE pc == IF f.leader = NoOne THEN "recheck" ELSE "wait"
  <2>1. /\ CallerAt(c, pc)
        /\ flight' = IF f.leader = NoOne THEN [flight EXCEPT ![k] = [leader |-> c, res |-> "open"]]
                     ELSE flight
    BY <1>1, <1>3 DEF Enter
  <2>2. PICK x \in Packing : caller' = [caller EXCEPT ![c] = x] /\ x.k = k /\ x.pc = pc
    BY <2>1, CallerSteps DEF Leading
  <2>3. /\ caller' \in [Anyone -> Packing]
        /\ \A d \in Anyone : /\ caller'[d].pc # "idle" => caller'[d].k \in Key
                             /\ caller'[d].pc \in {"close", "delete", "answer"}
                                  => caller'[d].res # "none"
        /\ caller'[c] = x /\ \A d \in Anyone \ {c} : caller'[d] = caller[d]
    BY <1>1, <2>2, CallerMoves
  <2>4. /\ flight' \in [Key -> [leader : Anyone \cup {NoOne}, res : {"open", "ok", "err"}]]
        /\ \A j \in Key \ {k} : flight'[j] = flight[j]
        /\ f.leader = NoOne => flight'[k].leader = c /\ flight'[k].res = "open"
        /\ f.leader # NoOne => flight'[k] = f
    BY <1>1, <2>1 DEF VcInv, VcType
  <2>5. VcType'
    BY <1>1, <1>w, <2>3, <2>4 DEF VcInv, VcType
  <2>6. c # NoOne
    BY VcAssumption DEF Anyone
  <2>n. \A d \in Anyone : caller[d].pc \in Leading \cup {"wait"} /\ caller[d].k = k => f.leader # NoOne
    BY <2>6, VcAssumption DEF VcInv, FlightInv, Anyone
  <2> HIDE DEF f, k
  <2>7. ASSUME NEW j \in Key, flight'[j].leader # NoOne
        PROVE  LET l == caller'[flight'[j].leader] IN
               /\ l.k = j /\ l.pc \in Leading
               /\ flight'[j].res = IF l.pc = "delete" THEN l.res ELSE "open"
    <3>1. CASE j = k /\ f.leader = NoOne
      BY <1>3, <2>2, <2>3, <2>4, <3>1 DEF Leading
    <3>2. CASE ~(j = k /\ f.leader = NoOne)
      <4>1. flight'[j] = flight[j] /\ flight[j].leader \in Anyone
        BY <2>4, <2>7, <3>2 DEF f, VcInv, VcType
      <4>2. flight[j].leader # c
        BY <1>1, <2>7, <4>1 DEF VcInv, FlightInv, Leading
      <4>3. caller'[flight[j].leader] = caller[flight[j].leader]
        BY <2>3, <4>1, <4>2
      <4> QED
        BY <2>7, <4>1, <4>3 DEF VcInv, FlightInv
    <3> QED
      BY <3>1, <3>2
  <2>8. ASSUME NEW d \in Anyone
        PROVE  /\ caller'[d].pc \in Leading => flight'[caller'[d].k].leader = d
               /\ caller'[d].pc = "wait" => flight'[caller'[d].k].leader # NoOne
                                            /\ flight'[caller'[d].k].res = "open"
    <3>1. CASE d = c
      BY <1>3, <2>2, <2>3, <2>4, <3>1 DEF Leading, f
    <3>2. CASE d # c
      <4>1. caller'[d] = caller[d]
        BY <2>3, <3>2
      <4>2. caller[d].pc \in Leading \cup {"wait"} => flight'[caller[d].k] = flight[caller[d].k]
        BY <2>4, <2>n DEF f, VcInv, VcType, Leading
      <4> QED
        BY <4>1, <4>2 DEF VcInv, FlightInv
    <3> QED
      BY <3>1, <3>2
  <2>9. FlightInv'
    BY <2>7, <2>8 DEF FlightInv
  <2>10. WarmInv'
    BY <1>1, <1>w, <2>2, <2>3 DEF VcInv, WarmInv, Anyone, k
  <2>11. PackInv' /\ NoLostRefresh'
    BY <1>1, <1>w, <2>2, <2>3, PackKept DEF VcInv, NoLostRefresh
  <2> QED
    BY <2>5, <2>9, <2>10, <2>11 DEF VcInv
<1> QED
  BY <1>2, <1>3

\* close(done) hands the leader's result to everyone who waits.
LEMMA CloseKeeps == ASSUME VcInv, NEW c \in Anyone, Close(c) PROVE VcInv'
<1> DEFINE k == caller[c].k
           Waits(d) == d # c /\ caller[d].pc = "wait" /\ caller[d].k = k
<1>1. /\ caller[c].pc = "close" /\ k \in Key /\ caller[c].res \in {"ok", "err"}
      /\ flight' = [flight EXCEPT ![k].res = caller[c].res]
      /\ UNCHANGED <<vcache, gone, bad, drives, excuse>>
  BY DEF Close, VcInv, VcType, Packing
<1>w. UNCHANGED <<items, listener, notes, owed, dirty, deaf>>
  BY DEF Close, wVars
<1>2. caller' = [d \in Anyone |->
        IF d = c THEN [caller[c] EXCEPT !.pc = "delete"]
        ELSE IF Waits(d) THEN [caller[d] EXCEPT !.pc = "answer", !.res = caller[c].res]
        ELSE caller[d]]
  BY DEF Close
<1>3. \A d \in Anyone : caller[d] \in Packing
  BY DEF VcInv, VcType
<1>4. /\ caller'[c] \in Packing /\ caller'[c].pc = "delete" /\ caller'[c].k = k
      /\ caller'[c].res = caller[c].res
  BY <1>2, <1>3 DEF Packing, Leading
<1>5. \A d \in Anyone : Waits(d) => /\ caller'[d] \in Packing /\ caller'[d].pc = "answer"
                                    /\ caller'[d].k = k /\ caller'[d].res = caller[c].res
  BY <1>1, <1>2, <1>3 DEF Packing
<1>6. \A d \in Anyone \ {c} : ~Waits(d) => caller'[d] = caller[d]
  BY <1>2
<1>7. flight[k].leader = c
  BY <1>1 DEF VcInv, FlightInv, Leading
<1>8. /\ flight' \in [Key -> [leader : Anyone \cup {NoOne}, res : {"open", "ok", "err"}]]
      /\ flight'[k].leader = c /\ flight'[k].res = caller[c].res
      /\ \A j \in Key \ {k} : flight'[j] = flight[j]
  BY <1>1, <1>7 DEF VcInv, VcType
<1>9. \A d \in Anyone : caller[d].pc # "wait" => ~Waits(d)
  OBVIOUS
<1>10. \A d \in Anyone \ {c} : caller[d].pc = "wait" /\ caller[d].k = k => Waits(d)
  OBVIOUS
<1>11. DOMAIN caller' = Anyone
  BY <1>2
<1>12. caller[c].res = "ok" => k \in vcache \cup bad
  BY <1>1 DEF VcInv, WarmInv
<1> HIDE DEF k, Waits
<1>13. VcType'
  <2>1. \A d \in Anyone : caller'[d] \in Packing
    BY <1>3, <1>4, <1>5, <1>6
  <2>2. caller' \in [Anyone -> Packing]
    BY <1>2, <2>1
  <2>3. \A d \in Anyone : /\ caller'[d].pc # "idle" => caller'[d].k \in Key
                          /\ caller'[d].pc \in {"close", "delete", "answer"} => caller'[d].res # "none"
    BY <1>1, <1>4, <1>5, <1>6 DEF VcInv, VcType
  <2> QED
    BY <1>1, <1>w, <1>8, <2>2, <2>3 DEF VcInv, VcType
<1>14. FlightInv'
  <2>1. ASSUME NEW j \in Key, flight'[j].leader # NoOne
        PROVE  LET l == caller'[flight'[j].leader] IN
               /\ l.k = j /\ l.pc \in Leading
               /\ flight'[j].res = IF l.pc = "delete" THEN l.res ELSE "open"
    <3>1. CASE j = k
      BY <1>4, <1>8, <3>1 DEF Leading
    <3>2. CASE j # k
      <4>1. flight'[j] = flight[j] /\ flight[j].leader \in Anyone
        BY <1>8, <2>1, <3>2 DEF VcInv, VcType
      <4>2. caller[flight[j].leader].k = j /\ caller[flight[j].leader].pc \in Leading
        BY <2>1, <4>1 DEF VcInv, FlightInv
      <4>3. caller'[flight[j].leader] = caller[flight[j].leader]
        BY <1>6, <1>9, <3>2, <4>1, <4>2 DEF Leading, k
      <4> QED
        BY <2>1, <4>1, <4>3 DEF VcInv, FlightInv
    <3> QED
      BY <3>1, <3>2
  <2>2. ASSUME NEW d \in Anyone
        PROVE  /\ caller'[d].pc \in Leading => flight'[caller'[d].k].leader = d
               /\ caller'[d].pc = "wait" => flight'[caller'[d].k].leader # NoOne
                                            /\ flight'[caller'[d].k].res = "open"
    <3>1. CASE d = c
      BY <1>4, <1>8, <3>1
    <3>2. CASE Waits(d)
      BY <1>5, <3>2 DEF Leading
    <3>3. CASE d # c /\ ~Waits(d)
      <4>1. caller'[d] = caller[d]
        BY <1>6, <3>3
      <4>2. caller[d].pc \in Leading \cup {"wait"} => caller[d].k \in Key \ {k}
        <5>1. caller[d].pc \in Leading => caller[d].k # k
          BY <1>7, <3>3 DEF VcInv, FlightInv
        <5>2. caller[d].pc = "wait" => caller[d].k # k
          BY <1>10, <3>3
        <5> QED
          BY <5>1, <5>2 DEF VcInv, VcType, Leading
      <4> QED
        BY <1>8, <4>1, <4>2 DEF VcInv, FlightInv
    <3> QED
      BY <3>1, <3>2, <3>3
  <2> QED
    BY <2>1, <2>2 DEF FlightInv
<1>15. PackInv'
  <2>1. \A d \in Anyone : caller[d].pc = "put" \/ caller'[d].pc \in {"load", "render", "put"}
                          => caller'[d] = caller[d]
    BY <1>1, <1>4, <1>5, <1>6, <1>9
  <2> QED
    BY <1>1, <2>1, PackKept
<1>16. WarmInv'
  <2>1. \A d \in Anyone : caller'[d].pc = "idle" <=> caller[d].pc = "idle"
    BY <1>1, <1>4, <1>5, <1>6, <1>9
  <2>2. \A d \in Anyone : caller'[d].k = caller[d].k
    BY <1>4, <1>5, <1>6 DEF Waits, k
  <2>3. \A d \in Anyone :
          /\ caller'[d].res = "ok"
          /\ caller'[d].pc \in {"close", "delete"} \/ (d \in Warmer /\ caller'[d].pc = "answer")
          => caller'[d].k \in vcache' \cup bad'
    BY <1>1, <1>4, <1>5, <1>6, <1>12 DEF VcInv, WarmInv
  <2> QED
    BY <1>1, <1>w, <2>1, <2>2, <2>3 DEF VcInv, WarmInv, Anyone
<1>17. NoLostRefresh'
  BY <1>w DEF VcInv, NoLostRefresh
<1> QED
  BY <1>13, <1>14, <1>15, <1>16, <1>17 DEF VcInv

LEMMA DeleteCallKeeps == ASSUME VcInv, NEW c \in Anyone, DeleteCall(c) PROVE VcInv'
<1> DEFINE k == caller[c].k
<1>1. /\ caller[c].pc = "delete" /\ k \in Key /\ caller[c].res \in {"ok", "err"}
      /\ flight' = [flight EXCEPT ![k] = NoFlight] /\ CallerAt(c, "answer")
      /\ UNCHANGED <<vcache, gone, wVars, bad, drives, excuse>>
  BY DEF DeleteCall, VcInv, VcType, Packing
<1>w. UNCHANGED <<items, listener, notes, owed, dirty, deaf>>
  BY <1>1 DEF wVars
<1>2. PICK x \in Packing : caller' = [caller EXCEPT ![c] = x] /\ x.k = k /\ x.pc = "answer"
                           /\ x.res = caller[c].res
  BY <1>1, CallerSteps
<1>3. /\ caller' \in [Anyone -> Packing]
      /\ \A d \in Anyone : /\ caller'[d].pc # "idle" => caller'[d].k \in Key
                           /\ caller'[d].pc \in {"close", "delete", "answer"}
                                => caller'[d].res # "none"
      /\ caller'[c] = x /\ \A d \in Anyone \ {c} : caller'[d] = caller[d]
  BY <1>1, <1>2, CallerMoves
<1>4. flight[k].leader = c /\ flight[k].res # "open"
  <2>1. flight[k].leader = c /\ c # NoOne
    BY <1>1, VcAssumption DEF VcInv, FlightInv, Leading, Anyone
  <2> QED
    BY <1>1, <2>1 DEF VcInv, FlightInv
<1>5. /\ flight' \in [Key -> [leader : Anyone \cup {NoOne}, res : {"open", "ok", "err"}]]
      /\ flight'[k].leader = NoOne /\ \A j \in Key \ {k} : flight'[j] = flight[j]
  BY <1>1 DEF VcInv, VcType, NoFlight
<1>6. VcType'
  BY <1>1, <1>w, <1>3, <1>5 DEF VcInv, VcType
<1> HIDE DEF k
<1>7. FlightInv'
  <2>1. ASSUME NEW j \in Key, flight'[j].leader # NoOne
        PROVE  LET l == caller'[flight'[j].leader] IN
               /\ l.k = j /\ l.pc \in Leading
               /\ flight'[j].res = IF l.pc = "delete" THEN l.res ELSE "open"
    <3>1. j # k /\ flight'[j] = flight[j] /\ flight[j].leader \in Anyone
      BY <1>5, <2>1 DEF VcInv, VcType
    <3>2. flight[j].leader # c
      BY <2>1, <3>1 DEF VcInv, FlightInv, k
    <3> QED
      BY <1>3, <2>1, <3>1, <3>2 DEF VcInv, FlightInv
  <2>2. ASSUME NEW d \in Anyone
        PROVE  /\ caller'[d].pc \in Leading => flight'[caller'[d].k].leader = d
               /\ caller'[d].pc = "wait" => flight'[caller'[d].k].leader # NoOne
                                            /\ flight'[caller'[d].k].res = "open"
    <3>1. CASE d = c
      BY <1>2, <1>3, <3>1 DEF Leading
    <3>2. CASE d # c
      <4>1. caller'[d] = caller[d]
        BY <1>3, <3>2
      <4>2. caller[d].pc \in Leading \cup {"wait"} => caller[d].k \in Key \ {k}
        BY <1>4, <3>2 DEF VcInv, VcType, FlightInv, Leading
      <4> QED
        BY <1>5, <4>1, <4>2 DEF VcInv, FlightInv
    <3> QED
      BY <3>1, <3>2
  <2> QED
    BY <2>1, <2>2 DEF FlightInv
<1>8. WarmInv'
  <2>1. caller[c].res = "ok" => k \in vcache \cup bad
    BY <1>1 DEF VcInv, WarmInv, k
  <2> QED
    BY <1>1, <1>w, <1>2, <1>3, <2>1 DEF VcInv, WarmInv, Anyone, k
<1>9. PackInv' /\ NoLostRefresh'
  BY <1>1, <1>w, <1>2, <1>3, PackKept DEF VcInv, NoLostRefresh
<1> QED
  BY <1>6, <1>7, <1>8, <1>9 DEF VcInv

\* Callers come and go outside the flight.
LEMMA OutsideFlight ==
  ASSUME VcInv, NEW c \in Anyone, caller[c].pc \in {"idle", "answer"}, NEW x \in Packing,
         x.pc \in {"idle", "get"}, x.pc = "get" => x.k \in Key, caller' = [caller EXCEPT ![c] = x],
         UNCHANGED <<flight, vcache, drives, excuse>>, gone \ {c} \subseteq gone'
  PROVE  /\ FlightInv' /\ PackInv'
         /\ caller' \in [Anyone -> Packing]
         /\ \A d \in Anyone : /\ caller'[d].pc # "idle" => caller'[d].k \in Key
                              /\ caller'[d].pc \in {"close", "delete", "answer"}
                                   => caller'[d].res # "none"
         /\ caller'[c] = x /\ \A d \in Anyone \ {c} : caller'[d] = caller[d]
<1>1. /\ caller' \in [Anyone -> Packing]
      /\ \A d \in Anyone : /\ caller'[d].pc # "idle" => caller'[d].k \in Key
                           /\ caller'[d].pc \in {"close", "delete", "answer"}
                                => caller'[d].res # "none"
      /\ caller'[c] = x /\ \A d \in Anyone \ {c} : caller'[d] = caller[d]
  BY CallerMoves
<1>2. \A k \in Key : flight[k].leader # NoOne => flight[k].leader \in Anyone \ {c}
  BY DEF VcInv, VcType, FlightInv, Leading
<1>3. FlightInv'
  <2>1. ASSUME NEW k \in Key, flight[k].leader # NoOne
        PROVE  LET l == caller'[flight[k].leader] IN
               /\ l.k = k /\ l.pc \in Leading
               /\ flight[k].res = IF l.pc = "delete" THEN l.res ELSE "open"
    BY <1>1, <1>2, <2>1 DEF VcInv, FlightInv
  <2>2. \A d \in Anyone :
          /\ caller'[d].pc \in Leading => flight[caller'[d].k].leader = d
          /\ caller'[d].pc = "wait" => flight[caller'[d].k].leader # NoOne
                                       /\ flight[caller'[d].k].res = "open"
    BY <1>1 DEF VcInv, FlightInv, Leading
  <2> QED
    BY <2>1, <2>2 DEF FlightInv
<1>4. PackInv'
  BY <1>1, PackKept
<1> QED
  BY <1>1, <1>3, <1>4

LEMMA BeginKeeps ==
  ASSUME VcInv, NEW c \in Anyone, NEW k \in Key, Begin(c, k) PROVE VcInv'
<1> DEFINE x == [pc |-> "get", k |-> k, res |-> "none"]
<1>1. /\ c \in Caller /\ c \notin Warmer /\ caller[c].pc = "idle" /\ caller' = [caller EXCEPT ![c] = x]
      /\ UNCHANGED <<vcache, flight, gone, bad, drives, excuse>>
  BY VcAssumption DEF Begin
<1>w. UNCHANGED <<items, listener, notes, owed, dirty, deaf>>
  BY DEF Begin, wVars
<1>2. x \in Packing /\ x.pc = "get" /\ x.k = k
  BY DEF Packing
<1> HIDE DEF x
<1>3. /\ FlightInv' /\ PackInv' /\ caller' \in [Anyone -> Packing]
      /\ \A d \in Anyone : /\ caller'[d].pc # "idle" => caller'[d].k \in Key
                           /\ caller'[d].pc \in {"close", "delete", "answer"}
                                => caller'[d].res # "none"
      /\ caller'[c] = x /\ \A d \in Anyone \ {c} : caller'[d] = caller[d]
  BY <1>1, <1>2, OutsideFlight
<1>4. VcType'
  BY <1>1, <1>w, <1>3 DEF VcInv, VcType
<1>5. \A w \in Warmer : caller'[w] = caller[w]
  BY <1>1, <1>3 DEF Anyone
<1>6. WarmInv' /\ NoLostRefresh'
  BY <1>1, <1>w, <1>2, <1>3, <1>5 DEF VcInv, WarmInv, NoLostRefresh
<1> QED
  BY <1>3, <1>4, <1>6 DEF VcInv

LEMMA WarmSpawnKeeps ==
  ASSUME VcInv, NEW w \in Warmer, NEW k \in Key, WarmSpawn(w, k) PROVE VcInv'
<1> DEFINE x == [pc |-> "get", k |-> k, res |-> "none"]
<1>1. /\ listener.pc = "warm" /\ k \in listener.todo /\ caller[w].pc = "idle"
      /\ listener' = [listener EXCEPT !.todo = @ \ {k}] /\ caller' = [caller EXCEPT ![w] = x]
      /\ UNCHANGED <<vcache, flight, gone, items, notes, owed, dirty, deaf, bad, drives, excuse>>
  BY DEF WarmSpawn
<1>2. x \in Packing /\ x.pc = "get" /\ x.k = k /\ w \in Anyone
  BY DEF Packing, Anyone
<1> HIDE DEF x
<1>3. /\ FlightInv' /\ PackInv' /\ caller' \in [Anyone -> Packing]
      /\ \A d \in Anyone : /\ caller'[d].pc # "idle" => caller'[d].k \in Key
                           /\ caller'[d].pc \in {"close", "delete", "answer"}
                                => caller'[d].res # "none"
      /\ caller'[w] = x /\ \A d \in Anyone \ {w} : caller'[d] = caller[d]
  BY <1>1, <1>2, OutsideFlight
<1>4. /\ listener' \in [pc : {"down", "wait", "warm", "enqueue"}, todo : SUBSET Key, asked : SUBSET Key]
      /\ listener'.pc = "warm" /\ listener'.asked = listener.asked
      /\ listener'.todo = listener.todo \ {k}
  BY <1>1 DEF VcInv, VcType
<1>5. VcType'
  BY <1>1, <1>3, <1>4 DEF VcInv, VcType
<1>6. WarmInv'
  <2>1. \A d \in Anyone :
          /\ caller'[d].res = "ok"
          /\ caller'[d].pc \in {"close", "delete"} \/ (d \in Warmer /\ caller'[d].pc = "answer")
          => caller'[d].k \in vcache' \cup bad'
    BY <1>1, <1>2, <1>3 DEF VcInv, WarmInv
  <2>2. ASSUME NEW j \in listener'.asked \ listener'.todo
        PROVE  j \in vcache \cup bad \/ \E v \in Warmer : caller'[v].pc # "idle" /\ caller'[v].k = j
    <3>1. CASE j = k
      BY <1>2, <1>3, <3>1
    <3>2. CASE j # k
      <4>1. j \in vcache \cup bad \/ \E v \in Warmer : caller[v].pc # "idle" /\ caller[v].k = j
        BY <1>1, <1>4, <3>2 DEF VcInv, WarmInv
      <4> QED
        BY <1>1, <1>3, <4>1 DEF Anyone
    <3> QED
      BY <3>1, <3>2
  <2> QED
    BY <1>1, <1>4, <2>1, <2>2 DEF WarmInv
<1>7. NoLostRefresh'
  BY <1>4 DEF NoLostRefresh
<1> QED
  BY <1>3, <1>5, <1>6, <1>7 DEF VcInv

LEMMA AnswerVariantKeeps == ASSUME VcInv, NEW c \in Anyone, AnswerVariant(c) PROVE VcInv'
<1>1. /\ caller[c].pc = "answer" /\ caller' = [caller EXCEPT ![c] = IdleCaller] /\ gone' = gone \ {c}
      /\ bad \subseteq bad' /\ (c \in Warmer /\ caller[c].res = "err" => caller[c].k \in bad')
      /\ UNCHANGED <<vcache, flight, drives, excuse>>
  BY DEF AnswerVariant
<1>w. UNCHANGED <<items, listener, notes, owed, dirty, deaf>>
  BY DEF AnswerVariant, wVars
<1>2. IdleCaller \in Packing /\ IdleCaller.pc = "idle"
  BY DEF IdleCaller, Packing
<1>3. /\ FlightInv' /\ PackInv' /\ caller' \in [Anyone -> Packing]
      /\ \A d \in Anyone : /\ caller'[d].pc # "idle" => caller'[d].k \in Key
                           /\ caller'[d].pc \in {"close", "delete", "answer"}
                                => caller'[d].res # "none"
      /\ caller'[c] = IdleCaller /\ \A d \in Anyone \ {c} : caller'[d] = caller[d]
  BY <1>1, <1>2, OutsideFlight
<1>4. VcType'
  BY <1>1, <1>w, <1>3 DEF VcInv, VcType
<1>5. c \in Warmer => caller[c].k \in vcache \cup bad'
  <2>1. caller[c].res \in {"ok", "err"}
    BY <1>1 DEF VcInv, VcType, Packing
  <2> QED
    BY <1>1, <2>1 DEF VcInv, WarmInv
<1>6. WarmInv'
  <2>1. \A d \in Anyone :
          /\ caller'[d].res = "ok"
          /\ caller'[d].pc \in {"close", "delete"} \/ (d \in Warmer /\ caller'[d].pc = "answer")
          => caller'[d].k \in vcache' \cup bad'
    BY <1>1, <1>2, <1>3 DEF VcInv, WarmInv
  <2>2. ASSUME listener.pc = "warm", NEW j \in listener.asked \ listener.todo
        PROVE  j \in vcache \cup bad' \/ \E v \in Warmer : caller'[v].pc # "idle" /\ caller'[v].k = j
    <3>1. j \in vcache \cup bad \/ \E v \in Warmer : caller[v].pc # "idle" /\ caller[v].k = j
      BY <2>2 DEF VcInv, WarmInv
    <3> QED
      BY <1>1, <1>3, <1>5, <3>1 DEF Anyone
  <2>3. listener.pc # "warm" => \A v \in Warmer : caller'[v].pc = "idle"
    BY <1>2, <1>3 DEF VcInv, WarmInv, Anyone
  <2>4. listener.pc = "enqueue" => listener.asked \subseteq vcache \cup bad'
    BY <1>1 DEF VcInv, WarmInv
  <2> QED
    BY <1>1, <1>w, <2>1, <2>2, <2>3, <2>4 DEF WarmInv
<1>7. NoLostRefresh'
  BY <1>w DEF VcInv, NoLostRefresh
<1> QED
  BY <1>3, <1>4, <1>6, <1>7 DEF VcInv

LEMMA GCKeeps == ASSUME VcInv, GCVariantCache PROVE VcInv'
<1> DEFINE out == vcache \ items
<1>1. /\ vcache' = vcache \cap items /\ bad' = bad \cup out
      /\ excuse' = [k \in Key |-> IF k \in out THEN excuse[k] + 1 ELSE excuse[k]]
      /\ UNCHANGED <<flight, caller, gone, drives, items, listener, notes, owed, dirty, deaf>>
  BY DEF GCVariantCache, wVars
<1>2. drives \in [Key -> Nat] /\ excuse \in [Key -> Nat]
  BY DEF VcInv, VcType
<1>3. excuse' \in [Key -> Nat]
  BY <1>1, <1>2
<1>4. VcType'
  BY <1>1, <1>3 DEF VcInv, VcType
<1>5. \A k \in Key : /\ drives[k] <= excuse[k] => drives[k] <= excuse'[k]
                     /\ k \in out /\ drives[k] <= excuse[k] + 1 => drives[k] <= excuse'[k]
                     /\ drives[k] <= excuse[k] + 1 => drives[k] <= excuse'[k] + 1
  <2>1. SUFFICES ASSUME NEW k \in Key
                 PROVE  /\ drives[k] <= excuse[k] => drives[k] <= excuse'[k]
                        /\ k \in out /\ drives[k] <= excuse[k] + 1 => drives[k] <= excuse'[k]
                        /\ drives[k] <= excuse[k] + 1 => drives[k] <= excuse'[k] + 1
    OBVIOUS
  <2>2. excuse'[k] = (IF k \in out THEN excuse[k] + 1 ELSE excuse[k])
    BY <1>1
  <2>3. drives[k] \in Nat /\ excuse[k] \in Nat
    BY <1>2
  <2> HIDE DEF out
  <2> QED
    BY <2>2, <2>3
<1>6. PackInv'
  <2>1. ASSUME NEW k \in Key
        PROVE  /\ drives'[k] <= excuse'[k] + 1
               /\ \/ k \in vcache' \/ drives'[k] <= excuse'[k]
                  \/ \E d \in Anyone : caller'[d].pc = "put" /\ caller'[d].k = k
    <3>1. /\ drives[k] <= excuse[k] + 1
          /\ \/ k \in vcache \/ drives[k] <= excuse[k]
             \/ \E d \in Anyone : caller[d].pc = "put" /\ caller[d].k = k
      BY DEF VcInv, PackInv, Paid
    <3> QED
      BY <1>1, <1>5, <3>1
  <2>2. ASSUME NEW d \in Anyone,
               caller[d].pc = "render" \/ (caller[d].pc = "load" /\ d \notin gone)
        PROVE  drives[caller[d].k] <= excuse'[caller[d].k]
    BY <1>5, <2>2 DEF VcInv, VcType, PackInv, Paid
  <2> QED
    BY <1>1, <2>1, <2>2 DEF PackInv, Paid
<1>7. vcache \cup bad \subseteq vcache' \cup bad'
  BY <1>1
<1>8. WarmInv'
  BY <1>1, <1>7 DEF VcInv, WarmInv
<1>9. FlightInv' /\ NoLostRefresh'
  BY <1>1 DEF VcInv, FlightInv, NoLostRefresh
<1> QED
  BY <1>4, <1>6, <1>8, <1>9 DEF VcInv

\* What only the listener, the editors and the clients' connections change.
LEMMA WarmerKeeps ==
  ASSUME VcInv,
         \/ \E c \in Anyone : Disconnect(c)
         \/ \E S \in SUBSET Key : ChangeItems(S)
         \/ ListenPlaylist \/ Notified \/ WarmWait \/ EnqueueRefresh
         \/ NotifyPlaylistChanged \/ NotifyFails \/ EnqueueFails \/ ListenBreaks
  PROVE  VcInv'
<1>1. UNCHANGED <<vcache, flight, caller, drives, excuse>> /\ gone \subseteq gone'
  BY DEF Disconnect, ChangeItems, ListenPlaylist, Notified, WarmWait, EnqueueRefresh,
         NotifyPlaylistChanged, NotifyFails, EnqueueFails, ListenBreaks, wVars
<1>2. FlightInv'
  BY <1>1 DEF VcInv, FlightInv
<1>3. PackInv'
  BY <1>1, PackKept
<1>4. VcType'
  <2>1. /\ items' \subseteq Key
        /\ listener' \in [pc : {"down", "wait", "warm", "enqueue"}, todo : SUBSET Key, asked : SUBSET Key]
    BY DEF VcInv, VcType, Disconnect, ChangeItems, ListenPlaylist, Notified, WarmWait, EnqueueRefresh,
           NotifyPlaylistChanged, NotifyFails, EnqueueFails, ListenBreaks, wVars, IdleListener
  <2>2. notes' \in Nat /\ owed' \in Nat
    BY DEF VcInv, VcType, Disconnect, ChangeItems, ListenPlaylist, Notified, WarmWait, EnqueueRefresh,
           NotifyPlaylistChanged, NotifyFails, EnqueueFails, ListenBreaks, wVars
  <2>3. dirty' \in BOOLEAN /\ deaf' \in BOOLEAN
    BY Zenon DEF VcInv, VcType, Disconnect, ChangeItems, ListenPlaylist, Notified, WarmWait, EnqueueRefresh,
           NotifyPlaylistChanged, NotifyFails, EnqueueFails, ListenBreaks, wVars
  <2> QED
    BY <1>1, <2>1, <2>2, <2>3 DEF VcInv, VcType
<1>5. NoLostRefresh'
  <2>1. notes \in Nat /\ owed \in Nat
    BY DEF VcInv, VcType
  <2>2. dirty /\ ~deaf => owed + notes > 0 \/ listener.pc \in {"warm", "enqueue"}
    BY DEF VcInv, NoLostRefresh
  <2>3. CASE \E S \in SUBSET Key : ChangeItems(S)
    <3>1. owed' = owed + 1 /\ notes' = notes
      BY <2>3 DEF ChangeItems
    <3>2. owed' + notes' > 0
      BY <2>1, <3>1
    <3> QED
      BY <3>2 DEF NoLostRefresh
  <2>4. CASE NotifyPlaylistChanged /\ listener.pc # "down"
    <3>1. notes' = notes + 1 /\ owed > 0 /\ owed' = owed - 1
      BY <2>4 DEF NotifyPlaylistChanged
    <3>2. owed' + notes' > 0
      BY <2>1, <3>1
    <3> QED
      BY <3>2 DEF NoLostRefresh
  <2>5. CASE (NotifyPlaylistChanged /\ listener.pc = "down") \/ NotifyFails \/ EnqueueFails
    <3>1. deaf'
      BY <2>5 DEF NotifyPlaylistChanged, NotifyFails, EnqueueFails
    <3> QED
      BY <3>1 DEF NoLostRefresh
  <2>6. CASE EnqueueRefresh
    <3>1. ~dirty'
      BY <2>6 DEF EnqueueRefresh
    <3> QED
      BY <3>1 DEF NoLostRefresh
  <2>7. CASE Notified \/ WarmWait
    <3>1. listener'.pc \in {"warm", "enqueue"}
      BY <2>7 DEF Notified, WarmWait, VcInv, VcType
    <3> QED
      BY <3>1 DEF NoLostRefresh
  <2>8. CASE ListenBreaks
    <3>1. /\ listener.pc = "wait" /\ deaf' = (deaf \/ notes > 0) /\ notes' = 0
          /\ UNCHANGED <<owed, dirty>>
      BY <2>8 DEF ListenBreaks
    <3>2. notes > 0 \/ owed + notes = owed' + notes'
      BY <2>1, <3>1
    <3> QED
      BY <2>2, <3>1, <3>2 DEF NoLostRefresh
  <2>9. CASE ListenPlaylist \/ \E c \in Anyone : Disconnect(c)
    <3>1. UNCHANGED <<owed, notes, dirty, deaf>> /\ (listener' = listener \/ listener.pc = "down")
      BY <2>9 DEF ListenPlaylist, Disconnect, wVars
    <3> QED
      BY <2>2, <3>1 DEF NoLostRefresh
  <2> QED
    BY <2>3, <2>4, <2>5, <2>6, <2>7, <2>8, <2>9
<1>6. WarmInv'
  <2>1. CASE Notified
    <3>1. /\ listener' = [pc |-> "warm", todo |-> items, asked |-> items] /\ listener.pc = "wait"
          /\ bad' = {k \in bad : flight[k].leader # NoOne}
      BY <2>1 DEF Notified
    <3>2. \A w \in Warmer : caller[w].pc = "idle"
      BY <3>1 DEF VcInv, WarmInv
    <3>3. \A c \in Anyone : caller[c].pc \in {"close", "delete"} => flight[caller[c].k].leader # NoOne
      BY VcAssumption DEF VcInv, FlightInv, Leading, Anyone
    <3>4. \A c \in Anyone : caller[c].res = "ok" /\ caller[c].pc \in {"close", "delete"}
                            => caller[c].k \in vcache \cup bad'
      BY <3>1, <3>3 DEF VcInv, WarmInv
    <3> QED
      BY <1>1, <3>1, <3>2, <3>4 DEF WarmInv
  <2>2. CASE WarmWait
    <3>1. /\ listener.pc = "warm" /\ listener.todo = {} /\ \A w \in Warmer : caller[w].pc = "idle"
          /\ listener'.pc = "enqueue" /\ listener'.asked = listener.asked /\ UNCHANGED bad
      BY <2>2 DEF WarmWait, VcInv, VcType
    <3>2. listener.asked \subseteq vcache \cup bad
      BY <3>1 DEF VcInv, WarmInv
    <3> QED
      BY <1>1, <3>1, <3>2 DEF VcInv, WarmInv
  <2>3. CASE ListenPlaylist \/ EnqueueRefresh \/ EnqueueFails \/ ListenBreaks
    <3>1. listener.pc # "warm" /\ listener'.pc \in {"down", "wait"} /\ UNCHANGED bad
      BY <2>3 DEF ListenPlaylist, EnqueueRefresh, EnqueueFails, ListenBreaks, IdleListener
    <3> QED
      BY <1>1, <3>1 DEF VcInv, WarmInv
  <2>4. CASE UNCHANGED <<listener, bad>>
    BY <1>1, <2>4 DEF VcInv, WarmInv
  <2> QED
    BY <2>1, <2>2, <2>3, <2>4 DEF Disconnect, ChangeItems, NotifyPlaylistChanged, NotifyFails, wVars
<1> QED
  BY <1>2, <1>3, <1>4, <1>5, <1>6 DEF VcInv

LEMMA VcInvNext == VcInv /\ [VcNext]_vcVars => VcInv'
<1> SUFFICES ASSUME VcInv, [VcNext]_vcVars PROVE VcInv'
  OBVIOUS
<1>1. ASSUME NEW c \in Anyone, VariantGet(c) PROVE VcInv'
  BY <1>1, LookupKeeps DEF VariantGet
<1>2. ASSUME NEW c \in Anyone, LeaderFails(c) PROVE VcInv'
  BY <1>2, ExcusedKeeps DEF LeaderFails
<1>3. CASE UNCHANGED vcVars
  <2>1. UNCHANGED <<vcache, flight, caller, gone, items, listener, notes, owed, dirty, deaf, bad,
                    drives, excuse>>
    BY <1>3 DEF vcVars
  <2> QED
    BY <2>1 DEF VcInv, VcType, FlightInv, PackInv, Paid, WarmInv, NoLostRefresh
<1>4. ASSUME NEW c \in Anyone, CallerStep(c) PROVE VcInv'
  BY <1>1, <1>4, EnterKeeps, RecheckKeeps, LoadBlobKeeps, RenderVariantKeeps, VariantPutKeeps,
     CloseKeeps, DeleteCallKeeps, AnswerVariantKeeps DEF CallerStep
<1>5. CASE ListenerStep
  BY <1>5, WarmerKeeps, WarmSpawnKeeps DEF ListenerStep
<1> QED
  BY <1>2, <1>3, <1>4, <1>5, MissKeeps, BeginKeeps, GCKeeps, WarmerKeeps DEF VcNext

LEMMA VcStep == ASSUME VcInv, VcInv' PROVE VariantStep
<1>1. FlightLed'
  <2>1. \A k \in Key : flight'[k].leader # NoOne =>
          /\ caller'[flight'[k].leader].k = k
          /\ caller'[flight'[k].leader].pc \in Leading
    BY DEF VcInv, FlightInv
  <2>2. \A c \in Anyone : caller'[c].pc = "wait" => flight'[caller'[c].k].res = "open"
                                                    /\ flight'[caller'[c].k].leader # NoOne
    BY DEF VcInv, FlightInv
  <2> QED
    BY <2>1, <2>2 DEF FlightLed, Leading
<1>2. PackOnce'
  <2>1. \A k \in Key : drives'[k] \in Nat /\ excuse'[k] \in Nat /\ drives'[k] <= excuse'[k] + 1
    BY DEF VcInv, VcType, PackInv
  <2> QED
    BY <2>1 DEF PackOnce
<1>3. WarmBeforeWake
  BY DEF VcInv, WarmInv, WarmBeforeWake, EnqueueRefresh
<1> QED
  BY <1>1, <1>2, <1>3 DEF VcInv, VariantStep

\* For any number of variants, requests and warmer goroutines: the single
\* flight is led and left by whoever entered it, a variant is packed once per
\* reason, no edit is left without a refresh, and devices are woken after the
\* variants are packed.
THEOREM VariantsAreSound == VcSpec => VariantsSound
<1>1. VcSpec => []VcInv
  BY VcInvInit, VcInvNext, PTL DEF VcSpec
<1>2. VcInv /\ VcInv' => [VariantStep]_vcVars
  BY VcStep
<1> QED
  BY <1>1, <1>2, PTL DEF VariantsSound

-----------------------------------------------------------------------------
(* Render.                                                                 *)

LEMMA IdleJobType == IdleJob \in Call /\ IdleJob.pc = "idle" /\ IdleJob.ser = NoSerial
                     /\ IdleJob.todo = {} /\ ~IdleJob.fan /\ ~IdleJob.had
                     /\ IdleJob.ans = "none"
BY RdAssumption DEF IdleJob, Call, Frame, NoFrame

LEMMA NoFrameType == NoFrame \in Frame /\ NoFrame.ver = 0
BY RdAssumption DEF NoFrame, Frame

LEMMA RdInvInit == RdInit => RdInv
<1> SUFFICES ASSUME RdInit PROVE RdInv
  OBVIOUS
<1>1. fn \in [ver : 1..MaxVer, on : BOOLEAN, mode : {"sync", "timer", "webhook"}, inv : BOOLEAN,
              live : BOOLEAN]
  <2>1. 1 \in 1..MaxVer
    BY RdAssumption
  <2>2. fn \in [ver : {1}, on : {TRUE}, mode : {"sync", "timer", "webhook"}, inv : BOOLEAN,
               live : {TRUE}]
    BY DEF RdInit
  <2>3. {TRUE} \subseteq BOOLEAN /\ {1} \subseteq 1..MaxVer
    BY <2>1
  <2> QED
    BY <2>2, <2>3
<1>2. lastGood \in [Serial -> Frame]
  BY RdAssumption, NoFrameType DEF RdInit, Frame
<1>3. RdType
  BY <1>1, <1>2, RdAssumption, NoFrameType, IdleJobType DEF RdInit, RdType, Cold
<1>4. CacheInv
  BY DEF RdInit, CacheInv, Cold
<1>5. CallInv
  BY IdleJobType DEF RdInit, CallInv, CallOK
<1>6. CredsOfCalls /\ OwnedInv
  BY IdleJobType DEF RdInit, CredsOfCalls, OwnedInv, LastGoodOwned, CallOwned
<1> QED
  BY <1>3, <1>4, <1>5, <1>6 DEF RdInv

\* One call moves to x; the function and the bindings stay, and no last-good
\* row goes.
LEMMA JobMoves ==
  ASSUME RdInv, NEW j \in Jobs, NEW x \in Call, job' = [job EXCEPT ![j] = x],
         CallOK(x)', fn.live => CallOwned(x), UNCHANGED <<fn, bound, forgot>>,
         \A s \in Serial : lastGood[s] # NoFrame => lastGood'[s] # NoFrame,
         creds' \subseteq Jobs, creds' \ leaked' \subseteq (creds \ leaked) \cup {j},
         j \in creds' \ leaked' => x.pc = "drive"
  PROVE  /\ job' \in [Jobs -> Call] /\ CallInv' /\ CredsOfCalls'
         /\ fn'.live => \A i \in Jobs : CallOwned(job[i])'
<1>1. /\ job' \in [Jobs -> Call] /\ job'[j] = x /\ \A i \in Jobs \ {j} : job'[i] = job[i]
  BY DEF RdInv, RdType
<1>2. ASSUME NEW i \in Jobs PROVE CallOK(job[i])'
  <2>1. CASE i = j
    BY <1>1, <2>1 DEF CallOK, FrameOf
  <2>2. CASE i # j
    <3>1. job'[i] = job[i] /\ CallOK(job[i])
      BY <1>1, <2>2 DEF RdInv, CallInv
    <3> QED
      BY <3>1 DEF CallOK, FrameOf
  <2> QED
    BY <2>1, <2>2
<1>3. CredsOfCalls'
  BY <1>1 DEF RdInv, CredsOfCalls
<1>4. ASSUME fn'.live, NEW i \in Jobs PROVE CallOwned(job[i])'
  BY <1>1, <1>4 DEF RdInv, OwnedInv, CallOwned
<1> QED
  BY <1>1, <1>2, <1>3, <1>4 DEF CallInv

\* ... and the caches and rows stay as well.
LEMMA JobAlone ==
  ASSUME RdInv, NEW j \in Jobs, NEW x \in Call, job' = [job EXCEPT ![j] = x],
         CallOK(x), fn.live => CallOwned(x),
         UNCHANGED <<fn, bound, hot, shared, lastGood, forgot>>,
         creds' \subseteq Jobs, creds' \ leaked' \subseteq (creds \ leaked) \cup {j},
         j \in creds' \ leaked' => x.pc = "drive"
  PROVE  RdInv'
<1>1. CallOK(x)'
  BY DEF CallOK, FrameOf
<1>2. /\ job' \in [Jobs -> Call] /\ CallInv' /\ CredsOfCalls'
      /\ fn'.live => \A i \in Jobs : CallOwned(job[i])'
  BY <1>1, JobMoves
<1>3. RdType' /\ CacheInv' /\ LastGoodOwned'
  BY <1>2 DEF RdInv, RdType, CacheInv, FrameOf, OwnedInv, LastGoodOwned
<1> QED
  BY <1>2, <1>3 DEF RdInv, OwnedInv

\* Two states of one call: what it was asked for stays.
SameCall(x, r) == /\ x.fan = r.fan /\ x.ser = r.ser /\ x.ver = r.ver /\ x.inv = r.inv
                  /\ x.todo = r.todo /\ x.had = r.had

\* The calls as a step leaves them, one lemma for each way a step assigns job.
LEMMA JobAtStep ==
  ASSUME RdInv, NEW j \in Jobs, NEW pc, JobAt(j, pc),
         pc \in {"register", "drive", "stored", "persist", "seed", "fallback", "durable"}
  PROVE  \E x \in Call : /\ job' = [job EXCEPT ![j] = x] /\ SameCall(x, job[j]) /\ x.pc = pc
                         /\ x.frame = job[j].frame /\ x.ans = job[j].ans
<1> DEFINE r == job[j]
           x == [r EXCEPT !.pc = pc]
<1>1. r \in Call /\ job \in [Jobs -> Call]
  BY DEF RdInv, RdType
<1>2. job' = [job EXCEPT ![j] = x]
  BY <1>1 DEF JobAt
<1>3. x \in Call /\ SameCall(x, r) /\ x.pc = pc /\ x.frame = r.frame /\ x.ans = r.ans
  BY <1>1 DEF Call, SameCall
<1> HIDE DEF x
<1> QED
  BY <1>2, <1>3

LEMMA JobAnswerStep ==
  ASSUME RdInv, NEW j \in Jobs, NEW ans \in {"ok", "stale", "error"}, NEW f \in Frame,
         JobAnswer(j, ans, f)
  PROVE  \E x \in Call : /\ job' = [job EXCEPT ![j] = x] /\ SameCall(x, job[j]) /\ x.pc = "answer"
                         /\ x.frame = f /\ x.ans = ans
<1> DEFINE r == job[j]
           x == [r EXCEPT !.pc = "answer", !.ans = ans, !.frame = f]
<1>1. r \in Call /\ job \in [Jobs -> Call]
  BY DEF RdInv, RdType
<1>2. job' = [job EXCEPT ![j] = x]
  BY <1>1 DEF JobAnswer
<1>3. x \in Call /\ SameCall(x, r) /\ x.pc = "answer" /\ x.frame = f /\ x.ans = ans
  BY <1>1 DEF Call, SameCall
<1> HIDE DEF x
<1> QED
  BY <1>2, <1>3

LEMMA JobFrameStep ==
  ASSUME RdInv, NEW j \in Jobs, NEW f \in Frame,
         job' = [job EXCEPT ![j].pc = "stored", ![j].frame = f]
  PROVE  \E x \in Call : /\ job' = [job EXCEPT ![j] = x] /\ SameCall(x, job[j]) /\ x.pc = "stored"
                         /\ x.frame = f /\ x.ans = job[j].ans
<1> DEFINE r == job[j]
           x == [r EXCEPT !.pc = "stored", !.frame = f]
<1>1. r \in Call /\ job \in [Jobs -> Call]
  BY DEF RdInv, RdType
<1>2. job' = [job EXCEPT ![j] = x]
  BY <1>1
<1>3. x \in Call /\ SameCall(x, r) /\ x.pc = "stored" /\ x.frame = f /\ x.ans = r.ans
  BY <1>1 DEF Call, SameCall
<1> HIDE DEF x
<1> QED
  BY <1>2, <1>3

LEMMA FanOnStep ==
  ASSUME RdInv, NEW j \in Jobs, FanOn(j)
  PROVE  \E x \in Call : /\ job' = [job EXCEPT ![j] = x] /\ x.pc = "next" /\ x.ser = NoSerial
                         /\ x.fan = job[j].fan /\ x.ver = job[j].ver /\ x.inv = job[j].inv
                         /\ x.todo = job[j].todo /\ x.had = job[j].had
<1> DEFINE r == job[j]
           x == [r EXCEPT !.pc = "next", !.ser = NoSerial, !.frame = NoFrame]
<1>1. r \in Call /\ job \in [Jobs -> Call]
  BY DEF RdInv, RdType
<1>2. job' = [job EXCEPT ![j] = x]
  BY <1>1 DEF FanOn
<1>3. x \in Call /\ x.pc = "next" /\ x.ser = NoSerial /\ x.fan = r.fan /\ x.ver = r.ver
      /\ x.inv = r.inv /\ x.todo = r.todo /\ x.had = r.had
  BY <1>1, NoFrameType DEF Call
<1> HIDE DEF x
<1> QED
  BY <1>2, <1>3

\* A call that holds no credential moves to x, and nothing else does.
LEMMA JobOnly ==
  ASSUME RdInv, NEW j \in Jobs, NEW x \in Call, job' = [job EXCEPT ![j] = x],
         CallOK(x), fn.live => CallOwned(x), job[j].pc # "drive",
         UNCHANGED <<fn, bound, hot, shared, lastGood, creds, leaked, forgot>>
  PROVE  RdInv'
<1>1. creds' \subseteq Jobs /\ j \notin creds' \ leaked'
  BY DEF RdInv, RdType, CredsOfCalls
<1> QED
  BY <1>1, JobAlone

LEMMA LookupRdKeeps == ASSUME RdInv, NEW j \in Jobs, CacheLookup(j) PROVE RdInv'
<1> DEFINE r == job[j]
<1>1. /\ r \in Call /\ CallOK(r) /\ (fn.live => CallOwned(r))
  BY DEF RdInv, RdType, CallInv, OwnedInv
<1>2. /\ r.pc = "cache" /\ r.ser \in Serial /\ r.ver \in 1..MaxVer /\ r.inv = fn.inv
      /\ UNCHANGED <<fn, bound, shared, lastGood, creds, leaked, forgot>>
  BY <1>1 DEF CacheLookup, CallOK
<1>3. hot[r.ser].frame \in Frame /\ shared[r.ver].frame \in Frame /\ j \notin creds \ leaked
      /\ creds \subseteq Jobs
  BY <1>2 DEF RdInv, RdType, CredsOfCalls
<1>4. CASE Hit(j) /\ JobAnswer(j, "ok", hot[r.ser].frame) /\ UNCHANGED hot
  <2>1. FrameOf(hot[r.ser].frame, r.ser, r.ver)
    BY <1>2, <1>4 DEF Hit, RdInv, CacheInv
  <2>2. PICK f \in Frame : f = hot[r.ser].frame
    BY <1>3
  <2>3. JobAnswer(j, "ok", f)
    BY <1>4, <2>2
  <2>4. PICK x \in Call : /\ job' = [job EXCEPT ![j] = x] /\ SameCall(x, r) /\ x.pc = "answer"
                          /\ x.frame = f /\ x.ans = "ok"
    BY <2>3, JobAnswerStep
  <2>5. CallOK(x) /\ (fn.live => CallOwned(x))
    BY <1>1, <1>2, <2>1, <2>2, <2>4 DEF CallOK, CallOwned, SameCall, FrameOf
  <2> QED
    BY <1>2, <1>4, <2>4, <2>5, JobOnly
<1>5. CASE ~Hit(j) /\ ~SharedHit(j) /\ JobAt(j, "register") /\ UNCHANGED hot
  <2>1. PICK x \in Call : /\ job' = [job EXCEPT ![j] = x] /\ SameCall(x, r) /\ x.pc = "register"
                          /\ x.frame = r.frame /\ x.ans = r.ans
    BY <1>5, JobAtStep
  <2>2. CallOK(x) /\ (fn.live => CallOwned(x))
    BY <1>1, <1>2, <2>1 DEF CallOK, CallOwned, SameCall
  <2> QED
    BY <1>2, <1>5, <2>1, <2>2, JobOnly
<1>6. ASSUME SharedHit(j), NEW f, f = shared[r.ver].frame, JobAnswer(j, "ok", f),
             hot' = [hot EXCEPT ![r.ser] = [frame |-> f, key |-> r.ver, fresh |-> TRUE]]
      PROVE  RdInv'
  <2>1. f \in Frame /\ FrameOf(f, r.ser, r.ver)
    BY <1>2, <1>3, <1>6 DEF SharedHit, RdInv, CacheInv, FrameOf
  <2>2. PICK x \in Call : /\ job' = [job EXCEPT ![j] = x] /\ SameCall(x, r) /\ x.pc = "answer"
                          /\ x.frame = f /\ x.ans = "ok"
    BY <1>6, <2>1, JobAnswerStep
  <2>3. CallOK(x)' /\ (fn.live => CallOwned(x))
    BY <1>1, <1>2, <2>1, <2>2 DEF CallOK, CallOwned, SameCall, FrameOf
  <2>4. /\ job' \in [Jobs -> Call] /\ CallInv' /\ CredsOfCalls'
        /\ fn'.live => \A i \in Jobs : CallOwned(job[i])'
    BY <1>2, <1>3, <2>2, <2>3, JobMoves
  <2>5. hot' \in [Serial -> [frame : Frame, key : 0..MaxVer, fresh : BOOLEAN]]
    <3>1. [frame |-> f, key |-> r.ver, fresh |-> TRUE] \in [frame : Frame, key : 0..MaxVer, fresh : BOOLEAN]
      BY <1>2, <2>1
    <3> QED
      BY <1>6, <3>1 DEF RdInv, RdType
  <2>6. CacheInv'
    BY <1>2, <1>6, <2>1 DEF RdInv, RdType, CacheInv, FrameOf
  <2> QED
    BY <1>2, <2>4, <2>5, <2>6 DEF RdInv, RdType, OwnedInv, LastGoodOwned
<1> QED
  BY <1>4, <1>5, <1>6 DEF CacheLookup

LEMMA RegisterKeeps ==
  ASSUME RdInv, NEW j \in Jobs, EgressRegister(j) \/ RenderRefused(j) PROVE RdInv'
<1> DEFINE r == job[j]
<1>1. r \in Call /\ CallOK(r) /\ (fn.live => CallOwned(r))
  BY DEF RdInv, RdType, CallInv, OwnedInv
<1>2. PICK pc \in {"drive", "fallback"} : /\ JobAt(j, pc)
                                          /\ IF EgressRegister(j) THEN pc = "drive" ELSE pc = "fallback"
  <2>1. EgressRegister(j) => JobAt(j, "drive")
    BY DEF EgressRegister
  <2>2. RenderRefused(j) => JobAt(j, "fallback")
    BY DEF RenderRefused
  <2> QED
    BY <2>1, <2>2
<1>3. PICK x \in Call : /\ job' = [job EXCEPT ![j] = x] /\ SameCall(x, r) /\ x.pc = pc
                        /\ x.frame = r.frame /\ x.ans = r.ans
  BY <1>2, JobAtStep
<1>4. r.pc = "register" /\ UNCHANGED <<fn, bound, hot, shared, lastGood, leaked, forgot>>
  BY DEF EgressRegister, RenderRefused
<1>5. CallOK(x) /\ (fn.live => CallOwned(x))
  BY <1>1, <1>2, <1>3, <1>4 DEF CallOK, CallOwned, SameCall
<1>6. CASE EgressRegister(j)
  <2>1. creds' = creds \cup {j} /\ creds \subseteq Jobs /\ x.pc = "drive"
    BY <1>2, <1>3, <1>6 DEF EgressRegister, RdInv, RdType
  <2> QED
    BY <1>3, <1>4, <1>5, <2>1, JobAlone
<1>7. CASE ~EgressRegister(j)
  BY <1>3, <1>4, <1>5, <1>7, JobOnly DEF RenderRefused
<1> QED
  BY <1>6, <1>7

LEMMA DriveKeeps ==
  ASSUME RdInv, NEW j \in Jobs, DriveWorker(j) \/ UnregisterLost(j) PROVE RdInv'
<1> DEFINE r == job[j]
<1>1. r \in Call /\ CallOK(r) /\ (fn.live => CallOwned(r))
  BY DEF RdInv, RdType, CallInv, OwnedInv
<1>2. r.pc = "drive" /\ r.ser \in Serial /\ r.ver \in 1..MaxVer /\ r.inv = fn.inv
      /\ UNCHANGED <<fn, bound, hot, shared, lastGood, forgot>>
  BY <1>1 DEF DriveWorker, UnregisterLost, CallOK
<1>3. /\ creds' \subseteq Jobs /\ creds' \ leaked' \subseteq creds \ leaked
      /\ j \notin creds' \ leaked'
  BY DEF DriveWorker, UnregisterLost, RdInv, RdType
<1>4. PICK f \in Frame : f = [ver |-> r.ver, ser |-> r.ser] /\ f.ver = r.ver /\ f.ser = r.ser
  <2>1. r.ver \in 0..MaxVer /\ r.ser \in Serial \cup {NoSerial}
    BY <1>2
  <2>2. [ver |-> r.ver, ser |-> r.ser] \in Frame
    BY <2>1 DEF Frame
  <2> QED
    BY <2>2
<1>5. CASE job' = [job EXCEPT ![j].pc = "stored", ![j].frame = f]
  <2>1. PICK x \in Call : /\ job' = [job EXCEPT ![j] = x] /\ SameCall(x, r) /\ x.pc = "stored"
                          /\ x.frame = f /\ x.ans = r.ans
    BY <1>5, JobFrameStep
  <2>2. CallOK(x) /\ (fn.live => CallOwned(x))
    BY <1>1, <1>2, <1>4, <2>1 DEF CallOK, CallOwned, SameCall, FrameOf
  <2> QED
    BY <1>2, <1>3, <2>1, <2>2, JobAlone
<1>6. CASE JobAt(j, "fallback")
  <2>1. PICK x \in Call : /\ job' = [job EXCEPT ![j] = x] /\ SameCall(x, r) /\ x.pc = "fallback"
                          /\ x.frame = r.frame /\ x.ans = r.ans
    BY <1>6, JobAtStep
  <2>2. CallOK(x) /\ (fn.live => CallOwned(x))
    BY <1>1, <1>2, <2>1 DEF CallOK, CallOwned, SameCall
  <2> QED
    BY <1>2, <1>3, <2>1, <2>2, JobAlone
<1> QED
  BY <1>4, <1>5, <1>6 DEF DriveWorker, UnregisterLost

LEMMA AnswersKeep ==
  ASSUME RdInv, NEW j \in Jobs, PutFails(j) \/ Fallback(j) \/ LastGoodGet(j) PROVE RdInv'
<1> DEFINE r == job[j]
<1>1. r \in Call /\ CallOK(r) /\ (fn.live => CallOwned(r)) /\ r.frame \in Frame
  BY DEF RdInv, RdType, CallInv, OwnedInv, Call
<1>2. /\ r.pc \in {"persist", "fallback", "durable"} /\ r.ser \in Serial
      /\ UNCHANGED <<fn, bound, hot, shared, lastGood, creds, leaked, forgot>>
  BY <1>1 DEF PutFails, Fallback, LastGoodGet, CallOK
<1>3. hot[r.ser].frame \in Frame /\ lastGood[r.ser] \in Frame
  BY <1>2 DEF RdInv, RdType
<1>4. ASSUME NEW f \in Frame, NEW ans \in {"ok", "stale", "error"}, JobAnswer(j, ans, f),
             ans = "ok" => r.pc = "persist" /\ f = r.frame,
             ans = "error" => ~r.had
      PROVE  RdInv'
  <2>1. PICK x \in Call : /\ job' = [job EXCEPT ![j] = x] /\ SameCall(x, r) /\ x.pc = "answer"
                          /\ x.frame = f /\ x.ans = ans
    BY <1>4, JobAnswerStep
  <2>2. CallOK(x) /\ (fn.live => CallOwned(x))
    BY <1>1, <1>2, <1>4, <2>1 DEF CallOK, CallOwned, SameCall, FrameOf
  <2> QED
    BY <1>2, <2>1, <2>2, JobOnly
<1>5. CASE PutFails(j)
  <2>1. JobAnswer(j, "ok", r.frame) /\ r.pc = "persist"
    BY <1>5 DEF PutFails
  <2>2. PICK f \in Frame : f = r.frame
    BY <1>1
  <2> QED
    BY <1>4, <2>1, <2>2
<1>6. CASE Fallback(j)
  <2>1. CASE JobAnswer(j, "stale", hot[r.ser].frame)
    <3>1. PICK f \in Frame : f = hot[r.ser].frame
      BY <1>3
    <3> QED
      BY <1>4, <2>1, <3>1
  <2>2. CASE JobAt(j, "durable")
    <3>1. PICK x \in Call : /\ job' = [job EXCEPT ![j] = x] /\ SameCall(x, r) /\ x.pc = "durable"
                            /\ x.frame = r.frame /\ x.ans = r.ans
      BY <2>2, JobAtStep
    <3>2. CallOK(x) /\ (fn.live => CallOwned(x))
      BY <1>1, <1>2, <3>1 DEF CallOK, CallOwned, SameCall
    <3> QED
      BY <1>2, <3>1, <3>2, JobOnly
  <2> QED
    BY <1>6, <2>1, <2>2 DEF Fallback
<1>7. CASE LastGoodGet(j)
  <2>1. PICK f \in Frame : f = lastGood[r.ser]
    BY <1>3
  <2>2. PICK ans \in {"stale", "error"} : ans = IF f = NoFrame THEN "error" ELSE "stale"
    OBVIOUS
  <2>3. JobAnswer(j, ans, f)
    BY <1>7, <2>1, <2>2 DEF LastGoodGet
  <2>4. ans = "error" => ~r.had
    BY <1>1, <2>1, <2>2 DEF CallOK
  <2> QED
    BY <1>4, <2>3, <2>4
<1> QED
  BY <1>5, <1>6, <1>7

LEMMA IdleKeeps ==
  ASSUME RdInv, NEW j \in Jobs, Respond(j) \/ FanEnd(j) PROVE RdInv'
<1>1. job' = [job EXCEPT ![j] = IdleJob] /\ job[j].pc # "drive"
      /\ UNCHANGED <<fn, bound, hot, shared, lastGood, creds, leaked, forgot>>
  BY DEF Respond, FanEnd, Set
<1>2. CallOK(IdleJob) /\ CallOwned(IdleJob)
  BY IdleJobType DEF CallOK, CallOwned
<1> QED
  BY <1>1, <1>2, IdleJobType, JobOnly

LEMMA RequestKeeps ==
  ASSUME RdInv, NEW j \in Jobs, NEW s \in Serial, Request(j, s) PROVE RdInv'
<1>1. /\ job[j].pc = "idle" /\ s \in bound /\ fn.live
      /\ UNCHANGED <<fn, bound, hot, shared, lastGood, creds, leaked, forgot>>
  BY DEF Request
<1>2. fn.ver \in 1..MaxVer /\ fn.ver \in 0..MaxVer /\ fn.inv \in BOOLEAN
  BY DEF RdInv, RdType
<1> DEFINE had == lastGood[s] # NoFrame
           y == [IdleJob EXCEPT !.ser = s, !.had = had]
           a == [y EXCEPT !.pc = "cache", !.ver = fn.ver, !.inv = fn.inv]
           b == [y EXCEPT !.pc = "durable"]
<1>h. had \in BOOLEAN
  OBVIOUS
<1> HIDE DEF had
<1>3. /\ y \in Call /\ y.ser = s /\ y.had = had /\ ~y.fan /\ y.todo = {} /\ y.ans = "none"
  BY <1>h, IdleJobType DEF Call
<1> HIDE DEF y
<1>4. /\ a \in Call /\ a.pc = "cache" /\ a.ver = fn.ver /\ a.inv = fn.inv /\ a.ser = s
      /\ a.had = had /\ ~a.fan /\ a.todo = {} /\ a.ans = "none"
  BY <1>2, <1>3 DEF Call
<1>5. /\ b \in Call /\ b.pc = "durable" /\ b.ser = s
      /\ b.had = had /\ ~b.fan /\ b.todo = {} /\ b.ans = "none"
  BY <1>2, <1>3 DEF Call
<1>6. job' = [job EXCEPT ![j] = a] \/ job' = [job EXCEPT ![j] = b]
  BY DEF Request, Set, y, had
<1> HIDE DEF a, b
<1>7. PICK x \in {a, b} : job' = [job EXCEPT ![j] = x]
  BY <1>6
<1>8. x \in Call /\ CallOK(x) /\ CallOwned(x)
  BY <1>1, <1>2, <1>4, <1>5 DEF CallOK, CallOwned, had
<1> QED
  BY <1>1, <1>7, <1>8, JobOnly

LEMMA FanStartKeeps == ASSUME RdInv, NEW j \in Jobs, FanStart(j) PROVE RdInv'
<1>1. /\ job[j].pc = "idle" /\ fn.live
      /\ UNCHANGED <<fn, bound, hot, shared, lastGood, creds, leaked, forgot>>
  BY DEF FanStart
<1>2. fn.ver \in 1..MaxVer /\ fn.ver \in 0..MaxVer /\ fn.inv \in BOOLEAN /\ bound \in SUBSET Serial
  BY DEF RdInv, RdType
<1> DEFINE x == [IdleJob EXCEPT !.pc = "next", !.fan = TRUE, !.ver = fn.ver, !.inv = fn.inv,
                                !.todo = bound]
<1>3. /\ x \in Call /\ x.pc = "next" /\ x.fan /\ x.ver = fn.ver /\ x.inv = fn.inv /\ x.todo = bound
      /\ x.ser = NoSerial /\ ~x.had
  BY <1>2, IdleJobType DEF Call
<1>4. job' = [job EXCEPT ![j] = x]
  BY DEF FanStart, Set
<1> HIDE DEF x
<1>5. CallOK(x) /\ CallOwned(x)
  BY <1>2, <1>3 DEF CallOK, CallOwned
<1> QED
  BY <1>1, <1>3, <1>4, <1>5, JobOnly

LEMMA FanNextKeeps ==
  ASSUME RdInv, NEW j \in Jobs, NEW s \in Serial, FanNext(j, s) PROVE RdInv'
<1> DEFINE r == job[j]
<1>1. r \in Call /\ CallOK(r) /\ (fn.live => CallOwned(r)) /\ job \in [Jobs -> Call]
  BY DEF RdInv, RdType, CallInv, OwnedInv
<1>2. /\ r.pc = "next" /\ s \in r.todo /\ r.ver \in 1..MaxVer /\ r.inv = fn.inv /\ r.fan
      /\ UNCHANGED <<fn, bound, hot, shared, lastGood, creds, leaked, forgot>>
  BY <1>1 DEF FanNext, CallOK
<1>3. shared[r.ver].frame \in Frame /\ NoFrame \in Frame
  BY <1>2, NoFrameType DEF RdInv, RdType
<1> DEFINE pc == IF SharedHit(j) THEN "stored" ELSE "register"
           f == IF SharedHit(j) THEN shared[r.ver].frame ELSE NoFrame
           x == [r EXCEPT !.todo = @ \ {s}, !.ser = s, !.pc = pc, !.frame = f]
<1>4. job' = [job EXCEPT ![j] = x]
  BY <1>1 DEF FanNext
<1>5. f \in Frame /\ pc \in {"stored", "register"}
  BY <1>3
<1>6. pc = "stored" => FrameOf(f, s, r.ver)
  BY <1>2 DEF SharedHit, FrameOf, RdInv, CacheInv
<1> HIDE DEF f, pc
<1>7. /\ x \in Call /\ x.todo = r.todo \ {s} /\ x.ser = s /\ x.pc = pc /\ x.frame = f
      /\ x.ver = r.ver /\ x.inv = r.inv /\ x.fan = r.fan /\ x.had = r.had /\ x.ans = r.ans
  BY <1>1, <1>5 DEF Call
<1> HIDE DEF x
<1>8. CallOK(x) /\ (fn.live => CallOwned(x))
  BY <1>1, <1>2, <1>5, <1>6, <1>7 DEF CallOK, CallOwned
<1> QED
  BY <1>2, <1>4, <1>7, <1>8, JobOnly

LEMMA FanSkipKeeps == ASSUME RdInv, NEW j \in Jobs, FanSkip(j) PROVE RdInv'
<1> DEFINE r == job[j]
<1>1. r \in Call /\ CallOK(r) /\ (fn.live => CallOwned(r))
  BY DEF RdInv, RdType, CallInv, OwnedInv
<1>2. /\ r.pc \in {"fallback", "stored"} /\ r.ver \in 1..MaxVer /\ r.inv = fn.inv /\ r.fan
      /\ UNCHANGED <<fn, bound, hot, shared, lastGood, creds, leaked, forgot>>
  BY <1>1 DEF FanSkip, CallOK
<1>3. PICK x \in Call : /\ job' = [job EXCEPT ![j] = x] /\ x.pc = "next" /\ x.ser = NoSerial
                        /\ x.fan = r.fan /\ x.ver = r.ver /\ x.inv = r.inv
                        /\ x.todo = r.todo /\ x.had = r.had
  BY FanOnStep DEF FanSkip
<1>4. CallOK(x) /\ (fn.live => CallOwned(x))
  BY <1>1, <1>2, <1>3 DEF CallOK, CallOwned
<1> QED
  BY <1>2, <1>3, <1>4, JobOnly

\* What CachePut and FanSeed write is what the keys say.
LEMMA SeedKeeps ==
  ASSUME RdInv, NEW j \in Jobs, job[j].ser \in Serial, job[j].ver \in 1..MaxVer,
         job[j].inv = fn.inv, FrameOf(job[j].frame, job[j].ser, job[j].ver),
         hot' = [hot EXCEPT ![job[j].ser] = Entry(j, job[j].frame)],
         Publish(j, job[j].frame), UNCHANGED fn
  PROVE  /\ hot' \in [Serial -> [frame : Frame, key : 0..MaxVer, fresh : BOOLEAN]]
         /\ shared' \in [1..MaxVer -> [frame : Frame, fresh : BOOLEAN]]
         /\ CacheInv'
<1>1. PICK f \in Frame, s \in Serial, v \in 1..MaxVer :
        /\ f = job[j].frame /\ s = job[j].ser /\ v = job[j].ver
        /\ FrameOf(f, s, v)
  BY DEF RdInv, RdType, Call
<1>2. /\ hot' = [hot EXCEPT ![s] = [frame |-> f, key |-> v, fresh |-> TRUE]]
      /\ IF fn.inv THEN shared' = [shared EXCEPT ![v] = [frame |-> f, fresh |-> TRUE]]
         ELSE shared' = shared
  BY <1>1 DEF Entry, Publish
<1>3. /\ hot \in [Serial -> [frame : Frame, key : 0..MaxVer, fresh : BOOLEAN]]
      /\ shared \in [1..MaxVer -> [frame : Frame, fresh : BOOLEAN]]
  BY DEF RdInv, RdType
<1>4. /\ [frame |-> f, key |-> v, fresh |-> TRUE] \in [frame : Frame, key : 0..MaxVer, fresh : BOOLEAN]
      /\ [frame |-> f, fresh |-> TRUE] \in [frame : Frame, fresh : BOOLEAN]
  OBVIOUS
<1>5. hot' \in [Serial -> [frame : Frame, key : 0..MaxVer, fresh : BOOLEAN]]
  BY <1>2, <1>3, <1>4
<1>6. shared' \in [1..MaxVer -> [frame : Frame, fresh : BOOLEAN]]
  BY <1>2, <1>3, <1>4
<1>7. \A t \in Serial : hot'[t].key # 0 => FrameOf(hot'[t].frame, t, hot'[t].key)
  BY <1>1, <1>2, <1>3 DEF RdInv, CacheInv
<1>8. \A w \in 1..MaxVer : shared'[w].fresh => shared'[w].frame.ver = w /\ fn.inv
  <2> SUFFICES ASSUME NEW w \in 1..MaxVer, shared'[w].fresh PROVE shared'[w].frame.ver = w /\ fn.inv
    OBVIOUS
  <2>1. shared[w].fresh => shared[w].frame.ver = w /\ fn.inv
    BY DEF RdInv, CacheInv
  <2>2. f.ver = v
    BY <1>1 DEF FrameOf
  <2>3. CASE fn.inv /\ w = v
    BY <1>2, <1>3, <2>2, <2>3
  <2>4. CASE ~fn.inv \/ w # v
    <3>1. shared'[w] = shared[w]
      BY <1>2, <1>3, <2>4
    <3> QED
      BY <2>1, <3>1
  <2> QED
    BY <2>3, <2>4
<1> QED
  BY <1>5, <1>6, <1>7, <1>8 DEF CacheInv, FrameOf

LEMMA CachePutKeeps ==
  ASSUME RdInv, NEW j \in Jobs, CachePut(j) \/ FanSeed(j) PROVE RdInv'
<1> DEFINE r == job[j]
<1>1. r \in Call /\ CallOK(r) /\ (fn.live => CallOwned(r))
  BY DEF RdInv, RdType, CallInv, OwnedInv
<1>2. /\ r.pc \in {"stored", "seed"} /\ (CachePut(j) \/ r.fan)
      /\ r.ser \in Serial /\ r.ver \in 1..MaxVer /\ r.inv = fn.inv
      /\ FrameOf(r.frame, r.ser, r.ver)
      /\ UNCHANGED <<fn, bound, lastGood, creds, leaked, forgot>>
  BY <1>1 DEF CachePut, FanSeed, CallOK
<1>3. /\ hot' = [hot EXCEPT ![r.ser] = Entry(j, r.frame)]
      /\ Publish(j, r.frame)
  BY DEF CachePut, FanSeed
<1>4. /\ hot' \in [Serial -> [frame : Frame, key : 0..MaxVer, fresh : BOOLEAN]]
      /\ shared' \in [1..MaxVer -> [frame : Frame, fresh : BOOLEAN]]
      /\ CacheInv'
  BY <1>2, <1>3, SeedKeeps
<1>5. \E x \in Call : job' = [job EXCEPT ![j] = x] /\ CallOK(x)' /\ (fn.live => CallOwned(x))
  <2>1. CASE CachePut(j)
    <3>1. PICK x \in Call : /\ job' = [job EXCEPT ![j] = x] /\ SameCall(x, r) /\ x.pc = "persist"
                            /\ x.frame = r.frame /\ x.ans = r.ans
      BY <2>1, JobAtStep DEF CachePut
    <3>2. CallOK(x)' /\ (fn.live => CallOwned(x))
      BY <1>1, <1>2, <3>1 DEF CallOK, CallOwned, SameCall, FrameOf
    <3> QED
      BY <3>1, <3>2
  <2>2. CASE ~CachePut(j)
    <3>1. PICK x \in Call : /\ job' = [job EXCEPT ![j] = x] /\ x.pc = "next" /\ x.ser = NoSerial
                            /\ x.fan = r.fan /\ x.ver = r.ver /\ x.inv = r.inv
                            /\ x.todo = r.todo /\ x.had = r.had
      BY <2>2, FanOnStep DEF FanSeed
    <3>2. CallOK(x)' /\ (fn.live => CallOwned(x))
      BY <1>1, <1>2, <2>2, <3>1 DEF CallOK, CallOwned
    <3> QED
      BY <3>1, <3>2
  <2> QED
    BY <2>1, <2>2
<1>6. creds \subseteq Jobs /\ j \notin creds \ leaked
  BY <1>2 DEF RdInv, RdType, CredsOfCalls
<1>7. /\ job' \in [Jobs -> Call] /\ CallInv' /\ CredsOfCalls'
      /\ fn'.live => \A i \in Jobs : CallOwned(job[i])'
  BY <1>2, <1>5, <1>6, JobMoves
<1> QED
  BY <1>2, <1>4, <1>7 DEF RdInv, RdType, OwnedInv, LastGoodOwned

LEMMA StorePutKeeps ==
  ASSUME RdInv, NEW j \in Jobs, LastGoodPut(j) \/ FanPut(j) PROVE RdInv'
<1> DEFINE r == job[j]
<1>1. r \in Call /\ CallOK(r) /\ (fn.live => CallOwned(r)) /\ r.frame \in Frame
  BY DEF RdInv, RdType, CallInv, OwnedInv, Call
<1>2. /\ r.pc \in {"stored", "persist"} /\ (LastGoodPut(j) \/ r.fan)
      /\ r.ser \in Serial /\ r.ver \in 1..MaxVer /\ r.inv = fn.inv
      /\ FrameOf(r.frame, r.ser, r.ver)
      /\ UNCHANGED <<fn, bound, hot, shared, creds, leaked, forgot>>
  BY <1>1 DEF LastGoodPut, FanPut, CallOK
<1>3. lastGood' = Stores(r.ser, r.frame) /\ lastGood \in [Serial -> Frame]
  BY DEF LastGoodPut, FanPut, RdInv, RdType
<1>4. r.frame # NoFrame
  BY <1>2, NoFrameType DEF FrameOf
<1>5. /\ lastGood' \in [Serial -> Frame]
      /\ \A s \in Serial : lastGood[s] # NoFrame => lastGood'[s] # NoFrame
  BY <1>1, <1>2, <1>3, <1>4 DEF Stores
<1>6. \A s \in Serial : lastGood'[s] # NoFrame => s \in bound \cup forgot
  <2>1. \A s \in Serial : lastGood[s] # NoFrame => s \in bound \cup forgot
    BY DEF RdInv, OwnedInv, LastGoodOwned
  <2>2. fn.live => r.ser \in bound \cup forgot
    BY <1>1, <1>2, RdAssumption DEF CallOwned
  <2> QED
    BY <1>2, <1>3, <2>1, <2>2 DEF Stores
<1>7. \E x \in Call : job' = [job EXCEPT ![j] = x] /\ CallOK(x)' /\ (fn.live => CallOwned(x))
  <2>1. CASE LastGoodPut(j)
    <3>1. PICK f \in Frame : f = r.frame
      BY <1>1
    <3>2. JobAnswer(j, "ok", f)
      BY <2>1, <3>1 DEF LastGoodPut
    <3>3. PICK x \in Call : /\ job' = [job EXCEPT ![j] = x] /\ SameCall(x, r) /\ x.pc = "answer"
                            /\ x.frame = f /\ x.ans = "ok"
      BY <3>2, JobAnswerStep
    <3>4. CallOK(x)' /\ (fn.live => CallOwned(x))
      BY <1>1, <1>2, <1>5, <3>1, <3>3 DEF CallOK, CallOwned, SameCall, FrameOf
    <3> QED
      BY <3>3, <3>4
  <2>2. CASE r.fan /\ JobAt(j, "seed")
    <3>1. PICK x \in Call : /\ job' = [job EXCEPT ![j] = x] /\ SameCall(x, r) /\ x.pc = "seed"
                            /\ x.frame = r.frame /\ x.ans = r.ans
      BY <2>2, JobAtStep
    <3>2. CallOK(x)' /\ (fn.live => CallOwned(x))
      BY <1>1, <1>2, <1>5, <2>2, <3>1 DEF CallOK, CallOwned, SameCall, FrameOf
    <3> QED
      BY <3>1, <3>2
  <2>3. CASE r.fan /\ FanOn(j)
    <3>1. PICK x \in Call : /\ job' = [job EXCEPT ![j] = x] /\ x.pc = "next" /\ x.ser = NoSerial
                            /\ x.fan = r.fan /\ x.ver = r.ver /\ x.inv = r.inv
                            /\ x.todo = r.todo /\ x.had = r.had
      BY <2>3, FanOnStep
    <3>2. CallOK(x)' /\ (fn.live => CallOwned(x))
      BY <1>1, <1>2, <2>3, <3>1 DEF CallOK, CallOwned
    <3> QED
      BY <3>1, <3>2
  <2> QED
    BY <2>1, <2>2, <2>3 DEF FanPut
<1>8. creds \subseteq Jobs /\ j \notin creds \ leaked
  BY <1>2 DEF RdInv, RdType, CredsOfCalls
<1>9. /\ job' \in [Jobs -> Call] /\ CallInv' /\ CredsOfCalls'
      /\ fn'.live => \A i \in Jobs : CallOwned(job[i])'
  BY <1>2, <1>5, <1>7, <1>8, JobMoves
<1>10. CacheInv'
  BY <1>2 DEF RdInv, CacheInv, FrameOf
<1> QED
  BY <1>2, <1>5, <1>6, <1>9, <1>10 DEF RdInv, RdType, OwnedInv, LastGoodOwned

\* Edits of the row keep whether the function is invariant.
LEMMA EditKeeps == ASSUME RdInv, Update \/ SetEnabled PROVE RdInv'
<1>1. UNCHANGED <<bound, hot, shared, lastGood, job, creds, leaked, forgot>>
  BY DEF Update, SetEnabled
<1>2. /\ fn' \in [ver : 1..MaxVer, on : BOOLEAN, mode : {"sync", "timer", "webhook"},
                 inv : BOOLEAN, live : BOOLEAN]
      /\ fn'.inv = fn.inv /\ fn'.live = fn.live
  <2>1. CASE Update
    <3>1. fn.ver + 1 \in 1..MaxVer
      BY <2>1, RdAssumption DEF Update, RdInv, RdType
    <3> QED
      BY <2>1, <3>1 DEF Update, RdInv, RdType
  <2>2. CASE SetEnabled
    BY <2>2 DEF SetEnabled, RdInv, RdType
  <2> QED
    BY <2>1, <2>2
<1>3. RdType'
  BY <1>1, <1>2 DEF RdInv, RdType
<1>4. CacheInv' /\ CallInv' /\ CredsOfCalls' /\ OwnedInv'
  BY <1>1, <1>2 DEF RdInv, CacheInv, CallInv, CallOK, FrameOf, CredsOfCalls, OwnedInv, LastGoodOwned,
                    CallOwned
<1> QED
  BY <1>3, <1>4 DEF RdInv

LEMMA WithoutClaim ==
  ASSUME NEW c \in Call
  PROVE  /\ [c EXCEPT !.had = FALSE] \in Call /\ ~[c EXCEPT !.had = FALSE].had
         /\ [c EXCEPT !.had = FALSE].ser = c.ser /\ [c EXCEPT !.had = FALSE].todo = c.todo
BY DEF Call

\* A deletion takes last-good rows and the calls' claims on them together.
LEMMA ForgetKeeps ==
  ASSUME RdInv, NEW S \in SUBSET Serial,
         job' \in [Jobs -> Call], lastGood' \in [Serial -> Frame],
         \A i \in Jobs : /\ job'[i] = job[i] \/ job'[i] = [job[i] EXCEPT !.had = FALSE]
                         /\ job'[i].had => job[i].had /\ job[i].ser \notin S,
         \A s \in Serial \ S : lastGood'[s] = lastGood[s],
         fn'.inv = fn.inv, UNCHANGED <<hot, shared, creds, leaked>>
  PROVE  CacheInv' /\ CallInv' /\ CredsOfCalls'
<1>1. CacheInv' /\ CredsOfCalls'
  <2>1. CacheInv'
    BY DEF RdInv, CacheInv, FrameOf
  <2>2. \A i \in Jobs : job'[i].pc = job[i].pc
    BY DEF RdInv, RdType, Call
  <2>3. CredsOfCalls'
    BY <2>2 DEF RdInv, CredsOfCalls, RdType
  <2> QED
    BY <2>1, <2>3
<1>2. ASSUME NEW i \in Jobs PROVE CallOK(job[i])'
  <2>1. job[i] \in Call /\ job'[i] \in Call /\ CallOK(job[i])
    BY DEF RdInv, RdType, CallInv
  <2>2. /\ job'[i].fan = job[i].fan /\ job'[i].ser = job[i].ser /\ job'[i].ver = job[i].ver
        /\ job'[i].inv = job[i].inv /\ job'[i].todo = job[i].todo /\ job'[i].pc = job[i].pc
        /\ job'[i].frame = job[i].frame /\ job'[i].ans = job[i].ans
    BY <2>1 DEF Call
  <2>3. job'[i].had => job[i].had /\ job[i].ser \notin S
    OBVIOUS
  <2> QED
    BY <2>1, <2>2, <2>3 DEF CallOK, FrameOf
<1> QED
  BY <1>1, <1>2 DEF CallInv

LEMMA DeleteFunctionKeeps == ASSUME RdInv, DeleteFunction PROVE RdInv'
<1>1. /\ UNCHANGED <<hot, shared, creds, leaked, forgot>> /\ bound' = {}
      /\ fn' = [fn EXCEPT !.live = FALSE] /\ lastGood' = [s \in Serial |-> NoFrame]
      /\ job' = [i \in Jobs |-> [job[i] EXCEPT !.had = FALSE]]
  BY DEF DeleteFunction
<1>2. \A i \in Jobs : [job[i] EXCEPT !.had = FALSE] \in Call /\ ~[job[i] EXCEPT !.had = FALSE].had
  BY WithoutClaim DEF RdInv, RdType
<1>3. job' \in [Jobs -> Call] /\ lastGood' \in [Serial -> Frame]
  BY <1>1, <1>2, NoFrameType
<1>4. \A i \in Jobs : /\ job'[i] = job[i] \/ job'[i] = [job[i] EXCEPT !.had = FALSE]
                      /\ ~job'[i].had
  BY <1>1, <1>2
<1>5. /\ fn' \in [ver : 1..MaxVer, on : BOOLEAN, mode : {"sync", "timer", "webhook"},
                 inv : BOOLEAN, live : BOOLEAN]
      /\ fn'.inv = fn.inv /\ ~fn'.live
  BY <1>1 DEF RdInv, RdType
<1>6. CacheInv' /\ CallInv' /\ CredsOfCalls'
  BY <1>1, <1>3, <1>4, <1>5, ForgetKeeps
<1>7. RdType'
  BY <1>1, <1>3, <1>5 DEF RdInv, RdType
<1>8. OwnedInv'
  BY <1>1, <1>5 DEF OwnedInv, LastGoodOwned
<1> QED
  BY <1>6, <1>7, <1>8 DEF RdInv

LEMMA DeleteBindingsKeeps ==
  ASSUME RdInv, NEW s \in Serial, DeleteDeviceBindings(s) PROVE RdInv'
<1>1. /\ UNCHANGED <<fn, hot, shared, creds, leaked>> /\ bound' = bound \ {s}
      /\ lastGood' = [lastGood EXCEPT ![s] = NoFrame] /\ job' = Forget(s)
      /\ forgot' = IF \E j \in Jobs : job[j].ser = s \/ s \in job[j].todo
                   THEN forgot \cup {s} ELSE forgot
  BY DEF DeleteDeviceBindings
<1>2. \A i \in Jobs : [job[i] EXCEPT !.had = FALSE] \in Call /\ job[i] \in Call
  BY WithoutClaim DEF RdInv, RdType
<1>3. job' \in [Jobs -> Call] /\ lastGood' \in [Serial -> Frame]
  BY <1>1, <1>2, NoFrameType DEF Forget, RdInv, RdType
<1>4. \A i \in Jobs : /\ job'[i] = job[i] \/ job'[i] = [job[i] EXCEPT !.had = FALSE]
                      /\ job'[i].had => job[i].had /\ job[i].ser \notin {s}
  <2> SUFFICES ASSUME NEW i \in Jobs
               PROVE  /\ job'[i] = job[i] \/ job'[i] = [job[i] EXCEPT !.had = FALSE]
                      /\ job'[i].had => job[i].had /\ job[i].ser \notin {s}
    OBVIOUS
  <2>1. job'[i] = IF job[i].ser = s THEN [job[i] EXCEPT !.had = FALSE] ELSE job[i]
    BY <1>1 DEF Forget
  <2>2. ~[job[i] EXCEPT !.had = FALSE].had
    BY <1>2, WithoutClaim
  <2> QED
    BY <2>1, <2>2
<1>5. /\ \A t \in Serial \ {s} : lastGood'[t] = lastGood[t]
      /\ lastGood'[s] = NoFrame
  BY <1>1 DEF RdInv, RdType
<1>6. CacheInv' /\ CallInv' /\ CredsOfCalls'
  BY <1>1, <1>3, <1>4, <1>5, ForgetKeeps
<1>7. RdType'
  BY <1>1, <1>3 DEF RdInv, RdType
<1>8. LastGoodOwned'
  BY <1>1, <1>5 DEF RdInv, OwnedInv, LastGoodOwned
<1>9. ASSUME fn'.live, NEW i \in Jobs PROVE CallOwned(job[i])'
  <2>1. job'[i].ser = job[i].ser /\ job'[i].todo = job[i].todo
    BY <1>2, <1>4, WithoutClaim
  <2>2. CallOwned(job[i])
    BY <1>1, <1>9 DEF RdInv, OwnedInv
  <2>3. (bound \cup forgot) \ {s} \subseteq bound' \cup forgot'
    BY <1>1
  <2>4. job[i].ser = s \/ s \in job[i].todo => s \in forgot'
    BY <1>1
  <2> QED
    BY <2>1, <2>2, <2>3, <2>4 DEF CallOwned
<1> QED
  BY <1>6, <1>7, <1>8, <1>9 DEF RdInv, OwnedInv

LEMMA ExpireKeeps == ASSUME RdInv, Expire PROVE RdInv'
<1>1. /\ UNCHANGED <<fn, bound, lastGood, job, creds, leaked, forgot>>
      /\ shared' = [v \in 1..MaxVer |-> [shared[v] EXCEPT !.fresh = FALSE]]
  BY DEF Expire
<1>2. PICK s \in Serial : hot' = [hot EXCEPT ![s].fresh = FALSE]
  BY DEF Expire
<1>3. /\ hot \in [Serial -> [frame : Frame, key : 0..MaxVer, fresh : BOOLEAN]]
      /\ shared \in [1..MaxVer -> [frame : Frame, fresh : BOOLEAN]]
  BY DEF RdInv, RdType
<1>4. \A v \in 1..MaxVer : /\ [shared[v] EXCEPT !.fresh = FALSE] \in [frame : Frame, fresh : BOOLEAN]
                           /\ ~[shared[v] EXCEPT !.fresh = FALSE].fresh
  BY <1>3
<1>5. /\ hot' \in [Serial -> [frame : Frame, key : 0..MaxVer, fresh : BOOLEAN]]
      /\ \A t \in Serial : hot'[t].key = hot[t].key /\ hot'[t].frame = hot[t].frame
  BY <1>2, <1>3
<1>6. /\ shared' \in [1..MaxVer -> [frame : Frame, fresh : BOOLEAN]]
      /\ \A v \in 1..MaxVer : ~shared'[v].fresh
  BY <1>1, <1>4
<1>7. RdType'
  BY <1>1, <1>5, <1>6 DEF RdInv, RdType
<1>8. CacheInv'
  BY <1>1, <1>5, <1>6 DEF RdInv, CacheInv, FrameOf
<1>9. CallInv' /\ CredsOfCalls' /\ OwnedInv'
  BY <1>1 DEF RdInv, CallInv, CallOK, FrameOf, CredsOfCalls, OwnedInv, LastGoodOwned, CallOwned
<1> QED
  BY <1>7, <1>8, <1>9 DEF RdInv

LEMMA RestartKeeps == ASSUME RdInv, Restart PROVE RdInv'
<1>1. /\ UNCHANGED <<fn, bound, lastGood, creds, forgot>> /\ leaked' = leaked \cup creds
      /\ job' = [j \in Jobs |-> IdleJob] /\ hot' = [s \in Serial |-> Cold]
      /\ shared' = [v \in 1..MaxVer |-> [frame |-> NoFrame, fresh |-> FALSE]]
  BY DEF Restart
<1>2. RdType'
  BY <1>1, NoFrameType, IdleJobType, RdAssumption DEF RdInv, RdType, Cold
<1>3. CacheInv'
  BY <1>1 DEF CacheInv, Cold
<1>4. CallInv' /\ CredsOfCalls' /\ OwnedInv'
  BY <1>1, IdleJobType
     DEF RdInv, CallInv, CallOK, CredsOfCalls, OwnedInv, LastGoodOwned, CallOwned
<1> QED
  BY <1>2, <1>3, <1>4 DEF RdInv

LEMMA RdInvNext == RdInv /\ [RdNext]_rdVars => RdInv'
<1> SUFFICES ASSUME RdInv, [RdNext]_rdVars PROVE RdInv'
  OBVIOUS
<1>1. CASE UNCHANGED rdVars
  BY <1>1 DEF rdVars, RdInv, RdType, CacheInv, CallInv, CallOK, FrameOf, CredsOfCalls, OwnedInv,
              LastGoodOwned, CallOwned
<1>2. ASSUME NEW j \in Jobs, JobStep(j) PROVE RdInv'
  BY <1>2, LookupRdKeeps, RegisterKeeps, DriveKeeps, CachePutKeeps, StorePutKeeps, AnswersKeep,
     IdleKeeps, FanNextKeeps, FanSkipKeeps DEF JobStep
<1>3. ASSUME NEW j \in Jobs,
             \/ FanStart(j) \/ FanSkip(j) \/ UnregisterLost(j) \/ RenderRefused(j) \/ PutFails(j)
             \/ \E s \in Serial : Request(j, s)
      PROVE  RdInv'
  BY <1>3, FanStartKeeps, FanSkipKeeps, DriveKeeps, RegisterKeeps, AnswersKeep, RequestKeeps
<1>4. ASSUME \/ Update \/ SetEnabled \/ DeleteFunction \/ Expire \/ Restart
             \/ \E s \in Serial : DeleteDeviceBindings(s)
      PROVE  RdInv'
  BY <1>4, EditKeeps, DeleteFunctionKeeps, ExpireKeeps, RestartKeeps, DeleteBindingsKeeps
<1> QED
  BY <1>1, <1>2, <1>3, <1>4 DEF RdNext

\* What a device is shown as fresh is current, a device that had a good frame
\* is never shown the error frame, and a render leaves neither credentials nor
\* rows behind, for every number of devices, requests, edits and failures of
\* faascore/supervisor.go and buildframe.go.
THEOREM FramesAreSound == RdSpec => []FramesSound
<1>1. RdInv => FramesSound
  <2> SUFFICES ASSUME RdInv PROVE FramesSound
    OBVIOUS
  <2>1. \A j \in Job : j \in Jobs /\ CallOK(job[j])
    BY DEF RdInv, CallInv, Jobs
  <2>2. FreshIsCurrent
    BY <2>1 DEF FreshIsCurrent, CallOK, FrameOf
  <2>3. NeverBlank
    BY <2>1 DEF NeverBlank, CallOK
  <2> QED
    BY <2>2, <2>3 DEF FramesSound, RdInv, OwnedInv
<1> QED
  BY <1>1, RdInvInit, RdInvNext, PTL DEF RdSpec
=============================================================================
