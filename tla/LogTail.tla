------------------------------- MODULE LogTail -------------------------------
(***************************************************************************)
(* The log pane of picpak-ops: the store that tails the logs table         *)
(* (logs/store.go, query.go) and the pane that shows it (logs/model.go).   *)
(*                                                                         *)
(* One goroutine polls and serves the pane's requests.  A row stands for   *)
(* its lines.  Rows are committed in the order of their time; a row's      *)
(* dedup key is its offset and payload, which rows of two devices share    *)
(* here when they are as old in their device's log.                        *)
(***************************************************************************)
EXTENDS Integers, Sequences, FiniteSets

CONSTANTS
    Serial,           \* devices that log
    Page, PollBatch,  \* logs.backfill_page, logs.poll_batch
    RingLines,        \* logs.live_ring_lines
    HistoryMax,       \* logs.history_max_rows
    MaxLogRows, MaxInstant, MaxPerInstant, MaxLogKeys, MaxErrs
                      \* bounds: rows, instants, rows in one, keys pressed, failed queries

ASSUME LtAssumption ==
    /\ Page \in Nat /\ PollBatch \in Nat /\ RingLines \in Int
    /\ HistoryMax \in Nat /\ MaxPerInstant \in Nat

VARIABLES
    logRows,     \* the logs table: sequence of [t, dev, seq]
    instant,     \* now, from 1
    tail,        \* the store: [filter, ring, cursor, seenAtMax, oldest, primed, exhausted, backfilled]
    tailPc,      \* "run" (in select) or "prime" (a request has reset the store)
    tailReqs,    \* reqCh
    tailMsg,     \* the message being sent to the pane, "none"
    shown, paneErr, backfillDone,   \* the pane
    tailKeys, tailErrs,
    ingested, cut, wiped  \* history: rows read since the last prime, instants a page
                          \* ended in, rows read when the view was cleared

tailV == <<tail, tailPc, ingested, cut, wiped, tailErrs>>
ltPaneV == <<shown, paneErr, backfillDone>>
ltVars == <<logRows, instant, tailV, tailReqs, tailMsg, ltPaneV, tailKeys>>

\* resetForReprime; the filter {} lets every device through.
Blank(f) == [filter |-> f, ring |-> <<>>, cursor |-> 0, seenAtMax |-> {}, oldest |-> 0,
             primed |-> FALSE, exhausted |-> FALSE, backfilled |-> 0]

LtInit ==
    /\ logRows = <<>> /\ instant = 1 /\ tail = Blank({}) /\ tailPc = "run" /\ tailReqs = <<>>
    /\ tailMsg = "none" /\ shown = <<>> /\ paneErr = FALSE /\ backfillDone = FALSE
    /\ tailKeys = 0 /\ tailErrs = 0 /\ ingested = {} /\ cut = {} /\ wiped = {}

----------------------------------------------------------------------------
(* The table and its queries, by row number.                               *)

InsertRow(d) ==
    /\ Len(logRows) < MaxLogRows
    /\ Cardinality({i \in DOMAIN logRows : logRows[i].t = instant}) < MaxPerInstant
    /\ LET n == Cardinality({i \in DOMAIN logRows : logRows[i].dev = d}) IN
       logRows' = Append(logRows, [t |-> instant, dev |-> d, seq |-> n])
    /\ UNCHANGED <<instant, tailV, tailReqs, tailMsg, ltPaneV, tailKeys>>

TimePasses ==
    /\ instant < MaxInstant /\ instant' = instant + 1
    /\ \E i \in DOMAIN logRows : logRows[i].t = instant
    /\ UNCHANGED <<logRows, tailV, tailReqs, tailMsg, ltPaneV, tailKeys>>

Time(i) == logRows[i].t
Key(i) == logRows[i].seq
Matches(f, i) == f = {} \/ logRows[i].dev \in f
Before(i, j) == \/ Time(i) < Time(j)
                \/ Time(i) = Time(j) /\ Key(i) < Key(j)
                \/ Time(i) = Time(j) /\ Key(i) = Key(j) /\ i < j
\* ORDER BY time, seq
Ordered(S) == [k \in 1..Cardinality(S) |-> CHOOSE i \in S : Cardinality({j \in S : Before(j, i)}) = k - 1]
Smaller(a, b) == IF a < b THEN a ELSE b
FirstRows(s, n) == SubSeq(s, 1, Smaller(Len(s), n))
LastRows(s, n) == SubSeq(s, Len(s) - Smaller(Len(s), n) + 1, Len(s))

\* Newest first up to the limit, then reversed.
QueryRecent(f) == LastRows(Ordered({i \in DOMAIN logRows : Matches(f, i)}), Page)
QueryBackfill(f, before) == LastRows(Ordered({i \in DOMAIN logRows : Matches(f, i) /\ Time(i) < before}), Page)

\* Mutant of QueryForward: only what is newer than the cursor.
QueryForwardAfter(f, since) ==
    FirstRows(Ordered({i \in DOMAIN logRows : Matches(f, i) /\ Time(i) > since}), PollBatch)

QueryForward(f, since) ==
    FirstRows(Ordered({i \in DOMAIN logRows : Matches(f, i) /\ Time(i) >= since}), PollBatch)

----------------------------------------------------------------------------
(* The store.                                                              *)

\* trimLocked: the front goes.
RingCap == IF RingLines < 1 THEN 1 ELSE RingLines
Trim(ring) == LastRows(ring, RingCap)

\* Mutant of Fresh: what the last poll read at the cursor's instant is forgotten.
FreshAlways(s, i) == TRUE

\* ingestForward's dedup, for the next row.
Fresh(s, i) == s.cursor = 0 \/ Time(i) > s.cursor \/ Key(i) \notin s.seenAtMax

Ingest(s, i) ==
    IF ~Fresh(s, i) THEN s
    ELSE LET newer == Time(i) > s.cursor
             seen == IF newer THEN {} ELSE s.seenAtMax
             at == IF newer THEN Time(i) ELSE s.cursor IN
         [s EXCEPT !.cursor = at, !.ring = Trim(Append(@, i)),
                   !.seenAtMax = IF Time(i) = at THEN seen \cup {Key(i)} ELSE seen]
IngestForward(s, rows) ==
    LET after[k \in 0..Len(rows)] == IF k = 0 THEN s ELSE Ingest(after[k - 1], rows[k])
    IN  after[Len(rows)]

Rows(seq) == {seq[k] : k \in DOMAIN seq}
NoMsg == tailMsg = "none"

\* prime: the newest page.
Primed(s) ==
    LET rows == QueryRecent(s.filter) IN
    /\ tail' = [IngestForward(s, rows) EXCEPT
                  !.oldest = IF rows # <<>> THEN Time(rows[1]) ELSE @,
                  !.primed = TRUE, !.exhausted = Len(rows) < Page]
    /\ ingested' = Rows(rows)
    /\ cut' = IF rows # <<>> /\ ~tail'.exhausted THEN {Time(rows[1])} ELSE {}
    /\ wiped' = {} /\ tailMsg' = "rows"
    /\ UNCHANGED tailErrs

Failed == tailErrs < MaxErrs /\ tailErrs' = tailErrs + 1 /\ tailMsg' = "err"
          /\ UNCHANGED <<tail, ingested, cut, wiped>>

\* The timer: prime until that has worked, then forward.
Tick(ok) ==
    /\ tailPc = "run" /\ NoMsg
    /\ IF ~ok THEN Failed
       ELSE IF ~tail.primed THEN Primed(tail)
       ELSE LET rows == QueryForward(tail.filter, tail.cursor) IN
            /\ tail' = IngestForward(tail, rows)
            /\ ingested' = ingested \cup Rows(rows)
            /\ tailMsg' = IF tail' # tail THEN "rows" ELSE "none"
            /\ UNCHANGED <<cut, wiped, tailErrs>>
    /\ UNCHANGED <<logRows, instant, tailPc, tailReqs, ltPaneV, tailKeys>>

\* doBackfill
DoBackfill(ok) ==
    IF tail.oldest = 0 \/ tail.exhausted \/ tail.backfilled >= HistoryMax
    THEN tailMsg' = "done" /\ UNCHANGED <<tail, ingested, cut, wiped, tailErrs>>
    ELSE IF ~ok THEN Failed
    ELSE LET rows == QueryBackfill(tail.filter, tail.oldest)
             n == tail.backfilled + Len(rows)
             done == Len(rows) < Page \/ n >= HistoryMax IN
         /\ tail' = [tail EXCEPT !.ring = Trim(rows \o @),
                       !.oldest = IF rows # <<>> THEN Time(rows[1]) ELSE @,
                       !.backfilled = n, !.exhausted = done]
         /\ ingested' = ingested \cup Rows(rows)
         /\ cut' = IF rows # <<>> THEN cut \cup {Time(rows[1])} ELSE cut
         /\ tailMsg' = IF done THEN "done" ELSE "more"
         /\ UNCHANGED <<wiped, tailErrs>>

\* Mutant of ResetForReprime: the lines of the old filter stay.
ResetKeepingRing(f) == tail' = [Blank(f) EXCEPT !.ring = tail.ring]

ResetForReprime(f) == tail' = Blank(f)

\* handleReq; a filter or a reload resets the store and then primes it.
HandleReq(ok) ==
    /\ tailPc = "run" /\ NoMsg /\ tailReqs # <<>> /\ tailReqs' = Tail(tailReqs)
    /\ LET r == Head(tailReqs) IN
       \/ r.kind = "backfill" /\ DoBackfill(ok) /\ UNCHANGED tailPc
       \/ /\ ok /\ r.kind \in {"filter", "reload"}
          /\ ResetForReprime(IF r.kind = "filter" THEN r.filter ELSE tail.filter)
          /\ tailPc' = "prime" /\ UNCHANGED <<ingested, cut, wiped, tailErrs, tailMsg>>
       \/ /\ ok /\ r.kind = "clear"
          /\ tail' = [tail EXCEPT !.ring = <<>>] /\ wiped' = ingested
          /\ tailMsg' = "rows" /\ UNCHANGED <<tailPc, ingested, cut, tailErrs>>
    /\ UNCHANGED <<logRows, instant, ltPaneV, tailKeys>>

PrimeAfterReset(ok) ==
    /\ tailPc = "prime" /\ tailPc' = "run"
    /\ IF ok THEN Primed(tail) ELSE Failed
    /\ UNCHANGED <<logRows, instant, tailReqs, ltPaneV, tailKeys>>

----------------------------------------------------------------------------
(* The pane, on the UI loop.                                               *)

\* Mutant of PaneUpdate: only new rows redraw, not what a backfill put before them.
PaneUpdateRowsOnly ==
    /\ ~NoMsg /\ tailMsg' = "none"
    /\ shown' = IF tailMsg = "rows" THEN tail.ring ELSE shown
    /\ paneErr' = (tailMsg = "err" \/ (paneErr /\ tailMsg # "rows"))
    /\ backfillDone' = IF tailMsg \in {"more", "done"} THEN tailMsg = "done" ELSE backfillDone
    /\ UNCHANGED <<logRows, instant, tailV, tailReqs, tailKeys>>

\* Update: rows and backfills redraw from the store's ring; an error does not.
PaneUpdate ==
    /\ ~NoMsg /\ tailMsg' = "none"
    /\ shown' = IF tailMsg # "err" THEN tail.ring ELSE shown
    /\ paneErr' = (tailMsg = "err" \/ (paneErr /\ tailMsg # "rows"))
    /\ backfillDone' = IF tailMsg \in {"more", "done"} THEN tailMsg = "done" ELSE backfillDone
    /\ UNCHANGED <<logRows, instant, tailV, tailReqs, tailKeys>>

\* request: reqCh never blocks the pane.
Request(r) ==
    /\ tailKeys < MaxLogKeys /\ tailKeys' = tailKeys + 1
    /\ tailReqs' = Append(tailReqs, r)
    /\ UNCHANGED <<logRows, instant, tailV, tailMsg, ltPaneV>>

\* applyFilter, jumpSerial and the serial a spawn names; reload; clear_view; and
\* maybeBackfill, when the view is scrolled to its top.
OnLogKey ==
    \/ \E f \in {{}} \cup {{d} : d \in Serial} : Request([kind |-> "filter", filter |-> f])
    \/ Request([kind |-> "reload", filter |-> {}])
    \/ Request([kind |-> "clear", filter |-> {}])
    \/ ~backfillDone /\ Request([kind |-> "backfill", filter |-> {}])

\* Gaining the focus redraws.
FocusLogs ==
    /\ shown # tail.ring /\ shown' = tail.ring
    /\ UNCHANGED <<logRows, instant, tailV, tailReqs, tailMsg, paneErr, backfillDone, tailKeys>>

LtNext ==
    \/ (\E d \in Serial : InsertRow(d)) \/ TimePasses
    \/ (\E ok \in BOOLEAN : Tick(ok) \/ HandleReq(ok) \/ PrimeAfterReset(ok))
    \/ PaneUpdate \/ OnLogKey \/ FocusLogs

----------------------------------------------------------------------------
(* Properties.                                                             *)

Same(i, j) == Time(i) = Time(j) /\ Key(i) = Key(j)
Twin(i) == \E j \in Rows(tail.ring) \cup wiped : j # i /\ Same(i, j)

\* store.go: the ring holds lines of the chosen devices only, each once and in
\* the order of their time, and between its first and its last no row is
\* missing, whatever polls, backfills, filters and failures came in between.
\* Excepted are the rows read before the operator cleared the view (a backfill puts
\* older pages in front of them) and two losses the code has: rows at the very
\* instant a page ended in, and a row whose key another device's row has.
RingIsStretch ==
    LET r == tail.ring IN
    /\ Len(r) <= RingCap /\ Cardinality(Rows(r)) = Len(r)
    /\ \A k \in DOMAIN r : Matches(tail.filter, r[k]) /\ (k > 1 => Time(r[k - 1]) <= Time(r[k]))
    /\ \A i \in DOMAIN logRows :
         (r # <<>> /\ Matches(tail.filter, i) /\ Time(r[1]) < Time(i) /\ Time(i) < Time(r[Len(r)])) =>
            i \in Rows(r) \/ i \in wiped \/ Time(i) \in cut \/ Twin(i)

\* forward: a poll that finds nothing new has missed nothing.  While fewer rows
\* than a batch share an instant, every row since the page the store began with
\* has been read, even one committed at the cursor's own instant after it was read.
NothingLeftBehind ==
    (MaxPerInstant < PollBatch /\ tail.primed /\ tailPc = "run"
       /\ IngestForward(tail, QueryForward(tail.filter, tail.cursor)) = tail) =>
        \A i \in DOMAIN logRows :
            (Matches(tail.filter, i) /\ Time(i) > tail.oldest /\ Time(i) \notin cut) =>
                \E j \in ingested : Same(i, j)

\* model.go: once the store's messages are handled the pane shows its ring,
\* unless a query failed, which the pane says.
ViewFollows == (NoMsg /\ tailPc = "run" /\ ~paneErr) => shown = tail.ring

\* Ring, cursor and pane agree with the table.
TailSound == RingIsStretch /\ NothingLeftBehind /\ ViewFollows

LtSpec == LtInit /\ [][LtNext]_ltVars

----------------------------------------------------------------------------
(* The inductive invariant.                                                *)

LogRow == [t : Nat \ {0}, dev : Serial, seq : Nat]
TailReq == [kind : {"backfill", "filter", "reload", "clear"}, filter : SUBSET Serial]
TailStore == [filter : SUBSET Serial, ring : Seq(Nat), cursor : Nat, seenAtMax : SUBSET Nat, oldest : Nat,
          primed : BOOLEAN, exhausted : BOOLEAN, backfilled : Nat]

RowsAt(t) == {i \in DOMAIN logRows : Time(i) = t}

LtType ==
    /\ logRows \in Seq(LogRow) /\ instant \in Nat \ {0}
    /\ \A i \in DOMAIN logRows : Time(i) <= instant
    /\ \A t \in Nat : Cardinality(RowsAt(t)) <= MaxPerInstant
    /\ tail \in TailStore /\ tail.cursor <= instant /\ tailPc \in {"run", "prime"}
    /\ tailReqs \in Seq(TailReq)
    /\ tailMsg \in {"none", "rows", "err", "more", "done"} /\ paneErr \in BOOLEAN
    /\ wiped \subseteq DOMAIN logRows /\ ingested \subseteq DOMAIN logRows

\* Row i is in the ring, as itself or as its twin, or was cleared, or has fallen
\* out at the front of a ring that has been full since.
Held(ring, gone, i) ==
    \/ Len(ring) = RingCap /\ Time(i) <= Time(ring[1])
    \/ \E j \in Rows(ring) \cup gone : Same(i, j)

InTime(seq) == \A k, m \in DOMAIN seq : k < m => seq[k] # seq[m] /\ Time(seq[k]) <= Time(seq[m])

\* The ring is in order, without repetition and no longer than allowed.
RingSound(s, read) == s.ring \in Seq(read) /\ Len(s.ring) <= RingCap /\ InTime(s.ring)

\* Cursor and dedup set say what has been read.
CursorSound(s, read) ==
    /\ s.oldest <= s.cursor
    /\ \A i \in read : Matches(s.filter, i) /\ s.oldest <= Time(i) /\ Time(i) <= s.cursor
    /\ \A key \in s.seenAtMax : \E j \in read : Time(j) = s.cursor /\ Key(j) = key
    /\ \A j \in Rows(s.ring) : Time(j) = s.cursor => Key(j) \in s.seenAtMax

StoreSound(s, read, gone) ==
    /\ RingSound(s, read) /\ CursorSound(s, read) /\ \A i \in read : Held(s.ring, gone, i)

\* Between the page it began with and its cursor the store has read every row.
NoneSkipped ==
    \A i \in DOMAIN logRows :
        Matches(tail.filter, i) /\ tail.oldest < Time(i) /\ Time(i) < tail.cursor /\ Time(i) \notin cut =>
            i \in ingested

\* What the store knows once it is primed; before that it is blank.
TailInv ==
    /\ tail.primed \/ tail = Blank(tail.filter)
    /\ tailPc = "prime" => ~tail.primed
    /\ tail.primed =>
         /\ wiped \subseteq ingested /\ StoreSound(tail, ingested, wiped) /\ NoneSkipped
         /\ tail.oldest = 0 \/ tail.exhausted \/ tail.oldest \in cut

LtInv == LtType /\ ViewFollows /\ TailInv
=============================================================================
