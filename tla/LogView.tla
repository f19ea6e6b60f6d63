------------------------------- MODULE LogView -------------------------------
(***************************************************************************)
(* How operators read the logs table (internal/logquery/logquery.go): the  *)
(* live tail, polled forward by the hub with a high-water key, and the     *)
(* backward keyset pages behind GET /api/logs, while ingest transactions   *)
(* commit rows.  A row's key is (time, serial, COALESCE(seq,0), ctid); its *)
(* time is now() of the transaction, so it is fixed when the transaction   *)
(* begins and the row is visible when it commits.  The last three columns  *)
(* are one rank, in no relation to the order of arrival.                   *)
(* The telemetry tail (internal/telemetry/producer.go) is the same poll    *)
(* with the time alone as its key.                                         *)
(***************************************************************************)
EXTENDS Integers, FiniteSets, Sequences

CONSTANTS MaxTime,  \* bound on transaction starts
          Rank,     \* ranks of rows that share a time: a set of naturals
          Batch,    \* LOG_TAIL_BATCH
          Limit     \* rows per page

ASSUME LogAssumption ==
  /\ MaxTime \in Nat /\ Rank \subseteq Nat /\ IsFiniteSet(Rank)
  /\ Batch \in Nat \ {0} /\ Limit \in Nat \ {0}

VARIABLES
  clock,     \* the database clock, in transaction starts
  open,      \* rows of transactions that have begun and not committed
  logs,      \* committed rows
  hw,        \* HighWater: a row key, or NoMark
  primedAt,    \* the key the tail was primedAt at
  tail,      \* rows the tail has emitted, in order
  overtaken, \* rows that committed below the high-water key
  page       \* one operator's paging session

logVars == <<clock, open, logs, hw, primedAt, tail, overtaken, page>>

Row == (0..MaxTime) \X Rank
NoMark == <<-1, -1>>
NoPage == [active |-> FALSE, done |-> FALSE, before |-> NoMark,
           first |-> {}, got |-> <<>>]

Less(a, b) == a[1] < b[1] \/ (a[1] = b[1] /\ a[2] < b[2])
Before(a, b, asc) == IF asc THEN Less(a, b) ELSE Less(b, a)
\* The row of S that comes first in ascending or descending key order.
Top(S, asc) == CHOOSE r \in S : \A s \in S \ {r} : Before(r, s, asc)

Elems(s) == {s[i] : i \in DOMAIN s}
Extend(S, s, asc) ==
  LET left == S \ Elems(s) IN IF left = {} THEN s ELSE Append(s, Top(left, asc))

\* The first n rows of S: ORDER BY ... LIMIT n.
First(S, n, asc) ==
  LET f[k \in 0..n] == IF k = 0 THEN <<>> ELSE Extend(S, f[k - 1], asc) IN f[n]

LogInit ==
  /\ clock = 0 /\ open = {} /\ logs = {}
  /\ hw = NoMark /\ primedAt = NoMark /\ tail = <<>> /\ overtaken = {}
  /\ page = NoPage

(* An ingest transaction begins: its rows will carry this time.            *)
Begin(k) ==
  /\ clock < MaxTime
  /\ clock' = clock + 1
  /\ open' = open \cup {<<clock + 1, k>>}
  /\ UNCHANGED <<logs, hw, primedAt, tail, overtaken, page>>

(* Another device's transaction has the same timestamp.                    *)
BeginSame(k) ==
  /\ clock > 0 /\ <<clock, k>> \notin open \cup logs
  /\ open' = open \cup {<<clock, k>>}
  /\ UNCHANGED <<clock, logs, hw, primedAt, tail, overtaken, page>>

(* It commits, in any order. *)
Commit(r) ==
  /\ r \in open
  /\ open' = open \ {r} /\ logs' = logs \cup {r}
  /\ overtaken' = IF hw # NoMark /\ ~Less(hw, r) THEN overtaken \cup {r} ELSE overtaken
  /\ UNCHANGED <<clock, hw, primedAt, tail, page>>

(* Tail on a cold high-water: prime at the newest row, or at now() with an *)
(* empty baseline; nothing is emitted.                                     *)
Prime ==
  /\ hw = NoMark
  /\ hw' = IF logs = {} THEN <<clock, 0>> ELSE Top(logs, FALSE)
  /\ primedAt' = hw'
  /\ UNCHANGED <<clock, open, logs, tail, overtaken, page>>

(* Mutant of TailPoll: the mark jumps to the newest row, past the batch.   *)
TailPollJump ==
  /\ hw # NoMark
  /\ LET new == {r \in logs : Less(hw, r)} IN
     /\ tail' = tail \o First(new, Batch, TRUE)
     /\ hw' = IF new = {} THEN hw ELSE Top(new, FALSE)
  /\ UNCHANGED <<clock, open, logs, primedAt, overtaken, page>>

(* Tail on a warm one: at most Batch rows above the mark, in order; the    *)
(* mark moves to the last row emitted.                                     *)
TailPoll ==
  /\ hw # NoMark
  /\ LET out == First({r \in logs : Less(hw, r)}, Batch, TRUE) IN
     /\ out # <<>>
     /\ tail' = tail \o out
     /\ hw' = out[Len(out)]
  /\ UNCHANGED <<clock, open, logs, primedAt, overtaken, page>>

(* Mutant of Below: the page starts at the cursor's own row.               *)
BelowOrAt(before) == {r \in logs : before = NoMark \/ ~Less(before, r)}

Below(before) == {r \in logs : before = NoMark \/ Less(r, before)}

(* Query: Limit+1 rows below the cursor are fetched, Limit are returned    *)
(* and the cursor is the last one returned; fewer rows are the edge.       *)
Query ==
  /\ ~page.done
  /\ LET recs == First(Below(page.before), Limit + 1, FALSE)
         more == Len(recs) > Limit
         out  == IF more THEN SubSeq(recs, 1, Limit) ELSE recs
     IN page' = [active |-> TRUE, done |-> ~more,
                 before |-> IF more THEN out[Len(out)] ELSE page.before,
                 first |-> IF page.active THEN page.first ELSE logs,
                 got |-> page.got \o out]
  /\ UNCHANGED <<clock, open, logs, hw, primedAt, tail, overtaken>>

LogNext ==
  \/ \E k \in Rank : Begin(k) \/ BeginSame(k)
  \/ \E r \in open : Commit(r)
  \/ Prime \/ TailPoll \/ Query

LogSpec == LogInit /\ [][LogNext]_logVars

-----------------------------------------------------------------------------
Ascending(s) == \A i \in 1..(Len(s) - 1) : Less(s[i], s[i + 1])

(* The tail emits every row that is visible above its starting point, once *)
(* and in key order, in batches; it only loses a row whose transaction     *)
(* committed after a younger one had been emitted.                         *)
TailExact ==
  /\ Ascending(tail)
  /\ hw # NoMark =>
       {r \in logs : Less(primedAt, r)} \ overtaken
         = Elems(tail) \cup {r \in logs \ overtaken : Less(hw, r)}

(* Paging backward while rows are inserted at the head neither repeats a   *)
(* row nor drops one that was there when the first page was read.          *)
PagesExact ==
  /\ \A i, j \in DOMAIN page.got : page.got[i] = page.got[j] => i = j
  /\ page.done => page.first \subseteq Elems(page.got)

\* Neither the live tail nor the pages repeat or lose a row.
RowsExact == TailExact /\ PagesExact

-----------------------------------------------------------------------------
(* The inductive invariant.                                                *)
Mark == ((0..MaxTime) \X (Rank \cup {0})) \cup {NoMark}

LogType ==
  /\ clock \in 0..MaxTime /\ open \subseteq Row /\ logs \subseteq Row
  /\ hw \in Mark /\ primedAt \in Mark /\ tail \in Seq(Row) /\ overtaken \subseteq logs
  /\ page \in [active : BOOLEAN, done : BOOLEAN, before : Row \cup {NoMark},
               first : SUBSET Row, got : Seq(Row)]

\* A transaction commits once, and no row is of a later time than the clock's.
Once == open \cap logs = {} /\ \A r \in open \cup logs : r[1] <= clock

\* The mark is the last row emitted, and what was overtaken is not above it.
MarkAtTail ==
  /\ hw = NoMark => tail = <<>> /\ overtaken = {}
  /\ hw # NoMark => hw = primedAt \/ Less(primedAt, hw)
  /\ tail # <<>> => hw = tail[Len(tail)]
  /\ \A r \in overtaken : ~Less(hw, r)

\* The pages have shown, of the rows there at the first, those not below the cursor.
CursorAtPage ==
  /\ ~page.active => page.got = <<>> /\ page.before = NoMark /\ ~page.done
  /\ page.before = NoMark /\ ~page.done => page.got = <<>>
  /\ page.before # NoMark /\ ~page.done => \A i \in DOMAIN page.got : ~Less(page.got[i], page.before)
  /\ page.active /\ ~page.done =>
       \A r \in page.first \ Elems(page.got) : page.before # NoMark /\ Less(r, page.before)
  /\ page.first \subseteq logs

LogInv == LogType /\ Once /\ MarkAtTail /\ CursorAtPage /\ RowsExact
=============================================================================
