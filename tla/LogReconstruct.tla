--------------------------- MODULE LogReconstruct ---------------------------
(***************************************************************************)
(* The plaintext rebuild of one stream segment (Reconstruct in             *)
(* internal/logquery/logquery.go) from the fragments LogIngest stored: a   *)
(* fragment's payload holds the bytes [from, end), start is its start_off. *)
(* The text is the sequence of the offsets of its bytes.                   *)
(***************************************************************************)
EXTENDS LogIngest, Sequences

Fragments(e) == {r \in rows : r.epoch = e}

Payload(f) == [i \in 1..(f.end - f.from) |-> f.from + i - 1]

SortKey(f) == IF f.start # NoOffset THEN f.start ELSE f.end

\* Mutant of Before: the order of arrival backwards, newest first.
BeforeEnd(f, g) == f.end > g.end

Before(f, g) == SortKey(f) < SortKey(g) \/ (SortKey(f) = SortKey(g) /\ f.end < g.end)

Arranged(S) == [k \in 1..Cardinality(S) |-> CHOOSE f \in S : Cardinality({g \in S : Before(g, f)}) = k - 1]

Larger(a, b) == IF a > b THEN a ELSE b

Whole(acc, f, mark) ==
    [text |-> acc.text \o Payload(f), prevEnd |-> f.end, started |-> TRUE,
     gaps |-> IF mark THEN Append(acc.gaps, acc.prevEnd) ELSE acc.gaps]

\* The span merge: the first fragment whole; after a gap, an epoch start or
\* a discontinuity a divider and the whole payload; else what lies beyond
\* the bytes already covered, taking the payload to begin at start_off.
Merge(acc, f) ==
    IF ~acc.started THEN Whole(acc, f, FALSE)
    ELSE IF f.gap \/ f.start = NoOffset \/ f.start > acc.prevEnd THEN Whole(acc, f, TRUE)
    ELSE [acc EXCEPT
            !.text = @ \o SubSeq(Payload(f), acc.prevEnd - f.start + 1, f.end - f.from),
            !.prevEnd = Larger(@, f.end)]

Nothing == [text |-> <<>>, prevEnd |-> 0, started |-> FALSE, gaps |-> <<>>]

MergeAll(frags) ==
    LET merged[k \in 0..Len(frags)] == IF k = 0 THEN Nothing ELSE Merge(merged[k - 1], frags[k])
    IN  merged[Len(frags)]

Reconstruct(e) == MergeAll(Arranged(Fragments(e)))

----------------------------------------------------------------------------
(* Properties.                                                             *)

Elements(s) == {s[i] : i \in DOMAIN s}
Bytes(S) == UNION {f.from .. (f.end - 1) : f \in S}

\* The span merge of Reconstruct drops no byte the ingest has stored, although
\* start_off is the cursor and not the first byte of the payload: a lost ack,
\* an overrun of the ring or a late push makes the two differ.
RebuildKeepsEveryByte ==
    \A e \in 1..MaxEpoch : Elements(Reconstruct(e).text) = Bytes(Fragments(e))

\* What a device was told is stored can be read back: it is in the rows, the rows
\* are numbered without gap or false suspicion, the rebuild loses no byte, and the
\* cursor never falls back.
LogReadable ==
    [][/\ LogKept'
       /\ rows' # rows => RebuildKeepsEveryByte'
       /\ CursorForward]_ingestVars

\* The invariant of the rebuild: a start_off is the cursor a row moved, so the
\* spans of the rows that have one tile the stream and never overlap.
TilesInv ==
    \A r \in rows :
      /\ r.from <= r.end
      /\ r.start # NoOffset =>
           /\ r.start < r.end
           /\ \A s \in Fragments(r.epoch) :
                s.start # NoOffset => s = r \/ s.end <= r.start \/ r.end <= s.start

ReadInv == IngestInv /\ TilesInv
=============================================================================
