----------------------------- MODULE LogIngest -----------------------------
(***************************************************************************)
(* Reassembly of one device's log stream (logingest.go, ingest in          *)
(* server.go): a push carries the bytes the device has logged since the    *)
(* last acknowledged offset, the backend stores them as a fragment and a   *)
(* viewer row, advances the cursor and acknowledges after the commit.      *)
(*                                                                         *)
(* The device's ring is logbuf_core.h; its firmware does not send offsets  *)
(* yet, so how it pushes and takes acks is modelled from what logingest.go *)
(* expects: absolute offsets within an epoch (boot), either ?bc and ?off   *)
(* or a frame header with an explicit base, and acks that are taken only   *)
(* up to the bytes logged.  A payload is the interval of bytes it holds.   *)
(***************************************************************************)
EXTENDS Integers, FiniteSets

CONSTANTS
    Ring,       \* capacity of the device's ring
    MaxFrame,   \* LOG_FRAME_MAX
    MaxEpoch,   \* bound: boots
    MaxTotal,   \* bound: bytes logged per boot
    MaxLate     \* bound: abandoned pushes still in flight

ASSUME LogAssumption ==
    /\ Ring \in Nat \ {0} /\ MaxFrame \in Nat \ {0}
    /\ MaxEpoch \in Nat \ {0} /\ MaxTotal \in Nat
    /\ MaxLate \in Nat

VARIABLES
    explicit,                    \* the device sends X-Picpak-Log-Frame (never changes)
    fifo,                        \* no push arrives late or twice (never changes)
    epoch, total, acked,         \* device: boot number, bytes logged, bytes acked
    req,                         \* device: the push it waits for, or NoPush
    ackReply,                    \* the response in flight: X-Log-Ack-Offset or NoOffset
    late,                        \* abandoned pushes that may still arrive
    curEpoch, curAck, curSeq,    \* device_log_cursor
    rows,                        \* device_log_fragment with its logs row
    skipped                      \* history: a push of the live device was skipped

device == <<epoch, total, acked, req>>
setup == <<explicit, fifo>>
cursor == <<curEpoch, curAck, curSeq>>
ingestVars == <<setup, device, ackReply, late, cursor, rows, skipped>>

NoOffset == -1
Offset == 0..MaxTotal
Push == [epoch : 1..MaxEpoch, from : Offset, end : Offset]
NoPush == [epoch |-> 0, from |-> 0, end |-> 0]
RowSet == [epoch : 1..MaxEpoch, from : Offset, end : Offset, start : Offset \cup {NoOffset},
           seq : Nat, gap : BOOLEAN, suspect : BOOLEAN]

IngestTypeOK ==
    /\ explicit \in BOOLEAN /\ fifo \in BOOLEAN
    /\ epoch \in 1..MaxEpoch
    /\ total \in Offset /\ acked \in Offset
    /\ req \in Push \cup {NoPush}
    /\ ackReply \in Offset \cup {NoOffset}
    /\ late \subseteq Push /\ Cardinality(late) <= MaxLate
    /\ curEpoch \in 0..MaxEpoch /\ curAck \in Offset /\ curSeq \in Nat
    /\ rows \subseteq RowSet
    /\ skipped \in BOOLEAN

IngestInit ==
    /\ explicit \in BOOLEAN /\ fifo \in BOOLEAN
    /\ epoch = 1 /\ total = 0 /\ acked = 0 /\ req = NoPush
    /\ ackReply = NoOffset /\ late = {}
    /\ curEpoch = 0 /\ curAck = 0 /\ curSeq = 0
    /\ rows = {}
    /\ skipped = FALSE

----------------------------------------------------------------------------
(* The device.                                                             *)

Log ==
    /\ total < MaxTotal
    /\ total' = total + 1
    /\ UNCHANGED <<setup, epoch, acked, req, ackReply, late, cursor, rows, skipped>>

\* What the ring still holds of the bytes not yet acknowledged.
Oldest == IF total - acked > Ring THEN total - Ring ELSE acked

SendPush ==
    /\ req = NoPush /\ total > acked
    /\ req' = [epoch |-> epoch, from |-> Oldest, end |-> total]
    /\ UNCHANGED <<setup, epoch, total, acked, ackReply, late, cursor, rows, skipped>>

\* An ack beyond the bytes logged in this boot is refused.
ReceiveAck ==
    /\ req # NoPush /\ ackReply # NoOffset
    /\ acked' = IF ackReply > acked /\ ackReply <= total THEN ackReply ELSE acked
    /\ req' = NoPush /\ ackReply' = NoOffset
    /\ UNCHANGED <<setup, epoch, total, late, cursor, rows, skipped>>

\* Nobody waits for the push any more; it may still arrive (or arrive again).
Abandon ==
    /\ req' = NoPush /\ ackReply' = NoOffset
    /\ \/ late' = late
       \/ /\ ~fifo /\ req # NoPush
          /\ late' = late \cup {req} /\ Cardinality(late') <= MaxLate

\* The request, its response or the transaction is lost.
PushFails ==
    /\ req # NoPush
    /\ Abandon
    /\ UNCHANGED <<setup, epoch, total, acked, cursor, rows, skipped>>

\* A boot starts a new stream (cold start: the ring is empty).
Reboot ==
    /\ epoch < MaxEpoch
    /\ epoch' = epoch + 1
    /\ total' = 0 /\ acked' = 0
    /\ Abandon
    /\ UNCHANGED <<setup, cursor, rows, skipped>>

----------------------------------------------------------------------------
(* The backend: one transaction, serialised by the lock on the cursor row. *)

\* The delta cap: against the explicit base, or, for a push of the current
\* epoch without one, against the cursor.
TooLarge(m) ==
    IF explicit THEN m.end - m.from > MaxFrame
    ELSE m.epoch = curEpoch /\ m.end > curAck /\ m.end - curAck > MaxFrame

Gap(m) == m.epoch > curEpoch
Suspect(m) == (m.epoch = curEpoch /\ m.end < curAck) \/ m.epoch < curEpoch
StartOff(m) == IF m.epoch = curEpoch /\ m.end > curAck THEN curAck ELSE NoOffset

\* Mutant of Known: the key is (serial, end_off).
KnownByEnd(m) == \E r \in rows : r.end = m.end

\* Mutant of Known: the key includes the time of arrival.
KnownNever(m) == FALSE

\* The primary key of device_log_fragment.
Known(m) == \E r \in rows : r.epoch = m.epoch /\ r.end = m.end

\* Mutant of NewAck: the high-water is kept across a boot.
NewAckGreatest(m) == IF m.epoch >= curEpoch /\ m.end > curAck THEN m.end ELSE curAck

\* Mutant of NewAck: a duplicate or late push pulls the cursor back.
NewAckOverwrite(m) == IF m.epoch >= curEpoch THEN m.end ELSE curAck

NewAck(m) ==
    IF m.epoch > curEpoch \/ (m.epoch = curEpoch /\ m.end > curAck) THEN m.end ELSE curAck

ReassembleLog(m) ==
    /\ ~TooLarge(m)
    /\ rows' = IF Known(m) THEN rows
               ELSE rows \cup {[epoch |-> m.epoch, from |-> m.from, end |-> m.end,
                                start |-> StartOff(m), seq |-> curSeq + 1,
                                gap |-> Gap(m), suspect |-> Suspect(m)]}
    /\ curSeq' = IF Known(m) THEN curSeq ELSE curSeq + 1
    /\ curEpoch' = IF m.epoch > curEpoch THEN m.epoch ELSE curEpoch
    /\ curAck' = NewAck(m)
    /\ UNCHANGED <<setup, device, skipped>>

\* The telemetry is committed, the log is not, and no ack is sent.
SkipFrame(m) ==
    /\ TooLarge(m)
    /\ skipped' = (skipped \/ m = req)
    /\ UNCHANGED <<setup, device, cursor, rows>>

\* ingest and handleIngest for the push the device waits for: the ack is the
\* cursor as committed.
HandleIngest ==
    /\ req # NoPush /\ ackReply = NoOffset
    /\ \/ ReassembleLog(req) /\ ackReply' = NewAck(req)
       \/ SkipFrame(req) /\ UNCHANGED ackReply
    /\ UNCHANGED late

HandleLate(m) ==
    /\ ReassembleLog(m) \/ SkipFrame(m)
    /\ late' = late \ {m}
    /\ UNCHANGED ackReply

IngestNext ==
    \/ Log \/ SendPush \/ ReceiveAck \/ PushFails \/ Reboot
    \/ HandleIngest \/ \E m \in late : HandleLate(m)

IngestSpec == IngestInit /\ [][IngestNext]_ingestVars

\* A device with unacknowledged bytes pushes at every wake, and the link loses
\* pushes and responses but not every one of them.
IngestFairness ==
    /\ WF_ingestVars(SendPush)
    /\ SF_ingestVars(HandleIngest)
    /\ SF_ingestVars(ReceiveAck)

IngestFairSpec == IngestSpec /\ IngestFairness

----------------------------------------------------------------------------
(* Properties.                                                             *)

Stored(b) ==
    \/ \E r \in rows : r.epoch = epoch /\ r.from <= b /\ b < r.end
    \/ \E r \in rows : r.epoch = epoch /\ b < r.from /\ r.end - r.from = Ring

StoredBelow(n) == \A b \in 0..(n - 1) : Stored(b)

\* Nothing acknowledged is missing: every byte below the offset the device
\* believes acknowledged is in a stored payload of this boot, unless the ring
\* had overrun it before it was pushed.
AckedIsStored == StoredBelow(acked)

\* The viewer's keyset: seq numbers are 1..last_seq without gap or duplicate,
\* and no byte range of the stream is stored twice under one key.
SeqIsDense ==
    /\ {r.seq : r \in rows} = 1..curSeq
    /\ Cardinality(rows) = curSeq
    /\ \A r, s \in rows : r.epoch = s.epoch /\ r.end = s.end => r = s

\* The cursor only moves forward in (epoch, offset), whatever arrives late.
CursorForward ==
    \/ curEpoch' > curEpoch
    \/ curEpoch' = curEpoch /\ curAck' >= curAck

\* With in-order delivery nothing a live device pushes is called suspect, not
\* even after a reboot that restarts its offsets.
NoFalseSuspect == fifo => \A r \in rows : ~r.suspect

LogKept == AckedIsStored /\ SeqIsDense /\ NoFalseSuspect

----------------------------------------------------------------------------
(* The inductive invariant of LogKept.                                     *)

\* A push in flight starts at an acknowledged byte, or fills the ring.
PushInv(m) ==
    /\ m.epoch <= epoch /\ m.from <= m.end
    /\ m.epoch = epoch => m.end <= total /\ (m.from <= acked \/ m.end - m.from = Ring)

FlightInv ==
    /\ \A m \in late : PushInv(m)
    /\ req # NoPush => req.epoch = epoch /\ PushInv(req)
    /\ ackReply # NoOffset => req # NoPush /\ curEpoch = epoch /\ StoredBelow(ackReply)

\* The cursor is the newest row, and what it passed is stored.
CursorInv ==
    /\ curEpoch <= epoch
    /\ curEpoch = epoch => curAck <= total /\ StoredBelow(curAck)
    /\ \A r \in rows : r.epoch < curEpoch \/ (r.epoch = curEpoch /\ r.end <= curAck)

\* In order, the push that is out is not behind the cursor.
OrderInv ==
    fifo => /\ late = {}
            /\ req # NoPush /\ curEpoch = epoch => curAck <= req.end

IngestInv ==
    /\ IngestTypeOK /\ IsFiniteSet(late) /\ IsFiniteSet(rows)
    /\ FlightInv /\ CursorInv /\ OrderInv /\ LogKept

\* A device that stays up gets everything it has logged acknowledged, although
\* acks are lost, unless the delta cap refuses one of its pushes.
EverythingAcked ==
    \A n \in 1..MaxTotal : (total = n) ~> (acked >= n \/ total < n \/ skipped)
=============================================================================
