----------------------------- MODULE C2Channel -----------------------------
(***************************************************************************)
(* The C2 command channel, end to end: operators enqueue Berry commands    *)
(* into command_queue (commandstore.Enqueue), every device polls with the  *)
(* seq it last applied (cmd.c c2_poll), the backend advances the device's  *)
(* cursor and serves the next command (ingestcore handleC2, c2LongPoll),   *)
(* the device runs the script and only then persists the ack.              *)
(*                                                                         *)
(* What is left out: the HOTP check itself (module C2Session), scripts'    *)
(* text (a command is its seq), and the wake channel of a held poll        *)
(* (module C2Notify); here a held poll may look at the queue at any time.  *)
(***************************************************************************)
EXTENDS Integers

CONSTANTS
    Device,      \* serials
    Key,         \* idempotency keys
    Operator,    \* concurrent enqueuers: admin requests, fan-outs
    MaxSeq,      \* bound: how many seqs the identity column hands out
    Poison,      \* seqs whose script never returns (hang, panic, brown-out)
    Fleet,       \* the serial '*'
    NoKey        \* a nil idempotencyKey

ASSUME SeqAssumption == MaxSeq \in Nat
ASSUME PoisonAssumption == Poison \subseteq 1..MaxSeq
ASSUME FleetAssumption == Fleet \notin Device /\ NoKey \notin Key

VARIABLES
    \* ---- the database
    nextSeq,     \* seqs handed out so far: a sequence, outside transactions
    queue,       \* command_queue, the committed rows
    known,       \* devices: serials with a row (telemetry or registration)
    bonded,      \* device_auth: serials with a pubkey, hence with a cursor
    cursor,      \* device_c2_cursor.applied_seq
    authed,      \* session_secret is the secret the device holds
    \* ---- running requests
    enq,         \* per operator, the Enqueue in progress
    req,         \* per device, ack of the poll in flight, or NoMsg
    late,        \* per device, ack of an abandoned poll still in flight
    hold,        \* per device, applied of its poll held in c2LongPoll
    resp,        \* per device, response in flight: seq, 0 for 204, NoMsg
    \* ---- the device
    session,     \* RTC-RAM session valid (c2_sess_valid)
    pc,          \* idle, wait (in net_http_c2), ran (before the ack)
    cur,         \* seq of the script that has just run
    c2seq,       \* NVS picpak/c2_seq
    \* ---- history, read by no action's guard
    base,        \* the cursor's seed at registration
    ran,         \* seqs whose script the device has started
    broken       \* seqs whose ack was not persisted after a run

dbVars   == <<nextSeq, queue, known, bonded, cursor, authed>>
netVars  == <<req, late, hold, resp>>
devVars  == <<session, pc, cur, c2seq>>
histVars == <<base, ran, broken>>
vars     == <<dbVars, enq, netVars, devVars, histVars>>

NoMsg == -1
Seq1  == 1..MaxSeq
Msg   == NoMsg..MaxSeq
Row   == [seq : Seq1, serial : Device \cup {Fleet}, key : Key \cup {NoKey},
          applied : BOOLEAN]

\* What an Enqueue call carries; seq is 0 until the identity column is read.
Call  == [pc : {"idle", "checked", "inserting", "refreshing", "readback"},
          serial : Device \cup {Fleet}, key : Key \cup {NoKey}, seq : 0..MaxSeq]

Inserting(o) == enq[o].pc \in {"inserting", "refreshing"}

TypeOK ==
    /\ nextSeq \in 0..MaxSeq
    /\ queue \subseteq Row
    /\ known \subseteq Device
    /\ bonded \subseteq known
    /\ cursor \in [Device -> 0..MaxSeq]
    /\ authed \in [Device -> BOOLEAN]
    /\ enq \in [Operator -> Call]
    /\ \A o \in Operator : Inserting(o) => enq[o].seq # 0
    /\ req \in [Device -> Msg]
    /\ late \in [Device -> Msg]
    /\ hold \in [Device -> Msg]
    /\ resp \in [Device -> Msg]
    /\ session \in [Device -> BOOLEAN]
    /\ pc \in [Device -> {"idle", "wait", "ran"}]
    /\ cur \in [Device -> 0..MaxSeq]
    /\ \A d \in Device : pc[d] = "ran" => cur[d] # 0
    /\ c2seq \in [Device -> 0..MaxSeq]
    /\ base \in [Device -> 0..MaxSeq]
    /\ ran \in [Device -> SUBSET Seq1]
    /\ broken \in [Device -> SUBSET Seq1]

NoCall == [pc |-> "idle", serial |-> Fleet, key |-> NoKey, seq |-> 0]

Init ==
    /\ nextSeq = 0
    /\ queue = {}
    /\ known = {}
    /\ bonded = {}
    /\ cursor = [d \in Device |-> 0]
    /\ authed = [d \in Device |-> FALSE]
    /\ enq = [o \in Operator |-> NoCall]
    /\ req = [d \in Device |-> NoMsg]
    /\ late = [d \in Device |-> NoMsg]
    /\ hold = [d \in Device |-> NoMsg]
    /\ resp = [d \in Device |-> NoMsg]
    /\ session = [d \in Device |-> FALSE]
    /\ pc = [d \in Device |-> "idle"]
    /\ cur = [d \in Device |-> 0]
    /\ c2seq = [d \in Device |-> 0]
    /\ base = [d \in Device |-> 0]
    /\ ran = [d \in Device |-> {}]
    /\ broken = [d \in Device |-> {}]

----------------------------------------------------------------------------
(* Operators of the queue.                                                 *)

Targets(r, d) == r.serial \in {d, Fleet}

\* Mutant of Pending: seq >= $2.
PendingFromAck(d, applied) == {r \in queue : Targets(r, d) /\ r.seq >= applied}

\* WHERE serial IN ($1, '*') AND seq > $2
Pending(d, applied) == {r \in queue : Targets(r, d) /\ r.seq > applied}

\* Mutant of IsNext: LIMIT 1 without the ORDER BY.
IsNextUnordered(r, d, applied) == r \in Pending(d, applied)

\* ORDER BY seq LIMIT 1
IsNext(r, d, applied) ==
    /\ r \in Pending(d, applied)
    /\ \A r2 \in Pending(d, applied) : r.seq <= r2.seq

\* The rows of the partial unique index that an insert of this key meets.
Duplicates(serial, key) ==
    {r \in queue : r.serial = serial /\ r.key = key /\ key # NoKey /\ ~r.applied}

\* Mutant of Marked: seq < $2.
MarkedBelow(d, upto) ==
    {[r EXCEPT !.applied = r.applied \/ (r.serial = d /\ r.seq < upto
                                          /\ r.key # NoKey)] : r \in queue}

\* The queue after MarkApplied: the device's own keyed rows, never '*' rows.
Marked(d, upto) ==
    {[r EXCEPT !.applied = r.applied \/ (r.serial = d /\ r.seq <= upto
                                          /\ r.key # NoKey)] : r \in queue}

\* COALESCE(MAX(seq), 0)
IsHead(m) ==
    /\ \A r \in queue : r.seq <= m
    /\ m = 0 \/ \E r \in queue : r.seq = m

\* Mutant of Greater: the cursor is set to the ack instead of GREATEST.
Overwrite(a, b) == b

Greater(a, b) == IF a > b THEN a ELSE b

----------------------------------------------------------------------------
(* Enqueue.  Four steps, because nothing locks them together: the          *)
(* registration check, the draw of a seq, the insert's commit, and the     *)
(* read-back of the row that an insert ran into.                           *)

CallAt(o, where, s) ==
    [pc |-> where, serial |-> enq[o].serial, key |-> enq[o].key, seq |-> s]

EnqueueCheck(o, serial, key) ==
    /\ enq[o].pc = "idle"
    /\ serial = Fleet \/ serial \in known
    /\ enq' = [enq EXCEPT ![o] =
                 [pc |-> "checked", serial |-> serial, key |-> key, seq |-> 0]]
    /\ UNCHANGED <<dbVars, netVars, devVars, histVars>>

EnqueueDraw(o) ==
    /\ enq[o].pc = "checked"
    /\ nextSeq < MaxSeq
    /\ nextSeq' = nextSeq + 1
    /\ enq' = [enq EXCEPT ![o] = CallAt(o, "inserting", nextSeq + 1)]
    /\ UNCHANGED <<queue, known, bonded, cursor, authed, netVars, devVars, histVars>>

\* EnqueuePlaylistRefresh: one INSERT ... SELECT, so the join with devices and
\* the draw are one step.  A batch is modelled as its rows, one call each.
RefreshDraw(o, d, key) ==
    /\ enq[o].pc = "idle"
    /\ d \in known
    /\ nextSeq < MaxSeq
    /\ nextSeq' = nextSeq + 1
    /\ enq' = [enq EXCEPT ![o] = [pc |-> "refreshing", serial |-> d, key |-> key,
                                 seq |-> nextSeq + 1]]
    /\ UNCHANGED <<queue, known, bonded, cursor, authed, netVars, devVars, histVars>>

EnqueueCommit(o) ==
    /\ Inserting(o)
    /\ Duplicates(enq[o].serial, enq[o].key) = {}
    /\ queue' = queue \cup {[seq |-> enq[o].seq, serial |-> enq[o].serial,
                             key |-> enq[o].key, applied |-> FALSE]}
    /\ enq' = [enq EXCEPT ![o] = NoCall]
    /\ UNCHANGED <<nextSeq, known, bonded, cursor, authed, netVars, devVars, histVars>>

\* ON CONFLICT DO NOTHING: no row comes back, the seq drawn stays unused.
EnqueueConflict(o) ==
    /\ enq[o].pc = "inserting"
    /\ Duplicates(enq[o].serial, enq[o].key) # {}
    /\ enq' = [enq EXCEPT ![o] = CallAt(o, "readback", 0)]
    /\ UNCHANGED <<dbVars, netVars, devVars, histVars>>

RefreshConflict(o) ==
    /\ enq[o].pc = "refreshing"
    /\ Duplicates(enq[o].serial, enq[o].key) # {}
    /\ enq' = [enq EXCEPT ![o] = NoCall]
    /\ UNCHANGED <<dbVars, netVars, devVars, histVars>>

\* The caller gets the pending row's seq, or an error when an ack was faster.
EnqueueReadBack(o) ==
    /\ enq[o].pc = "readback"
    /\ enq' = [enq EXCEPT ![o] = NoCall]
    /\ UNCHANGED <<dbVars, netVars, devVars, histVars>>

----------------------------------------------------------------------------
(* Membership.                                                             *)

\* The first telemetry push of a serial creates its devices row.
Ingest(d) ==
    /\ d \notin known
    /\ known' = known \cup {d}
    /\ UNCHANGED <<nextSeq, queue, bonded, cursor, authed, enq, netVars, devVars, histVars>>

\* A first registration seeds the cursor at HEAD; a re-POST changes nothing here.
Register(d) ==
    /\ d \notin bonded
    /\ known' = known \cup {d}
    /\ bonded' = bonded \cup {d}
    /\ \E m \in 0..MaxSeq :
          /\ IsHead(m)
          /\ cursor' = [cursor EXCEPT ![d] = m]
          /\ base' = [base EXCEPT ![d] = m]
    /\ authed' = [authed EXCEPT ![d] = FALSE]
    /\ UNCHANGED <<nextSeq, queue, enq, netVars, devVars, ran, broken>>

Delete(d) ==
    /\ d \in known
    /\ queue' = {r \in queue : r.serial # d}
    /\ known' = known \ {d}
    /\ bonded' = bonded \ {d}
    /\ authed' = [authed EXCEPT ![d] = FALSE]
    /\ cursor' = [cursor EXCEPT ![d] = 0]
    /\ base' = [base EXCEPT ![d] = 0]
    /\ UNCHANGED <<nextSeq, enq, netVars, devVars, ran, broken>>

----------------------------------------------------------------------------
(* The device: c2_poll.                                                    *)

\* A poll over the live session.  An earlier request may still be on its way.
Poll(d) ==
    /\ pc[d] = "idle"
    /\ session[d]
    /\ req' = [req EXCEPT ![d] = c2seq[d]]
    /\ late' = [late EXCEPT ![d] = IF req[d] = NoMsg THEN late[d] ELSE req[d]]
    /\ pc' = [pc EXCEPT ![d] = "wait"]
    /\ UNCHANGED <<dbVars, enq, hold, resp, session, cur, c2seq, histVars>>

\* No session: the re-key handshake first.  Requests signed with the previous
\* secret are dead from here on; a handshake that fails changes nothing.
RekeyAndPoll(d) ==
    /\ pc[d] = "idle"
    /\ ~session[d]
    /\ d \in bonded
    /\ authed' = [authed EXCEPT ![d] = TRUE]
    /\ session' = [session EXCEPT ![d] = TRUE]
    /\ req' = [req EXCEPT ![d] = c2seq[d]]
    /\ late' = [late EXCEPT ![d] = NoMsg]
    /\ pc' = [pc EXCEPT ![d] = "wait"]
    /\ UNCHANGED <<nextSeq, queue, known, bonded, cursor, enq, hold, resp, cur,
                   c2seq, histVars>>

\* 200 with a script: berry_c2 runs it.  Nothing is persisted yet.
RunScript(d) ==
    /\ pc[d] = "wait"
    /\ resp[d] > 0
    /\ pc' = [pc EXCEPT ![d] = "ran"]
    /\ cur' = [cur EXCEPT ![d] = resp[d]]
    /\ ran' = [ran EXCEPT ![d] = @ \cup {resp[d]}]
    /\ resp' = [resp EXCEPT ![d] = NoMsg]
    /\ UNCHANGED <<dbVars, enq, req, late, hold, session, c2seq, base, broken>>

\* nvs_set_u32 of the seq, whatever the script's result; then the intent.
PersistAck(d) ==
    /\ pc[d] = "ran"
    /\ cur[d] \notin Poison
    /\ c2seq' = [c2seq EXCEPT ![d] = cur[d]]
    /\ pc' = [pc EXCEPT ![d] = "idle"]
    /\ cur' = [cur EXCEPT ![d] = 0]
    /\ UNCHANGED <<dbVars, enq, netVars, session, histVars>>

\* The NVS write fails: its error is ignored and the poll returns as if acked.
AckWriteFails(d) ==
    /\ pc[d] = "ran"
    /\ cur[d] \notin Poison
    /\ broken' = [broken EXCEPT ![d] = @ \cup {cur[d]}]
    /\ pc' = [pc EXCEPT ![d] = "idle"]
    /\ cur' = [cur EXCEPT ![d] = 0]
    /\ UNCHANGED <<dbVars, enq, netVars, session, c2seq, base, ran>>

\* 204: in sync.
InSync(d) ==
    /\ pc[d] = "wait"
    /\ resp[d] = 0
    /\ pc' = [pc EXCEPT ![d] = "idle"]
    /\ resp' = [resp EXCEPT ![d] = NoMsg]
    /\ UNCHANGED <<dbVars, enq, req, late, hold, session, cur, c2seq, histVars>>

\* Mutant of FetchFails: a failed fetch keeps the session.
FetchFailsKeepsSession(d) ==
    /\ pc[d] = "wait"
    /\ pc' = [pc EXCEPT ![d] = "idle"]
    /\ hold' = [hold EXCEPT ![d] = NoMsg]
    /\ resp' = [resp EXCEPT ![d] = NoMsg]
    /\ UNCHANGED <<dbVars, enq, req, late, session, cur, c2seq, histVars>>

\* 401, 5xx, timeout, connection lost: drop the session.  The request itself
\* may still reach the backend.
FetchFails(d) ==
    /\ pc[d] = "wait"
    /\ session' = [session EXCEPT ![d] = FALSE]
    /\ pc' = [pc EXCEPT ![d] = "idle"]
    /\ hold' = [hold EXCEPT ![d] = NoMsg]
    /\ resp' = [resp EXCEPT ![d] = NoMsg]
    /\ UNCHANGED <<dbVars, enq, req, late, cur, c2seq, histVars>>

\* A reset at any point; RTC-RAM survives some reset classes and not others.
Crash(d) ==
    /\ \E keep \in BOOLEAN : session' = [session EXCEPT ![d] = @ /\ keep]
    /\ broken' = [broken EXCEPT ![d] =
                    IF pc[d] = "ran" THEN @ \cup {cur[d]} ELSE @]
    /\ pc' = [pc EXCEPT ![d] = "idle"]
    /\ cur' = [cur EXCEPT ![d] = 0]
    /\ hold' = [hold EXCEPT ![d] = NoMsg]
    /\ resp' = [resp EXCEPT ![d] = NoMsg]
    /\ UNCHANGED <<dbVars, enq, req, late, c2seq, base, ran>>

----------------------------------------------------------------------------
(* The backend: handleC2 and c2LongPoll.                                   *)

\* Mutant of Selected: any row of the device, without cursor and order.
SelectedAny(d, applied, seq) ==
    \/ \E r \in queue : Targets(r, d) /\ seq = r.seq
    \/ Pending(d, applied) = {} /\ seq = 0

\* What the SELECT of the next command returns: a seq, or 0 for no row.
Selected(d, applied, seq) ==
    \/ \E r \in queue : IsNext(r, d, applied) /\ seq = r.seq
    \/ Pending(d, applied) = {} /\ seq = 0

\* The transaction's writes: the cursor (forward only), then the dedup flags.
Advance(d, applied) ==
    /\ cursor' = [cursor EXCEPT ![d] = applied]
    /\ queue' = Marked(d, applied)
    /\ UNCHANGED <<nextSeq, known, bonded, authed>>

\* The answer to the poll the device waits for, if it still does.  With nothing
\* to serve, a field poll gets 204 at once and a ?wait= poll is held.
Answer(d, applied, seq) ==
    IF pc[d] # "wait" THEN UNCHANGED <<hold, resp>>
    ELSE \/ resp' = [resp EXCEPT ![d] = seq] /\ UNCHANGED hold
         \/ seq = 0 /\ hold' = [hold EXCEPT ![d] = applied] /\ UNCHANGED resp

\* Mutant of HandleC2: the cursor moves to the command being served.
HandleC2AckOnServe(d) ==
    LET applied == Greater(cursor[d], req[d]) IN
    /\ req[d] # NoMsg
    /\ authed[d]
    /\ \E seq \in 0..MaxSeq :
          /\ Selected(d, applied, seq)
          /\ Advance(d, Greater(applied, seq))
          /\ Answer(d, applied, seq)
    /\ req' = [req EXCEPT ![d] = NoMsg]
    /\ late' = [late EXCEPT ![d] = NoMsg]
    /\ UNCHANGED <<enq, devVars, histVars>>

\* One transaction: authenticate, advance, select, commit; then answer.
HandleC2(d) ==
    LET applied == Greater(cursor[d], req[d]) IN
    /\ req[d] # NoMsg
    /\ authed[d]
    /\ Advance(d, applied)
    /\ \E seq \in 0..MaxSeq : Selected(d, applied, seq) /\ Answer(d, applied, seq)
    /\ req' = [req EXCEPT ![d] = NoMsg]
    /\ late' = [late EXCEPT ![d] = NoMsg]   \* its counter is a replay now
    /\ UNCHANGED <<enq, devVars, histVars>>

\* An abandoned poll arrives after all; nobody reads its response.
HandleLate(d) ==
    /\ late[d] # NoMsg
    /\ authed[d]
    /\ Advance(d, Greater(cursor[d], late[d]))
    /\ late' = [late EXCEPT ![d] = NoMsg]
    /\ UNCHANGED <<enq, req, hold, resp, devVars, histVars>>

\* 401: the transaction is rolled back.  Also: the request is lost on the way.
Reject(d) ==
    /\ req[d] # NoMsg
    /\ req' = [req EXCEPT ![d] = NoMsg]
    /\ UNCHANGED <<dbVars, enq, late, hold, resp, devVars, histVars>>

\* A held poll finds a command for its device.
LongPollServe(d) ==
    /\ hold[d] # NoMsg
    /\ \E r \in queue : /\ IsNext(r, d, hold[d])
                        /\ resp' = [resp EXCEPT ![d] = r.seq]
    /\ hold' = [hold EXCEPT ![d] = NoMsg]
    /\ UNCHANGED <<dbVars, enq, req, late, devVars, histVars>>

\* The budget elapses: 204.
LongPollExpire(d) ==
    /\ hold[d] # NoMsg
    /\ resp' = [resp EXCEPT ![d] = 0]
    /\ hold' = [hold EXCEPT ![d] = NoMsg]
    /\ UNCHANGED <<dbVars, enq, req, late, devVars, histVars>>

----------------------------------------------------------------------------
Enqueuing(o) ==
    \/ \E serial \in Device \cup {Fleet}, key \in Key \cup {NoKey} :
          EnqueueCheck(o, serial, key)
    \/ EnqueueDraw(o)
    \/ \E d \in Device, key \in Key : RefreshDraw(o, d, key)
    \/ EnqueueCommit(o)
    \/ EnqueueConflict(o)
    \/ RefreshConflict(o)
    \/ EnqueueReadBack(o)

Membership(d) == Ingest(d) \/ Register(d) \/ Delete(d)

DeviceStep(d) ==
    \/ Poll(d)
    \/ RekeyAndPoll(d)
    \/ RunScript(d)
    \/ PersistAck(d)
    \/ AckWriteFails(d)
    \/ InSync(d)
    \/ FetchFails(d)
    \/ Crash(d)

BackendStep(d) ==
    \/ HandleC2(d)
    \/ HandleLate(d)
    \/ Reject(d)
    \/ LongPollServe(d)
    \/ LongPollExpire(d)

Next ==
    \/ \E o \in Operator : Enqueuing(o)
    \/ \E d \in Device : Membership(d) \/ DeviceStep(d) \/ BackendStep(d)

Spec == Init /\ [][Next]_vars

(* A device wakes and polls, a request either completes or its socket times *)
(* out, and the link loses messages but not every message for ever: a step  *)
(* that keeps becoming possible (the request arrives, the answer arrives,   *)
(* the ack is written before the next reset) is eventually taken.           *)
Fairness ==
    \A d \in Device :
        /\ WF_vars(Poll(d) \/ RekeyAndPoll(d))
        /\ WF_vars(RunScript(d) \/ InSync(d) \/ FetchFails(d))
        /\ SF_vars(pc[d] = "wait" /\ HandleC2(d))
        /\ SF_vars(RunScript(d))
        /\ SF_vars(FetchFails(d))
        /\ SF_vars(PersistAck(d))

FairSpec == Spec /\ Fairness

----------------------------------------------------------------------------
(* Properties.                                                             *)

\* The backend's cursor (handleC2) never runs ahead of the ack the device has
\* persisted in NVS (c2_poll), beyond the HEAD it was seeded with (Register):
\* no delayed, lost or abandoned request makes the backend believe in a
\* command the device has no durable record of.
CursorBacked ==
    \A d \in bonded : cursor[d] <= base[d] \/ cursor[d] <= c2seq[d]

\* Exactly once but for a broken ack: a script that reaches a device which has
\* already run it is one whose ack write was lost to a reset or an NVS error
\* between berry_c2 and nvs_commit.
RerunOnlyIfBroken ==
    \A d \in Device :
        pc[d] = "wait" /\ resp[d] > 0 /\ resp[d] \in ran[d] => resp[d] \in broken[d]

\* No command is skipped: a queued row for a device that its cursor has passed
\* since registration is a row whose script the device has run.
NoSilentSkip ==
    \A r \in queue, d \in bonded :
        Targets(r, d) /\ base[d] < r.seq /\ r.seq <= cursor[d] => r.seq \in ran[d]

\* An idempotency key is released with the ack: a device's keyed row still in
\* the pending-dedup index is one its cursor has not reached since the seed.
KeyHeldOnlyWhilePending ==
    \A r \in queue, d \in bonded :
        r.serial = d /\ r.key # NoKey /\ ~r.applied
            => r.seq > cursor[d] \/ r.seq <= base[d]

\* Acks only move forward.  c2_poll stores whatever seq it was served, and it is
\* never an older one; between a registration and the deletion of a device its
\* cursor never falls back, even when an abandoned poll with an old ack is
\* handled last.
AckForward ==
    [][/\ \A d \in Device : c2seq'[d] >= c2seq[d]
       /\ \A d \in bonded \cap bonded' : cursor'[d] >= cursor[d]]_vars

Owed(d, s) ==
    /\ d \in bonded
    /\ cursor[d] < s
    /\ \E r \in queue : r.seq = s /\ Targets(r, d)

\* Every queued command is eventually acknowledged by each device it targets
\* (or the device or its row is deleted), whatever requests are lost.
Delivered == \A d \in Device, s \in Seq1 : Owed(d, s) ~> ~Owed(d, s)

----------------------------------------------------------------------------
(* The inductive invariants behind the theorems of C2ChannelProofs.        *)

\* One poll of device d: at most one of request, held handler and response is
\* live, and what the device may be told is newer than what it has persisted.
PollInv(d) ==
    /\ req[d] <= c2seq[d]
    /\ late[d] <= c2seq[d]
    /\ pc[d] # "wait" => hold[d] = NoMsg /\ resp[d] = NoMsg
    /\ pc[d] = "wait" => /\ req[d] # NoMsg => /\ req[d] = c2seq[d]
                                              /\ hold[d] = NoMsg
                                              /\ resp[d] = NoMsg
                         /\ hold[d] # NoMsg => hold[d] >= c2seq[d] /\ resp[d] = NoMsg
                         /\ resp[d] > 0 => resp[d] > c2seq[d]
    /\ pc[d] = "ran" => cur[d] > c2seq[d]
    /\ d \in bonded => cursor[d] <= base[d] \/ cursor[d] <= c2seq[d]
    /\ \A s \in ran[d] : \/ s <= c2seq[d]
                         \/ s \in broken[d]
                         \/ pc[d] = "ran" /\ s = cur[d]

ChannelInv == \A d \in Device : PollInv(d)

\* With one enqueuer at a time, no row can appear below a seq already visible:
\* Settled is the highest seq that a committed row can have.
Settled == IF \E o \in Operator : Inserting(o) THEN nextSeq - 1 ELSE nextSeq

RowsSettled ==
    /\ \A o \in Operator : Inserting(o) => enq[o].seq = nextSeq
    /\ \A r \in queue : r.seq <= Settled

\* Every row for d between its seed and x has been run by d.
CoveredUpTo(d, x) ==
    \A r \in queue : Targets(r, d) /\ base[d] < r.seq /\ r.seq <= x => r.seq \in ran[d]

SkipInv(d) ==
    /\ \A x \in {base[d], cursor[d], c2seq[d], hold[d], resp[d], cur[d]} : x <= Settled
    /\ d \in bonded =>
          /\ CoveredUpTo(d, cursor[d])
          /\ CoveredUpTo(d, c2seq[d])
          /\ CoveredUpTo(d, hold[d])
          /\ CoveredUpTo(d, resp[d] - 1)
          /\ CoveredUpTo(d, cur[d])

OneEnqueuerInv == RowsSettled /\ \A d \in Device : SkipInv(d)
=============================================================================
