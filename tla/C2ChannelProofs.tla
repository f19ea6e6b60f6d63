-------------------------- MODULE C2ChannelProofs --------------------------
(* Theorems about C2Channel, for every set of devices, keys and operators. *)
EXTENDS C2Channel, TLAPS

\* Every row MarkApplied leaves has the seq and the serial of a queued row.
LEMMA MarkedRows ==
    ASSUME NEW d, NEW upto
    PROVE  \A r \in Marked(d, upto) :
              \E q \in queue : r = [q EXCEPT !.applied =
                  q.applied \/ (q.serial = d /\ q.seq <= upto /\ q.key # NoKey)]
BY DEF Marked

\* MarkApplied keeps the rows well-formed.
LEMMA MarkedType ==
    ASSUME queue \subseteq Row, NEW d, NEW upto
    PROVE  Marked(d, upto) \subseteq Row
BY DEF Marked, Row

----------------------------------------------------------------------------
\* The type invariant is inductive: what each operation of the queue, of the
\* membership and of a poll writes stays in its column's or variable's range.
LEMMA TypeStep == TypeOK /\ [Next]_vars => TypeOK'
<1> SUFFICES ASSUME TypeOK, [Next]_vars PROVE TypeOK'
    OBVIOUS
<1> USE SeqAssumption, FleetAssumption DEF TypeOK, Inserting, Seq1, Msg, NoMsg
<1>1. ASSUME NEW o \in Operator, Enqueuing(o) PROVE TypeOK'
    <2>1. ASSUME NEW serial \in Device \cup {Fleet}, NEW key \in Key \cup {NoKey},
                 EnqueueCheck(o, serial, key)
          PROVE TypeOK'
        BY <2>1 DEF EnqueueCheck, dbVars, netVars, devVars, histVars, Call
    <2>2. CASE EnqueueDraw(o)
        BY <2>2 DEF EnqueueDraw, CallAt, netVars, devVars, histVars, Call
    <2>3. ASSUME NEW d \in Device, NEW key \in Key, RefreshDraw(o, d, key)
          PROVE TypeOK'
        BY <2>3 DEF RefreshDraw, netVars, devVars, histVars, Call
    <2>4. CASE EnqueueCommit(o)
        <3>1. NoCall \in Call
            BY DEF NoCall, Call
        <3>2. [seq |-> enq[o].seq, serial |-> enq[o].serial,
               key |-> enq[o].key, applied |-> FALSE] \in Row
            BY <2>4 DEF EnqueueCommit, Row, Call
        <3>3. ~Inserting(o)'
            BY <2>4 DEF EnqueueCommit, NoCall
        <3> QED
            BY <2>4, <3>1, <3>2, <3>3 DEF EnqueueCommit, netVars, devVars, histVars
    <2>5. CASE EnqueueConflict(o)
        BY <2>5 DEF EnqueueConflict, CallAt, dbVars, netVars, devVars, histVars, Call
    <2>6. CASE RefreshConflict(o)
        BY <2>6 DEF RefreshConflict, dbVars, netVars, devVars, histVars, Call, NoCall
    <2>7. CASE EnqueueReadBack(o)
        BY <2>7 DEF EnqueueReadBack, dbVars, netVars, devVars, histVars, Call, NoCall
    <2> QED
        BY <1>1, <2>1, <2>2, <2>3, <2>4, <2>5, <2>6, <2>7 DEF Enqueuing
<1>2. ASSUME NEW d \in Device, Membership(d) PROVE TypeOK'
    <2>1. CASE Ingest(d)
        BY <2>1 DEF Ingest, netVars, devVars, histVars
    <2>2. CASE Register(d)
        BY <2>2 DEF Register, netVars, devVars
    <2>3. CASE Delete(d)
        BY <2>3 DEF Delete, netVars, devVars
    <2> QED
        BY <1>2, <2>1, <2>2, <2>3 DEF Membership
<1>3. ASSUME NEW d \in Device, DeviceStep(d) PROVE TypeOK'
    <2>1. CASE Poll(d)
        BY <2>1 DEF Poll, dbVars, histVars
    <2>2. CASE RekeyAndPoll(d)
        BY <2>2 DEF RekeyAndPoll, histVars
    <2>3. CASE RunScript(d)
        BY <2>3 DEF RunScript, dbVars
    <2>4. CASE PersistAck(d)
        BY <2>4 DEF PersistAck, dbVars, netVars, histVars
    <2>5. CASE AckWriteFails(d)
        BY <2>5 DEF AckWriteFails, dbVars, netVars
    <2>6. CASE InSync(d)
        BY <2>6 DEF InSync, dbVars, histVars
    <2>7. CASE FetchFails(d)
        BY <2>7 DEF FetchFails, dbVars, histVars
    <2>8. CASE Crash(d)
        BY <2>8 DEF Crash, dbVars
    <2> QED
        BY <1>3, <2>1, <2>2, <2>3, <2>4, <2>5, <2>6, <2>7, <2>8 DEF DeviceStep
<1>4. ASSUME NEW d \in Device, BackendStep(d) PROVE TypeOK'
    <2>1. CASE HandleC2(d)
        <3> DEFINE applied == Greater(cursor[d], req[d])
        <3>1. applied \in 0..MaxSeq
            BY DEF Greater
        <3>2. queue' \subseteq Row
            BY <2>1, MarkedType DEF HandleC2, Advance
        <3>3. PICK seq \in 0..MaxSeq : Answer(d, applied, seq)
            BY <2>1 DEF HandleC2
        <3>4. cursor' \in [Device -> 0..MaxSeq]
            BY <2>1, <3>1 DEF HandleC2, Advance
        <3> HIDE DEF applied
        <3>5. hold' \in [Device -> Msg] /\ resp' \in [Device -> Msg]
            BY <3>1, <3>3 DEF Answer
        <3>6. /\ req' = [req EXCEPT ![d] = NoMsg]
              /\ late' = [late EXCEPT ![d] = NoMsg]
              /\ UNCHANGED <<nextSeq, known, bonded, authed, enq, devVars, histVars>>
            BY <2>1 DEF HandleC2, Advance
        <3> QED
            BY <3>2, <3>4, <3>5, <3>6 DEF devVars, histVars
    <2>2. CASE HandleLate(d)
        <3>1. queue' \subseteq Row
            BY <2>2, MarkedType DEF HandleLate, Advance
        <3>2. cursor' \in [Device -> 0..MaxSeq]
            BY <2>2 DEF HandleLate, Advance, Greater
        <3> QED
            BY <2>2, <3>1, <3>2 DEF HandleLate, Advance, devVars, histVars
    <2>3. CASE Reject(d)
        BY <2>3 DEF Reject, dbVars, devVars, histVars
    <2>4. CASE LongPollServe(d)
        BY <2>4 DEF LongPollServe, dbVars, devVars, histVars, Row
    <2>5. CASE LongPollExpire(d)
        BY <2>5 DEF LongPollExpire, dbVars, devVars, histVars
    <2> QED
        BY <1>4, <2>1, <2>2, <2>3, <2>4, <2>5 DEF BackendStep
<1>5. CASE UNCHANGED vars
    BY <1>5 DEF vars, dbVars, netVars, devVars, histVars
<1> QED
    BY <1>1, <1>2, <1>3, <1>4, <1>5 DEF Next

\* Every reachable state is well-typed; in particular a device has a cursor
\* and an auth row only while its devices row exists.
THEOREM TypeCorrect == Spec => []TypeOK
<1>1. Init => TypeOK
    BY SeqAssumption, FleetAssumption
       DEF Init, TypeOK, Inserting, Seq1, Msg, NoMsg, NoCall, Call
<1> QED
    BY <1>1, TypeStep, PTL DEF Spec

----------------------------------------------------------------------------
\* A poll's request, handler, response and run keep PollInv for every device.
LEMMA ChannelStep == TypeOK /\ ChannelInv /\ [Next]_vars => ChannelInv'
<1> SUFFICES ASSUME TypeOK, ChannelInv, [Next]_vars, NEW e \in Device
             PROVE  PollInv(e)'
    BY DEF ChannelInv
<1> USE SeqAssumption DEF TypeOK, Seq1, Msg, NoMsg
<1>0. PollInv(e)
    BY DEF ChannelInv
<1>1. ASSUME NEW o \in Operator, Enqueuing(o) PROVE PollInv(e)'
    <2>1. UNCHANGED <<bonded, cursor, netVars, devVars, histVars>>
        BY <1>1 DEF Enqueuing, EnqueueCheck, EnqueueDraw, RefreshDraw, EnqueueCommit,
               EnqueueConflict, RefreshConflict, EnqueueReadBack, dbVars
    <2> QED
        BY <1>0, <2>1 DEF PollInv, netVars, devVars, histVars
<1>2. ASSUME NEW d \in Device, Membership(d) PROVE PollInv(e)'
    <2>1. CASE Ingest(d)
        BY <1>0, <2>1 DEF Ingest, PollInv, netVars, devVars, histVars
    <2>2. CASE Register(d)
        BY <1>0, <2>2 DEF Register, PollInv, netVars, devVars
    <2>3. CASE Delete(d)
        BY <1>0, <2>3 DEF Delete, PollInv, netVars, devVars
    <2> QED
        BY <1>2, <2>1, <2>2, <2>3 DEF Membership
<1>3. ASSUME NEW d \in Device, DeviceStep(d) PROVE PollInv(e)'
    <2>1. CASE Poll(d)
        BY <1>0, <2>1 DEF Poll, PollInv, dbVars, histVars
    <2>2. CASE RekeyAndPoll(d)
        BY <1>0, <2>2 DEF RekeyAndPoll, PollInv, histVars
    <2>3. CASE RunScript(d)
        BY <1>0, <2>3 DEF RunScript, PollInv, dbVars
    <2>4. CASE PersistAck(d)
        BY <1>0, <2>4 DEF PersistAck, PollInv, dbVars, netVars, histVars
    <2>5. CASE AckWriteFails(d)
        BY <1>0, <2>5 DEF AckWriteFails, PollInv, dbVars, netVars
    <2>6. CASE InSync(d)
        BY <1>0, <2>6 DEF InSync, PollInv, dbVars, histVars
    <2>7. CASE FetchFails(d)
        BY <1>0, <2>7 DEF FetchFails, PollInv, dbVars, histVars
    <2>8. CASE Crash(d)
        BY <1>0, <2>8 DEF Crash, PollInv, dbVars
    <2> QED
        BY <1>3, <2>1, <2>2, <2>3, <2>4, <2>5, <2>6, <2>7, <2>8 DEF DeviceStep
<1>4. ASSUME NEW d \in Device, BackendStep(d) PROVE PollInv(e)'
    <2>1. CASE HandleC2(d)
        <3> DEFINE applied == Greater(cursor[d], req[d])
        <3>1. /\ applied \in 0..MaxSeq
              /\ applied >= req[d]
              /\ applied >= cursor[d]
              /\ applied = cursor[d] \/ applied = req[d]
            BY <2>1 DEF HandleC2, Greater
        <3>2. PICK seq \in 0..MaxSeq :
                  Selected(d, applied, seq) /\ Answer(d, applied, seq)
            BY <2>1 DEF HandleC2
        <3>3. seq = 0 \/ seq > applied
            BY <3>1, <3>2 DEF Selected, IsNext, Pending
        <3>4. /\ cursor' = [cursor EXCEPT ![d] = applied]
              /\ req' = [req EXCEPT ![d] = NoMsg]
              /\ late' = [late EXCEPT ![d] = NoMsg]
              /\ UNCHANGED <<bonded, pc, cur, c2seq, base, ran, broken>>
            BY <2>1 DEF HandleC2, Advance, devVars, histVars
        <3> HIDE DEF applied
        <3>5. CASE pc[d] # "wait"
            BY <1>0, <3>1, <3>2, <3>4, <3>5 DEF Answer, PollInv
        <3> req[d] # NoMsg
            BY <2>1 DEF HandleC2
        <3>6. CASE pc[d] = "wait" /\ resp' = [resp EXCEPT ![d] = seq] /\ UNCHANGED hold
            <4>1. CASE e = d
                BY <1>0, <3>1, <3>3, <3>4, <3>6, <4>1 DEF PollInv
            <4>2. CASE e # d
                BY <1>0, <3>4, <3>6, <4>2 DEF PollInv
            <4> QED BY <4>1, <4>2
        <3>7. CASE pc[d] = "wait" /\ hold' = [hold EXCEPT ![d] = applied] /\ UNCHANGED resp
            <4>1. CASE e = d
                BY <1>0, <3>1, <3>3, <3>4, <3>7, <4>1 DEF PollInv
            <4>2. CASE e # d
                BY <1>0, <3>4, <3>7, <4>2 DEF PollInv
            <4> QED BY <4>1, <4>2
        <3> QED
            BY <3>2, <3>5, <3>6, <3>7 DEF Answer
    <2>2. CASE HandleLate(d)
        BY <1>0, <2>2 DEF HandleLate, Advance, Greater, PollInv, devVars, histVars
    <2>3. CASE Reject(d)
        BY <1>0, <2>3 DEF Reject, PollInv, dbVars, devVars, histVars
    <2>4. CASE LongPollServe(d)
        <3>1. PICK r \in queue : IsNext(r, d, hold[d]) /\ resp' = [resp EXCEPT ![d] = r.seq]
            BY <2>4 DEF LongPollServe
        <3>2. r.seq \in 1..MaxSeq /\ r.seq > hold[d]
            BY <3>1 DEF IsNext, Pending, Row
        <3>3. pc[d] = "wait"
            BY <2>4 DEF LongPollServe, ChannelInv, PollInv
        <3> QED
            BY <1>0, <2>4, <3>1, <3>2, <3>3
               DEF LongPollServe, PollInv, dbVars, devVars, histVars
    <2>5. CASE LongPollExpire(d)
        BY <1>0, <2>5 DEF LongPollExpire, PollInv, dbVars, devVars, histVars
    <2> QED
        BY <1>4, <2>1, <2>2, <2>3, <2>4, <2>5 DEF BackendStep
<1>5. CASE UNCHANGED vars
    BY <1>0, <1>5 DEF PollInv, vars, dbVars, netVars, devVars, histVars
<1> QED
    BY <1>1, <1>2, <1>3, <1>4, <1>5 DEF Next

LEMMA ChannelInvariant == Spec => [](TypeOK /\ ChannelInv)
<1>1. Init => ChannelInv
    <2> SUFFICES ASSUME Init, NEW d \in Device PROVE PollInv(d)
        BY DEF ChannelInv
    <2> QED
        BY DEF Init, PollInv, NoMsg
<1> QED
    BY <1>1, TypeCorrect, ChannelStep, PTL DEF Spec

\* handleC2's cursor never passes the device's persisted ack beyond its seed,
\* for any number of devices, operators, losses, resets and late requests.
THEOREM CursorIsBacked == Spec => []CursorBacked
<1>1. TypeOK /\ ChannelInv => CursorBacked
    BY DEF TypeOK, ChannelInv, PollInv, CursorBacked
<1> QED
    BY <1>1, ChannelInvariant, PTL

\* A script is delivered to a device that has run it only after a lost ack.
THEOREM RerunsAreExplained == Spec => []RerunOnlyIfBroken
<1>1. TypeOK /\ ChannelInv => RerunOnlyIfBroken
    BY DEF TypeOK, ChannelInv, PollInv, RerunOnlyIfBroken, Msg, NoMsg, Seq1
<1> QED
    BY <1>1, ChannelInvariant, PTL

\* c2_poll overwrites its ack with a newer seq or not at all, and handleC2's
\* cursor of a registered device never falls back.
THEOREM AckMovesForward == Spec => AckForward
<1>1. ASSUME TypeOK, ChannelInv, Next, NEW d \in Device
      PROVE  c2seq'[d] >= c2seq[d]
    <2>1. CASE UNCHANGED c2seq
        BY <1>1, <2>1 DEF TypeOK
    <2>2. ASSUME NEW b \in Device, PersistAck(b) PROVE c2seq'[d] >= c2seq[d]
        BY <1>1, <2>2, SeqAssumption DEF PersistAck, TypeOK, ChannelInv, PollInv
    <2>3. UNCHANGED c2seq \/ \E b \in Device : PersistAck(b)
        BY <1>1 DEF Next, Enqueuing, EnqueueCheck, EnqueueDraw, RefreshDraw, EnqueueCommit,
               EnqueueConflict, RefreshConflict, EnqueueReadBack, Membership, Ingest,
               Register, Delete, DeviceStep, Poll, RekeyAndPoll, RunScript,
               AckWriteFails, InSync, FetchFails, Crash, BackendStep, HandleC2,
               HandleLate, Reject, LongPollServe, LongPollExpire, devVars
    <2> QED
        BY <2>1, <2>2, <2>3
<1>2. ASSUME TypeOK, ChannelInv, Next, NEW d \in bonded \cap bonded'
      PROVE  cursor'[d] >= cursor[d]
    <2>0. d \in Device /\ cursor \in [Device -> Nat]
        BY <1>2, SeqAssumption DEF TypeOK
    <2>1. CASE UNCHANGED cursor
        BY <2>0, <2>1
    <2>2. ASSUME NEW b \in Device, Register(b) \/ Delete(b) PROVE cursor'[d] >= cursor[d]
        BY <1>2, <2>0, <2>2 DEF Register, Delete
    <2>3. ASSUME NEW b \in Device, HandleC2(b) \/ HandleLate(b) PROVE cursor'[d] >= cursor[d]
        BY <1>2, <2>0, <2>3, SeqAssumption DEF HandleC2, HandleLate, Advance, Greater, TypeOK, Msg, NoMsg
    <2>4. \/ UNCHANGED cursor
          \/ \E b \in Device : Register(b) \/ Delete(b) \/ HandleC2(b) \/ HandleLate(b)
        BY <1>2 DEF Next, Enqueuing, EnqueueCheck, EnqueueDraw, RefreshDraw, EnqueueCommit,
               EnqueueConflict, RefreshConflict, EnqueueReadBack, Membership, Ingest,
               DeviceStep, Poll, RekeyAndPoll, RunScript, PersistAck,
               AckWriteFails, InSync, FetchFails, Crash, BackendStep,
               Reject, LongPollServe, LongPollExpire, dbVars
    <2> QED
        BY <2>1, <2>2, <2>3, <2>4
<1>3. TypeOK /\ ChannelInv /\ [Next]_vars
         => [/\ \A d \in Device : c2seq'[d] >= c2seq[d]
             /\ \A d \in bonded \cap bonded' : cursor'[d] >= cursor[d]]_vars
    BY <1>1, <1>2
<1> QED
    BY <1>3, ChannelInvariant, PTL DEF Spec, AckForward

----------------------------------------------------------------------------
\* One enqueue at a time: no two requests draw and commit seqs concurrently.
OneEnqueuer == \A o, p \in Operator : o = p

\* The ceiling of committed seqs is a number and never comes down.
LEMMA SettledStep ==
    ASSUME OneEnqueuer, TypeOK, RowsSettled, [Next]_vars
    PROVE  /\ Settled \in 0..MaxSeq
           /\ Settled' \in 0..MaxSeq
           /\ Settled <= Settled'
           /\ RowsSettled'
           /\ (\E o \in Operator : EnqueueCommit(o)) \/ \A r \in queue' : r.seq <= Settled
<1> USE SeqAssumption DEF TypeOK, Inserting, Settled, RowsSettled
<1>0. \A r \in queue : r.seq \in 1..MaxSeq
    BY DEF Row, Seq1
<1>00. \A o \in Operator : enq[o] \in Call
    OBVIOUS
<1>1. ASSUME NEW o \in Operator, Enqueuing(o)
      PROVE /\ Settled \in 0..MaxSeq
            /\ Settled' \in 0..MaxSeq
            /\ Settled <= Settled'
            /\ RowsSettled'
            /\ (\E a \in Operator : EnqueueCommit(a)) \/ \A r \in queue' : r.seq <= Settled
    <2> \A p \in Operator : p = o
        BY DEF OneEnqueuer
    <2>1. ASSUME NEW serial, NEW key, EnqueueCheck(o, serial, key)
          PROVE /\ Settled \in 0..MaxSeq /\ Settled' \in 0..MaxSeq
                /\ Settled <= Settled' /\ RowsSettled' /\ UNCHANGED queue
        BY <2>1, <1>0 DEF EnqueueCheck, dbVars
    <2>2. ASSUME EnqueueDraw(o)
          PROVE /\ Settled \in 0..MaxSeq /\ Settled' \in 0..MaxSeq
                /\ Settled <= Settled' /\ RowsSettled' /\ UNCHANGED queue
        BY <2>2, <1>0 DEF EnqueueDraw, CallAt
    <2>3. ASSUME NEW d, NEW key, RefreshDraw(o, d, key)
          PROVE /\ Settled \in 0..MaxSeq /\ Settled' \in 0..MaxSeq
                /\ Settled <= Settled' /\ RowsSettled' /\ UNCHANGED queue
        BY <2>3, <1>0 DEF RefreshDraw
    <2>4. ASSUME EnqueueCommit(o)
          PROVE /\ Settled \in 0..MaxSeq /\ Settled' \in 0..MaxSeq
                /\ Settled <= Settled' /\ RowsSettled'
        BY <2>4, <1>0 DEF EnqueueCommit, NoCall
    <2>5. ASSUME EnqueueConflict(o)
          PROVE /\ Settled \in 0..MaxSeq /\ Settled' \in 0..MaxSeq
                /\ Settled <= Settled' /\ RowsSettled' /\ UNCHANGED queue
        BY <2>5, <1>0 DEF EnqueueConflict, CallAt, dbVars
    <2>6. ASSUME RefreshConflict(o)
          PROVE /\ Settled \in 0..MaxSeq /\ Settled' \in 0..MaxSeq
                /\ Settled <= Settled' /\ RowsSettled' /\ UNCHANGED queue
        BY <2>6, <1>0 DEF RefreshConflict, NoCall, dbVars
    <2>7. ASSUME EnqueueReadBack(o)
          PROVE /\ Settled \in 0..MaxSeq /\ Settled' \in 0..MaxSeq
                /\ Settled <= Settled' /\ RowsSettled' /\ UNCHANGED queue
        BY <2>7, <1>0 DEF EnqueueReadBack, NoCall, dbVars
    <2> QED
        BY <1>1, <2>1, <2>2, <2>3, <2>4, <2>5, <2>6, <2>7 DEF Enqueuing
<1>2. ASSUME UNCHANGED <<nextSeq, enq>>,
             \A r \in queue' : \E q \in queue : q.seq = r.seq
      PROVE /\ Settled \in 0..MaxSeq
            /\ Settled' \in 0..MaxSeq
            /\ Settled <= Settled'
            /\ RowsSettled'
            /\ \A r \in queue' : r.seq <= Settled
    BY <1>0, <1>2
<1>3. ASSUME NEW d \in Device, Membership(d)
      PROVE UNCHANGED <<nextSeq, enq>> /\ \A r \in queue' : \E q \in queue : q.seq = r.seq
    BY <1>3 DEF Membership, Ingest, Register, Delete
<1>4. ASSUME NEW d \in Device, DeviceStep(d)
      PROVE UNCHANGED <<nextSeq, enq, queue>>
    BY <1>4 DEF DeviceStep, Poll, RekeyAndPoll, RunScript, PersistAck, AckWriteFails,
                InSync, FetchFails, Crash, dbVars
<1>5. ASSUME NEW d \in Device, BackendStep(d)
      PROVE UNCHANGED <<nextSeq, enq>> /\ \A r \in queue' : \E q \in queue : q.seq = r.seq
    <2>1. \A x : \A r \in Marked(d, x) : \E q \in queue : q.seq = r.seq
        BY DEF Marked, Row
    <2> QED
        BY <1>5, <2>1 DEF BackendStep, HandleC2, HandleLate, Reject, LongPollServe,
                          LongPollExpire, Advance, dbVars
<1>6. CASE UNCHANGED vars
    BY <1>2, <1>6 DEF vars, dbVars
<1> QED
    BY <1>1, <1>2, <1>3, <1>4, <1>5, <1>6 DEF Next

\* What a device has covered stays covered when rows keep seq and serial.
LEMMA CoveredKept ==
    ASSUME NEW d, NEW x, CoveredUpTo(d, x),
           \A r \in queue' : \E q \in queue : q.seq = r.seq /\ q.serial = r.serial,
           base'[d] = base[d], ran'[d] = ran[d]
    PROVE  \A r \in queue' : Targets(r, d) /\ base'[d] < r.seq /\ r.seq <= x
                                => r.seq \in ran'[d]
BY DEF CoveredUpTo, Targets

\* With one enqueuer, nothing a device is told leaves an unrun row behind it.
LEMMA SkipStep ==
    ASSUME OneEnqueuer, TypeOK, ChannelInv, OneEnqueuerInv, [Next]_vars
    PROVE  OneEnqueuerInv'
<1> USE SeqAssumption DEF TypeOK, Seq1, Msg, NoMsg
<1>s. /\ Settled \in 0..MaxSeq
      /\ Settled' \in 0..MaxSeq
      /\ Settled <= Settled'
      /\ RowsSettled'
      /\ (\E o \in Operator : EnqueueCommit(o)) \/ \A r \in queue' : r.seq <= Settled
    BY SettledStep DEF OneEnqueuerInv
<1> SUFFICES ASSUME NEW e \in Device PROVE SkipInv(e)'
    BY <1>s DEF OneEnqueuerInv
<1>0. SkipInv(e) /\ PollInv(e)
    BY DEF OneEnqueuerInv, ChannelInv
<1>q. \A r \in queue : r.seq \in 1..MaxSeq /\ r.seq <= Settled
    BY DEF OneEnqueuerInv, RowsSettled, Row
<1>n. \A r \in queue' : r.seq \in 1..MaxSeq
    BY TypeStep DEF Row
<1> HIDE DEF Settled
\* Nothing of the device, and no row, changes.
<1>1. ASSUME UNCHANGED <<queue, cursor, c2seq, hold, resp, cur, base, ran>>,
             e \in bonded' => e \in bonded
      PROVE  SkipInv(e)'
    BY <1>0, <1>1, <1>s DEF SkipInv, CoveredUpTo, Targets
<1>2. ASSUME NEW o \in Operator, Enqueuing(o) PROVE SkipInv(e)'
    <2>1. CASE EnqueueCommit(o)
        <3>1. UNCHANGED <<bonded, cursor, c2seq, hold, resp, cur, base, ran>>
            BY <2>1 DEF EnqueueCommit, netVars, devVars, histVars
        <3>2. \A r \in queue' : r \in queue \/ r.seq > Settled
            BY <2>1, <1>s DEF EnqueueCommit, OneEnqueuerInv, RowsSettled, Settled
        <3>3. \A x \in Int : x <= Settled /\ CoveredUpTo(e, x) => CoveredUpTo(e, x)'
            <4> SUFFICES ASSUME NEW x \in Int, x <= Settled, CoveredUpTo(e, x),
                                NEW r \in queue', Targets(r, e), base'[e] < r.seq, r.seq <= x
                         PROVE  r.seq \in ran'[e]
                BY DEF CoveredUpTo, Targets
            <4>1. r \in queue
                BY <1>s, <1>n, <3>2
            <4> QED
                BY <3>1, <4>1 DEF CoveredUpTo, Targets
        <3> QED
            BY <1>0, <1>s, <3>1, <3>3 DEF SkipInv
    <2>2. CASE ~EnqueueCommit(o)
        BY <1>1, <1>2, <2>2
           DEF Enqueuing, EnqueueCheck, EnqueueDraw, RefreshDraw, EnqueueConflict,
               RefreshConflict, EnqueueReadBack, dbVars, netVars, devVars, histVars
    <2> QED
        BY <2>1, <2>2
<1>3. ASSUME NEW d \in Device, Membership(d) PROVE SkipInv(e)'
    <2>1. CASE Ingest(d)
        BY <1>1, <2>1 DEF Ingest, netVars, devVars, histVars
    <2>2. CASE Register(d)
        <3>1. PICK m \in 0..MaxSeq : /\ IsHead(m)
                                     /\ cursor' = [cursor EXCEPT ![d] = m]
                                     /\ base' = [base EXCEPT ![d] = m]
            BY <2>2 DEF Register
        <3>2. m <= Settled
            BY <3>1, <1>q, <1>s DEF IsHead
        <3>3. UNCHANGED <<queue, c2seq, hold, resp, cur, ran>>
            BY <2>2 DEF Register, netVars, devVars
        <3>4. CASE e = d
            BY <1>0, <1>q, <1>s, <3>1, <3>2, <3>3, <3>4
               DEF SkipInv, CoveredUpTo, Targets, IsHead
        <3>5. CASE e # d
            <4>1. e \in bonded' => e \in bonded
                BY <2>2, <3>5 DEF Register
            <4> QED
                BY <1>0, <1>s, <3>1, <3>3, <3>5, <4>1 DEF SkipInv, CoveredUpTo, Targets
        <3> QED
            BY <3>4, <3>5
    <2>3. CASE Delete(d)
        <3>1. UNCHANGED <<c2seq, hold, resp, cur, ran>> /\ queue' \subseteq queue
            BY <2>3 DEF Delete, netVars, devVars
        <3>2. CASE e = d
            BY <1>0, <1>s, <2>3, <3>1, <3>2 DEF Delete, SkipInv
        <3>3. CASE e # d
            BY <1>0, <1>s, <2>3, <3>1, <3>3 DEF Delete, SkipInv, CoveredUpTo, Targets
        <3> QED
            BY <3>2, <3>3
    <2> QED
        BY <1>3, <2>1, <2>2, <2>3 DEF Membership
<1>4. ASSUME NEW d \in Device, DeviceStep(d) PROVE SkipInv(e)'
    <2>1. CASE Poll(d)
        BY <1>1, <2>1 DEF Poll, dbVars, histVars
    <2>2. CASE RekeyAndPoll(d)
        BY <1>1, <2>2 DEF RekeyAndPoll, histVars
    <2>3. CASE RunScript(d)
        <3>1. UNCHANGED <<queue, bonded, cursor, c2seq, hold, base>>
            BY <2>3 DEF RunScript, dbVars
        <3>2. CASE e = d
            <4>1. resp[e] \in 1..Settled /\ resp'[e] = NoMsg /\ cur'[e] = resp[e]
                  /\ ran'[e] = ran[e] \cup {resp[e]}
                BY <1>0, <1>s, <2>3, <3>2 DEF RunScript, SkipInv
            <4>2. \A x : CoveredUpTo(e, x) => CoveredUpTo(e, x)'
                BY <3>1, <4>1 DEF CoveredUpTo, Targets
            <4>3. e \in bonded => CoveredUpTo(e, cur[e])'
                <5>1. PICK s \in Int : s = resp[e]
                    BY <1>s, <4>1
                <5>2. CoveredUpTo(e, s - 1) => CoveredUpTo(e, s)'
                    BY <1>q, <3>1, <4>1, <5>1 DEF CoveredUpTo, Targets
                <5>3. e \in bonded => CoveredUpTo(e, s)'
                    BY <1>0, <5>1, <5>2 DEF SkipInv
                <5> QED
                    BY <4>1, <5>1, <5>3 DEF CoveredUpTo
            <4>4. e \in bonded => CoveredUpTo(e, resp[e] - 1)'
                BY <1>q, <3>1, <4>1 DEF CoveredUpTo
            <4>5. \A x \in {base[e], cursor[e], c2seq[e], hold[e], resp[e], cur[e]}' : x <= Settled'
                BY <1>0, <1>s, <3>1, <4>1 DEF SkipInv
            <4>6. e \in bonded => /\ CoveredUpTo(e, cursor[e])' /\ CoveredUpTo(e, c2seq[e])'
                                 /\ CoveredUpTo(e, hold[e])'
                BY <1>0, <3>1, <4>2 DEF SkipInv, CoveredUpTo
            <4> QED
                BY <3>1, <4>3, <4>4, <4>5, <4>6 DEF SkipInv
        <3>3. CASE e # d
            BY <1>0, <1>s, <2>3, <3>1, <3>3 DEF RunScript, SkipInv, CoveredUpTo, Targets
        <3> QED
            BY <3>2, <3>3
    <2>4. CASE PersistAck(d)
        BY <1>0, <1>q, <1>s, <2>4
           DEF PersistAck, SkipInv, CoveredUpTo, Targets, dbVars, netVars, histVars
    <2>5. CASE AckWriteFails(d)
        BY <1>0, <1>q, <1>s, <2>5
           DEF AckWriteFails, SkipInv, CoveredUpTo, Targets, dbVars, netVars
    <2>6. CASE InSync(d)
        BY <1>0, <1>q, <1>s, <2>6
           DEF InSync, SkipInv, CoveredUpTo, Targets, dbVars, histVars
    <2>7. CASE FetchFails(d)
        BY <1>0, <1>q, <1>s, <2>7
           DEF FetchFails, SkipInv, CoveredUpTo, Targets, dbVars, histVars
    <2>8. CASE Crash(d)
        BY <1>0, <1>q, <1>s, <2>8
           DEF Crash, SkipInv, CoveredUpTo, Targets, dbVars
    <2> QED
        BY <1>4, <2>1, <2>2, <2>3, <2>4, <2>5, <2>6, <2>7, <2>8 DEF DeviceStep
<1>5. ASSUME NEW d \in Device, BackendStep(d) PROVE SkipInv(e)'
    <2>m. \A x : \A r \in Marked(d, x) : \E q \in queue : q.seq = r.seq /\ q.serial = r.serial
        BY DEF Marked, Row
    <2>d. SkipInv(d) /\ PollInv(d)
        BY DEF OneEnqueuerInv, ChannelInv
    <2>1. CASE HandleC2(d)
        <3> DEFINE applied == Greater(cursor[d], req[d])
        <3>1. /\ applied \in 0..MaxSeq
              /\ applied = cursor[d] \/ (applied = req[d] /\ applied <= c2seq[d])
            BY <2>1, <2>d DEF HandleC2, Greater, PollInv
        <3>2. PICK seq \in 0..MaxSeq :
                  Selected(d, applied, seq) /\ Answer(d, applied, seq)
            BY <2>1 DEF HandleC2
        <3>3. /\ cursor' = [cursor EXCEPT ![d] = applied]
              /\ queue' = Marked(d, applied)
              /\ UNCHANGED <<bonded, pc, cur, c2seq, base, ran>>
            BY <2>1 DEF HandleC2, Advance, devVars, histVars
        <3> HIDE DEF applied
        <3>4. \A r \in queue' : \E q \in queue : q.seq = r.seq /\ q.serial = r.serial
            BY <2>m, <3>3
        <3>5. seq <= Settled /\ applied <= Settled
            BY <1>s, <1>q, <2>d, <3>1, <3>2 DEF Selected, SkipInv
        <3>6. d \in bonded => CoveredUpTo(d, applied)
            BY <1>q, <2>d, <3>1 DEF SkipInv, CoveredUpTo
        <3>7. d \in bonded => CoveredUpTo(d, seq - 1)
            <4>1. \A r \in queue : Targets(r, d) /\ r.seq <= seq - 1 => r.seq <= applied
                BY <1>q, <3>1, <3>2 DEF Selected, IsNext, Pending
            <4> QED
                BY <3>6, <4>1 DEF CoveredUpTo
        <3>8. hold'[d] \in {hold[d], applied} /\ resp'[d] \in {resp[d], seq}
            BY <3>2 DEF Answer
        <3>k. \A x : CoveredUpTo(e, x) =>
                 \A r \in queue' : Targets(r, e) /\ base'[e] < r.seq /\ r.seq <= x
                                      => r.seq \in ran'[e]
            BY <3>3, <3>4, CoveredKept
        <3>9. CASE e = d
            <4>1. cursor'[e] = applied /\ UNCHANGED <<bonded, cur, c2seq, base, ran>>
                BY <3>3, <3>9
            <4>2. \A x \in {base[e], cursor[e], c2seq[e], hold[e], resp[e], cur[e]}' : x <= Settled'
                BY <1>0, <1>s, <3>1, <3>5, <3>8, <3>9, <4>1 DEF SkipInv
            <4>3. e \in bonded => /\ CoveredUpTo(e, applied)
                                  /\ CoveredUpTo(e, c2seq[e])
                                  /\ CoveredUpTo(e, hold'[e])
                                  /\ CoveredUpTo(e, resp'[e] - 1)
                                  /\ CoveredUpTo(e, cur[e])
                BY <1>0, <3>6, <3>7, <3>8, <3>9 DEF SkipInv
            <4> QED
                BY <3>k, <4>1, <4>2, <4>3 DEF SkipInv, CoveredUpTo, Targets
        <3>10. CASE e # d
            <4>1. hold'[e] = hold[e] /\ resp'[e] = resp[e]
                BY <3>2, <3>10 DEF Answer
            <4>2. cursor'[e] = cursor[e] /\ UNCHANGED <<bonded, cur, c2seq, base, ran>>
                BY <3>3, <3>10
            <4>3. \A x \in {base[e], cursor[e], c2seq[e], hold[e], resp[e], cur[e]}' : x <= Settled'
                BY <1>0, <1>s, <4>1, <4>2 DEF SkipInv
            <4> QED
                BY <1>0, <3>k, <4>1, <4>2, <4>3 DEF SkipInv, CoveredUpTo, Targets
        <3> QED
            BY <3>9, <3>10
    <2>2. CASE HandleLate(d)
        <3> DEFINE applied == Greater(cursor[d], late[d])
        <3>1. /\ applied \in 0..MaxSeq
              /\ applied = cursor[d] \/ (applied = late[d] /\ applied <= c2seq[d])
            BY <2>2, <2>d DEF HandleLate, Greater, PollInv
        <3>3. /\ cursor' = [cursor EXCEPT ![d] = applied]
              /\ queue' = Marked(d, applied)
              /\ UNCHANGED <<bonded, cur, c2seq, hold, resp, base, ran>>
            BY <2>2 DEF HandleLate, Advance, devVars, histVars
        <3> HIDE DEF applied
        <3>4. \A r \in queue' : \E q \in queue : q.seq = r.seq /\ q.serial = r.serial
            BY <2>m, <3>3
        <3>5. applied <= Settled
            BY <1>s, <2>d, <3>1 DEF SkipInv
        <3>6. d \in bonded => CoveredUpTo(d, applied)
            BY <1>q, <2>d, <3>1 DEF SkipInv, CoveredUpTo
        <3>k. \A x : CoveredUpTo(e, x) =>
                 \A r \in queue' : Targets(r, e) /\ base'[e] < r.seq /\ r.seq <= x
                                      => r.seq \in ran'[e]
            BY <3>3, <3>4, CoveredKept
        <3>7. CASE e = d
            <4>1. cursor'[e] = applied
                BY <3>3, <3>7
            <4>2. \A x \in {base[e], cursor[e], c2seq[e], hold[e], resp[e], cur[e]}' : x <= Settled'
                BY <1>0, <1>s, <3>1, <3>3, <3>5, <3>7, <4>1 DEF SkipInv
            <4> QED
                BY <1>0, <3>3, <3>6, <3>7, <3>k, <4>1, <4>2 DEF SkipInv, CoveredUpTo, Targets
        <3>8. CASE e # d
            <4>1. cursor'[e] = cursor[e]
                BY <3>3, <3>8
            <4>2. \A x \in {base[e], cursor[e], c2seq[e], hold[e], resp[e], cur[e]}' : x <= Settled'
                BY <1>0, <1>s, <3>3, <4>1 DEF SkipInv
            <4> QED
                BY <1>0, <3>3, <3>k, <4>1, <4>2 DEF SkipInv, CoveredUpTo, Targets
        <3> QED
            BY <3>7, <3>8
    <2>3. CASE Reject(d)
        BY <1>1, <2>3 DEF Reject, dbVars, devVars, histVars
    <2>4. CASE LongPollServe(d)
        <3>1. PICK r \in queue : IsNext(r, d, hold[d]) /\ resp' = [resp EXCEPT ![d] = r.seq]
            BY <2>4 DEF LongPollServe
        <3>2. /\ hold' = [hold EXCEPT ![d] = NoMsg]
              /\ UNCHANGED <<queue, bonded, cursor, cur, c2seq, base, ran>>
            BY <2>4 DEF LongPollServe, dbVars, devVars, histVars
        <3>3. d \in bonded => CoveredUpTo(d, r.seq - 1)
            <4>1. \A q \in queue : Targets(q, d) /\ q.seq <= r.seq - 1 => q.seq <= hold[d]
                BY <1>q, <3>1 DEF IsNext, Pending
            <4> QED
                BY <2>d, <4>1 DEF SkipInv, CoveredUpTo
        <3>4. CASE e = d
            BY <1>0, <1>s, <1>q, <3>1, <3>2, <3>3, <3>4 DEF SkipInv, CoveredUpTo, Targets
        <3>5. CASE e # d
            BY <1>0, <1>s, <3>1, <3>2, <3>5 DEF SkipInv, CoveredUpTo, Targets
        <3> QED
            BY <3>4, <3>5
    <2>5. CASE LongPollExpire(d)
        BY <1>0, <1>s, <1>q, <2>5
           DEF LongPollExpire, SkipInv, CoveredUpTo, Targets, dbVars, devVars, histVars
    <2> QED
        BY <1>5, <2>1, <2>2, <2>3, <2>4, <2>5 DEF BackendStep
<1>6. CASE UNCHANGED vars
    BY <1>1, <1>6 DEF vars, dbVars, netVars, devVars, histVars
<1> QED
    BY <1>2, <1>3, <1>4, <1>5, <1>6 DEF Next

\* When enqueues do not overlap, no device's cursor ever passes a queued command
\* that the device has not run, for any number of devices and commands.
THEOREM NoCommandIsSkipped ==
    ASSUME OneEnqueuer
    PROVE  Spec => []NoSilentSkip
<1>1. Init => OneEnqueuerInv
    BY SeqAssumption DEF Init, OneEnqueuerInv, RowsSettled, SkipInv, CoveredUpTo,
                         Settled, Inserting, NoCall, NoMsg
<1>2. TypeOK /\ ChannelInv /\ OneEnqueuerInv /\ [Next]_vars => OneEnqueuerInv'
    BY SkipStep
<1>3. TypeOK /\ OneEnqueuerInv => NoSilentSkip
    BY DEF TypeOK, OneEnqueuerInv, SkipInv, CoveredUpTo, NoSilentSkip
<1> QED
    BY <1>1, <1>2, <1>3, ChannelInvariant, PTL DEF Spec

----------------------------------------------------------------------------
\* With one enqueuer, every step keeps the keyed rows behind a cursor marked: a
\* row is committed above every cursor, and each advance marks what it passes.
LEMMA KeyStep ==
    ASSUME OneEnqueuer, TypeOK, OneEnqueuerInv, KeyHeldOnlyWhilePending, [Next]_vars
    PROVE  KeyHeldOnlyWhilePending'
<1> USE SeqAssumption DEF TypeOK, Seq1
<1> SUFFICES ASSUME NEW r \in queue', NEW e \in bonded',
                    r.serial = e, r.key # NoKey, ~r.applied
             PROVE  r.seq > cursor'[e] \/ r.seq <= base'[e]
    BY DEF KeyHeldOnlyWhilePending
<1>e. e \in Device /\ r.seq \in 1..MaxSeq
    BY TypeStep DEF Row
\* Neither the row nor its device's numbers change.
<1>1. ASSUME r \in queue, e \in bonded, cursor'[e] = cursor[e], base'[e] = base[e]
      PROVE  r.seq > cursor'[e] \/ r.seq <= base'[e]
    BY <1>1 DEF KeyHeldOnlyWhilePending
<1>2. ASSUME NEW o \in Operator, Enqueuing(o)
      PROVE  r.seq > cursor'[e] \/ r.seq <= base'[e]
    <2>1. UNCHANGED <<bonded, cursor, base>>
        BY <1>2 DEF Enqueuing, EnqueueCheck, EnqueueDraw, RefreshDraw, EnqueueCommit,
               EnqueueConflict, RefreshConflict, EnqueueReadBack, dbVars, histVars
    <2>2. CASE r \notin queue
        <3>1. EnqueueCommit(o)
            BY <1>2, <2>2 DEF Enqueuing, EnqueueCheck, EnqueueDraw, RefreshDraw,
                   EnqueueConflict, RefreshConflict, EnqueueReadBack, dbVars
        <3>2. r.seq = enq[o].seq
            BY <2>2, <3>1 DEF EnqueueCommit
        <3>3. Settled = enq[o].seq - 1 /\ cursor[e] <= Settled
            BY <1>e, <3>1 DEF EnqueueCommit, OneEnqueuer, OneEnqueuerInv, RowsSettled, SkipInv, Settled
        <3> QED
            BY <1>e, <2>1, <3>2, <3>3
    <2> QED
        BY <1>1, <2>1, <2>2
<1>3. ASSUME NEW d \in Device, Membership(d)
      PROVE  r.seq > cursor'[e] \/ r.seq <= base'[e]
    <2>1. CASE Ingest(d)
        BY <1>1, <2>1 DEF Ingest, histVars
    <2>2. CASE Register(d)
        <3>1. PICK m \in 0..MaxSeq : /\ IsHead(m)
                                     /\ cursor' = [cursor EXCEPT ![d] = m]
                                     /\ base' = [base EXCEPT ![d] = m]
            BY <2>2 DEF Register
        <3>2. CASE e = d
            BY <1>e, <2>2, <3>1, <3>2 DEF Register, IsHead
        <3>3. CASE e # d
            BY <1>1, <1>e, <2>2, <3>1, <3>3 DEF Register
        <3> QED
            BY <3>2, <3>3
    <2>3. CASE Delete(d)
        BY <1>1, <1>e, <2>3 DEF Delete
    <2> QED
        BY <1>3, <2>1, <2>2, <2>3 DEF Membership
<1>4. ASSUME NEW d \in Device, DeviceStep(d)
      PROVE  r.seq > cursor'[e] \/ r.seq <= base'[e]
    <2>1. UNCHANGED <<queue, bonded, cursor, base>>
        BY <1>4 DEF DeviceStep, Poll, RekeyAndPoll, RunScript, PersistAck, AckWriteFails,
               InSync, FetchFails, Crash, dbVars, histVars
    <2> QED
        BY <1>1, <2>1
<1>5. ASSUME NEW d \in Device, BackendStep(d)
      PROVE  r.seq > cursor'[e] \/ r.seq <= base'[e]
    <2>1. CASE UNCHANGED <<queue, bonded, cursor, base>>
        BY <1>1, <2>1
    <2>2. ASSUME NEW upto \in 0..MaxSeq, Advance(d, upto), UNCHANGED base
          PROVE  r.seq > cursor'[e] \/ r.seq <= base'[e]
        <3>1. PICK q \in queue : r = [q EXCEPT !.applied =
                  q.applied \/ (q.serial = d /\ q.seq <= upto /\ q.key # NoKey)]
            BY <2>2, MarkedRows DEF Advance
        <3>2. /\ r.seq = q.seq /\ r.serial = q.serial /\ r.key = q.key
              /\ ~q.applied /\ ~(q.serial = d /\ q.seq <= upto /\ q.key # NoKey)
            BY <3>1 DEF Row
        <3>a. cursor' = [cursor EXCEPT ![d] = upto] /\ bonded' = bonded
            BY <2>2 DEF Advance
        <3>3. CASE e = d
            <4>1. ~(r.seq <= upto) /\ cursor'[e] = upto
                BY <1>e, <3>2, <3>3, <3>a
            <4> QED
                BY <1>e, <4>1
        <3>4. CASE e # d
            BY <1>e, <2>2, <3>2, <3>4, <3>a DEF KeyHeldOnlyWhilePending
        <3> QED
            BY <3>3, <3>4
    <2>3. Greater(cursor[d], req[d]) \in 0..MaxSeq /\ Greater(cursor[d], late[d]) \in 0..MaxSeq
        BY DEF Msg, NoMsg, Greater
    <2>4. CASE HandleC2(d)
        <3>1. Advance(d, Greater(cursor[d], req[d])) /\ UNCHANGED base
            BY <2>4 DEF HandleC2, histVars
        <3> QED
            BY <2>2, <2>3, <3>1
    <2>5. CASE HandleLate(d)
        <3>1. Advance(d, Greater(cursor[d], late[d])) /\ UNCHANGED base
            BY <2>5 DEF HandleLate, histVars
        <3> QED
            BY <2>2, <2>3, <3>1
    <2>6. CASE Reject(d) \/ LongPollServe(d) \/ LongPollExpire(d)
        BY <2>1, <2>6 DEF Reject, LongPollServe, LongPollExpire, dbVars, histVars
    <2> QED
        BY <1>5, <2>4, <2>5, <2>6 DEF BackendStep
<1>6. CASE UNCHANGED vars
    BY <1>1, <1>6 DEF vars, dbVars, histVars
<1> QED
    BY <1>2, <1>3, <1>4, <1>5, <1>6 DEF Next

\* When enqueues do not overlap, a device's ack releases the idempotency keys of
\* all it has passed: MarkApplied never leaves a keyed row behind the cursor, so
\* the key of a finished command does not swallow the next enqueue of it.
THEOREM KeysAreReleased ==
    ASSUME OneEnqueuer
    PROVE  Spec => []KeyHeldOnlyWhilePending
<1>1. Init => OneEnqueuerInv /\ KeyHeldOnlyWhilePending
    BY SeqAssumption DEF Init, OneEnqueuerInv, RowsSettled, SkipInv, CoveredUpTo,
                         Settled, Inserting, NoCall, NoMsg, KeyHeldOnlyWhilePending
<1>2. TypeOK /\ ChannelInv /\ OneEnqueuerInv /\ KeyHeldOnlyWhilePending /\ [Next]_vars
         => OneEnqueuerInv' /\ KeyHeldOnlyWhilePending'
    BY SkipStep, KeyStep
<1> QED
    BY <1>1, <1>2, ChannelInvariant, PTL DEF Spec
=============================================================================
