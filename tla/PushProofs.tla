------------------------------ MODULE PushProofs ------------------------------
(***************************************************************************)
(* Proofs about what the backend pushes. C2Notify, for any number of       *)
(* devices and commands: no wakeup of a held poll is lost. SseHub, for any *)
(* roster, number of streams and size of mailbox: every stream is served   *)
(* and arrives at the roster; HubInv is the inductive invariant: where a   *)
(* frame can wait (LoopInv) and that the last one waiting for a client     *)
(* carries what the loop sent last (Converges). LogView, for any ranks,    *)
(* batch, page size and order of commits: the tail and the pages hold the  *)
(* rows they should (LogInv).                                              *)
(***************************************************************************)
EXTENDS C2Notify, SseHub, LogView, FiniteSetTheorems, WellFoundedInduction, TLAPS

USE NotifyBounds

LEMMA NotifyTypeInit == Init => TypeOK
  BY DEF Init, TypeOK

LEMMA NotifyTypeNext == TypeOK /\ [Next]_vars => TypeOK'
<1> SUFFICES ASSUME TypeOK, [Next]_vars PROVE TypeOK'
  OBVIOUS
<1> USE DEF TypeOK, waiterVars, hubVars
<1>1. ASSUME NEW S \in SUBSET Waiter, Insert(S) PROVE TypeOK'
  <2>1. cmds' \in [Waiter -> 0..MaxCmd]
    BY <1>1 DEF Insert
  <2>2. pend' \in 0..MaxPend
    BY <1>1 DEF Insert
  <2>3. deaf' \in [Waiter -> BOOLEAN]
    BY <1>1, Zenon DEF Insert
  <2> QED
    BY <1>1, <2>1, <2>2, <2>3 DEF Insert
<1>2. CASE Acquire \/ Listen \/ WaitForNotification \/ Broadcast
  BY <1>2 DEF Acquire, Listen, WaitForNotification, Broadcast
<1>3. CASE ListenFails
  <2>1. deaf' \in [Waiter -> BOOLEAN]
    BY <1>3, Zenon DEF ListenFails
  <2> QED
    BY <1>3, <2>1 DEF ListenFails
<1>4. ASSUME NEW w \in Waiter, Handler(w) PROVE TypeOK'
  <2>1. CASE Serve(w)
    BY <2>1 DEF Serve, Goto
  <2>2. CASE Grab(w)
    BY <2>2 DEF Grab, Goto
  <2>3. CASE Hold(w) \/ NoRows(w) \/ QueryFails(w) \/ Woken(w) \/ Deadline(w)
    BY <2>3 DEF Hold, NoRows, QueryFails, Woken, Deadline, Goto
  <2> QED
    BY <1>4, <2>1, <2>2, <2>3 DEF Handler
<1>5. CASE UNCHANGED vars
  BY <1>5 DEF vars
<1> QED
  BY <1>1, <1>2, <1>3, <1>4, <1>5 DEF Next, Hub

LEMMA NotifyInvNext == TypeOK /\ NotifyInv /\ [Next]_vars => NotifyInv'
<1> SUFFICES ASSUME TypeOK, NotifyInv, [Next]_vars PROVE NotifyInv'
  OBVIOUS
<1> USE DEF TypeOK, NotifyInv, NoLostWakeup, Missing, WakeupOnItsWay, waiterVars, hubVars
<1>1. ASSUME NEW S \in SUBSET Waiter, Insert(S) PROVE NotifyInv'
  <2>1. CASE Listening
    <3>1. pend' > 0
      BY <1>1, <2>1 DEF Insert
    <3> QED
      BY <1>1, <3>1 DEF Insert
  <2>2. CASE ~Listening
    <3>1. pend' = pend
      BY <1>1, <2>2 DEF Insert
    <3>2. \A w \in Waiter : (deaf[w] => deaf'[w]) /\ (w \in S => deaf'[w])
                            /\ (w \notin S => cmds'[w] = cmds[w])
      BY <1>1, <2>2 DEF Insert
    <3> QED
      BY <1>1, <3>1, <3>2 DEF Insert
  <2> QED
    BY <2>1, <2>2
<1>2. CASE Acquire \/ Listen \/ WaitForNotification
  BY <1>2 DEF Acquire, Listen, WaitForNotification
<1>3. CASE Broadcast
  <2>1. \A w \in Waiter : wake'[w] <= ch' /\ wake'[w] # ch'
    BY <1>3 DEF Broadcast
  <2> QED
    BY <2>1
<1>4. CASE ListenFails
  <2>1. \A w \in Waiter : deaf'[w] = (deaf[w] \/ pend > 0)
    BY <1>4 DEF ListenFails
  <2> QED
    BY <1>4, <2>1 DEF ListenFails
<1>5. ASSUME NEW w \in Waiter, Handler(w) PROVE NotifyInv'
  <2> USE DEF Goto
  <2>1. CASE Grab(w)
    BY <2>1 DEF Grab
  <2>2. CASE Serve(w)
    BY <2>2 DEF Serve
  <2>3. CASE NoRows(w)
    BY <2>3 DEF NoRows
  <2>4. CASE Hold(w) \/ QueryFails(w) \/ Woken(w) \/ Deadline(w)
    BY <2>4 DEF Hold, QueryFails, Woken, Deadline
  <2> QED
    BY <1>5, <2>1, <2>2, <2>3, <2>4 DEF Handler
<1>6. CASE UNCHANGED vars
  BY <1>6 DEF vars
<1> QED
  BY <1>1, <1>2, <1>3, <1>4, <1>5, <1>6 DEF Next, Hub

\* c2notify.go and c2LongPoll lose no wakeup while the LISTEN connection is up,
\* for any number of held polls: the channel is taken before the queue is read.
THEOREM NoWakeupIsLost == Spec => []NoLostWakeup
<1>1. Init => NotifyInv
  BY DEF Init, NotifyInv, NoLostWakeup, Missing
<1>2. NotifyInv => NoLostWakeup
  BY DEF NotifyInv
<1> QED
  BY <1>1, <1>2, NotifyTypeInit, NotifyTypeNext, NotifyInvNext, PTL DEF Spec

-----------------------------------------------------------------------------
(* The live-event hub (HubInv). *)

LEMMA RosterFacts == NoRoster \in Roster
  BY DEF NoRoster, Roster

LEMMA FrameFacts ==
  /\ \A f \in Frames : f.topic = "devices" => f.dev \in Device /\ f.val \in Ident \cup {None}
  /\ Other \in Frames /\ Other.topic # "devices"
  /\ \A d \in Device, v \in Ident \cup {None} :
       Delta(d, v) \in Frames /\ FrameFor(Delta(d, v), d) /\ Delta(d, v).val = v
  BY DEF Frames, Delta, Other, FrameFor

LEMMA ClosedFacts ==
  /\ Closed \in Stream /\ [Closed EXCEPT !.pc = "subscribed"] \in Stream
  /\ Closed.mbox = << >> /\ ~Closed.dropped /\ Len(Closed.mbox) = 0
  /\ [Closed EXCEPT !.pc = "subscribed"].mbox = << >>
  /\ Len([Closed EXCEPT !.pc = "subscribed"].mbox) = 0
  /\ ~[Closed EXCEPT !.pc = "subscribed"].dropped
  /\ ~[Closed EXCEPT !.pc = "subscribed"].snap
  /\ [Closed EXCEPT !.pc = "subscribed"].pc # "closed"
  /\ Closed.pc = "closed"
<1>1. << >> \in Seq(Frames) /\ Len(<< >>) = 0
  OBVIOUS
<1> QED
  BY <1>1, RosterFacts DEF Closed, Stream

LEMMA DrainedStream ==
  ASSUME NEW s \in Stream, s.mbox # << >>, NEW t,
         t = Drained(s)
  PROVE  /\ t \in Stream /\ t.mbox = Tail(s.mbox) /\ t.snap = s.snap /\ t.pc = s.pc
         /\ t.dropped = s.dropped /\ t.first = s.first /\ t.base = s.base
         /\ Len(t.mbox) = Len(s.mbox) - 1 /\ Len(s.mbox) \in Nat \ {0}
         /\ \A i \in 1..Len(t.mbox) : t.mbox[i] = s.mbox[i + 1]
         /\ \A d \in Device : t.view[d] = IF FrameFor(s.mbox[1], d) THEN s.mbox[1].val ELSE s.view[d]
<1>1. s.mbox \in Seq(Frames) /\ s.view \in Roster
  BY DEF Stream
<1>2. PICK h : h = Head(s.mbox)
  OBVIOUS
<1>3. h \in Frames /\ Tail(s.mbox) \in Seq(Frames) /\ h = s.mbox[1]
      /\ Len(Tail(s.mbox)) = Len(s.mbox) - 1 /\ Len(s.mbox) \in Nat \ {0}
      /\ \A i \in 1..Len(Tail(s.mbox)) : Tail(s.mbox)[i] = s.mbox[i + 1]
  BY <1>1, <1>2
<1>4. PICK v : v = Applied(s.view, h)
  OBVIOUS
<1>5. v \in Roster /\ \A d \in Device : v[d] = IF FrameFor(h, d) THEN h.val ELSE s.view[d]
  BY <1>1, <1>3, <1>4, FrameFacts DEF Roster, FrameFor, Applied
<1>6. t \in Stream /\ t.mbox = Tail(s.mbox) /\ t.snap = s.snap /\ t.pc = s.pc
      /\ t.dropped = s.dropped /\ t.first = s.first /\ t.base = s.base /\ t.view = v
  BY <1>2, <1>3, <1>4, <1>5 DEF Stream, Drained
<1> QED
  BY <1>3, <1>5, <1>6

LEMMA DrainSets ==
  ASSUME HubTypeOK, NEW c \in Conn, Drain(c)
  PROVE  /\ streams[c] \in Stream /\ streams[c].mbox # << >>
         /\ streams' = [streams EXCEPT ![c] = Drained(streams[c])]
  BY DEF Drain, HubTypeOK

LEMMA HubInvInit == HubInit => HubInv
<1> SUFFICES ASSUME HubInit PROVE HubInv
  OBVIOUS
<1>1. PICK k \in Stream : k = Closed /\ Len(k.mbox) = 0
  BY ClosedFacts
<1>2. streams \in [Conn -> Stream] /\ \A c \in Conn : Len(streams[c].mbox) <= Mailbox
  BY <1>1, HubAssumption DEF HubInit
<1>3. HubTypeOK
  BY <1>2, RosterFacts DEF HubInit, HubTypeOK, Roster
<1>4. LoopInv /\ ServedOrRaced /\ CapCountsLive
  BY ClosedFacts DEF HubInit, LoopInv, ServedOrRaced, CapCountsLive
<1> QED
  BY <1>3, <1>4 DEF HubInit, HubInv

LEMMA HubTypeNext ==
  ASSUME HubTypeOK, HubNext
  PROVE  HubTypeOK'
<1> USE HubAssumption
<1> DEFINE same == /\ table' \in Roster /\ lastSent' \in Roster
                   /\ loop' \in {"off", "wait", "devices", "tails", "exit"}
                   /\ pending' \subseteq Frames /\ subs' \subseteq Conn /\ raced' \subseteq Conn
                   /\ running' \in BOOLEAN /\ primed' \in BOOLEAN /\ alive' \in BOOLEAN
           str == streams' \in [Conn -> Stream] /\ \A c \in Conn : Len(streams'[c].mbox) <= Mailbox
<1>0. streams' = streams => str
  BY DEF HubTypeOK
<1>1. CASE \E d \in Device, v \in Ident \cup {None} : Change(d, v)
  BY <1>0, <1>1 DEF HubTypeOK, Change, Roster
<1>2. CASE TickStart \/ LoopReturn \/ LoopDeferred \/ Shutdown \/ TickRosterFails
  BY <1>0, <1>2 DEF HubTypeOK, TickStart, LoopReturn, LoopDeferred, Shutdown, TickRosterFails
<1>3. CASE TickRoster
  <2>1. DiffRoster(lastSent, table) \subseteq Frames
    BY FrameFacts DEF HubTypeOK, DiffRoster, Roster
  <2> QED
    BY <1>0, <1>3, <2>1 DEF HubTypeOK, TickRoster
<1>4. CASE TickTails
  BY <1>0, <1>4, FrameFacts DEF HubTypeOK, TickTails
<1>5. ASSUME NEW f \in pending, BroadcastFrame(f) PROVE HubTypeOK'
  <2>1. ASSUME NEW c \in Conn PROVE streams'[c] \in Stream /\ Len(streams'[c].mbox) <= Mailbox
    <3>1. streams[c] \in Stream /\ streams[c].mbox \in Seq(Frames) /\ f \in Frames
          /\ Len(streams[c].mbox) <= Mailbox /\ Len(streams[c].mbox) \in Nat
      BY DEF HubTypeOK, Stream
    <3>2. Append(streams[c].mbox, f) \in Seq(Frames)
          /\ Len(Append(streams[c].mbox, f)) = Len(streams[c].mbox) + 1
      BY <3>1
    <3>3. Room(c) => Len(Append(streams[c].mbox, f)) <= Mailbox
      BY <3>1, <3>2 DEF Room
    <3>4. \/ streams'[c] = streams[c]
          \/ Room(c) /\ streams'[c] = [streams[c] EXCEPT !.mbox = Append(streams[c].mbox, f)]
          \/ streams'[c] = [streams[c] EXCEPT !.dropped = TRUE]
      BY <1>5 DEF BroadcastFrame, Fanout
    <3>5. CASE streams'[c] = streams[c]
      BY <3>1, <3>5
    <3>6. CASE Room(c) /\ streams'[c] = [streams[c] EXCEPT !.mbox = Append(streams[c].mbox, f)]
      <4>1. streams'[c] \in Stream /\ streams'[c].mbox = Append(streams[c].mbox, f)
        BY <3>1, <3>2, <3>6 DEF Stream
      <4> QED
        BY <4>1, <3>3, <3>6
    <3>7. CASE streams'[c] = [streams[c] EXCEPT !.dropped = TRUE]
      <4>1. streams'[c] \in Stream /\ streams'[c].mbox = streams[c].mbox
        BY <3>1, <3>7 DEF Stream
      <4> QED
        BY <4>1, <3>1
    <3> QED
      BY <3>4, <3>5, <3>6, <3>7
  <2>2. streams' \in [Conn -> Stream]
    <3>1. streams' = [c \in Conn |-> streams'[c]]
      BY <1>5 DEF BroadcastFrame, Fanout
    <3> QED
      BY <2>1, <3>1
  <2>3. same
    BY <1>5 DEF HubTypeOK, BroadcastFrame, Fanout
  <2> QED
    BY <2>1, <2>2, <2>3 DEF HubTypeOK
<1>6. ASSUME NEW c \in Conn,
             Subscribe(c) \/ Snapshot(c) \/ SnapshotFails(c) \/ Drain(c) \/ Disconnect(c) \/ HandlerEnds(c)
      PROVE  HubTypeOK'
  <2>1. same
    <3>1. CASE Subscribe(c)
      BY <3>1, RosterFacts DEF HubTypeOK, Subscribe, NewLoop
    <3> QED
      BY <1>6, <3>1 DEF HubTypeOK, Snapshot, SnapshotFails, Drain, Disconnect, HandlerEnds, Unsubscribe
  <2>2. \E t \in Stream : Len(t.mbox) <= Mailbox /\ streams' = [streams EXCEPT ![c] = t]
    <3>0. streams[c] \in Stream /\ Len(streams[c].mbox) <= Mailbox /\ table \in Roster /\ lastSent \in Roster
      BY DEF HubTypeOK
    <3>1. CASE Subscribe(c)
      <4>1. PICK t \in Stream : t = [Closed EXCEPT !.pc = "subscribed"] /\ Len(t.mbox) = 0
        BY ClosedFacts
      <4>2. Len(t.mbox) <= Mailbox
        BY <4>1
      <4>3. streams' = [streams EXCEPT ![c] = t]
        BY <3>1, <4>1 DEF Subscribe
      <4> QED
        BY <4>2, <4>3
    <3>2. CASE Snapshot(c)
      <4>1. PICK t : t = [streams[c] EXCEPT !.pc = "streaming", !.snap = TRUE, !.view = table,
                                            !.first = table, !.base = lastSent]
        OBVIOUS
      <4>2. t \in Stream /\ t.mbox = streams[c].mbox
        BY <3>0, <4>1 DEF Stream
      <4> QED
        BY <3>0, <3>2, <4>1, <4>2 DEF Snapshot
    <3>3. CASE SnapshotFails(c)
      <4>1. PICK t : t = [streams[c] EXCEPT !.pc = "streaming"]
        OBVIOUS
      <4>2. t \in Stream /\ t.mbox = streams[c].mbox
        BY <3>0, <4>1 DEF Stream
      <4> QED
        BY <3>0, <3>3, <4>1, <4>2 DEF SnapshotFails
    <3>4. CASE Drain(c)
      <4>0. PICK s \in Stream : s = streams[c]
        BY <3>0
      <4>1. PICK t : t = Drained(s)
        OBVIOUS
      <4>2. streams' = [streams EXCEPT ![c] = t] /\ s.mbox # << >>
        BY <3>4, <4>0, <4>1, DrainSets
      <4>3. t \in Stream /\ Len(t.mbox) = Len(s.mbox) - 1 /\ Len(s.mbox) \in Nat
        BY <4>1, <4>2, DrainedStream
      <4>4. Len(t.mbox) <= Mailbox
        BY <3>0, <4>0, <4>3
      <4> QED
        BY <4>2, <4>3, <4>4
    <3>5. CASE Disconnect(c) \/ HandlerEnds(c)
      BY <3>5, ClosedFacts DEF Disconnect, HandlerEnds, Unsubscribe
    <3> QED
      BY <1>6, <3>1, <3>2, <3>3, <3>4, <3>5
  <2>3. str
    BY <2>2 DEF HubTypeOK
  <2> QED
    BY <2>1, <2>3 DEF HubTypeOK
<1> QED
  BY <1>1, <1>2, <1>3, <1>4, <1>5, <1>6 DEF HubNext

LEMMA LoopInvNext ==
  ASSUME HubTypeOK, LoopInv, HubNext
  PROVE  LoopInv'
<1>1. CASE TickRoster
  BY <1>1 DEF LoopInv, TickRoster, DiffRoster, Delta, HubTypeOK
<1>2. CASE TickTails
  BY <1>2, FrameFacts DEF LoopInv, TickTails
<1>3. CASE \E f \in pending : BroadcastFrame(f)
  BY <1>3 DEF LoopInv, BroadcastFrame
<1>4. CASE \E c \in Conn : Subscribe(c)
  BY <1>4 DEF LoopInv, Subscribe, NewLoop
<1>5. CASE TickStart \/ LoopReturn \/ LoopDeferred \/ TickRosterFails
  BY <1>5 DEF LoopInv, TickStart, LoopReturn, LoopDeferred, TickRosterFails
<1>6. CASE UNCHANGED <<loop, running, lastSent, pending>>
  BY <1>6 DEF LoopInv
<1> QED
  BY <1>1, <1>2, <1>3, <1>4, <1>5, <1>6
     DEF HubNext, Change, Shutdown, Snapshot, SnapshotFails, Drain, Disconnect, HandlerEnds, Unsubscribe

LEMMA ServedNext ==
  ASSUME HubTypeOK, LoopInv, ServedOrRaced, HubNext
  PROVE  ServedOrRaced'
<1>1. CASE \E f \in pending : BroadcastFrame(f)
  BY <1>1 DEF ServedOrRaced, BroadcastFrame, Fanout
<1>2. CASE \E c \in Conn : Subscribe(c)
  BY <1>2 DEF ServedOrRaced, Subscribe, NewLoop, LoopInv
<1>3. CASE \E c \in Conn : Disconnect(c) \/ HandlerEnds(c)
  BY <1>3 DEF ServedOrRaced, Disconnect, HandlerEnds, Unsubscribe
<1> QED
  BY <1>1, <1>2, <1>3
     DEF HubNext, ServedOrRaced, Change, TickStart, TickRoster, TickTails, LoopReturn, LoopDeferred,
         Shutdown, TickRosterFails, Snapshot, SnapshotFails, Drain

\* What each step makes of one stream.
LEMMA CapNext ==
  ASSUME HubTypeOK, CapCountsLive, HubNext
  PROVE  CapCountsLive'
<1>1. CASE \E f \in pending : BroadcastFrame(f)
  <2>1. PICK f \in pending : BroadcastFrame(f)
    BY <1>1
  <2>2. ASSUME NEW c \in Conn
        PROVE  (streams'[c].pc = "closed" \/ streams'[c].dropped) => c \notin subs'
    <3>1. streams[c] \in Stream
      BY DEF HubTypeOK
    <3>2. \/ streams'[c] = streams[c] /\ c \notin subs
          \/ streams'[c] = [streams[c] EXCEPT !.mbox = Append(streams[c].mbox, f)]
          \/ streams'[c] = [streams[c] EXCEPT !.dropped = TRUE] /\ ~Room(c)
      BY <2>1 DEF BroadcastFrame, Fanout
    <3>3. CASE streams'[c] = [streams[c] EXCEPT !.mbox = Append(streams[c].mbox, f)]
      <4>1. streams'[c].pc = streams[c].pc /\ streams'[c].dropped = streams[c].dropped
        BY <3>1, <3>3 DEF Stream
      <4> QED
        BY <2>1, <4>1 DEF BroadcastFrame, Fanout, CapCountsLive
    <3> QED
      BY <2>1, <3>2, <3>3 DEF BroadcastFrame, Fanout, CapCountsLive
  <2> QED
    BY <2>2 DEF CapCountsLive
<1>2. ASSUME NEW c \in Conn,
             Subscribe(c) \/ Snapshot(c) \/ SnapshotFails(c) \/ Drain(c) \/ Disconnect(c) \/ HandlerEnds(c)
      PROVE  CapCountsLive'
  <2>1. \E t : /\ streams' = [streams EXCEPT ![c] = t]
               /\ (t.pc = "closed" \/ t.dropped) => c \notin subs'
               /\ \A e \in Conn \ {c} : e \in subs' => e \in subs
    <3>0. streams[c] \in Stream
      BY DEF HubTypeOK
    <3>1. CASE Subscribe(c)
      <4>1. PICK t \in Stream : t = [Closed EXCEPT !.pc = "subscribed"] /\ t.pc # "closed" /\ ~t.dropped
        BY ClosedFacts
      <4>2. streams' = [streams EXCEPT ![c] = t] /\ \A e \in Conn \ {c} : e \in subs' => e \in subs
        BY <3>1, <4>1 DEF Subscribe
      <4> QED
        BY <4>1, <4>2
    <3>2. CASE Snapshot(c)
      <4>1. PICK t : t = [streams[c] EXCEPT !.pc = "streaming", !.snap = TRUE, !.view = table,
                                            !.first = table, !.base = lastSent]
        OBVIOUS
      <4>2. t.pc = "streaming" /\ t.dropped = streams[c].dropped
        BY <3>0, <4>1 DEF Stream
      <4>3. streams' = [streams EXCEPT ![c] = t] /\ subs' = subs
        BY <3>2, <4>1 DEF Snapshot
      <4> QED
        BY <4>2, <4>3 DEF CapCountsLive
    <3>3. CASE SnapshotFails(c)
      <4>1. PICK t : t = [streams[c] EXCEPT !.pc = "streaming"]
        OBVIOUS
      <4>2. t.pc = "streaming" /\ t.dropped = streams[c].dropped
        BY <3>0, <4>1 DEF Stream
      <4>3. streams' = [streams EXCEPT ![c] = t] /\ subs' = subs
        BY <3>3, <4>1 DEF SnapshotFails
      <4> QED
        BY <4>2, <4>3 DEF CapCountsLive
    <3>4. CASE Drain(c)
      <4>0. PICK s \in Stream : s = streams[c]
        BY <3>0
      <4>1. PICK t : t = Drained(s)
        OBVIOUS
      <4>2. streams' = [streams EXCEPT ![c] = t] /\ s.mbox # << >> /\ subs' = subs
        BY <3>4, <4>0, <4>1, DrainSets DEF Drain
      <4>3. t.pc = s.pc /\ t.dropped = s.dropped
        BY <4>1, <4>2, DrainedStream
      <4> QED
        BY <4>0, <4>2, <4>3 DEF CapCountsLive
    <3>5. CASE Disconnect(c) \/ HandlerEnds(c)
      BY <3>5 DEF Disconnect, HandlerEnds, Unsubscribe
    <3> QED
      BY <1>2, <3>1, <3>2, <3>3, <3>4, <3>5
  <2>2. PICK t : /\ streams' = [streams EXCEPT ![c] = t]
                 /\ (t.pc = "closed" \/ t.dropped) => c \notin subs'
                 /\ \A e \in Conn \ {c} : e \in subs' => e \in subs
    BY <2>1
  <2>3. streams'[c] = t /\ \A e \in Conn \ {c} : streams'[e] = streams[e]
    BY <2>2 DEF HubTypeOK
  <2>4. ASSUME NEW e \in Conn
        PROVE  (streams'[e].pc = "closed" \/ streams'[e].dropped) => e \notin subs'
    <3>1. CASE e = c
      BY <2>2, <2>3, <3>1
    <3>2. CASE e # c
      BY <2>2, <2>3, <3>2 DEF CapCountsLive
    <3> QED
      BY <3>1, <3>2
  <2> QED
    BY <2>4 DEF CapCountsLive
<1> QED
  BY <1>1, <1>2
     DEF HubNext, CapCountsLive, Change, TickStart, TickRoster, TickTails, LoopReturn, LoopDeferred,
         Shutdown, TickRosterFails

\* A frame appended to a mailbox comes after all others in it.
LEMMA AppendedMailbox ==
  ASSUME NEW s \in Seq(Frames), NEW f \in Frames, NEW a, a = Append(s, f)
  PROVE  /\ Len(s) \in Nat /\ Len(a) = Len(s) + 1 /\ a[Len(a)] = f
         /\ \A i \in 1..Len(s) : a[i] = s[i]
  OBVIOUS

LEMMA AppendConverges ==
  ASSUME NEW s \in Seq(Frames), NEW f \in Frames, NEW a, a = Append(s, f), NEW d \in Device
  PROVE  /\ (FrameFor(f, d) => f.val = lastSent[d]) /\ (LastIsSent(s, d) \/ FrameFor(f, d))
              => LastIsSent(a, d)
         /\ FrameFor(f, d) \/ Told(s, d) => Told(a, d)
<1>1. /\ Len(s) \in Nat /\ Len(a) = Len(s) + 1 /\ a[Len(a)] = f
      /\ \A i \in 1..Len(s) : a[i] = s[i]
  BY AppendedMailbox
<1>2. ASSUME FrameFor(f, d) => f.val = lastSent[d], LastIsSent(s, d) \/ FrameFor(f, d)
      PROVE  LastIsSent(a, d)
  <2> SUFFICES ASSUME NEW i \in 1..Len(a), FrameFor(a[i], d),
                      \A j \in 1..Len(a) : j > i => ~FrameFor(a[j], d)
               PROVE  a[i].val = lastSent[d]
    BY DEF LastIsSent
  <2>1. CASE i = Len(a)
    BY <1>1, <1>2, <2>1
  <2>2. CASE i # Len(a)
    <3>1. i \in 1..Len(s) /\ Len(a) \in 1..Len(a) /\ Len(a) > i
      BY <1>1, <2>2
    <3>2. ~FrameFor(f, d)
      BY <1>1, <3>1
    <3>3. \A j \in 1..Len(s) : j > i => ~FrameFor(s[j], d)
      BY <1>1
    <3> QED
      BY <1>1, <1>2, <3>1, <3>2, <3>3 DEF LastIsSent
  <2> QED
    BY <2>1, <2>2
<1>3. FrameFor(f, d) \/ Told(s, d) => Told(a, d)
  <2>1. Len(a) \in 1..Len(a) /\ \A i \in 1..Len(s) : i \in 1..Len(a)
    BY <1>1
  <2> QED
    BY <1>1, <2>1 DEF Told
<1> QED
  BY <1>2, <1>3

LEMMA DrainConverges ==
  ASSUME NEW s \in Stream, s.mbox # << >>, NEW t, NEW d \in Device,
         t = Drained(s),
         LastIsSent(s.mbox, d)
  PROVE  /\ LastIsSent(t.mbox, d)
         /\ Told(s.mbox, d) => Told(t.mbox, d) \/ t.view[d] = lastSent[d]
         /\ ~Told(s.mbox, d) => t.view[d] = s.view[d]
<1>1. /\ Len(t.mbox) = Len(s.mbox) - 1 /\ Len(s.mbox) \in Nat \ {0}
      /\ \A i \in 1..Len(t.mbox) : t.mbox[i] = s.mbox[i + 1]
      /\ t.view[d] = IF FrameFor(s.mbox[1], d) THEN s.mbox[1].val ELSE s.view[d]
  BY DrainedStream
<1>2. 1 \in 1..Len(s.mbox) /\ \A j \in 1..Len(s.mbox) : j # 1 => j - 1 \in 1..Len(t.mbox) /\ s.mbox[j] = t.mbox[j - 1]
  BY <1>1
<1>3. LastIsSent(t.mbox, d)
  <2> SUFFICES ASSUME NEW i \in 1..Len(t.mbox), FrameFor(t.mbox[i], d),
                      \A j \in 1..Len(t.mbox) : j > i => ~FrameFor(t.mbox[j], d)
               PROVE  t.mbox[i].val = lastSent[d]
    BY DEF LastIsSent
  <2>1. i + 1 \in 1..Len(s.mbox) /\ s.mbox[i + 1] = t.mbox[i]
    BY <1>1
  <2>2. ASSUME NEW j \in 1..Len(s.mbox), j > i + 1 PROVE ~FrameFor(s.mbox[j], d)
    <3>1. j - 1 > i /\ j # 1
      BY <2>2
    <3> QED
      BY <1>2, <3>1
  <2> QED
    BY <2>1, <2>2 DEF LastIsSent
<1>4. ASSUME Told(s.mbox, d), ~Told(t.mbox, d) PROVE t.view[d] = lastSent[d]
  <2>1. FrameFor(s.mbox[1], d) /\ \A j \in 1..Len(s.mbox) : j > 1 => ~FrameFor(s.mbox[j], d)
    BY <1>2, <1>4 DEF Told
  <2> QED
    BY <1>1, <1>2, <2>1 DEF LastIsSent
<1>5. ~Told(s.mbox, d) => t.view[d] = s.view[d]
  BY <1>1, <1>2 DEF Told
<1> QED
  BY <1>3, <1>4, <1>5

LEMMA KeepConverges ==
  ASSUME NEW c \in Conn, NEW d \in Device, Converges(c, d), streams'[c] = streams[c],
         lastSent'[d] = lastSent[d], pending \subseteq pending'
  PROVE  Converges(c, d)'
  BY DEF Converges, LastIsSent, Told

LEMMA BroadcastConverges ==
  ASSUME HubInv, NEW f \in pending, BroadcastFrame(f), NEW c \in subs' \ raced', NEW d \in Device
  PROVE  Converges(c, d)'
<1>1. /\ c \in subs \ raced /\ c \in Conn /\ Converges(c, d) /\ Room(c) /\ f \in Frames
      /\ lastSent' = lastSent /\ pending' = pending \ {f}
      /\ streams[c] \in Stream /\ streams[c].mbox \in Seq(Frames)
  BY DEF HubInv, HubTypeOK, BroadcastFrame, Fanout, Stream
<1>0. PICK s \in Stream : s = streams[c]
  BY DEF HubInv, HubTypeOK, BroadcastFrame, Fanout
<1>2. PICK a : s = streams[c] /\ a = Append(s.mbox, f)
  BY <1>0
<1>3. PICK t : t = [s EXCEPT !.mbox = a]
  OBVIOUS
<1>4. streams'[c] = t
  BY <1>1, <1>2, <1>3 DEF BroadcastFrame, Fanout
<1>5. t.mbox = a /\ t.snap = s.snap /\ t.view = s.view /\ t.first = s.first /\ t.base = s.base
  BY <1>3 DEF Stream
<1>6. FrameFor(f, d) => f.val = lastSent[d]
  BY DEF HubInv, LoopInv, FrameFor
<1>7. CASE \E g \in pending : FrameFor(g, d) /\ g # f
  BY <1>1, <1>7 DEF Converges
<1>8. CASE ~\E g \in pending : FrameFor(g, d) /\ g # f
  <2>1. LastIsSent(s.mbox, d) \/ FrameFor(f, d)
    BY <1>1, <1>2, <1>8 DEF Converges
  <2>2. LastIsSent(a, d) /\ (FrameFor(f, d) \/ Told(s.mbox, d) => Told(a, d))
    BY <1>1, <1>2, <1>6, <2>1, AppendConverges
  <2>3. LastIsSent(a, d)' /\ (Told(a, d) => Told(a, d)')
    BY <1>1, <2>2 DEF LastIsSent, Told
  <2>4. \/ ~t.snap \/ Told(a, d) \/ t.view[d] = lastSent[d]
        \/ t.view[d] = t.first[d] /\ lastSent[d] = t.base[d]
    BY <1>1, <1>2, <1>5, <1>8, <2>2 DEF Converges
  <2>5. streams'[c].mbox = a /\ streams'[c].snap = t.snap /\ streams'[c].view = t.view
        /\ streams'[c].first = t.first /\ streams'[c].base = t.base
    BY <1>4, <1>5
  <2> QED
    BY <1>1, <2>3, <2>4, <2>5 DEF Converges
<1> QED
  BY <1>7, <1>8

LEMMA SnapshotConverges ==
  ASSUME HubInv, NEW c \in Conn, Snapshot(c) \/ SnapshotFails(c) \/ Drain(c), c \in subs \ raced,
         NEW d \in Device
  PROVE  Converges(c, d)'
<1>1. /\ Converges(c, d) /\ lastSent' = lastSent /\ pending' = pending
      /\ streams[c] \in Stream /\ streams \in [Conn -> Stream] /\ table \in Roster
  BY DEF HubInv, HubTypeOK, Snapshot, SnapshotFails, Drain
<1>2. PICK s \in Stream : s = streams[c]
  BY <1>1
<1>3. CASE \E f \in pending : FrameFor(f, d)
  BY <1>1, <1>3 DEF Converges
<1>4. ASSUME ~\E f \in pending : FrameFor(f, d) PROVE Converges(c, d)'
  <2>1. LastIsSent(s.mbox, d)
        /\ (\/ ~s.snap \/ Told(s.mbox, d) \/ s.view[d] = lastSent[d]
            \/ s.view[d] = s.first[d] /\ lastSent[d] = s.base[d])
    BY <1>1, <1>2, <1>4 DEF Converges
  <2>2. ASSUME NEW t, streams'[c] = t, LastIsSent(t.mbox, d),
               \/ ~t.snap \/ Told(t.mbox, d) \/ t.view[d] = lastSent[d]
               \/ t.view[d] = t.first[d] /\ lastSent[d] = t.base[d]
        PROVE  Converges(c, d)'
    BY <1>1, <2>2 DEF Converges, LastIsSent, Told
  <2>3. CASE Snapshot(c)
    <3>1. PICK t : t = [s EXCEPT !.pc = "streaming", !.snap = TRUE, !.view = table,
                                 !.first = table, !.base = lastSent]
      OBVIOUS
    <3>2. streams'[c] = t
      BY <1>1, <1>2, <2>3, <3>1 DEF Snapshot
    <3>3. t.mbox = s.mbox /\ t.view = table /\ t.first = table /\ t.base = lastSent
      BY <3>1 DEF Stream
    <3> QED
      BY <2>1, <2>2, <3>2, <3>3
  <2>4. CASE SnapshotFails(c)
    <3>1. PICK t : t = [s EXCEPT !.pc = "streaming"]
      OBVIOUS
    <3>2. streams'[c] = t
      BY <1>1, <1>2, <2>4, <3>1 DEF SnapshotFails
    <3>3. t.mbox = s.mbox /\ t.view = s.view /\ t.first = s.first /\ t.base = s.base /\ t.snap = s.snap
      BY <3>1 DEF Stream
    <3> QED
      BY <2>1, <2>2, <3>2, <3>3
  <2>5. CASE Drain(c)
    <3>1. PICK t : t = Drained(s)
      OBVIOUS
    <3>2. streams'[c] = t /\ s.mbox # << >>
      BY <1>1, <1>2, <2>5, <3>1, DrainSets DEF HubInv
    <3>3. t.first = s.first /\ t.base = s.base /\ t.snap = s.snap
      BY <3>1, <3>2, DrainedStream
    <3>4. /\ LastIsSent(t.mbox, d)
          /\ Told(s.mbox, d) => Told(t.mbox, d) \/ t.view[d] = lastSent[d]
          /\ ~Told(s.mbox, d) => t.view[d] = s.view[d]
      <4>1. LastIsSent(s.mbox, d) /\ s.mbox # << >>
        BY <2>1, <3>2
      <4> QED
        BY <3>1, <4>1, DrainConverges
    <3> QED
      BY <2>1, <2>2, <3>2, <3>3, <3>4
  <2> QED
    BY <2>3, <2>4, <2>5
<1> QED
  BY <1>3, <1>4

LEMMA ConvergesNext ==
  ASSUME HubInv, HubNext, NEW c \in subs' \ raced', NEW d \in Device
  PROVE  Converges(c, d)'
<1> USE DEF HubInv
<1>1. subs \subseteq Conn /\ pending \subseteq Frames
      /\ \A e \in subs \ raced : e \in Conn /\ Converges(e, d)
  BY DEF HubTypeOK
<1>2. CASE (\E x \in Device, v \in Ident \cup {None} : Change(x, v)) \/ TickStart \/ LoopReturn
           \/ LoopDeferred \/ Shutdown \/ TickRosterFails
  <2>1. UNCHANGED <<lastSent, pending, subs, streams, raced>>
    BY <1>2 DEF Change, TickStart, LoopReturn, LoopDeferred, Shutdown, TickRosterFails
  <2> QED
    BY <1>1, <2>1, KeepConverges
<1>3. CASE TickTails
  <2>1. UNCHANGED <<lastSent, subs, streams, raced>> /\ pending \subseteq pending'
    BY <1>3 DEF TickTails
  <2> QED
    BY <1>1, <2>1, KeepConverges
<1>4. CASE TickRoster
  <2>1. /\ UNCHANGED <<subs, streams, raced>> /\ lastSent' = table /\ pending = {}
        /\ pending' = DiffRoster(lastSent, table) /\ table \in Roster
    BY <1>4 DEF TickRoster, LoopInv, HubTypeOK
  <2>2. CASE table[d] = lastSent[d]
    BY <1>1, <2>1, <2>2, KeepConverges
  <2>3. CASE table[d] # lastSent[d]
    <3>1. Delta(d, table[d]) \in pending' /\ FrameFor(Delta(d, table[d]), d)
      BY <2>1, <2>3, FrameFacts DEF DiffRoster, Roster
    <3>2. PICK f \in pending' : FrameFor(f, d)
      BY <3>1
    <3> QED
      BY <3>2 DEF Converges
  <2> QED
    BY <2>2, <2>3
<1>5. CASE \E f \in pending : BroadcastFrame(f)
  BY <1>5, BroadcastConverges
<1>6. ASSUME NEW e \in Conn, Subscribe(e) PROVE Converges(c, d)'
  <2>1. CASE c = e
    <3>1. PICK t : t = [Closed EXCEPT !.pc = "subscribed"]
      OBVIOUS
    <3>2. streams'[c] = t /\ ~t.snap /\ Len(t.mbox) = 0
      BY <1>6, <2>1, <3>1, ClosedFacts DEF Subscribe, HubTypeOK
    <3>3. ~streams'[c].snap /\ \A i \in 1..Len(streams'[c].mbox) : FALSE
      BY <3>2
    <3> QED
      BY <3>3 DEF Converges, LastIsSent
  <2>2. CASE c # e
    <3>1. c \in subs \ raced /\ streams'[c] = streams[c] /\ pending' = pending /\ alive
      BY <1>6, <2>2 DEF Subscribe, HubTypeOK
    <3>2. running
      BY <3>1 DEF LoopInv, ServedOrRaced
    <3>3. lastSent' = lastSent
      BY <1>6, <3>2 DEF Subscribe, NewLoop
    <3> QED
      BY <1>1, <3>1, <3>3, KeepConverges
  <2> QED
    BY <2>1, <2>2
<1>7. ASSUME NEW e \in Conn, Snapshot(e) \/ SnapshotFails(e) \/ Drain(e) PROVE Converges(c, d)'
  <2>1. UNCHANGED <<lastSent, pending, subs, raced>>
    BY <1>7 DEF Snapshot, SnapshotFails, Drain
  <2>2. CASE c = e
    BY <1>7, <2>1, <2>2, SnapshotConverges
  <2>3. CASE c # e
    <3>1. streams'[c] = streams[c]
      BY <1>1, <1>7, <2>1, <2>3 DEF Snapshot, SnapshotFails, Drain, HubTypeOK
    <3> QED
      BY <1>1, <2>1, <3>1, KeepConverges
  <2> QED
    BY <2>2, <2>3
<1>8. ASSUME NEW e \in Conn, Disconnect(e) \/ HandlerEnds(e) PROVE Converges(c, d)'
  <2>1. /\ UNCHANGED <<lastSent, pending>> /\ c # e /\ c \in subs \ raced
        /\ streams'[c] = streams[c]
    BY <1>1, <1>8 DEF Disconnect, HandlerEnds, Unsubscribe, HubTypeOK
  <2> QED
    BY <1>1, <2>1, KeepConverges
<1> QED
  BY <1>2, <1>3, <1>4, <1>5, <1>6, <1>7, <1>8 DEF HubNext

LEMMA HubInvNext == HubInv /\ [HubNext]_sseVars => HubInv'
<1>1. ASSUME HubInv, HubNext PROVE HubInv'
  <2>1. HubTypeOK' /\ LoopInv' /\ ServedOrRaced' /\ CapCountsLive'
    BY <1>1, HubTypeNext, LoopInvNext, ServedNext, CapNext DEF HubInv
  <2>2. \A c \in subs' \ raced', d \in Device : Converges(c, d)'
    BY <1>1, ConvergesNext
  <2> QED
    BY <2>1, <2>2 DEF HubInv
<1>2. ASSUME HubInv, UNCHANGED sseVars PROVE HubInv'
  BY <1>2 DEF HubInv, sseVars, HubTypeOK, LoopInv, ServedOrRaced, CapCountsLive, Converges,
              LastIsSent, Told, Room
<1> QED
  BY <1>1, <1>2

LEMMA HubInvSuffices == HubInv => HubSound
<1> SUFFICES ASSUME HubInv, NEW c \in Conn \ raced, CaughtUp(c), NEW d \in Device
             PROVE  \/ streams[c].view[d] = table[d]
                    \/ streams[c].view[d] = streams[c].first[d] /\ table[d] = streams[c].base[d]
  BY DEF HubInv, HubSound, DriftOnlyFromSnapshot
<1>1. ~Told(streams[c].mbox, d) /\ pending = {} /\ lastSent = table /\ streams[c].snap
  BY DEF CaughtUp, Told
<1>2. Converges(c, d)
  BY DEF HubInv, CaughtUp
<1> QED
  BY <1>1, <1>2 DEF Converges

(* Every stream of the hub has a loop that serves it or lost the one race  *)
(* (runLoop's last look against its deferred running = false), arrives at  *)
(* the roster once it has drained its mailbox or was never told of a row   *)
(* its snapshot had newer, and holds a slot only while it lives.           *)
THEOREM StreamsAreSound == HubSpec => []HubSound
<1>1. HubSpec => []HubInv
  BY HubInvInit, HubInvNext, PTL DEF HubSpec
<1> QED
  BY <1>1, HubInvSuffices, PTL

-----------------------------------------------------------------------------
(* LogView.                                                                *)

(* A set of naturals that is not empty has a least member: the induction   *)
(* over numbers that the proofs about recursive functions rest on.         *)
LEMMA LeastNumber == ASSUME NEW T, T \subseteq Nat, T # {} PROVE \E x \in T : \A y \in T : x <= y
<1> DEFINE R == StrictSubsetOrdering(Nat)
           S == FiniteSubsetsOf(Nat)
           U == {0..n : n \in T}
<1>1. IsWellFoundedOn(R, S)
  BY FS_StrictSubsetOrderingWellFounded
<1>2. \A n \in T : 0..n \in S
  <2> SUFFICES ASSUME NEW n \in T PROVE 0..n \in S
    OBVIOUS
  <2>1. IsFiniteSet(0..n)
    BY FS_Interval
  <2>2. 0..n \subseteq Nat
    OBVIOUS
  <2> QED
    BY <2>1, <2>2 DEF FiniteSubsetsOf
<1>3. U \subseteq S /\ U # {}
  BY <1>2
<1>4. PICK u \in U : \A v \in U : ~(<<v, u>> \in R)
  <2> HIDE DEF R, S, U
  <2> QED
    BY <1>1, <1>3, WFMin
<1>5. PICK x \in T : u = 0..x
  OBVIOUS
<1>6. ASSUME NEW y \in T, y < x PROVE FALSE
  <2>1. 0..y \subseteq 0..x /\ 0..y # 0..x
    <3>1. x \in 0..x /\ x \notin 0..y
      BY <1>6
    <3> QED
      BY <1>6, <3>1
  <2>2. <<0..y, 0..x>> \in R
    BY <1>2, <2>1 DEF StrictSubsetOrdering, FiniteSubsetsOf
  <2> QED
    BY <1>4, <1>5, <2>2
<1>7. \A y \in T : ~(y < x)
  BY <1>6
<1>8. \A y \in T : x <= y
  BY <1>7
<1> QED
  BY <1>8

Unfolds(f, S, n, asc) == f = [k \in 0..n |-> IF k = 0 THEN <<>> ELSE Extend(S, f[k - 1], asc)]

LEMMA FirstUnfolds ==
  ASSUME NEW S, NEW n \in Nat, NEW asc
  PROVE  \E f : Unfolds(f, S, n, asc) /\ First(S, n, asc) = f[n]
<1> DEFINE Failing == {m \in Nat : ~ \E f : Unfolds(f, S, m, asc)}
           g == CHOOSE f : Unfolds(f, S, n, asc)
<1>1. Failing = {}
  <2> SUFFICES ASSUME Failing # {} PROVE FALSE
    OBVIOUS
  <2>1. PICK m \in Failing : \A y \in Failing : m <= y
    BY LeastNumber
  <2>2. m # 0
    <3>1. Unfolds([k \in 0..0 |-> <<>>], S, 0, asc)
      BY DEF Unfolds
    <3> QED
      BY <2>1, <3>1
  <2>3. m - 1 \in Nat /\ ~(m <= m - 1)
    BY <2>2
  <2>4. m - 1 \notin Failing
    <3> HIDE DEF Failing
    <3> QED
      BY <2>1, <2>3
  <2>5. PICK f : Unfolds(f, S, m - 1, asc)
    BY <2>3, <2>4
  <2> DEFINE h == [k \in 0..m |-> IF k < m THEN f[k] ELSE Extend(S, f[m - 1], asc)]
  <2>6. ASSUME NEW k \in 0..m PROVE h[k] = IF k = 0 THEN <<>> ELSE Extend(S, h[k - 1], asc)
    <3>1. CASE k = m
      <4>1. m - 1 \in 0..m /\ m - 1 < m /\ ~(m < m)
        BY <2>3
      <4>2. h[m] = Extend(S, f[m - 1], asc) /\ h[m - 1] = f[m - 1]
        BY <2>3, <4>1
      <4> QED
        BY <2>2, <3>1, <4>2
    <3>2. CASE k # m
      <4>1. k \in 0..(m - 1) /\ k < m
        BY <2>3, <3>2
      <4>2. f[k] = IF k = 0 THEN <<>> ELSE Extend(S, f[k - 1], asc)
        BY <2>5, <4>1, Zenon DEF Unfolds
      <4>3. h[k] = f[k]
        BY <4>1
      <4>4. k # 0 => h[k - 1] = f[k - 1]
        <5> SUFFICES ASSUME k # 0 PROVE h[k - 1] = f[k - 1]
          OBVIOUS
        <5>1. k - 1 \in 0..m /\ k - 1 < m
          BY <4>1
        <5> QED
          BY <5>1
      <4> HIDE DEF h
      <4> QED
        BY <4>2, <4>3, <4>4
    <3> QED
      BY <3>1, <3>2
  <2>7. h = [k \in 0..m |-> h[k]]
    OBVIOUS
  <2>8. Unfolds(h, S, m, asc)
    <3> HIDE DEF h
    <3>1. [k \in 0..m |-> h[k]] = [k \in 0..m |-> IF k = 0 THEN <<>> ELSE Extend(S, h[k - 1], asc)]
      BY <2>6, Zenon
    <3> QED
      BY <2>7, <3>1 DEF Unfolds
  <2> QED
    BY <2>1, <2>8
<1>2. Unfolds(g, S, n, asc)
  BY <1>1
<1>3. First(S, n, asc) = g[n]
  BY DEF First, Unfolds
<1> QED
  BY <1>2, <1>3

Key == Int \X Int

LEMMA KeyFacts == Row \subseteq Key /\ NoMark \in Key /\ \A c \in Int : <<c, 0>> \in Key
<1>1. Row \subseteq Key
  <2> SUFFICES ASSUME NEW a \in 0..MaxTime, NEW b \in Rank PROVE <<a, b>> \in Key
    BY DEF Row
  <2>1. a \in Int /\ b \in Int
    BY LogAssumption
  <2> QED
    BY <2>1 DEF Key
<1>2. NoMark \in Key
  <2>1. -1 \in Int
    OBVIOUS
  <2> QED
    BY <2>1 DEF NoMark, Key
<1>3. \A c \in Int : <<c, 0>> \in Key
  <2>1. 0 \in Int
    OBVIOUS
  <2> QED
    BY <2>1 DEF Key
<1> QED
  BY <1>1, <1>2, <1>3

LEMMA KeyOrder ==
  ASSUME NEW asc
  PROVE  /\ \A a \in Key : ~Before(a, a, asc)
         /\ \A a, b \in Key : a = b \/ Before(a, b, asc) \/ Before(b, a, asc)
         /\ \A a, b, c \in Key : Before(a, b, asc) /\ Before(b, c, asc) => Before(a, c, asc)
<1>1. \A a \in Key : a[1] \in Int /\ a[2] \in Int /\ a = <<a[1], a[2]>>
  BY DEF Key
<1>2. \A a \in Key : ~Less(a, a)
  BY <1>1 DEF Less
<1>3. \A a, b \in Key : a = b \/ Less(a, b) \/ Less(b, a)
  <2> SUFFICES ASSUME NEW a \in Key, NEW b \in Key PROVE a = b \/ Less(a, b) \/ Less(b, a)
    OBVIOUS
  <2>1. a[1] = b[1] /\ a[2] = b[2] => a = b
    BY <1>1
  <2>2. a[1] \in Int /\ a[2] \in Int /\ b[1] \in Int /\ b[2] \in Int
    BY <1>1
  <2> QED
    BY <2>1, <2>2 DEF Less
<1>4. \A a, b, c \in Key : Less(a, b) /\ Less(b, c) => Less(a, c)
  <2> SUFFICES ASSUME NEW a \in Key, NEW b \in Key, NEW c \in Key, Less(a, b), Less(b, c) PROVE Less(a, c)
    OBVIOUS
  <2>1. a[1] \in Int /\ a[2] \in Int /\ b[1] \in Int /\ b[2] \in Int /\ c[1] \in Int /\ c[2] \in Int
    BY <1>1
  <2> QED
    BY <2>1 DEF Less
<1>5. CASE asc
  BY <1>2, <1>3, <1>4, <1>5 DEF Before
<1>6. CASE ~asc
  BY <1>2, <1>3, <1>4, <1>6 DEF Before
<1> QED
  BY <1>5, <1>6

LEMMA TopFacts ==
  ASSUME NEW S, S \subseteq Row, S # {}, NEW asc
  PROVE  Top(S, asc) \in S /\ \A s \in S \ {Top(S, asc)} : Before(Top(S, asc), s, asc)
<1> DEFINE Ahead(x) == {y \in S : Before(y, x, asc)}
           U == {Ahead(x) : x \in S}
           R == StrictSubsetOrdering(S)
<1>1. IsFiniteSet(S)
  <2>1. IsFiniteSet(0..MaxTime)
    BY LogAssumption, FS_Interval
  <2>2. IsFiniteSet(Row)
    BY LogAssumption, <2>1, FS_Product DEF Row
  <2> QED
    BY <2>2, FS_Subset
<1>2. IsWellFoundedOn(R, FiniteSubsetsOf(S))
  BY FS_StrictSubsetOrderingWellFounded
<1>3. \A x \in S : Ahead(x) \in FiniteSubsetsOf(S)
  <2> SUFFICES ASSUME NEW x \in S PROVE Ahead(x) \in FiniteSubsetsOf(S)
    OBVIOUS
  <2>1. Ahead(x) \subseteq S
    OBVIOUS
  <2>2. IsFiniteSet(Ahead(x))
    BY <1>1, <2>1, FS_Subset
  <2> QED
    BY <2>1, <2>2 DEF FiniteSubsetsOf
<1>4. U \subseteq FiniteSubsetsOf(S) /\ U # {}
  <2> HIDE DEF Ahead
  <2> QED
    BY <1>3
<1>5. PICK u \in U : \A v \in U : ~(<<v, u>> \in R)
  <2> HIDE DEF R, U
  <2> QED
    BY <1>2, <1>4, WFMin
<1>6. PICK x \in S : u = Ahead(x)
  OBVIOUS
<1>7. \A s \in S : s \in Key
  BY KeyFacts
<1>8. ASSUME NEW s \in S, Before(s, x, asc) PROVE FALSE
  <2>1. s \in Ahead(x) /\ s \notin Ahead(s)
    BY <1>7, <1>8, KeyOrder
  <2>2. Ahead(s) \subseteq Ahead(x)
    <3> SUFFICES ASSUME NEW y \in S, Before(y, s, asc) PROVE Before(y, x, asc)
      OBVIOUS
    <3> QED
      BY <1>7, <1>8, KeyOrder
  <2>3. <<Ahead(s), Ahead(x)>> \in R
    <3> HIDE DEF Ahead
    <3> QED
      BY <1>3, <2>1, <2>2 DEF StrictSubsetOrdering, FiniteSubsetsOf
  <2>4. Ahead(s) \in U
    <3> HIDE DEF Ahead
    <3> QED
      OBVIOUS
  <2> QED
    BY <1>5, <1>6, <2>3, <2>4
<1>9. \A s \in S \ {x} : Before(x, s, asc)
  BY <1>7, <1>8, KeyOrder
<1> QED
  BY <1>9 DEF Top

\* s begins the enumeration of S in key order, and is all of it if short of k.
Begins(S, s, k, asc) ==
  /\ s \in Seq(S) /\ Len(s) <= k
  /\ \A i, j \in DOMAIN s : i < j => Before(s[i], s[j], asc)
  /\ \A x \in S \ Elems(s) : \A i \in DOMAIN s : Before(s[i], x, asc)
  /\ Len(s) < k => S \subseteq Elems(s)

LEMMA ExtendBegins ==
  ASSUME NEW S, S \subseteq Row, NEW k \in Nat, NEW asc, NEW s, Begins(S, s, k, asc)
  PROVE  Begins(S, Extend(S, s, asc), k + 1, asc)
<1>1. s \in Seq(S) /\ Len(s) \in Nat /\ DOMAIN s = 1..Len(s) /\ \A i \in DOMAIN s : s[i] \in S
  BY DEF Begins
<1>2. CASE S \ Elems(s) = {}
  <2>1. Extend(S, s, asc) = s
    BY <1>2 DEF Extend
  <2>2. Len(s) <= k + 1 /\ S \subseteq Elems(s)
    BY <1>1, <1>2 DEF Begins
  <2> QED
    BY <2>1, <2>2 DEF Begins
<1>3. CASE S \ Elems(s) # {}
  <2> DEFINE left == S \ Elems(s)
             x == Top(left, asc)
             t == Append(s, x)
  <2>1. x \in left /\ \A y \in left \ {x} : Before(x, y, asc)
    <3> HIDE DEF left
    <3>1. left \subseteq Row /\ left # {}
      BY <1>3 DEF left
    <3> QED
      BY <3>1, TopFacts
  <2>2. Extend(S, s, asc) = t
    BY <1>3 DEF Extend
  <2> HIDE DEF x, left
  <2>3. x \in S /\ x \notin Elems(s)
    BY <2>1 DEF left
  <2>4. t \in Seq(S) /\ Len(t) = Len(s) + 1 /\ t[Len(s) + 1] = x /\ \A i \in DOMAIN s : t[i] = s[i]
    BY <1>1, <2>3
  <2>5. DOMAIN t = 1..(Len(s) + 1)
    BY <1>1, <2>4
  <2> HIDE DEF t
  <2>6. \A i \in DOMAIN t : (i \in DOMAIN s /\ t[i] = s[i]) \/ (i = Len(s) + 1 /\ t[i] = x)
    BY <1>1, <2>4, <2>5
  <2>7. Elems(t) = Elems(s) \cup {x}
    <3>1. \A i \in DOMAIN s : i \in DOMAIN t
      BY <1>1, <2>5
    <3>2. Len(s) + 1 \in DOMAIN t
      BY <1>1, <2>5
    <3> QED
      BY <2>4, <2>6, <3>1, <3>2 DEF Elems
  <2>8. Len(s) = k
    <3>1. ~(S \subseteq Elems(s))
      BY <1>3
    <3>2. Len(s) <= k /\ (Len(s) < k => S \subseteq Elems(s))
      BY DEF Begins
    <3>3. ~(Len(s) < k)
      BY <3>1, <3>2
    <3>4. Len(s) \in Nat /\ Len(s) <= k
      BY <1>1, <3>2
    <3> QED
      BY <3>3, <3>4
  <2>9. \A i, j \in DOMAIN t : i < j => Before(t[i], t[j], asc)
    <3> SUFFICES ASSUME NEW i \in DOMAIN t, NEW j \in DOMAIN t, i < j PROVE Before(t[i], t[j], asc)
      OBVIOUS
    <3>1. i \in DOMAIN s /\ t[i] = s[i]
      BY <1>1, <2>5, <2>6
    <3>2. CASE j \in DOMAIN s
      <4>1. t[j] = s[j]
        BY <2>4, <3>2
      <4> QED
        BY <3>1, <3>2, <4>1 DEF Begins
    <3>3. CASE j \notin DOMAIN s
      <4>1. t[j] = x
        BY <2>6, <3>3
      <4> QED
        BY <2>3, <3>1, <4>1 DEF Begins
    <3> QED
      BY <3>2, <3>3
  <2>10. \A y \in S \ Elems(t) : \A i \in DOMAIN t : Before(t[i], y, asc)
    <3> SUFFICES ASSUME NEW y \in S \ Elems(t), NEW i \in DOMAIN t PROVE Before(t[i], y, asc)
      OBVIOUS
    <3>1. y \in S \ Elems(s) /\ y \in left \ {x}
      BY <2>7 DEF left
    <3> QED
      BY <2>1, <2>6, <3>1 DEF Begins
  <2>11. Len(t) = k + 1 /\ ~(Len(t) < k + 1) /\ Len(t) <= k + 1
    BY <2>4, <2>8
  <2> QED
    BY <2>2, <2>4, <2>9, <2>10, <2>11 DEF Begins
<1> QED
  BY <1>2, <1>3

LEMMA FirstBegins ==
  ASSUME NEW S, S \subseteq Row, NEW n \in Nat, NEW asc
  PROVE  Begins(S, First(S, n, asc), n, asc)
<1>1. PICK f : Unfolds(f, S, n, asc) /\ First(S, n, asc) = f[n]
  BY FirstUnfolds
<1>2. \A k \in 0..n : f[k] = IF k = 0 THEN <<>> ELSE Extend(S, f[k - 1], asc)
  BY <1>1, Zenon DEF Unfolds
<1> DEFINE Wrong == {k \in 0..n : ~Begins(S, f[k], k, asc)}
<1>3. Wrong = {}
  <2> SUFFICES ASSUME Wrong # {} PROVE FALSE
    OBVIOUS
  <2>1. Wrong \subseteq Nat
    OBVIOUS
  <2>2. PICK k \in Wrong : \A y \in Wrong : k <= y
    <3> HIDE DEF Wrong
    <3> QED
      BY <2>1, LeastNumber
  <2>3. CASE k = 0
    <3>1. f[k] = << >>
      BY <1>2, <2>3
    <3>2. Begins(S, << >>, 0, asc)
      BY DEF Begins
    <3> QED
      BY <2>2, <2>3, <3>1, <3>2
  <2>4. CASE k # 0
    <3>1. k - 1 \in 0..n /\ k - 1 \in Nat /\ ~(k <= k - 1) /\ (k - 1) + 1 = k
      BY <2>4
    <3>2. k - 1 \notin Wrong
      <4> HIDE DEF Wrong
      <4> QED
        BY <2>2, <3>1
    <3>3. Begins(S, f[k - 1], k - 1, asc)
      BY <3>1, <3>2
    <3>4. f[k] = Extend(S, f[k - 1], asc)
      BY <1>2, <2>4
    <3>5. Begins(S, f[k], k, asc)
      BY <3>1, <3>3, <3>4, ExtendBegins
    <3> QED
      BY <3>5
  <2> QED
    BY <2>3, <2>4
<1>4. n \in 0..n
  OBVIOUS
<1> QED
  BY <1>1, <1>3, <1>4

LEMMA FirstFacts ==
  ASSUME NEW S, S \subseteq Row, NEW n \in Nat, NEW asc
  PROVE  LET s == First(S, n, asc) IN
         /\ s \in Seq(Row) /\ Len(s) \in Nat /\ DOMAIN s = 1..Len(s) /\ Len(s) <= n
         /\ \A i \in DOMAIN s : s[i] \in S
         /\ \A i, j \in DOMAIN s : i < j => Before(s[i], s[j], asc)
         /\ \A x \in S \ Elems(s) : \A i \in DOMAIN s : Before(s[i], x, asc)
         /\ Len(s) < n => S \subseteq Elems(s)
<1> DEFINE s == First(S, n, asc)
<1>1. Begins(S, s, n, asc)
  BY FirstBegins
<1> HIDE DEF s
<1>2. s \in Seq(S)
  BY <1>1 DEF Begins
<1>3. s \in Seq(Row) /\ Len(s) \in Nat /\ DOMAIN s = 1..Len(s) /\ \A i \in DOMAIN s : s[i] \in S
  BY <1>2
<1> QED
  BY <1>1, <1>3 DEF Begins, s

LEMMA MarkFacts == Mark \subseteq Key
<1> SUFFICES ASSUME NEW m \in Mark PROVE m \in Key
  OBVIOUS
<1>1. CASE m = NoMark
  BY <1>1, KeyFacts
<1>2. CASE m # NoMark
  <2>1. PICK a \in 0..MaxTime, b \in Rank \cup {0} : m = <<a, b>>
    BY <1>2 DEF Mark
  <2>2. a \in Int /\ b \in Int
    BY LogAssumption
  <2> QED
    BY <2>1, <2>2 DEF Key
<1> QED
  BY <1>1, <1>2

LEMMA RowsAreMarks == \A r \in Row : r \in Key /\ r \in Mark /\ r # NoMark /\ r[1] \in 0..MaxTime /\ r[2] \in Rank
<1> SUFFICES ASSUME NEW a \in 0..MaxTime, NEW b \in Rank
             PROVE  LET r == <<a, b>> IN r \in Key /\ r \in Mark /\ r # NoMark /\ r[1] \in 0..MaxTime /\ r[2] \in Rank
  BY DEF Row
<1>1. a # -1
  OBVIOUS
<1>2. <<a, b>> \in Row
  BY DEF Row
<1>3. <<a, b>> # NoMark
  BY <1>1 DEF NoMark
<1> QED
  BY <1>2, <1>3, KeyFacts DEF Mark

LEMMA LogInvInit == LogInit => LogInv
<1> SUFFICES ASSUME LogInit PROVE LogInv
  OBVIOUS
<1>1. LogType
  <2>1. 0 \in 0..MaxTime /\ << >> \in Seq(Row) /\ NoMark \in Mark
    BY LogAssumption DEF Mark
  <2>2. page \in [active : BOOLEAN, done : BOOLEAN, before : Row \cup {NoMark},
                  first : SUBSET Row, got : Seq(Row)]
    BY <2>1 DEF LogInit, NoPage
  <2> QED
    BY <2>1, <2>2 DEF LogInit, LogType
<1>2. Once /\ MarkAtTail /\ CursorAtPage
  BY DEF LogInit, NoPage, Once, MarkAtTail, CursorAtPage
<1>3. RowsExact
  <2>1. Ascending(<< >>)
    BY DEF Ascending
  <2>2. \A i, j \in DOMAIN << >> : FALSE
    OBVIOUS
  <2> QED
    BY <2>1, <2>2 DEF LogInit, NoPage, RowsExact, TailExact, PagesExact
<1> QED
  BY <1>1, <1>2, <1>3 DEF LogInv

LEMMA LogBegins ==
  ASSUME LogInv, NEW k \in Rank, Begin(k) \/ BeginSame(k)
  PROVE  LogInv'
<1>0. PICK t \in 0..MaxTime :
        /\ clock' = t /\ clock <= t /\ open' = open \cup {<<t, k>>} /\ <<t, k>> \notin logs
        /\ UNCHANGED <<logs, hw, primedAt, tail, overtaken, page>>
  <2>1. CASE Begin(k)
    <3>1. clock + 1 \in 0..MaxTime /\ clock <= clock + 1 /\ ~(clock + 1 <= clock)
      BY <2>1, LogAssumption DEF Begin, LogInv, LogType
    <3>2. <<clock + 1, k>>[1] = clock + 1
      OBVIOUS
    <3>3. <<clock + 1, k>> \notin logs
      BY <3>1, <3>2 DEF LogInv, Once
    <3> QED
      BY <2>1, <3>1, <3>3 DEF Begin
  <2>2. CASE BeginSame(k)
    <3>1. clock \in 0..MaxTime /\ clock <= clock
      BY DEF LogInv, LogType
    <3> QED
      BY <2>2, <3>1 DEF BeginSame
  <2> QED
    BY <2>1, <2>2
<1>1. <<t, k>> \in Row /\ <<t, k>>[1] = t
  BY DEF Row
<1>2. LogType'
  BY <1>0, <1>1 DEF LogInv, LogType
<1>3. Once'
  <2>1. open' \cap logs' = {}
    BY <1>0 DEF LogInv, Once
  <2>2. ASSUME NEW r \in open' \cup logs' PROVE r[1] <= clock'
    <3>1. CASE r = <<t, k>>
      BY <1>0, <1>1, <3>1
    <3>2. CASE r # <<t, k>>
      <4>1. r \in open \cup logs /\ r[1] <= clock
        BY <1>0, <3>2 DEF LogInv, Once
      <4>2. r[1] \in Int /\ clock \in Int /\ t \in Int
        BY <4>1, RowsAreMarks DEF LogInv, LogType
      <4> QED
        BY <1>0, <4>1, <4>2
    <3> QED
      BY <3>1, <3>2
  <2> QED
    BY <2>1, <2>2 DEF Once
<1>4. MarkAtTail' /\ CursorAtPage' /\ RowsExact'
  BY <1>0 DEF LogInv, MarkAtTail, CursorAtPage, RowsExact, TailExact, PagesExact
<1> QED
  BY <1>2, <1>3, <1>4 DEF LogInv

LEMMA LogCommits == ASSUME LogInv, NEW r \in open, Commit(r) PROVE LogInv'
<1>0. /\ open' = open \ {r} /\ logs' = logs \cup {r}
      /\ overtaken' = IF hw # NoMark /\ ~Less(hw, r) THEN overtaken \cup {r} ELSE overtaken
      /\ UNCHANGED <<clock, hw, primedAt, tail, page>>
  BY DEF Commit
<1>1. r \in Row /\ r \in Key /\ r \notin logs /\ r \notin overtaken /\ overtaken \subseteq logs
  BY KeyFacts DEF LogInv, LogType, Once
<1>2. hw \in Key /\ primedAt \in Key
  BY MarkFacts DEF LogInv, LogType
<1>3. LogType'
  <2>1. overtaken' \subseteq logs'
    BY <1>0, <1>1
  <2> QED
    BY <1>0, <1>1, <2>1 DEF LogInv, LogType
<1>4. Once'
  BY <1>0 DEF LogInv, Once
<1>5. MarkAtTail'
  BY <1>0 DEF LogInv, MarkAtTail
<1>6. CursorAtPage' /\ PagesExact'
  BY <1>0 DEF LogInv, CursorAtPage, RowsExact, PagesExact
<1>7. TailExact'
  <2>1. Ascending(tail')
    BY <1>0 DEF LogInv, RowsExact, TailExact
  <2>2. ASSUME hw # NoMark
        PROVE  {x \in logs' : Less(primedAt, x)} \ overtaken'
                 = Elems(tail) \cup {x \in logs' \ overtaken' : Less(hw, x)}
    <3>1. {x \in logs : Less(primedAt, x)} \ overtaken = Elems(tail) \cup {x \in logs \ overtaken : Less(hw, x)}
      BY <2>2 DEF LogInv, RowsExact, TailExact
    <3>2. CASE Less(hw, r)
      <4>1. Less(primedAt, r)
        <5>1. hw = primedAt \/ Less(primedAt, hw)
          BY <2>2 DEF LogInv, MarkAtTail
        <5>2. \A a, b, c \in Key : Less(a, b) /\ Less(b, c) => Less(a, c)
          BY KeyOrder DEF Before
        <5> QED
          BY <1>1, <1>2, <3>2, <5>1, <5>2
      <4>2. overtaken' = overtaken
        BY <1>0, <3>2
      <4> QED
        BY <1>0, <1>1, <3>1, <3>2, <4>1, <4>2
    <3>3. CASE ~Less(hw, r)
      <4>1. overtaken' = overtaken \cup {r}
        BY <1>0, <2>2, <3>3
      <4>2. logs' \ overtaken' = logs \ overtaken
        BY <1>0, <1>1, <4>1
      <4>3. {x \in logs' : Less(primedAt, x)} \ overtaken' = {x \in logs : Less(primedAt, x)} \ overtaken
        BY <4>2
      <4> QED
        BY <3>1, <4>2, <4>3
    <3> QED
      BY <3>2, <3>3
  <2> QED
    BY <1>0, <2>1, <2>2 DEF TailExact
<1> QED
  BY <1>3, <1>4, <1>5, <1>6, <1>7 DEF LogInv, RowsExact

LEMMA LogPrimes == ASSUME LogInv, Prime PROVE LogInv'
<1>0. /\ hw = NoMark /\ hw' = IF logs = {} THEN <<clock, 0>> ELSE Top(logs, FALSE)
      /\ primedAt' = hw' /\ UNCHANGED <<clock, open, logs, tail, overtaken, page>>
  BY DEF Prime
<1>1. hw' \in Mark /\ hw' # NoMark
  <2>1. CASE logs = {}
    <3>1. clock \in 0..MaxTime /\ clock # -1
      BY DEF LogInv, LogType
    <3>2. <<clock, 0>> \in Mark
      BY <3>1 DEF Mark
    <3>3. <<clock, 0>> # NoMark
      BY <3>1 DEF NoMark
    <3> QED
      BY <1>0, <2>1, <3>2, <3>3
  <2>2. CASE logs # {}
    <3>1. logs \subseteq Row
      BY DEF LogInv, LogType
    <3>2. Top(logs, FALSE) \in Row
      BY <2>2, <3>1, TopFacts
    <3> QED
      BY <1>0, <2>2, <3>2, RowsAreMarks
  <2> QED
    BY <2>1, <2>2
<1>2. tail = <<>> /\ overtaken = {}
  BY <1>0 DEF LogInv, MarkAtTail
<1>3. LogType' /\ Once'
  BY <1>0, <1>1 DEF LogInv, LogType, Once
<1>4. MarkAtTail' /\ CursorAtPage' /\ PagesExact'
  BY <1>0, <1>1, <1>2 DEF LogInv, MarkAtTail, CursorAtPage, RowsExact, PagesExact
<1>5. TailExact'
  <2>1. Ascending(tail')
    BY <1>0 DEF LogInv, RowsExact, TailExact
  <2>2. Elems(tail') = {}
    BY <1>0, <1>2 DEF Elems
  <2> QED
    BY <1>0, <1>2, <2>1, <2>2 DEF TailExact
<1> QED
  BY <1>3, <1>4, <1>5 DEF LogInv, RowsExact

LEMMA ConcatFacts ==
  ASSUME NEW s \in Seq(Row), NEW t \in Seq(Row)
  PROVE  /\ s \o t \in Seq(Row) /\ Len(s \o t) = Len(s) + Len(t)
         /\ \A i \in DOMAIN s : i \in DOMAIN (s \o t) /\ (s \o t)[i] = s[i]
         /\ \A i \in DOMAIN (s \o t) :
              \/ i \in DOMAIN s /\ (s \o t)[i] = s[i]
              \/ i - Len(s) \in DOMAIN t /\ i > Len(s) /\ (s \o t)[i] = t[i - Len(s)]
         /\ Elems(s \o t) = Elems(s) \cup Elems(t)
<1>1. Len(s) \in Nat /\ Len(t) \in Nat /\ DOMAIN s = 1..Len(s) /\ DOMAIN t = 1..Len(t)
  OBVIOUS
<1> DEFINE u == s \o t
<1>2. u \in Seq(Row) /\ Len(u) = Len(s) + Len(t)
  OBVIOUS
<1>3. DOMAIN u = 1..(Len(s) + Len(t))
  BY <1>1, <1>2
<1>4. \A i \in 1..Len(s) : u[i] = s[i]
  OBVIOUS
<1>5. \A i \in 1..Len(t) : u[i + Len(s)] = t[i]
  OBVIOUS
<1> HIDE DEF u
<1>6. \A i \in DOMAIN s : i \in DOMAIN u /\ u[i] = s[i]
  BY <1>1, <1>3, <1>4
<1>7. ASSUME NEW i \in DOMAIN u, i \notin DOMAIN s
      PROVE  i - Len(s) \in DOMAIN t /\ i > Len(s) /\ u[i] = t[i - Len(s)]
  <2>1. i - Len(s) \in 1..Len(t) /\ i > Len(s) /\ (i - Len(s)) + Len(s) = i
    BY <1>1, <1>3, <1>7
  <2>2. u[(i - Len(s)) + Len(s)] = t[i - Len(s)]
    BY <1>5, <2>1
  <2> QED
    BY <1>1, <2>1, <2>2
<1>8. Elems(u) = Elems(s) \cup Elems(t)
  <2>1. ASSUME NEW i \in DOMAIN t PROVE t[i] \in Elems(u)
    <3>1. i + Len(s) \in DOMAIN u /\ u[i + Len(s)] = t[i]
      BY <1>1, <1>3, <1>5
    <3> QED
      BY <3>1 DEF Elems
  <2>2. Elems(s) \cup Elems(t) \subseteq Elems(u)
    BY <1>6, <2>1 DEF Elems
  <2>3. Elems(u) \subseteq Elems(s) \cup Elems(t)
    BY <1>6, <1>7 DEF Elems
  <2> QED
    BY <2>2, <2>3
<1>9. \A i \in DOMAIN u : \/ i \in DOMAIN s /\ u[i] = s[i]
                          \/ i - Len(s) \in DOMAIN t /\ i > Len(s) /\ u[i] = t[i - Len(s)]
  BY <1>6, <1>7
<1> QED
  BY <1>2, <1>6, <1>8, <1>9, Zenon DEF u

LEMMA LogPolls == ASSUME LogInv, TailPoll PROVE LogInv'
<1> DEFINE above == {r \in logs : Less(hw, r)}
           out == First(above, Batch, TRUE)
<1>0. /\ hw # NoMark /\ out # <<>> /\ tail' = tail \o out /\ hw' = out[Len(out)]
      /\ UNCHANGED <<clock, open, logs, primedAt, overtaken, page>>
  BY DEF TailPoll
<1>1. /\ logs \subseteq Row /\ overtaken \subseteq logs /\ tail \in Seq(Row) /\ hw \in Key /\ primedAt \in Key
      /\ \A r \in logs : r \in Key
  BY MarkFacts, KeyFacts DEF LogInv, LogType
<1>2. above \subseteq Row /\ Batch \in Nat
  BY <1>1, LogAssumption
<1>3. /\ out \in Seq(Row) /\ Len(out) \in Nat /\ DOMAIN out = 1..Len(out)
      /\ \A i \in DOMAIN out : out[i] \in above
      /\ \A i, j \in DOMAIN out : i < j => Less(out[i], out[j])
      /\ \A x \in above \ Elems(out) : \A i \in DOMAIN out : Less(out[i], x)
  <2> HIDE DEF above
  <2> QED
    BY <1>2, FirstFacts DEF Before
<1> HIDE DEF out
<1>4. Len(out) \in DOMAIN out
  BY <1>0, <1>3
<1> DEFINE l == out[Len(out)]
<1>5. l \in logs /\ l \in Key /\ Less(hw, l)
  BY <1>1, <1>3, <1>4
<1>6. /\ \A a \in Key : ~Less(a, a)
      /\ \A a, b, c \in Key : Less(a, b) /\ Less(b, c) => Less(a, c)
  BY KeyOrder DEF Before
<1>7. \A i \in DOMAIN out : out[i] = l \/ Less(out[i], l)
  <2> SUFFICES ASSUME NEW i \in DOMAIN out PROVE out[i] = l \/ Less(out[i], l)
    OBVIOUS
  <2>1. i = Len(out) \/ i < Len(out)
    BY <1>3
  <2> QED
    BY <1>3, <1>4, <2>1
<1>8. \A r \in Elems(out) : r \in logs /\ Less(hw, r) /\ ~Less(l, r)
  <2> SUFFICES ASSUME NEW i \in DOMAIN out PROVE out[i] \in logs /\ Less(hw, out[i]) /\ ~Less(l, out[i])
    BY DEF Elems
  <2>1. out[i] \in logs /\ Less(hw, out[i]) /\ out[i] \in Key
    BY <1>1, <1>3
  <2>2. ~Less(l, out[i])
    BY <1>5, <1>6, <1>7, <2>1
  <2> QED
    BY <2>1, <2>2
<1>9. \A r \in logs : Less(l, r) => Less(hw, r)
  BY <1>1, <1>5, <1>6
<1>10. /\ tail' \in Seq(Row) /\ Len(tail') = Len(tail) + Len(out)
       /\ \A i \in DOMAIN tail : i \in DOMAIN tail' /\ tail'[i] = tail[i]
       /\ \A i \in DOMAIN tail' :
            \/ i \in DOMAIN tail /\ tail'[i] = tail[i]
            \/ i - Len(tail) \in DOMAIN out /\ i > Len(tail) /\ tail'[i] = out[i - Len(tail)]
       /\ Elems(tail') = Elems(tail) \cup Elems(out)
  <2>1. tail' = tail \o out
    BY <1>0
  <2> QED
    BY <1>1, <1>3, <2>1, ConcatFacts
<1>11. Len(tail) \in Nat /\ DOMAIN tail = 1..Len(tail) /\ DOMAIN tail' = 1..Len(tail') /\ Len(tail') \in Nat
  BY <1>1, <1>10
<1>12. tail'[Len(tail')] = l /\ Len(tail') \in DOMAIN tail'
  <2>1. Len(tail') \in DOMAIN tail' /\ Len(tail') \notin DOMAIN tail /\ Len(tail') - Len(tail) = Len(out)
    BY <1>3, <1>4, <1>10, <1>11
  <2> QED
    BY <1>10, <2>1
<1>13. LogType' /\ Once' /\ CursorAtPage' /\ PagesExact'
  <2>1. l \in Mark /\ hw' = l
    BY <1>0, <1>1, <1>5, RowsAreMarks
  <2> HIDE DEF l
  <2> QED
    BY <1>0, <1>10, <2>1 DEF LogInv, LogType, Once, CursorAtPage, RowsExact, PagesExact
<1>14. MarkAtTail'
  <2>1. l # NoMark /\ hw' = l
    BY <1>0, <1>1, <1>5, RowsAreMarks
  <2>2. Less(primedAt, l)
    <3>1. hw = primedAt \/ Less(primedAt, hw)
      BY <1>0 DEF LogInv, MarkAtTail
    <3> QED
      BY <1>1, <1>5, <1>6, <3>1
  <2>3. ASSUME NEW r \in overtaken PROVE ~Less(l, r)
    BY <1>1, <1>9, <2>3 DEF LogInv, MarkAtTail
  <2> HIDE DEF l
  <2> QED
    BY <1>0, <1>12, <2>1, <2>2, <2>3 DEF MarkAtTail
<1>15. TailExact'
  <2>1. ASSUME NEW i \in 1..(Len(tail') - 1) PROVE Less(tail'[i], tail'[i + 1])
    <3>1. i \in DOMAIN tail' /\ i + 1 \in DOMAIN tail'
      BY <1>11
    <3>2. CASE i + 1 \in DOMAIN tail
      <4>1. i \in DOMAIN tail /\ i \in 1..(Len(tail) - 1)
        BY <1>11, <3>2
      <4>2. Less(tail[i], tail[i + 1])
        BY <4>1 DEF LogInv, RowsExact, TailExact, Ascending
      <4> QED
        BY <1>10, <3>2, <4>1, <4>2
    <3>3. CASE i \in DOMAIN tail /\ i + 1 \notin DOMAIN tail
      <4>1. i = Len(tail) /\ (i + 1) - Len(tail) = 1 /\ tail # <<>>
        BY <1>11, <3>3
      <4>2. tail'[i + 1] = out[1] /\ 1 \in DOMAIN out
        BY <1>10, <3>1, <3>3, <4>1
      <4>3. tail'[i] = hw
        BY <1>10, <3>3, <4>1 DEF LogInv, MarkAtTail
      <4> QED
        BY <1>3, <4>2, <4>3
    <3>4. CASE i \notin DOMAIN tail
      <4>1. i + 1 \notin DOMAIN tail
        BY <1>11, <3>4
      <4>2. /\ i - Len(tail) \in DOMAIN out /\ tail'[i] = out[i - Len(tail)]
            /\ (i + 1) - Len(tail) \in DOMAIN out /\ tail'[i + 1] = out[(i + 1) - Len(tail)]
        BY <1>10, <3>1, <3>4, <4>1
      <4>3. i - Len(tail) < (i + 1) - Len(tail)
        BY <1>11
      <4> QED
        BY <1>3, <4>2, <4>3
    <3> QED
      BY <3>2, <3>3, <3>4
  <2>2. {r \in logs : Less(primedAt, r)} \ overtaken = Elems(tail) \cup {r \in logs \ overtaken : Less(hw, r)}
    BY <1>0 DEF LogInv, RowsExact, TailExact
  <2>3. {r \in logs \ overtaken : Less(hw, r)} = Elems(out) \cup {r \in logs \ overtaken : Less(l, r)}
    <3>1. \A r \in overtaken : ~Less(hw, r)
      BY DEF LogInv, MarkAtTail
    <3>2. \A r \in logs : Less(hw, r) => r \in Elems(out) \/ Less(l, r)
      <4> SUFFICES ASSUME NEW r \in logs, Less(hw, r), r \notin Elems(out) PROVE Less(l, r)
        OBVIOUS
      <4>1. r \in above \ Elems(out)
        OBVIOUS
      <4> QED
        BY <1>3, <1>4, <4>1
    <3> HIDE DEF l
    <3> QED
      BY <1>8, <1>9, <3>1, <3>2
  <2>4. {r \in logs : Less(primedAt, r)} \ overtaken = Elems(tail') \cup {r \in logs \ overtaken : Less(hw', r)}
    <3>1. hw' = l
      BY <1>0
    <3> HIDE DEF l
    <3> QED
      BY <1>10, <2>2, <2>3, <3>1
  <2> QED
    BY <1>0, <2>1, <2>4 DEF TailExact, Ascending
<1> QED
  BY <1>13, <1>14, <1>15 DEF LogInv, RowsExact

LEMMA LogQueries == ASSUME LogInv, Query PROVE LogInv'
<1> DEFINE below == Below(page.before)
           recs == First(below, Limit + 1, FALSE)
           more == Len(recs) > Limit
           out == IF more THEN SubSeq(recs, 1, Limit) ELSE recs
           l == out[Len(out)]
           before == IF more THEN l ELSE page.before
           first == IF page.active THEN page.first ELSE logs
<1>0. /\ ~page.done
      /\ page' = [active |-> TRUE, done |-> ~more, before |-> before, first |-> first, got |-> page.got \o out]
      /\ UNCHANGED <<clock, open, logs, hw, primedAt, tail, overtaken>>
  BY DEF Query
<1>1. /\ logs \subseteq Row /\ \A r \in logs : r \in Key
      /\ page.before \in Row \cup {NoMark} /\ page.before \in Key /\ page.first \subseteq logs
      /\ page.got \in Seq(Row) /\ page.active \in BOOLEAN
  BY KeyFacts DEF LogInv, LogType, CursorAtPage
<1>2. /\ below \subseteq logs
      /\ \A r \in logs : r \in below <=> (page.before = NoMark \/ Less(r, page.before))
  BY DEF Below
<1> HIDE DEF below
<1>3. /\ recs \in Seq(Row) /\ Len(recs) \in Nat /\ DOMAIN recs = 1..Len(recs) /\ Len(recs) <= Limit + 1
      /\ \A i \in DOMAIN recs : recs[i] \in below
      /\ \A i, j \in DOMAIN recs : i < j => Less(recs[j], recs[i])
      /\ \A x \in below \ Elems(recs) : \A i \in DOMAIN recs : Less(x, recs[i])
      /\ Len(recs) < Limit + 1 => below \subseteq Elems(recs)
  <2>1. below \subseteq Row /\ Limit + 1 \in Nat
    BY <1>1, <1>2, LogAssumption
  <2> QED
    BY <2>1, FirstFacts DEF Before
<1> HIDE DEF recs
<1>4. Limit \in Nat /\ Limit >= 1
  BY LogAssumption
<1>5. /\ out \in Seq(Row) /\ Len(out) \in Nat /\ DOMAIN out = 1..Len(out)
      /\ Len(out) = IF more THEN Limit ELSE Len(recs)
      /\ \A i \in DOMAIN out : i \in DOMAIN recs /\ out[i] = recs[i]
  <2>1. CASE more
    <3>1. out = SubSeq(recs, 1, Limit)
      BY <2>1
    <3>2. \A i \in 1..Limit : i \in DOMAIN recs
      BY <1>3, <1>4, <2>1
    <3>3. SubSeq(recs, 1, Limit) \in Seq(Row) /\ Len(SubSeq(recs, 1, Limit)) = Limit
      BY <1>3, <1>4, <3>2
    <3>4. \A i \in 1..Limit : SubSeq(recs, 1, Limit)[i] = recs[i]
      BY <1>3, <1>4, <3>2
    <3> HIDE DEF out, more
    <3>5. out \in Seq(Row) /\ Len(out) = Limit
      BY <3>1, <3>3
    <3>6. DOMAIN out = 1..Limit
      BY <1>4, <3>5
    <3> QED
      BY <1>4, <2>1, <3>1, <3>2, <3>4, <3>5, <3>6
  <2>2. CASE ~more
    BY <1>3, <2>2
  <2> QED
    BY <2>1, <2>2
<1>6. /\ \A a \in Key : ~Less(a, a)
      /\ \A a, b, c \in Key : Less(a, b) /\ Less(b, c) => Less(a, c)
  BY KeyOrder DEF Before
<1>7. \A i \in DOMAIN out : out[i] \in below /\ out[i] \in logs /\ out[i] \in Key
  <2> HIDE DEF out
  <2> QED
    BY <1>1, <1>2, <1>3, <1>5
<1>8. \A i, j \in DOMAIN out : i < j => Less(out[j], out[i])
  <2> HIDE DEF out
  <2> QED
    BY <1>3, <1>5
<1>9. \A i, j \in DOMAIN out : out[i] = out[j] => i = j
  <2> HIDE DEF out
  <2> SUFFICES ASSUME NEW i \in DOMAIN out, NEW j \in DOMAIN out, i # j PROVE out[i] # out[j]
    OBVIOUS
  <2>1. i < j \/ j < i
    BY <1>5
  <2> QED
    BY <1>6, <1>7, <1>8, <2>1
<1>10. ASSUME more
       PROVE  /\ l \in below /\ l \in Row /\ l \in Key /\ l # NoMark
              /\ \A i \in DOMAIN out : ~Less(out[i], l)
              /\ \A x \in below \ Elems(out) : Less(x, l)
  <2>1. Len(out) = Limit /\ Limit \in DOMAIN out /\ Limit \in DOMAIN recs /\ Len(recs) = Limit + 1
    <3>1. Len(out) = Limit
      BY <1>5, <1>10
    <3>2. Len(recs) = Limit + 1
      <4>1. Len(recs) \in Nat /\ Len(recs) <= Limit + 1
        BY <1>3
      <4> QED
        BY <1>4, <1>10, <4>1
    <3> HIDE DEF out, more
    <3>3. Limit \in 1..Limit /\ Limit \in 1..(Limit + 1)
      BY <1>4
    <3>4. DOMAIN out = 1..Limit /\ DOMAIN recs = 1..(Limit + 1)
      BY <1>3, <1>5, <3>1, <3>2
    <3> QED
      BY <3>1, <3>2, <3>3, <3>4
  <2> HIDE DEF out, more
  <2>2. l = recs[Limit] /\ l \in below /\ l \in Row /\ l \in Key /\ l # NoMark
    BY <1>1, <1>2, <1>5, <1>7, <2>1, RowsAreMarks
  <2> HIDE DEF l
  <2>3. \A i \in DOMAIN out : out[i] = l \/ Less(l, out[i])
    <3> SUFFICES ASSUME NEW i \in DOMAIN out PROVE out[i] = l \/ Less(l, out[i])
      OBVIOUS
    <3>1. i = Limit \/ i < Limit
      BY <1>5, <2>1
    <3> QED
      BY <1>3, <1>5, <2>1, <2>2, <3>1
  <2>4. \A i \in DOMAIN out : ~Less(out[i], l)
    BY <1>6, <1>7, <2>2, <2>3
  <2>5. ASSUME NEW x \in below, x \notin Elems(out) PROVE Less(x, l)
    <3>1. CASE x \in Elems(recs)
      <4>1. PICK i \in DOMAIN recs : x = recs[i]
        BY <3>1 DEF Elems
      <4>2. i \notin DOMAIN out
        BY <1>5, <2>5, <4>1 DEF Elems
      <4>3. Limit < i
        BY <1>3, <1>4, <1>5, <2>1, <4>2
      <4> QED
        BY <1>3, <2>1, <2>2, <4>1, <4>3
    <3>2. CASE x \notin Elems(recs)
      BY <1>3, <2>1, <2>2, <2>5, <3>2
    <3> QED
      BY <3>1, <3>2
  <2> QED
    BY <2>2, <2>4, <2>5
<1>11. ASSUME ~more PROVE below \subseteq Elems(out)
  <2>1. Len(recs) < Limit + 1
    <3>1. Len(recs) \in Nat
      BY <1>3
    <3> QED
      BY <1>4, <1>11, <3>1
  <2> QED
    BY <1>3, <1>11, <2>1
<1> HIDE DEF l, out, more
<1>12. /\ page.got \o out \in Seq(Row)
       /\ \A i \in DOMAIN (page.got \o out) :
            \/ i \in DOMAIN page.got /\ (page.got \o out)[i] = page.got[i]
            \/ i - Len(page.got) \in DOMAIN out /\ i > Len(page.got) /\ (page.got \o out)[i] = out[i - Len(page.got)]
       /\ Elems(page.got \o out) = Elems(page.got) \cup Elems(out)
  BY <1>1, <1>5, ConcatFacts
<1>13. first \subseteq logs
  BY <1>1
<1>14. ~page.active => page.before = NoMark
  BY DEF LogInv, CursorAtPage
<1>15. \A r \in first \ Elems(page.got) : r \in below
  <2> SUFFICES ASSUME NEW r \in first \ Elems(page.got) PROVE r \in below
    OBVIOUS
  <2>1. page.active => page.before # NoMark /\ Less(r, page.before)
    BY <1>0 DEF LogInv, CursorAtPage
  <2> QED
    BY <1>2, <1>13, <1>14, <2>1
<1>16. \A i \in DOMAIN page.got : page.before # NoMark /\ page.got[i] \in Key /\ ~Less(page.got[i], page.before)
  <2> SUFFICES ASSUME NEW i \in DOMAIN page.got
               PROVE  page.before # NoMark /\ page.got[i] \in Key /\ ~Less(page.got[i], page.before)
    OBVIOUS
  <2>1. page.got # <<>> /\ page.got[i] \in Key
    BY <1>1, KeyFacts
  <2> QED
    BY <1>0, <2>1 DEF LogInv, CursorAtPage
<1> HIDE DEF first, before
<1>17. /\ page'.active = TRUE /\ page'.done = ~more /\ page'.before = before
       /\ page'.first = first /\ page'.got = page.got \o out
  BY <1>0
<1>18. LogType'
  <2>1. before \in Row \cup {NoMark}
    BY <1>1, <1>10 DEF before
  <2>2. page' \in [active : BOOLEAN, done : BOOLEAN, before : Row \cup {NoMark}, first : SUBSET Row, got : Seq(Row)]
    <3>1. TRUE \in BOOLEAN /\ (~more) \in BOOLEAN /\ first \in SUBSET Row
      BY <1>1, <1>13
    <3> HIDE DEF more
    <3> QED
      BY <1>0, <1>12, <2>1, <3>1
  <2> QED
    BY <1>0, <2>2 DEF LogInv, LogType
<1>19. Once' /\ MarkAtTail' /\ TailExact'
  BY <1>0 DEF LogInv, Once, MarkAtTail, RowsExact, TailExact
<1>20. PagesExact'
  <2>1. ASSUME NEW i \in DOMAIN page'.got, NEW j \in DOMAIN page'.got, page'.got[i] = page'.got[j] PROVE i = j
    <3> DEFINE u == page.got \o out
               n == Len(page.got)
    <3>1. page'.got = u /\ i \in DOMAIN u /\ j \in DOMAIN u /\ u[i] = u[j]
      BY <1>17, <2>1
    <3>2. \A k \in DOMAIN u : \/ k \in DOMAIN page.got /\ u[k] = page.got[k]
                              \/ k - n \in DOMAIN out /\ k > n /\ u[k] = out[k - n]
      BY <1>12
    <3>3. i \in Int /\ j \in Int /\ n \in Int
      BY <1>1, <1>12, <3>1
    <3> HIDE DEF u, n
    <3>4. \A k \in DOMAIN page.got, m \in DOMAIN out : page.got[k] # out[m]
      BY <1>2, <1>7, <1>16
    <3>5. CASE i \in DOMAIN page.got /\ u[i] = page.got[i] /\ j \in DOMAIN page.got /\ u[j] = page.got[j]
      BY <3>1, <3>5 DEF LogInv, RowsExact, PagesExact
    <3>6. CASE i - n \in DOMAIN out /\ u[i] = out[i - n] /\ j - n \in DOMAIN out /\ u[j] = out[j - n]
      <4>1. i - n = j - n
        BY <1>9, <3>1, <3>6
      <4> QED
        BY <3>3, <4>1
    <3> QED
      BY <3>1, <3>2, <3>4, <3>5, <3>6
  <2>2. ASSUME ~more PROVE first \subseteq Elems(page'.got)
    BY <1>11, <1>12, <1>15, <1>17, <2>2
  <2> QED
    BY <1>17, <2>1, <2>2 DEF PagesExact
<1>21. CursorAtPage'
  <2>1. ASSUME more, NEW i \in DOMAIN page'.got PROVE ~Less(page'.got[i], l)
    <3>1. \/ i \in DOMAIN page.got /\ page'.got[i] = page.got[i]
          \/ i - Len(page.got) \in DOMAIN out /\ page'.got[i] = out[i - Len(page.got)]
      BY <1>12, <1>17, <2>1
    <3>2. CASE i \in DOMAIN page.got /\ page'.got[i] = page.got[i]
      <4>1. Less(l, page.before) /\ l \in Key
        BY <1>2, <1>10, <1>16, <2>1, <3>2
      <4> QED
        BY <1>1, <1>6, <1>16, <3>2, <4>1
    <3>3. CASE i - Len(page.got) \in DOMAIN out /\ page'.got[i] = out[i - Len(page.got)]
      BY <1>10, <2>1, <3>3
    <3> QED
      BY <3>1, <3>2, <3>3
  <2>2. ASSUME more, NEW r \in first \ Elems(page'.got) PROVE Less(r, l)
    BY <1>10, <1>12, <1>15, <1>17, <2>2
  <2>3. more => before = l /\ l # NoMark
    BY <1>10 DEF before
  <2>4. page'.first \subseteq logs'
    BY <1>0, <1>13, <1>17
  <2> QED
    BY <1>17, <2>1, <2>2, <2>3, <2>4 DEF CursorAtPage
<1> QED
  BY <1>18, <1>19, <1>20, <1>21 DEF LogInv, RowsExact

(* For any ranks, batch and page size, commits in any order, polls and     *)
(* pages: the tail emits what is visible above its start once and in key   *)
(* order, in batches, but for a row that commits below its mark, and the   *)
(* pages repeat no row and drop none that was there at the first.          *)
THEOREM RowsAreExact == LogSpec => []RowsExact
<1>1. LogInv /\ [LogNext]_logVars => LogInv'
  <2> SUFFICES ASSUME LogInv, [LogNext]_logVars PROVE LogInv'
    OBVIOUS
  <2>1. CASE UNCHANGED logVars
    <3>1. LogType' /\ Once' /\ MarkAtTail' /\ CursorAtPage'
      BY <2>1 DEF LogInv, logVars, LogType, Once, MarkAtTail, CursorAtPage
    <3>2. RowsExact'
      BY <2>1 DEF LogInv, logVars, RowsExact, TailExact, PagesExact
    <3> QED
      BY <3>1, <3>2 DEF LogInv
  <2>2. CASE LogNext
    BY <2>2, LogBegins, LogCommits, LogPrimes, LogPolls, LogQueries DEF LogNext
  <2> QED
    BY <2>1, <2>2
<1>2. LogInv => RowsExact
  BY DEF LogInv
<1> QED
  BY <1>1, <1>2, LogInvInit, PTL DEF LogSpec
=============================================================================
