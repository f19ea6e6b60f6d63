-------------------------------- MODULE SseHub --------------------------------
(***************************************************************************)
(* The live-event hub of the admin backend: cmd/backend/events.go.  One    *)
(* broadcast loop polls the device roster, the log and telemetry tails and *)
(* the C2 cursors once per tick, diffs them against what it sent last and  *)
(* fans the deltas into a bounded mailbox per connection.  A connection    *)
(* takes a roster snapshot, then drains its mailbox until the client       *)
(* leaves, the hub drops it, its key is revoked or the process ends.       *)
(* A device row is reduced to its identity columns (rosterIdentity), so    *)
(* last_seen, which is never a delta trigger, does not appear; the frames  *)
(* of the other producers are opaque here (LogView models the tails).      *)
(***************************************************************************)
EXTENDS Integers, Sequences, FiniteSets

CONSTANTS Device,      \* serials
          Ident,       \* values of a row's identity columns
          Conn,        \* connections to GET /api/events
          MaxConn,     \* ADMIN_SSE_MAX_CONN
          Mailbox,     \* sseMailbox
          MaxChanges,  \* bound on table changes
          MaxConnects  \* bound on subscriptions

ASSUME HubAssumption == Mailbox \in Nat

None == "none"
NoRoster == [d \in Device |-> None]

VARIABLES
  table,     \* the devices table: serial -> identity columns, or None
  loop,      \* the runLoop goroutine: "off", "wait", or where its tick is
  running,   \* h.running
  lastSent,  \* what the loop sent last
  primed,    \* the running loop has polled the roster at least once
  pending,   \* deltas of the current tick not yet broadcast
  subs,      \* h.subs
  streams,   \* connection -> its handler and its client's view
  alive,     \* the lifecycle context is not cancelled
  changes, connects, \* work done so far, for the bounds
  raced      \* connections that subscribed while the loop was returning

sseVars == <<table, loop, running, lastSent, primed, pending, subs, streams,
             alive, changes, connects, raced>>

Closed == [pc |-> "closed", snap |-> FALSE, dropped |-> FALSE, mbox |-> <<>>, view |-> NoRoster,
           first |-> NoRoster, base |-> NoRoster]  \* history: the snapshot and
                                               \* lastSent when it was read

HubInit ==
  /\ table \in [Device -> Ident \cup {None}]
  /\ loop = "off" /\ running = FALSE /\ primed = FALSE
  /\ lastSent = NoRoster
  /\ pending = {} /\ subs = {} /\ raced = {}
  /\ streams = [c \in Conn |-> Closed]
  /\ alive = TRUE /\ changes = 0 /\ connects = 0

-----------------------------------------------------------------------------
(* A device is registered, relabelled, bonded or deleted. *)
Change(d, v) ==
  /\ alive /\ changes < MaxChanges
  /\ table[d] # v
  /\ table' = [table EXCEPT ![d] = v]
  /\ changes' = changes + 1
  /\ UNCHANGED <<loop, running, lastSent, primed, pending, subs, streams, alive,
                 connects, raced>>

-----------------------------------------------------------------------------
(* The broadcast loop. *)

NewLoop == IF running THEN UNCHANGED <<loop, running, lastSent, primed>>
           ELSE /\ loop' = "wait" /\ running' = TRUE /\ primed' = FALSE
                /\ lastSent' = NoRoster

(* A subscriber never starts the loop. *)
SubscribeNoLoop(c) ==
  /\ alive /\ connects < MaxConnects /\ streams[c].pc = "closed"
  /\ Cardinality(subs) < MaxConn
  /\ subs' = subs \cup {c}
  /\ streams' = [streams EXCEPT ![c] = [Closed EXCEPT !.pc = "subscribed"]]
  /\ connects' = connects + 1
  /\ raced' = IF loop = "exit" THEN raced \cup {c} ELSE raced \ {c}
  /\ UNCHANGED <<table, pending, alive, changes, loop, running, lastSent, primed>>

(* subscribe: refused at the cap, else registered; starts an idle loop. *)
Subscribe(c) ==
  /\ alive /\ connects < MaxConnects /\ streams[c].pc = "closed"
  /\ Cardinality(subs) < MaxConn
  /\ subs' = subs \cup {c}
  /\ streams' = [streams EXCEPT ![c] = [Closed EXCEPT !.pc = "subscribed"]]
  /\ connects' = connects + 1
  /\ raced' = IF loop = "exit" THEN raced \cup {c} ELSE raced \ {c}
  /\ NewLoop
  /\ UNCHANGED <<table, pending, alive, changes>>

(* The ticker fires and subCount is positive: the tick begins. *)
TickStart ==
  /\ alive /\ loop = "wait" /\ pending = {} /\ subs # {}
  /\ loop' = "devices"
  /\ UNCHANGED <<table, running, lastSent, primed, pending, subs, streams, alive,
                 changes, connects, raced>>

(* No subscriber is left, or the process ends: runLoop returns ... *)
LoopReturn ==
  /\ loop = "wait" /\ pending = {} /\ (subs = {} \/ ~alive)
  /\ loop' = "exit" /\ primed' = FALSE
  /\ UNCHANGED <<table, running, lastSent, pending, subs, streams, alive, changes,
                 connects, raced>>

(* ... and its deferred function clears running, under a lock of its own. *)
LoopDeferred ==
  /\ loop = "exit"
  /\ loop' = "off" /\ running' = FALSE
  /\ UNCHANGED <<table, lastSent, primed, pending, subs, streams, alive, changes,
                 connects, raced>>

Delta(d, v) == [topic |-> "devices", dev |-> d, val |-> v]
Other == [topic |-> "tail", dev |-> None, val |-> None]

(* A diff that forgets the rows that are gone. *)
DiffNoRemove(last, cur) ==
  {Delta(d, cur[d]) : d \in {x \in Device : cur[x] # last[x] /\ cur[x] # None}}

(* diffRoster: an upsert for a new or changed serial, a remove (None) for  *)
(* a vanished one.                                                         *)
DiffRoster(last, cur) ==
  {Delta(d, cur[d]) : d \in {x \in Device : cur[x] # last[x]}}

(* A tick that drops the new last-sent state. *)
TickRosterForgets ==
  /\ alive /\ loop = "devices"
  /\ loop' = "tails"
  /\ pending' = DiffRoster(lastSent, table)
  /\ primed' = TRUE
  /\ UNCHANGED <<table, running, lastSent, subs, streams, alive, changes,
                 connects, raced>>

(* tickRoster: one poll, and the new last-sent state.                      *)
TickRoster ==
  /\ alive /\ loop = "devices"
  /\ loop' = "tails"
  /\ pending' = DiffRoster(lastSent, table)
  /\ lastSent' = table /\ primed' = TRUE
  /\ UNCHANGED <<table, running, subs, streams, alive, changes, connects, raced>>

(* A poll that fails (database error, or the cancelled lifecycle context)  *)
(* leaves lastSent as it is.                                               *)
TickRosterFails ==
  /\ loop = "devices"
  /\ loop' = "tails"
  /\ UNCHANGED <<table, running, lastSent, primed, pending, subs, streams, alive,
                 changes, connects, raced>>

(* tickLogs, tickTelemetry, tickC2Cursor: quiet or failed polls, or a      *)
(* frame that is new.                                                      *)
TickTails ==
  /\ loop = "tails" /\ pending = {}
  /\ loop' = "wait"
  /\ pending' \in {{}, {Other}}
  /\ UNCHANGED <<table, running, lastSent, primed, subs, streams, alive, changes,
                 connects, raced>>

Room(c) == Len(streams[c].mbox) < Mailbox

(* A broadcast that waits for room would stall; one that skips a full      *)
(* mailbox without dropping its owner loses the frame silently.            *)
FanoutSkipFull(f) ==
  /\ subs' = subs
  /\ streams' = [c \in Conn |-> IF c \in subs /\ Room(c)
                THEN [streams[c] EXCEPT !.mbox = Append(@, f)] ELSE streams[c]]

(* A broadcast that ignores the bound. *)
FanoutUnbounded(f) ==
  /\ subs' = subs
  /\ streams' = [c \in Conn |-> IF c \in subs
                THEN [streams[c] EXCEPT !.mbox = Append(@, f)] ELSE streams[c]]

(* broadcast: into every mailbox with room; a full one drops its owner.    *)
Fanout(f) ==
  /\ subs' = {c \in subs : Room(c)}
  /\ streams' = [c \in Conn |->
       IF c \notin subs THEN streams[c]
       ELSE IF Room(c) THEN [streams[c] EXCEPT !.mbox = Append(@, f)]
       ELSE [streams[c] EXCEPT !.dropped = TRUE]]

BroadcastFrame(f) ==
  /\ f \in pending
  /\ pending' = pending \ {f}
  /\ Fanout(f)
  /\ UNCHANGED <<table, loop, running, lastSent, primed, alive, changes,
                 connects, raced>>

-----------------------------------------------------------------------------
(* One connection. *)

(* The initial snapshot, read and written before the drain loop.           *)
Snapshot(c) ==
  /\ streams[c].pc = "subscribed" /\ alive
  /\ streams' = [streams EXCEPT ![c] = [@ EXCEPT !.pc = "streaming", !.snap = TRUE,
                !.view = table, !.first = table,
                !.base = lastSent]]
  /\ UNCHANGED <<table, loop, running, lastSent, primed, pending, subs, alive,
                 changes, connects, raced>>

(* The roster query fails: the stream goes on without a snapshot.          *)
SnapshotFails(c) ==
  /\ streams[c].pc = "subscribed"
  /\ streams' = [streams EXCEPT ![c].pc = "streaming"]
  /\ UNCHANGED <<table, loop, running, lastSent, primed, pending, subs, alive,
                 changes, connects, raced>>

(* A frame leaves the mailbox; the client applies a devices delta.         *)
Applied(view, f) == IF f.topic = "devices" THEN [view EXCEPT ![f.dev] = f.val] ELSE view

Drained(s) == [s EXCEPT !.mbox = Tail(s.mbox), !.view = Applied(s.view, Head(s.mbox))]

Drain(c) ==
  /\ streams[c].pc = "streaming" /\ streams[c].mbox # <<>>
  /\ streams' = [streams EXCEPT ![c] = Drained(streams[c])]
  /\ UNCHANGED <<table, loop, running, lastSent, primed, pending, subs, alive,
                 changes, connects, raced>>

(* The handler returns without unsubscribing. *)
UnsubscribeLeaks(c) ==
  /\ streams' = [streams EXCEPT ![c] = Closed]
  /\ raced' = raced \ {c}
  /\ UNCHANGED <<table, loop, running, lastSent, primed, pending, alive, subs,
                 changes, connects>>

(* The handler returns; its deferred unsubscribe forgets it.               *)
Unsubscribe(c) ==
  /\ streams' = [streams EXCEPT ![c] = Closed]
  /\ subs' = subs \ {c} /\ raced' = raced \ {c}
  /\ UNCHANGED <<table, loop, running, lastSent, primed, pending, alive,
                 changes, connects>>

(* The client goes away, a write to it fails, or the re-auth ticker finds  *)
(* that the key no longer authenticates.                                   *)
Disconnect(c) == streams[c].pc # "closed" /\ Unsubscribe(c)

(* The drop, or the end of the process, is seen by the select.             *)
HandlerEnds(c) ==
  streams[c].pc = "streaming" /\ (streams[c].dropped \/ ~alive) /\ Unsubscribe(c)

(* The process shuts down. *)
Shutdown ==
  /\ alive /\ alive' = FALSE
  /\ UNCHANGED <<table, loop, running, lastSent, primed, pending, subs, streams,
                 changes, connects, raced>>

Loop == TickStart \/ LoopReturn \/ LoopDeferred \/ TickTails
        \/ TickRoster \/ (\E f \in pending : BroadcastFrame(f))
StreamHandler(c) == Snapshot(c) \/ (~alive /\ SnapshotFails(c)) \/ Drain(c) \/ HandlerEnds(c)

HubNext ==
  \/ \E d \in Device, v \in Ident \cup {None} : Change(d, v)
  \/ TickStart \/ LoopReturn \/ LoopDeferred \/ Shutdown
  \/ TickRoster \/ TickRosterFails \/ TickTails
  \/ \E f \in pending : BroadcastFrame(f)
  \/ \E c \in Conn : Subscribe(c) \/ Snapshot(c) \/ SnapshotFails(c) \/ Drain(c)
       \/ Disconnect(c) \/ HandlerEnds(c)

(* The Go scheduler runs the loop and every handler; tickers keep firing   *)
(* and polls do not fail for ever.                                         *)
HubFairness ==
  /\ WF_sseVars(Loop) /\ SF_sseVars(TickRoster)
  /\ \A c \in Conn : WF_sseVars(StreamHandler(c))

HubSpec == HubInit /\ [][HubNext]_sseVars /\ HubFairness

-----------------------------------------------------------------------------
Roster == [Device -> Ident \cup {None}]
Frames == {Delta(d, v) : d \in Device, v \in Ident \cup {None}} \cup {Other}
Stream == [pc : {"closed", "subscribed", "streaming"}, snap : BOOLEAN, dropped : BOOLEAN,
           mbox : Seq(Frames), view : Roster, first : Roster, base : Roster]

(* Types of the hub's state, and the bound of the mailboxes. *)
HubTypeOK ==
  /\ table \in Roster /\ lastSent \in Roster
  /\ loop \in {"off", "wait", "devices", "tails", "exit"}
  /\ pending \subseteq Frames /\ subs \subseteq Conn /\ raced \subseteq Conn
  /\ running \in BOOLEAN /\ primed \in BOOLEAN /\ alive \in BOOLEAN
  /\ streams \in [Conn -> Stream]
  /\ \A c \in Conn : Len(streams[c].mbox) <= Mailbox

(* A registered connection is served by a loop, except one that subscribed *)
(* in the moment between the loop's last subCount and its deferred         *)
(* running = false: subscribe (line 182) still saw running and started     *)
(* nothing, and the returning loop does not look at h.subs again.          *)
ServedOrRaced == alive /\ subs \ raced # {} => loop \notin {"off", "exit"}

(* Idle is when the loop has sent all it knows of. *)
CaughtUp(c) ==
  /\ loop = "wait" /\ primed /\ pending = {} /\ lastSent = table
  /\ c \in subs /\ streams[c].pc = "streaming" /\ streams[c].snap /\ streams[c].mbox = <<>>

(* Once the loop has caught up with the roster and a client has drained    *)
(* its mailbox, the client shows every device as it is, in whatever order  *)
(* its snapshot, the polls and the edits fell, with one exception: a row   *)
(* that its snapshot saw changed and that was back to what the loop had    *)
(* sent before the next poll (line 399 compares with lastSent only).  A    *)
(* loop that has not polled yet has sent nothing, so for it every deletion *)
(* after the snapshot is such a change back, although the comment at line  *)
(* 242 says that "no roster change is ever missed".                        *)
DriftOnlyFromSnapshot ==
  \A c \in Conn \ raced : CaughtUp(c) => \A d \in Device :
    \/ streams[c].view[d] = table[d]
    \/ /\ streams[c].view[d] = streams[c].first[d]
       /\ table[d] = streams[c].base[d]

(* The hub forgets whoever is closed: the cap counts live handlers only,   *)
(* and a dropped handler holds no slot while it winds down.                *)
CapCountsLive ==
  \A c \in Conn : /\ streams[c].pc = "closed" => c \notin subs
                  /\ streams[c].dropped => c \notin subs

\* What every stream relies on: it has a loop, shows the roster as it is and
\* counts against the cap as long as it lives; mailboxes stay bounded.
HubSound ==
  /\ HubTypeOK /\ ServedOrRaced /\ DriftOnlyFromSnapshot /\ CapCountsLive

(* The inductive invariant of HubSound.  A frame that waits, in the loop   *)
(* or last in a mailbox, carries what the loop sent last: so a client that *)
(* drains everything arrives there, or was never told of the row.          *)
FrameFor(f, d) == f.topic = "devices" /\ f.dev = d

LoopInv ==
  /\ running <=> loop # "off"
  /\ pending # {} => loop \in {"wait", "tails"}
  /\ \A f \in pending : f.topic = "devices" => f.val = lastSent[f.dev]

LastIsSent(s, d) ==
  \A i \in 1..Len(s) :
    FrameFor(s[i], d) /\ (\A j \in 1..Len(s) : j > i => ~FrameFor(s[j], d))
      => s[i].val = lastSent[d]

Told(s, d) == \E i \in 1..Len(s) : FrameFor(s[i], d)

Converges(c, d) ==
  \/ \E f \in pending : FrameFor(f, d)
  \/ /\ LastIsSent(streams[c].mbox, d)
     /\ \/ ~streams[c].snap \/ Told(streams[c].mbox, d)
        \/ streams[c].view[d] = lastSent[d]
        \/ streams[c].view[d] = streams[c].first[d] /\ lastSent[d] = streams[c].base[d]

HubInv ==
  /\ HubTypeOK /\ LoopInv /\ ServedOrRaced /\ CapCountsLive
  /\ \A c \in subs \ raced, d \in Device : Converges(c, d)

(* A stream that lasts is served: the loop catches up with the tables and  *)
(* the handler empties its mailbox, unless the stream lost the race above. *)
StreamIsServed ==
  \A c \in Conn : (streams[c].pc = "streaming" /\ c \in subs \ raced)
     ~> (c \notin subs \/ ~alive \/ (lastSent = table /\ streams[c].mbox = <<>>))
=============================================================================
