------------------------------ MODULE C2Notify ------------------------------
(***************************************************************************)
(* The wakeup path of the C2 long poll (c2notify.go, c2LongPoll in c2.go,  *)
(* trigger command_queue_notify): inserts NOTIFY one LISTEN connection,    *)
(* whose goroutine broadcasts to the handlers that hold a poll by closing  *)
(* a channel and installing a fresh one.  A channel is the number of the   *)
(* broadcast that closes it.                                               *)
(***************************************************************************)
EXTENDS Naturals

CONSTANTS
    Waiter,     \* devices, each with at most one held poll
    MaxCmd,     \* bound: commands queued per device
    MaxPend     \* bound: notifications buffered on the LISTEN connection

ASSUME NotifyBounds == MaxCmd \in Nat /\ MaxPend \in Nat

VARIABLES
    cmds,       \* per device: commands queued for it (its own and '*')
    seen,       \* per device: the applied cursor of its poll
    pc,         \* per device's handler: idle, grab, query, select
    wake,       \* per handler: the channel it grabbed
    ch,         \* notifier.ch: the current channel
    conn,       \* listenLoop: none, acquired, listening, notified
    pend,       \* notifications the connection has not read yet
    deaf        \* history: an insert for this handler was not notified

waiterVars == <<seen, pc, wake>>
hubVars == <<ch, conn, pend>>
vars == <<cmds, waiterVars, hubVars, deaf>>

TypeOK ==
    /\ cmds \in [Waiter -> 0..MaxCmd]
    /\ seen \in [Waiter -> 0..MaxCmd]
    /\ pc \in [Waiter -> {"idle", "grab", "query", "select"}]
    /\ wake \in [Waiter -> Nat]
    /\ ch \in Nat
    /\ conn \in {"none", "acquired", "listening", "notified"}
    /\ pend \in 0..MaxPend
    /\ deaf \in [Waiter -> BOOLEAN]

Init ==
    /\ cmds = [w \in Waiter |-> 0]
    /\ seen = [w \in Waiter |-> 0]
    /\ pc = [w \in Waiter |-> "idle"]
    /\ wake = [w \in Waiter |-> 0]
    /\ ch = 0
    /\ conn = "none"
    /\ pend = 0
    /\ deaf = [w \in Waiter |-> FALSE]

----------------------------------------------------------------------------
(* Producers.                                                              *)

Listening == conn \in {"listening", "notified"}

\* Mutant of Insert: the trigger leaves out fleet commands.
InsertNotifiesOne(S) ==
    /\ \A w \in S : cmds[w] < MaxCmd
    /\ Listening => pend < MaxPend
    /\ cmds' = [w \in Waiter |-> IF w \in S THEN cmds[w] + 1 ELSE cmds[w]]
    /\ pend' = IF Listening /\ S # Waiter THEN pend + 1 ELSE pend
    /\ deaf' = [w \in Waiter |-> deaf[w] \/ (w \in S /\ ~Listening)]
    /\ UNCHANGED <<waiterVars, ch, conn>>

\* An insert for the devices S commits; the trigger's pg_notify reaches the
\* sessions that are listening at that moment.
Insert(S) ==
    /\ \A w \in S : cmds[w] < MaxCmd
    /\ Listening => pend < MaxPend
    /\ cmds' = [w \in Waiter |-> IF w \in S THEN cmds[w] + 1 ELSE cmds[w]]
    /\ pend' = IF Listening THEN pend + 1 ELSE pend
    /\ deaf' = [w \in Waiter |-> deaf[w] \/ (w \in S /\ ~Listening)]
    /\ UNCHANGED <<waiterVars, ch, conn>>

----------------------------------------------------------------------------
(* listenLoop.                                                             *)

Acquire ==
    /\ conn = "none"
    /\ conn' = "acquired"
    /\ UNCHANGED <<cmds, waiterVars, ch, pend, deaf>>

Listen ==
    /\ conn = "acquired"
    /\ conn' = "listening"
    /\ UNCHANGED <<cmds, waiterVars, ch, pend, deaf>>

WaitForNotification ==
    /\ conn = "listening" /\ pend > 0
    /\ pend' = pend - 1
    /\ conn' = "notified"
    /\ UNCHANGED <<cmds, waiterVars, ch, deaf>>

\* Mutant of Broadcast: the wakeup is dropped.
BroadcastNobody ==
    /\ conn = "notified"
    /\ conn' = "listening"
    /\ UNCHANGED <<cmds, waiterVars, ch, pend, deaf>>

Broadcast ==
    /\ conn = "notified"
    /\ ch' = ch + 1
    /\ conn' = "listening"
    /\ UNCHANGED <<cmds, waiterVars, pend, deaf>>

\* The connection breaks: what it had buffered is gone; reconnect in 1 s.
ListenFails ==
    /\ conn \in {"acquired", "listening"}
    /\ conn' = "none"
    /\ pend' = 0
    /\ deaf' = [w \in Waiter |-> deaf[w] \/ pend > 0]
    /\ UNCHANGED <<cmds, waiterVars, ch>>

----------------------------------------------------------------------------
(* c2LongPoll.  The device may poll with any cursor it has reached.        *)

Goto(w, l) == pc' = [pc EXCEPT ![w] = l]

Hold(w) ==
    /\ pc[w] = "idle"
    /\ Goto(w, "grab")
    /\ UNCHANGED <<cmds, seen, wake, hubVars, deaf>>

Grab(w) ==
    /\ pc[w] = "grab"
    /\ wake' = [wake EXCEPT ![w] = ch]
    /\ deaf' = [deaf EXCEPT ![w] = FALSE]
    /\ Goto(w, "query")
    /\ UNCHANGED <<cmds, seen, hubVars>>

\* 200 with the next command; the device's next poll acks it, or the response
\* is lost.
Serve(w) ==
    /\ pc[w] = "query" /\ cmds[w] > seen[w]
    /\ Goto(w, "idle")
    /\ seen' \in {seen, [seen EXCEPT ![w] = seen[w] + 1]}
    /\ UNCHANGED <<cmds, wake, hubVars, deaf>>

NoRows(w) ==
    /\ pc[w] = "query" /\ cmds[w] <= seen[w]
    /\ Goto(w, "select")
    /\ UNCHANGED <<cmds, seen, wake, hubVars, deaf>>

QueryFails(w) ==
    /\ pc[w] = "query"
    /\ Goto(w, "idle")
    /\ UNCHANGED <<cmds, seen, wake, hubVars, deaf>>

Woken(w) ==
    /\ pc[w] = "select" /\ wake[w] # ch
    /\ Goto(w, "grab")
    /\ UNCHANGED <<cmds, seen, wake, hubVars, deaf>>

\* The budget elapses (204) or the client disconnects.
Deadline(w) ==
    /\ pc[w] = "select"
    /\ Goto(w, "idle")
    /\ UNCHANGED <<cmds, seen, wake, hubVars, deaf>>

----------------------------------------------------------------------------
Hub == Acquire \/ Listen \/ WaitForNotification \/ Broadcast \/ ListenFails

Handler(w) ==
    \/ Hold(w) \/ Grab(w) \/ Serve(w) \/ NoRows(w) \/ QueryFails(w)
    \/ Woken(w) \/ Deadline(w)

Next ==
    \/ \E w \in Waiter : Insert({w})
    \/ Insert(Waiter)
    \/ Hub
    \/ \E w \in Waiter : Handler(w)

Spec == Init /\ [][Next]_vars

\* The goroutines are scheduled; neither the deadline nor a failure need happen.
Fairness ==
    /\ WF_vars(Acquire) /\ WF_vars(Listen)
    /\ WF_vars(WaitForNotification) /\ WF_vars(Broadcast)
    /\ \A w \in Waiter : WF_vars(Grab(w)) /\ WF_vars(Serve(w) \/ NoRows(w)) /\ WF_vars(Woken(w))

FairSpec == Spec /\ Fairness

----------------------------------------------------------------------------
(* Properties.                                                             *)

Missing(w) == pc[w] = "select" /\ cmds[w] > seen[w]

\* A wakeup for this handler is under way: its channel is closed already, or a
\* notification that will close it has been received or is buffered.
WakeupOnItsWay(w) == wake[w] # ch \/ conn = "notified" \/ pend > 0

\* c2notify.go's "no lost wakeup", as far as the LISTEN connection stays up: a
\* handler that sleeps in its select while a command for its device is queued
\* has a wakeup on its way, unless that command's NOTIFY was never heard.
NoLostWakeup == \A w \in Waiter : Missing(w) => WakeupOnItsWay(w) \/ deaf[w]

\* A handler that sleeps on a queued command is woken without help from its
\* deadline, unless the LISTEN connection loses the notification.
WokenByCommand ==
    \A w \in Waiter : Missing(w) ~> (pc[w] # "select" \/ deaf[w])

----------------------------------------------------------------------------
\* Inductive: no handler holds a channel of the future, so a broadcast wakes all.
NotifyInv ==
    /\ \A w \in Waiter : wake[w] <= ch
    /\ NoLostWakeup
=============================================================================
