-------------------------------- MODULE Hosts --------------------------------
(***************************************************************************)
(* The shared host registry of picpak-ops (sshhost/registry.go, worker.go, *)
(* device.go) and the hosts pane that adopts its stream (sshhost/pane.go). *)
(*                                                                         *)
(* A worker polls its host for ever; each result is put in the inventory   *)
(* store and posted to the pane that is the registry's target when it is   *)
(* posted.  A new pane makes itself the target and then reads the store.   *)
(***************************************************************************)
EXTENDS Integers, Sequences, FiniteSets

CONSTANTS
    Host,        \* configured, enabled hosts
    Found,       \* what a listing may show: sets of devices, as values
    PollSlots,   \* poll.parallel
    FailThreshold,
    MaxPolls, MaxViews   \* bounds: polls of all hosts, hosts panes opened

ASSUME HoAssumption == FailThreshold \in Int

VARIABLES
    worker,      \* host -> [pc, state, fails, found]: the worker's own state
    polls,       \* polls begun, of all hosts
    store,       \* host -> [state, found], the inventory store
    target,      \* the pane the registry posts to, 0 none
    view,        \* pane -> its rows, or "closed"
    opening,     \* a pane between retarget and snapshot, 0 none
    hostBox,     \* messages to panes, in order
    hostsStopped

hoVars == <<worker, polls, store, target, view, opening, hostBox, hostsStopped>>

Views == 1..MaxViews
Nothing == CHOOSE f \in Found : \A g \in Found : f <= g    \* no device listed
NoRows == [h \in Host |-> [state |-> "none", found |-> Nothing]]
Unopened == {v \in Views : view[v] = NoRows /\ v # opening}

HoInit ==
    /\ worker = [h \in Host |-> [pc |-> "timer", state |-> "connecting", fails |-> 0, found |-> Nothing]]
    /\ polls = 0
    /\ store = [h \in Host |-> [state |-> "connecting", found |-> Nothing]]
    /\ target = 0 /\ view = [v \in Views |-> NoRows] /\ opening = 0 /\ hostBox = <<>>
    /\ hostsStopped = FALSE

----------------------------------------------------------------------------
(* A worker (worker.go).  Send returns once the loop has taken the message. *)

Sent(h) == \A i \in DOMAIN hostBox : hostBox[i].host # h

\* The timer fires and a slot is free: the listing is running.
BeginPoll(h) ==
    /\ ~hostsStopped /\ worker[h].pc = "timer" /\ Sent(h) /\ polls < MaxPolls
    /\ PollSlots > 0 => Cardinality({x \in Host : worker[x].pc # "timer"}) < PollSlots
    /\ worker' = [worker EXCEPT ![h].pc = "listing"]
    /\ polls' = polls + 1
    /\ UNCHANGED <<store, target, view, opening, hostBox, hostsStopped>>

\* emit: to whichever pane is the target now.
Posted(m) == IF target = 0 THEN hostBox ELSE Append(hostBox, m)
HostMessage(h, s, k, f) == [to |-> target, host |-> h, state |-> s, kind |-> k, found |-> f]

\* Mutant of NextFails: failures are never forgotten.
NextFailsSticky(h, ok) == IF ok THEN worker[h].fails ELSE worker[h].fails + 1

NextFails(h, ok) == IF ok THEN 0 ELSE worker[h].fails + 1

\* pollOnce: the listing answers or fails; a change of state is posted first.
\* Stop makes the listing that is running fail.
PollOnce(h, ok, f) ==
    /\ worker[h].pc = "listing" /\ (hostsStopped => ~ok)
    /\ ok \/ f = Nothing
    /\ LET n == NextFails(h, ok)
           s == IF ok THEN "up" ELSE IF n >= FailThreshold THEN "down" ELSE "backoff" IN
       /\ worker' = [worker EXCEPT ![h] = [pc |-> "set", state |-> s, fails |-> n, found |-> f]]
       /\ hostBox' = IF s # worker[h].state THEN Posted(HostMessage(h, s, "state", f)) ELSE hostBox
    /\ UNCHANGED <<polls, store, target, view, opening, hostsStopped>>

\* writeAndEmitPoll, its first half.
SetStore(h) ==
    /\ worker[h].pc = "set" /\ Sent(h)
    /\ store' = [store EXCEPT ![h] = [state |-> worker[h].state, found |-> worker[h].found]]
    /\ worker' = [worker EXCEPT ![h].pc = "emit"]
    /\ UNCHANGED <<polls, target, view, opening, hostBox, hostsStopped>>

\* Its second half; the slot is free again and the timer is set.
EmitPoll(h) ==
    /\ worker[h].pc = "emit"
    /\ hostBox' = Posted(HostMessage(h, worker[h].state, "poll", worker[h].found))
    /\ worker' = [worker EXCEPT ![h].pc = "timer"]
    /\ UNCHANGED <<polls, store, target, view, opening, hostsStopped>>

----------------------------------------------------------------------------
(* Hosts panes (pane.go), on the UI loop.                                  *)

\* Mutant of AdoptStream: the pane takes over the stream after the snapshot.
AdoptStreamLast(v) ==
    /\ \/ /\ opening = 0 /\ v \in Unopened /\ opening' = v
          /\ view' = [view EXCEPT ![v] = store]
          /\ UNCHANGED target
       \/ /\ opening = v /\ opening' = 0 /\ target' = v /\ UNCHANGED view
    /\ UNCHANGED <<worker, polls, store, hostBox, hostsStopped>>

\* SharedFactory: SetInventoryPane, then Snapshot.
AdoptStream(v) ==
    /\ \/ /\ opening = 0 /\ v \in Unopened /\ opening' = v
          /\ target' = v /\ UNCHANGED view
       \/ /\ opening = v /\ opening' = 0
          /\ view' = [view EXCEPT ![v] = store] /\ UNCHANGED target
    /\ UNCHANGED <<worker, polls, store, hostBox, hostsStopped>>

\* The row a message makes of the one shown.
Redrawn(m, row) == [state |-> m.state, found |-> IF m.kind = "poll" THEN m.found ELSE row.found]

\* Update: the loop is free, which it is not while a pane is being made.
HostUpdate ==
    /\ hostBox # <<>> /\ opening = 0
    /\ LET m == Head(hostBox) IN view' = [view EXCEPT ![m.to][m.host] = Redrawn(m, @)]
    /\ hostBox' = Tail(hostBox)
    /\ UNCHANGED <<worker, polls, store, target, opening, hostsStopped>>

\* Stop: the root context ends the timers and the listings that are running.
StopHosts ==
    /\ ~hostsStopped /\ hostsStopped' = TRUE
    /\ UNCHANGED <<worker, polls, store, target, view, opening, hostBox>>

HoNext ==
    \/ \E h \in Host : BeginPoll(h) \/ SetStore(h) \/ EmitPoll(h)
                       \/ \E ok \in BOOLEAN, f \in Found : PollOnce(h, ok, f)
    \/ (\E v \in Views : AdoptStream(v)) \/ HostUpdate \/ StopHosts

HoSpec == HoInit /\ [][HoNext]_hoVars

----------------------------------------------------------------------------
(* Properties.                                                             *)

\* pane.go: a pane that adopts the stream misses no poll.  Once a host's worker
\* waits for its timer and the messages are handled, the newest hosts pane shows
\* what the store has, however its opening and the polls interleaved.
InventoryShown ==
    \A h \in Host :
        (target # 0 /\ opening = 0 /\ hostBox = <<>> /\ worker[h].pc = "timer") =>
            view[target][h] = store[h]

\* worker.go: a host is given up only after FailThreshold failures in a row: with
\* a threshold above one it is seen backing off first, however often it answered
\* and failed before.
DownIsEarned ==
    \A h \in Host : store'[h].state = "down" /\ store[h].state # "down" =>
        store[h].state = "backoff" \/ FailThreshold <= 1

HostStep == InventoryShown' /\ DownIsEarned

\* The pane shows the inventory, and a host is given up only for a reason.
HostsSound == [][HostStep]_hoVars

----------------------------------------------------------------------------
(* The inductive invariant of HostsSound.                                  *)

HostState == {"connecting", "up", "backoff", "down"}
Listing == Found \cup {Nothing}
HostRow == [state : HostState \cup {"none"}, found : Listing]
Polled == [pc : {"timer", "listing", "set", "emit"}, state : HostState, fails : Nat, found : Listing]
Note == [to : Views, host : Host, state : HostState, kind : {"state", "poll"}, found : Listing]

HoType ==
    /\ worker \in [Host -> Polled] /\ store \in [Host -> HostRow]
    /\ target \in Views \cup {0} /\ opening \in {0, target}
    /\ view \in [Views -> [Host -> HostRow]] /\ hostBox \in Seq(Note)

\* The state a worker has counted its failures to.
FailsCounted ==
    \A h \in Host : LET w == worker[h] IN
        /\ w.state \in {"connecting", "up"} => w.fails = 0
        /\ w.pc = "set" /\ w.state = "down" /\ store[h].state # "down" =>
             store[h].state = "backoff" \/ FailThreshold <= 1

\* Out of "set" the store has what the worker found.
StoreFollows ==
    \A h \in Host : worker[h].pc # "set" =>
        store[h].state = worker[h].state /\ store[h].found = worker[h].found

\* A worker that lists or is about to post has no message out; one that waits for
\* its timer, only the poll the store has.
BoxFollows ==
    \A h \in Host : \A i \in DOMAIN hostBox : hostBox[i].host = h =>
        /\ worker[h].pc \in {"timer", "set"}
        /\ worker[h].pc = "timer" => /\ hostBox[i].kind = "poll"
                                    /\ hostBox[i].state = store[h].state
                                    /\ hostBox[i].found = store[h].found

\* The target has the row, or the poll that brings it is on its way.
RowComes ==
    \A h \in Host : (target # 0 /\ opening = 0 /\ worker[h].pc \in {"timer", "listing"}) =>
        \/ view[target][h] = store[h]
        \/ \E i \in DOMAIN hostBox : hostBox[i].host = h /\ hostBox[i].to = target

HoInv == HoType /\ FailsCounted /\ StoreFollows /\ BoxFollows /\ RowComes
=============================================================================
