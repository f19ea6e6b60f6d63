------------------------------- MODULE Console -------------------------------
(***************************************************************************)
(* The serial console pane of picpak-ops (console/model.go, session.go,    *)
(* state.go) over interactive child processes (sshhost/run.go).            *)
(*                                                                         *)
(* The pane's Update runs on the UI loop, one message at a time.  A run is *)
(* one child process: its two pumps and its reaper post lines and one exit *)
(* message, which carry the run's id although the pane does not look at    *)
(* it; so messages of an abandoned run are applied to its successor.       *)
(***************************************************************************)
EXTENDS Integers, Sequences, FiniteSets

CONSTANTS
    MaxRuns,       \* bound: child processes started
    MaxReconnects, \* console.reconnect_max_attempts
    InCap,         \* 256, the capacity of a session's input channel
    MaxLines       \* bound: lines the operator types

ASSUME ConAssumption == MaxRuns \in Nat

Runs == 1..MaxRuns

VARIABLES
    device,      \* how the spawn arguments resolved: "ok", "noport", "nohost"
    conState,    \* ConnState of the pane
    conRun,      \* the run the session holds, 0 when not running
    closing,     \* the session's last stop was ours
    reconnects,  \* attempts used
    armed,       \* the confirm prompt is up
    proc,        \* run -> "none", "live", "dying" (cancelled), "gone"
    conBox,      \* messages to the pane, in order
    timers,      \* reconnect backoffs running
    paneOpen,
    inputCh, overflow, written, typed
    \* per run: the input channel, senders parked on it, what the device got;
    \* typed[l] is the run the session held when line l was typed

linesV == <<inputCh, overflow, written, typed>>
conVars == <<device, conState, conRun, closing, reconnects, armed, proc, conBox, timers, paneOpen, linesV>>

Line(r, b) == [k |-> "line", run |-> r, flag |-> b]    \* flag: the banner
Exited(r, e) == [k |-> "exit", run |-> r, flag |-> e]  \* flag: not an exit status
Unused == {r \in Runs : proc[r] = "none"}

\* handleSpawnArgs, delivered once, right after the pane was created.
ConInit ==
    /\ device \in {"ok", "noport", "nohost"}
    /\ conState = IF device = "nohost" THEN "error" ELSE "idle"
    /\ conRun = 0 /\ closing = FALSE /\ reconnects = 0 /\ armed = FALSE
    /\ proc = [r \in Runs |-> "none"] /\ conBox = <<>> /\ timers = 0 /\ paneOpen = TRUE
    /\ inputCh = [r \in Runs |-> <<>>] /\ overflow = {} /\ written = [r \in Runs |-> <<>>]
    /\ typed = <<>>

----------------------------------------------------------------------------
(* The child process (run.go).                                             *)

\* pump: a cancelled child may still have output in its pipes.
Pump(r, banner) ==
    /\ proc[r] \in {"live", "dying"}
    /\ \A i \in DOMAIN conBox : conBox[i].run # r
    /\ conBox' = IF paneOpen THEN Append(conBox, Line(r, banner)) ELSE conBox
    /\ UNCHANGED <<device, conState, conRun, closing, reconnects, armed, proc, timers, paneOpen, linesV>>

\* reap and finish: both pumps are done, the exit message is the run's last.
Reap(r, err) ==
    /\ proc[r] \in {"live", "dying"}
    /\ proc' = [proc EXCEPT ![r] = "gone"]
    /\ conBox' = IF paneOpen THEN Append(conBox, Exited(r, err)) ELSE conBox
    /\ UNCHANGED <<device, conState, conRun, closing, reconnects, armed, timers, paneOpen, linesV>>

----------------------------------------------------------------------------
(* The session (session.go).  Each operator gives the new values of        *)
(* conRun, closing, proc, conBox and conState.                             *)

\* startRunInteractive: the child runs; or its pipes could not be made; or it could
\* not be started, which also posts an exit message.
StartRunInteractive(r, ok) ==
    \/ ok /\ proc' = [proc EXCEPT ![r] = "live"] /\ conBox' = conBox
    \/ /\ ~ok /\ proc' = [proc EXCEPT ![r] = "gone"]
       /\ conBox' \in {conBox, Append(conBox, Exited(r, TRUE))}

\* Start, with the next run; that no command could be built ends as a failed start.
StartRun(then) ==
    \E r \in Unused, ok \in BOOLEAN :
      /\ \A q \in Unused : r <= q
      /\ StartRunInteractive(r, ok)
      /\ IF ok THEN conRun' = r /\ closing' = FALSE /\ conState' = then
              ELSE conState' = "error" /\ UNCHANGED <<conRun, closing>>

\* Mutant of Stopped: the child is forgotten, not cancelled.
StoppedUncancelled(p, r) == p

\* stop: the child of run r is cancelled.
Stopped(p, r) == IF r # 0 /\ p[r] = "live" THEN [p EXCEPT ![r] = "dying"] ELSE p

StopRun ==
    /\ closing' = TRUE /\ conRun' = 0
    /\ proc' = Stopped(proc, conRun)

----------------------------------------------------------------------------
(* The pane's Update.                                                      *)

\* connect(confirmed), on the reconnect key or without it when auto_connect is set.
Connect(confirmed) ==
    /\ paneOpen /\ device # "nohost" /\ conRun = 0
    /\ \/ /\ device = "noport" /\ conState' = "error"
          /\ UNCHANGED <<conRun, closing, proc, conBox, armed>>
       \/ /\ device = "ok" /\ ~confirmed
          /\ armed' = TRUE /\ UNCHANGED <<conState, conRun, closing, proc, conBox>>
       \/ /\ device = "ok" /\ confirmed
          /\ armed' = FALSE /\ StartRun("resetting")
    /\ UNCHANGED <<device, reconnects, timers, paneOpen, linesV>>

\* The prompt can be configured away (confirm_connect).
OnReconnectKey == Connect(armed) \/ Connect(TRUE)
AutoConnect == conState = "idle" /\ Unused = Runs /\ Connect(TRUE)

OnDisconnectKey ==
    /\ paneOpen /\ conRun # 0
    /\ StopRun /\ conState' = "closed" /\ reconnects' = 0
    /\ UNCHANGED <<device, armed, conBox, timers, paneOpen, linesV>>

\* ReleaseDevicePortMsg for this pane's port.
ReleaseDevicePort ==
    /\ paneOpen /\ conRun # 0
    /\ StopRun /\ conState' = "closed"
    /\ UNCHANGED <<device, reconnects, armed, conBox, timers, paneOpen, linesV>>

\* onData, onBanner.
OnLine(s, banner) ==
    IF banner \/ s \in {"resetting", "quiet"} THEN "attached" ELSE s

ApplyData ==
    /\ conBox # <<>> /\ Head(conBox).k = "line"
    /\ conState' = OnLine(conState, Head(conBox).flag)
    /\ conBox' = Tail(conBox)
    /\ UNCHANGED <<device, conRun, closing, reconnects, armed, proc, timers, paneOpen, linesV>>

OnExit(operator, err) == IF operator THEN "closed" ELSE IF err THEN "error" ELSE "sleeping"

\* Mutant of ApplyExit: the pane shows the backoff but arms it only on the first drop.
ApplyExitOnce ==
    /\ conBox # <<>> /\ Head(conBox).k = "exit"
    /\ LET s == OnExit(closing, Head(conBox).flag)
           retry == s = "sleeping" /\ reconnects < MaxReconnects IN
       /\ conState' = IF retry THEN "reconnecting" ELSE s
       /\ reconnects' = IF retry THEN reconnects + 1 ELSE IF s = "closed" THEN 0 ELSE reconnects
       /\ timers' = IF retry /\ reconnects = 0 THEN timers + 1 ELSE timers
    /\ conRun' = 0 /\ proc' = Stopped(proc, conRun)
    /\ conBox' = Tail(conBox)
    /\ UNCHANGED <<device, closing, armed, paneOpen, linesV>>

\* applyExit: whichever run the message is of, the session is finished.
ApplyExit ==
    /\ conBox # <<>> /\ Head(conBox).k = "exit"
    /\ LET s == OnExit(closing, Head(conBox).flag)
           retry == s = "sleeping" /\ reconnects < MaxReconnects IN
       /\ conState' = IF retry THEN "reconnecting" ELSE s
       /\ reconnects' = IF retry THEN reconnects + 1 ELSE IF s = "closed" THEN 0 ELSE reconnects
       /\ timers' = IF retry THEN timers + 1 ELSE timers
    /\ conRun' = 0 /\ proc' = Stopped(proc, conRun)
    /\ conBox' = Tail(conBox)
    /\ UNCHANGED <<device, closing, armed, paneOpen, linesV>>

\* A backoff of the pane ends.
OnReconnect ==
    /\ timers > 0 /\ timers' = timers - 1
    /\ \/ (conRun # 0 \/ ~paneOpen) /\ UNCHANGED <<conState, conRun, closing, proc, conBox>>
       \/ conRun = 0 /\ paneOpen /\ StartRun("resetting")
    /\ UNCHANGED <<device, reconnects, armed, paneOpen, linesV>>

OnSilence(s) == IF s = "attached" THEN "quiet" ELSE s

\* onQuietTick: the ticks go on while the session runs.
OnQuietTick ==
    /\ paneOpen /\ conRun # 0
    /\ conState' = OnSilence(conState)
    /\ UNCHANGED <<device, conRun, closing, reconnects, armed, proc, conBox, timers, paneOpen, linesV>>

\* SetFocused(false) takes the confirm prompt down.
Unfocus ==
    /\ armed /\ armed' = FALSE
    /\ UNCHANGED <<device, conState, conRun, closing, reconnects, proc, conBox, timers, paneOpen, linesV>>

\* Close; the router drops what is posted to the pane from now on.
ClosePane ==
    /\ paneOpen /\ paneOpen' = FALSE
    /\ StopRun /\ conBox' = <<>>
    /\ UNCHANGED <<device, conState, reconnects, armed, timers, linesV>>

----------------------------------------------------------------------------
(* Input: submit, SendLine, writeLoop.                                     *)

\* A full channel parks the line in a goroutine of its own.
SendLine ==
    /\ typed' = Append(typed, conRun)
    /\ IF Len(inputCh[conRun]) < InCap
         THEN /\ inputCh' = [inputCh EXCEPT ![conRun] = Append(@, Len(typed) + 1)]
              /\ UNCHANGED overflow
         ELSE /\ overflow' = overflow \cup {[ch |-> conRun, line |-> Len(typed) + 1]}
              /\ UNCHANGED inputCh
    /\ UNCHANGED <<device, conState, conRun, closing, reconnects, armed, proc, conBox, timers,
                   paneOpen, written>>

\* submit: without a session the line is only shown.
Submit == paneOpen /\ conRun # 0 /\ Len(typed) < MaxLines /\ SendLine

\* Mutant of Unpark: the goroutine reads the session's channel when it can send.
UnparkLate(o) ==
    LET ch == IF conRun = 0 THEN o.ch ELSE conRun IN
    /\ Len(inputCh[ch]) < InCap
    /\ inputCh' = [inputCh EXCEPT ![ch] = Append(@, o.line)]
    /\ overflow' = overflow \ {o}
    /\ UNCHANGED <<device, conState, conRun, closing, reconnects, armed, proc, conBox, timers,
                   paneOpen, written, typed>>

\* The parked goroutine holds the channel it found.
Unpark(o) ==
    /\ Len(inputCh[o.ch]) < InCap
    /\ inputCh' = [inputCh EXCEPT ![o.ch] = Append(@, o.line)]
    /\ overflow' = overflow \ {o}
    /\ UNCHANGED <<device, conState, conRun, closing, reconnects, armed, proc, conBox, timers,
                   paneOpen, written, typed>>

\* writeLoop ends with the run's context; stdin is closed with it.
WriteLoop(r) ==
    /\ proc[r] = "live" /\ inputCh[r] # <<>>
    /\ written' = [written EXCEPT ![r] = Append(@, Head(inputCh[r]))]
    /\ inputCh' = [inputCh EXCEPT ![r] = Tail(@)]
    /\ UNCHANGED <<device, conState, conRun, closing, reconnects, armed, proc, conBox, timers,
                   paneOpen, overflow, typed>>

ConNext ==
    \/ \E r \in Runs, b \in BOOLEAN : Pump(r, b) \/ Reap(r, b)
    \/ OnReconnectKey \/ AutoConnect \/ OnDisconnectKey \/ ReleaseDevicePort
    \/ ApplyData \/ ApplyExit \/ OnReconnect \/ OnQuietTick \/ Unfocus \/ ClosePane
    \/ Submit \/ (\E o \in overflow : Unpark(o)) \/ (\E r \in Runs : WriteLoop(r))

ConSpec == ConInit /\ [][ConNext]_conVars

----------------------------------------------------------------------------
(* Properties.                                                             *)

\* session.go:37 ff.: a child that was not cancelled is the one the session
\* holds, whatever exits, stops, releases and backoffs overtake each other; so
\* no pump keeps a port open that the pane no longer knows of.
NoLeakedChild == \A r \in Runs : proc[r] = "live" => r = conRun

\* state.go: "the pane never pretends 'up'".  Once the messages of ended runs
\* are handled, a link is shown exactly when the session runs, and a backoff
\* that is shown is one that will end.
ShownLinkIsReal ==
    (paneOpen /\ conBox = <<>> /\ \A r \in Runs : proc[r] # "dying") =>
        /\ conState \in {"resetting", "attached", "quiet"} <=> conRun # 0
        /\ conState = "reconnecting" => timers > 0

\* SendLine: what the operator typed into one session is never written to
\* another (each connect reboots the device), and never twice.
LineToItsRun ==
    \A r \in Runs : \A i, j \in DOMAIN written[r] :
        typed[written[r][i]] = r /\ (i # j => written[r][i] # written[r][j])

\* The pane, the session and the child process agree, and lines go where they
\* were typed.
ConsoleSound == NoLeakedChild /\ ShownLinkIsReal /\ LineToItsRun

----------------------------------------------------------------------------
(* The inductive invariant.                                                *)

Up == {"resetting", "attached", "quiet"}
Message == [k : {"line", "exit"}, run : Runs, flag : BOOLEAN]
LinkType ==
    /\ conRun \in Runs \cup {0} /\ proc \in [Runs -> {"none", "live", "dying", "gone"}]
    /\ conState \in Up \cup {"idle", "error", "closed", "sleeping", "reconnecting"}
    /\ conBox \in Seq(Message) /\ timers \in Nat /\ paneOpen \in BOOLEAN
    /\ closing \in BOOLEAN /\ reconnects \in Nat
LineType ==
    /\ inputCh \in [Runs -> Seq(Nat)] /\ written \in [Runs -> Seq(Nat)]
    /\ overflow \in SUBSET [ch : Runs, line : Nat] /\ typed \in Seq(Runs)

\* An exit message is on its way, or will be posted.
ExitAfter(i) == \E j \in DOMAIN conBox : j > i /\ conBox[j].k = "exit"
ExitComes == (\E r \in Runs : proc[r] = "dying") \/ ExitAfter(0)

\* A message of a run is followed by its exit.
LinesEnd ==
    \A i \in DOMAIN conBox : conBox[i].k = "line" =>
        proc[conBox[i].run] \in {"live", "dying"} \/ ExitAfter(i)

\* What is shown as a link is one, or will be taken back.
LinkShown ==
    /\ conRun # 0 => paneOpen /\ conState \in Up
    /\ paneOpen => /\ conState \in Up /\ conRun = 0 => ExitComes
                   /\ conState = "reconnecting" => timers > 0
    /\ ~paneOpen => conBox = <<>>

\* A line is in one place, and of the run it was typed in.
TypedIn(l, r) == l \in DOMAIN typed /\ typed[l] = r
LinesApart ==
    \A r \in Runs :
        /\ \A i \in DOMAIN written[r] : TypedIn(written[r][i], r)
        /\ \A i \in DOMAIN inputCh[r] : TypedIn(inputCh[r][i], r)
        /\ \A i, j \in DOMAIN written[r] : i # j => written[r][i] # written[r][j]
        /\ \A i, j \in DOMAIN inputCh[r] : i # j => inputCh[r][i] # inputCh[r][j]
        /\ \A i \in DOMAIN written[r], j \in DOMAIN inputCh[r] : written[r][i] # inputCh[r][j]
ParkedApart ==
    /\ \A o \in overflow :
        /\ TypedIn(o.line, o.ch)
        /\ \A i \in DOMAIN written[o.ch] : written[o.ch][i] # o.line
        /\ \A i \in DOMAIN inputCh[o.ch] : inputCh[o.ch][i] # o.line
    /\ \A o, q \in overflow : o.ch = q.ch /\ o.line = q.line => o = q

LinkInv == LinkType /\ NoLeakedChild /\ LinesEnd /\ LinkShown
LinesInv == LineType /\ LinesApart /\ ParkedApart
ConInv == LinkInv /\ LinesInv
=============================================================================
