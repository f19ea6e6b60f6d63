------------------------------- MODULE MCPush -------------------------------
(***************************************************************************)
(* The three ways the backend pushes news, for TLC: the wakeup of held C2  *)
(* polls (C2Notify), the live-event hub (SseHub) and the log tail with its *)
(* pages (LogView).  They share no state, so a behaviour exercises one of  *)
(* them, chosen initially; the run explores each without the product.      *)
(***************************************************************************)
EXTENDS C2Notify, SseHub, LogView

VARIABLE part

allVars == <<part, vars, sseVars, logVars>>

PushInit ==
  /\ part \in {"notify", "hub", "logs"} /\ Init /\ HubInit /\ LogInit
  /\ part # "hub" => table = NoRoster

PushNext ==
  \/ part = "notify" /\ Next /\ UNCHANGED <<sseVars, logVars, part>>
  \/ part = "hub" /\ HubNext /\ UNCHANGED <<vars, logVars, part>>
  \/ part = "logs" /\ LogNext /\ UNCHANGED <<vars, sseVars, part>>

\* The fairness of the modules, for the part that runs.
PushSpec ==
  /\ PushInit /\ [][PushNext]_allVars
  /\ WF_vars(part = "notify" /\ Acquire) /\ WF_vars(part = "notify" /\ Listen)
  /\ WF_vars(part = "notify" /\ WaitForNotification)
  /\ WF_vars(part = "notify" /\ Broadcast)
  /\ \A w \in Waiter : /\ WF_vars(part = "notify" /\ Grab(w))
                       /\ WF_vars(part = "notify" /\ (Serve(w) \/ NoRows(w)))
                       /\ WF_vars(part = "notify" /\ Woken(w))
  /\ WF_sseVars(part = "hub" /\ Loop)
  /\ SF_sseVars(part = "hub" /\ TickRoster)
  /\ \A c \in Conn : WF_sseVars(part = "hub" /\ StreamHandler(c))
=============================================================================
