------------------------------ MODULE MCUplink ------------------------------
(***************************************************************************)
(* What a device sends, for TLC: the handshake and the polls of its C2     *)
(* session (C2Session) and its log pushes (LogIngest), with the viewer's   *)
(* rebuild of what was stored (LogReconstruct).  The two share no state,   *)
(* so a behaviour exercises one of them, chosen initially.                 *)
(***************************************************************************)
EXTENDS C2Session, LogReconstruct

VARIABLE part

allVars == <<part, vars, ingestVars>>

UplinkInit == part \in {"session", "logs"} /\ Init /\ IngestInit /\ (part = "session" => explicit /\ fifo)

UplinkNext ==
  \/ part = "session" /\ Next /\ UNCHANGED <<ingestVars, part>>
  \/ part = "logs" /\ IngestNext /\ UNCHANGED <<vars, part>>

\* The fairness of LogIngest.
UplinkSpec ==
  /\ UplinkInit /\ [][UplinkNext]_allVars
  /\ WF_ingestVars(part = "logs" /\ SendPush)
  /\ SF_ingestVars(part = "logs" /\ HandleIngest)
  /\ SF_ingestVars(part = "logs" /\ ReceiveAck)
=============================================================================
