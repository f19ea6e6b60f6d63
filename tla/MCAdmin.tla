------------------------------- MODULE MCAdmin -------------------------------
(***************************************************************************)
(* The operator's side of the backend, for TLC: what devices show          *)
(* (Playlists, refining Panel), who may ask (AdminAuth, RateLimit),        *)
(* firmware rollouts, sealed secrets, templates, paged lists and the pure  *)
(* policies.  They share no state but rows one of them owns, so a          *)
(* behaviour exercises one of them, chosen initially.                      *)
(***************************************************************************)
EXTENDS Playlists, AdminAuth, RateLimit, Rollout, Secrets, Templates, Browse, Policies

VARIABLE part

adminVars == <<part, plVars, authVars, rlVars, rolVars, secVars, tplVars, browseVars, probe>>

AdminInit ==
  /\ part \in {"playlists", "auth", "rate", "rollout", "secrets", "templates", "browse", "policies"}
  /\ PlInit /\ AuthInit /\ RlInit /\ RolInit /\ SecInit /\ TplInit /\ BrInit
  /\ part # "browse" => list = "images"
  /\ part # "auth" => use = {"session", "basic"}
  /\ part # "rollout" => \A d \in Gadget : chan[d] = CHOOSE c \in Chan : TRUE
  /\ IF part = "policies" THEN PolInit ELSE probe = NoProbe

AdminNext ==
  \/ /\ part = "playlists" /\ PlNext
     /\ UNCHANGED <<authVars, rlVars, rolVars, secVars, tplVars, browseVars, probe, part>>
  \/ /\ part = "auth" /\ AuthNext
     /\ UNCHANGED <<plVars, rlVars, rolVars, secVars, tplVars, browseVars, probe, part>>
  \/ /\ part = "rate" /\ RlNext
     /\ UNCHANGED <<plVars, authVars, rolVars, secVars, tplVars, browseVars, probe, part>>
  \/ /\ part = "rollout" /\ RolNext
     /\ UNCHANGED <<plVars, authVars, rlVars, secVars, tplVars, browseVars, probe, part>>
  \/ /\ part = "secrets" /\ SecNext
     /\ UNCHANGED <<plVars, authVars, rlVars, rolVars, tplVars, browseVars, probe, part>>
  \/ /\ part = "templates" /\ TplNext
     /\ UNCHANGED <<plVars, authVars, rlVars, rolVars, secVars, browseVars, probe, part>>
  \/ /\ part = "browse" /\ BrNext
     /\ UNCHANGED <<plVars, authVars, rlVars, rolVars, secVars, tplVars, probe, part>>

AdminSpec == AdminInit /\ [][AdminNext]_adminVars
=============================================================================
