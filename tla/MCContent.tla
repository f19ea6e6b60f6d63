------------------------------ MODULE MCContent ------------------------------
(***************************************************************************)
(* How frames are made, for TLC: the image library (ImageStore), packed    *)
(* playlist images (VariantCache) and function frames (Render).  They meet *)
(* in the database only, so a behaviour exercises one of them, chosen      *)
(* initially.                                                              *)
(***************************************************************************)
EXTENDS ImageStore, VariantCache, Render

VARIABLE part

contentVars == <<part, imgVars, vcVars, rdVars>>

ContentInit ==
  /\ part \in {"images", "variants", "render"}
  /\ ImgInit /\ VcInit /\ RdInit
  /\ part # "render" => fn.mode = "sync" /\ fn.inv = FALSE /\ lastGood[1].ver = 0

ContentNext ==
  \/ part = "images" /\ ImgNext /\ UNCHANGED <<vcVars, rdVars, part>>
  \/ part = "variants" /\ VcNext /\ UNCHANGED <<imgVars, rdVars, part>>
  \/ part = "render" /\ RdNext /\ UNCHANGED <<imgVars, vcVars, part>>

\* Goroutines run on; requests, timers and passes of the sweep recur.
ContentSpec ==
  /\ ContentInit /\ [][ContentNext]_contentVars
  /\ WF_imgVars(part = "images" /\ SweepStep)
  /\ \A h \in Hash : SF_imgVars(part = "images" /\ Age(h))
  /\ \A u \in Uploader : WF_imgVars(part = "images" /\ UploadStep(u))
  /\ \A c \in Caller \cup Warmer : WF_vcVars(part = "variants" /\ CallerStep(c))
  /\ WF_vcVars(part = "variants" /\ ListenerStep)
  /\ WF_vcVars(part = "variants" /\ NotifyPlaylistChanged)
  /\ \A j \in Job \cup {"scheduler"} : WF_rdVars(part = "render" /\ JobStep(j))
  /\ WF_rdVars(part = "render" /\ FanStart("scheduler"))

\* What is begun comes to its end: the sweep takes orphans, requests are answered,
\* edits are followed by a refresh, and timers deliver.
ContentProgress ==
  OrphansGo /\ RequestsAnswered /\ RefreshFollows /\ TimerDelivers
=============================================================================
