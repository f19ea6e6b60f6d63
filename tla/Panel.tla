-------------------------------- MODULE Panel --------------------------------
(***************************************************************************)
(* What the two binding tables promise together: a device shows one thing  *)
(* that exists, a render function or a playlist, or nothing.  An operator  *)
(* replaces or clears what one device shows; the others go on as they are, *)
(* unless what they show ceases to exist.                                  *)
(***************************************************************************)
CONSTANTS Device, Content, Nothing

VARIABLES
  shows,  \* Device -> what its next frame is made from
  made    \* the contents that exist

PanelInit == shows = [d \in Device |-> Nothing] /\ made \subseteq Content

(* Contents come and go; exactly the devices that showed them go blank.    *)
Withdrawn(S) == [d \in Device |-> IF shows[d] \in S THEN Nothing ELSE shows[d]]
Renew(S, N) == made' = (made \ S) \cup N /\ shows' = Withdrawn(S)

(* One device changes what it shows, at most with a content made for it,   *)
(* and contents that were kept only for it disappear.                      *)
Replace(d, c, S, N) ==
  /\ made' = (made \ S) \cup N
  /\ c \in made' \cup {Nothing}
  /\ shows' = [Withdrawn(S) EXCEPT ![d] = c]

PanelNext ==
  \E S \in SUBSET made, N \in SUBSET (Content \ made) :
    \/ Renew(S, N)
    \/ \E d \in Device, c \in Content \cup {Nothing} : Replace(d, c, S, N)

PanelSpec == PanelInit /\ [][PanelNext]_<<shows, made>>
=============================================================================
