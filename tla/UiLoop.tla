-------------------------------- MODULE UiLoop --------------------------------
(***************************************************************************)
(* What the panes of picpak-ops take from the UI library, which is not in  *)
(* this repository: whether it runs a batch of commands that comes inside  *)
(* an addressed message.                                                   *)
(***************************************************************************)
CONSTANT Unpacks   \* the values `unpack' may have
VARIABLE unpack

ASSUME UiAssumption == Unpacks \subseteq BOOLEAN
=============================================================================
