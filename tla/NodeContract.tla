---------------------------- MODULE NodeContract ----------------------------
(***************************************************************************)
(* What the node service promises the rest of the system about one volume  *)
(* on one node: when it is mounted, and what the CO may conclude from      *)
(* its answers.  Paths, commands and retries are not visible here.         *)
(***************************************************************************)
VARIABLES
  using,   \* the volume is mounted or bound somewhere on the node
  known    \* what the CO knows of the staging: "no", "maybe" or "yes"

contractVars == <<using, known>>

ContractInit == using = FALSE /\ known = "no"

\* NodeStageVolume is called for a volume that is not staged.
Engage ==
  /\ known = "no"
  /\ known' \in {"maybe", "yes"}
  /\ using' \in BOOLEAN

\* The volume may be mounted and unmounted, and every answer but the last OK leaves it so.
Work ==
  /\ known # "no"
  /\ known' \in {"maybe", "yes"}
  /\ using' \in BOOLEAN

\* NodeUnstageVolume answers OK: nothing of it is mounted.
Release ==
  /\ known # "no"
  /\ ~using
  /\ known' = "no"
  /\ using' = FALSE

ContractNext == Engage \/ Work \/ Release

ContractSpec == ContractInit /\ [][ContractNext]_contractVars
=============================================================================
