------------------------------ MODULE Custody ------------------------------
(***************************************************************************)
(* The controller's attachments (module Attachment) together with the node *)
(* services of the servers, each of which keeps the contract that NodeHost *)
(* is shown to implement (module NodeContract).  The two halves of the     *)
(* driver never talk to each other: only the CO carries the publish        *)
(* context from the controller's answer to the node, and waits for the     *)
(* node's answer before it detaches.                                       *)
(***************************************************************************)
EXTENDS Attachment

VARIABLES
  using,   \* the volume is mounted on each server
  known    \* what the CO knows of the staging on each server

custodyVars == <<vars, using, known>>
nodeVars == <<using, known>>

\* The node service of server s.
Node(s) == INSTANCE NodeContract WITH using <- using[s], known <- known[s]

CustodyInit ==
  /\ Init
  /\ using = [s \in Servers |-> FALSE]
  /\ known = [s \in Servers |-> "no"]

\* A step of the node service of s; the others stay as they are.
NodeStep(s) ==
  /\ using' \in {[using EXCEPT ![s] = now] : now \in BOOLEAN}
  /\ known' \in {[known EXCEPT ![s] = k] : k \in {"no", "maybe", "yes"}}
  /\ UNCHANGED vars

\* The CO stages a volume where the controller has reported it attached.
Stage(s) == published[s] /\ NodeStep(s) /\ Node(s)!Engage

\* Mounts, unmounts and answers of the node, until it is unstaged.
Use(s) == NodeStep(s) /\ Node(s)!Work

Unstage(s) == NodeStep(s) /\ Node(s)!Release

\* The CO detaches a volume only where it knows that nothing is staged.
Detach(s) == known[s] = "no" /\ WantDetach(s)

Controller ==
  \/ \E s \in Servers : \/ WantAttach(s) \/ Detach(s) \/ Start(s)
                        \/ HandlerStep(s) \/ HandlerFailure(s)
  \/ CloudSettles
  \/ JobFails

CustodyNext ==
  \/ Controller /\ UNCHANGED nodeVars
  \/ \E s \in Servers : Stage(s) \/ Use(s) \/ Unstage(s)

CustodySpec == CustodyInit /\ [][CustodyNext]_custodyVars /\ Fairness

-----------------------------------------------------------------------------
\* The volume is mounted only on the server it is attached to, and so on one server at most,
\* although the controller and the nodes share no state: what AttachVolume, DetachVolume and
\* the node's unstage answer is enough for the CO to keep the two apart.
MountedWhereAttached ==
  \A s \in Servers : using[s] => holder = s /\ phase = "in-use"
=============================================================================
