---------------------------- MODULE CustodyProofs ----------------------------
(***************************************************************************)
(* The controller and any number of node services together: the controller *)
(* takes no step it would not take alone, so what is proved of Attachment  *)
(* holds here too, and the volume is mounted only where it is attached.    *)
(***************************************************************************)
EXTENDS Custody, AttachmentProofs

NodesOK ==
  /\ using \in [Servers -> BOOLEAN]
  /\ known \in [Servers -> {"no", "maybe", "yes"}]

\* What is mounted is known to the CO to be perhaps staged.
UsingIsKnown == \A s \in Servers : using[s] => known[s] # "no"

\* What is perhaps staged is attached, and the CO wants it so: nothing but a detach of this
\* server moves the volume, and that waits for the unstage.
StagedIsAttached ==
  \A s \in Servers : known[s] # "no" => want[s] = "attach" /\ holder = s /\ phase = "in-use"

CustodyInv == IInv /\ NodesOK /\ UsingIsKnown /\ StagedIsAttached

LEMMA InitCustody == CustodyInit => CustodyInv
<1> SUFFICES ASSUME CustodyInit PROVE CustodyInv
  OBVIOUS
<1>1. NodesOK /\ \A s \in Servers : ~using[s] /\ known[s] = "no"
  BY DEF CustodyInit, NodesOK
<1>2. UsingIsKnown /\ StagedIsAttached
  BY <1>1 DEF UsingIsKnown, StagedIsAttached
<1> QED BY <1>1, <1>2, InitIInv DEF CustodyInit, CustodyInv

\* A step of the controller, or none, is a step of Attachment.
LEMMA CustodyImplementsAttachment == [CustodyNext]_custodyVars => [Next]_vars
BY DEF CustodyNext, Controller, Detach, Stage, Use, Unstage, NodeStep, custodyVars, Next

\* The volume leaves a server, or the CO's wish for it, only by a detach the CO has asked for.
LEMMA ControllerKeepsStaged ==
  ASSUME CustodyInv, Controller, UNCHANGED nodeVars
  PROVE  StagedIsAttached'
<1> SUFFICES ASSUME NEW s \in Servers, known[s] # "no"
             PROVE  want'[s] = "attach" /\ holder' = s /\ phase' = "in-use"
  BY DEF StagedIsAttached, nodeVars
<1>1. want[s] = "attach" /\ holder = s /\ phase = "in-use" /\ (pc[s] # "idle" => op[s] = "attach")
  BY DEF CustodyInv, StagedIsAttached, IInv, AnyCOInv, CallIsWanted
<1>2. want'[s] = "attach"
  <2>1. CASE \E t \in Servers : WantAttach(t) \/ Detach(t) \/ Start(t)
    BY <1>1, <2>1 DEF WantAttach, Detach, WantDetach, Start, coVars, CustodyInv, IInv, AnyCOInv, TypeOK
  <2>2. CASE \E t \in Servers : HandlerStep(t) \/ HandlerFailure(t)
    <3>1. PICK t \in Servers : HandlerStep(t) \/ HandlerFailure(t)
      BY <2>2
    <3>2. pc[t] # "idle" /\ (want' = want \/ \E code : Answer(t, code))
      BY <3>1
      DEF HandlerStep, Look, RequestAccepted, RequestRefused, Probe, JobPolled, WaitEnds, WaitExpires,
          HandlerFailure, RequestLost, WindowCloses, ContextEnds, CallFails, coVars
    <3> QED BY <1>1, <3>2 DEF Answer, CustodyInv, IInv, AnyCOInv, TypeOK
  <2>3. CASE CloudSettles \/ JobFails
    BY <1>1, <2>3 DEF CloudSettles, AttachSettles, DeviceNamed, DetachSettles, JobFails, coVars
  <2> QED BY <2>1, <2>2, <2>3 DEF Controller
<1>3. holder' = s /\ phase' = "in-use"
  <2>1. CASE CloudSettles \/ JobFails
    BY <1>1, <2>1 DEF CloudSettles, AttachSettles, DeviceNamed, DetachSettles, JobFails
  <2>2. CASE \E t \in Servers : WantAttach(t) \/ Detach(t) \/ Start(t)
    BY <1>1, <2>2 DEF WantAttach, Detach, WantDetach, Start, cloudVars
  <2>3. CASE \E t \in Servers : HandlerStep(t) \/ HandlerFailure(t)
    <3>1. PICK t \in Servers : HandlerStep(t) \/ HandlerFailure(t)
      BY <2>3
    <3>2. UNCHANGED cloudVars \/ (Accept(t) /\ pc[t] = "request")
      BY <3>1
      DEF HandlerStep, Look, RequestAccepted, RequestRefused, Probe, JobPolled, WaitEnds, WaitExpires,
          HandlerFailure, RequestLost, WindowCloses, ContextEnds, CallFails
    <3> QED BY <1>1, <3>2 DEF Accept, Acceptable, cloudVars
  <2> QED BY <2>1, <2>2, <2>3 DEF Controller
<1> QED BY <1>2, <1>3

\* A node is asked to stage only what is published there, and gives up custody only unmounted.
LEMMA NodeKeepsStaged ==
  ASSUME CustodyInv, OrderlyCO, NEW s \in Servers, Stage(s) \/ Use(s) \/ Unstage(s)
  PROVE  NodesOK' /\ UsingIsKnown' /\ StagedIsAttached'
<1>1. PICK now \in BOOLEAN, k \in {"no", "maybe", "yes"} :
        using' = [using EXCEPT ![s] = now] /\ known' = [known EXCEPT ![s] = k]
  BY DEF Stage, Use, Unstage, NodeStep
<1>2. UNCHANGED <<want, holder, phase>>
  BY DEF Stage, Use, Unstage, NodeStep, vars
<1>3. NodesOK'
  BY <1>1 DEF CustodyInv, NodesOK
<1>4. k = "no" => ~now
  BY <1>1 DEF Stage, Use, Unstage, Node!Engage, Node!Work, Node!Release, CustodyInv, NodesOK
<1>5. k # "no" => published[s] \/ known[s] # "no"
  BY <1>1 DEF Stage, Use, Unstage, Node!Engage, Node!Work, Node!Release, CustodyInv, NodesOK
<1>6. published[s] => want[s] = "attach" /\ holder = s /\ phase = "in-use"
  BY DEF CustodyInv, IInv, OrderlyInv, PublishedIsAttached, PublishedIsWanted
<1>7. UsingIsKnown'
  BY <1>1, <1>4 DEF CustodyInv, NodesOK, UsingIsKnown
<1>8. StagedIsAttached'
  BY <1>1, <1>2, <1>5, <1>6 DEF CustodyInv, NodesOK, StagedIsAttached
<1> QED BY <1>3, <1>7, <1>8

LEMMA NextCustody ==
  ASSUME OrderlyCO
  PROVE  CustodyInv /\ [CustodyNext]_custodyVars => CustodyInv'
<1> SUFFICES ASSUME CustodyInv, [CustodyNext]_custodyVars PROVE CustodyInv'
  OBVIOUS
<1>1. IInv'
  BY CustodyImplementsAttachment, NextIInv DEF CustodyInv
<1>2. CASE Controller /\ UNCHANGED nodeVars
  <2>1. NodesOK' /\ UsingIsKnown'
    BY <1>2 DEF nodeVars, CustodyInv, NodesOK, UsingIsKnown
  <2> QED BY <1>1, <1>2, <2>1, ControllerKeepsStaged DEF CustodyInv
<1>3. CASE \E s \in Servers : Stage(s) \/ Use(s) \/ Unstage(s)
  BY <1>1, <1>3, NodeKeepsStaged DEF CustodyInv
<1>4. CASE UNCHANGED custodyVars
  BY <1>1, <1>4 DEF custodyVars, vars, CustodyInv, NodesOK, UsingIsKnown, StagedIsAttached
<1> QED BY <1>2, <1>3, <1>4 DEF CustodyNext

\* The volume is mounted only on the server it is attached to, for any number of servers whose
\* node services keep NodeContract, although controller and nodes share nothing but the CO.
THEOREM MountedOnlyWhereAttached ==
  ASSUME OrderlyCO
  PROVE  CustodySpec => []MountedWhereAttached
<1>1. CustodyInv => MountedWhereAttached
  BY DEF CustodyInv, UsingIsKnown, StagedIsAttached, MountedWhereAttached
<1> QED BY InitCustody, NextCustody, <1>1, PTL DEF CustodySpec
=============================================================================
