----------------------------- MODULE Attachment -----------------------------
(***************************************************************************)
(* ControllerPublishVolume and ControllerUnpublishVolume                   *)
(* (internal/driver/controller.go) over AttachVolume and DetachVolume      *)
(* (internal/evs/attachment.go), for one volume and the servers that       *)
(* compete for it.  The driver keeps nothing: it learns what is attached   *)
(* from two cloud views that disagree while an attachment is moving, the   *)
(* compute service's listing of a server and the volume's own record.      *)
(***************************************************************************)
EXTENDS Integers

CONSTANTS
  Servers,       \* the compute instances (nodes)
  NoServer,
  DeviceNames,   \* what the cloud may name the device: "dev", or "odd" outside /dev
  Terminal,      \* error kinds that end a poll loop at once
  MaxFaults,     \* bound on the failures injected in one behaviour
  PatientCO,     \* the CO detaches only what it was told is attached
  SteadyCO       \* the CO repeats a detach until it is answered OK

ASSUME ServersAssumption == NoServer \notin Servers
ASSUME DevicesAssumption == DeviceNames \subseteq {"dev", "odd"} /\ DeviceNames # {}
ASSUME TerminalAssumption == 
  Terminal \subseteq {"NotFound", "Conflict", "Unauthenticated", "PermissionDenied"}
ASSUME FaultsAssumption == MaxFaults \in Nat
ASSUME ModesAssumption == PatientCO \in BOOLEAN /\ SteadyCO \in BOOLEAN

VARIABLES
  phase,      \* the volume's status
  holder,     \* the server an attach was accepted for, until it is detached
  device,     \* the device name in the compute listing, "none" until it is known
  want,       \* what the CO wants of each server: "none", "attach" or "detach"
  published,  \* the last answer for a server was OK to an attach
  op,         \* the call in flight for each server
  pc,         \* where its handler stands
  fallback,   \* what a failed wait answers ("own": the error of the wait itself)
  job,        \* the job of the last request accepted from a server's handler
  last,       \* the last answer for each server
  faults      \* failures injected so far

vars == <<phase, holder, device, want, published, op, pc, fallback, job, last, faults>>
cloudVars == <<phase, holder, device>>
coVars == <<want, published>>

Codes == {"OK", "NotFound", "InvalidArgument", "FailedPrecondition", "Aborted", "Unauthenticated",
          "PermissionDenied", "Unavailable", "Internal", "DeadlineExceeded"}

(***************************************************************************)
(* The two views of the cloud.                                             *)
(***************************************************************************)
\* The compute listing omits an attachment that is accepted but not settled.
Listed(s) == holder = s /\ phase \in {"in-use", "detaching"}

attachedWithDevice(s) == Listed(s) /\ device # "none"

\* Mutant: a detach under way is taken for a finished one.
detachedEarly(s) == ~(Listed(s) /\ phase = "in-use")

\* Mutant: the volume, not the pair, has to be free.
detachedEverywhere(s) == phase = "available"

detached(s) == ~Listed(s)

\* The server the volume record names; mid-attach it may name none yet.
RecordedServers ==
  IF phase = "available" THEN {{}}
  ELSE IF phase = "attaching" THEN {{}, {holder}} ELSE {{holder}}

\* Mutant: only the attachments of the record are looked at.
attachInFlightListed(s, recorded) ==
  IF s \in recorded THEN "inFlight" ELSE IF recorded # {} THEN "elsewhere" ELSE "denied"

\* What the volume record says of an attach that compute has refused.
attachInFlight(s, recorded) ==
  IF s \in recorded THEN "inFlight"
  ELSE IF recorded # {} THEN "elsewhere"
  ELSE IF phase = "attaching" THEN "inFlight" ELSE "denied"

\* What the volume record says of a detach that compute has refused.
detachInFlight(s, recorded) ==
  IF phase \in {"attaching", "detaching"} \/ s \in recorded THEN "inFlight" ELSE "denied"

Init ==
  /\ phase = "available" /\ holder = NoServer /\ device = "none"
  /\ want = [s \in Servers |-> "none"]
  /\ published = [s \in Servers |-> FALSE]
  /\ op = [s \in Servers |-> "none"]
  /\ pc = [s \in Servers |-> "idle"]
  /\ fallback = [s \in Servers |-> "own"]
  /\ job = [s \in Servers |-> "none"]
  /\ last = [s \in Servers |-> "none"]
  /\ faults = 0

(***************************************************************************)
(* The CO: one call at a time per server, the driver's caller.             *)
(***************************************************************************)
WantAttach(s) ==
  /\ pc[s] = "idle"
  /\ \/ want[s] = "none"
     \/ want[s] = "detach" /\ ~SteadyCO
  /\ want' = [want EXCEPT ![s] = "attach"]
  /\ UNCHANGED <<cloudVars, published, op, pc, fallback, job, last, faults>>

WantDetach(s) ==
  /\ pc[s] = "idle"
  /\ want[s] = "attach"
  /\ PatientCO => published[s]
  /\ want' = [want EXCEPT ![s] = "detach"]
  /\ published' = [published EXCEPT ![s] = FALSE]
  /\ UNCHANGED <<cloudVars, op, pc, fallback, job, last, faults>>

\* A call reaches the driver; repeated until it is answered OK, and sometimes after.
Start(s) ==
  /\ pc[s] = "idle"
  /\ want[s] # "none"
  /\ op' = [op EXCEPT ![s] = want[s]]
  /\ pc' = [pc EXCEPT ![s] = "look"]
  /\ fallback' = [fallback EXCEPT ![s] = "own"]
  /\ UNCHANGED <<cloudVars, coVars, job, last, faults>>

(***************************************************************************)
(* Steps shared by the handlers.                                           *)
(***************************************************************************)
Goto(s, place) == pc' = [pc EXCEPT ![s] = place]

Fault ==
  /\ faults < MaxFaults
  /\ faults' = faults + 1

\* The handler returns, and the CO takes note.
Answer(s, code) ==
  /\ pc' = [pc EXCEPT ![s] = "idle"]
  /\ last' = [last EXCEPT ![s] = code]
  /\ published' = [published EXCEPT ![s] = code = "OK" /\ op[s] = "attach"]
  /\ want' = [want EXCEPT ![s] = IF code = "OK" /\ op[s] = "detach" THEN "none" ELSE @]

\* toGRPCError: a conflict (409) has a code for each operation, every other kind one code.
ConflictCode(s) == IF op[s] = "attach" THEN "FailedPrecondition" ELSE "Aborted"
CodeOf(s, e) == IF e = "Conflict" THEN ConflictCode(s) ELSE e

\* The state the handler waits for.
Settled(s) == IF op[s] = "attach" THEN attachedWithDevice(s) ELSE detached(s)

\* Mutant: the check of the device path is inverted.
SuccessInverted(s) == IF op[s] = "attach" /\ device = "dev" THEN "Internal" ELSE "OK"

\* ControllerPublishVolume passes on only a device path under /dev.
Success(s) == IF op[s] = "attach" /\ device # "dev" THEN "Internal" ELSE "OK"

\* Mutant: the error of the wait itself is dropped.
WaitFailureDropped(s, own) == fallback[s]

\* The answer when a wait fails with an error of its own.
WaitFailure(s, own) == IF fallback[s] = "own" THEN own ELSE fallback[s]

(***************************************************************************)
(* The handlers.                                                           *)
(***************************************************************************)
\* observeAttachment: a settled pair is answered at once, an attachment that is listed without
\* a device is waited for, and otherwise the effect is requested.
Look(s) ==
  /\ pc[s] = "look"
  /\ \/ /\ Settled(s)
        /\ Answer(s, Success(s))
     \/ /\ ~Settled(s)
        /\ Goto(s, IF op[s] = "attach" /\ Listed(s) THEN "wait" ELSE "request")
        /\ UNCHANGED <<coVars, last>>
  /\ UNCHANGED <<cloudVars, op, fallback, job, faults>>

\* The service can take the request as the volume stands.
Acceptable(s) == IF op[s] = "attach" THEN phase = "available" ELSE phase = "in-use" /\ holder = s

\* The service accepts the request.
Accept(s) ==
  /\ Acceptable(s)
  /\ job' = [job EXCEPT ![s] = "running"]
  /\ phase' = IF op[s] = "attach" THEN "attaching" ELSE "detaching"
  /\ holder' = s
  /\ UNCHANGED device

\* Mutant: an accepted attach is taken for a settled one.
RequestAcceptedUnwatched(s) ==
  /\ pc[s] = "request"
  /\ Accept(s)
  /\ Answer(s, "OK")
  /\ UNCHANGED <<op, fallback, faults>>

\* The reply carries the job to wait for, or none: then the state itself is waited for.
RequestAccepted(s) ==
  /\ pc[s] = "request"
  /\ Accept(s)
  /\ \/ /\ Goto(s, "job")
        /\ UNCHANGED <<fallback, faults>>
     \/ /\ Fault
        /\ Goto(s, "wait")
        /\ fallback' = [fallback EXCEPT ![s] = "Internal"]
  /\ UNCHANGED <<coVars, op, last>>

\* The request fails in transit, before or after the service has accepted it: the handler
\* waits for the state to show which.  A request that the service has accepted by then is in
\* effect by then: none takes effect after its sender has gone on.
RequestLost(s) ==
  /\ pc[s] = "request"
  /\ Accept(s) \/ UNCHANGED <<cloudVars, job>>
  /\ Fault
  /\ Goto(s, "wait")
  /\ fallback' = [fallback EXCEPT ![s] = "Unavailable"]
  /\ UNCHANGED <<coVars, op, last>>

\* The service refuses a request it cannot take, or one it could have taken.  A 400 is checked
\* against the volume record, a 409 is the answer as it comes.
RequestRefused(s) ==
  /\ pc[s] = "request"
  /\ \/ ~Acceptable(s) /\ UNCHANGED faults
     \/ Acceptable(s) /\ Fault
  /\ \/ Goto(s, "probe") /\ UNCHANGED <<coVars, last>>
     \/ Answer(s, ConflictCode(s))
  /\ UNCHANGED <<cloudVars, op, fallback, job>>

\* The refusal is checked against the volume record: it stands, or another server has the
\* volume, or the requested state is on its way and is waited for in a window of its own.
Probe(s) ==
  /\ pc[s] = "probe"
  /\ \E recorded \in RecordedServers :
       LET reading == IF op[s] = "attach" THEN attachInFlight(s, recorded)
                                          ELSE detachInFlight(s, recorded) IN
       \/ /\ reading = "denied"
          /\ Answer(s, "InvalidArgument")
          /\ UNCHANGED fallback
       \/ /\ reading = "elsewhere"
          /\ Answer(s, "FailedPrecondition")
          /\ UNCHANGED fallback
       \/ /\ reading = "inFlight"
          /\ Goto(s, "wait")
          /\ fallback' = [fallback EXCEPT ![s] = "InvalidArgument"]
          /\ UNCHANGED <<coVars, last>>
  /\ UNCHANGED <<cloudVars, op, job, faults>>

\* Mutant: a finished job is taken for the finished state.
JobPolledUnwatched(s) ==
  /\ pc[s] = "job"
  /\ \/ job[s] = "SUCCESS" /\ Answer(s, "OK")
     \/ job[s] = "FAIL" /\ Answer(s, "Internal")
  /\ UNCHANGED <<cloudVars, op, fallback, job, faults>>

\* waitForAttachmentJob reads the end of the job; transient failures poll on.
JobPolled(s) ==
  /\ pc[s] = "job"
  /\ \/ /\ job[s] = "SUCCESS"
        /\ Goto(s, "wait")
        /\ UNCHANGED <<coVars, last>>
     \/ /\ job[s] = "FAIL"
        /\ Answer(s, "Internal")
  /\ UNCHANGED <<cloudVars, op, fallback, job, faults>>

\* waitForAttachmentState sees the state it waits for.
WaitEnds(s) ==
  /\ pc[s] = "wait"
  /\ Settled(s)
  /\ Answer(s, Success(s))
  /\ UNCHANGED <<cloudVars, op, fallback, job, faults>>

\* Nothing is moving any more and the state will not come: the reconcile window
\* (refusedAttachReconcileWindow, refusedDetachReconcileWindow) or the operation deadline
\* ends the wait.
WaitExpires(s) ==
  /\ pc[s] = "wait"
  /\ ~Settled(s)
  /\ \/ phase = "available"
     \/ phase = "in-use" /\ device # "none"
  /\ Answer(s, IF fallback[s] = "InvalidArgument" THEN "InvalidArgument" ELSE "DeadlineExceeded")
  /\ UNCHANGED <<cloudVars, op, fallback, job, faults>>

\* The window closes although the state is still on its way.
WindowCloses(s) ==
  /\ pc[s] = "wait"
  /\ fallback[s] = "InvalidArgument"
  /\ Fault
  /\ Answer(s, "InvalidArgument")
  /\ UNCHANGED <<cloudVars, op, fallback, job>>

\* A cloud call fails with an error that is not transient, or, outside the poll loops, with
\* any error.  A failed probe leaves the refusal as the answer.
CallFails(s, e) ==
  /\ \/ pc[s] \in {"look", "probe"}
     \/ pc[s] \in {"request", "job", "wait"} /\ e \in Terminal
  /\ Fault
  /\ Answer(s, IF pc[s] = "probe" THEN "InvalidArgument"
               ELSE IF pc[s] = "wait" THEN WaitFailure(s, CodeOf(s, e)) ELSE CodeOf(s, e))
  /\ UNCHANGED <<cloudVars, op, fallback, job>>

\* The caller's context ends, at any point, or the plugin is killed.
ContextEnds(s) ==
  /\ pc[s] # "idle"
  /\ Fault
  /\ Answer(s, "DeadlineExceeded")
  /\ UNCHANGED <<cloudVars, op, fallback, job>>

(***************************************************************************)
(* The cloud.                                                              *)
(***************************************************************************)
\* An accepted attach settles, with or without its device name yet, and its job ends.
AttachSettles ==
  /\ phase = "attaching"
  /\ phase' = "in-use"
  /\ device' \in DeviceNames \cup {"none"}
  /\ job' = [job EXCEPT ![holder] = "SUCCESS"]
  /\ UNCHANGED <<holder, coVars, op, pc, fallback, last, faults>>

DeviceNamed ==
  /\ phase = "in-use" /\ device = "none"
  /\ device' \in DeviceNames
  /\ UNCHANGED <<phase, holder, coVars, op, pc, fallback, job, last, faults>>

DetachSettles ==
  /\ phase = "detaching"
  /\ phase' = "available" /\ holder' = NoServer /\ device' = "none"
  /\ job' = [job EXCEPT ![holder] = "SUCCESS"]
  /\ UNCHANGED <<coVars, op, pc, fallback, last, faults>>

\* A job fails and the volume is back where it was.
JobFails ==
  /\ Fault
  /\ \/ phase = "attaching" /\ phase' = "available" /\ holder' = NoServer
     \/ phase = "detaching" /\ phase' = "in-use" /\ UNCHANGED holder
  /\ job' = [job EXCEPT ![holder] = "FAIL"]
  /\ UNCHANGED <<device, coVars, op, pc, fallback, last>>

HandlerStep(s) ==
  \/ Look(s) \/ RequestAccepted(s) \/ RequestRefused(s) \/ Probe(s)
  \/ JobPolled(s) \/ WaitEnds(s) \/ WaitExpires(s)

HandlerFailure(s) ==
  \/ RequestLost(s) \/ WindowCloses(s) \/ ContextEnds(s)
  \/ \E e \in Terminal \cup {"Unavailable"} : CallFails(s, e)

CloudSettles == AttachSettles \/ DeviceNamed \/ DetachSettles

Next ==
  \/ \E s \in Servers : \/ WantAttach(s) \/ WantDetach(s) \/ Start(s)
                        \/ HandlerStep(s) \/ HandlerFailure(s)
  \/ CloudSettles
  \/ JobFails

\* A handler always goes on, the CO repeats a call until it is answered OK, and the cloud
\* finishes what it has accepted.
Fairness ==
  /\ \A s \in Servers : WF_vars(HandlerStep(s)) /\ WF_vars(Start(s))
  /\ WF_vars(CloudSettles)

Spec == Init /\ [][Next]_vars
FairSpec == Spec /\ Fairness

-----------------------------------------------------------------------------
(* Type invariant.                                                           *)
TypeOK ==
  /\ phase \in {"available", "attaching", "in-use", "detaching"}
  /\ holder \in Servers \cup {NoServer}
  /\ device \in DeviceNames \cup {"none"}
  /\ want \in [Servers -> {"none", "attach", "detach"}]
  /\ published \in [Servers -> BOOLEAN]
  /\ op \in [Servers -> {"none", "attach", "detach"}]
  /\ pc \in [Servers -> {"idle", "look", "request", "probe", "job", "wait"}]
  /\ fallback \in [Servers -> {"own", "Unavailable", "Internal", "InvalidArgument"}]
  /\ job \in [Servers -> {"none", "running", "SUCCESS", "FAIL"}]
  /\ last \in [Servers -> Codes \cup {"none"}]
  /\ faults \in 0 .. MaxFaults

\* A volume that ControllerPublishVolume reported attached is attached to that server, with a
\* device path, and stays so until the CO asks to detach it.  AttachVolume "returns the settled
\* attachment".
PublishedIsAttached ==
  \A s \in Servers : published[s] => holder = s /\ phase = "in-use" /\ device = "dev"

\* A volume that ControllerUnpublishVolume reported detached from a server is not attached to
\* it, nor about to be.
UnpublishedIsFree == \A s \in Servers : want[s] = "none" => holder # s

\* Whatever the CO does: an attach is answered OK only while the compute listing shows the
\* pair with a device path, and a detach only while it does not show the pair.
AnswersMatchListing ==
  [][\A s \in Servers : pc[s] # "idle" /\ pc'[s] = "idle" /\ last'[s] = "OK" =>
        IF op[s] = "attach" THEN Listed(s) /\ device = "dev" ELSE ~Listed(s)]_vars

\* A refusal with 400 is passed on only when it is real: the probe turns it into "attached to
\* another server" only while another server holds the volume, and it is the answer, after the
\* probe or after the window, only while no attach for this server is accepted, unless the probe
\* itself fails or the window closes early.  A 409 is answered FailedPrecondition without a probe
\* and says nothing of who holds the volume.
RefusalIsReal ==
  [][\A s \in Servers : op[s] = "attach" /\ pc[s] # "idle" /\ pc'[s] = "idle" =>
        /\ pc[s] = "probe" /\ last'[s] = "FailedPrecondition" => holder \notin {s, NoServer}
        /\ last'[s] = "InvalidArgument" /\ faults' = faults => holder # s]_vars

\* A volume wanted on one server only is published there in the end, whatever failed before,
\* unless the cloud names its device outside /dev.
AttachConverges ==
  \A s \in Servers :
    want[s] = "attach" ~> \/ published[s] \/ want[s] # "attach" \/ device = "odd"
                          \/ \E t \in Servers \ {s} : want[t] # "none"

\* A volume to be detached is reported detached in the end.
DetachConverges == \A s \in Servers : want[s] = "detach" ~> want[s] # "detach"
=============================================================================
