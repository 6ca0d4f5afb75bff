---------------------------- MODULE Provisioning ----------------------------
(***************************************************************************)
(* CreateVolume and DeleteVolume of the CSI controller service             *)
(* (internal/driver/controller.go), down to the EVS calls they make        *)
(* (internal/evs/volume.go) and the block storage service those calls      *)
(* reach.  The driver keeps no state and takes no lock: everything a       *)
(* handler knows it has read from the cloud, and the cloud moves between   *)
(* two reads.  A call is one RPC of the container orchestrator (CO); it is *)
(* used once, and a retry is another call.                                 *)
(***************************************************************************)
EXTENDS Sizing

CONSTANTS
  Calls,         \* the RPCs the CO may issue
  Ids,           \* the volume IDs the cloud may hand out, ordered
  Names,         \* volume names
  Places,        \* an availability zone together with a volume type
  Requests,      \* the CreateVolume requests the CO may send
  MaxAttempts,   \* volumeAbsenceMaxAttempts
  Transient,     \* error kinds that keep a poll loop going
  Terminal,      \* error kinds that end a poll loop at once
  NoId, NoName, NoPlace,
  SerialCO,      \* the CO has at most one call in flight per volume name
  LateEffects    \* a request the driver gave up on may still reach the cloud

Request == [name: Names, place: Places \cup {NoPlace}, required: Int64, limit: Int64]

ASSUME IdsAssumption == Ids \subseteq Nat /\ NoId \notin Ids
ASSUME NamesAssumption == NoName \notin Names
ASSUME PlacesAssumption == NoPlace \notin Places
ASSUME RequestsAssumption == Requests \subseteq Request
ASSUME AttemptsAssumption == MaxAttempts \in Nat \ {0}
ASSUME ModesAssumption == SerialCO \in BOOLEAN /\ LateEffects \in BOOLEAN
ASSUME FailuresAssumption ==
  /\ Transient \subseteq {"Unavailable", "OperationFailed"}
  /\ Terminal \subseteq {"InvalidArgument", "Unauthenticated", "PermissionDenied"}

VARIABLES
  status,        \* the cloud's status of each volume ID
  vol,           \* the cloud's record of each volume ID
  job,           \* the creation job of each volume ID
  kind,          \* the operation each call performs
  req,           \* the CreateVolume request of each call
  target,        \* the volume each call is about, once there is one
  pc,            \* where each handler stands
  seen,          \* the same-name volumes a handler has listed
  wire,          \* the effect request (POST or DELETE) of each call
  polls,         \* absence polls done
  observed,      \* observedPresent
  answer         \* what each call answered

vars == <<status, vol, job, kind, req, target, pc, seen, wire, polls, observed, answer>>
cloudVars == <<status, vol, job>>
locals == <<seen, polls, observed>>

(***************************************************************************)
(* The cloud's volumes.  "free" is an ID not handed out yet, "gone" one    *)
(* whose volume no longer exists; neither is reported by GET or LIST.      *)
(***************************************************************************)
Live == {"creating", "available", "in-use", "error", "deleting", "error_deleting"}
Status == Live \cup {"free", "gone"}
\* The statuses in which EVS accepts a DELETE.
Deletable == {"available", "error", "error_deleting"}
Volume == [name: Names \cup {NoName}, place: Places \cup {NoPlace}, size: Nat, owned: BOOLEAN]
NoVolume == [name |-> NoName, place |-> NoPlace, size |-> 0, owned |-> FALSE]
NoRequest == [name |-> NoName, place |-> NoPlace, required |-> 0, limit |-> 0]
Listed == {v \in Ids : status[v] \in Live}

(***************************************************************************)
(* Errors: the kinds a cloud call may fail with, and the answers.          *)
(***************************************************************************)
Failures == Transient \cup Terminal
Codes == {"OK", "NotFound", "InvalidArgument", "OutOfRange", "AlreadyExists",
          "FailedPrecondition", "Unauthenticated", "PermissionDenied",
          "Unavailable", "Internal", "DeadlineExceeded"}

\* The gRPC code for an error kind; the code of a conflict depends on the operation.
toGRPCError(conflictCode, kindOfError) ==
  CASE kindOfError = "Conflict" -> conflictCode
    [] kindOfError = "OperationFailed" -> "Internal"
    [] OTHER -> kindOfError

(***************************************************************************)
(* What a CreateVolume request asks for.                                   *)
(***************************************************************************)
\* The size in GiB, for a capacity range in bytes.
SizeOf(r) == resolveSizeGiB(r.required)

\* The answer of the checks that run before any cloud call, or "OK".
Validation(r) ==
  IF r.place = NoPlace THEN "InvalidArgument" ELSE sizeError(r.required, r.limit)

\* The size is within the upper bound that was handed to DiscoverVolume (MaxSizeGiB).
WithinLimit(size, r) == limitSizeGiB(r.limit) > 0 => size <= limitSizeGiB(r.limit)

\* Mutant: the upper bound of the capacity range is forgotten.
isAdoptableAnySize(s, r) ==
  /\ s.vol.owned
  /\ s.status \in {"available", "in-use"}
  /\ s.vol.place = r.place
  /\ s.vol.size >= SizeOf(r)

\* Mutant: a volume still being created is adopted.
isAdoptableAnyStatus(s, r) ==
  /\ s.vol.owned
  /\ s.vol.place = r.place
  /\ s.vol.size >= SizeOf(r)
  /\ WithinLimit(s.vol.size, r)

\* A volume, as the listing reported it, that the request may adopt.
isAdoptable(s, r) ==
  /\ s.vol.owned
  /\ s.status \in {"available", "in-use"}
  /\ s.vol.place = r.place
  /\ s.vol.size >= SizeOf(r)
  /\ WithinLimit(s.vol.size, r)

Running(c) == pc[c] \notin {"idle", "done"}
NameOf(c) == IF kind[c] = "create" THEN req[c].name ELSE vol[target[c]].name
Answered(c, op, code) == kind[c] = op /\ answer[c] = code

\* Under SerialCO a call starts only when no other call on that name is in flight.
MayStart(n) == SerialCO => \A d \in Calls : Running(d) => NameOf(d) # n

(***************************************************************************)
(* Steps shared by the handlers.                                           *)
(***************************************************************************)
Goto(c, place) == pc' = [pc EXCEPT ![c] = place]

\* The handler returns, and its local variables are gone.
Answer(c, code) ==
  /\ pc' = [pc EXCEPT ![c] = "done"]
  /\ answer' = [answer EXCEPT ![c] = code]
  /\ seen' = [seen EXCEPT ![c] = {}]
  /\ polls' = [polls EXCEPT ![c] = 0]
  /\ observed' = [observed EXCEPT ![c] = FALSE]

\* A request still on its way is lost with its handler, or reaches the cloud later.
Forsake(c) ==
  \/ /\ wire[c] = "sent"
     /\ wire' = [wire EXCEPT ![c] = "lost"]
  \/ /\ wire[c] = "sent" => LateEffects
     /\ UNCHANGED wire

Init ==
  /\ status = [v \in Ids |-> "free"]
  /\ vol = [v \in Ids |-> NoVolume]
  /\ job = [v \in Ids |-> "none"]
  /\ kind = [c \in Calls |-> "none"]
  /\ req = [c \in Calls |-> NoRequest]
  /\ target = [c \in Calls |-> NoId]
  /\ pc = [c \in Calls |-> "idle"]
  /\ seen = [c \in Calls |-> {}]
  /\ wire = [c \in Calls |-> "none"]
  /\ polls = [c \in Calls |-> 0]
  /\ observed = [c \in Calls |-> FALSE]
  /\ answer = [c \in Calls |-> "none"]

(***************************************************************************)
(* CreateVolume.                                                           *)
(***************************************************************************)
\* The handler is entered; a request that fails validation is answered at once.
StartCreate(c, r) ==
  /\ pc[c] = "idle"
  /\ MayStart(r.name)
  /\ kind' = [kind EXCEPT ![c] = "create"]
  /\ req' = [req EXCEPT ![c] = r]
  /\ IF Validation(r) = "OK"
     THEN Goto(c, "list") /\ UNCHANGED <<locals, answer>>
     ELSE Answer(c, Validation(r))
  /\ UNCHANGED <<cloudVars, target, wire>>

\* Mutant: only volumes that are ready are listed.
MatchesReady(c) == {v \in Listed : vol[v].name = req[c].name /\ status[v] = "available"}

\* The listed volumes with exactly the requested name.
Matches(c) == {v \in Listed : vol[v].name = req[c].name}

\* DiscoverVolume lists the project and keeps the exact name matches.
List(c) ==
  /\ pc[c] = "list"
  /\ seen' = [seen EXCEPT ![c] =
       {[id |-> v, status |-> status[v], vol |-> vol[v]] : v \in Matches(c)}]
  /\ Goto(c, "decide")
  /\ UNCHANGED <<cloudVars, kind, req, target, wire, polls, observed, answer>>

Adoptable(c) == {s \in seen[c] : isAdoptable(s, req[c])}

\* The listing has ended: DiscoverVolume picks the adoptable volume with the least ID.
Adopt(c) ==
  /\ pc[c] = "decide"
  /\ \E s \in Adoptable(c) :
       /\ \A t \in Adoptable(c) : s.id <= t.id
       /\ target' = [target EXCEPT ![c] = s.id]
  /\ Answer(c, "OK")
  /\ UNCHANGED <<cloudVars, kind, req, wire>>

\* ErrConflict: the name is taken by volumes that cannot be adopted.
Conflict(c) ==
  /\ pc[c] = "decide"
  /\ seen[c] # {} /\ Adoptable(c) = {}
  /\ Answer(c, toGRPCError("AlreadyExists", "Conflict"))
  /\ UNCHANGED <<cloudVars, kind, req, target, wire>>

\* Mutant: a name taken by an incompatible volume is treated as a free one.
SendCreateOnConflict(c) ==
  /\ pc[c] = "decide"
  /\ Adoptable(c) = {}
  /\ wire' = [wire EXCEPT ![c] = "sent"]
  /\ Goto(c, "posted")
  /\ UNCHANGED <<cloudVars, kind, req, target, locals, answer>>

\* ErrNotFound: the POST that creates the volume is sent.
SendCreate(c) ==
  /\ pc[c] = "decide"
  /\ seen[c] = {}
  /\ wire' = [wire EXCEPT ![c] = "sent"]
  /\ Goto(c, "posted")
  /\ UNCHANGED <<cloudVars, kind, req, target, locals, answer>>

\* The POST was accepted and its reply carries the job to wait for.
CreateReply(c) ==
  /\ pc[c] = "posted"
  /\ wire[c] = "applied"
  /\ Goto(c, "job")
  /\ UNCHANGED <<cloudVars, kind, req, target, wire, locals, answer>>

\* waitForJobSuccess reads SUCCESS and CreateVolume goes on to fetch the volume.
JobSucceeded(c) ==
  /\ pc[c] = "job"
  /\ job[target[c]] = "SUCCESS"
  /\ Goto(c, "fetch")
  /\ UNCHANGED <<cloudVars, kind, req, target, wire, locals, answer>>

\* waitForJobSuccess reads FAIL, or SUCCESS without a volume ID, or a job GET fails for good.
\* Transient failures poll on.
JobStopped(c) ==
  /\ pc[c] = "job"
  /\ \E e \in Terminal \cup {"NotFound", "OperationFailed"} :
       /\ e = "OperationFailed" => job[target[c]] \in {"SUCCESS", "FAIL"}
       /\ Answer(c, toGRPCError("AlreadyExists", e))
  /\ UNCHANGED <<cloudVars, kind, req, target, wire>>

\* GetVolume of the created volume, whose record is the answer.
FetchCreated(c) ==
  /\ pc[c] = "fetch"
  /\ Answer(c, IF target[c] \in Listed THEN "OK" ELSE "NotFound")
  /\ UNCHANGED <<cloudVars, kind, req, target, wire>>

(***************************************************************************)
(* DeleteVolume.                                                           *)
(***************************************************************************)
\* The CO names a volume that exists or has existed.
StartDelete(c, v) ==
  /\ pc[c] = "idle"
  /\ status[v] # "free"
  /\ MayStart(vol[v].name)
  /\ kind' = [kind EXCEPT ![c] = "delete"]
  /\ target' = [target EXCEPT ![c] = v]
  /\ Goto(c, "check")
  /\ UNCHANGED <<cloudVars, req, wire, locals, answer>>

\* Mutant: any tagged or untagged volume passes.
CarriesMarkerAlways(v) == TRUE

\* The ownership tag is the driver's.
CarriesMarker(v) == vol[v].owned

\* The first GET: absence is success, a missing marker or a failed deletion is an error,
\* a deletion in progress is only observed, and anything else is deleted.
CheckDelete(c) ==
  LET v == target[c] IN
  /\ pc[c] = "check"
  /\ \/ /\ v \notin Listed
        /\ Answer(c, "OK")
     \/ /\ v \in Listed
        /\ ~CarriesMarker(v)
        /\ Answer(c, "FailedPrecondition")
     \/ /\ v \in Listed
        /\ CarriesMarker(v)
        /\ status[v] = "error_deleting"
        /\ Answer(c, toGRPCError("FailedPrecondition", "OperationFailed"))
     \/ /\ v \in Listed
        /\ CarriesMarker(v)
        /\ status[v] # "error_deleting"
        /\ Goto(c, IF status[v] = "deleting" THEN "absence" ELSE "delete")
        /\ UNCHANGED <<locals, answer>>
  /\ UNCHANGED <<cloudVars, kind, req, target, wire>>

\* The DELETE is sent.
SendDelete(c) ==
  /\ pc[c] = "delete"
  /\ wire' = [wire EXCEPT ![c] = "sent"]
  /\ Goto(c, "deleted")
  /\ UNCHANGED <<cloudVars, kind, req, target, locals, answer>>

\* Mutant: an accepted DELETE is taken for a deleted volume.
DeleteReplyUnwatched(c) ==
  /\ pc[c] = "deleted"
  /\ wire[c] = "applied"
  /\ Answer(c, "OK")
  /\ UNCHANGED <<cloudVars, kind, req, target, wire>>

\* The DELETE was accepted: waitForVolumeAbsence starts.
DeleteReply(c) ==
  /\ pc[c] = "deleted"
  /\ wire[c] = "applied"
  /\ Goto(c, "absence")
  /\ UNCHANGED <<cloudVars, kind, req, target, wire, locals, answer>>

\* The DELETE is refused: 404 is success to the controller, 400 and 409 are not.
DeleteRefused(c) ==
  /\ pc[c] = "deleted"
  /\ wire[c] = "sent"
  /\ status[target[c]] \notin Deletable
  /\ wire' = [wire EXCEPT ![c] = "lost"]
  /\ IF target[c] \notin Listed
     THEN Answer(c, "OK")
     ELSE \E e \in {"InvalidArgument", "Conflict"} :
            Answer(c, toGRPCError("FailedPrecondition", e))
  /\ UNCHANGED <<cloudVars, kind, req, target>>

\* A poll finds the volume gone.
PollAbsent(c) ==
  /\ pc[c] = "absence"
  /\ target[c] \notin Listed
  /\ Answer(c, "OK")
  /\ UNCHANGED <<cloudVars, kind, req, target, wire>>

\* Mutant: one poll too many.
LastPollLate(c) == polls[c] >= MaxAttempts

\* The attempt budget ends with this poll.
LastPoll(c) == polls[c] + 1 >= MaxAttempts

\* A poll sees the volume (e = "none") or fails with a transient error; the last poll ends the
\* call with the reason the loop has kept.
PollAgain(c, e) ==
  LET present == observed[c] \/ e = "none" IN
  /\ pc[c] = "absence"
  /\ e = "none" => target[c] \in Listed
  /\ IF LastPoll(c)
     THEN Answer(c, toGRPCError("FailedPrecondition", IF present THEN "OperationFailed" ELSE e))
     ELSE /\ polls' = [polls EXCEPT ![c] = @ + 1]
          /\ observed' = [observed EXCEPT ![c] = present]
          /\ UNCHANGED <<pc, answer, seen>>
  /\ UNCHANGED <<cloudVars, kind, req, target, wire>>

(***************************************************************************)
(* Failures common to both handlers.                                       *)
(***************************************************************************)
\* A cloud call fails.  Of an effect request the cloud may or may not have taken, only the
\* error is known; no request is ever repeated.
CallFails(c, e) ==
  /\ \/ pc[c] \in {"list", "decide", "fetch", "check", "posted", "deleted"}
     \/ pc[c] = "absence" /\ e \in Terminal
  /\ Forsake(c)
  /\ Answer(c, toGRPCError(IF kind[c] = "create" THEN "AlreadyExists" ELSE "FailedPrecondition", e))
  /\ UNCHANGED <<cloudVars, kind, req, target>>

\* Mutant: the wait for the creation job ignores its context.
ContextEndsExceptJob(c) ==
  /\ Running(c) /\ pc[c] # "job"
  /\ Forsake(c)
  /\ Answer(c, "DeadlineExceeded")
  /\ UNCHANGED <<cloudVars, kind, req, target>>

\* The caller's context or the operation deadline ends: no further request is started.
\* A plugin that is killed leaves the same behind.
ContextEnds(c) ==
  /\ Running(c)
  /\ Forsake(c)
  /\ Answer(c, "DeadlineExceeded")
  /\ UNCHANGED <<cloudVars, kind, req, target>>

(***************************************************************************)
(* The cloud.                                                              *)
(***************************************************************************)
\* A POST reaches the service, which hands out a volume ID and starts a job.
CloudCreates(c, v) ==
  /\ wire[c] = "sent" /\ kind[c] = "create"
  /\ status[v] = "free"
  /\ status' = [status EXCEPT ![v] = "creating"]
  /\ vol' = [vol EXCEPT ![v] = [name |-> req[c].name, place |-> req[c].place,
                                size |-> SizeOf(req[c]), owned |-> TRUE]]
  /\ job' = [job EXCEPT ![v] = "running"]
  /\ wire' = [wire EXCEPT ![c] = "applied"]
  /\ target' = [target EXCEPT ![c] = v]
  /\ UNCHANGED <<kind, req, pc, locals, answer>>

\* A DELETE reaches the service.
CloudDeletes(c) ==
  /\ wire[c] = "sent" /\ kind[c] = "delete"
  /\ status[target[c]] \in Deletable
  /\ status' = [status EXCEPT ![target[c]] = "deleting"]
  /\ wire' = [wire EXCEPT ![c] = "applied"]
  /\ UNCHANGED <<vol, job, kind, req, target, pc, locals, answer>>

\* A creation job ends; a failed one may leave an errored volume behind.
JobEnds(v) ==
  /\ status[v] = "creating"
  /\ \/ /\ job' = [job EXCEPT ![v] = "SUCCESS"]
        /\ status' = [status EXCEPT ![v] = "available"]
     \/ /\ job' = [job EXCEPT ![v] = "FAIL"]
        /\ \E s \in {"error", "gone"} : status' = [status EXCEPT ![v] = s]
  /\ UNCHANGED <<vol, kind, req, target, pc, wire, locals, answer>>

\* A deletion ends, or fails and leaves the volume.
DeletionEnds(v) ==
  /\ status[v] = "deleting"
  /\ \E s \in {"gone", "error_deleting"} : status' = [status EXCEPT ![v] = s]
  /\ UNCHANGED <<vol, job, kind, req, target, pc, wire, locals, answer>>

\* The volume is attached to or detached from a server (module Attachment).
Attaches(v) ==
  /\ status[v] \in {"available", "in-use"}
  /\ status' = [status EXCEPT ![v] = IF @ = "available" THEN "in-use" ELSE "available"]
  /\ UNCHANGED <<vol, job, kind, req, target, pc, wire, locals, answer>>

\* Somebody else creates a volume in the project; it has no marker and may have any request's
\* name.
OthersCreate(v, r) ==
  /\ status[v] = "free"
  /\ r.place # NoPlace
  /\ status' = [status EXCEPT ![v] = "available"]
  /\ vol' = [vol EXCEPT ![v] = [name |-> r.name, place |-> r.place,
                                size |-> SizeOf(r), owned |-> FALSE]]
  /\ UNCHANGED <<job, kind, req, target, pc, wire, locals, answer>>

HandlerStep(c) ==
  \/ List(c) \/ Adopt(c) \/ Conflict(c) \/ SendCreate(c)
  \/ CreateReply(c) \/ JobSucceeded(c) \/ JobStopped(c) \/ FetchCreated(c)
  \/ CheckDelete(c) \/ SendDelete(c) \/ DeleteReply(c) \/ DeleteRefused(c)
  \/ PollAbsent(c)
  \/ \E e \in Transient \cup {"none"} : PollAgain(c, e)
  \/ \E e \in Failures : CallFails(c, e)
  \/ ContextEnds(c)

CloudStep ==
  \/ \E c \in Calls : CloudDeletes(c) \/ \E v \in Ids : CloudCreates(c, v)
  \/ \E v \in Ids : JobEnds(v) \/ DeletionEnds(v) \/ Attaches(v)
  \/ \E v \in Ids, r \in Requests : OthersCreate(v, r)

Next ==
  \/ \E c \in Calls : \/ \E r \in Requests : StartCreate(c, r)
                      \/ \E v \in Ids : StartDelete(c, v)
                      \/ HandlerStep(c)
  \/ CloudStep

\* What a handler does when no cloud call fails, or when its context or operation deadline ends.
Proceeds(c) ==
  \/ List(c) \/ Adopt(c) \/ Conflict(c) \/ SendCreate(c)
  \/ CreateReply(c) \/ JobSucceeded(c) \/ FetchCreated(c)
  \/ CheckDelete(c) \/ SendDelete(c) \/ DeleteReply(c) \/ DeleteRefused(c)
  \/ PollAbsent(c) \/ PollAgain(c, "none")
  \/ ContextEnds(c)

\* A handler goes on, at the latest when maxOperationTimeout ends its wait.  Nothing makes the
\* cloud reply, finish a job or fail.
Fairness == \A c \in Calls : WF_vars(Proceeds(c))

Spec == Init /\ [][Next]_vars
FairSpec == Spec /\ Fairness

-----------------------------------------------------------------------------
(* Type invariant: every part of the cloud's and the handlers' state stays   *)
(* in its set.                                                               *)
Seen == [id: Ids, status: Live, vol: Volume]
TypeOK ==
  /\ status \in [Ids -> Status]
  /\ vol \in [Ids -> Volume]
  /\ job \in [Ids -> {"none", "running", "SUCCESS", "FAIL"}]
  /\ kind \in [Calls -> {"none", "create", "delete"}]
  /\ req \in [Calls -> Requests \cup {NoRequest}]
  /\ target \in [Calls -> Ids \cup {NoId}]
  /\ pc \in [Calls -> {"idle", "list", "decide", "posted", "job", "fetch",
                       "check", "delete", "deleted", "absence", "done"}]
  /\ seen \in [Calls -> SUBSET Seen]
  /\ wire \in [Calls -> {"none", "sent", "applied", "lost"}]
  /\ polls \in [Calls -> 0 .. MaxAttempts - 1]
  /\ observed \in [Calls -> BOOLEAN]
  /\ answer \in [Calls -> Codes \cup {"none"}]

\* A volume without the driver's marker is never deleted, whatever calls are in flight and
\* however late their requests arrive (DeleteVolume's ErrNotOwned guard, and the DELETE it
\* guards two round trips later).
OthersUntouched ==
  \A v \in Ids : status[v] \in {"deleting", "error_deleting"} => vol[v].owned

\* CreateVolume answers OK only with a finished volume of the driver's own that has the
\* request's name, zone and type and a size that lies, in bytes, within its capacity range,
\* adopted or created.
CreatedFits ==
  \A c \in Calls : Answered(c, "create", "OK") =>
    LET v == target[c] IN
    /\ status[v] \notin {"free", "creating"}
    /\ job[v] = "SUCCESS"
    /\ vol[v].owned
    /\ vol[v].name = req[c].name
    /\ vol[v].place = req[c].place
    /\ vol[v].size * BytesInGiB >= req[c].required
    /\ req[c].limit > 0 => vol[v].size * BytesInGiB <= req[c].limit

\* DeleteVolume answers OK only when the volume no longer exists, and it never comes back.
DeletedIsGone ==
  \A c \in Calls : Answered(c, "delete", "OK") => status[target[c]] = "gone"

\* The driver never has two volumes of one name in the project, although replies get lost,
\* calls are abandoned at any step and retried, and volumes are deleted meanwhile.
OneVolumePerName ==
  \A v, w \in Listed : vol[v].owned /\ vol[w].owned /\ vol[v].name = vol[w].name => v = w

\* "CreateVolume provisions a new volume or returns an existing compatible volume
\* (idempotent)": two calls for one name that both answer OK name the same volume, unless a
\* deletion has come between.
CreateIdempotent ==
  \A c, d \in Calls :
    Answered(c, "create", "OK") /\ Answered(d, "create", "OK") /\ req[c].name = req[d].name =>
      \/ target[c] = target[d]
      \/ \E v \in {target[c], target[d]} : status[v] \in {"deleting", "error_deleting", "gone"}

\* At the moment CreateVolume answers OK the volume can be used: the listing it adopted from,
\* or the job it waited for, is not out of date by then.
AnswersUsableVolume ==
  [][\A c \in Calls : kind[c] = "create" /\ answer[c] # "OK" /\ answer'[c] = "OK"
        => status[target'[c]] \in {"available", "in-use"}]_vars

\* The store of NameStore as the cloud and the answers show it: the driver's own volumes, by
\* name, in whatever state they are.
OwnNamed(n) == {v \in Listed : vol[v].owned /\ vol[v].name = n}
Store == INSTANCE NameStore WITH
  store <- [n \in Names |-> IF OwnNamed(n) = {} THEN NoId ELSE CHOOSE v \in OwnNamed(n) : TRUE],
  used <- {v \in Ids : status[v] # "free" /\ vol[v].owned},
  result <- [c \in Calls |->
    IF answer[c] # "OK"
    THEN [op |-> IF answer[c] = "none" THEN "none" ELSE "failed", id |-> NoId]
    ELSE [op |-> IF kind[c] = "create" THEN "created" ELSE "deleted", id |-> target[c]]]

\* To a CO that serialises its calls the two handlers are the store of NameStore: volumes come
\* and go one at a time, and every OK is true of the store when it is answered, whatever has
\* been lost, abandoned and retried before.
ImplementsNameStore == Store!StoreSpec

\* Every call is answered: no handler waits for ever on the cloud.
EveryCallAnswered == \A c \in Calls : Running(c) ~> pc[c] = "done"

=============================================================================
