------------------------- MODULE ProvisioningProofs -------------------------
(***************************************************************************)
(* What holds of Provisioning for every set of calls, IDs and requests.    *)
(***************************************************************************)
EXTENDS Provisioning, SizingProofs, TLAPS

CreatePcs == {"list", "decide", "posted", "job", "fetch"}
DeletePcs == {"check", "delete", "deleted", "absence"}

\* The volume is one the request may be answered with.
Fits(v, r) ==
  /\ vol[v].owned
  /\ vol[v].name = r.name
  /\ vol[v].place = r.place
  /\ vol[v].size >= SizeOf(r)
  /\ WithinLimit(vol[v].size, r)

\* A volume's status, its job and its marker agree.
CloudOK(v) ==
  /\ status[v] = "free" => job[v] = "none"
  /\ status[v] = "creating" => vol[v].owned
  /\ job[v] = "SUCCESS" => status[v] \notin {"free", "creating"}
  /\ vol[v].owned /\ status[v] \in {"available", "in-use"} => job[v] = "SUCCESS"
  /\ status[v] \in {"deleting", "error_deleting"} => vol[v].owned

\* Where a handler stands, what it does and what it has sent agree.
ControlOK(c) ==
  /\ kind[c] = "none" <=> pc[c] = "idle"
  /\ answer[c] = "none" <=> pc[c] # "done"
  /\ seen[c] # {} => pc[c] = "decide"
  /\ pc[c] \in CreatePcs => kind[c] = "create"
  /\ pc[c] \in DeletePcs => kind[c] = "delete"
  /\ wire[c] # "none" => pc[c] \in {"posted", "job", "fetch", "deleted", "absence", "done"}
  /\ wire[c] = "sent" => pc[c] \in {"posted", "deleted", "done"} /\ answer[c] # "OK"
  /\ pc[c] \in {"job", "fetch"} => wire[c] = "applied"
  /\ pc[c] \in CreatePcs \/ (wire[c] = "sent" /\ kind[c] = "create")
       => req[c] \in Requests /\ Validation(req[c]) = "OK"

\* A listed volume's record is still the cloud's: only its status may be out of date.
SeenOK(c, s) ==
  /\ s.vol = vol[s.id]
  /\ s.vol.name = req[c].name
  /\ status[s.id] # "free"
  /\ s.vol.owned /\ s.status \in {"available", "in-use"} => job[s.id] = "SUCCESS"

\* What a CreateVolume handler has seen, made and answered is so.
CreateOK(c) ==
  /\ kind[c] = "create" /\ wire[c] = "applied" =>
       target[c] \in Ids /\ status[target[c]] # "free" /\ Fits(target[c], req[c])
  /\ pc[c] = "fetch" => job[target[c]] = "SUCCESS"
  /\ Answered(c, "create", "OK") =>
       /\ req[c] \in Requests /\ Validation(req[c]) = "OK"
       /\ target[c] \in Ids /\ job[target[c]] = "SUCCESS" /\ Fits(target[c], req[c])
  /\ \A s \in seen[c] : SeenOK(c, s)

\* What a DeleteVolume handler is about to do and has answered is so.
DeleteOK(c) ==
  /\ kind[c] = "delete" => target[c] \in Ids /\ status[target[c]] # "free"
  /\ pc[c] \in {"delete", "deleted"} \/ (wire[c] = "sent" /\ kind[c] = "delete")
       => vol[target[c]].owned
  /\ Answered(c, "delete", "OK") => status[target[c]] = "gone"

\* The inductive invariant behind the guarantees that need nothing from the CO.
SafetyInv ==
  /\ TypeOK
  /\ \A v \in Ids : CloudOK(v)
  /\ \A c \in Calls : ControlOK(c) /\ CreateOK(c) /\ DeleteOK(c)

\* Two calls in flight are about different names.
SerialInv == \A c, d \in Calls : c # d /\ Running(c) /\ Running(d) => NameOf(c) # NameOf(d)

\* A handler that is about to create a volume of some name is right that there is none.
NameFree(c) == \A v \in Listed : vol[v].owned => vol[v].name # req[c].name

UniqueInv ==
  /\ SafetyInv
  /\ SerialInv
  /\ OneVolumePerName
  /\ \A c \in Calls : wire[c] = "sent" => Running(c)
  /\ \A c \in Calls : pc[c] = "decide" /\ seen[c] = {} => NameFree(c)
  /\ \A c \in Calls : kind[c] = "create" /\ wire[c] = "sent" => NameFree(c)

-----------------------------------------------------------------------------
(* Lemmas about the operators.                                               *)

\* An error never turns into OK, nor into no answer (toGRPCError).
LEMMA ErrorCodes ==
  ASSUME NEW k \in {"AlreadyExists", "FailedPrecondition"},
         NEW e \in Failures \cup {"Conflict", "OperationFailed", "InvalidArgument", "NotFound"}
  PROVE  toGRPCError(k, e) \in Codes \ {"OK"}
  BY FailuresAssumption DEF toGRPCError, Failures, Codes

\* The checks before the first cloud call answer with a code (CreateVolume's validation).
LEMMA ValidationCodes ==
  ASSUME NEW r PROVE Validation(r) \in Codes
  BY DEF Validation, sizeError, Codes

\* Any required_bytes gives a size, if only the least one (resolveSizeGiB).
LEMMA SizeType ==
  ASSUME NEW r \in Request \cup {NoRequest} PROVE SizeOf(r) \in Nat
  <1>1. r.required \in Int BY SizesAssumption DEF Request, NoRequest, Int64
  <1>2. Rounded(r.required) \in Int BY <1>1, SizesAssumption DEF Rounded, Wrap
  <1>3. Rounded(r.required) \div BytesInGiB \in Int BY <1>2, SizesAssumption
  <1> QED BY <1>3, SizesAssumption DEF SizeOf, resolveSizeGiB

\* A valid request names a place, and its size in GiB is within its range of bytes.
LEMMA ValidRequest ==
  ASSUME NEW r \in Requests, Validation(r) = "OK"
  PROVE  /\ r.name \in Names /\ r.place \in Places
         /\ SizeOf(r) \in Nat /\ SizeOf(r) * BytesInGiB >= r.required
         /\ WithinLimit(SizeOf(r), r)
  <1>1. r.place \in Places /\ sizeError(r.required, r.limit) = "OK" /\ r.name \in Names
    BY RequestsAssumption DEF Validation, Request
  <1>2. r.required \in Int64 /\ r.limit \in Int64 BY RequestsAssumption DEF Request
  <1>3. SizeOf(r) \in Nat /\ Serves(SizeOf(r), r.required, r.limit)
    BY <1>1, <1>2, AcceptedSizeIsLeast DEF SizeOf
  <1>4. SizeOf(r) * BytesInGiB >= r.required
    BY <1>2, <1>3, SizesAssumption DEF Serves, Int64
  <1>5. CASE r.limit > 0
    BY <1>1, <1>2, <1>3, <1>5, LimitMeansBytes DEF WithinLimit, Serves
  <1>6. CASE ~(r.limit > 0)
    <2>1. r.limit \in Int BY <1>2, SizesAssumption DEF Int64
    <2>2. limitSizeGiB(r.limit) = 0 BY <1>6, <2>1 DEF limitSizeGiB
    <2> QED BY <1>1, <1>3, <1>4, <2>2 DEF WithinLimit
  <1> QED BY <1>1, <1>3, <1>4, <1>5, <1>6

\* A size that DiscoverVolume accepts for a valid request is within its range of bytes.
LEMMA AdoptedSize ==
  ASSUME NEW r \in Requests, Validation(r) = "OK", NEW size \in Nat,
         size >= SizeOf(r), WithinLimit(size, r)
  PROVE  /\ size * BytesInGiB >= r.required
         /\ r.limit > 0 => size * BytesInGiB <= r.limit
  <1>1. SizeOf(r) \in Nat /\ SizeOf(r) * BytesInGiB >= r.required BY ValidRequest
  <1>2. r.required \in Int64 /\ r.limit \in Int64 BY RequestsAssumption DEF Request
  <1>3. size * BytesInGiB >= SizeOf(r) * BytesInGiB /\ size * BytesInGiB \in Nat
    BY <1>1, Product, SizesAssumption
  <1>4. SizeOf(r) * BytesInGiB \in Nat BY <1>1, Product, SizesAssumption
  <1>5. sizeError(r.required, r.limit) = "OK" BY DEF Validation
  <1>6. r.limit > 0 => size * BytesInGiB <= r.limit
    BY <1>2, <1>5, LimitMeansBytes DEF WithinLimit
  <1> QED BY <1>1, <1>2, <1>3, <1>4, <1>6, SizesAssumption DEF Int64

\* Returning from a handler keeps the types.
LEMMA AnswerType ==
  ASSUME TypeOK, NEW c \in Calls, NEW code \in Codes, Answer(c, code)
  PROVE  /\ pc' \in [Calls -> {"idle", "list", "decide", "posted", "job", "fetch",
                                "check", "delete", "deleted", "absence", "done"}]
         /\ seen' \in [Calls -> SUBSET Seen]
         /\ polls' \in [Calls -> 0 .. MaxAttempts - 1]
         /\ observed' \in [Calls -> BOOLEAN]
         /\ answer' \in [Calls -> Codes \cup {"none"}]
  BY AttemptsAssumption DEF TypeOK, Answer

-----------------------------------------------------------------------------
(* Type correctness.                                                         *)

\* Before the first call the state is well typed.
LEMMA TypeInit == Init => TypeOK
  <1> USE AttemptsAssumption, SizesAssumption, FailuresAssumption
  <1> QED BY DEF Init, TypeOK, Status, Live, Volume, NoVolume, Seen

\* No handler step and no step of the cloud leaves the types.
LEMMA TypeStep == TypeOK /\ [Next]_vars => TypeOK'
  <1> SUFFICES ASSUME TypeOK, [Next]_vars PROVE TypeOK' OBVIOUS
  <1> USE DEF TypeOK, cloudVars, locals
  <1>1. ASSUME NEW c \in Calls, NEW r \in Requests, StartCreate(c, r) PROVE TypeOK'
    <2>1. CASE Validation(r) = "OK" BY <1>1, <2>1 DEF StartCreate, Goto
    <2>2. CASE Validation(r) # "OK" BY <1>1, <2>2, ValidationCodes, AnswerType DEF StartCreate
    <2> QED BY <2>1, <2>2
  <1>2. ASSUME NEW c \in Calls, NEW v \in Ids, StartDelete(c, v) PROVE TypeOK'
    BY <1>2 DEF StartDelete, Goto
  <1>3. ASSUME NEW c \in Calls, List(c) PROVE TypeOK'
    <2>1. {[id |-> v, status |-> status[v], vol |-> vol[v]] : v \in Matches(c)} \subseteq Seen
      BY DEF Matches, Listed, Seen
    <2> QED BY <1>3, <2>1 DEF List, Goto
  <1>4. ASSUME NEW c \in Calls, Adopt(c) PROVE TypeOK'
    <2>1. PICK s \in Adoptable(c) : target' = [target EXCEPT ![c] = s.id]
      BY <1>4 DEF Adopt
    <2>2. s.id \in Ids BY DEF Adoptable, Seen
    <2> QED BY <1>4, <2>1, <2>2, AnswerType DEF Adopt, Codes
  <1>5. ASSUME NEW c \in Calls, Conflict(c) PROVE TypeOK'
    BY <1>5, ErrorCodes, AnswerType DEF Conflict
  <1>6. ASSUME NEW c \in Calls, SendCreate(c) \/ CreateReply(c) \/ JobSucceeded(c) PROVE TypeOK'
    BY <1>6 DEF SendCreate, CreateReply, JobSucceeded, Goto
  <1>7. ASSUME NEW c \in Calls, JobStopped(c) PROVE TypeOK'
    <2>1. PICK e \in Failures \cup {"OperationFailed", "NotFound"} :
            Answer(c, toGRPCError("AlreadyExists", e))
      BY <1>7 DEF JobStopped, Failures
    <2> QED BY <1>7, <2>1, ErrorCodes, AnswerType DEF JobStopped
  <1>8. ASSUME NEW c \in Calls, FetchCreated(c) \/ PollAbsent(c) PROVE TypeOK'
    BY <1>8, AnswerType DEF FetchCreated, PollAbsent, Codes
  <1>9. ASSUME NEW c \in Calls, CheckDelete(c) PROVE TypeOK'
    <2>1. CASE \E code \in Codes : Answer(c, code)
      BY <1>9, <2>1, AnswerType DEF CheckDelete
    <2>2. CASE \E l \in {"absence", "delete"} : Goto(c, l) /\ UNCHANGED <<locals, answer>>
      BY <1>9, <2>2 DEF CheckDelete, Goto
    <2> QED BY <1>9, <2>1, <2>2, ErrorCodes DEF CheckDelete, Codes
  <1>10. ASSUME NEW c \in Calls, SendDelete(c) \/ DeleteReply(c) PROVE TypeOK'
    BY <1>10 DEF SendDelete, DeleteReply, Goto
  <1>11. ASSUME NEW c \in Calls, DeleteRefused(c) PROVE TypeOK'
    <2>1. \E code \in Codes : Answer(c, code)
      BY <1>11, ErrorCodes DEF DeleteRefused, Codes
    <2> QED BY <1>11, <2>1, AnswerType DEF DeleteRefused
  <1>12. ASSUME NEW c \in Calls, NEW e \in Transient \cup {"none"}, PollAgain(c, e) PROVE TypeOK'
    <2>1. CASE LastPoll(c)
      <3>1. \E code \in Codes : Answer(c, code)
        BY <1>12, <2>1, ErrorCodes DEF PollAgain, Failures
      <3> QED BY <1>12, <2>1, <3>1, AnswerType DEF PollAgain
    <2>2. CASE ~LastPoll(c)
      <3>1. polls[c] + 1 \in 0 .. MaxAttempts - 1 BY <2>2, AttemptsAssumption DEF LastPoll
      <3> QED BY <1>12, <2>2, <3>1 DEF PollAgain
    <2> QED BY <2>1, <2>2
  <1>13. ASSUME NEW c \in Calls, NEW e \in Failures, CallFails(c, e) PROVE TypeOK'
    <2>1. \E code \in Codes : Answer(c, code)
      BY <1>13, ErrorCodes DEF CallFails
    <2> QED BY <1>13, <2>1, AnswerType DEF CallFails, Forsake
  <1>14. ASSUME NEW c \in Calls, ContextEnds(c) PROVE TypeOK'
    BY <1>14, AnswerType DEF ContextEnds, Forsake, Codes
  <1>15. ASSUME NEW c \in Calls, NEW v \in Ids, CloudCreates(c, v) PROVE TypeOK'
    <2> DEFINE new == [name |-> req[c].name, place |-> req[c].place,
                       size |-> SizeOf(req[c]), owned |-> TRUE]
    <2>1. new \in Volume
      BY RequestsAssumption, SizeType DEF Volume, Request, NoRequest
    <2> QED BY <1>15, <2>1 DEF CloudCreates, Status, Live
  <1>16. ASSUME NEW c \in Calls, CloudDeletes(c) PROVE TypeOK'
    BY <1>16 DEF CloudDeletes, Status, Live
  <1>17. ASSUME NEW v \in Ids, JobEnds(v) \/ DeletionEnds(v) \/ Attaches(v) PROVE TypeOK'
    BY <1>17 DEF JobEnds, DeletionEnds, Attaches, Status, Live
  <1>18. ASSUME NEW v \in Ids, NEW r \in Requests, OthersCreate(v, r) PROVE TypeOK'
    <2> DEFINE new == [name |-> r.name, place |-> r.place, size |-> SizeOf(r), owned |-> FALSE]
    <2>1. new \in Volume BY RequestsAssumption, SizeType DEF Volume, Request
    <2> QED BY <1>18, <2>1 DEF OthersCreate, Status, Live
  <1>19. CASE UNCHANGED vars BY <1>19 DEF vars
  <1> QED
    BY <1>1, <1>2, <1>3, <1>4, <1>5, <1>6, <1>7, <1>8, <1>9, <1>10, <1>11, <1>12, <1>13,
       <1>14, <1>15, <1>16, <1>17, <1>18, <1>19 DEF Next, HandlerStep, CloudStep

\* Every reachable state is well typed, whatever the constants.
THEOREM TypeCorrect == Spec => []TypeOK
  BY TypeInit, TypeStep, PTL DEF Spec

-----------------------------------------------------------------------------
(* The guarantees that need nothing from the CO.                             *)

\* Before the first call there is no volume and no call to be wrong about.
LEMMA SafetyInit == Init => SafetyInv
  <1> SUFFICES ASSUME Init PROVE SafetyInv OBVIOUS
  <1>1. TypeOK BY TypeInit
  <1>2. \A v \in Ids : CloudOK(v) BY DEF Init, CloudOK, NoVolume
  <1>3. \A c \in Calls : ControlOK(c) /\ CreateOK(c) /\ DeleteOK(c)
    BY DEF Init, ControlOK, CreateOK, DeleteOK, Answered, CreatePcs, DeletePcs
  <1> QED BY <1>1, <1>2, <1>3 DEF SafetyInv

\* The parts of SafetyInv, each for all volumes or all calls.
CloudOKs == \A v \in Ids : CloudOK(v)
ControlOKs == \A c \in Calls : ControlOK(c)
CreateOKs == \A c \in Calls : CreateOK(c)
DeleteOKs == \A c \in Calls : DeleteOK(c)
CallsOK == ControlOKs /\ CreateOKs /\ DeleteOKs

\* One step per handler action: none of them changes the cloud.
LEMMA HandlerSafety ==
  ASSUME SafetyInv,
         \E c \in Calls : \/ \E r \in Requests : StartCreate(c, r)
                          \/ \E v \in Ids : StartDelete(c, v)
                          \/ HandlerStep(c)
  PROVE  CloudOKs' /\ CallsOK'
  <1> USE DEF SafetyInv, CallsOK, CloudOKs, ControlOKs, CreateOKs, DeleteOKs,
              TypeOK, cloudVars, locals, CreatePcs, DeletePcs
  <1>1. ASSUME NEW c \in Calls, NEW r \in Requests, StartCreate(c, r) PROVE CloudOKs' /\ CallsOK'
    <2> USE <1>1 DEF StartCreate
    <2>1. CloudOKs' BY DEF CloudOK
    <2>2. ControlOKs' BY ValidationCodes DEF ControlOK, Answer, Codes, Goto
    <2>3. CreateOKs' BY ValidationCodes DEF ControlOK, Answer, Codes, CreateOK, SeenOK, Fits, Answered, Goto
    <2>4. DeleteOKs' BY ValidationCodes DEF ControlOK, Answer, Codes, DeleteOK, Answered, Goto
    <2> QED BY <2>1, <2>2, <2>3, <2>4
  <1>2. ASSUME NEW c \in Calls, NEW v \in Ids, StartDelete(c, v) PROVE CloudOKs' /\ CallsOK'
    <2> USE <1>2 DEF StartDelete
    <2>1. CloudOKs' BY DEF CloudOK
    <2>2. ControlOKs' BY DEF ControlOK, Goto
    <2>3. CreateOKs' BY DEF ControlOK, CreateOK, SeenOK, Fits, Answered, Goto
    <2>4. DeleteOKs' BY DEF ControlOK, DeleteOK, Answered, Goto
    <2> QED BY <2>1, <2>2, <2>3, <2>4
  <1>3. ASSUME NEW c \in Calls, List(c) PROVE CloudOKs' /\ CallsOK'
    <2> USE <1>3 DEF List
    <2>1. CloudOKs' BY DEF CloudOK
    <2>2. ControlOKs' BY DEF ControlOK, Goto
    <2>3. CreateOKs'
      <3>1. ASSUME NEW s \in seen'[c] PROVE SeenOK(c, s)'
        <4>1. PICK v \in Matches(c) : s = [id |-> v, status |-> status[v], vol |-> vol[v]]
          BY <3>1
        <4> QED BY <4>1 DEF Matches, Listed, Live, CloudOK, SeenOK
      <3>2. wire'[c] = "none" /\ pc'[c] = "decide" /\ answer'[c] = "none"
        BY DEF ControlOK, Goto
      <3>3. CreateOK(c)' BY <3>1, <3>2 DEF CreateOK, Answered
      <3>4. ASSUME NEW d \in Calls, d # c PROVE CreateOK(d)'
        BY <3>4 DEF CreateOK, SeenOK, Fits, Answered, Goto
      <3> QED BY <3>3, <3>4
    <2>4. DeleteOKs' BY DEF ControlOK, DeleteOK, Answered, Goto
    <2> QED BY <2>1, <2>2, <2>3, <2>4
  <1>4. ASSUME NEW c \in Calls, Adopt(c) PROVE CloudOKs' /\ CallsOK'
    <2> USE <1>4 DEF Adopt
    <2>1. CloudOKs' BY DEF CloudOK
    <2>2. ControlOKs' BY DEF ControlOK, Answer, Codes
    <2>3. CreateOKs'
      <3>1. PICK s \in Adoptable(c) : target' = [target EXCEPT ![c] = s.id] OBVIOUS
      <3>2. s \in seen[c] /\ isAdoptable(s, req[c]) BY DEF Adoptable
      <3>3. req[c] \in Requests /\ Validation(req[c]) = "OK" /\ s.id \in Ids /\ job[s.id] = "SUCCESS" /\ Fits(s.id, req[c])
        BY <3>2 DEF ControlOK, CreateOK, SeenOK, Fits, isAdoptable, Seen
      <3> QED BY <3>1, <3>3 DEF ControlOK, CreateOK, SeenOK, Fits, Answered, Answer
    <2>4. DeleteOKs' BY DEF ControlOK, Answer, Codes, DeleteOK, Answered
    <2> QED BY <2>1, <2>2, <2>3, <2>4
  <1>5. ASSUME NEW c \in Calls, Conflict(c) PROVE CloudOKs' /\ CallsOK'
    <2> USE <1>5 DEF Conflict
    <2>1. CloudOKs' BY DEF CloudOK
    <2>2. ControlOKs' BY ErrorCodes DEF ControlOK, Answer, Codes
    <2>3. CreateOKs' BY ErrorCodes DEF ControlOK, Answer, Codes, CreateOK, SeenOK, Fits, Answered
    <2>4. DeleteOKs' BY ErrorCodes DEF ControlOK, Answer, Codes, DeleteOK, Answered
    <2> QED BY <2>1, <2>2, <2>3, <2>4
  <1>6. ASSUME NEW c \in Calls, SendCreate(c) PROVE CloudOKs' /\ CallsOK'
    <2> USE <1>6 DEF SendCreate
    <2>1. CloudOKs' BY DEF CloudOK
    <2>2. ControlOKs' BY DEF ControlOK, Goto
    <2>3. CreateOKs' BY DEF ControlOK, CreateOK, SeenOK, Fits, Answered, Goto
    <2>4. DeleteOKs' BY DEF ControlOK, DeleteOK, Answered, Goto
    <2> QED BY <2>1, <2>2, <2>3, <2>4
  <1>7. ASSUME NEW c \in Calls, CreateReply(c) PROVE CloudOKs' /\ CallsOK'
    <2> USE <1>7 DEF CreateReply
    <2>1. CloudOKs' BY DEF CloudOK
    <2>2. ControlOKs' BY DEF ControlOK, Goto
    <2>3. CreateOKs' BY DEF ControlOK, CreateOK, SeenOK, Fits, Answered, Goto
    <2>4. DeleteOKs' BY DEF ControlOK, DeleteOK, Answered, Goto
    <2> QED BY <2>1, <2>2, <2>3, <2>4
  <1>8. ASSUME NEW c \in Calls, JobSucceeded(c) PROVE CloudOKs' /\ CallsOK'
    <2> USE <1>8 DEF JobSucceeded
    <2>1. CloudOKs' BY DEF CloudOK
    <2>2. ControlOKs' BY DEF ControlOK, Goto
    <2>3. CreateOKs' BY DEF ControlOK, CreateOK, SeenOK, Fits, Answered, Goto
    <2>4. DeleteOKs' BY DEF ControlOK, DeleteOK, Answered, Goto
    <2> QED BY <2>1, <2>2, <2>3, <2>4
  <1>9. ASSUME NEW c \in Calls, JobStopped(c) PROVE CloudOKs' /\ CallsOK'
    <2> USE <1>9 DEF JobStopped
    <2>1. CloudOKs' BY DEF CloudOK
    <2>2. ControlOKs' BY ErrorCodes DEF ControlOK, Answer, Codes, Failures
    <2>3. CreateOKs' BY ErrorCodes DEF ControlOK, Answer, Codes, CreateOK, SeenOK, Fits, Answered, Failures
    <2>4. DeleteOKs' BY ErrorCodes DEF ControlOK, Answer, Codes, DeleteOK, Answered, Failures
    <2> QED BY <2>1, <2>2, <2>3, <2>4
  <1>10. ASSUME NEW c \in Calls, FetchCreated(c) PROVE CloudOKs' /\ CallsOK'
    <2> USE <1>10 DEF FetchCreated
    <2>1. CloudOKs' BY DEF CloudOK
    <2>2. ControlOKs' BY DEF ControlOK, Answer, Codes
    <2>3. CreateOKs' BY DEF ControlOK, Answer, Codes, CreateOK, SeenOK, Fits, Answered
    <2>4. DeleteOKs' BY DEF ControlOK, Answer, Codes, DeleteOK, Answered
    <2> QED BY <2>1, <2>2, <2>3, <2>4
  <1>11. ASSUME NEW c \in Calls, CheckDelete(c) PROVE CloudOKs' /\ CallsOK'
    <2> USE <1>11 DEF CheckDelete
    <2>1. CloudOKs' BY DEF CloudOK
    <2>2. ControlOKs' BY ErrorCodes DEF ControlOK, Answer, Codes, Goto
    <2>3. CreateOKs' BY ErrorCodes DEF ControlOK, Answer, Codes, CreateOK, SeenOK, Fits, Answered, Goto
    <2>4. DeleteOKs' BY ErrorCodes DEF ControlOK, Answer, Codes, DeleteOK, Answered, Goto, Listed, Live, Status, CarriesMarker
    <2> QED BY <2>1, <2>2, <2>3, <2>4
  <1>12. ASSUME NEW c \in Calls, SendDelete(c) PROVE CloudOKs' /\ CallsOK'
    <2> USE <1>12 DEF SendDelete
    <2>1. CloudOKs' BY DEF CloudOK
    <2>2. ControlOKs' BY DEF ControlOK, Goto
    <2>3. CreateOKs' BY DEF ControlOK, CreateOK, SeenOK, Fits, Answered, Goto
    <2>4. DeleteOKs' BY DEF ControlOK, DeleteOK, Answered, Goto
    <2> QED BY <2>1, <2>2, <2>3, <2>4
  <1>13. ASSUME NEW c \in Calls, DeleteReply(c) PROVE CloudOKs' /\ CallsOK'
    <2> USE <1>13 DEF DeleteReply
    <2>1. CloudOKs' BY DEF CloudOK
    <2>2. ControlOKs' BY DEF ControlOK, Goto
    <2>3. CreateOKs' BY DEF ControlOK, CreateOK, SeenOK, Fits, Answered, Goto
    <2>4. DeleteOKs' BY DEF ControlOK, DeleteOK, Answered, Goto
    <2> QED BY <2>1, <2>2, <2>3, <2>4
  <1>14. ASSUME NEW c \in Calls, DeleteRefused(c) PROVE CloudOKs' /\ CallsOK'
    <2> USE <1>14 DEF DeleteRefused
    <2>1. CloudOKs' BY DEF CloudOK
    <2>2. ControlOKs' BY ErrorCodes DEF ControlOK, Answer, Codes
    <2>3. CreateOKs' BY ErrorCodes DEF ControlOK, Answer, Codes, CreateOK, SeenOK, Fits, Answered
    <2>4. DeleteOKs' BY ErrorCodes DEF ControlOK, Answer, Codes, DeleteOK, Answered, Listed, Live, Status, Deletable
    <2> QED BY <2>1, <2>2, <2>3, <2>4
  <1>15. ASSUME NEW c \in Calls, PollAbsent(c) PROVE CloudOKs' /\ CallsOK'
    <2> USE <1>15 DEF PollAbsent
    <2>1. CloudOKs' BY DEF CloudOK
    <2>2. ControlOKs' BY DEF ControlOK, Answer, Codes
    <2>3. CreateOKs' BY DEF ControlOK, Answer, Codes, CreateOK, SeenOK, Fits, Answered
    <2>4. DeleteOKs' BY DEF ControlOK, Answer, Codes, DeleteOK, Answered, Listed, Live, Status
    <2> QED BY <2>1, <2>2, <2>3, <2>4
  <1>16. ASSUME NEW c \in Calls, NEW e \in Transient \cup {"none"}, PollAgain(c, e) PROVE CloudOKs' /\ CallsOK'
    <2> USE <1>16 DEF PollAgain
    <2>1. CloudOKs' BY DEF CloudOK
    <2>2. ControlOKs' BY ErrorCodes DEF ControlOK, Answer, Codes, Failures
    <2>3. CreateOKs' BY ErrorCodes DEF ControlOK, Answer, Codes, CreateOK, SeenOK, Fits, Answered, Failures
    <2>4. DeleteOKs' BY ErrorCodes DEF ControlOK, Answer, Codes, DeleteOK, Answered, Failures
    <2> QED BY <2>1, <2>2, <2>3, <2>4
  <1>17. ASSUME NEW c \in Calls, NEW e \in Failures, CallFails(c, e) PROVE CloudOKs' /\ CallsOK'
    <2> USE <1>17 DEF CallFails
    <2>1. CloudOKs' BY DEF CloudOK
    <2>2. ControlOKs' BY ErrorCodes DEF ControlOK, Answer, Codes, Forsake
    <2>3. CreateOKs' BY ErrorCodes DEF ControlOK, Answer, Codes, CreateOK, SeenOK, Fits, Answered, Forsake
    <2>4. DeleteOKs' BY ErrorCodes DEF ControlOK, Answer, Codes, DeleteOK, Answered, Forsake
    <2> QED BY <2>1, <2>2, <2>3, <2>4
  <1>18. ASSUME NEW c \in Calls, ContextEnds(c) PROVE CloudOKs' /\ CallsOK'
    <2> USE <1>18 DEF ContextEnds
    <2>1. CloudOKs' BY DEF CloudOK
    <2>2. ControlOKs' BY DEF ControlOK, Answer, Codes, Forsake, Running
    <2>3. CreateOKs' BY DEF ControlOK, Answer, Codes, CreateOK, SeenOK, Fits, Answered, Forsake, Running
    <2>4. DeleteOKs' BY DEF ControlOK, Answer, Codes, DeleteOK, Answered, Forsake, Running
    <2> QED BY <2>1, <2>2, <2>3, <2>4
  <1> QED BY <1>1, <1>2, <1>3, <1>4, <1>5, <1>6, <1>7, <1>8, <1>9, <1>10, <1>11, <1>12,
         <1>13, <1>14, <1>15, <1>16, <1>17, <1>18 DEF HandlerStep

\* One step per action of the cloud: no ID that is in use is handed out again, and no record
\* changes once it is there.
LEMMA CloudSafety ==
  ASSUME SafetyInv, CloudStep
  PROVE  CloudOKs' /\ CallsOK'
  <1> USE DEF SafetyInv, CallsOK, CloudOKs, ControlOKs, CreateOKs, DeleteOKs,
              TypeOK, cloudVars, locals, CreatePcs, DeletePcs
  <1>1. ASSUME NEW c \in Calls, NEW v \in Ids, CloudCreates(c, v) PROVE CloudOKs' /\ CallsOK'
    <2> USE <1>1 DEF CloudCreates
    <2>1. CloudOKs' BY DEF CloudOK
    <2>2. ControlOKs' BY DEF ControlOK
    <2>3. Fits(v, req[c])'
      BY ValidRequest DEF ControlOK, Fits
    <2>4. ASSUME NEW d \in Calls PROVE CreateOK(d)'
      <3>1. CASE d = c BY <2>3, <2>4, <3>1 DEF ControlOK, CreateOK, Answered
      <3>2. CASE d # c
        <4>1. ASSUME NEW w \in Ids, status[w] # "free" PROVE vol'[w] = vol[w] /\ status'[w] = status[w] /\ job'[w] = job[w]
          BY <4>1
        <4>2. target'[d] = target[d] BY <3>2
        <4>3. kind[d] = "create" /\ wire[d] = "applied" => CreateOK(d)!1'
          BY <3>2, <4>1, <4>2 DEF CreateOK, SeenOK, Fits
        <4>4. Answered(d, "create", "OK")' => CreateOK(d)!3'
          BY <3>2, <4>1, <4>2 DEF CreateOK, SeenOK, Fits, Answered, CloudOK
        <4>5. CreateOK(d)!4'
          BY <3>2, <4>1 DEF CreateOK, SeenOK, Seen
        <4>6. CreateOK(d)!2'
          BY <3>2, <4>1, <4>2 DEF CreateOK, ControlOK
        <4> QED BY <3>2, <4>3, <4>4, <4>5, <4>6 DEF CreateOK
      <3> QED BY <3>1, <3>2
    <2>5. DeleteOKs' BY DEF ControlOK, DeleteOK, Answered
    <2> QED BY <2>1, <2>2, <2>4, <2>5
  <1>2. ASSUME NEW c \in Calls, CloudDeletes(c) PROVE CloudOKs' /\ CallsOK'
    <2> USE <1>2 DEF CloudDeletes, Deletable
    <2>1. CloudOKs' BY DEF CloudOK, DeleteOK
    <2>2. ControlOKs' BY DEF ControlOK
    <2>3. CreateOKs' BY DEF CreateOK, SeenOK, Fits, Answered
    <2>4. DeleteOKs' BY DEF ControlOK, DeleteOK, Answered
    <2> QED BY <2>1, <2>2, <2>3, <2>4
  <1>3. ASSUME NEW v \in Ids, JobEnds(v) \/ DeletionEnds(v) \/ Attaches(v)
        PROVE  CloudOKs' /\ CallsOK'
    <2> USE <1>3 DEF JobEnds, DeletionEnds, Attaches
    <2>1. CloudOKs' BY DEF CloudOK
    <2>2. ControlOKs' BY DEF ControlOK
    <2>3. ASSUME NEW d \in Calls PROVE CreateOK(d)'
      <3>1. \A w \in Ids : /\ job[w] = "SUCCESS" => job'[w] = "SUCCESS"
                           /\ status[w] # "free" => status'[w] # "free"
        BY DEF CloudOK
      <3>2. \A s \in seen[d] : s.id \in Ids BY DEF Seen
      <3>3. pc[d] = "fetch" => target[d] \in Ids BY DEF ControlOK, CreateOK
      <3> QED BY <3>1, <3>2, <3>3 DEF CreateOK, SeenOK, Fits, Answered
    <2>4. DeleteOKs' BY DEF DeleteOK, Answered
    <2> QED BY <2>1, <2>2, <2>3, <2>4
  <1>4. ASSUME NEW v \in Ids, NEW r \in Requests, OthersCreate(v, r) PROVE CloudOKs' /\ CallsOK'
    <2> USE <1>4 DEF OthersCreate
    <2>1. CloudOKs' BY DEF CloudOK
    <2>2. ControlOKs' BY DEF ControlOK
    <2>3. CreateOKs' BY DEF CloudOK, ControlOK, CreateOK, SeenOK, Fits, Answered, Seen
    <2>4. DeleteOKs' BY DEF ControlOK, DeleteOK, Answered
    <2> QED BY <2>1, <2>2, <2>3, <2>4
  <1> QED BY <1>1, <1>2, <1>3, <1>4 DEF CloudStep

\* The inductive invariant of the safety theorems is kept by the handlers and by the cloud.
LEMMA SafetyStep == SafetyInv /\ [Next]_vars => SafetyInv'
  <1> SUFFICES ASSUME SafetyInv, [Next]_vars PROVE SafetyInv' OBVIOUS
  <1>1. TypeOK' BY TypeStep DEF SafetyInv
  <1>2. CASE Next
    <2>1. CloudOKs' /\ CallsOK' BY <1>2, HandlerSafety, CloudSafety DEF Next
    <2> QED BY <1>1, <2>1 DEF SafetyInv, CallsOK, CloudOKs, ControlOKs, CreateOKs, DeleteOKs
  <1>3. CASE UNCHANGED vars
    <2> USE <1>3 DEF vars, SafetyInv
    <2>1. \A v \in Ids : CloudOK(v)' BY DEF CloudOK
    <2>2. \A c \in Calls : ControlOK(c)' BY DEF ControlOK
    <2>3. \A c \in Calls : CreateOK(c)' BY DEF CreateOK, SeenOK, Fits, Answered
    <2>4. \A c \in Calls : DeleteOK(c)' BY DEF DeleteOK, Answered
    <2> QED BY <1>1, <2>1, <2>2, <2>3, <2>4
  <1> QED BY <1>2, <1>3

\* In every reachable state, whatever the CO does and however late requests arrive, no volume
\* without the marker is being deleted (DeleteVolume).
THEOREM OthersUntouchedAlways == Spec => []OthersUntouched
  <1>1. SafetyInv => OthersUntouched BY DEF SafetyInv, CloudOK, OthersUntouched
  <1> QED BY SafetyInit, SafetyStep, <1>1, PTL DEF Spec

\* CreateVolume never answers OK with a volume that does not fit the request.
THEOREM CreatedFitsAlways == Spec => []CreatedFits
  <1>1. SafetyInv => CreatedFits
    <2> SUFFICES ASSUME SafetyInv, NEW c \in Calls, Answered(c, "create", "OK")
                 PROVE  CreatedFits!(c)!2
      BY DEF CreatedFits
    <2>1. target[c] \in Ids /\ req[c] \in Requests /\ Fits(target[c], req[c]) /\ job[target[c]] = "SUCCESS"
      BY DEF SafetyInv, CreateOK
    <2>2. Validation(req[c]) = "OK" BY DEF SafetyInv, CreateOK
    <2>3. vol[target[c]].size \in Nat BY <2>1 DEF SafetyInv, TypeOK, Volume
    <2>4. /\ vol[target[c]].size * BytesInGiB >= req[c].required
          /\ req[c].limit > 0 => vol[target[c]].size * BytesInGiB <= req[c].limit
      BY <2>1, <2>2, <2>3, AdoptedSize DEF Fits
    <2> QED BY <2>1, <2>4 DEF SafetyInv, CloudOK, Fits
  <1> QED BY SafetyInit, SafetyStep, <1>1, PTL DEF Spec

\* DeleteVolume never answers OK for a volume that still exists or comes to exist again.
THEOREM DeletedIsGoneAlways == Spec => []DeletedIsGone
  <1>1. SafetyInv => DeletedIsGone BY DEF SafetyInv, DeleteOK, DeletedIsGone
  <1> QED BY SafetyInit, SafetyStep, <1>1, PTL DEF Spec

-----------------------------------------------------------------------------
(* What a CO that serialises its calls per name can rely on when no abandoned *)
(* request arrives late.                                                     *)

\* The name a call is about does not change while the call is in flight.
LEMMA NameKept ==
  ASSUME SafetyInv, [Next]_vars, NEW c \in Calls, Running(c), Running(c)'
  PROVE  NameOf(c)' = NameOf(c)
  <1> USE DEF SafetyInv, NameOf, Running, cloudVars, locals, TypeOK
  <1>1. kind'[c] = kind[c] /\ req'[c] = req[c]
    BY DEF Next, vars, StartCreate, StartDelete, HandlerStep, CloudStep, List, Adopt, Conflict,
           SendCreate, CreateReply, JobSucceeded, JobStopped, FetchCreated, CheckDelete,
           SendDelete, DeleteReply, DeleteRefused, PollAbsent, PollAgain, CallFails,
           ContextEnds, CloudCreates, CloudDeletes, JobEnds, DeletionEnds, Attaches, OthersCreate
  <1>2. CASE kind[c] = "create" BY <1>1, <1>2
  <1>3. CASE kind[c] # "create"
    <2>1. kind[c] = "delete" BY <1>3 DEF ControlOK
    <2>2. target'[c] = target[c]
      BY <2>1 DEF ControlOK, CreatePcs, Next, vars, StartCreate, StartDelete, HandlerStep,
           CloudStep, List, Adopt, Conflict,
           SendCreate, CreateReply, JobSucceeded, JobStopped, FetchCreated, CheckDelete,
           SendDelete, DeleteReply, DeleteRefused, PollAbsent, PollAgain, CallFails,
           ContextEnds, CloudCreates, CloudDeletes, JobEnds, DeletionEnds, Attaches, OthersCreate
    <2>3. \A v \in Ids : status[v] # "free" => vol'[v] = vol[v]
      BY DEF Next, vars, StartCreate, StartDelete, HandlerStep, CloudStep, List, Adopt, Conflict,
           SendCreate, CreateReply, JobSucceeded, JobStopped, FetchCreated, CheckDelete,
           SendDelete, DeleteReply, DeleteRefused, PollAbsent, PollAgain, CallFails,
           ContextEnds, CloudCreates, CloudDeletes, JobEnds, DeletionEnds, Attaches, OthersCreate
    <2> QED BY <1>1, <2>1, <2>2, <2>3 DEF DeleteOK
  <1> QED BY <1>2, <1>3

\* Before the first call no name is in use.
LEMMA UniqueInit == Init => UniqueInv
  <1> SUFFICES ASSUME Init PROVE UniqueInv OBVIOUS
  <1>1. SafetyInv BY SafetyInit
  <1>2. SerialInv /\ OneVolumePerName
    BY DEF Init, SerialInv, OneVolumePerName, Running, Listed, Live
  <1> QED BY <1>1, <1>2 DEF Init, UniqueInv

\* A volume of the driver's own appears only when the service accepts a POST.
LEMMA OwnedAppears ==
  ASSUME SafetyInv, [Next]_vars, NEW v \in Listed', vol'[v].owned
  PROVE  \/ v \in Listed /\ vol[v] = vol'[v]
         \/ \E c \in Calls : CloudCreates(c, v)
  <1> USE DEF SafetyInv, TypeOK, cloudVars, locals, Listed, Live
  <1>1. CASE \E c \in Calls, w \in Ids : CloudCreates(c, w)
    <2>1. PICK c \in Calls, w \in Ids : CloudCreates(c, w) BY <1>1
    <2>2. CASE w = v BY <2>1, <2>2
    <2>3. CASE w # v BY <2>1, <2>3 DEF CloudCreates
    <2> QED BY <2>2, <2>3
  <1>2. CASE \E w \in Ids, r \in Requests : OthersCreate(w, r)
    BY <1>2 DEF OthersCreate
  <1>3. CASE \E w \in Ids : JobEnds(w) \/ DeletionEnds(w) \/ Attaches(w)
    BY <1>3 DEF JobEnds, DeletionEnds, Attaches
  <1>4. CASE \E c \in Calls : CloudDeletes(c)
    BY <1>4 DEF CloudDeletes, Deletable
  <1>5. CASE UNCHANGED cloudVars
    BY <1>5
  <1> QED
    BY <1>1, <1>2, <1>3, <1>4, <1>5
       DEF Next, vars, StartCreate, StartDelete, HandlerStep, CloudStep, List, Adopt, Conflict,
           SendCreate, CreateReply, JobSucceeded, JobStopped, FetchCreated, CheckDelete,
           SendDelete, DeleteReply, DeleteRefused, PollAbsent, PollAgain, CallFails,
           ContextEnds, CloudCreates, CloudDeletes, JobEnds, DeletionEnds, Attaches, OthersCreate

\* A call comes into flight only by being started.
LEMMA ComesIntoFlight ==
  ASSUME SafetyInv, [Next]_vars, NEW c \in Calls, ~Running(c), Running(c)'
  PROVE  (\E r \in Requests : StartCreate(c, r)) \/ (\E v \in Ids : StartDelete(c, v))
  BY DEF Running, Answer, Goto, SafetyInv, TypeOK, cloudVars, locals,
           Next, vars, StartCreate, StartDelete, HandlerStep, CloudStep, List, Adopt, Conflict,
           SendCreate, CreateReply, JobSucceeded, JobStopped, FetchCreated, CheckDelete,
           SendDelete, DeleteReply, DeleteRefused, PollAbsent, PollAgain, CallFails,
           ContextEnds, CloudCreates, CloudDeletes, JobEnds, DeletionEnds, Attaches, OthersCreate

\* Two calls on one name are never in flight together, if the CO starts none such.
LEMMA SerialStep ==
  ASSUME SerialCO, UniqueInv, [Next]_vars PROVE SerialInv'
  <1> USE DEF UniqueInv
  <1>1. ASSUME NEW x \in Calls, NEW y \in Calls, x # y, ~Running(x), Running(x)', Running(y)'
        PROVE  NameOf(x)' # NameOf(y)'
    <2>1. Running(y) /\ NameOf(x)' # NameOf(y)
      BY <1>1, ComesIntoFlight
         DEF StartCreate, StartDelete, MayStart, Running, NameOf, Answer, Goto, SafetyInv, TypeOK, cloudVars
    <2> QED BY <1>1, <2>1, NameKept
  <1>2. ASSUME NEW x \in Calls, NEW y \in Calls, x # y, Running(x), Running(y), Running(x)', Running(y)'
        PROVE  NameOf(x)' # NameOf(y)'
    BY <1>2, NameKept DEF SerialInv
  <1> QED BY <1>1, <1>2 DEF SerialInv

\* The calls whose handler relies on there being no volume of the name.
Relies(c) == (pc[c] = "decide" /\ seen[c] = {}) \/ (kind[c] = "create" /\ wire[c] = "sent")

\* A POST is in flight only while the driver has no volume of its name: the inductive step of
\* the uniqueness of names.
LEMMA UniqueStep ==
  ASSUME SerialCO, ~LateEffects, UniqueInv, [Next]_vars PROVE UniqueInv'
  <1> USE DEF UniqueInv
  <1>1. SafetyInv' BY SafetyStep
  <1>2. SerialInv' BY SerialStep
  <1>3. ASSUME NEW c \in Calls, wire'[c] = "sent" PROVE Running(c)'
    BY <1>3 DEF Running, Answer, Goto, Forsake, SafetyInv, ControlOK, TypeOK, cloudVars, locals,
           Next, vars, StartCreate, StartDelete, HandlerStep, CloudStep, List, Adopt, Conflict,
           SendCreate, CreateReply, JobSucceeded, JobStopped, FetchCreated, CheckDelete,
           SendDelete, DeleteReply, DeleteRefused, PollAbsent, PollAgain, CallFails,
           ContextEnds, CloudCreates, CloudDeletes, JobEnds, DeletionEnds, Attaches, OthersCreate
  <1>4. ASSUME NEW c \in Calls, Relies(c)' PROVE NameFree(c)'
    <2>1. CASE Relies(c)
      <3>1. Running(c) /\ kind[c] = "create" /\ NameFree(c)
        BY <2>1 DEF Relies, Running, SafetyInv, ControlOK, CreatePcs
      <3>2. Running(c)' /\ kind'[c] = "create"
        BY <1>1, <1>3, <1>4 DEF Relies, Running, SafetyInv, ControlOK, CreatePcs
      <3>3. req'[c].name = req[c].name BY <3>1, <3>2, NameKept DEF NameOf
      <3>4. ASSUME NEW v \in Listed', vol'[v].owned PROVE vol'[v].name # req[c].name
        <4>1. CASE v \in Listed /\ vol[v] = vol'[v] BY <3>1, <3>4, <4>1 DEF NameFree
        <4>2. CASE \E d \in Calls : CloudCreates(d, v)
          <5>1. PICK d \in Calls : CloudCreates(d, v) BY <4>2
          <5>2. d # c
            BY <1>4, <5>1 DEF Relies, CloudCreates, SafetyInv, TypeOK, ControlOK, locals
          <5>3. req[d].name # req[c].name
            BY <3>1, <5>1, <5>2 DEF CloudCreates, SerialInv, NameOf
          <5>4. v \in Ids BY DEF Listed
          <5>5. vol'[v].name = req[d].name
            BY <5>1, <5>4 DEF CloudCreates, SafetyInv, TypeOK
          <5> QED BY <5>3, <5>5
        <4> QED BY <3>4, <4>1, <4>2, OwnedAppears
      <3> QED BY <3>3, <3>4 DEF NameFree
    <2>2. CASE ~Relies(c)
      <3>1. List(c)
        <4> USE DEF Answer, Goto, SafetyInv, TypeOK, cloudVars, locals
        <4>1. CASE pc'[c] = "decide" /\ seen'[c] = {}
          BY <2>2, <4>1 DEF Relies, Next, vars, StartCreate, StartDelete, HandlerStep, CloudStep, List, Adopt, Conflict,
           SendCreate, CreateReply, JobSucceeded, JobStopped, FetchCreated, CheckDelete,
           SendDelete, DeleteReply, DeleteRefused, PollAbsent, PollAgain, CallFails,
           ContextEnds, CloudCreates, CloudDeletes, JobEnds, DeletionEnds, Attaches, OthersCreate
        <4>2. CASE kind'[c] = "create" /\ wire'[c] = "sent"
          BY <2>2, <4>2 DEF Relies, Forsake, ControlOK, DeletePcs, Next, vars, StartCreate, StartDelete, HandlerStep, CloudStep, List, Adopt, Conflict,
           SendCreate, CreateReply, JobSucceeded, JobStopped, FetchCreated, CheckDelete,
           SendDelete, DeleteReply, DeleteRefused, PollAbsent, PollAgain, CallFails,
           ContextEnds, CloudCreates, CloudDeletes, JobEnds, DeletionEnds, Attaches, OthersCreate
        <4> QED BY <1>4, <4>1, <4>2 DEF Relies
      <3>2. pc'[c] = "decide" /\ seen'[c] = {}
        BY <1>4, <3>1 DEF Relies, List, Goto, SafetyInv, ControlOK, TypeOK
      <3>3. Matches(c) = {}
        <4>1. seen'[c] = {[id |-> v, status |-> status[v], vol |-> vol[v]] : v \in Matches(c)}
          BY <3>1 DEF List, SafetyInv, TypeOK
        <4>2. ASSUME NEW v \in Matches(c) PROVE FALSE
          <5>1. [id |-> v, status |-> status[v], vol |-> vol[v]] \in seen'[c] BY <4>1, <4>2
          <5> QED BY <3>2, <5>1
        <4> QED BY <4>2
      <3> QED BY <3>1, <3>3 DEF List, Matches, NameFree, Listed, cloudVars
    <2> QED BY <2>1, <2>2
  <1>5. OneVolumePerName'
    <2> SUFFICES ASSUME NEW v \in Listed', NEW w \in Listed', vol'[v].owned, vol'[w].owned,
                        vol'[v].name = vol'[w].name, v # w
                 PROVE  FALSE
      BY DEF OneVolumePerName
    <2>1. ASSUME NEW x \in Listed', NEW y \in Listed', x # y, vol'[x].name = vol'[y].name,
                 vol'[y].owned, \E c \in Calls : CloudCreates(c, x)
          PROVE  FALSE
      <3>1. PICK c \in Calls : CloudCreates(c, x) BY <2>1
      <3>2. x \in Ids /\ y \in Ids BY DEF Listed
      <3>3. vol'[x].name = req[c].name BY <3>1, <3>2 DEF CloudCreates, SafetyInv, TypeOK
      <3>4. y \in Listed /\ vol[y] = vol'[y]
        BY <2>1, <3>1, <3>2 DEF CloudCreates, SafetyInv, TypeOK, Listed
      <3>5. NameFree(c) BY <3>1 DEF CloudCreates
      <3> QED BY <2>1, <3>3, <3>4, <3>5 DEF NameFree
    <2>2. CASE v \in Listed /\ vol[v] = vol'[v] /\ w \in Listed /\ vol[w] = vol'[w]
      BY <2>2 DEF OneVolumePerName
    <2> QED BY <2>1, <2>2, OwnedAppears
  <1> QED BY <1>1, <1>2, <1>3, <1>4, <1>5 DEF Relies

\* The driver never has two volumes of one name, if the CO serialises its calls per name and
\* abandoned requests do not arrive late: whatever is lost, abandoned, retried or deleted.
THEOREM OneVolumePerNameAlways ==
  ASSUME SerialCO, ~LateEffects PROVE Spec => []OneVolumePerName
  <1>1. UniqueInv => OneVolumePerName BY DEF UniqueInv
  <1>2. UniqueInv /\ [Next]_vars => UniqueInv' BY UniqueStep
  <1> QED BY UniqueInit, <1>1, <1>2, PTL DEF Spec

\* Two calls for one name that both answer OK name the same volume, unless one has been deleted
\* since: CreateVolume is idempotent for a CO that serialises its calls per name.
THEOREM CreateIdempotentAlways ==
  ASSUME SerialCO, ~LateEffects PROVE Spec => []CreateIdempotent
  <1>1. ASSUME UniqueInv PROVE CreateIdempotent
    <2> SUFFICES ASSUME NEW c \in Calls, NEW d \in Calls,
                        Answered(c, "create", "OK"), Answered(d, "create", "OK"),
                        req[c].name = req[d].name,
                        \A v \in {target[c], target[d]} : status[v] \notin {"deleting", "error_deleting", "gone"}
                 PROVE  target[c] = target[d]
      BY DEF CreateIdempotent
    <2>1. ASSUME NEW b \in {c, d}
          PROVE  target[b] \in Listed /\ vol[target[b]].owned /\ vol[target[b]].name = req[b].name
      <3>1. target[b] \in Ids /\ job[target[b]] = "SUCCESS" /\ Fits(target[b], req[b])
        BY <1>1 DEF UniqueInv, SafetyInv, CreateOK
      <3>2. status[target[b]] \in Status \ {"free", "creating", "deleting", "error_deleting", "gone"}
        BY <1>1, <3>1 DEF UniqueInv, SafetyInv, CloudOK, TypeOK
      <3> QED BY <3>1, <3>2 DEF Fits, Listed, Status
    <2> QED BY <1>1, <2>1 DEF UniqueInv, OneVolumePerName
  <1>2. UniqueInv /\ [Next]_vars => UniqueInv' BY UniqueStep
  <1> QED BY UniqueInit, <1>1, <1>2, PTL DEF Spec

-----------------------------------------------------------------------------
(* What is answered is still so when it is answered.                         *)
InUse == {"available", "in-use"}

\* What a CreateVolume handler has listed as adoptable, or has seen created, is not deleted under
\* its hands; and only volumes of the driver's own cease to exist.
UsableInv ==
  /\ UniqueInv
  /\ \A c \in Calls : \A s \in seen[c] : s.vol.owned /\ s.status \in InUse => status[s.id] \in InUse
  /\ \A c \in Calls : Running(c) /\ kind[c] = "create" /\ wire[c] = "applied" =>
       (job[target[c]] = "SUCCESS" => status[target[c]] \in InUse)
  /\ \A v \in Ids : status[v] = "gone" => vol[v].owned

\* When a call answers OK: it adopts a volume, or has fetched the one it made, or its volume is
\* not there.
OkFor(c) ==
  \/ pc[c] = "decide" /\ \E s \in Adoptable(c) : target'[c] = s.id
  \/ pc[c] = "fetch" /\ target'[c] = target[c] /\ target[c] \in Listed
  \/ kind[c] = "delete" /\ target'[c] = target[c] /\ target[c] \notin Listed

\* What a step of a handler does to the state others see: it leaves the cloud alone, and
\* answers once.
HandlerEffect(c) ==
  /\ UNCHANGED cloudVars
  /\ \A d \in Calls : d # c => /\ answer'[d] = answer[d] /\ kind'[d] = kind[d] /\ target'[d] = target[d]
                               /\ pc'[d] = pc[d] /\ seen'[d] = seen[d] /\ wire'[d] = wire[d]
  /\ answer[c] = "none"
  /\ answer'[c] = "OK" => kind'[c] = kind[c] /\ OkFor(c)

\* Every step of a call's handler is of this kind.
LEMMA HandlerEffects ==
  ASSUME SafetyInv, NEW c \in Calls,
         \/ \E r \in Requests : StartCreate(c, r)
         \/ \E v \in Ids : StartDelete(c, v)
         \/ HandlerStep(c)
  PROVE  HandlerEffect(c)
  <1> USE DEF SafetyInv, TypeOK, HandlerEffect, cloudVars, locals
  <1>1. ControlOK(c) OBVIOUS
  <1>2. ASSUME NEW r \in Requests, StartCreate(c, r) PROVE HandlerEffect(c)
    BY <1>1, <1>2, ValidationCodes DEF StartCreate, Goto, Answer, ControlOK
  <1>3. ASSUME NEW v \in Ids, StartDelete(c, v) PROVE HandlerEffect(c)
    BY <1>1, <1>3 DEF StartDelete, Goto, ControlOK
  <1>4. ASSUME Adopt(c) PROVE HandlerEffect(c)
    BY <1>1, <1>4 DEF Adopt, Answer, ControlOK, OkFor
  <1>5. ASSUME FetchCreated(c) PROVE HandlerEffect(c)
    BY <1>1, <1>5 DEF FetchCreated, Answer, ControlOK, OkFor
  <1>6. ASSUME List(c) \/ SendCreate(c) \/ CreateReply(c) \/ JobSucceeded(c) \/ SendDelete(c) \/ DeleteReply(c)
        PROVE  HandlerEffect(c)
    BY <1>1, <1>6 DEF List, SendCreate, CreateReply, JobSucceeded, SendDelete, DeleteReply, Goto, ControlOK
  <1>7. ASSUME NEW code \in Codes \ {"OK"}, Answer(c, code), pc[c] # "done",
               UNCHANGED <<cloudVars, kind, target>>, \A d \in Calls : d # c => wire'[d] = wire[d]
        PROVE  HandlerEffect(c)
    BY <1>1, <1>7 DEF Answer, ControlOK
  <1>8. ASSUME Conflict(c) PROVE HandlerEffect(c)
    BY <1>7, <1>8, ErrorCodes DEF Conflict
  <1>9. ASSUME JobStopped(c) PROVE HandlerEffect(c)
    <2>1. PICK e \in Failures \cup {"OperationFailed", "NotFound"} :
            Answer(c, toGRPCError("AlreadyExists", e))
      BY <1>9 DEF JobStopped, Failures
    <2> QED BY <1>7, <1>9, <2>1, ErrorCodes DEF JobStopped
  <1>10. ASSUME CheckDelete(c) PROVE HandlerEffect(c)
    <2>1. kind[c] = "delete" BY <1>1, <1>10 DEF CheckDelete, ControlOK, DeletePcs
    <2>2. CASE target[c] \notin Listed /\ Answer(c, "OK")
      BY <1>1, <1>10, <2>1, <2>2 DEF CheckDelete, Answer, ControlOK, OkFor
    <2>3. CASE \E code \in Codes \ {"OK"} : Answer(c, code)
      BY <1>7, <1>10, <2>3 DEF CheckDelete
    <2>4. CASE \E l \in {"absence", "delete"} : Goto(c, l) /\ UNCHANGED <<locals, answer>>
      BY <1>1, <1>10, <2>4 DEF CheckDelete, Goto, ControlOK
    <2> QED BY <1>10, <2>2, <2>3, <2>4, ErrorCodes DEF CheckDelete, Codes
  <1>11. ASSUME DeleteRefused(c) PROVE HandlerEffect(c)
    <2>1. kind[c] = "delete" BY <1>1, <1>11 DEF DeleteRefused, ControlOK, DeletePcs
    <2>2. CASE target[c] \notin Listed
      BY <1>1, <1>11, <2>1, <2>2 DEF DeleteRefused, Answer, ControlOK, OkFor
    <2>3. CASE target[c] \in Listed
      <3>1. PICK e \in {"InvalidArgument", "Conflict"} : Answer(c, toGRPCError("FailedPrecondition", e))
        BY <1>11, <2>3 DEF DeleteRefused
      <3> QED BY <1>7, <1>11, <3>1, ErrorCodes DEF DeleteRefused
    <2> QED BY <2>2, <2>3
  <1>12. ASSUME PollAbsent(c) PROVE HandlerEffect(c)
    BY <1>1, <1>12 DEF PollAbsent, Answer, ControlOK, OkFor, DeletePcs
  <1>13. ASSUME NEW e \in Transient \cup {"none"}, PollAgain(c, e) PROVE HandlerEffect(c)
    <2>1. CASE LastPoll(c)
      <3>1. \E code \in Codes \ {"OK"} : Answer(c, code)
        BY <1>13, <2>1, ErrorCodes DEF PollAgain, Failures
      <3> QED BY <1>7, <1>13, <3>1 DEF PollAgain
    <2>2. CASE ~LastPoll(c) BY <1>1, <1>13, <2>2 DEF PollAgain, ControlOK
    <2> QED BY <2>1, <2>2
  <1>14. ASSUME NEW e \in Failures, CallFails(c, e) PROVE HandlerEffect(c)
    <2>1. \E code \in Codes \ {"OK"} : Answer(c, code) BY <1>14, ErrorCodes DEF CallFails
    <2> QED BY <1>7, <1>14, <2>1 DEF CallFails, Forsake
  <1>15. ASSUME ContextEnds(c) PROVE HandlerEffect(c)
    BY <1>7, <1>15 DEF ContextEnds, Forsake, Codes, Running
  <1> QED
    BY <1>2, <1>3, <1>4, <1>5, <1>6, <1>8, <1>9, <1>10, <1>11, <1>12, <1>13, <1>14, <1>15
       DEF HandlerStep

\* A step of the system is one of a handler, which leaves the cloud alone, or one of the cloud.
LEMMA StepKinds ==
  ASSUME SafetyInv, [Next]_vars
  PROVE  (\E c \in Calls : HandlerEffect(c)) \/ CloudStep \/ UNCHANGED vars
  BY HandlerEffects DEF Next

\* No volume of a name is deleted while a CreateVolume for the name is in flight: its DELETE
\* would be one of another call, which the CO does not make.
LEMMA UsableStays ==
  ASSUME UniqueInv, [Next]_vars, NEW c \in Calls, Running(c), kind[c] = "create",
         NEW v \in Ids, status[v] \in InUse, vol[v].name = req[c].name
  PROVE  status'[v] \in InUse
  <1> USE DEF InUse, UniqueInv, SafetyInv, TypeOK
  <1>1. CASE \E d \in Calls : CloudDeletes(d)
    <2>1. PICK d \in Calls : CloudDeletes(d) BY <1>1
    <2>2. CASE target[d] = v
      <3>1. kind[d] = "delete" /\ Running(d) BY <2>1 DEF CloudDeletes
      <3>2. NameOf(d) = NameOf(c) /\ d # c BY <2>2, <3>1 DEF NameOf
      <3> QED BY <3>1, <3>2 DEF SerialInv
    <2>3. CASE target[d] # v BY <2>1, <2>3 DEF CloudDeletes
    <2> QED BY <2>2, <2>3
  <1>2. CASE \E d \in Calls, w \in Ids : CloudCreates(d, w) BY <1>2 DEF CloudCreates
  <1>3. CASE \E w \in Ids : JobEnds(w) \/ DeletionEnds(w) \/ Attaches(w)
    BY <1>3 DEF JobEnds, DeletionEnds, Attaches
  <1>4. CASE \E w \in Ids, r \in Requests : OthersCreate(w, r) BY <1>4 DEF OthersCreate
  <1>5. CASE UNCHANGED status BY <1>5
  <1> QED
    BY <1>1, <1>2, <1>3, <1>4, <1>5, StepKinds DEF CloudStep, HandlerEffect, cloudVars, vars

\* What a handler has listed it keeps until it decides.
LEMMA SeenBy ==
  ASSUME SafetyInv, [Next]_vars, NEW c \in Calls, NEW s \in seen'[c]
  PROVE  s \in seen[c] \/ List(c)
  BY DEF SafetyInv, TypeOK, cloudVars, locals, Answer, Goto,
         Next, vars, StartCreate, StartDelete, HandlerStep, CloudStep, List, Adopt, Conflict,
         SendCreate, CreateReply, JobSucceeded, JobStopped, FetchCreated, CheckDelete,
         SendDelete, DeleteReply, DeleteRefused, PollAbsent, PollAgain, CallFails,
         ContextEnds, CloudCreates, CloudDeletes, JobEnds, DeletionEnds, Attaches, OthersCreate

\* A POST that has been accepted is accounted for until its call ends.
LEMMA AppliedBy ==
  ASSUME SafetyInv, [Next]_vars, NEW c \in Calls, Running(c)', kind'[c] = "create", wire'[c] = "applied"
  PROVE  \/ \E v \in Ids : CloudCreates(c, v)
         \/ Running(c) /\ kind[c] = "create" /\ wire[c] = "applied" /\ target'[c] = target[c]
  <1>1. ControlOK(c) BY DEF SafetyInv
  <1>2. wire[c] = "applied" \/ \E v \in Ids : CloudCreates(c, v)
    BY DEF SafetyInv, TypeOK, cloudVars, locals, Forsake,
         Next, vars, StartCreate, StartDelete, HandlerStep, CloudStep, List, Adopt, Conflict,
         SendCreate, CreateReply, JobSucceeded, JobStopped, FetchCreated, CheckDelete,
         SendDelete, DeleteReply, DeleteRefused, PollAbsent, PollAgain, CallFails,
         ContextEnds, CloudCreates, CloudDeletes, JobEnds, DeletionEnds, Attaches, OthersCreate
  <1>3. ASSUME wire[c] = "applied"
        PROVE  Running(c) /\ kind[c] = "create" /\ target'[c] = target[c]
    <2>1. Running(c)
      BY <1>1, <1>3, ComesIntoFlight DEF ControlOK, StartCreate, StartDelete
    <2>2. kind[c] = "create"
      BY <1>1, <1>3, <2>1 DEF ControlOK, Running, SafetyInv, TypeOK, cloudVars, locals,
         Next, vars, StartCreate, StartDelete, HandlerStep, CloudStep, List, Adopt, Conflict,
         SendCreate, CreateReply, JobSucceeded, JobStopped, FetchCreated, CheckDelete,
         SendDelete, DeleteReply, DeleteRefused, PollAbsent, PollAgain, CallFails,
         ContextEnds, CloudCreates, CloudDeletes, JobEnds, DeletionEnds, Attaches, OthersCreate
    <2>3. target'[c] = target[c]
      BY <1>1, <1>3, <2>1 DEF ControlOK, Running, SafetyInv, TypeOK, cloudVars, locals,
         Next, vars, StartCreate, StartDelete, HandlerStep, CloudStep, List, Adopt, Conflict,
         SendCreate, CreateReply, JobSucceeded, JobStopped, FetchCreated, CheckDelete,
         SendDelete, DeleteReply, DeleteRefused, PollAbsent, PollAgain, CallFails,
         ContextEnds, CloudCreates, CloudDeletes, JobEnds, DeletionEnds, Attaches, OthersCreate
    <2> QED BY <2>1, <2>2, <2>3
  <1> QED BY <1>2, <1>3

\* A job succeeds as its volume becomes available, and a volume that ceases to exist was being
\* created or deleted.
LEMMA CloudEnds ==
  ASSUME SafetyInv, [Next]_vars, NEW v \in Ids
  PROVE  /\ job'[v] = "SUCCESS" => job[v] = "SUCCESS" \/ status'[v] = "available"
         /\ status'[v] = "gone" => status[v] \in {"gone", "creating", "deleting"} /\ vol'[v] = vol[v]
  <1> USE DEF SafetyInv, TypeOK
  <1>1. CASE \E c \in Calls : CloudDeletes(c) BY <1>1 DEF CloudDeletes
  <1>2. CASE \E c \in Calls, w \in Ids : CloudCreates(c, w) BY <1>2 DEF CloudCreates
  <1>3. CASE \E w \in Ids : JobEnds(w) \/ DeletionEnds(w) \/ Attaches(w)
    BY <1>3 DEF JobEnds, DeletionEnds, Attaches
  <1>4. CASE \E w \in Ids, r \in Requests : OthersCreate(w, r) BY <1>4 DEF OthersCreate
  <1>5. CASE UNCHANGED cloudVars BY <1>5 DEF cloudVars
  <1> QED
    BY <1>1, <1>2, <1>3, <1>4, <1>5, StepKinds DEF CloudStep, HandlerEffect, cloudVars, vars

\* The inductive step.
LEMMA UsableStep ==
  ASSUME SerialCO, ~LateEffects, UsableInv, [Next]_vars PROVE UsableInv'
  <1> USE DEF UsableInv
  <1>1. UniqueInv' BY UniqueStep
  <1>2. SafetyInv BY DEF UniqueInv
  <1>3. ASSUME NEW c \in Calls, NEW s \in seen'[c], s.vol.owned, s.status \in InUse
        PROVE  status'[s.id] \in InUse
    <2>1. CASE s \in seen[c]
      <3>1. pc[c] = "decide" /\ kind[c] = "create" /\ Running(c)
        BY <1>2, <2>1 DEF SafetyInv, ControlOK, CreatePcs, Running
      <3>2. s.id \in Ids /\ vol[s.id].name = req[c].name
        BY <1>2, <2>1 DEF SafetyInv, TypeOK, Seen, CreateOK, SeenOK
      <3>3. status[s.id] \in InUse BY <1>3, <2>1
      <3> QED BY <3>1, <3>2, <3>3, UsableStays
    <2>2. CASE List(c)
      <3>1. PICK v \in Matches(c) : s = [id |-> v, status |-> status[v], vol |-> vol[v]]
        BY <1>2, <1>3, <2>2 DEF List, SafetyInv, TypeOK
      <3>2. status'[v] = status[v] BY <2>2 DEF List, cloudVars
      <3> QED BY <1>3, <3>1, <3>2
    <2> QED BY <1>2, <2>1, <2>2, SeenBy
  <1>4. ASSUME NEW c \in Calls, Running(c)', kind'[c] = "create", wire'[c] = "applied",
               job'[target'[c]] = "SUCCESS"
        PROVE  status'[target'[c]] \in InUse
    <2>1. CASE \E v \in Ids : CloudCreates(c, v)
      BY <1>2, <1>4, <2>1 DEF CloudCreates, SafetyInv, TypeOK
    <2>2. CASE Running(c) /\ kind[c] = "create" /\ wire[c] = "applied" /\ target'[c] = target[c]
      <3>1. target[c] \in Ids /\ vol[target[c]].name = req[c].name
        BY <1>2, <2>2 DEF SafetyInv, CreateOK, Fits
      <3>2. CASE job[target[c]] = "SUCCESS"
        <4>1. status[target[c]] \in InUse BY <2>2, <3>2
        <4> QED BY <2>2, <3>1, <4>1, UsableStays
      <3>3. CASE status'[target[c]] = "available" BY <2>2, <3>3 DEF InUse
      <3> QED BY <1>2, <1>4, <2>2, <3>1, <3>2, <3>3, CloudEnds
    <2> QED BY <1>2, <1>4, <2>1, <2>2, AppliedBy
  <1>5. ASSUME NEW v \in Ids, status'[v] = "gone" PROVE vol'[v].owned
    <2>1. status[v] \in {"gone", "creating", "deleting"} /\ vol'[v] = vol[v] BY <1>2, <1>5, CloudEnds
    <2> QED BY <1>2, <2>1 DEF SafetyInv, CloudOK
  <1> QED BY <1>1, <1>3, <1>4, <1>5

\* Nothing is listed or created before the first call.
LEMMA UsableInit == Init => UsableInv
  BY UniqueInit DEF Init, UsableInv, Running

\* When a call answers OK, the volume it adopts or has made can be used.
LEMMA OkIsUsable ==
  ASSUME UsableInv, NEW c \in Calls, OkFor(c), kind[c] = "create"
  PROVE  /\ target'[c] \in Ids /\ status[target'[c]] \in InUse /\ vol[target'[c]].owned
         /\ vol[target'[c]].name = req[c].name /\ req[c] \in Requests
  <1> USE DEF UsableInv, UniqueInv
  <1>1. SafetyInv OBVIOUS
  <1>2. CASE pc[c] = "decide" /\ \E s \in Adoptable(c) : target'[c] = s.id
    <2>1. PICK s \in seen[c] : isAdoptable(s, req[c]) /\ target'[c] = s.id BY <1>2 DEF Adoptable
    <2>2. s.id \in Ids /\ SeenOK(c, s) BY <1>1 DEF SafetyInv, TypeOK, Seen, CreateOK
    <2>3. s.vol.owned /\ s.status \in InUse BY <2>1 DEF isAdoptable, InUse
    <2>4. req[c] \in Requests BY <1>1, <1>2 DEF SafetyInv, ControlOK, CreatePcs
    <2> QED BY <2>1, <2>2, <2>3, <2>4 DEF SeenOK
  <1>3. CASE pc[c] = "fetch" /\ target'[c] = target[c] /\ target[c] \in Listed
    <2>1. wire[c] = "applied" /\ req[c] \in Requests BY <1>1, <1>3 DEF SafetyInv, ControlOK, CreatePcs
    <2>2. target[c] \in Ids /\ Fits(target[c], req[c]) /\ job[target[c]] = "SUCCESS"
      BY <1>1, <1>3, <2>1 DEF SafetyInv, CreateOK
    <2> QED BY <1>3, <2>1, <2>2 DEF Running, Fits
  <1> QED BY <1>2, <1>3 DEF OkFor

\* At the moment CreateVolume answers OK the volume can be used: neither the listing it adopted
\* from nor the job it waited for is out of date, for a CO that serialises its calls per name.
THEOREM AnswersUsableVolumeAlways ==
  ASSUME SerialCO, ~LateEffects PROVE Spec => AnswersUsableVolume
  <1>1. ASSUME UsableInv, [Next]_vars, NEW c \in Calls,
               kind[c] = "create", answer[c] # "OK", answer'[c] = "OK"
        PROVE  status[target'[c]] \in InUse
    <2>1. SafetyInv BY <1>1 DEF UsableInv, UniqueInv
    <2>2. CASE \E d \in Calls : HandlerEffect(d) BY <1>1, <2>2, OkIsUsable DEF HandlerEffect
    <2>3. CASE CloudStep \/ UNCHANGED vars
      BY <1>1, <2>3 DEF CloudStep, CloudCreates, CloudDeletes, JobEnds, DeletionEnds, Attaches,
                        OthersCreate, vars
    <2> QED BY <1>1, <2>1, <2>2, <2>3, StepKinds
  <1>2. UsableInv /\ [Next]_vars =>
          [\A c \in Calls : kind[c] = "create" /\ answer[c] # "OK" /\ answer'[c] = "OK"
             => status[target'[c]] \in {"available", "in-use"}]_vars
    BY <1>1 DEF InUse
  <1>3. UsableInv /\ [Next]_vars => UsableInv' BY UsableStep
  <1> QED BY UsableInit, <1>2, <1>3, PTL DEF Spec, AnswersUsableVolume

-----------------------------------------------------------------------------
(* The two handlers implement the store of names.                            *)
Pick(S) == CHOOSE v \in S : TRUE
ResultOf(code, op, v) ==
  IF code # "OK"
  THEN [op |-> IF code = "none" THEN "none" ELSE "failed", id |-> NoId]
  ELSE [op |-> IF op = "create" THEN "created" ELSE "deleted", id |-> v]

\* The refinement mapping of Store.
StoreNow == [n \in Names |-> IF OwnNamed(n) = {} THEN NoId ELSE Pick(OwnNamed(n))]
UsedNow == {v \in Ids : status[v] # "free" /\ vol[v].owned}
ResultNow == [c \in Calls |-> ResultOf(answer[c], kind[c], target[c])]

\* The volume of a set of one.
LEMMA PickOne == ASSUME NEW v PROVE Pick({v}) = v
  BY DEF Pick

\* The store holds what the cloud lists (OneVolumePerName makes it one volume).
LEMMA StoreHolds ==
  ASSUME OneVolumePerName, NEW n \in Names
  PROVE  /\ OwnNamed(n) = {} => StoreNow[n] = NoId
         /\ \A v \in OwnNamed(n) : OwnNamed(n) = {v} /\ StoreNow[n] = v
  <1>1. OwnNamed(n) = {} => StoreNow[n] = NoId BY DEF StoreNow
  <1>2. ASSUME NEW v \in OwnNamed(n) PROVE OwnNamed(n) = {v} /\ StoreNow[n] = v
    <2>1. OwnNamed(n) = {v} BY DEF OwnNamed, OneVolumePerName
    <2>2. StoreNow[n] = Pick(OwnNamed(n)) BY <2>1 DEF StoreNow
    <2> QED BY <2>1, <2>2, PickOne
  <1> QED BY <1>1, <1>2

\* What the store holds is listed.
LEMMA HeldIsListed ==
  ASSUME OneVolumePerName PROVE \A n \in Names : StoreNow[n] \in Listed \cup {NoId}
  <1> SUFFICES ASSUME NEW n \in Names PROVE StoreNow[n] \in Listed \cup {NoId} OBVIOUS
  <1>1. CASE OwnNamed(n) = {} BY <1>1, StoreHolds
  <1>2. ASSUME NEW v \in OwnNamed(n) PROVE StoreNow[n] \in Listed BY StoreHolds DEF OwnNamed
  <1> QED BY <1>1, <1>2

\* Where no volume of the driver's own comes or goes, the store stays as it is.
LEMMA StoreStays ==
  ASSUME \A n \in Names : OwnNamed(n)' = OwnNamed(n) PROVE StoreNow' = StoreNow
  BY DEF StoreNow

\* An accepted POST is a volume that appears under a free name.
LEMMA CreatesIsAppear ==
  ASSUME UsableInv, UsableInv', NEW c \in Calls, NEW v \in Ids, CloudCreates(c, v)
  PROVE  Store!StoreNext
  <1> USE DEF UsableInv, UniqueInv
  <1> DEFINE n == req[c].name
  <1>1. SafetyInv /\ NameFree(c) BY DEF CloudCreates
  <1>2. req[c] \in Requests /\ answer[c] # "OK" BY <1>1 DEF CloudCreates, SafetyInv, ControlOK
  <1>3. n \in Names BY <1>2, RequestsAssumption DEF Request
  <1>4. /\ status[v] = "free" /\ status' = [status EXCEPT ![v] = "creating"]
        /\ vol'[v].name = n /\ vol'[v].owned /\ \A w \in Ids : w # v => vol'[w] = vol[w]
    BY <1>1 DEF CloudCreates, SafetyInv, TypeOK
  <1>5. OwnNamed(n) = {} BY <1>1 DEF NameFree, OwnNamed
  <1>6. ASSUME NEW m \in Names PROVE OwnNamed(m)' = IF m = n THEN {v} ELSE OwnNamed(m)
    <2>1. \A w \in Ids : w # v => (w \in Listed' <=> w \in Listed) /\ vol'[w] = vol[w]
      BY <1>1, <1>4 DEF Listed, SafetyInv, TypeOK
    <2>2. v \in Listed' /\ v \notin Listed BY <1>1, <1>4 DEF Listed, Live, SafetyInv, TypeOK
    <2>3. \A w \in Ids : w # v => (w \in OwnNamed(m)' <=> w \in OwnNamed(m)) BY <2>1 DEF OwnNamed
    <2>4. v \in OwnNamed(m)' <=> m = n BY <1>4, <2>2 DEF OwnNamed
    <2>5. v \notin OwnNamed(m) BY <2>2 DEF OwnNamed
    <2>6. OwnNamed(m) \subseteq Ids /\ OwnNamed(m)' \subseteq Ids BY DEF OwnNamed, Listed
    <2>7. CASE m = n BY <1>5, <2>3, <2>4, <2>6, <2>7
    <2>8. CASE m # n
      <3>1. \A w : w \in OwnNamed(m)' <=> w \in OwnNamed(m) BY <2>3, <2>4, <2>5, <2>6, <2>8
      <3> QED BY <2>8, <3>1
    <2> QED BY <2>7, <2>8
  <1>7. StoreNow[n] = NoId BY <1>3, <1>5 DEF StoreNow
  <1>8. StoreNow' = [StoreNow EXCEPT ![n] = v]
    <2>1. \A m \in Names : StoreNow'[m] = IF m = n THEN v ELSE StoreNow[m]
      <3> SUFFICES ASSUME NEW m \in Names PROVE StoreNow'[m] = IF m = n THEN v ELSE StoreNow[m] OBVIOUS
      <3>1. StoreNow'[m] = IF OwnNamed(m)' = {} THEN NoId ELSE Pick(OwnNamed(m)') BY DEF StoreNow
      <3>2. StoreNow[m] = IF OwnNamed(m) = {} THEN NoId ELSE Pick(OwnNamed(m)) BY DEF StoreNow
      <3>3. CASE m = n BY <1>6, <3>1, <3>3, PickOne
      <3>4. CASE m # n BY <1>6, <3>1, <3>2, <3>4
      <3> QED BY <3>3, <3>4
    <2>2. StoreNow' = [m \in Names |-> StoreNow'[m]] /\ StoreNow = [m \in Names |-> StoreNow[m]] BY DEF StoreNow
    <2> QED BY <2>1, <2>2
  <1>9. v \notin UsedNow /\ UsedNow' = UsedNow \cup {v}
    BY <1>1, <1>4 DEF UsedNow, SafetyInv, TypeOK
  <1>10. ResultNow' = ResultNow
    <2>1. /\ UNCHANGED <<answer, kind>> /\ \A d \in Calls : d # c => target'[d] = target[d]
      BY <1>1 DEF CloudCreates, SafetyInv, TypeOK
    <2>2. \A d \in Calls : ResultOf(answer[d], kind[d], target'[d]) = ResultOf(answer[d], kind[d], target[d])
      BY <1>2, <2>1 DEF ResultOf
    <2> QED BY <2>1, <2>2 DEF ResultNow
  <1>11. Store!Appear(n, v)
    BY <1>7, <1>8, <1>9, <1>10 DEF Store!Appear, StoreNow, UsedNow, ResultNow, ResultOf, Pick
  <1> QED BY <1>3, <1>11 DEF Store!StoreNext

\* A volume that ceases to exist vanishes from under its name.
LEMMA EndIsVanish ==
  ASSUME UsableInv, UsableInv', NEW v \in Ids, status[v] \in Live,
         status' = [status EXCEPT ![v] = "gone"], UNCHANGED <<vol, answer, kind, target>>
  PROVE  Store!StoreNext \/ UNCHANGED Store!storeVars
  <1> USE DEF UsableInv, UniqueInv
  <1> DEFINE n == vol[v].name
  <1>1. SafetyInv /\ OneVolumePerName OBVIOUS
  <1>2. ASSUME NEW m \in Names PROVE OwnNamed(m)' = OwnNamed(m) \ {v}
    <2>1. Listed' = Listed \ {v} BY <1>1 DEF Listed, Live, SafetyInv, TypeOK
    <2> QED BY <2>1 DEF OwnNamed
  <1>3. UsedNow' = UsedNow BY <1>1 DEF UsedNow, SafetyInv, TypeOK, Live
  <1>4. ResultNow' = ResultNow BY DEF ResultNow
  <1>5. CASE \E m \in Names : v \in OwnNamed(m)
    <2>1. PICK m \in Names : v \in OwnNamed(m) BY <1>5
    <2>2. OwnNamed(m) = {v} /\ StoreNow[m] = v BY <1>1, <2>1, StoreHolds
    <2>3. \A l \in Names : l # m => v \notin OwnNamed(l) BY <2>1 DEF OwnNamed
    <2>4. \A l \in Names : OwnNamed(l)' = IF l = m THEN {} ELSE OwnNamed(l)
      <3> SUFFICES ASSUME NEW l \in Names PROVE OwnNamed(l)' = IF l = m THEN {} ELSE OwnNamed(l) OBVIOUS
      <3>1. CASE l = m BY <1>2, <2>2, <3>1
      <3>2. CASE l # m BY <1>2, <2>3, <3>2
      <3> QED BY <3>1, <3>2
    <2>5. StoreNow' = [StoreNow EXCEPT ![m] = NoId]
      <3>1. \A l \in Names : StoreNow'[l] = IF l = m THEN NoId ELSE StoreNow[l] BY <2>4 DEF StoreNow
      <3>2. StoreNow' = [l \in Names |-> StoreNow'[l]] /\ StoreNow = [l \in Names |-> StoreNow[l]] BY DEF StoreNow
      <3> QED BY <3>1, <3>2
    <2>6. StoreNow[m] # NoId BY <2>2, IdsAssumption
    <2>7. Store!Vanish(m)
      BY <1>3, <1>4, <2>5, <2>6 DEF Store!Vanish, StoreNow, UsedNow, ResultNow, ResultOf, Pick
    <2> QED BY <2>7 DEF Store!StoreNext
  <1>6. CASE ~\E m \in Names : v \in OwnNamed(m)
    <2>1. StoreNow' = StoreNow BY <1>2, <1>6, StoreStays
    <2> QED BY <1>3, <1>4, <2>1 DEF Store!storeVars, StoreNow, UsedNow, ResultNow, ResultOf, Pick
  <1> QED BY <1>5, <1>6

\* The other steps of the cloud are not seen in the store.
LEMMA CloudIsSilent ==
  ASSUME SafetyInv, SafetyInv', UNCHANGED <<answer, kind, target>>,
         \A v \in Ids : /\ vol[v].owned /\ status[v] # "free" <=> vol'[v].owned /\ status'[v] # "free"
                        /\ (v \in Listed /\ vol[v].owned) \/ (v \in Listed' /\ vol'[v].owned) =>
                             v \in Listed /\ v \in Listed' /\ vol'[v] = vol[v]
  PROVE  UNCHANGED Store!storeVars
  <1>1. \A n \in Names : OwnNamed(n)' = OwnNamed(n)
    <2> SUFFICES ASSUME NEW n \in Names, NEW v PROVE v \in OwnNamed(n)' <=> v \in OwnNamed(n)
      OBVIOUS
    <2>1. v \in Listed \/ v \in Listed' => v \in Ids BY DEF Listed
    <2>2. CASE v \in OwnNamed(n)
      <3>1. v \in Listed /\ vol[v].owned /\ vol[v].name = n BY <2>2 DEF OwnNamed
      <3>2. v \in Listed' /\ vol'[v] = vol[v] BY <2>1, <3>1
      <3> QED BY <2>2, <3>1, <3>2 DEF OwnNamed
    <2>3. CASE v \in OwnNamed(n)'
      <3>1. v \in Listed' /\ vol'[v].owned /\ vol'[v].name = n BY <2>3 DEF OwnNamed
      <3>2. v \in Listed /\ vol'[v] = vol[v] BY <2>1, <3>1
      <3> QED BY <2>3, <3>1, <3>2 DEF OwnNamed
    <2> QED BY <2>2, <2>3
  <1>2. StoreNow' = StoreNow BY <1>1, StoreStays
  <1>3. UsedNow' = UsedNow BY DEF UsedNow
  <1>4. ResultNow' = ResultNow BY DEF ResultNow
  <1> QED BY <1>2, <1>3, <1>4 DEF Store!storeVars, StoreNow, UsedNow, ResultNow, ResultOf, Pick

\* A step of a handler leaves the store alone, and its answer is what the store says.
LEMMA AnswerIsTrue ==
  ASSUME UsableInv, UsableInv', NEW c \in Calls, HandlerEffect(c)
  PROVE  Store!StoreNext \/ UNCHANGED Store!storeVars
  <1> USE DEF UsableInv, UniqueInv
  <1>1. SafetyInv /\ SafetyInv' /\ OneVolumePerName OBVIOUS
  <1>2. StoreNow' = StoreNow /\ UsedNow' = UsedNow
    <2>1. UNCHANGED <<status, vol>> BY DEF HandlerEffect, cloudVars
    <2>2. \A n \in Names : OwnNamed(n)' = OwnNamed(n) BY <2>1 DEF OwnNamed, Listed
    <2> QED BY <2>1, <2>2, StoreStays DEF UsedNow
  <1> DEFINE res == ResultOf(answer'[c], kind'[c], target'[c])
  <1>3. ResultNow' = [ResultNow EXCEPT ![c] = res] BY DEF ResultNow, HandlerEffect
  <1>4. ResultNow[c].op = "none" /\ ResultNow[c] = ResultOf("none", kind[c], target[c])
    BY DEF ResultNow, ResultOf, HandlerEffect
  <1>5. CASE answer'[c] = "none"
    <2>1. res = ResultNow[c] BY <1>4, <1>5 DEF ResultOf
    <2>2. ResultNow' = ResultNow BY <1>3, <2>1 DEF ResultNow
    <2> QED BY <1>2, <2>2 DEF Store!storeVars, StoreNow, UsedNow, ResultNow, ResultOf, Pick
  <1>6. CASE answer'[c] \notin {"none", "OK"}
    <2>1. res = [op |-> "failed", id |-> NoId] BY <1>6 DEF ResultOf
    <2>2. Store!AnswerFailed(c)
      BY <1>2, <1>3, <1>4, <2>1
         DEF Store!AnswerFailed, Store!Result, StoreNow, UsedNow, ResultNow, ResultOf, Pick
    <2> QED BY <2>2 DEF Store!StoreNext
  <1>7. CASE answer'[c] = "OK" /\ kind[c] = "create"
    <2>1. kind'[c] = kind[c] /\ OkFor(c) BY <1>7 DEF HandlerEffect
    <2>2. PICK v \in Ids : /\ v = target'[c] /\ status[v] \in InUse /\ vol[v].owned
                           /\ vol[v].name = req[c].name /\ req[c] \in Requests
      BY <1>7, <2>1, OkIsUsable
    <2>3. PICK n \in Names : n = req[c].name BY <2>2, RequestsAssumption DEF Request
    <2>4. v \in OwnNamed(n) BY <2>2, <2>3 DEF OwnNamed, Listed, Live, InUse
    <2>5. StoreNow[n] = v BY <1>1, <2>3, <2>4, StoreHolds
    <2>6. res = [op |-> "created", id |-> StoreNow[n]] BY <1>7, <2>1, <2>2, <2>5 DEF ResultOf
    <2>7. StoreNow[n] # NoId BY <2>2, <2>5, IdsAssumption
    <2>8. Store!AnswerCreated(c, n)
      BY <1>2, <1>3, <1>4, <2>6, <2>7
         DEF Store!AnswerCreated, Store!Result, StoreNow, UsedNow, ResultNow, ResultOf, Pick
    <2> QED BY <2>8 DEF Store!StoreNext
  <1>8. CASE answer'[c] = "OK" /\ kind[c] # "create"
    <2>1. kind'[c] = kind[c] /\ OkFor(c) BY <1>8 DEF HandlerEffect
    <2>2. kind[c] = "delete" /\ target[c] \notin Listed /\ target'[c] = target[c]
      BY <1>1, <1>8, <2>1 DEF OkFor, SafetyInv, ControlOK, CreatePcs
    <2>3. PICK v \in Ids : v = target[c] /\ status[v] # "free" BY <1>1, <2>2 DEF SafetyInv, DeleteOK
    <2>4. status[v] = "gone" BY <1>1, <2>2, <2>3 DEF SafetyInv, TypeOK, Status, Listed
    <2>5. v \in UsedNow BY <2>3, <2>4 DEF UsedNow
    <2>6. \A n \in Names : StoreNow[n] # v BY <1>1, <2>2, <2>3, HeldIsListed, IdsAssumption
    <2>7. res = [op |-> "deleted", id |-> v] BY <1>8, <2>1, <2>2, <2>3 DEF ResultOf
    <2>8. Store!AnswerDeleted(c, v)
      BY <1>2, <1>3, <1>4, <2>5, <2>6, <2>7
         DEF Store!AnswerDeleted, Store!Result, Store!Held, StoreNow, UsedNow, ResultNow, ResultOf, Pick
    <2> QED BY <2>8 DEF Store!StoreNext
  <1> QED BY <1>5, <1>6, <1>7, <1>8

\* To a CO that serialises its calls the two handlers are the store of NameStore: volumes come and
\* go one at a time, and every OK is true of the store when it is answered.
THEOREM ImplementsNameStoreAlways ==
  ASSUME SerialCO, ~LateEffects PROVE Spec => ImplementsNameStore
  <1>1. ASSUME Init PROVE Store!StoreInit
    <2>1. \A n \in Names : OwnNamed(n) = {} BY <1>1 DEF Init, OwnNamed, Listed, Live
    <2>2. StoreNow = [n \in Names |-> NoId] BY <2>1 DEF StoreNow
    <2>3. UsedNow = {} BY <1>1 DEF Init, UsedNow
    <2>4. ResultNow = [c \in Calls |-> [op |-> "none", id |-> NoId]]
      BY <1>1 DEF Init, ResultNow, ResultOf
    <2> QED BY <2>2, <2>3, <2>4 DEF Store!StoreInit, Store!Result, StoreNow, UsedNow, ResultNow, ResultOf, Pick
  <1>2. ASSUME UsableInv, UsableInv', [Next]_vars PROVE [Store!StoreNext]_(Store!storeVars)
    <2> USE <1>2 DEF UsableInv, UniqueInv
    <2>1. SafetyInv /\ SafetyInv' OBVIOUS
    <2>2. CASE \E c \in Calls : HandlerEffect(c) BY <2>2, AnswerIsTrue
    <2>3. CASE \E c \in Calls, v \in Ids : CloudCreates(c, v) BY <2>3, CreatesIsAppear
    <2> USE DEF SafetyInv, TypeOK, Listed, Live
    <2>4. ASSUME NEW v \in Ids, JobEnds(v) \/ DeletionEnds(v) PROVE [Store!StoreNext]_(Store!storeVars)
      <3>1. status[v] \in {"creating", "deleting"} /\ UNCHANGED <<vol, answer, kind, target>>
        BY <2>4 DEF JobEnds, DeletionEnds
      <3>2. \E s \in {"available", "error", "error_deleting", "gone"} : status' = [status EXCEPT ![v] = s]
        BY <2>4 DEF JobEnds, DeletionEnds
      <3>3. CASE status' = [status EXCEPT ![v] = "gone"] BY <3>1, <3>3, EndIsVanish
      <3>4. CASE \E s \in {"available", "error", "error_deleting"} : status' = [status EXCEPT ![v] = s]
        <4>1. \A w \in Ids : (status'[w] = "free" <=> status[w] = "free") /\ (w \in Listed' <=> w \in Listed)
          BY <3>1, <3>4
        <4> QED BY <2>1, <3>1, <4>1, CloudIsSilent
      <3> QED BY <3>2, <3>3, <3>4
    <2>5. ASSUME NEW v \in Ids, Attaches(v) PROVE [Store!StoreNext]_(Store!storeVars)
      <3>1. \A w \in Ids : (status'[w] = "free" <=> status[w] = "free") /\ (w \in Listed' <=> w \in Listed)
        BY <2>5 DEF Attaches
      <3>2. UNCHANGED <<vol, answer, kind, target>> BY <2>5 DEF Attaches
      <3> QED BY <2>1, <3>1, <3>2, CloudIsSilent
    <2>6. ASSUME NEW c \in Calls, CloudDeletes(c) PROVE [Store!StoreNext]_(Store!storeVars)
      <3>1. \A w \in Ids : (status'[w] = "free" <=> status[w] = "free") /\ (w \in Listed' <=> w \in Listed)
        BY <2>6 DEF CloudDeletes, Deletable
      <3>2. UNCHANGED <<vol, answer, kind, target>> BY <2>6 DEF CloudDeletes
      <3> QED BY <2>1, <3>1, <3>2, CloudIsSilent
    <2>7. ASSUME NEW v \in Ids, NEW r \in Requests, OthersCreate(v, r)
          PROVE  [Store!StoreNext]_(Store!storeVars)
      <3>1. status[v] = "free" /\ ~vol'[v].owned /\ UNCHANGED <<answer, kind, target>>
        BY <2>7 DEF OthersCreate
      <3>2. \A w \in Ids : w # v => vol'[w] = vol[w] /\ status'[w] = status[w]
        BY <2>7 DEF OthersCreate
      <3>3. v \notin Listed BY <3>1
      <3> QED BY <2>1, <3>1, <3>2, <3>3, CloudIsSilent
    <2>8. CASE UNCHANGED vars
      <3>1. UNCHANGED <<status, vol, answer, kind, target>> BY <2>8 DEF vars
      <3> QED BY <2>1, <3>1, CloudIsSilent
    <2> QED BY <2>1, <2>2, <2>3, <2>4, <2>5, <2>6, <2>7, <2>8, StepKinds DEF CloudStep
  <1>3. UsableInv /\ [Next]_vars => UsableInv' BY UsableStep
  <1> QED BY UsableInit, <1>1, <1>2, <1>3, PTL DEF Spec, ImplementsNameStore, Store!StoreSpec
=============================================================================
