-------------------------- MODULE AttachmentProofs --------------------------
(***************************************************************************)
(* What holds of Attachment for any number of servers.                     *)
(***************************************************************************)
EXTENDS Attachment, TLAPS

\* The CO that the driver is written for.
OrderlyCO == PatientCO /\ SteadyCO

\* A call is about what the CO wanted when it started, and wants still.
CallIsWanted == \A s \in Servers : pc[s] # "idle" => op[s] = want[s] /\ want[s] # "none"

\* Only a volume that is free has no holder.
HolderKnown == holder = NoServer <=> phase = "available"

\* An attach or a detach under way is wanted by the CO.
MovesAreWanted ==
  /\ phase = "attaching" => want[holder] = "attach"
  /\ phase = "detaching" => want[holder] = "detach"

\* What has been published is still wanted.
PublishedIsWanted == \A s \in Servers : published[s] => want[s] = "attach"

\* The invariant with any CO, and what an orderly one adds.
AnyCOInv == TypeOK /\ CallIsWanted /\ HolderKnown
OrderlyInv == MovesAreWanted /\ PublishedIsWanted /\ PublishedIsAttached /\ UnpublishedIsFree

IInv == AnyCOInv /\ (OrderlyCO => OrderlyInv)
Places == {"look", "request", "probe", "job", "wait"}
Fallbacks == {"own", "Unavailable", "Internal", "InvalidArgument"}

\* What a step of a handler does besides moving on.
Counted == faults' \in 0 .. MaxFaults
FallbackTyped == fallback' \in [Servers -> Fallbacks]

LEMMA FaultCounts ==
  ASSUME TypeOK, Fault
  PROVE  Counted
BY FaultsAssumption DEF TypeOK, Fault, Counted

\* The initial state satisfies the invariant.
LEMMA InitIInv == Init => IInv
<1> SUFFICES ASSUME Init PROVE IInv
  OBVIOUS
<1>1. faults \in 0 .. MaxFaults
  BY FaultsAssumption DEF Init
<1>2. published \in [Servers -> BOOLEAN] /\ \A s \in Servers : ~published[s]
  BY DEF Init
<1>3. TypeOK
  BY <1>1, <1>2 DEF Init, TypeOK
<1> QED
  BY <1>2, <1>3, ServersAssumption
  DEF Init, IInv, AnyCOInv, CallIsWanted, HolderKnown, OrderlyInv, MovesAreWanted,
      PublishedIsWanted, PublishedIsAttached, UnpublishedIsFree

\* A handler that moves on without touching the cloud or the CO.
LEMMA MoveInv ==
  ASSUME IInv, NEW s \in Servers, NEW place \in Places, pc[s] # "idle",
         Goto(s, place), UNCHANGED <<cloudVars, coVars, op, job, last>>, FallbackTyped, Counted
  PROVE  IInv'
<1>1. UNCHANGED <<phase, holder, device, want, published, op, job, last>>
  BY DEF cloudVars, coVars
<1>2. pc' \in [Servers -> {"idle"} \cup Places] /\ \A t \in Servers : pc'[t] # "idle" => pc[t] # "idle"
  BY DEF Goto, IInv, AnyCOInv, TypeOK, Places
<1>3. TypeOK'
  BY <1>1, <1>2 DEF IInv, AnyCOInv, TypeOK, Places, FallbackTyped, Fallbacks, Counted
<1> QED
  BY <1>1, <1>2, <1>3
  DEF IInv, AnyCOInv, CallIsWanted, HolderKnown, OrderlyInv, MovesAreWanted, PublishedIsWanted,
      PublishedIsAttached, UnpublishedIsFree

\* The cloud takes the request of a handler, which waits for it.
LEMMA AcceptInv ==
  ASSUME IInv, NEW s \in Servers, NEW place \in Places, pc[s] # "idle",
         Goto(s, place), Accept(s), UNCHANGED <<coVars, op, last>>, FallbackTyped, Counted
  PROVE  IInv'
<1>1. UNCHANGED <<device, want, published, op, last>>
  BY DEF Accept, coVars
<1>2. pc' \in [Servers -> {"idle"} \cup Places] /\ \A t \in Servers : pc'[t] # "idle" => pc[t] # "idle"
  BY DEF Goto, IInv, AnyCOInv, TypeOK, Places
<1>3. holder' = s /\ phase' = (IF op[s] = "attach" THEN "attaching" ELSE "detaching")
  BY DEF Accept
<1>4. TypeOK'
  BY <1>1, <1>2, <1>3 DEF IInv, AnyCOInv, TypeOK, Places, FallbackTyped, Fallbacks, Counted, Accept
<1>5. op[s] = want[s] /\ want[s] \in {"attach", "detach"}
  BY DEF IInv, AnyCOInv, CallIsWanted, TypeOK
<1>6. CallIsWanted' /\ HolderKnown'
  BY <1>1, <1>2, <1>3, ServersAssumption DEF IInv, AnyCOInv, CallIsWanted, HolderKnown
<1>7. ASSUME OrderlyCO PROVE OrderlyInv'
  <2>1. OrderlyInv
    BY <1>7 DEF IInv
  <2>2. MovesAreWanted' /\ PublishedIsWanted' /\ UnpublishedIsFree'
    BY <1>1, <1>3, <1>5, <2>1
    DEF OrderlyInv, MovesAreWanted, PublishedIsWanted, UnpublishedIsFree
  <2>3. \A t \in Servers : ~published[t]
    BY <1>5, <2>1, ServersAssumption
    DEF Accept, Acceptable, OrderlyInv, PublishedIsAttached, PublishedIsWanted
  <2>4. PublishedIsAttached'
    BY <1>1, <2>3 DEF PublishedIsAttached
  <2> QED BY <2>2, <2>4 DEF OrderlyInv
<1> QED BY <1>4, <1>6, <1>7 DEF IInv, AnyCOInv

\* OK is answered only in the state that was asked for.
Truthful(s, code) == code = "OK" => Settled(s) /\ (op[s] = "attach" => device = "dev")

\* A handler that answers.
LEMMA AnswerInv ==
  ASSUME IInv, NEW s \in Servers, NEW code \in Codes, pc[s] # "idle",
         Answer(s, code), Truthful(s, code), UNCHANGED <<cloudVars, op, fallback, job>>, Counted
  PROVE  IInv'
<1>1. UNCHANGED <<phase, holder, device, op, fallback, job>>
  BY DEF cloudVars
<1>2. \A t \in Servers : pc'[t] = IF t = s THEN "idle" ELSE pc[t]
  BY DEF Answer, IInv, AnyCOInv, TypeOK
<1>3. \A t \in Servers :
        want'[t] = IF t = s /\ code = "OK" /\ op[s] = "detach" THEN "none" ELSE want[t]
  BY DEF Answer, IInv, AnyCOInv, TypeOK
<1>4. \A t \in Servers \ {s} : published'[t] = published[t]
  BY DEF Answer, IInv, AnyCOInv, TypeOK
<1>5. published'[s] => code = "OK" /\ op[s] = "attach"
  BY DEF Answer, IInv, AnyCOInv, TypeOK
<1>6. published' \in [Servers -> BOOLEAN]
  BY DEF Answer, IInv, AnyCOInv, TypeOK
<1>7. TypeOK'
  BY <1>1, <1>6 DEF Answer, IInv, AnyCOInv, TypeOK, Counted
<1>8. CallIsWanted' /\ HolderKnown'
  BY <1>1, <1>2, <1>3 DEF IInv, AnyCOInv, CallIsWanted, HolderKnown
<1>9. op[s] = want[s]
  BY DEF IInv, AnyCOInv, CallIsWanted
<1>10. ASSUME OrderlyCO PROVE OrderlyInv'
  <2>1. OrderlyInv
    BY <1>10 DEF IInv
  <2>2. code = "OK" /\ op[s] = "detach" => holder # s
    BY <1>9, <2>1, ServersAssumption
    DEF Truthful, Settled, detached, Listed, OrderlyInv, MovesAreWanted, IInv, AnyCOInv, TypeOK,
        HolderKnown
  <2>3. code = "OK" /\ op[s] = "attach" => holder = s /\ phase = "in-use" /\ device = "dev"
    BY <1>9, <2>1
    DEF Truthful, Settled, attachedWithDevice, Listed, OrderlyInv, MovesAreWanted
  <2>4. MovesAreWanted'
    <3>1. phase \in {"attaching", "detaching"} => holder \in Servers
      BY DEF IInv, AnyCOInv, TypeOK, HolderKnown
    <3> QED BY <1>1, <1>3, <2>1, <2>2, <3>1 DEF OrderlyInv, MovesAreWanted
  <2>5. PublishedIsWanted'
    BY <1>3, <1>4, <1>5, <1>9, <2>1 DEF OrderlyInv, PublishedIsWanted
  <2>6. PublishedIsAttached'
    BY <1>1, <1>4, <1>5, <2>1, <2>3 DEF OrderlyInv, PublishedIsAttached
  <2>7. UnpublishedIsFree'
    BY <1>1, <1>3, <2>1, <2>2 DEF OrderlyInv, UnpublishedIsFree
  <2> QED BY <2>4, <2>5, <2>6, <2>7 DEF OrderlyInv
<1> QED BY <1>7, <1>8, <1>10 DEF IInv, AnyCOInv

\* The CO changes its mind only between calls.
LEMMA WantAttachInv ==
  ASSUME IInv, NEW s \in Servers, WantAttach(s)
  PROVE  IInv'
<1>1. UNCHANGED <<phase, holder, device, published, op, pc, fallback, job, last, faults>>
  BY DEF WantAttach, cloudVars
<1>2. \A t \in Servers : want'[t] = IF t = s THEN "attach" ELSE want[t]
  BY DEF WantAttach, IInv, AnyCOInv, TypeOK
<1>3. TypeOK'
  BY <1>1 DEF WantAttach, IInv, AnyCOInv, TypeOK
<1>4. CallIsWanted' /\ HolderKnown'
  BY <1>1, <1>2 DEF WantAttach, IInv, AnyCOInv, CallIsWanted, HolderKnown
<1>5. ASSUME OrderlyCO PROVE OrderlyInv'
  <2>1. OrderlyInv /\ want[s] = "none" /\ holder # s
    BY <1>5 DEF IInv, WantAttach, OrderlyCO, OrderlyInv, UnpublishedIsFree
  <2>2. phase \in {"attaching", "detaching"} => holder \in Servers
    BY DEF IInv, AnyCOInv, TypeOK, HolderKnown
  <2> QED
    BY <1>1, <1>2, <2>1, <2>2
    DEF OrderlyInv, MovesAreWanted, PublishedIsWanted, PublishedIsAttached, UnpublishedIsFree
<1> QED BY <1>3, <1>4, <1>5 DEF IInv, AnyCOInv

LEMMA WantDetachInv ==
  ASSUME IInv, NEW s \in Servers, WantDetach(s)
  PROVE  IInv'
<1>1. UNCHANGED <<phase, holder, device, op, pc, fallback, job, last, faults>>
  BY DEF WantDetach, cloudVars
<1>2. \A t \in Servers : want'[t] = IF t = s THEN "detach" ELSE want[t]
  BY DEF WantDetach, IInv, AnyCOInv, TypeOK
<1>3. \A t \in Servers : published'[t] => t # s /\ published[t]
  BY DEF WantDetach, IInv, AnyCOInv, TypeOK
<1>4. TypeOK'
  <2>1. published' \in [Servers -> BOOLEAN]
    BY DEF WantDetach, IInv, AnyCOInv, TypeOK
  <2> QED BY <1>1, <2>1 DEF WantDetach, IInv, AnyCOInv, TypeOK
<1>5. CallIsWanted' /\ HolderKnown'
  BY <1>1, <1>2 DEF WantDetach, IInv, AnyCOInv, CallIsWanted, HolderKnown
<1>6. ASSUME OrderlyCO PROVE OrderlyInv'
  <2>1. OrderlyInv /\ holder = s /\ phase = "in-use"
    BY <1>6 DEF IInv, WantDetach, OrderlyCO, OrderlyInv, PublishedIsAttached
  <2> QED
    BY <1>1, <1>2, <1>3, <2>1
    DEF OrderlyInv, MovesAreWanted, PublishedIsWanted, PublishedIsAttached, UnpublishedIsFree
<1> QED BY <1>4, <1>5, <1>6 DEF IInv, AnyCOInv

LEMMA StartInv ==
  ASSUME IInv, NEW s \in Servers, Start(s)
  PROVE  IInv'
<1>1. UNCHANGED <<phase, holder, device, want, published, job, last, faults>>
  BY DEF Start, cloudVars, coVars
<1>2. \A t \in Servers : /\ op'[t] = IF t = s THEN want[s] ELSE op[t]
                         /\ pc'[t] = IF t = s THEN "look" ELSE pc[t]
  BY DEF Start, IInv, AnyCOInv, TypeOK
<1>3. TypeOK'
  BY <1>1 DEF Start, IInv, AnyCOInv, TypeOK
<1>4. CallIsWanted' /\ HolderKnown'
  BY <1>1, <1>2 DEF Start, IInv, AnyCOInv, CallIsWanted, HolderKnown
<1>5. OrderlyInv => OrderlyInv'
  BY <1>1 DEF OrderlyInv, MovesAreWanted, PublishedIsWanted, PublishedIsAttached, UnpublishedIsFree
<1> QED BY <1>3, <1>4, <1>5 DEF IInv, AnyCOInv

\* The cloud settles what it has accepted, or takes it back.
LEMMA CloudInv ==
  ASSUME IInv, CloudSettles \/ JobFails
  PROVE  IInv'
<1>1. UNCHANGED <<want, published, op, pc, fallback, last>>
  BY DEF CloudSettles, AttachSettles, DeviceNamed, DetachSettles, JobFails, coVars
<1>2. Counted
  BY FaultsAssumption
  DEF CloudSettles, AttachSettles, DeviceNamed, DetachSettles, JobFails, Fault, Counted, IInv,
      AnyCOInv, TypeOK
<1>3. phase' \in {"available", "in-use"} /\ holder' \in {holder, NoServer}
  BY DEF CloudSettles, AttachSettles, DeviceNamed, DetachSettles, JobFails
<1>4. HolderKnown'
  BY ServersAssumption
  DEF CloudSettles, AttachSettles, DeviceNamed, DetachSettles, JobFails, IInv, AnyCOInv, HolderKnown
<1>5. device' \in DeviceNames \cup {"none"} /\ job' \in [Servers -> {"none", "running", "SUCCESS", "FAIL"}]
  BY DEF CloudSettles, AttachSettles, DeviceNamed, DetachSettles, JobFails, IInv, AnyCOInv, TypeOK
<1>6. TypeOK'
  BY <1>1, <1>2, <1>3, <1>5 DEF IInv, AnyCOInv, TypeOK, Counted
<1>7. CallIsWanted'
  BY <1>1 DEF IInv, AnyCOInv, CallIsWanted
<1>8. phase \in {"attaching", "detaching"} \/ (phase = "in-use" /\ device = "none")
  BY DEF CloudSettles, AttachSettles, DeviceNamed, DetachSettles, JobFails
<1>9. ASSUME OrderlyCO PROVE OrderlyInv'
  <2>1. OrderlyInv
    BY <1>9 DEF IInv
  <2>2. \A s \in Servers : ~published[s]
    BY <1>8, <2>1 DEF OrderlyInv, PublishedIsAttached
  <2>3. MovesAreWanted' /\ PublishedIsWanted' /\ PublishedIsAttached'
    BY <1>1, <1>3, <2>2 DEF MovesAreWanted, PublishedIsWanted, PublishedIsAttached
  <2>4. UnpublishedIsFree'
    BY <1>1, <1>3, <2>1, ServersAssumption DEF OrderlyInv, UnpublishedIsFree
  <2> QED BY <2>3, <2>4 DEF OrderlyInv
<1> QED BY <1>4, <1>6, <1>7, <1>9 DEF IInv, AnyCOInv

\* The steps of a handler that succeed.
LEMMA HandlerStepInv ==
  ASSUME IInv, NEW s \in Servers, HandlerStep(s)
  PROVE  IInv'
<1> USE DEF Places, Fallbacks
<1>0. Counted \/ Fault
  BY DEF HandlerStep, Look, RequestAccepted, RequestRefused, Probe, JobPolled, WaitEnds, WaitExpires,
         Counted, IInv, AnyCOInv, TypeOK
<1>1. Counted
  BY <1>0, FaultCounts DEF IInv, AnyCOInv
<1>2. fallback' = fallback => FallbackTyped
  BY DEF FallbackTyped, IInv, AnyCOInv, TypeOK
<1>3. \A c \in Fallbacks : fallback' = [fallback EXCEPT ![s] = c] => FallbackTyped
  BY DEF FallbackTyped, IInv, AnyCOInv, TypeOK
<1>4. CASE Look(s)
  <2>1. CASE Settled(s) /\ Answer(s, Success(s))
    <3>1. Truthful(s, Success(s)) /\ Success(s) \in Codes
      BY <2>1 DEF Truthful, Success, Codes
    <3> QED BY <1>1, <1>4, <2>1, <3>1, AnswerInv DEF Look
  <2>2. CASE /\ Goto(s, IF op[s] = "attach" /\ Listed(s) THEN "wait" ELSE "request")
             /\ UNCHANGED <<coVars, last>>
    BY <1>1, <1>2, <1>4, <2>2, MoveInv DEF Look
  <2> QED BY <1>4, <2>1, <2>2 DEF Look
<1>5. CASE RequestAccepted(s)
  <2>1. CASE Goto(s, "job") /\ UNCHANGED <<fallback, faults>>
    BY <1>1, <1>2, <1>5, <2>1, AcceptInv DEF RequestAccepted
  <2>2. CASE Goto(s, "wait") /\ fallback' = [fallback EXCEPT ![s] = "Internal"]
    BY <1>1, <1>3, <1>5, <2>2, AcceptInv DEF RequestAccepted
  <2> QED BY <1>5, <2>1, <2>2 DEF RequestAccepted
<1>6. CASE RequestRefused(s)
  <2>1. CASE Goto(s, "probe") /\ UNCHANGED <<coVars, last>>
    BY <1>1, <1>2, <1>6, <2>1, MoveInv DEF RequestRefused
  <2>2. CASE Answer(s, ConflictCode(s))
    <3>1. ConflictCode(s) \in Codes /\ Truthful(s, ConflictCode(s))
      BY DEF ConflictCode, Codes, Truthful
    <3> QED BY <1>1, <1>6, <2>2, <3>1, AnswerInv DEF RequestRefused
  <2> QED BY <1>6, <2>1, <2>2 DEF RequestRefused
<1>7. CASE Probe(s)
  <2>1. CASE Answer(s, "InvalidArgument") /\ UNCHANGED fallback
    BY <1>1, <1>7, <2>1, AnswerInv DEF Probe, Truthful, Codes
  <2>2. CASE Answer(s, "FailedPrecondition") /\ UNCHANGED fallback
    BY <1>1, <1>7, <2>2, AnswerInv DEF Probe, Truthful, Codes
  <2>3. CASE /\ Goto(s, "wait")
             /\ fallback' = [fallback EXCEPT ![s] = "InvalidArgument"]
             /\ UNCHANGED <<coVars, last>>
    BY <1>1, <1>3, <1>7, <2>3, MoveInv DEF Probe
  <2> QED BY <1>7, <2>1, <2>2, <2>3 DEF Probe
<1>8. CASE JobPolled(s)
  <2>1. CASE Goto(s, "wait") /\ UNCHANGED <<coVars, last>>
    BY <1>1, <1>2, <1>8, <2>1, MoveInv DEF JobPolled
  <2>2. CASE Answer(s, "Internal")
    BY <1>1, <1>8, <2>2, AnswerInv DEF JobPolled, Truthful, Codes
  <2> QED BY <1>8, <2>1, <2>2 DEF JobPolled
<1>9. CASE WaitEnds(s)
  <2>1. Truthful(s, Success(s)) /\ Success(s) \in Codes
    BY <1>9 DEF WaitEnds, Truthful, Success, Codes
  <2> QED BY <1>1, <1>9, <2>1, AnswerInv DEF WaitEnds
<1>10. CASE WaitExpires(s)
  BY <1>1, <1>10, AnswerInv DEF WaitExpires, Truthful, Codes
<1> QED BY <1>4, <1>5, <1>6, <1>7, <1>8, <1>9, <1>10 DEF HandlerStep

\* The steps of a handler that fail.
LEMMA HandlerFailureInv ==
  ASSUME IInv, NEW s \in Servers, HandlerFailure(s)
  PROVE  IInv'
<1>1. Counted
  BY FaultCounts DEF HandlerFailure, RequestLost, WindowCloses, ContextEnds, CallFails, IInv, AnyCOInv
<1>2. CASE RequestLost(s)
  <2>1. FallbackTyped
    BY <1>2 DEF RequestLost, FallbackTyped, Fallbacks, IInv, AnyCOInv, TypeOK
  <2>2. CASE Accept(s)
    BY <1>1, <1>2, <2>1, <2>2, AcceptInv DEF RequestLost, Places
  <2>3. CASE UNCHANGED <<cloudVars, job>>
    BY <1>1, <1>2, <2>1, <2>3, MoveInv DEF RequestLost, Places
  <2> QED BY <1>2, <2>2, <2>3 DEF RequestLost
<1>3. CASE WindowCloses(s)
  BY <1>1, <1>3, AnswerInv DEF WindowCloses, Truthful, Codes
<1>4. CASE ContextEnds(s)
  BY <1>1, <1>4, AnswerInv DEF ContextEnds, Truthful, Codes
<1>5. CASE \E e \in Terminal \cup {"Unavailable"} : CallFails(s, e)
  <2>1. PICK e \in Terminal \cup {"Unavailable"} : CallFails(s, e)
    BY <1>5
  <2> DEFINE code == IF pc[s] = "probe" THEN "InvalidArgument"
                     ELSE IF pc[s] = "wait" THEN WaitFailure(s, CodeOf(s, e)) ELSE CodeOf(s, e)
  <2>2. code \in Codes \ {"OK"}
    BY TerminalAssumption DEF WaitFailure, CodeOf, ConflictCode, Codes, IInv, AnyCOInv, TypeOK
  <2>3. /\ Answer(s, code) /\ UNCHANGED <<cloudVars, op, fallback, job>> /\ pc[s] # "idle"
    BY <2>1 DEF CallFails
  <2> HIDE DEF code
  <2> QED BY <1>1, <2>2, <2>3, AnswerInv DEF Truthful
<1> QED BY <1>2, <1>3, <1>4, <1>5 DEF HandlerFailure

LEMMA StutterInv ==
  ASSUME IInv, UNCHANGED vars
  PROVE  IInv'
BY DEF vars, IInv, AnyCOInv, TypeOK, CallIsWanted, HolderKnown, OrderlyInv, MovesAreWanted,
       PublishedIsWanted, PublishedIsAttached, UnpublishedIsFree

LEMMA NextIInv == IInv /\ [Next]_vars => IInv'
BY WantAttachInv, WantDetachInv, StartInv, HandlerStepInv, HandlerFailureInv, CloudInv, StutterInv
   DEF Next

LEMMA Inductive == Spec => []IInv
BY InitIInv, NextIInv, PTL DEF Spec

\* The states of the model are of the types it declares.
THEOREM TypeCorrect == Spec => []TypeOK
<1>1. IInv => TypeOK
  BY DEF IInv, AnyCOInv
<1> QED BY Inductive, <1>1, PTL

\* With a CO that detaches what it was told is attached and repeats a detach until it succeeds, a
\* volume reported attached to a server stays attached to it until the CO wants it detached.
THEOREM PublishedStaysAttached ==
  ASSUME OrderlyCO
  PROVE  Spec => []PublishedIsAttached
<1>1. IInv => PublishedIsAttached
  BY DEF IInv, OrderlyInv
<1> QED BY Inductive, <1>1, PTL

\* With the same CO, a volume reported detached from a server is not on its way there either.
THEOREM UnpublishedStaysFree ==
  ASSUME OrderlyCO
  PROVE  Spec => []UnpublishedIsFree
<1>1. IInv => UnpublishedIsFree
  BY DEF IInv, OrderlyInv
<1> QED BY Inductive, <1>1, PTL

\* Whatever the CO does, an answer OK is true in the compute listing at that moment.
THEOREM AnswersAreListed == Spec => AnswersMatchListing
<1>1. ASSUME IInv, [Next]_vars, NEW s \in Servers,
             pc[s] # "idle", pc'[s] = "idle", last'[s] = "OK"
      PROVE  IF op[s] = "attach" THEN Listed(s) /\ device = "dev" ELSE ~Listed(s)
  <2>1. PICK t \in Servers : HandlerStep(t) \/ HandlerFailure(t)
    BY <1>1 DEF Next, WantAttach, WantDetach, Start, CloudSettles, AttachSettles, DeviceNamed,
                DetachSettles, JobFails, vars, IInv, AnyCOInv, TypeOK
  <2>2. PICK code : Answer(t, code) /\ (code = "OK" => Settled(t) /\ code = Success(t))
    BY <1>1, <2>1, TerminalAssumption
    DEF HandlerStep, Look, RequestAccepted, RequestRefused, Probe, JobPolled, WaitEnds, WaitExpires,
        HandlerFailure, RequestLost, WindowCloses, ContextEnds, CallFails, WaitFailure, CodeOf,
        ConflictCode, Goto,
        IInv, AnyCOInv, TypeOK
  <2>3. t = s /\ code = "OK"
    BY <1>1, <2>2 DEF Answer, IInv, AnyCOInv, TypeOK
  <2> QED
    BY <2>2, <2>3 DEF Settled, Success, attachedWithDevice, detached
<1>2. IInv /\ [Next]_vars =>
        [\A s \in Servers : pc[s] # "idle" /\ pc'[s] = "idle" /\ last'[s] = "OK" =>
           IF op[s] = "attach" THEN Listed(s) /\ device = "dev" ELSE ~Listed(s)]_vars
  BY <1>1
<1> QED BY Inductive, <1>2, PTL DEF Spec, AnswersMatchListing

\* Whatever the CO does, a 400 that is passed on is real: the probe reports another server only
\* while another server holds the volume, and a refusal is the answer of the probe or of an expired
\* window only while no attach for this server is accepted.
THEOREM RefusalsAreReal == Spec => RefusalIsReal
<1>1. ASSUME IInv, [Next]_vars, NEW s \in Servers,
             op[s] = "attach", pc[s] # "idle", pc'[s] = "idle"
      PROVE  HandlerStep(s) \/ HandlerFailure(s)
  <2>1. PICK t \in Servers : HandlerStep(t) \/ HandlerFailure(t)
    BY <1>1 DEF Next, WantAttach, WantDetach, Start, CloudSettles, AttachSettles, DeviceNamed,
                DetachSettles, JobFails, vars, IInv, AnyCOInv, TypeOK
  <2>2. t = s
    BY <1>1, <2>1
    DEF HandlerStep, Look, RequestAccepted, RequestRefused, Probe, JobPolled, WaitEnds, WaitExpires,
        HandlerFailure, RequestLost, WindowCloses, ContextEnds, CallFails, Answer, Goto, IInv,
        AnyCOInv, TypeOK
  <2> QED BY <2>1, <2>2
<1>2. ASSUME IInv, NEW s \in Servers, HandlerFailure(s), pc'[s] = "idle"
      PROVE  /\ faults' # faults
             /\ pc[s] = "probe" => last'[s] # "FailedPrecondition"
  <2>1. faults' # faults
    BY <1>2 DEF HandlerFailure, RequestLost, WindowCloses, ContextEnds, CallFails, Fault, IInv,
                AnyCOInv, TypeOK
  <2>2. pc[s] = "probe" => Answer(s, "DeadlineExceeded") \/ Answer(s, "InvalidArgument")
    BY <1>2 DEF HandlerFailure, RequestLost, WindowCloses, ContextEnds, CallFails
  <2> QED BY <1>2, <2>1, <2>2 DEF Answer, IInv, AnyCOInv, TypeOK
<1>3. ASSUME IInv, NEW s \in Servers, Probe(s), op[s] = "attach", pc'[s] = "idle"
      PROVE  /\ last'[s] = "FailedPrecondition" => holder \notin {s, NoServer}
             /\ last'[s] = "InvalidArgument" => holder # s
  <2>1. PICK recorded \in RecordedServers :
           \/ attachInFlight(s, recorded) = "denied" /\ Answer(s, "InvalidArgument")
           \/ attachInFlight(s, recorded) = "elsewhere" /\ Answer(s, "FailedPrecondition")
    BY <1>3 DEF Probe, Goto, IInv, AnyCOInv, TypeOK
  <2>2. CASE attachInFlight(s, recorded) = "denied" /\ Answer(s, "InvalidArgument")
    <3>1. recorded = {} /\ phase # "attaching"
      BY <2>2 DEF attachInFlight
    <3>2. phase = "available"
      BY <2>1, <3>1 DEF RecordedServers
    <3>3. last'[s] = "InvalidArgument"
      BY <1>3, <2>2 DEF Answer, IInv, AnyCOInv, TypeOK
    <3> QED BY <1>3, <3>2, <3>3, ServersAssumption DEF IInv, AnyCOInv, HolderKnown
  <2>3. CASE attachInFlight(s, recorded) = "elsewhere" /\ Answer(s, "FailedPrecondition")
    <3>1. recorded # {} /\ s \notin recorded
      BY <2>3 DEF attachInFlight
    <3>2. recorded = {holder} /\ phase # "available"
      BY <2>1, <3>1 DEF RecordedServers
    <3> QED BY <1>3, <2>3, <3>1, <3>2 DEF Answer, IInv, AnyCOInv, TypeOK, HolderKnown
  <2> QED BY <2>1, <2>2, <2>3
<1>4. ASSUME IInv, NEW s \in Servers, HandlerStep(s), ~Probe(s), op[s] = "attach", pc'[s] = "idle"
      PROVE  /\ pc[s] # "probe"
             /\ last'[s] = "InvalidArgument" => holder # s
  <2>1. pc[s] # "probe"
    BY <1>4 DEF HandlerStep, Look, RequestAccepted, RequestRefused, JobPolled, WaitEnds, WaitExpires
  <2>2. CASE WaitExpires(s)
    BY <1>4, <2>2, ServersAssumption
    DEF WaitExpires, Settled, attachedWithDevice, Listed, IInv, AnyCOInv, HolderKnown
  <2>3. CASE Look(s) \/ RequestAccepted(s) \/ RequestRefused(s) \/ JobPolled(s) \/ WaitEnds(s)
    <3>1. PICK code : Answer(s, code) /\ code # "InvalidArgument"
      BY <1>4, <2>3
      DEF Look, RequestAccepted, RequestRefused, JobPolled, WaitEnds, Goto, Success, ConflictCode,
          IInv, AnyCOInv, TypeOK
    <3> QED BY <1>4, <2>1, <3>1 DEF Answer, IInv, AnyCOInv, TypeOK
  <2> QED BY <1>4, <2>1, <2>2, <2>3 DEF HandlerStep
<1>5. IInv /\ [Next]_vars =>
        [\A s \in Servers : op[s] = "attach" /\ pc[s] # "idle" /\ pc'[s] = "idle" =>
           /\ pc[s] = "probe" /\ last'[s] = "FailedPrecondition" => holder \notin {s, NoServer}
           /\ last'[s] = "InvalidArgument" /\ faults' = faults => holder # s]_vars
  BY <1>1, <1>2, <1>3, <1>4
<1> QED BY Inductive, <1>5, PTL DEF Spec, RefusalIsReal
=============================================================================
