------------------------ MODULE DeviceIdentityProofs ------------------------
(***************************************************************************)
(* For any number of disks and names, and however udev and the cloud       *)
(* behave: a stage uses the volume's own disk unless a wrong path and a    *)
(* wrong link agree.                                                       *)
(***************************************************************************)
EXTENDS DeviceIdentity, TLAPS

\* While a stage is known of, the disk is there and the path is the one of its attach.
Present == known # "no" \/ pc # "idle" => Attached(Volume) /\ known # "no"

\* Between two calls, and while the path or the links are being looked for, nothing is verified.
Calling ==
  /\ pc # "idle" => path \in Names /\ known = "maybe"
  /\ pc = "compare" => links # {}

\* One link that agreed with the path settles it, unless that link was wrong.
Compared == pc = "compare" /\ links \ todo # {} => misled \/ Own(path)

\* What is mounted for a call cut short is the volume's, or the path is wrong and stays wrong
\* until the volume is unstaged.
Mounts ==
  /\ known = "no" => mounted = None
  /\ mounted \notin {None, Volume} => WrongPath

IInv == TypeOK /\ Present /\ Calling /\ Compared /\ Mounts /\ StagedIsOwn
AllSerials == UNION {Serials(v) : v \in Volumes \cup {None}}

LEMMA SerialsOfDisk ==
  ASSUME TypeOK, NEW n \in Names
  PROVE  Serials(disk[n]) \subseteq AllSerials /\ None \in AllSerials
BY DEF TypeOK, AllSerials, Serials

\* The initial state satisfies the invariant.
LEMMA InitIInv == Init => IInv
<1> SUFFICES ASSUME Init PROVE IInv
  OBVIOUS
<1>1. disk \in [Names -> Volumes \cup {None}]
  BY DEF Init
<1>2. link \in [Names -> UNION {Serials(v) : v \in Volumes \cup {None}}]
  <2>1. None \in UNION {Serials(v) : v \in Volumes \cup {None}}
    BY DEF Serials
  <2> QED BY <2>1 DEF Init
<1>3. faults \in 0 .. MaxFaults
  BY FaultsAssumption DEF Init
<1>4. misled \in BOOLEAN /\ todo \subseteq SerialLinks /\ links \subseteq SerialLinks
  BY Zenon DEF Init
<1>5. TypeOK
  BY <1>1, <1>2, <1>3, <1>4 DEF Init, TypeOK
<1> QED BY <1>5 DEF Init, IInv, Present, Calling, Compared, Mounts, StagedIsOwn

\* A disk appears: the volume's own only when nothing is known of a stage.
LEMMA AppearInv ==
  ASSUME IInv, NEW v \in Volumes, NEW n \in Names, Appear(v, n)
  PROVE  IInv'
<1>1. TypeOK'
  BY DEF IInv, Appear, TypeOK, lookVars, SerialLinks
<1>2. known # "no" \/ pc # "idle" => v # Volume
  BY DEF IInv, Present, Appear
<1>3. \A m \in Names : v # Volume => Own(m)' = Own(m)
  BY VolumesAssumption DEF Appear, IInv, TypeOK, Own
<1>4. v # Volume => path' = path
  BY DEF Appear
<1>5. Attached(Volume) => Attached(Volume)'
  BY VolumesAssumption DEF Attached, Appear, IInv, TypeOK
<1>6. WrongPath /\ v # Volume => WrongPath'
  BY <1>3, <1>4 DEF WrongPath
<1>7. UNCHANGED <<mounted, known, pc, todo, links, misled>>
  BY DEF Appear, lookVars
<1>8. Present' /\ Calling'
  BY <1>2, <1>4, <1>5, <1>7 DEF IInv, Present, Calling
<1>9. Compared'
  BY <1>2, <1>3, <1>4, <1>7 DEF IInv, Compared, Calling
<1>10. Mounts'
  BY <1>2, <1>6, <1>7 DEF IInv, Mounts
<1>11. StagedIsOwn'
  BY <1>2, <1>6, <1>7 DEF IInv, StagedIsOwn, Deceived
<1> QED BY <1>1, <1>8, <1>9, <1>10, <1>11 DEF IInv

\* A disk goes: never the volume's own while it is staged or being staged.
LEMMA DisappearInv ==
  ASSUME IInv, NEW n \in Names, Disappear(n)
  PROVE  IInv'
<1>1. TypeOK'
  BY DEF IInv, Disappear, TypeOK, lookVars, SerialLinks
<1>2. known # "no" \/ pc # "idle" => ~Own(n)
  BY DEF Disappear
<1>3. \A m \in Names : ~Own(n) => Own(m)' = Own(m)
  BY VolumesAssumption DEF Disappear, IInv, TypeOK, Own
<1>4. UNCHANGED <<path, mounted, known, pc, todo, links, misled>>
  BY DEF Disappear, lookVars
<1>5. ~Own(n) /\ Attached(Volume) => Attached(Volume)'
  BY <1>3 DEF Attached, Own
<1>6. WrongPath /\ ~Own(n) => WrongPath'
  BY <1>3, <1>4 DEF WrongPath
<1>7. Present' /\ Calling'
  BY <1>2, <1>4, <1>5 DEF IInv, Present, Calling
<1>8. Compared'
  BY <1>2, <1>3, <1>4 DEF IInv, Compared, Calling
<1>9. Mounts' /\ StagedIsOwn'
  BY <1>2, <1>4, <1>6 DEF IInv, Mounts, StagedIsOwn, Deceived
<1> QED BY <1>1, <1>7, <1>8, <1>9 DEF IInv

\* udev changes nothing but the links.
LEMMA UdevInv ==
  ASSUME IInv, NEW n \in Names, Udev(n)
  PROVE  IInv'
<1>1. UNCHANGED <<disk, path, mounted, known, pc, todo, links, misled, answer, faults>>
  BY DEF Udev, lookVars
<1>2. link' \in [Names -> AllSerials]
  BY SerialsOfDisk DEF Udev, IInv, TypeOK, AllSerials
<1>3. TypeOK'
  BY <1>1, <1>2 DEF IInv, TypeOK, AllSerials, SerialLinks
<1>4. \A m \in Names : Own(m)' = Own(m)
  BY <1>1 DEF Own
<1>5. Attached(Volume)' = Attached(Volume) /\ WrongPath' = WrongPath
  BY <1>1 DEF Attached, WrongPath, Own
<1> QED
  BY <1>1, <1>3, <1>4, <1>5 DEF IInv, Present, Calling, Compared, Mounts, StagedIsOwn, Deceived

\* The steps that leave the host alone keep what is known of it.
LEMMA HostUnchanged ==
  ASSUME UNCHANGED hostVars
  PROVE  /\ \A m \in Names : Own(m)' = Own(m)
         /\ Attached(Volume)' = Attached(Volume)
         /\ WrongPath' = WrongPath
         /\ path' = path
BY DEF hostVars, Own, Attached, WrongPath

LEMMA UnstageInv ==
  ASSUME IInv, Unstage
  PROVE  IInv'
<1>1. TypeOK'
  BY DEF IInv, Unstage, TypeOK, hostVars, lookVars, SerialLinks
<1>2. pc' = "idle" /\ known' = "no" /\ mounted' = None
  BY DEF Unstage
<1> QED
  BY <1>1, <1>2, HostUnchanged DEF IInv, Unstage, Present, Calling, Compared, Mounts, StagedIsOwn

\* A new call has compared nothing yet.
LEMMA StageInv ==
  ASSUME IInv, Stage
  PROVE  IInv'
<1>1. TypeOK'
  BY DEF IInv, Stage, TypeOK, hostVars, Answer, SerialLinks
<1>2. known' = "maybe" /\ pc' \in {"idle", "path"} /\ mounted' = mounted
  BY DEF Stage, Answer
<1>3. pc' = "path" => path \in Names
  BY DEF Stage, Answer
<1>4. Present' /\ Calling' /\ Compared' /\ StagedIsOwn'
  BY <1>2, <1>3, HostUnchanged DEF Stage, Present, Calling, Compared, StagedIsOwn
<1>5. Mounts'
  BY <1>2, HostUnchanged DEF IInv, Stage, Mounts
<1> QED BY <1>1, <1>4, <1>5 DEF IInv

\* Looking at the path and at the links verifies nothing.
LEMMA LookInv ==
  ASSUME IInv, \/ StatPath \/ Looked \/ \E s \in SerialLinks : StatLink(s)
  PROVE  IInv'
<1>1. TypeOK'
  BY DEF IInv, StatPath, Looked, StatLink, TypeOK, hostVars, Answer, SerialLinks
<1>2. UNCHANGED hostVars /\ mounted' = mounted /\ known' = known
  BY DEF StatPath, Looked, StatLink
<1>3. pc # "idle" /\ pc' \in {"idle", "look", "compare"}
  BY DEF StatPath, Looked, StatLink, Answer
<1>4. known = "maybe" /\ path \in Names
  BY <1>3 DEF IInv, Calling
<1>5. pc' = "compare" => links' # {} /\ todo' = links'
  BY DEF StatPath, Looked, StatLink, Answer
<1> QED
  BY <1>1, <1>2, <1>3, <1>4, <1>5, HostUnchanged
  DEF IInv, Present, Calling, Compared, Mounts, StagedIsOwn

\* A link that agrees either leads to the volume, and so does the path, or was wrong.
LEMMA CompareInv ==
  ASSUME IInv, NEW s \in SerialLinks, CompareLink(s)
  PROVE  IInv'
<1>1. TypeOK'
  BY DEF IInv, CompareLink, TypeOK, hostVars, Answer, SerialLinks, Leads
<1>2. UNCHANGED hostVars /\ UNCHANGED <<mounted, known, links>>
  BY DEF CompareLink
<1>3. pc = "compare" /\ known = "maybe" /\ path \in Names /\ links # {}
  BY DEF CompareLink, IInv, Calling
<1>4. pc' = "compare" => misled' \/ Own(path)
  BY DEF CompareLink, Agrees, Answer, Leads
<1>5. pc' \in {"idle", "compare"}
  BY <1>3 DEF CompareLink, Answer
<1>6. Compared'
  BY <1>2, <1>3, <1>4, HostUnchanged DEF Compared
<1> QED
  BY <1>1, <1>2, <1>3, <1>5, <1>6, HostUnchanged
  DEF IInv, Present, Calling, Mounts, StagedIsOwn

\* After the comparison the name is the volume's, unless both witnesses were wrong.
LEMMA VerifiedIsOwn ==
  ASSUME IInv, Verified
  PROVE  /\ path \in Names /\ known = "maybe" /\ Attached(Volume)
         /\ Own(path) \/ Deceived
         /\ UseDevice \in {None, Volume} \/ Deceived
         /\ UseDevice \in Volumes \cup {None}
<1>1. path \in Names /\ known = "maybe" /\ links # {} /\ todo = {} /\ pc = "compare"
  BY DEF IInv, Calling, Verified
<1>2. misled \/ Own(path)
  BY <1>1 DEF IInv, Compared
<1>3. Own(path) \/ Deceived
  BY <1>1, <1>2 DEF Deceived, WrongPath
<1>4. UseDevice \in {None, Volume} \/ Deceived
  <2>1. CASE mounted = None
    BY <1>3, <2>1 DEF UseDevice, Own
  <2>2. CASE mounted # None
    <3>1. mounted = Volume \/ WrongPath
      BY <2>2 DEF IInv, Mounts
    <3> QED BY <1>1, <1>2, <2>2, <3>1 DEF UseDevice, Deceived, WrongPath
  <2> QED BY <2>1, <2>2
<1>5. UseDevice \in Volumes \cup {None}
  BY <1>1 DEF UseDevice, IInv, TypeOK
<1> QED BY <1>1, <1>3, <1>4, <1>5 DEF IInv, Present

LEMMA UseInv ==
  ASSUME IInv, Use
  PROVE  IInv'
<1>1. Verified /\ UNCHANGED hostVars /\ UNCHANGED <<todo, links, misled>> /\ pc' = "idle"
  BY DEF Use, Answer, lookVars
<1>2. TypeOK'
  BY <1>1, VerifiedIsOwn DEF IInv, Use, TypeOK, hostVars, Answer, SerialLinks
<1>3. mounted' = UseDevice /\ known' \in {"maybe", "yes"} /\ (known' = "yes" => UseDevice # None)
  BY <1>1, VerifiedIsOwn DEF Use
<1>4. Deceived' = Deceived
  BY <1>1, HostUnchanged DEF Deceived
<1>5. Mounts'
  BY <1>1, <1>3, VerifiedIsOwn, HostUnchanged DEF Mounts, Deceived
<1>6. StagedIsOwn'
  BY <1>1, <1>3, <1>4, VerifiedIsOwn DEF StagedIsOwn
<1> QED
  BY <1>1, <1>2, <1>3, <1>5, <1>6, VerifiedIsOwn, HostUnchanged DEF IInv, Present, Calling, Compared

LEMMA ContextEndsInv ==
  ASSUME IInv, ContextEnds
  PROVE  IInv'
<1>1. UNCHANGED hostVars /\ UNCHANGED <<known, todo, links, misled>> /\ pc' = "idle" /\ pc # "idle"
  BY DEF ContextEnds, Answer, lookVars, Verified
<1>2. known = "maybe"
  BY <1>1 DEF IInv, Calling
<1>3. mounted' = mounted \/ (Verified /\ mounted' = UseDevice)
  BY DEF ContextEnds
<1>4. TypeOK'
  BY <1>1, <1>3, VerifiedIsOwn, FaultsAssumption
  DEF IInv, ContextEnds, TypeOK, hostVars, Answer, SerialLinks
<1>5. Mounts'
  <2>1. CASE mounted' = mounted
    BY <1>1, <1>2, <2>1, HostUnchanged DEF IInv, Mounts
  <2>2. CASE Verified /\ mounted' = UseDevice
    BY <1>1, <1>2, <2>2, VerifiedIsOwn, HostUnchanged DEF Mounts, Deceived
  <2> QED BY <1>3, <2>1, <2>2
<1> QED
  BY <1>1, <1>2, <1>4, <1>5, HostUnchanged DEF IInv, Present, Calling, Compared, StagedIsOwn

LEMMA NextIInv == IInv /\ [Next]_vars => IInv'
<1> SUFFICES ASSUME IInv, [Next]_vars PROVE IInv'
  OBVIOUS
<1>1. CASE \E v \in Volumes, n \in Names : Appear(v, n)
  BY <1>1, AppearInv
<1>2. CASE \E n \in Names : Disappear(n) \/ Udev(n)
  BY <1>2, DisappearInv, UdevInv
<1>3. CASE Stage
  BY <1>3, StageInv
<1>4. CASE HandlerStep
  <2>1. CASE StatPath \/ Looked \/ \E s \in SerialLinks : StatLink(s)
    BY <2>1, LookInv
  <2>2. CASE \E s \in SerialLinks : CompareLink(s)
    BY <2>2, CompareInv
  <2>3. CASE Use
    BY <2>3, UseInv
  <2> QED BY <1>4, <2>1, <2>2, <2>3 DEF HandlerStep
<1>5. CASE ContextEnds
  BY <1>5, ContextEndsInv
<1>6. CASE Unstage
  BY <1>6, UnstageInv
<1>7. CASE UNCHANGED vars
  <2>1. UNCHANGED hostVars /\ UNCHANGED <<mounted, known, pc, todo, links, misled, answer, faults>>
    BY <1>7 DEF vars, hostVars
  <2>2. TypeOK'
    BY <2>1 DEF IInv, TypeOK, hostVars, SerialLinks
  <2> QED
    BY <2>1, <2>2, HostUnchanged
    DEF IInv, Present, Calling, Compared, Mounts, StagedIsOwn, Deceived
<1> QED BY <1>1, <1>2, <1>3, <1>4, <1>5, <1>6, <1>7 DEF Next

LEMMA Inductive == Spec => []IInv
BY InitIInv, NextIInv, PTL DEF Spec

\* The states of the model are of the types it declares.
THEOREM TypeCorrect == Spec => []TypeOK
<1>1. IInv => TypeOK
  BY DEF IInv
<1> QED BY Inductive, <1>1, PTL

\* A stage is answered OK only with the volume's own disk at the staging path, whatever names
\* are reused and however late udev is, unless a wrong path and a wrong link agree in that call
\* (DiscoverDevice, and the FormatAndMount that takes a mounted path for staged).
THEOREM StagedOwnDisk == Spec => []StagedIsOwn
<1>1. IInv => StagedIsOwn
  BY DEF IInv
<1> QED BY Inductive, <1>1, PTL

\* No call, finished or cut short, formats or mounts another disk, with the same exception.
THEOREM UsedOwnDisk == Spec => UsesOwnDisk
<1>1. IInv /\ [Next]_vars => (mounted' \notin {mounted, None, Volume} => Deceived)
  <2> SUFFICES ASSUME IInv, [Next]_vars, mounted' \notin {mounted, None, Volume} PROVE Deceived
    OBVIOUS
  <2>1. Verified /\ mounted' = UseDevice
    BY DEF Next, vars, Appear, Disappear, Udev, Stage, HandlerStep, StatPath, Looked, StatLink,
           CompareLink, Use, ContextEnds, Unstage
  <2> QED BY <2>1, VerifiedIsOwn
<1>2. IInv /\ [Next]_vars => [mounted' \notin {mounted, None, Volume} => Deceived]_vars
  BY <1>1
<1> QED BY Inductive, <1>2, PTL DEF Spec, UsesOwnDisk

-----------------------------------------------------------------------------
(* Refusals.                                                                 *)

\* A disk has one name.
OneName == \A m, n \in Names : Own(m) /\ Own(n) => m = n

\* A link that was found and did not mislead leads to the volume for as long as the call runs:
\* the volume's disk stays, and udev does not touch the link of a disk that is there.
LinksLead ==
  /\ pc = "compare" => todo \subseteq links
  /\ pc \in {"look", "compare"} /\ ~misled => \A s \in links : \E n \in Names : link[n] = s /\ Own(n)

\* A call that is at the path has found no link yet.
NoLinksYet == pc = "path" => links = {}

RefusalInv == IInv /\ OneName /\ LinksLead /\ NoLinksYet

\* The host may change under a call, but not the volume's disk and not its link.
LEMMA HostKeepsLinks ==
  ASSUME RefusalInv,
         \/ \E v \in Volumes, n \in Names : Appear(v, n)
         \/ \E n \in Names : Disappear(n) \/ Udev(n)
  PROVE  OneName' /\ LinksLead'
<1>0. disk \in [Names -> Volumes \cup {None}] /\ link \in [Names -> AllSerials] /\ links \subseteq SerialLinks
  BY DEF RefusalInv, IInv, TypeOK, AllSerials
<1>1. UNCHANGED <<pc, todo, links, misled>>
  BY DEF Appear, Disappear, Udev, lookVars
<1>2. pc # "idle" => Attached(Volume)
  BY DEF RefusalInv, IInv, Present
<1>3. ASSUME NEW v \in Volumes, NEW n \in Names, Appear(v, n) PROVE OneName' /\ LinksLead'
  <2>1. disk' = [disk EXCEPT ![n] = v] /\ link' = link /\ disk[n] = None /\ ~Attached(v)
    BY <1>3 DEF Appear
  <2>2. \A m \in Names : Own(m) => Own(m)'
    BY <1>0, <2>1, VolumesAssumption DEF Own
  <2>3. \A m \in Names : Own(m)' => Own(m) \/ (v = Volume /\ m = n)
    BY <1>0, <2>1 DEF Own
  <2>4. v = Volume => \A m \in Names : ~Own(m)
    BY <2>1 DEF Attached, Own
  <2>5. OneName'
    BY <2>3, <2>4 DEF RefusalInv, OneName
  <2>6. LinksLead'
    BY <1>1, <2>1, <2>2 DEF RefusalInv, LinksLead
  <2> QED BY <2>5, <2>6
<1>4. ASSUME NEW n \in Names, Disappear(n) PROVE OneName' /\ LinksLead'
  <2>1. disk' = [disk EXCEPT ![n] = None] /\ link' = link /\ (Own(n) => pc = "idle")
    BY <1>4 DEF Disappear
  <2>2. \A m \in Names : Own(m)' => Own(m)
    BY <1>0, <2>1, VolumesAssumption DEF Own
  <2>3. pc # "idle" => \A m \in Names : Own(m) => Own(m)'
    BY <1>0, <2>1 DEF Own
  <2>4. OneName'
    BY <2>2 DEF RefusalInv, OneName
  <2>5. LinksLead'
    BY <1>1, <2>1, <2>3 DEF RefusalInv, LinksLead
  <2> QED BY <2>4, <2>5
<1>5. ASSUME NEW n \in Names, Udev(n) PROVE OneName' /\ LinksLead'
  <2>1. disk' = disk /\ link[n] \notin Serials(disk[n])
    BY <1>5 DEF Udev
  <2>2. PICK s : link' = [link EXCEPT ![n] = s]
    BY <1>5 DEF Udev
  <2>3. \A m \in Names : Own(m)' = Own(m)
    BY <2>1 DEF Own
  <2>4. \A m \in Names : Own(m) /\ link[m] \in SerialLinks => link'[m] = link[m]
    BY <1>0, <2>1, <2>2, VolumesAssumption DEF Own, Serials, SerialLinks
  <2>5. OneName'
    BY <2>3 DEF RefusalInv, OneName
  <2>6. LinksLead'
    BY <1>0, <1>1, <2>3, <2>4 DEF RefusalInv, LinksLead
  <2> QED BY <2>5, <2>6
<1> QED BY <1>3, <1>4, <1>5

\* A look that finds a link either records where it leads or is misled by it.
LEMMA CallKeepsLinks ==
  ASSUME RefusalInv, Stage \/ HandlerStep \/ ContextEnds \/ Unstage
  PROVE  OneName' /\ LinksLead'
<1>1. disk' = disk /\ link' = link
  BY DEF Stage, HandlerStep, ContextEnds, Unstage, StatPath, Looked, Use, StatLink, CompareLink, hostVars
<1>2. \A m \in Names : Own(m)' = Own(m)
  BY <1>1 DEF Own
<1>3. OneName'
  BY <1>2 DEF RefusalInv, OneName
<1>4. CASE Stage \/ ContextEnds \/ Unstage \/ Use
  <2>1. pc' \in {"idle", "path"}
    BY <1>4 DEF Stage, ContextEnds, Unstage, Use, Answer
  <2> QED BY <1>3, <2>1 DEF LinksLead
<1>5. CASE StatPath
  <2>1. pc = "path" /\ pc' \in {"idle", "look"} /\ links' = links /\ misled' = misled
    BY <1>5 DEF StatPath, Answer
  <2>2. links = {}
    BY <2>1 DEF RefusalInv, NoLinksYet
  <2> QED BY <1>3, <2>1, <2>2 DEF LinksLead
<1>6. CASE Looked
  <2>1. pc = "look" /\ pc' \in {"idle", "compare"} /\ links' = links /\ misled' = misled
    BY <1>6 DEF Looked, Answer
  <2>2. pc' = "compare" => todo' = links
    BY <1>6 DEF Looked, Answer
  <2> QED BY <1>1, <1>2, <1>3, <2>1, <2>2 DEF RefusalInv, LinksLead
<1>7. ASSUME NEW s \in SerialLinks, StatLink(s) PROVE LinksLead'
  <2>1. pc = "look" /\ pc' = pc
    BY <1>7 DEF StatLink
  <2>2. CASE UNCHANGED <<links, misled>>
    BY <1>1, <1>2, <2>1, <2>2 DEF RefusalInv, LinksLead
  <2>3. ASSUME NEW n \in Leads(s), links' = (IF disk[n] = None THEN links ELSE links \cup {s}),
               misled' = (misled \/ ~Own(n))
        PROVE  LinksLead'
    <3>1. n \in Names /\ link[n] = s
      BY DEF Leads
    <3> SUFFICES ASSUME ~misled', NEW t \in links' PROVE \E m \in Names : link'[m] = t /\ Own(m)'
      BY <2>1 DEF LinksLead
    <3>2. ~misled /\ Own(n)
      BY <2>3
    <3>3. t \in links \/ t = s
      BY <2>3
    <3> QED BY <1>1, <1>2, <2>1, <3>1, <3>2, <3>3 DEF RefusalInv, LinksLead
  <2> QED BY <1>7, <2>2, <2>3 DEF StatLink
<1>8. ASSUME NEW s \in SerialLinks, CompareLink(s) PROVE LinksLead'
  <2>1. pc = "compare" /\ links' = links /\ todo' \subseteq todo
    BY <1>8 DEF CompareLink
  <2>2. pc' \in {"idle", "compare"}
    BY <1>8, <2>1 DEF CompareLink, Answer
  <2>3. misled => misled'
    <3>1. CASE misled' = misled
      BY <3>1
    <3>2. ASSUME NEW n \in Leads(s), misled' = (misled \/ ~Own(n)) PROVE misled => misled'
      BY <3>2
    <3> QED BY <1>8, <3>1, <3>2, Zenon DEF CompareLink
  <2> QED BY <1>1, <1>2, <2>1, <2>2, <2>3 DEF RefusalInv, LinksLead
<1> QED BY <1>3, <1>4, <1>5, <1>6, <1>7, <1>8 DEF HandlerStep

LEMMA RefusalInductive == Spec => []RefusalInv
<1>1. Init => RefusalInv
  <2> SUFFICES ASSUME Init PROVE RefusalInv
    OBVIOUS
  <2>1. \A n \in Names : ~Own(n)
    BY VolumesAssumption DEF Init, Own
  <2> QED BY <2>1, InitIInv DEF Init, RefusalInv, OneName, LinksLead, NoLinksYet
<1>2. RefusalInv /\ [Next]_vars => RefusalInv'
  <2> SUFFICES ASSUME RefusalInv, [Next]_vars PROVE RefusalInv'
    OBVIOUS
  <2>1. IInv'
    BY NextIInv DEF RefusalInv
  <2>2. OneName' /\ LinksLead'
    <3>1. CASE UNCHANGED vars
      BY <3>1 DEF vars, RefusalInv, OneName, LinksLead, Own
    <3> QED BY <3>1, HostKeepsLinks, CallKeepsLinks DEF Next
  <2>3. NoLinksYet'
    <3>1. CASE UNCHANGED vars
      BY <3>1 DEF vars, RefusalInv, NoLinksYet
    <3>2. CASE Next
      BY <3>2 DEF Next, RefusalInv, NoLinksYet, Appear, Disappear, Udev, Stage, HandlerStep, StatPath, Looked,
                  StatLink, CompareLink, Use, ContextEnds, Unstage, lookVars, Answer
    <3> QED BY <3>1, <3>2
  <2> QED BY <2>1, <2>2, <2>3 DEF RefusalInv
<1> QED BY <1>1, <1>2, PTL DEF Spec

\* A disk is refused as unverified only if the path or a link was wrong: no order of the looks at
\* links that come and go makes DiscoverDevice refuse a volume that both witnesses name rightly.
THEOREM RefusalsAreDoubtful == Spec => RefusedIsDoubtful
<1>1. ASSUME RefusalInv, [Next]_vars, pc = "compare", answer' = "FailedPrecondition", pc' = "idle"
      PROVE  misled' \/ WrongPath
  <2>1. PICK s \in SerialLinks : CompareLink(s)
    <3>1. pc' # pc
      BY <1>1
    <3>2. ~Use /\ ~ContextEnds
      BY <1>1 DEF Use, ContextEnds, Answer
    <3> QED
      BY <1>1, <3>1, <3>2 DEF Next, vars, Appear, Disappear, Udev, Stage, HandlerStep, StatPath, Looked,
                              StatLink, Unstage
  <2>2. s \in todo /\ s \in links
    BY <1>1, <2>1 DEF CompareLink, RefusalInv, LinksLead
  <2>3. CASE Leads(s) = {}
    <3>1. misled' = misled
      BY <2>1, <2>3 DEF CompareLink
    <3>2. ~misled => FALSE
      BY <1>1, <2>2, <2>3 DEF RefusalInv, LinksLead, Leads
    <3> QED BY <3>1, <3>2
  <2>4. CASE Leads(s) # {}
    <3>1. PICK n \in Leads(s) : misled' = (misled \/ ~Own(n)) /\ ~Agrees(n)
      BY <1>1, <2>1, <2>4 DEF CompareLink
    <3>2. n \in Names /\ (Own(n) => n # path)
      BY <3>1, VolumesAssumption DEF Leads, Agrees, Own
    <3>3. Own(n) => WrongPath
      BY <1>1, <3>2 DEF RefusalInv, OneName, WrongPath
    <3> QED BY <3>1, <3>3
  <2> QED BY <2>3, <2>4
<1>2. RefusalInv /\ [Next]_vars =>
        [pc = "compare" /\ answer' = "FailedPrecondition" /\ pc' = "idle" => misled' \/ WrongPath]_vars
  BY <1>1
<1> QED BY RefusalInductive, <1>2, PTL DEF Spec, RefusedIsDoubtful
=============================================================================
