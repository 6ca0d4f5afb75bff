--------------------------- MODULE DeviceIdentity ---------------------------
(***************************************************************************)
(* How a node finds the device of a volume: discoverDevice                 *)
(* (internal/driver/node.go) over DiscoverDevice (internal/mount/mount.go),*)
(* which every NodeStageVolume, and every NodePublishVolume of a raw block *)
(* device, calls before it uses the device.  Two witnesses must agree: the *)
(* path the cloud reported at the attach, and the by-id links that udev    *)
(* makes from the serial a disk reports, which may be cut to 20 bytes.     *)
(* Both may be wrong: the cloud's path need not be the kernel's name, and  *)
(* udev lags behind a kernel that gives the name of one disk to the next.  *)
(* Paths and links are read one at a time while disks come and go, and the *)
(* name that was verified is used later.                                   *)
(***************************************************************************)
EXTENDS Integers, FiniteSets

CONSTANTS
  Names,        \* kernel device names below /dev
  Volumes,      \* volume identifiers
  Volume,       \* the volume being staged; the others only come and go
  Cut,          \* the identifier of each volume, cut to virtioSerialMaxLen bytes
  None,
  MaxFaults     \* bound on the calls whose context ends

ASSUME VolumesAssumption == Volume \in Volumes /\ None \notin Volumes \cup Names
ASSUME CutAssumption == \A v \in Volumes : Cut[v] \notin Volumes \cup {None}
ASSUME FaultsAssumption == MaxFaults \in Nat

VARIABLES
  disk,        \* the volume behind each device name
  link,        \* the serial of the by-id link that udev keeps to each name
  path,        \* devicePath of the publish context: a name, "outside" of /dev, or None
  mounted,     \* the volume mounted at the staging path
  known,       \* what the CO knows of the staging: "no", "maybe" or "yes"
  pc,          \* where the handler stands
  todo,        \* serials whose links are still to be looked at
  links,       \* serials whose links exist
  misled,      \* a link this call looked at did not lead to the volume
  answer,      \* the status of the last stage
  faults

vars == <<disk, link, path, mounted, known, pc, todo, links, misled, answer, faults>>
hostVars == <<disk, link, path>>
lookVars == <<todo, links, misled>>

Serials(v) == IF v = None THEN {None} ELSE {v, Cut[v]}
Attached(v) == \E n \in Names : disk[n] = v
Own(n) == disk[n] = Volume

Init ==
  /\ disk = [n \in Names |-> None] /\ link = [n \in Names |-> None]
  /\ path = None /\ mounted = None /\ known = "no"
  /\ pc = "idle" /\ todo = {} /\ links = {} /\ misled = FALSE
  /\ answer = None /\ faults = 0

(***************************************************************************)
(* The host: the kernel, udev and the CO.                                  *)
(***************************************************************************)
\* A disk appears under any free name.  The path reported for it may be any other.
Appear(v, n) ==
  /\ ~Attached(v) /\ disk[n] = None
  /\ disk' = [disk EXCEPT ![n] = v]
  /\ path' \in IF v = Volume THEN Names \cup {"outside", None} ELSE {path}
  /\ UNCHANGED <<link, mounted, known, pc, lookVars, answer, faults>>

\* A disk goes; the one being staged only when the CO knows that it is not staged.
Disappear(n) ==
  /\ disk[n] # None
  /\ Own(n) => known = "no" /\ pc = "idle"
  /\ disk' = [disk EXCEPT ![n] = None]
  /\ UNCHANGED <<link, path, mounted, known, pc, lookVars, answer, faults>>

\* udev removes the link of a disk that has gone, and makes one for the disk that is there.
Udev(n) ==
  /\ link[n] \notin Serials(disk[n])
  /\ \E s \in IF link[n] = None THEN Serials(disk[n]) ELSE {None} :
       link' = [link EXCEPT ![n] = s]
  /\ UNCHANGED <<disk, path, mounted, known, pc, lookVars, answer, faults>>

\* Unmount and removeMountPath, a step here (module NodeHost).
Unstage ==
  /\ pc = "idle" /\ known # "no"
  /\ mounted' = None /\ known' = "no"
  /\ UNCHANGED <<hostVars, pc, lookVars, answer, faults>>

(***************************************************************************)
(* NodeStageVolume.                                                        *)
(***************************************************************************)
\* Mutant: the error of the identity check has no code of its own.
AnswerUnmapped(code) ==
  pc' = "idle" /\ answer' = IF code = "FailedPrecondition" THEN "Unknown" ELSE code

Answer(code) == pc' = "idle" /\ answer' = code

\* The serials whose links serialLinks looks for: the identifier, and cut.
SerialLinks == {Volume, Cut[Volume]}

\* discoverDevice wants a path, and DiscoverDevice one that holdsDevice.
Stage ==
  /\ pc = "idle" /\ known # "yes" /\ Attached(Volume)
  /\ known' = "maybe"
  /\ IF path \in Names
     THEN pc' = "path" /\ UNCHANGED answer
     ELSE Answer("InvalidArgument")
  /\ todo' = {} /\ links' = {} /\ misled' = FALSE
  /\ UNCHANGED <<hostVars, mounted, faults>>

\* os.Stat of the published path.
StatPath ==
  /\ pc = "path"
  /\ IF disk[path] = None
     THEN Answer("NotFound") /\ UNCHANGED todo
     ELSE pc' = "look" /\ todo' = SerialLinks /\ UNCHANGED answer
  /\ UNCHANGED <<hostVars, mounted, known, links, misled, faults>>

\* The names a link may lead to; udev chooses when two disks claim it.
Leads(s) == {n \in Names : link[n] = s}

\* os.Stat of a link: one that leads to no device does not exist.
StatLink(s) ==
  /\ pc = "look" /\ s \in todo
  /\ todo' = todo \ {s}
  /\ \/ Leads(s) = {} /\ UNCHANGED <<links, misled>>
     \/ \E n \in Leads(s) :
          /\ links' = IF disk[n] = None THEN links ELSE links \cup {s}
          /\ misled' = (misled \/ ~Own(n))
  /\ UNCHANGED <<hostVars, mounted, known, pc, answer, faults>>

\* Mutant: a volume without a link is trusted to be at the published path.
LookedTrusting ==
  /\ pc = "look" /\ todo = {}
  /\ pc' = "compare" /\ todo' = links /\ UNCHANGED answer
  /\ UNCHANGED <<hostVars, mounted, known, links, misled, faults>>

\* Mutant: the link of either serial is wanted, although a disk reports only one.
LookedBoth ==
  /\ pc = "look" /\ todo = {}
  /\ IF links # SerialLinks
     THEN Answer("NotFound") /\ UNCHANGED todo
     ELSE pc' = "compare" /\ todo' = links /\ UNCHANGED answer
  /\ UNCHANGED <<hostVars, mounted, known, links, misled, faults>>

\* serialLinks has returned: without a link the volume cannot be told.
Looked ==
  /\ pc = "look" /\ todo = {}
  /\ IF links = {}
     THEN Answer("NotFound") /\ UNCHANGED todo
     ELSE pc' = "compare" /\ todo' = links /\ UNCHANGED answer
  /\ UNCHANGED <<hostVars, mounted, known, links, misled, faults>>

\* Mutant: a link that exists is good enough, wherever it leads.
AgreesAny(n) == TRUE

\* Mutant: the link itself is compared, not what it resolves to.
AgreesUnresolved(n) == FALSE

\* A link agrees if it resolves to the published device; one that dangles resolves to itself.
Agrees(n) == n = path /\ disk[n] # None

\* resolveSymlink of a link, which may have gone or been turned since it was looked at.
CompareLink(s) ==
  /\ pc = "compare" /\ s \in todo
  /\ \/ \E n \in Leads(s) :
          /\ misled' = (misled \/ ~Own(n))
          /\ IF Agrees(n)
             THEN todo' = todo \ {s} /\ UNCHANGED <<pc, answer>>
             ELSE Answer("FailedPrecondition") /\ UNCHANGED todo
     \/ /\ Leads(s) = {}
        /\ Answer("FailedPrecondition")
        /\ UNCHANGED <<todo, misled>>
  /\ UNCHANGED <<hostVars, mounted, known, links, faults>>

Verified == pc = "compare" /\ todo = {}

\* What is at the staging path after FormatAndMount.
UseDevice == IF mounted = None THEN disk[path] ELSE mounted

\* FormatAndMount or the bind of a raw device: a path that is mounted already is done, and
\* otherwise whatever is behind the name now is mounted.
Use ==
  /\ Verified
  /\ mounted' = UseDevice
  /\ IF UseDevice = None
     THEN Answer("Internal") /\ UNCHANGED known
     ELSE Answer("OK") /\ known' = "yes"
  /\ UNCHANGED <<hostVars, lookVars, faults>>

\* The context has ended: seen before the discovery and by the commands after it, the last of
\* which may have had its effect.
ContextEnds ==
  /\ pc = "path" \/ Verified
  /\ faults < MaxFaults /\ faults' = faults + 1
  /\ Answer("Canceled")
  /\ mounted' \in IF Verified THEN {mounted, UseDevice} ELSE {mounted}
  /\ UNCHANGED <<hostVars, known, lookVars>>

HandlerStep ==
  \/ StatPath \/ Looked \/ Use
  \/ \E s \in SerialLinks : StatLink(s) \/ CompareLink(s)

Next ==
  \/ \E v \in Volumes, n \in Names : Appear(v, n)
  \/ \E n \in Names : Disappear(n) \/ Udev(n)
  \/ Stage \/ HandlerStep \/ ContextEnds \/ Unstage

\* udev handles every event in the end, a call goes on, and the CO repeats a stage.
Fairness ==
  /\ \A n \in Names : WF_vars(Udev(n))
  /\ WF_vars(Stage)
  /\ WF_vars(HandlerStep)

Spec == Init /\ [][Next]_vars
FairSpec == Spec /\ Fairness

-----------------------------------------------------------------------------
(* Type invariant.                                                           *)
TypeOK ==
  /\ disk \in [Names -> Volumes \cup {None}]
  /\ link \in [Names -> UNION {Serials(v) : v \in Volumes \cup {None}}]
  /\ path \in Names \cup {"outside", None}
  /\ mounted \in Volumes \cup {None}
  /\ known \in {"no", "maybe", "yes"}
  /\ pc \in {"idle", "path", "look", "compare"}
  /\ todo \subseteq SerialLinks /\ links \subseteq SerialLinks
  /\ misled \in BOOLEAN
  /\ answer \in {None, "OK", "InvalidArgument", "NotFound", "FailedPrecondition", "Internal", "Canceled"}
  /\ faults \in 0 .. MaxFaults

\* Both witnesses are wrong in the same call.
WrongPath == path \in Names => ~Own(path)
Deceived == misled /\ WrongPath

\* A volume is staged, and a stage repeated after an interrupted one is answered OK, only with
\* the volume's own disk at the staging path, although names are reused while links are read:
\* it takes a wrong path and a wrong link in one call (DiscoverDevice wants them to agree).
StagedIsOwn == known = "yes" => mounted = Volume \/ Deceived

\* No other disk is formatted or mounted for the volume, not even by a call that is cut short.
UsesOwnDisk == [][mounted' \notin {mounted, None, Volume} => Deceived]_vars

\* A disk is refused as unverified only if a witness was wrong: links that appear or go while
\* they are being read do not make a volume fail that the cloud and udev name rightly.
RefusedIsDoubtful ==
  [][pc = "compare" /\ answer' = "FailedPrecondition" /\ pc' = "idle" => misled' \/ WrongPath]_vars

\* Another disk that is there reports the same serial, cut.
Ambiguous == \E v \in Volumes \ {Volume} : Attached(v) /\ Cut[v] = Cut[Volume]

\* A volume whose path the cloud names rightly is staged in the end, once udev has caught up:
\* the retries of the CO are enough.
StageConverges ==
  (\E n \in Names : Own(n) /\ path = n) ~> known = "yes" \/ ~Attached(Volume) \/ Ambiguous
=============================================================================
