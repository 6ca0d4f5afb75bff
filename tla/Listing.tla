------------------------------ MODULE Listing ------------------------------
(***************************************************************************)
(* One DiscoverVolume of CreateVolume (internal/evs/volume.go): ListVolumes*)
(* walks the project page by page, the offset of a page being the number   *)
(* of volumes fetched so far, while volumes come, change and go.  Module   *)
(* Provisioning takes the walk as one step; this one opens it up.          *)
(***************************************************************************)
EXTENDS Integers, Sequences, SequencesExt

CONSTANTS
  Ids,          \* volume IDs, ordered
  Listings,     \* the projects a walk may begin with
  PageSize,     \* DiscoveryPageSize
  MaxPages,     \* volumeListMaxPages
  MaxChanges,   \* bound on what happens in the project during one walk
  PageErrors,   \* what a page may fail with
  NoId

(***************************************************************************)
(* A volume as the listing reports it.  The service's name filter is       *)
(* approximate: "near" has another name.  Of the exact matches "foreign"   *)
(* can never be adopted (no marker, or another zone, type or size), and    *)
(* the driver's own one is adoptable only while it is "ready".             *)
(***************************************************************************)
Kinds == {"near", "foreign", "making", "ready", "leaving"}
Entry == [id: Ids, kind: Kinds]

ASSUME IdsAssumption == Ids \subseteq Nat /\ NoId \notin Ids
ASSUME ListingsAssumption ==
  \A l \in Listings : l \in Seq(Entry) /\ \A i, j \in DOMAIN l : l[i].id = l[j].id => i = j
ASSUME BoundsAssumption ==
  PageSize \in Nat \ {0} /\ MaxPages \in Nat \ {0} /\ MaxChanges \in Nat
ASSUME ErrorsAssumption ==
  PageErrors \subseteq {"NotFound", "Unavailable", "PermissionDenied", "DeadlineExceeded"}

VARIABLES
  start,     \* the listing when the walk began
  project,   \* the listing now, in the service's order
  gone,      \* IDs of volumes that have left it
  changes,   \* what has happened in the project so far
  res,       \* the volumes fetched
  pages,     \* the loop variable: non-empty pages fetched
  pc,        \* "walk", "match", "done", or "failed" when a page could not be fetched
  answer     \* an error kind, or "OK" and a volume ID

vars == <<start, project, gone, changes, res, pages, pc, answer>>
projectVars == <<project, gone, changes>>

Result(code, v) == [code |-> code, id |-> v]
Error(e) == Result(e, NoId)

IdsOf(l) == {l[i].id : i \in DOMAIN l}

Init ==
  /\ start \in Listings
  /\ project = start
  /\ gone = {}
  /\ changes = 0
  /\ res = <<>>
  /\ pages = 0
  /\ pc = "walk"
  /\ answer = Error("none")

(***************************************************************************)
(* ListVolumes.                                                            *)
(***************************************************************************)
\* Mutant: the page after the last volume fetched, and one more.
OffsetPast == Len(res) + 1

\* The offset of the next page.
Offset == Len(res)

\* The page the service answers with: at most PageSize entries after the offset.
Page ==
  LET last == IF Offset + PageSize < Len(project) THEN Offset + PageSize ELSE Len(project)
  IN  SubSeq(project, Offset + 1, last)

\* Mutant: the bound leaves no room for the empty page that ends a listing.
LastFetchShort == pages >= MaxPages - 1

\* Mutant: one fetch more than the bound allows.
LastFetchLate == pages > MaxPages

\* The fetch that may only find the end of the listing.
LastFetch == pages >= MaxPages

\* An empty page ends the walk, a non-empty one is added; one too many is an error.
FetchPage ==
  /\ pc = "walk"
  /\ IF Page = <<>>
     THEN pc' = "match" /\ UNCHANGED <<res, pages, answer>>
     ELSE /\ res' = res \o Page
          /\ pages' = pages + 1
          /\ IF LastFetch
             THEN pc' = "done" /\ answer' = Error("OperationFailed")
             ELSE UNCHANGED <<pc, answer>>
  /\ UNCHANGED <<start, projectVars>>

\* A page fails, or the context has ended: the walk ends with the error.  A 404 for the listing
\* itself is classified like that of a volume.
PageFails(e) ==
  /\ pc = "walk"
  /\ pc' = "failed"
  /\ answer' = Error(e)
  /\ UNCHANGED <<start, projectVars, res, pages>>

(***************************************************************************)
(* DiscoverVolume.                                                         *)
(***************************************************************************)
\* The exact name matches among some entries.
Named(entries) == {e \in entries : e.kind # "near"}

\* The IDs that isAdoptable accepts.
Adoptable(entries) == {e.id : e \in {x \in Named(entries) : x.kind = "ready"}}

\* The least ID, since the matches are sorted by ID.
Choice(ids) == CHOOSE v \in ids : \A w \in ids : v <= w

\* What DiscoverVolume makes of the listed entries.
Verdict(entries) ==
  IF Named(entries) = {} THEN Error("NotFound")
  ELSE IF Adoptable(entries) = {} THEN Error("Conflict")
  ELSE Result("OK", Choice(Adoptable(entries)))

Match ==
  /\ pc = "match"
  /\ pc' = "done"
  /\ answer' = Verdict(ToSet(res))
  /\ UNCHANGED <<start, projectVars, res, pages>>

(***************************************************************************)
(* The project.                                                            *)
(***************************************************************************)
Change ==
  /\ pc \in {"walk", "match"}
  /\ changes < MaxChanges
  /\ changes' = changes + 1
  /\ UNCHANGED <<start, res, pages, pc, answer>>

\* A volume is created, by anybody; where it is listed is the service's business.
Arrives(v, k, i) ==
  /\ Change
  /\ v \notin IdsOf(project) \cup gone
  /\ project' = InsertAt(project, i, [id |-> v, kind |-> k])
  /\ UNCHANGED gone

\* A volume leaves the listing.
Leaves(i) ==
  /\ Change
  /\ project' = RemoveAt(project, i)
  /\ gone' = gone \cup {project[i].id}

\* The driver's own volume becomes ready, or is about to go.
Progress(i) ==
  /\ Change
  /\ project[i].kind \in {"making", "ready"}
  /\ project' = [project EXCEPT ![i].kind = IF @ = "making" THEN "ready" ELSE "leaving"]
  /\ UNCHANGED gone

ProjectStep ==
  \/ \E v \in Ids, k \in {"near", "foreign", "making"}, i \in 1 .. Len(project) + 1 : Arrives(v, k, i)
  \/ \E i \in DOMAIN project : Leaves(i) \/ Progress(i)

Next ==
  \/ FetchPage \/ Match
  \/ \E e \in PageErrors : PageFails(e)
  \/ ProjectStep

Spec == Init /\ [][Next]_vars

-----------------------------------------------------------------------------
(* Type invariant.                                                           *)
TypeOK ==
  /\ ToSet(project) \subseteq Entry
  /\ gone \subseteq Ids \ IdsOf(project)
  /\ changes \in 0 .. MaxChanges
  /\ ToSet(res) \subseteq Entry
  /\ Len(res) <= pages * PageSize /\ pages \in 0 .. MaxPages + 1
  /\ pc \in {"walk", "match", "done", "failed"}
  /\ answer.id \in Ids <=> answer.code = "OK"

\* The entries that were there, as they are, from the first page to the last.
Steady == ToSet(start) \cap ToSet(project)

\* The walk over a project at rest finds all of it, whatever its length: the answer is that of
\* one look at the whole listing, and a listing is too long exactly when it does not fit into
\* volumeListMaxPages pages ("a list that lands exactly on the bound can still terminate").
QuietWalkIsExact ==
  pc = "done" /\ changes = 0 =>
    answer = IF Len(project) > MaxPages * PageSize THEN Error("OperationFailed")
             ELSE Verdict(ToSet(project))

\* While volumes are created and change state, and none leaves the listing, a completed walk
\* misses nothing that was there from its beginning: the name is not called free when it was
\* taken all along, a conflict is not reported while a volume could be adopted all along, and
\* no greater ID than that is chosen.
NothingSkipped ==
  pc = "done" /\ gone = {} /\ answer.code # "OperationFailed" =>
    /\ answer.code = "NotFound" => Named(ToSet(start)) = {}
    /\ \A v \in Adoptable(Steady) : answer.code = "OK" /\ answer.id <= v

\* "It returns ErrNotFound when no volume has that name": a completed walk calls a name free
\* only when no volume of that name has been there from its beginning to its end.
NotFoundIsFree ==
  pc = "done" /\ answer.code = "NotFound" => Named(Steady) = {}
=============================================================================
