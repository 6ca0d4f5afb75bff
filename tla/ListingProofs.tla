--------------------------- MODULE ListingProofs ---------------------------
(***************************************************************************)
(* What a walk over the project finds, for every project, page size, page  *)
(* bound and number of changes during the walk.                            *)
(***************************************************************************)
EXTENDS Listing, SequenceTheorems, WellFoundedInduction, TLAPS

\* No volume is listed twice.
Distinct(l) == \A i, j \in 1 .. Len(l) : l[i].id = l[j].id => i = j

Types ==
  /\ start \in Seq(Entry)
  /\ project \in Seq(Entry)
  /\ Distinct(project)
  /\ gone \subseteq Ids
  /\ \A i \in 1 .. Len(project) : project[i].id \notin gone
  /\ changes \in 0 .. MaxChanges
  /\ res \in Seq(Entry)
  /\ pages \in 0 .. MaxPages + 1
  /\ Len(res) <= pages * PageSize
  /\ pc \in {"walk", "match"} => pages <= MaxPages
  /\ pc \in {"walk", "match", "done", "failed"}
  /\ answer.id \in Ids <=> answer.code = "OK"

\* A walk over a project at rest has fetched whole pages of it, or all of it.
QuietWalk ==
  changes = 0 /\ pc \in {"walk", "match"} =>
    /\ Len(res) <= Len(project)
    /\ \A i \in 1 .. Len(res) : res[i] = project[i]
    /\ Len(res) = pages * PageSize \/ Len(res) = Len(project)
    /\ pc = "match" => Len(res) = Len(project)

QuietInv == Types /\ QuietWalk /\ QuietWalkIsExact

\* What an entry may have become since: volumes are made, are ready and leave, in that order.
Later(e, f) ==
  /\ f.id = e.id
  /\ f.kind = "near" <=> e.kind = "near"
  /\ e.kind = "leaving" => f.kind = "leaving"
  /\ e.kind = "ready" => f.kind \in {"ready", "leaving"}

\* A volume that was there when the walk began is still ahead of it, or has been fetched.
Covered(e) ==
  \E i \in 1 .. Len(project) :
    /\ Later(e, project[i])
    /\ \/ pc = "walk" /\ i > Len(res)
       \/ \E j \in 1 .. Len(res) : Later(e, res[j]) /\ Later(res[j], project[i])

SkipInv ==
  /\ Types
  /\ pc \in {"walk", "match"} /\ gone = {} => \A k \in 1 .. Len(start) : Covered(start[k])
  /\ NothingSkipped

-----------------------------------------------------------------------------
(* Lemmas about listings.                                                    *)

\* Any volume IDs have a least one (the sort by ID in DiscoverVolume).
LEMMA LeastId ==
  ASSUME NEW S, S \subseteq Nat, S # {}
  PROVE  Choice(S) \in S /\ \A w \in S : Choice(S) <= w
  <1>1. \E v \in S : \A w \in S : v <= w
    <2>1. \E v \in S : \A w \in S : <<w, v>> \notin OpToRel(<, Nat)
      BY NatLessThanWellFounded, WFMin
    <2>2. PICK v \in S : \A w \in S : <<w, v>> \notin OpToRel(<, Nat) BY <2>1
    <2>3. ASSUME NEW w \in S PROVE v <= w
      <3>1. w \in Nat /\ v \in Nat OBVIOUS
      <3>2. ~(w < v) BY <2>2, <3>1 DEF OpToRel
      <3> QED BY <3>1, <3>2
    <2> QED BY <2>3
  <1> QED BY <1>1 DEF Choice

\* A volume is inserted into a listing.
LEMMA Inserted ==
  ASSUME NEW s \in Seq(Entry), NEW i \in 1 .. Len(s) + 1, NEW e \in Entry
  PROVE  LET t == InsertAt(s, i, e) IN
         /\ t \in Seq(Entry) /\ Len(t) = Len(s) + 1
         /\ t[i] = e
         /\ \A j \in 1 .. Len(s) : j < i => t[j] = s[j]
         /\ \A j \in 1 .. Len(s) : j >= i => t[j + 1] = s[j]
  <1> DEFINE a == SubSeq(s, 1, i - 1)
             b == SubSeq(s, i, Len(s))
             t == InsertAt(s, i, e)
  <1>1. Len(s) \in Nat /\ i \in Nat /\ \A j \in 1 .. Len(s) : s[j] \in Entry
    BY LenProperties, ElementOfSeq
  <1>2. /\ a \in Seq(Entry) /\ Len(a) = i - 1 /\ \A j \in 1 .. i - 1 : a[j] = s[j]
    <2>1. \A j \in 1 .. i - 1 : s[j] \in Entry BY <1>1
    <2>2. /\ a \in Seq(Entry) /\ Len(a) = IF 1 <= i - 1 THEN (i - 1) - 1 + 1 ELSE 0
          /\ \A j \in 1 .. (i - 1) - 1 + 1 : a[j] = s[1 + j - 1]
      BY <1>1, <2>1, SubSeqProperties
    <2>3. Len(a) = i - 1 BY <1>1, <2>2
    <2>4. \A j \in 1 .. i - 1 : 1 + j - 1 = j /\ j \in 1 .. (i - 1) - 1 + 1 BY <1>1
    <2> HIDE DEF a
    <2> QED BY <2>2, <2>3, <2>4
  <1>3. /\ b \in Seq(Entry) /\ Len(b) = Len(s) - i + 1 /\ \A j \in i .. Len(s) : b[j - i + 1] = s[j]
    <2>1. \A j \in i .. Len(s) : s[j] \in Entry BY <1>1
    <2>2. /\ b \in Seq(Entry) /\ Len(b) = IF i <= Len(s) THEN Len(s) - i + 1 ELSE 0
          /\ \A j \in 1 .. Len(s) - i + 1 : b[j] = s[i + j - 1]
      BY <1>1, <2>1, SubSeqProperties
    <2>3. Len(b) = Len(s) - i + 1 BY <1>1, <2>2
    <2>4. \A j \in i .. Len(s) : j - i + 1 \in 1 .. Len(s) - i + 1 /\ i + (j - i + 1) - 1 = j BY <1>1
    <2> HIDE DEF b
    <2> QED BY <2>2, <2>3, <2>4
  <1>4. t = a \o <<e>> \o b BY DEF InsertAt
  <1> HIDE DEF a, b, t
  <1>5. <<e>> \in Seq(Entry) /\ Len(<<e>>) = 1 /\ <<e>>[1] = e OBVIOUS
  <1> DEFINE c == a \o <<e>>
  <1>6. /\ c \in Seq(Entry) /\ Len(c) = i /\ c[i] = e /\ \A j \in 1 .. i - 1 : c[j] = s[j]
    <2>1. /\ c \in Seq(Entry) /\ Len(c) = Len(a) + Len(<<e>>)
          /\ \A j \in 1 .. Len(a) + Len(<<e>>) : c[j] = IF j <= Len(a) THEN a[j] ELSE <<e>>[j - Len(a)]
      BY <1>2, <1>5, ConcatProperties
    <2> HIDE DEF c
    <2>2. Len(c) = i BY <1>1, <1>2, <1>5, <2>1
    <2>3. i \in 1 .. Len(a) + Len(<<e>>) /\ ~(i <= Len(a)) /\ i - Len(a) = 1 BY <1>1, <1>2, <1>5
    <2>4. c[i] = <<e>>[1] BY <2>1, <2>3
    <2>5. ASSUME NEW j \in 1 .. i - 1 PROVE c[j] = s[j]
      <3>1. j \in 1 .. Len(a) + Len(<<e>>) /\ j <= Len(a) BY <1>1, <1>2, <1>5
      <3> QED BY <1>2, <2>1, <3>1
    <2> QED BY <1>5, <2>1, <2>2, <2>4, <2>5
  <1>7. t = c \o b BY <1>4
  <1> HIDE DEF c
  <1>8. /\ t \in Seq(Entry) /\ Len(t) = Len(c) + Len(b)
        /\ \A j \in 1 .. Len(c) + Len(b) : t[j] = IF j <= Len(c) THEN c[j] ELSE b[j - Len(c)]
    BY <1>3, <1>6, <1>7, ConcatProperties
  <1>9. Len(t) = Len(s) + 1 BY <1>1, <1>3, <1>6, <1>8
  <1>10. t[i] = e /\ \A j \in 1 .. Len(s) : j < i => t[j] = s[j] BY <1>1, <1>3, <1>6, <1>8
  <1>11. ASSUME NEW j \in 1 .. Len(s), j >= i PROVE t[j + 1] = s[j]
    <2>1. j + 1 \in 1 .. Len(c) + Len(b) /\ ~(j + 1 <= Len(c)) /\ (j + 1) - Len(c) = j - i + 1
      BY <1>1, <1>3, <1>6, <1>11
    <2>2. t[j + 1] = b[j - i + 1] BY <1>8, <2>1
    <2> QED BY <1>1, <1>3, <1>11, <2>2
  <1> QED BY <1>8, <1>9, <1>10, <1>11 DEF t

\* A volume is taken out of a listing.
LEMMA Removed ==
  ASSUME NEW s \in Seq(Entry), NEW i \in 1 .. Len(s)
  PROVE  LET t == RemoveAt(s, i) IN
         /\ t \in Seq(Entry) /\ Len(t) = Len(s) - 1
         /\ \A j \in 1 .. Len(t) : t[j] = IF j < i THEN s[j] ELSE s[j + 1]
  <1> DEFINE a == SubSeq(s, 1, i - 1)
             b == SubSeq(s, i + 1, Len(s))
             t == RemoveAt(s, i)
  <1>1. Len(s) \in Nat /\ i \in Nat /\ \A j \in 1 .. Len(s) : s[j] \in Entry
    BY LenProperties, ElementOfSeq
  <1>2. /\ a \in Seq(Entry) /\ Len(a) = i - 1 /\ \A j \in 1 .. i - 1 : a[j] = s[j]
    <2>1. \A j \in 1 .. i - 1 : s[j] \in Entry BY <1>1
    <2>2. /\ a \in Seq(Entry) /\ Len(a) = IF 1 <= i - 1 THEN (i - 1) - 1 + 1 ELSE 0
          /\ \A j \in 1 .. (i - 1) - 1 + 1 : a[j] = s[1 + j - 1]
      BY <1>1, <2>1, SubSeqProperties
    <2>3. Len(a) = i - 1 BY <1>1, <2>2
    <2>4. \A j \in 1 .. i - 1 : 1 + j - 1 = j /\ j \in 1 .. (i - 1) - 1 + 1 BY <1>1
    <2> HIDE DEF a
    <2> QED BY <2>2, <2>3, <2>4
  <1>3. /\ b \in Seq(Entry) /\ Len(b) = Len(s) - i /\ \A j \in 1 .. Len(s) - i : b[j] = s[i + j]
    <2>1. \A j \in i + 1 .. Len(s) : s[j] \in Entry BY <1>1
    <2>2. /\ b \in Seq(Entry) /\ Len(b) = IF i + 1 <= Len(s) THEN Len(s) - (i + 1) + 1 ELSE 0
          /\ \A j \in 1 .. Len(s) - (i + 1) + 1 : b[j] = s[(i + 1) + j - 1]
      BY <1>1, <2>1, SubSeqProperties
    <2>3. Len(b) = Len(s) - i BY <1>1, <2>2
    <2>4. \A j \in 1 .. Len(s) - i : j \in 1 .. Len(s) - (i + 1) + 1 /\ (i + 1) + j - 1 = i + j BY <1>1
    <2> HIDE DEF b
    <2> QED BY <2>2, <2>3, <2>4
  <1>4. t = a \o b BY DEF RemoveAt
  <1> HIDE DEF a, b, t
  <1>5. /\ t \in Seq(Entry) /\ Len(t) = Len(a) + Len(b)
        /\ \A j \in 1 .. Len(a) + Len(b) : t[j] = IF j <= Len(a) THEN a[j] ELSE b[j - Len(a)]
    BY <1>2, <1>3, <1>4, ConcatProperties
  <1>6. Len(t) = Len(s) - 1 BY <1>1, <1>2, <1>3, <1>5
  <1>7. ASSUME NEW j \in 1 .. Len(t) PROVE t[j] = IF j < i THEN s[j] ELSE s[j + 1]
    <2>1. CASE j < i BY <1>1, <1>2, <1>3, <1>5, <1>6, <2>1
    <2>2. CASE j >= i
      <3>1. /\ j \in 1 .. Len(a) + Len(b) /\ ~(j <= Len(a)) /\ j - Len(a) \in 1 .. Len(s) - i
            /\ i + (j - Len(a)) = j + 1
        BY <1>1, <1>2, <1>3, <1>6, <2>2
      <3>2. t[j] = s[i + (j - Len(a))] BY <1>3, <1>5, <3>1
      <3>3. ~(j < i) BY <1>1, <2>2
      <3> QED BY <3>1, <3>2, <3>3
    <2> QED BY <1>1, <1>6, <2>1, <2>2
  <1> QED BY <1>5, <1>6, <1>7 DEF t

\* A page is the part of the listing after the offset.
LEMMA PageOf ==
  ASSUME Types
  PROVE  /\ Page \in Seq(Entry)
         /\ Len(res) >= Len(project) => Page = <<>>
         /\ Len(res) < Len(project) =>
              /\ Page # <<>>
              /\ Len(Page) = IF Len(res) + PageSize < Len(project) THEN PageSize ELSE Len(project) - Len(res)
              /\ \A j \in 1 .. Len(Page) : Page[j] = project[Len(res) + j]
  <1> DEFINE o == Len(res)
             n == Len(project)
             last == IF o + PageSize < n THEN o + PageSize ELSE n
  <1>1. o \in Nat /\ n \in Nat /\ PageSize \in Nat \ {0} /\ last \in Nat /\ last <= n
    BY LenProperties, BoundsAssumption DEF Types
  <1>2. Page = SubSeq(project, o + 1, last) BY DEF Page, Offset
  <1>3. \A j \in 1 .. n : project[j] \in Entry BY ElementOfSeq DEF Types
  <1>4. /\ o < n => last = (IF o + PageSize < n THEN o + PageSize ELSE n) /\ o + 1 <= last
        /\ o >= n => last < o + 1
    BY <1>1
  <1>5. o < n => last - (o + 1) + 1 = (IF o + PageSize < n THEN PageSize ELSE n - o) BY <1>1
  <1> HIDE DEF o, n, last
  <1>6. \A j \in o + 1 .. last : project[j] \in Entry BY <1>1, <1>3
  <1>7. /\ Page \in Seq(Entry) /\ Len(Page) = IF o + 1 <= last THEN last - (o + 1) + 1 ELSE 0
        /\ \A j \in 1 .. last - (o + 1) + 1 : Page[j] = project[(o + 1) + j - 1]
    BY <1>1, <1>2, <1>6, SubSeqProperties
  <1>8. o >= n => Page = <<>> BY <1>1, <1>2, <1>4, SubSeqEmpty
  <1>9. ASSUME o < n
        PROVE  /\ Page # <<>> /\ Len(Page) = (IF o + PageSize < n THEN PageSize ELSE n - o)
               /\ \A j \in 1 .. Len(Page) : Page[j] = project[o + j]
    <2>1. Len(Page) = last - (o + 1) + 1 /\ Len(Page) >= 1 BY <1>1, <1>4, <1>7, <1>9
    <2>2. Len(Page) = (IF o + PageSize < n THEN PageSize ELSE n - o) BY <1>5, <1>9, <2>1
    <2>3. Page # <<>> BY <2>1, EmptySeq
    <2>4. \A j \in 1 .. Len(Page) : (o + 1) + j - 1 = o + j BY <1>1, <2>1
    <2> QED BY <1>7, <2>1, <2>2, <2>3, <2>4
  <1> QED BY <1>7, <1>8, <1>9 DEF o, n

\* What a fetch adds to the volumes fetched so far.
LEMMA Fetched ==
  ASSUME Types, Len(res) < Len(project), res' = res \o Page
  PROVE  /\ res' \in Seq(Entry)
         /\ Len(res') = IF Len(res) + PageSize < Len(project) THEN Len(res) + PageSize ELSE Len(project)
         /\ Len(res') <= Len(res) + PageSize
         /\ \A j \in 1 .. Len(res) : res'[j] = res[j]
         /\ \A j \in Len(res) + 1 .. Len(res') : res'[j] = project[j]
  <1>1. Len(res) \in Nat /\ Len(project) \in Nat /\ PageSize \in Nat \ {0} /\ res \in Seq(Entry)
    BY LenProperties, BoundsAssumption DEF Types
  <1>2. /\ Page \in Seq(Entry)
        /\ Len(Page) = IF Len(res) + PageSize < Len(project) THEN PageSize ELSE Len(project) - Len(res)
        /\ \A j \in 1 .. Len(Page) : Page[j] = project[Len(res) + j]
    BY PageOf
  <1>3. /\ res' \in Seq(Entry) /\ Len(res') = Len(res) + Len(Page)
        /\ \A j \in 1 .. Len(res) + Len(Page) : res'[j] = IF j <= Len(res) THEN res[j] ELSE Page[j - Len(res)]
    BY <1>1, <1>2, ConcatProperties
  <1>4. /\ Len(res') = (IF Len(res) + PageSize < Len(project) THEN Len(res) + PageSize ELSE Len(project))
        /\ Len(res') <= Len(res) + PageSize
    BY <1>1, <1>2, <1>3
  <1>5. Len(Page) \in Nat BY <1>1, <1>2
  <1>6. \A j \in 1 .. Len(res) : res'[j] = res[j] BY <1>1, <1>3, <1>5
  <1>7. ASSUME NEW j \in Len(res) + 1 .. Len(res') PROVE res'[j] = project[j]
    <2>1. /\ j \in 1 .. Len(res) + Len(Page) /\ ~(j <= Len(res)) /\ j - Len(res) \in 1 .. Len(Page)
          /\ Len(res) + (j - Len(res)) = j
      BY <1>1, <1>3, <1>5
    <2> QED BY <1>2, <1>3, <2>1
  <1> QED BY <1>3, <1>4, <1>6, <1>7

\* Pages and volumes.
LEMMA PageCount ==
  ASSUME NEW p \in Nat
  PROVE  /\ p * PageSize \in Nat /\ (p + 1) * PageSize = p * PageSize + PageSize
         /\ p <= MaxPages => p * PageSize <= MaxPages * PageSize
  <1>1. PageSize \in Nat /\ MaxPages \in Nat BY BoundsAssumption
  <1>2. p * PageSize \in Nat BY <1>1
  <1>3. (p + 1) * PageSize = p * PageSize + PageSize BY <1>1
  <1>4. ASSUME p <= MaxPages PROVE p * PageSize <= MaxPages * PageSize
    <2>1. PICK d \in Nat : MaxPages = p + d
      <3>1. MaxPages - p \in Nat /\ MaxPages = p + (MaxPages - p) BY <1>1, <1>4
      <3> QED BY <3>1
    <2>2. MaxPages * PageSize = p * PageSize + d * PageSize BY <1>1, <2>1
    <2>3. d * PageSize \in Nat BY <1>1
    <2> QED BY <1>2, <2>2, <2>3
  <1> QED BY <1>2, <1>3, <1>4

\* A verdict carries a volume exactly if it is OK (DiscoverVolume).
LEMMA VerdictType ==
  ASSUME NEW entries, entries \subseteq Entry
  PROVE  /\ Verdict(entries).id \in Ids <=> Verdict(entries).code = "OK"
         /\ Verdict(entries).code = "NotFound" <=> Named(entries) = {}
         /\ Adoptable(entries) # {} =>
              /\ Verdict(entries).code = "OK"
              /\ \A v \in Adoptable(entries) : Verdict(entries).id <= v
  <1>1. Adoptable(entries) \subseteq Ids BY DEF Adoptable, Named, Entry
  <1>2. Adoptable(entries) # {} => Named(entries) # {} BY DEF Adoptable
  <1>3. CASE Named(entries) = {} BY <1>2, <1>3, IdsAssumption DEF Verdict, Error, Result
  <1>4. CASE Named(entries) # {} /\ Adoptable(entries) = {}
    BY <1>4, IdsAssumption DEF Verdict, Error, Result
  <1>5. CASE Adoptable(entries) # {}
    <2>1. /\ Choice(Adoptable(entries)) \in Adoptable(entries)
          /\ \A v \in Adoptable(entries) : Choice(Adoptable(entries)) <= v
      BY <1>1, <1>5, LeastId, IdsAssumption
    <2>2. Verdict(entries) = [code |-> "OK", id |-> Choice(Adoptable(entries))]
      BY <1>2, <1>5 DEF Verdict, Result
    <2> QED BY <1>1, <1>2, <1>5, <2>1, <2>2
  <1> QED BY <1>3, <1>4, <1>5

\* The IDs of a listing.
LEMMA IdsAre ==
  ASSUME NEW l \in Seq(Entry)
  PROVE  /\ DOMAIN l = 1 .. Len(l) /\ ToSet(l) \subseteq Entry
         /\ \A x : x \in ToSet(l) <=> \E i \in 1 .. Len(l) : x = l[i]
         /\ \A v : v \in IdsOf(l) <=> \E i \in 1 .. Len(l) : v = l[i].id
  BY LenProperties, ElementOfSeq DEF ToSet, IdsOf

-----------------------------------------------------------------------------
(* Types.                                                                    *)

\* What happens to the project keeps the listing a listing, and no volume comes back.
ProjectOK ==
  /\ project \in Seq(Entry) /\ Distinct(project) /\ gone \subseteq Ids
  /\ \A i \in 1 .. Len(project) : project[i].id \notin gone

\* A volume is created.
LEMMA ArrivesKeeps ==
  ASSUME Types, NEW v \in Ids, NEW k \in {"near", "foreign", "making"}, NEW i \in 1 .. Len(project) + 1,
         Arrives(v, k, i)
  PROVE  /\ ProjectOK' /\ gone' = gone
         /\ \A j \in 1 .. Len(project) : \E m \in 1 .. Len(project') : m >= j /\ project'[m] = project[j]
  <1> DEFINE e == [id |-> v, kind |-> k]
  <1>1. e \in Entry /\ e.id = v BY DEF Entry, Kinds
  <1>2. project \in Seq(Entry) /\ Len(project) \in Nat /\ Distinct(project)
    BY LenProperties DEF Types
  <1>3. project' = InsertAt(project, i, e) /\ gone' = gone BY DEF Arrives
  <1>4. v \notin gone /\ \A j \in 1 .. Len(project) : project[j].id # v BY <1>2, IdsAre DEF Arrives
  <1> HIDE DEF e
  <1>5. /\ project' \in Seq(Entry) /\ Len(project') = Len(project) + 1 /\ project'[i] = e
        /\ \A j \in 1 .. Len(project) : j < i => project'[j] = project[j]
        /\ \A j \in 1 .. Len(project) : j >= i => project'[j + 1] = project[j]
    BY <1>1, <1>2, <1>3, Inserted
  <1>6. \A m \in 1 .. Len(project') : \/ m = i
                                      \/ m < i /\ m \in 1 .. Len(project) /\ project'[m] = project[m]
                                      \/ m > i /\ m - 1 \in 1 .. Len(project) /\ project'[m] = project[m - 1]
    <2> SUFFICES ASSUME NEW m \in 1 .. Len(project'), m # i
                 PROVE  \/ m < i /\ m \in 1 .. Len(project) /\ project'[m] = project[m]
                        \/ m > i /\ m - 1 \in 1 .. Len(project) /\ project'[m] = project[m - 1]
      OBVIOUS
    <2>1. CASE m < i BY <1>2, <1>5, <2>1
    <2>2. CASE m > i
      <3>1. m - 1 \in 1 .. Len(project) /\ m - 1 >= i /\ (m - 1) + 1 = m BY <1>2, <1>5, <2>2
      <3>2. project'[(m - 1) + 1] = project[m - 1] BY <1>5, <3>1
      <3> QED BY <2>2, <3>1, <3>2
    <2> QED BY <1>2, <1>5, <2>1, <2>2
  <1>7. \A j \in 1 .. Len(project) : \E m \in 1 .. Len(project') : m >= j /\ project'[m] = project[j]
    <2> SUFFICES ASSUME NEW j \in 1 .. Len(project)
                 PROVE  \E m \in 1 .. Len(project') : m >= j /\ project'[m] = project[j]
      OBVIOUS
    <2>1. CASE j < i
      <3>1. j \in 1 .. Len(project') /\ j >= j BY <1>2, <1>5
      <3> QED BY <1>5, <2>1, <3>1
    <2>2. CASE j >= i
      <3>1. j + 1 \in 1 .. Len(project') /\ j + 1 >= j BY <1>2, <1>5
      <3> QED BY <1>5, <2>2, <3>1
    <2> QED BY <1>2, <2>1, <2>2
  <1>8. Distinct(project')
    <2> SUFFICES ASSUME NEW m \in 1 .. Len(project'), NEW n \in 1 .. Len(project'),
                        project'[m].id = project'[n].id
                 PROVE  m = n
      BY DEF Distinct
    <2>1. \A x \in 1 .. Len(project') : project'[x].id = v => x = i BY <1>4, <1>6
    <2>2. project'[i].id = v BY <1>1, <1>5
    <2>3. CASE m = i \/ n = i BY <2>1, <2>2, <2>3
    <2>4. CASE m # i /\ n # i
      <3>1. PICK a \in 1 .. Len(project) : project'[m] = project[a] /\ ((m < i /\ a = m) \/ (m > i /\ a = m - 1))
        BY <1>6, <2>4
      <3>2. PICK b \in 1 .. Len(project) : project'[n] = project[b] /\ ((n < i /\ b = n) \/ (n > i /\ b = n - 1))
        BY <1>6, <2>4
      <3>3. a = b BY <1>2, <3>1, <3>2 DEF Distinct
      <3> QED BY <1>2, <1>5, <3>1, <3>2, <3>3
    <2> QED BY <2>3, <2>4
  <1>9. \A m \in 1 .. Len(project') : project'[m].id \notin gone'
    BY <1>1, <1>3, <1>4, <1>5, <1>6 DEF Types
  <1> QED BY <1>3, <1>5, <1>7, <1>8, <1>9 DEF ProjectOK, Types

\* A volume leaves.
LEMMA LeavesKeeps ==
  ASSUME Types, NEW i \in 1 .. Len(project), Leaves(i)
  PROVE  ProjectOK' /\ gone' # {}
  <1>1. project \in Seq(Entry) /\ Len(project) \in Nat /\ Distinct(project) /\ project[i] \in Entry
    BY LenProperties, ElementOfSeq DEF Types
  <1>2. project' = RemoveAt(project, i) /\ gone' = gone \cup {project[i].id} BY DEF Leaves
  <1>3. /\ project' \in Seq(Entry) /\ Len(project') = Len(project) - 1
        /\ \A j \in 1 .. Len(project') : project'[j] = IF j < i THEN project[j] ELSE project[j + 1]
    BY <1>1, <1>2, Removed
  <1>4. \A m \in 1 .. Len(project') :
          \E a \in 1 .. Len(project) : project'[m] = project[a] /\ ((m < i /\ a = m) \/ (m >= i /\ a = m + 1))
    <2> SUFFICES ASSUME NEW m \in 1 .. Len(project')
                 PROVE  \E a \in 1 .. Len(project) :
                          project'[m] = project[a] /\ ((m < i /\ a = m) \/ (m >= i /\ a = m + 1))
      OBVIOUS
    <2>1. CASE m < i BY <1>1, <1>3, <2>1
    <2>2. CASE m >= i
      <3>1. m + 1 \in 1 .. Len(project) /\ ~(m < i) BY <1>1, <1>3, <2>2
      <3> QED BY <1>3, <2>2, <3>1
    <2> QED BY <1>1, <1>3, <2>1, <2>2
  <1>5. Distinct(project')
    <2> SUFFICES ASSUME NEW m \in 1 .. Len(project'), NEW n \in 1 .. Len(project'),
                        project'[m].id = project'[n].id
                 PROVE  m = n
      BY DEF Distinct
    <2>1. PICK a \in 1 .. Len(project) : project'[m] = project[a] /\ ((m < i /\ a = m) \/ (m >= i /\ a = m + 1))
      BY <1>4
    <2>2. PICK b \in 1 .. Len(project) : project'[n] = project[b] /\ ((n < i /\ b = n) \/ (n >= i /\ b = n + 1))
      BY <1>4
    <2>3. a = b BY <1>1, <2>1, <2>2 DEF Distinct
    <2> QED BY <1>1, <1>3, <2>1, <2>2, <2>3
  <1>6. ASSUME NEW m \in 1 .. Len(project') PROVE project'[m].id \notin gone'
    <2>1. PICK a \in 1 .. Len(project) : project'[m] = project[a] /\ ((m < i /\ a = m) \/ (m >= i /\ a = m + 1))
      BY <1>4
    <2>2. a # i BY <1>1, <1>3, <2>1
    <2>3. project[a].id # project[i].id BY <1>1, <2>2 DEF Distinct
    <2> QED BY <1>2, <2>1, <2>3 DEF Types
  <1>7. gone' \subseteq Ids BY <1>1, <1>2 DEF Types, Entry
  <1> QED BY <1>2, <1>3, <1>5, <1>6, <1>7 DEF ProjectOK

\* A volume changes state.
LEMMA ProgressKeeps ==
  ASSUME Types, NEW i \in 1 .. Len(project), Progress(i)
  PROVE  /\ ProjectOK' /\ gone' = gone /\ Len(project') = Len(project)
         /\ \A j \in 1 .. Len(project) : Later(project[j], project'[j])
  <1>1. /\ project \in Seq(Entry) /\ Len(project) \in Nat /\ Distinct(project)
        /\ \A j \in 1 .. Len(project) : project[j] \in Entry
    BY LenProperties, ElementOfSeq DEF Types
  <1> DEFINE k == IF project[i].kind = "making" THEN "ready" ELSE "leaving"
             e == [project[i] EXCEPT !.kind = k]
  <1>2. project' = [project EXCEPT ![i] = e] /\ gone' = gone /\ project[i].kind \in {"making", "ready"}
    BY DEF Progress
  <1>3. e \in Entry /\ e.id = project[i].id /\ e.kind = k BY <1>1 DEF Entry, Kinds
  <1>4. Later(project[i], e) BY <1>2, <1>3 DEF Later
  <1> HIDE DEF e
  <1>5. /\ project' \in Seq(Entry) /\ Len(project') = Len(project)
        /\ \A j \in 1 .. Len(project) : project'[j] = IF j = i THEN e ELSE project[j]
    BY <1>1, <1>2, <1>3, ExceptSeq
  <1>6. \A j \in 1 .. Len(project) : Later(project[j], project'[j])
    <2>1. \A x : Later(x, x) BY DEF Later
    <2> QED BY <1>4, <1>5, <2>1
  <1>7. \A j \in 1 .. Len(project) : project'[j].id = project[j].id BY <1>6 DEF Later
  <1> QED BY <1>1, <1>2, <1>5, <1>6, <1>7 DEF ProjectOK, Distinct, Types

\* Whatever happens in the project is counted, and leaves the walk alone.
LEMMA ProjectKeeps ==
  ASSUME Types, ProjectStep
  PROVE  /\ ProjectOK' /\ changes' \in 0 .. MaxChanges /\ changes' # 0
         /\ UNCHANGED <<start, res, pages, pc, answer>> /\ pc \in {"walk", "match"}
  <1>1. DOMAIN project = 1 .. Len(project) BY IdsAre DEF Types
  <1>2. ProjectOK' BY <1>1, ArrivesKeeps, LeavesKeeps, ProgressKeeps DEF ProjectStep
  <1>3. Change BY DEF ProjectStep, Arrives, Leaves, Progress
  <1>4. changes \in Nat /\ changes <= MaxChanges /\ MaxChanges \in Nat BY BoundsAssumption DEF Types
  <1>5. changes' \in 0 .. MaxChanges /\ changes' # 0 BY <1>3, <1>4 DEF Change
  <1> QED BY <1>2, <1>3, <1>5 DEF Change

LEMMA TypesInit == Init => Types
  <1> SUFFICES ASSUME Init PROVE Types OBVIOUS
  <1>1. start \in Seq(Entry) /\ \A i, j \in DOMAIN start : start[i].id = start[j].id => i = j
    BY ListingsAssumption DEF Init
  <1>2. DOMAIN start = 1 .. Len(start) BY <1>1, IdsAre
  <1>3. project = start /\ Distinct(project) BY <1>1, <1>2 DEF Init, Distinct
  <1>4. res \in Seq(Entry) /\ Len(res) = 0 BY EmptySeq DEF Init
  <1>5. 0 * PageSize = 0 /\ 0 \in 0 .. MaxPages + 1 /\ 0 \in 0 .. MaxChanges /\ 0 <= MaxPages
    BY BoundsAssumption
  <1>6. answer.id \notin Ids /\ answer.code # "OK" BY IdsAssumption DEF Init, Error, Result
  <1>7. Len(res) <= pages * PageSize BY <1>4, <1>5 DEF Init
  <1> QED BY <1>1, <1>3, <1>4, <1>5, <1>6, <1>7 DEF Init, Types

LEMMA TypesStep ==
  ASSUME Types, [Next]_vars
  PROVE  Types'
  <1>0. /\ pages \in Nat /\ MaxPages \in Nat \ {0} /\ PageSize \in Nat \ {0} /\ Len(res) \in Nat
        /\ Len(project) \in Nat
    BY BoundsAssumption, LenProperties DEF Types
  <1>1. CASE FetchPage /\ Len(res) >= Len(project)
    <2>1. Page = <<>> BY <1>1, PageOf
    <2>2. pc' = "match" /\ UNCHANGED <<start, project, gone, changes, res, pages, answer>> /\ pc = "walk"
      BY <1>1, <2>1 DEF FetchPage, projectVars
    <2> QED BY <2>2 DEF Types, Distinct
  <1>2. CASE FetchPage /\ Len(res) < Len(project)
    <2>1. Page # <<>> BY <1>2, PageOf
    <2>2. /\ res' = res \o Page /\ pages' = pages + 1 /\ pc = "walk"
          /\ UNCHANGED <<start, project, gone, changes>>
          /\ IF LastFetch THEN pc' = "done" /\ answer' = Error("OperationFailed") ELSE UNCHANGED <<pc, answer>>
      BY <1>2, <2>1 DEF FetchPage, projectVars
    <2>3. res' \in Seq(Entry) /\ Len(res') <= Len(res) + PageSize /\ Len(res') \in Nat
      BY <1>2, <2>2, Fetched, LenProperties
    <2>4. Len(res') <= pages' * PageSize
      <3>1. pages * PageSize \in Nat /\ (pages + 1) * PageSize = pages * PageSize + PageSize BY <1>0, PageCount
      <3>2. Len(res) <= pages * PageSize BY DEF Types
      <3> QED BY <1>0, <2>2, <2>3, <3>1, <3>2
    <2>5. pages <= MaxPages BY <2>2 DEF Types
    <2>6. pages' \in 0 .. MaxPages + 1 BY <1>0, <2>2, <2>5
    <2>7. pc' \in {"walk", "match"} => pages' <= MaxPages BY <1>0, <2>2 DEF LastFetch
    <2>8. pc' \in {"walk", "match", "done", "failed"} BY <2>2
    <2>9. answer'.id \in Ids <=> answer'.code = "OK"
      BY <2>2, IdsAssumption DEF Types, Error, Result
    <2> QED BY <2>2, <2>3, <2>4, <2>6, <2>7, <2>8, <2>9 DEF Types, Distinct
  <1>3. CASE Match
    <2>1. /\ pc' = "done" /\ answer' = Verdict(ToSet(res))
          /\ UNCHANGED <<start, project, gone, changes, res, pages>>
      BY <1>3 DEF Match, projectVars
    <2>2. answer'.id \in Ids <=> answer'.code = "OK" BY <2>1, IdsAre, VerdictType DEF Types
    <2> QED BY <2>1, <2>2 DEF Types, Distinct
  <1>4. ASSUME NEW e \in PageErrors, PageFails(e) PROVE Types'
    <2>1. /\ pc' = "failed" /\ answer' = Error(e)
          /\ UNCHANGED <<start, project, gone, changes, res, pages>>
      BY <1>4 DEF PageFails, projectVars
    <2>2. answer'.id \notin Ids /\ answer'.code # "OK"
      BY <2>1, IdsAssumption, ErrorsAssumption DEF Error, Result
    <2> QED BY <2>1, <2>2 DEF Types, Distinct
  <1>5. CASE ProjectStep
    <2>1. ProjectOK' BY <1>5, ProjectKeeps
    <2>2. changes' \in 0 .. MaxChanges /\ UNCHANGED <<start, res, pages, pc, answer>> BY <1>5, ProjectKeeps
    <2> QED BY <2>1, <2>2 DEF Types, ProjectOK
  <1>6. CASE UNCHANGED vars BY <1>6 DEF vars, Types, Distinct
  <1>7. FetchPage => Len(res) >= Len(project) \/ Len(res) < Len(project) BY <1>0
  <1> QED BY <1>1, <1>2, <1>3, <1>4, <1>5, <1>6, <1>7 DEF Next

\* The walk has its types for every project, page size, bound and change: it never fetches more
\* than a page over the bound, no ID comes back to the listing once it has left, and an answer
\* names a volume exactly when it is OK (ListVolumes, DiscoverVolume).
THEOREM ListingTypes == Spec => []TypeOK
  <1>1. Types => TypeOK
    <2> SUFFICES ASSUME Types PROVE TypeOK OBVIOUS
    <2>1. ToSet(project) \subseteq Entry /\ ToSet(res) \subseteq Entry BY IdsAre DEF Types
    <2>2. gone \subseteq Ids \ IdsOf(project)
      <3>1. \A v \in gone : v \notin IdsOf(project) BY IdsAre DEF Types
      <3> QED BY <3>1 DEF Types
    <2> QED BY <2>1, <2>2 DEF Types, TypeOK
  <1> QED BY <1>1, TypesInit, TypesStep, PTL DEF Spec

-----------------------------------------------------------------------------
(* A project at rest.                                                        *)

LEMMA QuietInit == Init => QuietInv
  <1> SUFFICES ASSUME Init PROVE QuietInv OBVIOUS
  <1>1. Types BY TypesInit
  <1>2. Len(res) = 0 /\ pages = 0 /\ pc = "walk" BY EmptySeq DEF Init
  <1>3. 0 * PageSize = 0 BY BoundsAssumption
  <1>4. Len(project) \in Nat BY <1>1, LenProperties DEF Types
  <1>5. Len(res) = pages * PageSize BY <1>2, <1>3
  <1>6. \A i \in 1 .. Len(res) : FALSE BY <1>2
  <1>7. Len(res) <= Len(project) BY <1>2, <1>4
  <1>8. QuietWalk BY <1>2, <1>5, <1>6, <1>7 DEF QuietWalk
  <1>9. QuietWalkIsExact BY <1>2 DEF QuietWalkIsExact
  <1> QED BY <1>1, <1>8, <1>9 DEF QuietInv

LEMMA QuietStep ==
  ASSUME QuietInv, [Next]_vars
  PROVE  QuietInv'
  <1>t. Types /\ Types' BY TypesStep DEF QuietInv
  <1>0. /\ pages \in Nat /\ MaxPages \in Nat \ {0} /\ PageSize \in Nat \ {0} /\ Len(res) \in Nat
        /\ Len(project) \in Nat
    BY <1>t, BoundsAssumption, LenProperties DEF Types
  <1> SUFFICES QuietWalk' /\ QuietWalkIsExact' BY <1>t DEF QuietInv
  <1>1. CASE FetchPage /\ Len(res) >= Len(project)
    <2>1. Page = <<>> BY <1>t, <1>1, PageOf
    <2>2. pc' = "match" /\ UNCHANGED <<start, project, gone, changes, res, pages, answer>> /\ pc = "walk"
      BY <1>1, <2>1 DEF FetchPage, projectVars
    <2>3. changes = 0 => Len(res) = Len(project) BY <1>0, <1>1, <2>2 DEF QuietInv, QuietWalk
    <2>4. QuietWalk' BY <2>2, <2>3 DEF QuietInv, QuietWalk
    <2> QED BY <2>2, <2>4 DEF QuietWalkIsExact
  <1>2. CASE FetchPage /\ Len(res) < Len(project)
    <2>1. Page # <<>> BY <1>t, <1>2, PageOf
    <2>2. /\ res' = res \o Page /\ pages' = pages + 1 /\ pc = "walk"
          /\ project' = project /\ changes' = changes
          /\ IF LastFetch THEN pc' = "done" /\ answer' = Error("OperationFailed") ELSE UNCHANGED <<pc, answer>>
      BY <1>2, <2>1 DEF FetchPage, projectVars
    <2> SUFFICES ASSUME changes = 0 PROVE QuietWalk' /\ QuietWalkIsExact'
      BY <2>2 DEF QuietWalk, QuietWalkIsExact
    <2>3. /\ Len(res') = IF Len(res) + PageSize < Len(project) THEN Len(res) + PageSize ELSE Len(project)
          /\ \A j \in 1 .. Len(res) : res'[j] = res[j]
          /\ \A j \in Len(res) + 1 .. Len(res') : res'[j] = project[j]
      BY <1>t, <1>2, <2>2, Fetched
    <2>4. Len(res) = pages * PageSize /\ \A j \in 1 .. Len(res) : res[j] = project[j]
      BY <1>0, <1>2, <2>2 DEF QuietInv, QuietWalk
    <2>5. Len(res') <= Len(project') BY <1>0, <2>2, <2>3
    <2>6. Len(res') = pages' * PageSize \/ Len(res') = Len(project')
      <3>1. (pages + 1) * PageSize = pages * PageSize + PageSize BY <1>0, PageCount
      <3> QED BY <2>2, <2>3, <2>4, <3>1
    <2>7. \A j \in 1 .. Len(res') : res'[j] = project'[j]
      <3> SUFFICES ASSUME NEW j \in 1 .. Len(res') PROVE res'[j] = project[j] BY <2>2
      <3>1. Len(res') \in Nat BY <1>0, <2>3
      <3>2. j \in 1 .. Len(res) \/ j \in Len(res) + 1 .. Len(res') BY <1>0, <3>1
      <3> QED BY <2>3, <2>4, <3>2
    <2>8. pc' # "match" BY <2>2
    <2>9. QuietWalk' BY <2>5, <2>6, <2>7, <2>8 DEF QuietWalk
    <2>10. CASE LastFetch
      <3>1. pages = MaxPages BY <1>0, <1>t, <2>2, <2>10 DEF LastFetch, Types
      <3>2. Len(project) > MaxPages * PageSize BY <1>0, <1>2, <2>4, <3>1
      <3>3. answer' = Error("OperationFailed") BY <2>2, <2>10
      <3>4. QuietWalkIsExact' BY <2>2, <3>2, <3>3 DEF QuietWalkIsExact, Error, Result
      <3> QED BY <2>9, <3>4
    <2>11. CASE ~LastFetch
      <3>1. pc' = "walk" BY <2>2, <2>11
      <3> QED BY <2>9, <3>1 DEF QuietWalkIsExact
    <2> QED BY <2>10, <2>11
  <1>3. CASE Match
    <2>1. /\ pc' = "done" /\ answer' = Verdict(ToSet(res)) /\ pc = "match"
          /\ UNCHANGED <<start, project, gone, changes, res, pages>>
      BY <1>3 DEF Match, projectVars
    <2>2. QuietWalk' BY <2>1 DEF QuietWalk
    <2>3. ASSUME changes = 0 PROVE ToSet(res) = ToSet(project) /\ ~(Len(project) > MaxPages * PageSize)
      <3>1. Len(res) = Len(project) /\ \A j \in 1 .. Len(res) : res[j] = project[j]
        BY <2>1, <2>3 DEF QuietInv, QuietWalk
      <3>2. ToSet(res) = ToSet(project)
        <4>1. \A x : x \in ToSet(res) <=> \E i \in 1 .. Len(res) : x = res[i] BY <1>t, IdsAre DEF Types
        <4>2. \A x : x \in ToSet(project) <=> \E i \in 1 .. Len(project) : x = project[i]
          BY <1>t, IdsAre DEF Types
        <4>3. \A x : x \in ToSet(res) <=> x \in ToSet(project) BY <3>1, <4>1, <4>2
        <4> QED BY <4>3
      <3>3. pages * PageSize \in Nat /\ pages * PageSize <= MaxPages * PageSize
        BY <1>0, <1>t, <2>1, PageCount DEF Types
      <3>4. Len(res) <= pages * PageSize /\ MaxPages * PageSize \in Nat BY <1>0, <1>t, PageCount DEF Types
      <3> QED BY <1>0, <3>1, <3>2, <3>3, <3>4
    <2>4. QuietWalkIsExact' BY <2>1, <2>3 DEF QuietWalkIsExact
    <2> QED BY <2>2, <2>4
  <1>4. ASSUME NEW e \in PageErrors, PageFails(e) PROVE QuietWalk' /\ QuietWalkIsExact'
    BY <1>4 DEF PageFails, QuietWalk, QuietWalkIsExact
  <1>5. CASE ProjectStep
    <2>1. changes' # 0 BY <1>t, <1>5, ProjectKeeps
    <2> QED BY <2>1 DEF QuietWalk, QuietWalkIsExact
  <1>6. CASE UNCHANGED vars BY <1>6 DEF vars, QuietInv, QuietWalk, QuietWalkIsExact
  <1>7. FetchPage => Len(res) >= Len(project) \/ Len(res) < Len(project) BY <1>0
  <1> QED BY <1>1, <1>2, <1>3, <1>4, <1>5, <1>6, <1>7 DEF Next

\* The walk over a project at rest is one look at the whole listing, for every listing, page size
\* and bound: no page is fetched twice and none is left out, the listing that fills the last page
\* exactly is complete, and one that is a volume longer is refused (ListVolumes).
THEOREM QuietWalkIsExactAlways == Spec => []QuietWalkIsExact
  <1>1. QuietInv => QuietWalkIsExact BY DEF QuietInv
  <1> QED BY <1>1, QuietInit, QuietStep, PTL DEF Spec

-----------------------------------------------------------------------------
(* A project that changes, and that no volume leaves.                        *)

\* Volumes are made, are ready and leave, in that order.
LEMMA LaterOrder ==
  /\ \A e : Later(e, e)
  /\ \A e, f, g : Later(e, f) /\ Later(f, g) => Later(e, g)
  BY DEF Later

LEMMA SkipInit == Init => SkipInv
  <1> SUFFICES ASSUME Init PROVE SkipInv OBVIOUS
  <1>1. Types BY TypesInit
  <1>2. Len(res) = 0 /\ pc = "walk" /\ project = start BY EmptySeq DEF Init
  <1>3. ASSUME NEW k \in 1 .. Len(start) PROVE Covered(start[k])
    <2>1. k \in 1 .. Len(project) /\ k > Len(res) BY <1>1, <1>2, LenProperties DEF Types
    <2> QED BY <1>2, <2>1, LaterOrder DEF Covered
  <1>4. NothingSkipped BY <1>2 DEF NothingSkipped
  <1> QED BY <1>1, <1>3, <1>4 DEF SkipInv

\* A fetch takes the volumes it passes (the offset is the number of volumes fetched).
LEMMA FetchCovers ==
  ASSUME Types, FetchPage, NEW e, Covered(e), pc' \in {"walk", "match"}
  PROVE  Covered(e)'
  <1>0. Len(res) \in Nat /\ Len(project) \in Nat /\ Len(res') \in Nat
    <2>1. res \in Seq(Entry) /\ project \in Seq(Entry) BY DEF Types
    <2>2. [Next]_vars BY DEF Next
    <2>3. res' \in Seq(Entry) BY <2>2, TypesStep DEF Types
    <2> QED BY <2>1, <2>3, LenProperties
  <1>1. PICK i \in 1 .. Len(project) :
          /\ Later(e, project[i])
          /\ \/ pc = "walk" /\ i > Len(res)
             \/ \E j \in 1 .. Len(res) : Later(e, res[j]) /\ Later(res[j], project[i])
    BY DEF Covered
  <1>2. CASE Len(res) >= Len(project)
    <2>1. Page = <<>> BY <1>2, PageOf
    <2>2. res' = res /\ project' = project BY <2>1 DEF FetchPage, projectVars
    <2>3. ~(i > Len(res)) BY <1>0, <1>2
    <2> QED BY <1>1, <2>2, <2>3 DEF Covered
  <1>3. CASE Len(res) < Len(project)
    <2>1. Page # <<>> BY <1>3, PageOf
    <2>2. res' = res \o Page /\ project' = project /\ pc = "walk" /\ (pc' = "done" \/ pc' = pc)
      BY <2>1 DEF FetchPage, projectVars
    <2>3. pc' = "walk" BY <2>2
    <2>4. /\ \A j \in 1 .. Len(res) : res'[j] = res[j]
          /\ \A j \in Len(res) + 1 .. Len(res') : res'[j] = project[j]
          /\ Len(res') >= Len(res)
      BY <1>0, <1>3, <2>2, Fetched, BoundsAssumption
    <2>5. CASE i > Len(res')
      BY <1>1, <2>2, <2>3, <2>5 DEF Covered
    <2>6. CASE i > Len(res) /\ i <= Len(res')
      <3>1. i \in 1 .. Len(res') /\ res'[i] = project[i] BY <1>0, <2>4, <2>6
      <3>2. Later(e, res'[i]) /\ Later(res'[i], project'[i]) BY <1>1, <2>2, <3>1, LaterOrder
      <3> QED BY <1>1, <2>2, <3>1, <3>2 DEF Covered
    <2>7. CASE i <= Len(res)
      <3>1. PICK j \in 1 .. Len(res) : Later(e, res[j]) /\ Later(res[j], project[i])
        BY <1>0, <1>1, <2>7
      <3>2. j \in 1 .. Len(res') /\ res'[j] = res[j] BY <1>0, <2>4
      <3> QED BY <1>1, <2>2, <3>1, <3>2 DEF Covered
    <2> QED BY <1>0, <2>5, <2>6, <2>7
  <1> QED BY <1>0, <1>2, <1>3

\* What arrives pushes others to later pages, and what changes stays where it is.
LEMMA ChangeCovers ==
  ASSUME Types, ProjectStep, NEW e, Covered(e), gone' = {}
  PROVE  Covered(e)'
  <1>0. Len(res) \in Nat /\ Len(project) \in Nat /\ DOMAIN project = 1 .. Len(project)
    BY LenProperties, IdsAre DEF Types
  <1>1. Len(project') \in Nat
    <2>1. project' \in Seq(Entry) BY ProjectKeeps DEF ProjectOK
    <2> QED BY <2>1, LenProperties
  <1>2. res' = res /\ pc' = pc BY ProjectKeeps
  <1>3. PICK i \in 1 .. Len(project) :
          /\ Later(e, project[i])
          /\ \/ pc = "walk" /\ i > Len(res)
             \/ \E j \in 1 .. Len(res) : Later(e, res[j]) /\ Later(res[j], project[i])
    BY DEF Covered
  <1>4. \E m \in 1 .. Len(project') : m >= i /\ Later(project[i], project'[m])
    <2>1. ASSUME NEW v \in Ids, NEW k \in {"near", "foreign", "making"}, NEW n \in 1 .. Len(project) + 1,
                 Arrives(v, k, n)
          PROVE  \E m \in 1 .. Len(project') : m >= i /\ Later(project[i], project'[m])
      <3>1. PICK m \in 1 .. Len(project') : m >= i /\ project'[m] = project[i] BY <2>1, ArrivesKeeps
      <3> QED BY <3>1, LaterOrder
    <2>2. ASSUME NEW n \in 1 .. Len(project), Progress(n)
          PROVE  \E m \in 1 .. Len(project') : m >= i /\ Later(project[i], project'[m])
      <3>1. Len(project') = Len(project) /\ Later(project[i], project'[i]) BY <2>2, ProgressKeeps
      <3>2. i \in 1 .. Len(project') /\ i >= i BY <1>0, <3>1
      <3> QED BY <3>1, <3>2
    <2>3. \A n \in 1 .. Len(project) : ~Leaves(n) BY LeavesKeeps
    <2> QED BY <1>0, <2>1, <2>2, <2>3 DEF ProjectStep
  <1>5. PICK m \in 1 .. Len(project') : m >= i /\ Later(project[i], project'[m]) BY <1>4
  <1>6. Later(e, project'[m]) BY <1>3, <1>5, LaterOrder
  <1>7. CASE pc = "walk" /\ i > Len(res)
    <2>1. m > Len(res) BY <1>0, <1>1, <1>5, <1>7
    <2> QED BY <1>2, <1>6, <1>7, <2>1 DEF Covered
  <1>8. CASE \E j \in 1 .. Len(res) : Later(e, res[j]) /\ Later(res[j], project[i])
    <2>1. PICK j \in 1 .. Len(res) : Later(e, res[j]) /\ Later(res[j], project[i]) BY <1>8
    <2>2. Later(res[j], project'[m]) BY <1>5, <2>1, LaterOrder
    <2> QED BY <1>2, <1>6, <2>1, <2>2 DEF Covered
  <1> QED BY <1>3, <1>7, <1>8

\* The verdict on what was fetched is right about what was there (DiscoverVolume).
LEMMA MatchMissesNothing ==
  ASSUME Types, Match, \A k \in 1 .. Len(start) : Covered(start[k])
  PROVE  /\ answer'.code = "NotFound" => Named(ToSet(start)) = {}
         /\ \A v \in Adoptable(Steady) : answer'.code = "OK" /\ answer'.id <= v
  <1>1. answer' = Verdict(ToSet(res)) /\ pc = "match" BY DEF Match
  <1>2. /\ ToSet(res) \subseteq Entry
        /\ \A x : x \in ToSet(start) <=> \E i \in 1 .. Len(start) : x = start[i]
        /\ \A x : x \in ToSet(project) <=> \E i \in 1 .. Len(project) : x = project[i]
        /\ \A x : x \in ToSet(res) <=> \E i \in 1 .. Len(res) : x = res[i]
    BY IdsAre DEF Types
  <1>3. \A k \in 1 .. Len(start) : \E i \in 1 .. Len(project) : \E j \in 1 .. Len(res) :
          Later(start[k], res[j]) /\ Later(res[j], project[i])
    BY <1>1 DEF Covered
  <1>4. ASSUME answer'.code = "NotFound" PROVE Named(ToSet(start)) = {}
    <2>1. Named(ToSet(res)) = {} BY <1>1, <1>2, <1>4, VerdictType
    <2> SUFFICES ASSUME NEW x \in ToSet(start), x.kind # "near" PROVE FALSE BY DEF Named
    <2>2. PICK k \in 1 .. Len(start) : x = start[k] BY <1>2
    <2>3. PICK j \in 1 .. Len(res) : Later(x, res[j]) BY <1>3, <2>2
    <2>4. res[j] \in ToSet(res) /\ res[j].kind # "near" BY <1>2, <2>3 DEF Later
    <2> QED BY <2>1, <2>4 DEF Named
  <1>5. ASSUME NEW v \in Adoptable(Steady) PROVE v \in Adoptable(ToSet(res))
    <2>1. PICK x \in Steady : x.kind = "ready" /\ x.id = v BY DEF Adoptable, Named
    <2>2. x \in ToSet(start) /\ x \in ToSet(project) BY DEF Steady
    <2>3. PICK k \in 1 .. Len(start) : x = start[k] BY <1>2, <2>2
    <2>4. PICK n \in 1 .. Len(project) : x = project[n] BY <1>2, <2>2
    <2>5. PICK i \in 1 .. Len(project), j \in 1 .. Len(res) : Later(x, res[j]) /\ Later(res[j], project[i])
      BY <1>3, <2>3
    <2>6. project[i].id = project[n].id BY <2>4, <2>5 DEF Later
    <2>7. i = n BY <2>6 DEF Types, Distinct
    <2>8. res[j].kind = "ready" /\ res[j].id = v BY <2>1, <2>4, <2>5, <2>7 DEF Later
    <2>9. res[j] \in ToSet(res) BY <1>2
    <2>10. res[j] \in {y \in Named(ToSet(res)) : y.kind = "ready"} BY <2>8, <2>9 DEF Named
    <2> QED BY <2>8, <2>10 DEF Adoptable
  <1>6. ASSUME NEW v \in Adoptable(Steady) PROVE answer'.code = "OK" /\ answer'.id <= v
    BY <1>1, <1>2, <1>5, VerdictType
  <1> QED BY <1>4, <1>6

LEMMA SkipStep ==
  ASSUME SkipInv, [Next]_vars
  PROVE  SkipInv'
  <1>t. Types /\ Types' BY TypesStep DEF SkipInv
  <1> DEFINE Cov == pc \in {"walk", "match"} /\ gone = {} => \A k \in 1 .. Len(start) : Covered(start[k])
  <1> SUFFICES Cov' /\ NothingSkipped' BY <1>t DEF SkipInv
  <1>c. Cov BY DEF SkipInv
  <1>1. CASE FetchPage
    <2>1. pc = "walk" /\ start' = start /\ gone' = gone BY <1>1 DEF FetchPage, projectVars
    <2>2. ASSUME pc' \in {"walk", "match"}, gone' = {}, NEW k \in 1 .. Len(start') PROVE Covered(start[k])'
      <3>1. k \in 1 .. Len(start) BY <2>1, <2>2
      <3>2. Covered(start[k]) BY <1>c, <2>1, <2>2, <3>1
      <3>3. PICK e : e = start[k] OBVIOUS
      <3>4. Covered(e)' BY <1>t, <1>1, <2>2, <3>2, <3>3, FetchCovers
      <3> QED BY <2>1, <3>3, <3>4 DEF Covered
    <2>3. pc' = "done" => answer' = Error("OperationFailed") BY <1>1, <2>1 DEF FetchPage
    <2>4. NothingSkipped' BY <2>3 DEF NothingSkipped, Error, Result
    <2> QED BY <2>2, <2>4
  <1>2. CASE Match
    <2>1. pc = "match" /\ pc' = "done" /\ UNCHANGED <<start, project, gone>> BY <1>2 DEF Match, projectVars
    <2>2. ASSUME gone' = {}
          PROVE  /\ answer'.code = "NotFound" => Named(ToSet(start)) = {}
                 /\ \A v \in Adoptable(Steady) : answer'.code = "OK" /\ answer'.id <= v
      BY <1>c, <1>t, <1>2, <2>1, <2>2, MatchMissesNothing
    <2>3. Named(ToSet(start))' = Named(ToSet(start)) /\ Adoptable(Steady)' = Adoptable(Steady)
      BY <2>1 DEF Steady, Named, Adoptable, ToSet
    <2>4. NothingSkipped' BY <2>2, <2>3 DEF NothingSkipped
    <2> QED BY <2>1, <2>4
  <1>3. ASSUME NEW e \in PageErrors, PageFails(e) PROVE Cov' /\ NothingSkipped'
    BY <1>3 DEF PageFails, NothingSkipped
  <1>4. CASE ProjectStep
    <2>1. start' = start /\ pc' = pc /\ pc \in {"walk", "match"} BY <1>t, <1>4, ProjectKeeps
    <2>2. gone \subseteq gone' BY <1>4 DEF ProjectStep, Arrives, Leaves, Progress
    <2>3. ASSUME gone' = {}, NEW k \in 1 .. Len(start') PROVE Covered(start[k])'
      <3>1. k \in 1 .. Len(start) BY <2>1, <2>3
      <3>2. Covered(start[k]) BY <1>c, <2>1, <2>2, <2>3, <3>1
      <3>3. PICK e : e = start[k] OBVIOUS
      <3>4. Covered(e)' BY <1>t, <1>4, <2>3, <3>2, <3>3, ChangeCovers
      <3> QED BY <2>1, <3>3, <3>4 DEF Covered
    <2>4. NothingSkipped' BY <2>1 DEF NothingSkipped
    <2> QED BY <2>3, <2>4
  <1>5. CASE UNCHANGED vars
    BY <1>5 DEF vars, SkipInv, Covered, NothingSkipped, Steady, Named, Adoptable, ToSet
  <1> QED BY <1>1, <1>2, <1>3, <1>4, <1>5 DEF Next

\* While volumes are created and change state during the walk, and none leaves, nothing that was
\* there from its beginning is missed, however the pages fall: an arriving volume only moves the
\* others to later pages, which the offset has not passed (ListVolumes, DiscoverVolume).
THEOREM NothingSkippedAlways == Spec => []NothingSkipped
  <1>1. SkipInv => NothingSkipped BY DEF SkipInv
  <1> QED BY <1>1, SkipInit, SkipStep, PTL DEF Spec
=============================================================================
