----------------------------- MODULE MCListing -----------------------------
(***************************************************************************)
(* Small instances of Listing: pages of two, at most two of them, and up   *)
(* to five volumes, so that a listing ends within a page, on the bound and *)
(* beyond it.  Volumes are listed newest or oldest first.                  *)
(***************************************************************************)
EXTENDS Listing

MCIds == 1 .. 5
MCKinds == {"near", "foreign", "making", "ready"}
MCOldestFirst(n) == {[i \in 1 .. n |-> [id |-> i, kind |-> k[i]]] : k \in [1 .. n -> MCKinds]}
\* At most two of the name, the rest near misses.
MCFew(l) == Cardinality({i \in DOMAIN l : l[i].kind # "near"}) <= 2
MCListings ==
  LET listings == UNION {{l \in MCOldestFirst(n) : MCFew(l)} : n \in 0 .. 5}
  IN  listings \cup {Reverse(l) : l \in listings}
=============================================================================
