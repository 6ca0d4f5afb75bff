--------------------------- MODULE MCProvisioning ---------------------------
(***************************************************************************)
(* Small instances of Provisioning: one name that every call disputes, a   *)
(* request and two variants of it (a larger size, a range with an upper    *)
(* bound), and ranges at the edges of the arithmetic, most of them         *)
(* refused.  A GiB is 4 bytes here, the least volume has 2 GiB and int64   *)
(* ends at 31.                                                             *)
(***************************************************************************)
EXTENDS Provisioning, TLC

CONSTANTS c1, c2, c3, n1, p1

MCIds2 == {1, 2}
MCRange(required, limit) == [name |-> n1, place |-> p1, required |-> required, limit |-> limit]
MCSmall == MCRange(1, 0)
MCLarge == MCRange(9, 0)
MCTight == MCRange(0, 11)
MCRequests == {MCLarge, MCTight}
MCRefused ==
  { [MCSmall EXCEPT !.place = NoPlace],   \* no zone or no type
    MCRange(9, 11),                       \* no whole GiB in between
    MCRange(9, 8),                        \* malformed
    MCRange(30, 0) }                      \* the rounding leaves int64
MCEdge == MCRange(28, 31)                 \* the largest size there is
MCAllRequests == MCRefused \cup {MCSmall, MCTight, MCEdge}
MCSameRequest == {MCSmall}

CallSymmetry == Permutations(Calls)
=============================================================================
