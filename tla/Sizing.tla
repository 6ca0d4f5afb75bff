------------------------------- MODULE Sizing -------------------------------
(***************************************************************************)
(* The sizes of CreateVolume (internal/driver/controller.go): a capacity   *)
(* range in bytes, two int64 values of which zero means "not given", is    *)
(* turned into whole GiB.  required_bytes is rounded up, limit_bytes down, *)
(* and the rounding up may leave the range of int64.                       *)
(***************************************************************************)
EXTENDS Integers

CONSTANTS
  BytesInGiB,   \* bytesInGiB
  MinSize,      \* minVolumeSizeGiB
  MaxInt64      \* the largest int64

ASSUME SizesAssumption ==
  /\ BytesInGiB \in Nat \ {0}
  /\ MinSize \in Nat \ {0}
  /\ MaxInt64 \in Nat
  /\ BytesInGiB <= MaxInt64
  /\ MinSize * BytesInGiB <= MaxInt64
  /\ \E k \in 1 .. MaxInt64 + 1 : MaxInt64 + 1 = k * BytesInGiB   \* both are powers of two

Int64 == -(MaxInt64 + 1) .. MaxInt64

\* What int64 makes of the sum of two of its non-negative values.
Wrap(n) == IF n > MaxInt64 THEN n - 2 * (MaxInt64 + 1) ELSE n

Rounded(required) == Wrap(required + BytesInGiB - 1)

\* The smallest supported size in GiB that holds required bytes.
resolveSizeGiB(required) ==
  LET size == Rounded(required) \div BytesInGiB IN
  IF size > MinSize THEN size ELSE MinSize

\* The range makes no sense.
Malformed(required, limit) ==
  \/ required < 0 \/ limit < 0
  \/ limit > 0 /\ required > limit

\* Mutant: the sum that has wrapped around is not noticed.
UnsatisfiableUnchecked(required, limit) ==
  limit > 0 /\ resolveSizeGiB(required) * BytesInGiB > limit

\* No supported size lies in the range.
Unsatisfiable(required, limit) ==
  \/ Rounded(required) < required
  \/ limit > 0 /\ resolveSizeGiB(required) * BytesInGiB > limit

\* The answer resolveSizeGiB gives instead of a size, or "OK".
sizeError(required, limit) ==
  IF Malformed(required, limit) THEN "InvalidArgument"
  ELSE IF Unsatisfiable(required, limit) THEN "OutOfRange" ELSE "OK"

\* The largest size in GiB that the range allows; zero when it has no upper bound.
limitSizeGiB(limit) == IF limit <= 0 THEN 0 ELSE limit \div BytesInGiB
=============================================================================
