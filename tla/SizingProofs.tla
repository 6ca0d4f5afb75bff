---------------------------- MODULE SizingProofs ----------------------------
(***************************************************************************)
(* What resolveSizeGiB and limitSizeGiB compute, for every capacity range  *)
(* and every width of the integers.                                        *)
(***************************************************************************)
EXTENDS Sizing, TLAPS

\* A size that CreateVolume may ask for: expressible in bytes, and within the capacity range.
Serves(size, required, limit) ==
  /\ size >= MinSize
  /\ size * BytesInGiB \in required .. MaxInt64
  /\ limit > 0 => size * BytesInGiB <= limit

\* Whole GiB and a rest.
LEMMA Division ==
  ASSUME NEW n \in Nat, NEW d \in Nat \ {0}
  PROVE  /\ n \div d \in Nat
         /\ (n \div d) * d <= n
         /\ n < (n \div d) * d + d
  OBVIOUS

\* A product is monotone in its first factor, and strictly so in whole steps.
LEMMA Product ==
  ASSUME NEW a \in Nat, NEW b \in Nat, NEW d \in Nat \ {0}
  PROVE  /\ a <= b => a * d <= b * d
         /\ a < b => a * d + d <= b * d
         /\ a * d \in Nat
  OBVIOUS

\* The sum of resolveSizeGiB is smaller than required_bytes exactly when it has left int64.
LEMMA RoundedIsSum ==
  ASSUME NEW required \in 0 .. MaxInt64
  PROVE  IF required + BytesInGiB - 1 > MaxInt64
         THEN Rounded(required) < required
         ELSE Rounded(required) = required + BytesInGiB - 1 /\ Rounded(required) >= required
  BY SizesAssumption DEF Rounded, Wrap

\* The size in GiB is the smallest that is supported and holds required_bytes.
LEMMA LeastSize ==
  ASSUME NEW required \in 0 .. MaxInt64, Rounded(required) >= required
  PROVE  LET size == resolveSizeGiB(required) IN
         /\ size \in Nat /\ size >= MinSize
         /\ size * BytesInGiB \in required .. MaxInt64
         /\ \A s \in Nat : s >= MinSize /\ s * BytesInGiB >= required => size <= s
  <1> DEFINE sum == required + BytesInGiB - 1
             size == sum \div BytesInGiB
  <1>1. Rounded(required) = sum /\ sum \in 0 .. MaxInt64
    <2>1. Rounded(required) \in Int BY SizesAssumption DEF Rounded, Wrap
    <2>2. ~(sum > MaxInt64) BY <2>1, RoundedIsSum, SizesAssumption
    <2> QED BY <2>2, RoundedIsSum, SizesAssumption
  <1>2. /\ size \in Nat
        /\ size * BytesInGiB <= sum
        /\ sum < size * BytesInGiB + BytesInGiB
    BY <1>1, Division, SizesAssumption
  <1>3. resolveSizeGiB(required) = IF size > MinSize THEN size ELSE MinSize
    BY <1>1 DEF resolveSizeGiB
  <1> HIDE DEF size
  <1>4. size * BytesInGiB >= required /\ size * BytesInGiB \in Nat
    BY <1>2, SizesAssumption, Product
  <1>5. MinSize > size => MinSize * BytesInGiB >= size * BytesInGiB
    BY <1>2, SizesAssumption, Product
  <1>6. ASSUME NEW s \in Nat, s * BytesInGiB >= required
        PROVE  size <= s
    <2>1. SUFFICES ASSUME s < size PROVE FALSE
      BY <1>2
    <2>2. s * BytesInGiB + BytesInGiB <= size * BytesInGiB
      BY <1>2, <2>1, SizesAssumption, Product
    <2>3. s * BytesInGiB \in Nat
      BY SizesAssumption, Product
    <2> QED BY <1>2, <1>4, <1>6, <2>2, <2>3, SizesAssumption
  <1>7. CASE size > MinSize
    BY <1>1, <1>2, <1>3, <1>4, <1>6, <1>7, SizesAssumption
  <1>8. CASE ~(size > MinSize)
    <2>1. MinSize * BytesInGiB >= required
      BY <1>2, <1>4, <1>5, <1>8, SizesAssumption
    <2> QED BY <1>2, <1>3, <1>8, <2>1, SizesAssumption
  <1> QED BY <1>7, <1>8

(***************************************************************************)
(* A range that resolveSizeGiB accepts is served by the size it returns,   *)
(* and by no smaller one, for all int64 values of required_bytes and       *)
(* limit_bytes.                                                            *)
(***************************************************************************)
THEOREM AcceptedSizeIsLeast ==
  ASSUME NEW required \in Int64, NEW limit \in Int64, sizeError(required, limit) = "OK"
  PROVE  LET size == resolveSizeGiB(required) IN
         /\ size \in Nat
         /\ Serves(size, required, limit)
         /\ \A s \in Nat : Serves(s, required, limit) => size <= s
  <1>1. /\ required >= 0 /\ limit >= 0
        /\ Rounded(required) \in Int /\ Rounded(required) >= required
        /\ limit > 0 => ~(resolveSizeGiB(required) * BytesInGiB > limit)
    <2>1. Rounded(required) \in Int
      BY SizesAssumption DEF Rounded, Wrap, Int64
    <2> QED BY <2>1, SizesAssumption DEF sizeError, Malformed, Unsatisfiable, Int64
  <1>2. required \in 0 .. MaxInt64
    BY <1>1, SizesAssumption DEF Int64
  <1>3. PICK size \in Nat : size = resolveSizeGiB(required)
    BY <1>1, <1>2, LeastSize
  <1>4. size * BytesInGiB \in Int
    BY SizesAssumption
  <1>5. /\ size >= MinSize
        /\ size * BytesInGiB \in required .. MaxInt64
        /\ \A s \in Nat : s >= MinSize /\ s * BytesInGiB >= required => size <= s
    BY <1>1, <1>2, <1>3, LeastSize
  <1>6. limit > 0 => size * BytesInGiB <= limit
    BY <1>1, <1>3, <1>4 DEF Int64
  <1>7. Serves(size, required, limit)
    BY <1>5, <1>6 DEF Serves
  <1>8. ASSUME NEW s \in Nat, Serves(s, required, limit) PROVE size <= s
    BY <1>5, <1>8, <1>2, SizesAssumption DEF Serves
  <1> QED BY <1>3, <1>7, <1>8

(***************************************************************************)
(* A range of non-negative bounds that resolveSizeGiB refuses is served by *)
(* no size at all: neither the rounding, nor the overflow check, nor the   *)
(* minimum turns away a request that could be met.                         *)
(***************************************************************************)
THEOREM RefusedSizeIsImpossible ==
  ASSUME NEW required \in 0 .. MaxInt64, NEW limit \in 0 .. MaxInt64,
         sizeError(required, limit) # "OK", NEW s \in Nat
  PROVE  ~Serves(s, required, limit)
  <1> SUFFICES ASSUME Serves(s, required, limit) PROVE FALSE
    OBVIOUS
  <1>1. /\ s * BytesInGiB \in Nat /\ s >= MinSize
        /\ s * BytesInGiB >= required /\ s * BytesInGiB <= MaxInt64
        /\ limit > 0 => s * BytesInGiB <= limit
    BY SizesAssumption, Product DEF Serves
  <1>2. CASE limit > 0 /\ required > limit
    BY <1>1, <1>2
  <1>3. CASE Rounded(required) < required
    <2>1. required + BytesInGiB - 1 > MaxInt64
      BY <1>3, RoundedIsSum, SizesAssumption
    <2>2. PICK k \in Nat : MaxInt64 + 1 = k * BytesInGiB
      BY SizesAssumption
    <2>3. ~(k <= s)
      <3>1. k <= s => k * BytesInGiB <= s * BytesInGiB
        BY Product, SizesAssumption
      <3> QED BY <3>1, <2>2, <1>1, SizesAssumption
    <2>4. s * BytesInGiB + BytesInGiB <= k * BytesInGiB
      BY <2>3, Product, SizesAssumption
    <2> QED BY <1>1, <2>1, <2>2, <2>4, SizesAssumption
  <1>4. CASE /\ ~(Rounded(required) < required)
             /\ limit > 0 /\ resolveSizeGiB(required) * BytesInGiB > limit
    <2>1. Rounded(required) \in Int /\ Rounded(required) >= required
      <3>1. Rounded(required) \in Int BY SizesAssumption DEF Rounded, Wrap
      <3> QED BY <1>4, <3>1
    <2>2. PICK size \in Nat : size = resolveSizeGiB(required) /\ size <= s
      BY <1>1, <2>1, LeastSize
    <2>3. size * BytesInGiB <= s * BytesInGiB
      BY <2>2, Product, SizesAssumption
    <2>4. size * BytesInGiB \in Nat
      BY Product, SizesAssumption
    <2> QED BY <1>1, <1>4, <2>2, <2>3, <2>4
  <1> QED BY <1>2, <1>3, <1>4, SizesAssumption DEF sizeError, Malformed, Unsatisfiable

\* The upper bound in whole GiB means the same as limit_bytes, and is never mistaken for
\* "no upper bound" (zero) in a range that was accepted.
LEMMA LimitMeansBytes ==
  ASSUME NEW required \in Int64, NEW limit \in Int64, sizeError(required, limit) = "OK",
         limit > 0, NEW size \in Nat
  PROVE  /\ limitSizeGiB(limit) \in Nat /\ limitSizeGiB(limit) > 0
         /\ size <= limitSizeGiB(limit) <=> size * BytesInGiB <= limit
  <1> DEFINE bound == limit \div BytesInGiB
  <1>0. limit \in Nat
    BY SizesAssumption DEF Int64
  <1>1. bound \in Nat /\ bound * BytesInGiB <= limit /\ limit < bound * BytesInGiB + BytesInGiB
    BY <1>0, Division, SizesAssumption
  <1>2. limitSizeGiB(limit) = bound
    BY <1>0 DEF limitSizeGiB
  <1> HIDE DEF bound
  <1>3. ASSUME NEW s \in Nat PROVE s <= bound <=> s * BytesInGiB <= limit
    <2>1. s <= bound => s * BytesInGiB <= bound * BytesInGiB
      BY <1>1, Product, SizesAssumption
    <2>2. bound < s => bound * BytesInGiB + BytesInGiB <= s * BytesInGiB
      BY <1>1, Product, SizesAssumption
    <2>3. s * BytesInGiB \in Nat /\ bound * BytesInGiB \in Nat
      BY <1>1, Product, SizesAssumption
    <2> QED BY <1>0, <1>1, <2>1, <2>2, <2>3, SizesAssumption
  <1>4. PICK least \in Nat : least >= MinSize /\ least * BytesInGiB <= limit
    BY AcceptedSizeIsLeast DEF Serves
  <1>5. least <= bound
    BY <1>3, <1>4
  <1> QED BY <1>1, <1>2, <1>3, <1>4, <1>5, SizesAssumption
=============================================================================
