------------------------ MODULE VolumeSize_proofs ------------------------
(***************************************************************************)
(* Theorems about VolumeSize, for every width and size of a gigabyte.      *)
(***************************************************************************)
EXTENDS VolumeSize, TLAPS

\* Division leaves a remainder below the divisor.
LEMMA Division ==
    ASSUME NEW a \in Nat, NEW d \in Nat \ {0}
    PROVE  /\ a \div d \in Nat
           /\ a % d \in Nat
           /\ a % d < d
           /\ a = (d * (a \div d)) + (a % d)
OBVIOUS

\* Rounding up: the least number of gigabytes that hold the bytes.
LEMMA RoundingUp ==
    ASSUME NEW bytes \in Nat
    PROVE  /\ DesiredSize(bytes) \in Nat
           /\ bytes <= DesiredSize(bytes) * BytesInGigabyte
           /\ DesiredSize(bytes) * BytesInGigabyte < bytes + BytesInGigabyte
<1> DEFINE G == BytesInGigabyte
           q == bytes \div G
           m == bytes % G
<1>1. G \in Nat \ {0}
  BY WidthAssumption
<1>2. q \in Nat /\ m \in Nat /\ m < G /\ bytes = (G * q) + m
  BY <1>1, Division
<1>3. DesiredSize(bytes) = IF m # 0 THEN q + 1 ELSE q
  BY <1>2 DEF DesiredSize
<1> HIDE DEF G, q, m
<1>4. (q + 1) * G = (G * q) + G /\ q * G = G * q
  BY <1>1, <1>2
<1> QED
  BY <1>1, <1>2, <1>3, <1>4 DEF G

\* A number within the width is told as it is, also a negative one.
LEMMA NoWrap ==
    ASSUME NEW x \in Int, -MaxInt64 <= x, x <= MaxInt64
    PROVE  Int64(x) = x
BY WidthAssumption DEF Int64

\* The volume that a range asks for lies within it, when the limit is a whole
\* number of gigabytes. Otherwise the rounding, which looks at one bound only,
\* may pass the limit by less than a gigabyte (RoundingUp), as for the third
\* caller of MCCreateVolume (getVolSizeInBytes, controller_server.go:919-931).
THEOREM RangeKept ==
    ASSUME NEW range \in CapacityRanges \ {NoRange},
           range.limit # 0, range.required <= range.limit,
           NEW k \in Nat, range.limit = k * BytesInGigabyte
    PROVE  LET size == DesiredSize(getVolSizeInBytes(range)) * BytesInGigabyte
           IN  range.required <= size /\ size <= range.limit
<1> DEFINE bytes == getVolSizeInBytes(range)
           q == DesiredSize(bytes)
           G == BytesInGigabyte
<1>1. bytes \in Nat /\ range.required <= bytes /\ bytes <= range.limit
  BY WidthAssumption DEF getVolSizeInBytes, CapacityRanges, Bytes
<1> HIDE DEF bytes
<1>2. G \in Nat \ {0} /\ q \in Nat /\ bytes <= q * G /\ q * G < bytes + G
  BY <1>1, RoundingUp, WidthAssumption
<1> HIDE DEF q, G
<1>3. q * G < (k + 1) * G
  BY <1>1, <1>2 DEF G
<1>4. q <= k
  BY <1>2, <1>3
<1>5. q * G <= k * G
  BY <1>2, <1>4
<1>6. range.required \in Nat /\ range.limit = k * G
  BY WidthAssumption DEF CapacityRanges, Bytes, G
<1>7. range.required <= q * G /\ q * G <= range.limit
  BY <1>1, <1>2, <1>5, <1>6
<1> QED
  BY <1>7 DEF G, q, bytes
===========================================================================
