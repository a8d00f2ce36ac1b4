---------------------------- MODULE VolumeSize ----------------------------
(***************************************************************************)
(* The size arithmetic of pkg/driver/controller_server.go: the size a      *)
(* capacity range asks for, its rounding up to whole gigabytes for the     *)
(* Civo API, and the way back to bytes in signed 64-bit numbers.           *)
(***************************************************************************)
EXTENDS Integers

CONSTANTS
    BytesInGigabyte,
    DefaultVolumeSizeGB,
    MaxInt64,           \* the largest signed number of the width used
    NoRange             \* a request without a capacity range

ASSUME WidthAssumption == BytesInGigabyte \in Nat \ {0} /\ MaxInt64 \in Nat
ASSUME DefaultAssumption == DefaultVolumeSizeGB \in Nat

\* The numbers of bytes a client may send; the specification of CSI excludes
\* negative ones.
Bytes == 0 .. MaxInt64
CapacityRanges == [required : Bytes, limit : Bytes] \cup {NoRange}

getVolSizeInBytes(range) ==
    IF range = NoRange THEN DefaultVolumeSizeGB * BytesInGigabyte
    ELSE IF range.required # 0 THEN range.required ELSE range.limit

RoundedDown(bytes) == bytes \div BytesInGigabyte
\* The size in GB asked of the Civo API.
DesiredSize(bytes) ==
    (bytes \div BytesInGigabyte) + (IF bytes % BytesInGigabyte # 0 THEN 1 ELSE 0)

Unsigned64(x) == x % (2 * (MaxInt64 + 1))
\* Two's complement.
Int64(x) == ((x + MaxInt64 + 1) % (2 * (MaxInt64 + 1))) - (MaxInt64 + 1)

\* The bytes told to the client for a volume of so many GB.
CapacityBytes(gb) == Int64(gb * BytesInGigabyte)
===========================================================================
