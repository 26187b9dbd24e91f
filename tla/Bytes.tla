--------------------------------- MODULE Bytes ---------------------------------
(***************************************************************************)
(* Numbers as bytes, in either order: to_le_bytes, from_le_bytes,          *)
(* to_be_bytes and from_be_bytes.  A byte is <<n>>, so that it can be      *)
(* compared with a byte that stands for something else (see HeaderCodec).  *)
(***************************************************************************)
EXTENDS Integers, Sequences

CONSTANT Base  \* the values of a byte: 256

Byte(n) == <<n>>

(* Base to the k-th.                                                       *)
Power[k \in Nat] == IF k = 0 THEN 1 ELSE Base * Power[k - 1]

LE(n, len) == [i \in 1..len |-> Byte((n \div Power[i - 1]) % Base)]
BE(n, len) == [i \in 1..len |-> Byte((n \div Power[len - i]) % Base)]

FromLE(bytes) ==
  LET sum[i \in 0..Len(bytes)] ==
        IF i = 0 THEN 0 ELSE sum[i - 1] + bytes[i][1] * Power[i - 1]
  IN  sum[Len(bytes)]

FromBE(bytes) ==
  LET sum[i \in 0..Len(bytes)] == IF i = 0 THEN 0 ELSE sum[i - 1] * Base + bytes[i][1]
  IN  sum[Len(bytes)]
=============================================================================
