------------------------------ MODULE Encoding ------------------------------
(***************************************************************************)
(* The encodings of the enclave: integers as bytes (encoding.cpp), RLP     *)
(* (encoding.h, eth_transaction.cpp) and the Ethereum ABI (eth_abi.cpp).   *)
(* A byte string is a sequence of numbers 0..255.                          *)
(***************************************************************************)
EXTENDS Notation

Zeros(n) == [i \in 1..n |-> 0]

\* An unsigned integer of `size` bytes.
Fits(n, size) == n \in Nat /\ Quotients(n, 256)[size] = 0

\* The bytes of a uint64_t, from the lowest, which is byte 0.
get_n_th_byte(n, i) == Quotients(n, 256)[i] % 256

byte_length(n) ==
    CHOOSE d \in 0..8 : /\ Quotients(n, 256)[d] = 0
                        /\ \A i \in 0..(d - 1) : Quotients(n, 256)[i] # 0

\* The `size` low bytes of n, most significant first.
BigEndian(n, size) == [j \in 1..size |-> get_n_th_byte(n, size - j)]

\* Mutant of itob: zero takes a byte.
ItobZero(n, width) ==
    LET bs == IF n = 0 THEN <<0>> ELSE BigEndian(n, byte_length(n))
    IN  IF width > Len(bs) THEN Zeros(width - Len(bs)) \o bs ELSE bs

\* The bytes of n without leading zeros, but at least `width`.
itob(n, width) ==
    LET bs == BigEndian(n, byte_length(n)) IN
    IF width > Len(bs) THEN Zeros(width - Len(bs)) \o bs ELSE bs

append_as_uint256(n, len) == Zeros(32 - len) \o BigEndian(n, len)
-----------------------------------------------------------------------------
(* RLP.                                                                    *)

\* 0x80 + len or 0xc0 + len up to 55 bytes; else the length of the length,
\* counted from 0xb7 or 0xf7, and the length.
RlpHeader(offset, len) ==
    IF len < 56 THEN <<offset + len>>
    ELSE LET l == itob(len, 0) IN <<offset + 55 + Len(l)>> \o l

\* Mutant of rlp_string: the highest bit is ignored.
RlpStringByte(bs) ==
    IF Len(bs) = 1 THEN bs ELSE RlpHeader(128, Len(bs)) \o bs

\* rlp_string, and rlp_item, which encodes v.
rlp_string(bs) ==
    IF Len(bs) = 1 /\ bs[1] < 128 THEN bs ELSE RlpHeader(128, Len(bs)) \o bs

\* The fields of a transaction that are encoded, as byte strings: integers by
\* parseUInt64, r and s with all their 32 bytes.
Fields(tx, withSig) ==
    <<itob(tx.nonce, 0), itob(tx.gasPrice, 0), itob(tx.gas, 0), tx.to,
      itob(tx.value, 0), tx.data>>
    \o (IF withSig THEN <<<<tx.v>>, tx.r, tx.s>> ELSE <<>>)

\* Transaction::rlpEncode.
rlpEncode(tx, withSig) ==
    LET fields == Fields(tx, withSig)
        items == Concat([i \in 1..Len(fields) |-> rlp_string(fields[i])])
    IN  RlpHeader(192, Len(items)) \o items
-----------------------------------------------------------------------------
(* The ABI.  An item is an integer of a number of bytes, or 32 bytes, or a  *)
(* byte string of any length, which is dynamic.                            *)

ABI_UInt64(n) == [type |-> "uint", n |-> n, size |-> 8]
ABI_UInt32(n) == [type |-> "uint", n |-> n, size |-> 4]
ABI_Bytes32(bs) == [type |-> "bytes32", bs |-> bs]
ABI_Bytes(bs) == [type |-> "bytes", bs |-> bs]

Dynamic(item) == item.type = "bytes"
RoundTo32(n) == ((n + 31) \div 32) * 32

\* The last of them pads on the left.
EncodeItem(item) ==
    CASE item.type = "uint"    -> append_as_uint256(item.n, item.size)
      [] item.type = "bytes32" -> item.bs
      [] item.type = "bytes"   ->
           append_as_uint256(Len(item.bs), 4)
           \o Zeros(RoundTo32(Len(item.bs)) - Len(item.bs)) \o item.bs

TailLen(item) == IF Dynamic(item) THEN 32 + RoundTo32(Len(item.bs)) ELSE 0

\* The lengths of the tails of the first items.
TailSums(items) == Sums([i \in 1..Len(items) |-> TailLen(items[i])])

\* tail_len_sum as it stands at each item: it is not reset between two dynamic
\* items, so the lengths counted for the earlier ones are counted again.
TailLenSums(items) ==
    Sums([i \in 1..Len(items) |->
              IF Dynamic(items[i]) THEN TailSums(items)[i - 1] ELSE 0])

\* Mutant of HeadOf: offsets count from the end of the heads.
HeadOfTail(items, n) ==
    IF Dynamic(items[n])
    THEN append_as_uint256(TailLenSums(items)[n], 8)
    ELSE EncodeItem(items[n])

\* The head of item n: its offset, or itself.  Each head has 32 bytes.
HeadOf(items, n) ==
    IF Dynamic(items[n])
    THEN append_as_uint256(32 * Len(items) + TailLenSums(items)[n], 8)
    ELSE EncodeItem(items[n])

\* ABI_Generic_Array::encode.
AbiEncode(items) ==
    Concat([n \in 1..Len(items) |-> HeadOf(items, n)])
    \o Concat([n \in 1..Len(items) |->
           IF Dynamic(items[n]) THEN EncodeItem(items[n]) ELSE <<>>])
=============================================================================
