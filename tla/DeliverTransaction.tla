------------------------- MODULE DeliverTransaction -------------------------
(***************************************************************************)
(* form_transaction (eth_transaction.cpp): the transaction that calls      *)
(* deliver, as bytes, against strict decoders of RLP and of the ABI as an  *)
(* Ethereum node and the contract have them.                               *)
(*                                                                         *)
(* A state is one call of form_transaction, and one call of                *)
(* ABI_Generic_Array::encode with items that it does not use itself.       *)
(* Hashes and signatures are bytes that come from outside.                 *)
(***************************************************************************)
EXTENDS Encoding, FiniteSets

CONSTANTS
    Numbers,       \* nonces and request ids
    Errors,        \* error flags
    Responses,     \* what the scrapers may return: 32 bytes or more
    Hashes,        \* the hash of type and data: 32 bytes
    Scalars,       \* the halves of a signature: 32 bytes, with leading zeros
    Address,       \* the contract's address: 20 bytes
    Selector,      \* the first bytes of the hash of deliver's signature
    GASPRICE,
    GASLIMIT,
    Arrays         \* sequences of items for ABI_Generic_Array

TX_BUF_SIZE == 2048

ByteStrings == Seq(0..255)
Items == [type: {"uint"}, n: Nat, size: {4, 8}]
         \cup [type: {"bytes32", "bytes"}, bs: ByteStrings]

\* The types of the program: uint64_t, bytes20 and bytes32; the length of an
\* ABI_Bytes is a uint32_t, an offset a uint64_t.
ASSUME DeliverAssumption ==
    /\ \A n \in Numbers \cup Errors \cup {GASPRICE, GASLIMIT} : Fits(n, 8)
    /\ \A bs \in Responses : bs \in ByteStrings /\ Len(bs) >= 32
    /\ \A bs \in Hashes \cup Scalars : bs \in ByteStrings /\ Len(bs) = 32
    /\ Address \in ByteStrings /\ Len(Address) = 20
    /\ Selector \in ByteStrings /\ Len(Selector) = 4
    /\ \A array \in Arrays :
           /\ array \in Seq(Items)
           /\ \A i \in 1..Len(array) :
                  /\ array[i].type = "uint" => Fits(array[i].n, array[i].size)
                  /\ array[i].type = "bytes32" => Len(array[i].bs) = 32
                  /\ array[i].type = "bytes" => Fits(Len(array[i].bs), 4)
                  /\ Fits(32 * Len(array) + TailLenSums(array)[i], 8)

VARIABLES
    args,          \* the arguments of form_transaction, hash, r, s and v
    raw_tx,        \* its result
    items,         \* the argument of ABI_Generic_Array::encode
    abi            \* its result

deliverVars == <<args, raw_tx, items, abi>>

Args == [nonce: Numbers, id: Numbers, error: Errors, resp: Responses,
         hash: Hashes, r: Scalars, s: Scalars, v: {27, 28}]
NoArgs == [none |-> TRUE]

\* Mutant of DeliverCall: the response is there even if there is an error.
DeliverCallAlways(a) ==
    Selector \o AbiEncode(<<ABI_UInt64(a.id), ABI_Bytes32(a.hash), ABI_UInt64(a.error),
                            ABI_Bytes32(SubSeq(a.resp, 1, 32))>>)

\* Only the first 32 bytes of the response count, and none with an error.
DeliverCall(a) ==
    Selector \o AbiEncode(<<ABI_UInt64(a.id), ABI_Bytes32(a.hash), ABI_UInt64(a.error),
        ABI_Bytes32(IF a.error # 0 THEN Zeros(32) ELSE SubSeq(a.resp, 1, 32))>>)

Transaction(a) ==
    [nonce |-> a.nonce, gasPrice |-> GASPRICE, gas |-> GASLIMIT,
     to |-> Address, value |-> 0, data |-> DeliverCall(a),
     v |-> a.v, r |-> a.r, s |-> a.s]

form_transaction(a) == rlpEncode(Transaction(a), TRUE)

DeliverInit == args = NoArgs /\ raw_tx = <<>> /\ items = <<>> /\ abi = <<>>

Form(a) ==
    /\ args = NoArgs /\ items = <<>>
    /\ args' = a
    /\ raw_tx' = form_transaction(a)
    /\ UNCHANGED <<items, abi>>

Encode(array) ==
    /\ args = NoArgs /\ items = <<>>
    /\ items' = array
    /\ abi' = AbiEncode(array)
    /\ UNCHANGED <<args, raw_tx>>

\* The next call.
NextCall ==
    /\ args # NoArgs \/ items # <<>>
    /\ args' = NoArgs /\ raw_tx' = <<>> /\ items' = <<>> /\ abi' = <<>>

DeliverNext ==
    \/ \E a \in Args : Form(a)
    \/ \E array \in Arrays : Encode(array)
    \/ NextCall

DeliverSpec == DeliverInit /\ [][DeliverNext]_deliverVars
-----------------------------------------------------------------------------
(* Strict decoders (Yellow Paper, appendix B; go-ethereum's package rlp).  *)

Value(bs) ==
    LET v[n \in 0..Len(bs)] == IF n = 0 THEN 0 ELSE 256 * v[n - 1] + bs[n]
    IN  v[Len(bs)]

Invalid == [first |-> 0, next |-> 0, ok |-> FALSE]
Span(bs, first, len) ==
    IF first + len <= Len(bs) + 1
    THEN [first |-> first, next |-> first + len, ok |-> TRUE]
    ELSE Invalid

\* Where the payload of the item at position i of bs begins, and the next
\* item.  The shortest form is the only one; `offset` tells lists from
\* strings.
ItemAt(bs, i, offset) ==
    LET b == bs[i]
        long == b - offset - 55        \* the length of the length
        size == Value(SubSeq(bs, i + 1, i + long))
    IN  CASE offset = 128 /\ b < 128 -> Span(bs, i, 1)
          [] b \in offset..(offset + 55) ->
               IF offset = 128 /\ b = 129 /\ i < Len(bs) /\ bs[i + 1] < 128
               THEN Invalid ELSE Span(bs, i + 1, b - offset)
          [] b \in (offset + 56)..(offset + 63) ->
               IF i + long <= Len(bs) /\ bs[i + 1] # 0 /\ size >= 56
               THEN Span(bs, i + 1 + long, size) ELSE Invalid
          [] OTHER -> Invalid

\* The strings in bs from position i on; an item that is not ok ends it with
\* the string <<-1>>, which is not one of bytes.
Strings(bs, i) ==
    LET from[j \in 1..(Len(bs) + 1)] ==
            IF j > Len(bs) THEN <<>>
            ELSE LET item == ItemAt(bs, j, 128) IN
                 IF item.ok
                 THEN <<SubSeq(bs, item.first, item.next - 1)>> \o from[item.next]
                 ELSE <<<<-1>>>>
    IN  from[i]

DecodeList(bs) ==
    LET list == ItemAt(bs, 1, 192) IN
    IF list.ok /\ list.next = Len(bs) + 1 THEN Strings(bs, list.first)
    ELSE <<<<-1>>>>

\* A number in a transaction has no leading zero.
Canonical(bs) == bs = <<>> \/ bs[1] # 0

Word(bs, n) == SubSeq(bs, 32 * n + 1, 32 * n + 32)
-----------------------------------------------------------------------------
(* Properties.                                                             *)

DeliverTypeOK ==
    /\ args \in Args \cup {NoArgs}
    /\ raw_tx \in Seq(0..255) /\ Len(raw_tx) <= TX_BUF_SIZE
    /\ abi \in Seq(0..255)

Formed == args # NoArgs

\* A node that decodes the transaction finds the fields that were put in;
\* those that are signed are the ones that are sent.
DecodesBack ==
    /\ DeliverTypeOK
    /\ Formed =>
           LET tx == Transaction(args) IN
           /\ DecodeList(raw_tx) = Fields(tx, TRUE)
           /\ DecodeList(rlpEncode(tx, FALSE)) = SubSeq(DecodeList(raw_tx), 1, 6)

\* The node reads the numbers that were put in and rejects the transaction
\* for its numbers only if r or s begins with a zero byte: they alone are
\* encoded with their leading zeros.  Such a response is lost.
RejectedForScalarsOnly ==
    Formed =>
        LET fields == DecodeList(raw_tx) IN
        /\ Value(fields[1]) = args.nonce
        /\ \A i \in {1, 2, 3, 5, 7} : Canonical(fields[i])
        /\ (Canonical(fields[8]) /\ Canonical(fields[9]))
               <=> (args.r[1] # 0 /\ args.s[1] # 0)

\* The contract reads the arguments of deliver; with an error flag there is
\* no response.
ContractReadsArguments ==
    Formed =>
        LET call == SubSeq(DecodeList(raw_tx)[6], Len(Selector) + 1, 132) IN
        /\ Len(DecodeList(raw_tx)[6]) = 132
        /\ Value(Word(call, 0)) = args.id
        /\ Word(call, 1) = args.hash
        /\ Value(Word(call, 2)) = args.error
        /\ Word(call, 3) = IF args.error = 0 THEN SubSeq(args.resp, 1, 32)
                           ELSE Zeros(32)

DynamicItems == {n \in 1..Len(items) : items[n].type = "bytes"}

\* The offsets of the first two dynamic items of an array are right: there
\* is the length and, if it needs no padding, the string.  A third offset
\* would be wrong, which nothing in the enclave asks for.
OffsetsRight ==
    \A n \in DynamicItems :
        LET at == Value(Word(abi, n - 1))
            len == Len(items[n].bs)
        IN  Cardinality(DynamicItems \cap 1..n) <= 2 =>
                /\ Value(SubSeq(abi, at + 1, at + 32)) = len
                /\ len % 32 = 0 =>
                       SubSeq(abi, at + 33, at + 32 + len) = items[n].bs
=============================================================================
