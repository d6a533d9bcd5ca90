------------------------ MODULE MCDeliverTransaction ------------------------
(***************************************************************************)
(* Instances of DeliverTransaction for TLC: numbers at the boundaries of a *)
(* byte, signatures with and without leading zeros, and arrays of up to    *)
(* three items.                                                            *)
(***************************************************************************)
EXTENDS DeliverTransaction

Fill(b, n) == [i \in 1..n |-> b]

MCNumbers == {0, 1, 127, 128, 255, 256, 65536}
MCResponses == {Fill(7, 32), Zeros(31) \o <<30>> \o Fill(1, 8)}
MCHashes == {Fill(200, 32)}
MCScalars == {Fill(129, 32), Zeros(1) \o Fill(1, 31)}
MCAddress == Fill(0, 2) \o Fill(17, 18)
MCSelector == <<72, 126, 110, 50>>

\* 56 and more bytes need the long form of RLP; 33 do not fill their words.
MCItems == {ABI_UInt64(300), ABI_UInt32(5), ABI_Bytes32(Fill(9, 32)),
            ABI_Bytes(<<>>), ABI_Bytes(Fill(3, 32)), ABI_Bytes(Fill(4, 33)),
            ABI_Bytes(Fill(5, 64))}
MCArrays == UNION {[1..n -> MCItems] : n \in 1..3}
=============================================================================
