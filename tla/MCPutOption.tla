---------------------------- MODULE MCPutOption ----------------------------
(***************************************************************************)
(* Instances of PutOption for TLC.                                         *)
(***************************************************************************)
EXTENDS PutOption

\* Of two units at 1 with a strike price of 3 the issuer owes 4 and one
\* fee or three; one offer has a strike price below that of the unit.
MCTerms ==
    [vote: BOOLEAN, unitPrice: {1}, maxUnits: {2}, strike: {3}, paidIn: 5..8]
    \cup [vote: BOOLEAN, unitPrice: {4}, maxUnits: {1}, strike: {3}, paidIn: 0..3]
=============================================================================
