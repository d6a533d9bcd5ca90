--------------------------- MODULE MCFlightQuery ---------------------------
(***************************************************************************)
(* Instances of FlightQuery for TLC: words of 16 and 13 bits, in which half *)
(* an hour has its 1800 seconds, and departures at the boundaries.         *)
(***************************************************************************)
EXTENDS FlightQuery

MCTimes == {Filed - 1, Filed, Filed + 29, Filed + 30, Filed + LateBy - 1,
            Filed + LateBy, Filed + UINT32 \div 2, Filed + UINT32 - 1}

\* The values that make a difference: the ends of an int and of the decision.
MCGarbage == {INT_MIN, -1, 0, PAYOUT_DELAY - 1, PAYOUT_DELAY, INT_MAX}
=============================================================================
