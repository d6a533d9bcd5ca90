------------------------- MODULE MCFlightInsurance -------------------------
(***************************************************************************)
(* Instances of FlightInsurance for TLC.  Alice, who buys policies, is a   *)
(* contract; the owner of TownCrier and of FlightInsurance is not.         *)
(***************************************************************************)
EXTENDS FlightInsurance, TLC

\* TownCrier's minimum fee rises above the fee of policies already sold.
MCResetArgs == {[price |-> 1, minGas |-> 11, cancellationGas |-> 5]}
=============================================================================
