---------------------------- MODULE MCTownCrier ----------------------------
(***************************************************************************)
(* Instances of TownCrier for TLC.  The owner and the application are      *)
(* contracts, so every callback and refund may re-enter; alice is not.     *)
(***************************************************************************)
EXTENDS TownCrier, TLC

\* Prices above the initial ones.
MCResetArgs ==
    {[price |-> 2, minGas |-> 4, cancellationGas |-> 3]}
=============================================================================
