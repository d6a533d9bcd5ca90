--------------------------- MODULE MCApplication ---------------------------
(***************************************************************************)
(* Instances of Application for TLC.  Alice is a contract, and so is the   *)
(* owner of TownCrier, who uses Application as well.                       *)
(***************************************************************************)
EXTENDS Application, TLC

\* A new minimum fee, with the cancellation fee that Application has as a
\* constant, and ones below and above it.
MCResetArgs ==
    {[price |-> 1, minGas |-> 11, cancellationGas |-> gas] : gas \in {3, 5, 8}}
=============================================================================
