-------------------------- MODULE TownCrierClient --------------------------
(***************************************************************************)
(* A contract that uses the TownCrier contract, from the outside: how      *)
(* control moves between TownCrier, the client contract and its users.     *)
(* Application and FlightInsurance extend this module with what they       *)
(* store and do.                                                           *)
(*                                                                         *)
(* The client's calls into TownCrier, TownCrier's refunds to the client's  *)
(* empty fallback and its callback `response` run to their end without     *)
(* handing control to anybody else, so they are inlined, with the          *)
(* operators of TownCrier for what they do there.  Control leaves the two  *)
(* contracts only when the client sends ether to a user; the frames of     *)
(* `calls` are these suspended payments, during which a user that is a     *)
(* contract may call either contract again.                                *)
(***************************************************************************)
EXTENDS Integers, Sequences

CONSTANTS
    Users,         \* accounts that use the client
    Contracts,     \* the users that run code when they are paid
    Owner,         \* the user that deployed TownCrier
    App,           \* the address of the client contract
    NoAddress,     \* the zero address
    Param,         \* the data of every request
    Values,        \* amounts of wei a user may attach
    Errors,        \* error codes of a response
    ResetArgs,     \* arguments the owner may pass to TownCrier's reset
    MaxRequests,   \* bound: last request id the model issues
    MaxDepth,      \* bound: nested payments
    UINT64         \* number of values of a uint64

ASSUME ClientAssumption ==
    /\ Contracts \subseteq Users
    /\ Owner \in Users
    /\ App \notin Users
    /\ NoAddress \notin Users \cup {App}
    /\ Values \subseteq Nat
    /\ Errors \subseteq Nat
    /\ ResetArgs \subseteq [price: Nat, minGas: Nat, cancellationGas: Nat]
    /\ MaxRequests \in Nat
    /\ MaxDepth \in Nat
    /\ UINT64 \in Nat
    /\ UINT64 > MaxRequests

VARIABLES
    tc,            \* storage and balance of TownCrier
    app,           \* storage and balance of the client
    calls          \* the client's suspended payments, innermost last

vars == <<tc, app, calls>>

TownCrier == INSTANCE TownCrier WITH
    Accounts <- Users \cup {App}, Contracts <- Contracts \cup {App},
    Params <- {Param}, NewVersions <- {}, MaxSurplus <- 0,
    world <- tc, stack <- <<>>

RequestIds == TownCrier!RequestIds

\* A suspended payment of client states A.  `entry` is the state in which
\* the transaction or nested call entered the contracts, `callback` the one
\* in which TownCrier called response, `unpaid` the one that is left if the
\* payment fails and the client goes on.
State(A) == [tc: TownCrier!World, app: A]
Frame(A) == [fn: {"insure", "request", "response", "cancel"}, callee: Users,
             entry: State(A), callback: State(A), unpaid: State(A)]
-----------------------------------------------------------------------------
Now == [tc |-> tc, app |-> app]
Top == calls[Len(calls)]
Become(s) == tc' = s.tc /\ app' = s.app

CanCall(u) ==
    \/ calls = <<>> /\ u \in Users
    \/ calls # <<>> /\ Top.callee \in Contracts /\ u \in Contracts

\* Function fn pays user u and waits in state s, after the payment.
PayUser(fn, u, callback, unpaid, s) ==
    /\ Len(calls) < MaxDepth
    /\ Become(s)
    /\ calls' = Append(calls, [fn |-> fn, callee |-> u, entry |-> Now,
                               callback |-> callback, unpaid |-> unpaid])

\* TownCrier takes a request with v wei, or sends the ether back.
Accepts(v) == ~tc.killswitch /\ v >= tc.MIN_FEE

\* The state after the end of TownCrier's deliver, which clears its flag.
DeliverEnds(s) == [s EXCEPT !.tc.externalCallFlag = FALSE]

\* A request that awaits an answer.
Pending(id) ==
    /\ TownCrier!Deliverable(tc, id, Param)
    /\ tc.requests[id].fee # TownCrier!CANCELLED_FEE_FLAG

\* TownCrier when deliver calls the callback.
AtCallback(id, error) ==
    [TownCrier!FeePaid(tc, id, error, TRUE) EXCEPT
        !.externalCallFlag = TRUE, !.callbacks[id] = @ + 1]

\* A user's own request to TownCrier that names the client's response as
\* its callback.  The user does not cancel it, and accepts its refund.
ForeignRequest(u, v) ==
    /\ CanCall(u)
    /\ ~tc.externalCallFlag
    /\ Accepts(v)
    /\ tc.requestCnt <= MaxRequests
    /\ tc' = TownCrier!Recorded(tc, u, v, App, Param)
    /\ UNCHANGED <<app, calls>>

\* TownCrier's owner may be a contract that the client pays.
OwnerCall ==
    /\ CanCall(Owner)
    /\ \/ tc' = [tc EXCEPT !.killswitch = TRUE]
       \/ tc' = [tc EXCEPT !.killswitch = FALSE]
       \/ \E a \in ResetArgs :
              /\ tc.unrespondedCnt = 0
              /\ tc' = [tc EXCEPT
                          !.GAS_PRICE = a.price,
                          !.MIN_FEE = a.price * a.minGas,
                          !.CANCELLATION_FEE = a.price * a.cancellationGas]
    /\ UNCHANGED <<app, calls>>
-----------------------------------------------------------------------------
(* The end of a payment.                                                   *)

EndCall(s) ==
    /\ calls # <<>>
    /\ Become(IF Top.fn = "response" THEN DeliverEnds(s) ELSE s)
    /\ calls' = SubSeq(calls, 1, Len(calls) - 1)

UserReturns == EndCall(Now)

\* response ignores that the payment failed; the other functions throw.
UserFails ==
    /\ calls # <<>> /\ Top.callee \in Contracts
    /\ EndCall(IF Top.fn = "response" THEN Top.unpaid ELSE Top.entry)

\* Out of gas after the payment: in response, which TownCrier ignores, or in
\* the function the transaction called.
OutOfGas ==
    /\ calls # <<>>
    /\ \/ EndCall(Top.callback)
       \/ EndCall(Top.entry)

PaymentEnds == UserReturns \/ UserFails \/ OutOfGas
=============================================================================
