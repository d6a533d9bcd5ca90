----------------------------- MODULE TownCrier -----------------------------
(***************************************************************************)
(* The TownCrier contract (contracts/TownCrier.sol) on the EVM.            *)
(*                                                                         *)
(* A transaction enters the contract, and every `address.call` of the      *)
(* contract hands control to the callee.  A callee that is a contract may  *)
(* return, fail, or call back into TownCrier before it does either.  The   *)
(* model therefore keeps the stack of the contract's suspended external    *)
(* calls.  A frame remembers the world at the entry of the suspended       *)
(* function, which `revert` and running out of gas restore, and the world  *)
(* when the callee got control, which a failing callee restores when its   *)
(* caller ignores the failure.                                             *)
(*                                                                         *)
(* Abstracted: the request parameters (type and data) are one value, and   *)
(* their keccak256 hash is injective on them; events other than the        *)
(* callback counter are left out; the callers' own balances are not kept.  *)
(***************************************************************************)
EXTENDS Integers, FiniteSets, Sequences

CONSTANTS
    Accounts,      \* addresses that call the contract (SGX_ADDRESS is apart)
    Contracts,     \* the accounts that run code when called
    Owner,         \* the deployer, requests[0].requester
    NoAddress,     \* the zero address of an unused slot
    Params,        \* request parameters, as identified by their hash
    Values,        \* amounts of wei a caller may attach
    Errors,        \* error codes of a response
    ResetArgs,     \* arguments the owner may pass to reset
    NewVersions,   \* addresses the owner may pass to upgrade
    MaxRequests,   \* bound: last request id the model issues
    MaxDepth,      \* bound: nested external calls
    MaxSurplus,    \* bound: ether forced into the contract
    UINT64         \* number of values of a uint64

ASSUME AccountsAssumption ==
    /\ Contracts \subseteq Accounts
    /\ Owner \in Accounts
    /\ NoAddress \notin Accounts

ASSUME NumbersAssumption ==
    /\ Values \subseteq Nat
    /\ Errors \subseteq Nat
    /\ NewVersions \subseteq Nat
    /\ ResetArgs \subseteq [price: Nat, minGas: Nat, cancellationGas: Nat]
    /\ MaxRequests \in Nat
    /\ MaxDepth \in Nat
    /\ MaxSurplus \in Nat
    /\ UINT64 \in Nat
    /\ UINT64 > MaxRequests

CANCELLED_FEE_FLAG == 1
DELIVERED_FEE_FLAG == 0

RequestIds == 0..MaxRequests

\* The contract's initial prices, in units of 5000 gas: reset(1, 6, 5).
InitialPrices == [price |-> 1, minGas |-> 6, cancellationGas |-> 5]

\* One slot of the `requests` array.
Request == [requester: Accounts \cup {NoAddress}, fee: Nat,
            callbackAddr: Accounts \cup {NoAddress},
            paramsHash: Params \cup {NoAddress}]

\* Storage and balance of the contract: all that a failed call rolls back.
\* `surplus` (ether nobody has a claim on) and `callbacks` (callback calls
\* made per request) are history and never guard an action.
World == [GAS_PRICE: Nat, MIN_FEE: Nat, CANCELLATION_FEE: Nat,
          killswitch: BOOLEAN, externalCallFlag: BOOLEAN,
          requestCnt: Nat, unrespondedCnt: Nat,
          requests: [RequestIds -> Request], newVersion: Int,
          balance: Int, surplus: Nat, callbacks: [RequestIds -> Nat]]

\* A suspended external call of the contract.
Frame == [fn: {"request", "cancel", "deliver", "withdraw"},
          callee: Accounts, entry: World, atCall: World]

VARIABLES
    world,         \* the contract's storage and balance
    stack          \* the contract's suspended external calls, innermost last

vars == <<world, stack>>
-----------------------------------------------------------------------------
(* The EVM's calls.                                                        *)

Top == stack[Len(stack)]
Pop == SubSeq(stack, 1, Len(stack) - 1)

\* An account starts a transaction, or a contract that an external call
\* gave control to calls the contract again, itself or through another.
CanCall(c) ==
    \/ stack = <<>> /\ c \in Accounts
    \/ stack # <<>> /\ Top.callee \in Contracts /\ c \in Contracts

\* The function fn, entered in the current world, calls `to` in world w.
ExternalCall(fn, to, w) ==
    /\ Len(stack) < MaxDepth
    /\ world' = w
    /\ stack' = Append(stack, [fn |-> fn, callee |-> to,
                               entry |-> world, atCall |-> w])

\* Mutant of Finish: deliver leaves the flag set.
FinishKeepsFlag(fn, w) ==
    IF fn \in {"withdraw", "deliver"} THEN w
    ELSE [w EXCEPT !.externalCallFlag = FALSE]

\* What the suspended function does in world w when its call is over: all
\* but withdraw clear the flag, and nothing else is written.
Finish(fn, w) ==
    IF fn = "withdraw" THEN w ELSE [w EXCEPT !.externalCallFlag = FALSE]
-----------------------------------------------------------------------------
Init ==
    /\ world =
         [GAS_PRICE |-> InitialPrices.price,
          MIN_FEE |-> InitialPrices.price * InitialPrices.minGas,
          CANCELLATION_FEE |->
              InitialPrices.price * InitialPrices.cancellationGas,
          killswitch |-> FALSE, externalCallFlag |-> FALSE,
          requestCnt |-> 1, unrespondedCnt |-> 0,
          requests |-> [i \in RequestIds |->
              [requester |-> IF i = 0 THEN Owner ELSE NoAddress,
               fee |-> 0, callbackAddr |-> NoAddress,
               paramsHash |-> NoAddress]],
          newVersion |-> 0, balance |-> 0, surplus |-> 0,
          callbacks |-> [i \in RequestIds |-> 0]]
    /\ stack = <<>>

(* The owner's functions; a call by anyone else returns at once.           *)

Upgrade(newAddr) ==
    /\ CanCall(Owner)
    /\ world.unrespondedCnt = 0
    /\ world' = [world EXCEPT !.newVersion = -newAddr, !.killswitch = TRUE]
    /\ UNCHANGED stack

\* Mutant of Reset: prices may change under open requests.
ResetAnyTime(args) ==
    /\ CanCall(Owner)
    /\ world' = [world EXCEPT
                   !.GAS_PRICE = args.price,
                   !.MIN_FEE = args.price * args.minGas,
                   !.CANCELLATION_FEE = args.price * args.cancellationGas]
    /\ UNCHANGED stack

Reset(args) ==
    /\ CanCall(Owner)
    /\ world.unrespondedCnt = 0
    /\ world' = [world EXCEPT
                   !.GAS_PRICE = args.price,
                   !.MIN_FEE = args.price * args.minGas,
                   !.CANCELLATION_FEE = args.price * args.cancellationGas]
    /\ UNCHANGED stack

Suspend ==
    /\ CanCall(Owner)
    /\ world' = [world EXCEPT !.killswitch = TRUE]
    /\ UNCHANGED stack

Restart ==
    /\ CanCall(Owner)
    /\ world.newVersion = 0
    /\ world' = [world EXCEPT !.killswitch = FALSE]
    /\ UNCHANGED stack

\* The only external call made without the flag.
Withdraw ==
    /\ CanCall(Owner)
    /\ world.unrespondedCnt = 0
    /\ ExternalCall("withdraw", Owner,
                    [world EXCEPT !.balance = 0, !.surplus = 0])
-----------------------------------------------------------------------------
(* request.  With the flag set the call reverts, which changes nothing.    *)

\* Suspended, or too little ether: the value attached is sent back.
RequestRefused(c, v) ==
    /\ CanCall(c)
    /\ ~world.externalCallFlag
    /\ world.killswitch \/ v < world.MIN_FEE
    /\ ExternalCall("request", c, [world EXCEPT !.externalCallFlag = TRUE])

\* Mutant of Recorded: the callback address is not stored.
RecordedWithoutCallback(w, c, v, cb, p) ==
    [w EXCEPT !.requestCnt = @ + 1,
              !.unrespondedCnt = (@ + 1) % UINT64,
              !.requests[w.requestCnt] =
                  [requester |-> c, fee |-> v,
                   callbackAddr |-> NoAddress, paramsHash |-> p],
              !.balance = @ + v]

\* The world after a request with v wei is recorded under the next id.
Recorded(w, c, v, cb, p) ==
    [w EXCEPT !.requestCnt = @ + 1,
              !.unrespondedCnt = (@ + 1) % UINT64,
              !.requests[w.requestCnt] =
                  [requester |-> c, fee |-> v,
                   callbackAddr |-> cb, paramsHash |-> p],
              !.balance = @ + v]

RequestRecorded(c, v, cb, p) ==
    /\ CanCall(c)
    /\ ~world.externalCallFlag
    /\ ~world.killswitch
    /\ v >= world.MIN_FEE
    /\ world.requestCnt <= MaxRequests
    /\ world' = Recorded(world, c, v, cb, p)
    /\ UNCHANGED stack
-----------------------------------------------------------------------------
(* deliver.  SGX_ADDRESS is no contract: only a transaction of its own     *)
(* reaches deliver, never a callee.                                        *)

\* Mutant of Deliverable: a request is answered however often SGX delivers.
DeliverableAgain(w, id, p) ==
    /\ id > 0
    /\ w.requests[id].requester # NoAddress
    /\ w.requests[id].paramsHash = p

Deliverable(w, id, p) ==
    /\ id > 0
    /\ w.requests[id].requester # NoAddress
    /\ w.requests[id].fee # DELIVERED_FEE_FLAG
    /\ w.requests[id].paramsHash = p

\* Mutant of Responded: the counter is not decremented.
RespondedUncounted(w, id) ==
    [w EXCEPT !.requests[id].fee = DELIVERED_FEE_FLAG]

\* The request is marked as responded to.
Responded(w, id) ==
    [w EXCEPT !.requests[id].fee = DELIVERED_FEE_FLAG,
              !.unrespondedCnt = (@ - 1) % UINT64]

\* The response to a cancelled request: the cancellation fee goes to SGX.
DeliverCancelled(id, p) ==
    /\ stack = <<>>
    /\ Deliverable(world, id, p)
    /\ world.requests[id].fee = CANCELLED_FEE_FLAG
    /\ world.balance >= world.CANCELLATION_FEE
    /\ world' = [Responded(world, id) EXCEPT !.balance = @ - world.CANCELLATION_FEE]
    /\ UNCHANGED stack

\* The world after the fee left for SGX or, for a server error, for the
\* requester; `accepted` is the ignored result of the latter's call, whose
\* gas, 2300 and the stipend, is too little to call back and change anything.
FeePaid(w, id, error, accepted) ==
    LET fee == w.requests[id].fee IN
    IF error < 2 \/ accepted
    THEN [Responded(w, id) EXCEPT !.balance = @ - fee]
    ELSE [Responded(w, id) EXCEPT !.surplus = @ + fee]

\* The response to a pending request, up to the call of the callback.
DeliverAnswer(id, p, error, accepted) ==
    /\ stack = <<>>
    /\ Deliverable(world, id, p)
    /\ world.requests[id].fee # CANCELLED_FEE_FLAG
    /\ error < 2 => world.balance >= world.requests[id].fee
    /\ accepted => world.balance >= world.requests[id].fee
    /\ ~accepted => /\ error >= 2
                    /\ \/ world.requests[id].requester \in Contracts
                       \/ world.balance < world.requests[id].fee
    /\ ExternalCall("deliver", world.requests[id].callbackAddr,
                    [FeePaid(world, id, error, accepted) EXCEPT
                        !.externalCallFlag = TRUE,
                        !.callbacks[id] = @ + 1])
-----------------------------------------------------------------------------
(* cancel.  With the flag set it reverts, under the killswitch it returns  *)
(* 0, and for a request that is not the caller's it returns FAIL_FLAG.     *)

\* Mutant of Cancelled: the whole fee is paid back.
CancelledForFree(w, id) ==
    [w EXCEPT !.requests[id].fee = CANCELLED_FEE_FLAG,
              !.externalCallFlag = TRUE,
              !.balance = @ - w.requests[id].fee]

\* Mutant of Cancelled: the wrong flag is stored.
CancelledAsDelivered(w, id) ==
    [w EXCEPT !.requests[id].fee = DELIVERED_FEE_FLAG,
              !.externalCallFlag = TRUE,
              !.balance = @ - (w.requests[id].fee - w.CANCELLATION_FEE)]

Cancelled(w, id) ==
    [w EXCEPT !.requests[id].fee = CANCELLED_FEE_FLAG,
              !.externalCallFlag = TRUE,
              !.balance = @ - (w.requests[id].fee - w.CANCELLATION_FEE)]

Cancel(c, id) ==
    /\ CanCall(c)
    /\ ~world.externalCallFlag
    /\ ~world.killswitch
    /\ world.requests[id].requester = c
    /\ world.requests[id].fee >= world.CANCELLATION_FEE
    /\ world.balance >= world.requests[id].fee - world.CANCELLATION_FEE
    /\ ExternalCall("cancel", c, Cancelled(world, id))
-----------------------------------------------------------------------------
(* The end of an external call.                                            *)

CalleeReturns ==
    /\ stack # <<>>
    /\ world' = Finish(Top.fn, world)
    /\ stack' = Pop

\* The callee fails and its effects are undone.  deliver goes on; the other
\* functions revert.
CalleeFails ==
    /\ stack # <<>>
    /\ Top.callee \in Contracts
    /\ world' = IF Top.fn = "deliver" THEN Finish(Top.fn, Top.atCall)
                                      ELSE Top.entry
    /\ stack' = Pop

\* The suspended function itself runs out of gas after its call.
OutOfGas ==
    /\ stack # <<>>
    /\ world' = Top.entry
    /\ stack' = Pop

\* Ether can reach any address without a call (selfdestruct, block reward).
ForceEther(v) ==
    /\ world.surplus + v <= MaxSurplus
    /\ world' = [world EXCEPT !.balance = @ + v, !.surplus = @ + v]
    /\ UNCHANGED stack
-----------------------------------------------------------------------------
OwnerCall ==
    \/ \E a \in NewVersions : Upgrade(a)
    \/ \E args \in ResetArgs : Reset(args)
    \/ Suspend
    \/ Restart
    \/ Withdraw

RequesterCall ==
    \E c \in Accounts :
        \/ \E v \in Values : RequestRefused(c, v)
        \/ \E v \in Values, cb \in Accounts, p \in Params :
               RequestRecorded(c, v, cb, p)
        \/ \E id \in RequestIds : Cancel(c, id)

Deliver ==
    \E id \in RequestIds, p \in Params :
        \/ DeliverCancelled(id, p)
        \/ \E error \in Errors, accepted \in BOOLEAN :
               DeliverAnswer(id, p, error, accepted)

CallEnds == CalleeReturns \/ CalleeFails \/ OutOfGas

Next ==
    \/ OwnerCall
    \/ RequesterCall
    \/ Deliver
    \/ CallEnds
    \/ \E v \in Values : ForceEther(v)

Spec == Init /\ [][Next]_vars
-----------------------------------------------------------------------------
(* Properties.                                                             *)

\* Every value the contract stores has its type.
TypeOK ==
    /\ world \in World
    /\ stack \in Seq(Frame)

\* The requests that were made and not responded to, cancelled ones included.
Open(w) == {id \in RequestIds \ {0} : w.requests[id].fee # DELIVERED_FEE_FLAG}

\* What the contract still owes for a request: its fee or, once it was
\* cancelled, the cancellation fee.
Claim(w, id) ==
    IF w.requests[id].fee = CANCELLED_FEE_FLAG
    THEN w.CANCELLATION_FEE
    ELSE w.requests[id].fee

\* The wei that are owed, each labelled with the request it is owed for.
OwedWei(w) == UNION {{id} \X (1..Claim(w, id)) : id \in Open(w)}

CountIs(w) == w.unrespondedCnt = Cardinality(Open(w))

SolventIn(w) == w.balance = Cardinality(OwedWei(w)) + w.surplus

FeeCovers(w) ==
    \A id \in Open(w) : \/ w.requests[id].fee = CANCELLED_FEE_FLAG
                        \/ w.requests[id].fee >= w.MIN_FEE

\* unrespondedCnt, on which upgrade, reset and withdraw rely, is the number
\* of requests without a response in every world the contract is in or can
\* be rolled back to; so the uint64 decrements of deliver never wrap.
UnrespondedCount == CountIs(world)

\* The balance is exactly what is owed for open requests and what nobody
\* claims: no interleaving of nested calls, failures, cancellations and
\* withdrawals lets the contract pay one request with the ether of another.
Solvent == SolventIn(world)

\* A pending request never holds less than the current MIN_FEE, although
\* reset may raise it: fee - MIN_FEE in deliver does not wrap around.
PendingFeeCoversMinFee == FeeCovers(world)

\* A request is answered by at most one callback, and only one that is no
\* longer open was; an id that was never issued gets none.
AnsweredOnce ==
    \A id \in RequestIds :
        /\ world.callbacks[id] <= 1
        /\ world.callbacks[id] = 1 => /\ id \in 1..(world.requestCnt - 1)
                                      /\ id \notin Open(world)

\* externalCallFlag is set exactly while a call that sets it is suspended:
\* a failed or exhausted call never leaves request and cancel locked.
FlagMatchesStack ==
    world.externalCallFlag <=>
        \E i \in 1..Len(stack) : stack[i].fn # "withdraw"

\* The world as of the last completed transaction.
Committed == IF stack = <<>> THEN world ELSE stack[1].entry

StatusIn(w, id) ==
    IF id >= w.requestCnt THEN "none"
    ELSE IF w.requests[id].fee = CANCELLED_FEE_FLAG THEN "cancelled"
    ELSE IF w.requests[id].fee # DELIVERED_FEE_FLAG THEN "open"
    ELSE IF w.callbacks[id] = 1 THEN "answered"
    ELSE "settled"

Escrow == INSTANCE RequestEscrow WITH
    Ids <- RequestIds \ {0},
    status <- [id \in RequestIds \ {0} |-> StatusIn(Committed, id)],
    held <- [id \in RequestIds \ {0} |-> Claim(Committed, id)]

\* Between transactions the contract is an escrow per request: whatever
\* callees do inside a transaction, at its end each request has moved along
\* its life or not at all, and a response has closed one request only.
ImplementsEscrow == Escrow!Spec

\* Under the reset arguments considered, no price of a request is equal to
\* one of the two flags stored in the fee field.
FlagsDistinct ==
    \A a \in ResetArgs :
        /\ a.price * a.minGas > CANCELLED_FEE_FLAG
        /\ a.price * a.cancellationGas > CANCELLED_FEE_FLAG
=============================================================================
